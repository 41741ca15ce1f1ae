SPECIFICATION Spec
CONSTANTS
    wa = wa
    tg = tg
    researcher = researcher
    Inbox = Inbox
    Chats <- BothChannels
    Telegram <- OnlyTelegram
    Agents <- OneAgent
    MaxTurns = 3
    MaxAtOnce = 2
    Quotas <- SomeQuotas
    PerJidCap = 1
    GlobalCap = 1
    MaxProposals = 2
CHECK_DEADLOCK FALSE
INVARIANTS
    TypeOK
    ProposalRunsOnce
    AuditMatchesLive
    BindingsAreSound
    CheckInBeforeVerdict
PROPERTIES
    EveryAckIsAnswered
