----------------------------- MODULE MCChatRuns -----------------------------
(* One chat of each channel, one agent, for model checking the chat runs.   *)
EXTENDS ChatRuns

CONSTANTS wa, tg, researcher

BothChannels == {wa, tg}
OnlyTelegram == {tg}
(* Three messages to WhatsApp, or two to Telegram, or one to each.          *)
SomeQuotas == {[c \in BothChannels |-> IF c = wa THEN q[1] ELSE q[2]] :
                  q \in {<<3, 0>>, <<0, 2>>, <<1, 1>>}}

OneAgent     == {researcher}

=============================================================================
