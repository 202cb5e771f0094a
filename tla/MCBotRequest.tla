---------------------------- MODULE MCBotRequest ----------------------------
(* Small instances of BotRequest for TLC.                                    *)
EXTENDS BotRequest

Requests == 1 .. 2
=============================================================================
