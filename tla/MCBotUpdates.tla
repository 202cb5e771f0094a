---------------------------- MODULE MCBotUpdates ----------------------------
(* Small instances of BotUpdates for TLC: the messages users may send.       *)
EXTENDS BotUpdates

Message(type, text, match) ==
  [msg |-> TRUE, type |-> type, dated |-> TRUE, text |-> text, match |-> match,
   crowded |-> FALSE]

PrivateText == Message("private", TRUE, FALSE)
GroupMatch == Message("group", TRUE, TRUE)
GroupNoMatch == Message("group", TRUE, FALSE)
GroupPhoto == Message("supergroup", FALSE, FALSE)
ChannelPost == Message("channel", TRUE, TRUE)
NoChatType == Message("missing", TRUE, FALSE)
ManyMentions == [PrivateText EXCEPT !.crowded = TRUE]
Undated == [PrivateText EXCEPT !.dated = FALSE]
NotAMessage == [Message("unknown", FALSE, FALSE) EXCEPT !.msg = FALSE]

MainShapes == {PrivateText, GroupNoMatch, NoChatType, ManyMentions}
EveryShape == {PrivateText, GroupMatch, GroupNoMatch, GroupPhoto, ChannelPost,
               NotAMessage, Undated, NoChatType, ManyMentions}
OnlyPrivate == {PrivateText}
=============================================================================
