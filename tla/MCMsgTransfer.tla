--------------------------- MODULE MCMsgTransfer ---------------------------
(* Two people and their chat: hello and answer are chat messages, friend is *)
(* a notification stored as chat message and as notification, greet one     *)
(* that is stored only as a notification, read is the receipt of a group    *)
(* (only pushed), and skim is the receipt of a single chat whose list does  *)
(* not end with its greatest number.                                        *)
EXTENDS MsgTransfer

Chatted == [key |-> "chat", notice |-> FALSE, history |-> TRUE, sendMsg |-> TRUE,
            chat |-> "chat", note |-> "note", sender |-> "a", reads |-> <<>>, about |-> "chat"]
Notified == [Chatted EXCEPT !.key = "note", !.notice = TRUE]
Receipt == [Notified EXCEPT !.sender = "b", !.sendMsg = FALSE]

Shapes ==
  [hello  |-> Chatted,
   answer |-> [Chatted EXCEPT !.sender = "b"],
   friend |-> Notified,
   greet  |-> [Notified EXCEPT !.sendMsg = FALSE],
   read   |-> [Receipt EXCEPT !.history = FALSE, !.reads = <<1>>],
   skim   |-> [Receipt EXCEPT !.reads = <<2, 1>>]]
MCShape == [m \in Msg |-> Shapes[m]]
=============================================================================
