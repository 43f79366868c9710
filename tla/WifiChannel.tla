---------------------------- MODULE WifiChannel ----------------------------
(***************************************************************************)
(* What wifiman_msg.c promises to its callers, without threads or locks: a *)
(* first-in first-out channel of at most Capacity messages, read by one    *)
(* task, which is deleted once, together with what is still in it, and     *)
(* accepts nothing afterwards.                                             *)
(***************************************************************************)
EXTENDS Naturals, Sequences

CONSTANTS
  Messages,   (* the message classes                                       *)
  Capacity    (* queue_length of wifiman_msg_init                          *)

VARIABLES
  box,        (* the messages sent and not yet received                    *)
  open        (* gh_wifiman_msg_queue is not NULL                          *)

ChannelVars == <<box, open>>

ChannelInit == box = <<>> /\ open = TRUE

(* wifiman_msg_send_with_timeout returned true. *)
Put ==
  /\ open
  /\ Len(box) < Capacity
  /\ \E m \in Messages : box' = Append(box, m)
  /\ UNCHANGED open

(* wifiman_msg_recv returned true. *)
Get ==
  /\ open
  /\ box # <<>>
  /\ box' = Tail(box)
  /\ UNCHANGED open

(* wifiman_msg_deinit. *)
Delete ==
  /\ open
  /\ open' = FALSE
  /\ box' = <<>>

ChannelNext == Put \/ Get \/ Delete

ChannelSpec == ChannelInit /\ [][ChannelNext]_ChannelVars
=============================================================================
