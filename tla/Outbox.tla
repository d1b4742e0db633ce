-------------------------------- MODULE Outbox --------------------------------
(***************************************************************************)
(* What the agent promises the port forwarder about the messages it hands  *)
(* over for the client (PortForwarder::Sender): every message reaches the  *)
(* channel to the client at most once, in the order of the sends, and none *)
(* is skipped.  Messages are numbered in that order.                       *)
(***************************************************************************)
EXTENDS Naturals, Sequences

VARIABLES
    queued,     \* the messages handed over and not yet in the channel
    written     \* how many are in the channel, which are the first ones

Init == queued = <<>> /\ written = 0

Send ==
    /\ queued' = Append(queued, written + Len(queued) + 1)
    /\ UNCHANGED written

Write ==
    /\ queued # <<>>
    /\ Head(queued) = written + 1
    /\ written' = written + 1
    /\ queued' = Tail(queued)

Next == Send \/ Write

Spec == Init /\ [][Next]_<<queued, written>>

==============================================================================
