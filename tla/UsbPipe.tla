------------------------------ MODULE UsbPipe -------------------------------
(***************************************************************************)
(* What an endpoint of the device promises: the packets that were accepted *)
(* come out once, in order, with what was put in; a new configuration may  *)
(* discard the youngest of those that have not come out.                   *)
(***************************************************************************)
EXTENDS Integers, Sequences

VARIABLES
  sent,  \* number of the last packet that went in
  queue, \* the packets accepted and not yet taken out
  taken  \* number of the last packet that came out, 0 at first

PipeInit == sent = 0 /\ queue = <<>> /\ taken = 0

Accept == sent' = sent + 1 /\ queue' = Append(queue, sent') /\ UNCHANGED taken

Take == /\ queue # <<>> /\ taken' = Head(queue)
        /\ queue' = Tail(queue) /\ UNCHANGED sent

Discard == /\ \E n \in 0..Len(queue) : queue' = SubSeq(queue, 1, n)
           /\ UNCHANGED <<sent, taken>>

PipeSpec == PipeInit /\ [][Accept \/ Take \/ Discard]_<<sent, queue, taken>>
=============================================================================
