---------------------------- MODULE ScriptChannel ---------------------------
(***************************************************************************)
(* What the cable promises the two programs: the bytes of a transfer       *)
(* arrive one at a time, in the order of the script, each exactly once and *)
(* as it was sent, whichever of the two sides is the sender.               *)
(***************************************************************************)
EXTENDS Integers

CONSTANTS
  Size,    \* how many steps the transfer has
  Data,    \* the steps that carry a byte
  Sent,    \* Sent[i]: the byte of step i
  None     \* nothing has arrived for the step

VARIABLE got   \* got[i]: the byte the receiver of step i has taken, or None

ChannelInit == got = [i \in 1..Size |-> None]

Deliver(i) ==
  /\ got[i] = None
  /\ \A j \in Data : j < i => got[j] # None
  /\ got' = [got EXCEPT ![i] = Sent[i]]

ChannelNext == \E i \in Data : Deliver(i)

ChannelSpec == ChannelInit /\ [][ChannelNext]_got
=============================================================================
