---------------------------- MODULE MCX32Mailbox ----------------------------
(* Calls of the kinds that main.c's 32X tests make, and two that go wrong. *)
EXTENDS X32Mailbox

Call(op, slave, a0, a1) == [op |-> op, slave |-> slave, a0 |-> a0, a1 |-> a1]
MCCell == <<9218, 0>>
MCGarbage == {[op |-> "echo", slave |-> 0], [op |-> "echo", slave |-> 1]}
MCCalls ==
  { Call("echo", 0, <<4660, 0>>, <<0, 0>>), Call("echo", 1, <<41029, 0>>, <<0, 0>>),
    Call("write", 0, MCCell, <<7, 9>>), Call("read", 1, MCCell, <<0, 0>>),
    Call("write", 1, MaskReg, <<0, 8>>), Call("setsr", 1, <<0, 240>>, <<0, 0>>),
    Call("getsr", 1, <<0, 0>>, <<0, 0>>), Call("bad", 0, <<0, 0>>, <<0, 0>>), Call("read", 0, <<1, 1>>, <<0, 0>>) }
=============================================================================
