--------------------------- MODULE MCHexedTransfer --------------------------
(* Command lines that take every path of both programs. *)
EXTENDS HexedTransferStory

MCNibble == 0..15
MCAddr == 0..5

SendReq(a, data) == [cmd |-> "send", addr |-> a, data |-> data]
RecvReq(a, n) == [cmd |-> "recv", addr |-> a, size |-> n]
JumpReq(a) == [cmd |-> "jump", addr |-> a]
IoReq(ops) == [cmd |-> "io", ops |-> ops]
W(op, a, data) == [op |-> op, addr |-> a, data |-> data]
R(op, a) == [op |-> op, addr |-> a]

SomeIo == IoReq(<<R("r8", 5), W("w32", 0, <<B(222), B(173), B(190), B(239)>>),
                  R("r32", 2), W("w8", 2, <<B(1)>>), W("w16", 4, <<B(2), B(3)>>),
                  R("r16", 2)>>)

MCRequests ==
  {SendReq(1, <<B(18), B(52)>>), RecvReq(0, 3), JumpReq(70000), SomeIo,
   IoReq(<<>>), [cmd |-> "loadstate", data |-> <<B(9), B(8), B(7), B(6), B(5)>>],
   [cmd |-> "recvvram"],
   \* What cannot be carried out: a word and a program at odd addresses.  (After
   \* a READ at an odd address both ends sample lines that nobody drives, and
   \* all that can follow is too much for TLC.)
   IoReq(<<W("w16", 3, <<B(2), B(3)>>), R("r8", 3)>>), JumpReq(70001)}

\* A length of 0, and a jump into memory: see the README.
MCLenZero == {SendReq(0, <<>>), RecvReq(0, 0)}
MCJump == {JumpReq(4)}
=============================================================================
