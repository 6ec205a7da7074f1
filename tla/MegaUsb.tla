------------------------------ MODULE MegaUsb -------------------------------
(***************************************************************************)
(* mega-usb.c on the PC and the main loop of megaed-sv on a Mega           *)
(* Everdrive, over the cartridge's USB serial line: commands of a few      *)
(* characters that are answered with 'k', uploads that end with 'd', and   *)
(* 'b' for whatever the cartridge does not understand.  The PC may be      *)
(* interrupted at any byte; the line has no reset, so the next run talks   *)
(* to a cartridge that is wherever the last run has left it.               *)
(*                                                                         *)
(* A byte is a token.  Where the cartridge takes one for a number, Num is  *)
(* its value: characters and file contents are large ones.  A number of    *)
(* four bytes whose first ones are not zero is larger than all memory.  A  *)
(* block has Block bytes (0x10000).                                        *)
(*                                                                         *)
(* An operator named ..._Bug is the definition after it with a mistake.    *)
(***************************************************************************)
EXTENDS Integers, Sequences, SequencesExt

CONSTANTS
  CommandLines,   \* the argument lists mega-usb is started with
  Text,           \* the bytes of passthrough commands
  File,           \* the contents of files, by name
  Block,          \* bytes in a block
  MaxBlocks,      \* of a file that is not too large (0xf00000 / 0x10000)
  Large,          \* what a byte that is no number stands for, in blocks
  Ready,          \* bytes the line holds before a write blocks
  KeepsInput,     \* unread answers survive closing and opening the line
  MaxRuns,        \* bound: runs of mega-usb
  MaxAborts,      \* bound: runs that are interrupted
  MaxResets       \* bound: resets of the console

Number == [n0 |-> 0, n1 |-> 1, n2 |-> 2, n3 |-> 3]
Named(n) == CHOOSE t \in DOMAIN Number : Number[t] = n

ASSUME MegaAssumption ==
  /\ {Block, Ready} \subseteq Nat \ {0}
  /\ {MaxBlocks, Large, MaxRuns, MaxAborts, MaxResets} \subseteq Nat
  /\ MaxBlocks <= 3 /\ MaxBlocks <= Large
  /\ KeepsInput \in BOOLEAN

VARIABLES
  pc,       \* the run: at, argv left, out the bytes still to be written, want
            \* the answer, then the steps that follow, got what was received,
            \* did the last argument, end, met and pours what it found
  toCart,   \* bytes on their way to the cartridge
  toPc,     \* bytes on their way to the PC
  cart,     \* megaed-sv: at, left and pos of what it is reading or sending,
            \* miss bytes of the address and size that have not come
  mem,      \* the cartridge's RAM, from 0x200000
  used      \* runs, aborts and resets so far

vars == <<pc, toCart, toPc, cart, mem, used>>

Num(t) == IF t \in DOMAIN Number THEN Number[t] ELSE Large
Size == Large * Block
\* One more byte of a number that has been v so far.
Longer(v, t) == IF v = 0 THEN Num(t) ELSE Size
Cell(a) == IF a < Size THEN mem[a] ELSE "open"

-----------------------------------------------------------------------------
(* mega-usb.c                                                              *)

Blocks_Bug(name) == Len(File[name]) \div Block
\* CommandTruth: the last block is not counted when it is a part of one.
Blocks(name) == (Len(File[name]) + Block - 1) \div Block
Padded(name) ==
  [i \in 1..Block * Blocks(name) |-> IF i \in DOMAIN File[name] THEN File[name][i] ELSE "n0"]

Step(out, want) == [out |-> out, want |-> want]
Handshake == Step(<<" ", " ", " ", " ", "*", "T">>, "k")
Upload(cmd, name) ==
  <<Step(Text[cmd] \o <<Named(Blocks(name))>>, "k"), Step(Padded(name), "d")>>
\* An address and a size of four bytes each; the answer to the last step is as
\* many bytes as its name says.
Download(a, n) ==
  <<Step(<<"*", "x", "d", "n0", "n0", "n0", a, "n0", "n0", "n0", n>>, "k"), Step(<<>>, n)>>

PcKeep == UNCHANGED <<cart, mem, used>>
Begin(steps, rest, did) ==
  pc' = [pc EXCEPT !.at = "talk", !.argv = rest, !.did = did, !.got = <<>>,
          !.out = Head(steps).out, !.want = Head(steps).want, !.then = Tail(steps)]
End(how) == pc' = [pc EXCEPT !.at = "off", !.end = how, !.out = <<>>, !.then = <<>>, !.got = <<>>]

\* What was sent has arrived, as far as the cartridge reads at all: a person needs
\* longer than that to start the program again, but not longer than a test or a
\* large download takes.
Busy == cart.at \in {"game", "testing"} \/ (cart.at = "send" /\ cart.left > 0)
Settled == Busy \/ (toCart = <<>> /\ cart.at # "bad")
\* Memory is on its way, or will be as soon as some bytes have come.
Pours == cart.at \in {"addr", "size"} \/ (cart.at = "send" /\ cart.left > 0)
PcOpen(argv) ==
  /\ pc.at = "off" /\ used.runs < MaxRuns /\ Settled
  /\ pc' = [at |-> "talk", argv |-> argv, out |-> Handshake.out, want |-> Handshake.want,
            then |-> <<>>, got |-> <<>>, did |-> [op |-> "T"], end |-> "running",
            met |-> cart.at, pours |-> Pours]
  /\ toPc' = IF KeepsInput THEN toPc ELSE <<>>
  /\ used' = [used EXCEPT !.runs = @ + 1]
  /\ UNCHANGED <<toCart, cart, mem>>

\* write_to_cart, which blocks when the line is full.
PcWrite ==
  /\ pc.at = "talk" /\ pc.out # <<>> /\ Len(toCart) < Ready
  /\ toCart' = Append(toCart, Head(pc.out))
  /\ pc' = [pc EXCEPT !.out = Tail(@)]
  /\ UNCHANGED toPc /\ PcKeep

FollowingStep ==
  pc' = IF pc.then = <<>> THEN [pc EXCEPT !.at = "arg"]
        ELSE [pc EXCEPT !.out = Head(pc.then).out, !.want = Head(pc.then).want, !.then = Tail(@)]

\* read_check_byte; an unexpected answer ends the program.
PcCheck ==
  /\ pc.at = "talk" /\ pc.out = <<>> /\ pc.want \in {"k", "d"} /\ toPc # <<>>
  /\ IF Head(toPc) = pc.want THEN FollowingStep ELSE End("failed")
  /\ toPc' = Tail(toPc)
  /\ UNCHANGED toCart /\ PcKeep
\* recv_file: as many bytes as were asked for.
PcRecv ==
  /\ pc.at = "talk" /\ pc.out = <<>> /\ pc.want \in DOMAIN Number
  /\ IF Len(pc.got) = Num(pc.want) THEN FollowingStep /\ UNCHANGED toPc
     ELSE /\ toPc # <<>> /\ toPc' = Tail(toPc)
          /\ pc' = [pc EXCEPT !.got = Append(@, Head(toPc))]
  /\ UNCHANGED toCart /\ PcKeep

\* The loop over the arguments.
Arg(i) == pc.at = "arg" /\ Len(pc.argv) >= i
NextIsFile == Len(pc.argv) > 1 /\ pc.argv[2] = "-f"
LineKeep == UNCHANGED <<toCart, toPc>> /\ PcKeep
PcEnd == pc.at = "arg" /\ pc.argv = <<>> /\ End("ok") /\ LineKeep
SendFile(cmd, name, rest) ==
  IF name \notin DOMAIN File \/ Blocks(name) > MaxBlocks THEN End("failed")
  ELSE Begin(Upload(cmd, name), rest, [op |-> "up", file |-> name])
PcFile ==
  /\ Arg(2) /\ pc.argv[1] = "-f"
  /\ SendFile("*g", pc.argv[2], SubSeq(pc.argv, 3, Len(pc.argv)))
  /\ LineKeep
\* invarg: an operand is missing.
Lacks(argv) ==
  \/ argv = <<"-f">>
  \/ Len(argv) = 2 /\ argv[1] # "-f" /\ argv[2] = "-f"
  \/ Len(argv) \in 1..3 /\ argv[1] = "*xd" /\ (Len(argv) > 1 => argv[2] # "-f")
PcInvarg == pc.at = "arg" /\ Lacks(pc.argv) /\ End("failed") /\ LineKeep
\* A command that is followed by -f waits for its file.
PcPending ==
  /\ Arg(3) /\ pc.argv[1] # "-f" /\ NextIsFile
  /\ SendFile(pc.argv[1], pc.argv[3], SubSeq(pc.argv, 4, Len(pc.argv)))
  /\ LineKeep
PcDownload ==
  /\ Arg(4) /\ pc.argv[1] = "*xd" /\ ~NextIsFile
  /\ Begin(Download(pc.argv[2], pc.argv[3]), SubSeq(pc.argv, 5, Len(pc.argv)),
           [op |-> "down", addr |-> pc.argv[2], size |-> pc.argv[3]])
  /\ LineKeep
PcPassthrough ==
  /\ Arg(1) /\ pc.argv[1] \notin {"-f", "*xd"} /\ ~NextIsFile
  /\ Begin(<<Step(Text[pc.argv[1]], "k")>>, Tail(pc.argv), [op |-> pc.argv[1]])
  /\ LineKeep

PcAbort ==
  /\ pc.at # "off" /\ used.aborts < MaxAborts
  /\ End("aborted")
  /\ used' = [used EXCEPT !.aborts = @ + 1]
  /\ UNCHANGED <<toCart, toPc, cart, mem>>

PcRuns ==
  \/ PcWrite \/ PcCheck \/ PcRecv \/ PcEnd
  \/ PcFile \/ PcInvarg \/ PcPending \/ PcDownload \/ PcPassthrough

-----------------------------------------------------------------------------
(* megaed-sv: main.                                                        *)

Goto(at) == cart' = [cart EXCEPT !.at = at]
Answer(byte) == toPc' = IF pc.at = "off" /\ ~KeepsInput THEN toPc ELSE Append(toPc, byte)
Reads(at) == cart.at = at /\ toCart # <<>> /\ toCart' = Tail(toCart)
CartKeep == UNCHANGED <<pc, used>>

\* FailsForAReason: only commands are expected between commands.
CartMain_Bug ==
  /\ Reads("main")
  /\ Goto(IF Head(toCart) = "*" THEN "cmd" ELSE "bad")
  /\ UNCHANGED <<toPc, mem>> /\ CartKeep
CartMain ==
  /\ Reads("main")
  /\ CASE Head(toCart) = " " -> UNCHANGED cart
       [] Head(toCart) = "*" -> Goto("cmd")
       [] OTHER -> Goto("bad")
  /\ UNCHANGED <<toPc, mem>> /\ CartKeep

SecondByte == [g |-> "len", r |-> "run", t |-> "test", x |-> "custom"]
CartCmd ==
  /\ Reads("cmd")
  /\ IF Head(toCart) = "T" THEN Goto("main") /\ Answer("k")
     ELSE /\ UNCHANGED toPc
          /\ IF Head(toCart) \in DOMAIN SecondByte THEN Goto(SecondByte[Head(toCart)]) ELSE Goto("bad")
  /\ UNCHANGED mem /\ CartKeep

\* 'g': a count of blocks, 'k', the data by DMA, 'd'.
CartLen ==
  /\ Reads("len")
  /\ cart' = [at |-> "dma", left |-> Num(Head(toCart)) * Block, pos |-> 0, miss |-> 0]
  /\ Answer("k")
  /\ UNCHANGED mem /\ CartKeep
CartDma ==
  /\ Reads("dma") /\ cart.left > 0
  /\ mem' = [mem EXCEPT ![cart.pos] = Head(toCart)]
  /\ cart' = [cart EXCEPT !.left = @ - 1, !.pos = @ + 1]
  /\ UNCHANGED toPc /\ CartKeep
\* MegaRunsEnd: the PC is not told.
CartDmaDone_Bug ==
  /\ cart.at = "dma" /\ cart.left = 0
  /\ Goto("main") /\ UNCHANGED toPc
  /\ UNCHANGED <<toCart, mem>> /\ CartKeep
CartDmaDone ==
  /\ cart.at = "dma" /\ cart.left = 0
  /\ Goto("main") /\ Answer("d")
  /\ UNCHANGED <<toCart, mem>> /\ CartKeep
\* "'d' will arrive even if we don't write any more data".  It is a long time.
PcIdle == \/ pc.at = "off"
          \/ pc.at = "talk" /\ pc.out = <<>> /\ toPc = <<>>
CartDmaTimeout ==
  /\ cart.at = "dma" /\ cart.left > 0 /\ toCart = <<>> /\ PcIdle
  /\ Goto("main") /\ Answer("d")
  /\ UNCHANGED <<toCart, mem>> /\ CartKeep

\* do_run with a mapper it knows, which does not return.
CartRun ==
  /\ Reads("run")
  /\ IF Head(toCart) = "m" THEN Goto("game") /\ Answer("k") ELSE Goto("bad") /\ UNCHANGED toPc
  /\ UNCHANGED mem /\ CartKeep

\* do_test: a test reads nothing from the line for seconds, and its 'k' is sent
\* after it.  It fills the first 0x100000 bytes, a block here.
CartTest ==
  /\ Reads("test")
  /\ Goto(IF Head(toCart) = "5" THEN "testing" ELSE "bad")
  /\ UNCHANGED <<toPc, mem>> /\ CartKeep
CartTested ==
  /\ cart.at = "testing"
  /\ mem' = [a \in DOMAIN mem |-> IF a < Block THEN "seed" ELSE mem[a]]
  /\ Goto("main") /\ Answer("k")
  /\ UNCHANGED toCart /\ CartKeep

\* do_custom: an address and a size of four bytes each, 'k', and the memory.
CartCustom ==
  /\ Reads("custom")
  /\ IF Head(toCart) = "d" THEN cart' = [at |-> "addr", left |-> 0, pos |-> 0, miss |-> 8]
     ELSE Goto("bad")
  /\ UNCHANGED <<toPc, mem>> /\ CartKeep
CartAddr ==
  /\ Reads("addr")
  /\ cart' = [cart EXCEPT !.at = IF cart.miss = 5 THEN "size" ELSE @,
                !.pos = Longer(@, Head(toCart)), !.miss = @ - 1]
  /\ UNCHANGED <<toPc, mem>> /\ CartKeep
CartSize ==
  /\ Reads("size")
  /\ cart' = [cart EXCEPT !.at = IF cart.miss = 1 THEN "send" ELSE @,
                !.left = Longer(@, Head(toCart)), !.miss = @ - 1]
  /\ IF cart.miss = 1 THEN Answer("k") ELSE UNCHANGED toPc
  /\ UNCHANGED mem /\ CartKeep
\* CommandTruth: do_custom returns 0 and the main loop answers once more.
CartSend_Bug ==
  /\ cart.at = "send"
  /\ IF cart.left = 0 THEN Goto("main") /\ Answer("k")
     ELSE /\ cart' = [cart EXCEPT !.left = @ - 1, !.pos = @ + 1]
          /\ Answer(Cell(cart.pos))
  /\ UNCHANGED <<toCart, mem>> /\ CartKeep
CartSend ==
  /\ cart.at = "send"
  /\ IF cart.left = 0 THEN Goto("main") /\ UNCHANGED toPc
     ELSE /\ cart' = [cart EXCEPT !.left = @ - 1, !.pos = @ + 1]
          /\ Answer(Cell(cart.pos))
  /\ UNCHANGED <<toCart, mem>> /\ CartKeep

\* bad_input: what has arrived is consumed, what is still under way is not.
CartBad ==
  /\ cart.at = "bad"
  /\ \E n \in 0..Len(toCart) : toCart' = SubSeq(toCart, n + 1, Len(toCart))
  /\ Goto("main") /\ Answer("b")
  /\ UNCHANGED mem /\ CartKeep

\* The game that runs, or the user, resets the console; megaed-sv is started
\* again and finds nothing on the line.
CartReset ==
  /\ used.resets < MaxResets /\ (pc.at = "off" \/ cart.at = "game")
  /\ cart' = [at |-> "main", left |-> 0, pos |-> 0, miss |-> 0] /\ toCart' = <<>>
  /\ used' = [used EXCEPT !.resets = @ + 1]
  /\ UNCHANGED <<pc, toPc, mem>>

CartRuns ==
  \/ CartMain \/ CartCmd \/ CartLen \/ CartDma \/ CartDmaDone \/ CartDmaTimeout
  \/ CartRun \/ CartTest \/ CartTested \/ CartCustom \/ CartAddr \/ CartSize \/ CartSend \/ CartBad

-----------------------------------------------------------------------------
MegaInit ==
  /\ pc = [at |-> "off", argv |-> <<>>, out |-> <<>>, want |-> "k", then |-> <<>>,
           got |-> <<>>, did |-> [op |-> "T"], end |-> "aborted", met |-> "main", pours |-> FALSE]
  /\ toCart = <<>> /\ toPc = <<>>
  /\ cart = [at |-> "main", left |-> 0, pos |-> 0, miss |-> 0]
  /\ mem = [a \in 0..Size - 1 |-> "rom"]
  /\ used = [runs |-> 0, aborts |-> 0, resets |-> 0]
MegaNext == \/ \E argv \in CommandLines : PcOpen(argv)
            \/ PcRuns \/ PcAbort \/ CartRuns \/ CartReset
MegaSpec == MegaInit /\ [][MegaNext]_vars
\* Both programs go on; nobody has to start or to interrupt anything.
FairMegaSpec == MegaSpec /\ WF_vars(PcRuns) /\ WF_vars(CartRuns)

-----------------------------------------------------------------------------
CartPoints == {"main", "cmd", "len", "dma", "run", "test", "testing", "custom", "addr", "size",
               "send", "bad", "game"}

(***************************************************************************)
(* The line holds no more than it can, the DMA stays inside the memory     *)
(* that the largest count stands for, and the address and the size take    *)
(* eight bytes together.                                                   *)
(***************************************************************************)
MegaTypeOK ==
  /\ pc.at \in {"off", "talk", "arg"} /\ Len(toCart) <= Ready
  /\ cart.at \in CartPoints /\ cart.left \in 0..Size /\ cart.pos \in 0..2 * Size
  /\ cart.miss \in IF cart.at = "addr" THEN 5..8 ELSE IF cart.at = "size" THEN 1..4 ELSE {0}
  /\ cart.at = "dma" => cart.pos + cart.left <= Size
  /\ DOMAIN mem = 0..Size - 1

(***************************************************************************)
(* When mega-usb goes on to its next argument, the last one has had its    *)
(* effect: the file is in the cartridge's memory, all of it; what was      *)
(* downloaded is what is there; the game runs; the test is over.  A run    *)
(* that succeeds leaves no byte on the line in either direction and the    *)
(* cartridge in its main loop, about to return to it, or in the game.      *)
(* This is so after interrupted runs as well, wherever they have left the  *)
(* cartridge, with two exceptions.  One that pours memory may send a 'k'   *)
(* and a 'd' that are taken for answers.  One that is still testing        *)
(* answers the interrupted run, so that each answer is to the command      *)
(* before the one it is taken for: only an upload notices, because its     *)
(* second answer is a 'd'.                                                 *)
(***************************************************************************)
InStep == ~pc.pours /\ pc.met # "testing"
CommandTruth ==
  /\ pc.at = "arg" /\ pc.did.op = "up" /\ ~pc.pours =>
       \A i \in DOMAIN File[pc.did.file] : mem[i - 1] = File[pc.did.file][i]
  /\ pc.at = "arg" /\ InStep =>
    CASE pc.did.op = "down" -> pc.got = [i \in 1..Num(pc.did.size) |->
                                           Cell(Num(pc.did.addr) + i - 1)]
      [] pc.did.op = "*rm"  -> cart.at = "game" \/ used.resets > 0
      [] pc.did.op = "*t5"  -> cart.at = "main" /\ mem[0] = "seed"
      [] OTHER -> TRUE
  /\ pc.at = "off" /\ pc.end = "ok" /\ InStep =>
    /\ toCart = <<>> /\ toPc = <<>>
    /\ cart.at \in {"main", "game", "send"} /\ (cart.at = "send" => cart.left = 0)

(***************************************************************************)
(* A run that finds the cartridge in its main loop fails only because of   *)
(* its own arguments, whatever runs were interrupted before it.            *)
(***************************************************************************)
Sound(argv) == ~Lacks(argv) /\ \A i \in DOMAIN argv : argv[i] \notin {"*s", "missing", "large"}
FailsForAReason ==
  [][pc'.end = "failed" /\ pc.end # "failed" /\ pc.met = "main" =>
       ~Sound(pc.argv) \/ pc.did.op = "*s"]_vars

(***************************************************************************)
(* A run comes to its end, unless there is only the game to talk to, or    *)
(* one that was interrupted has left a cartridge that pours memory: such a *)
(* one may wait for eight bytes of an address and a size, and take the     *)
(* handshake, which has six, for the first of them; nobody then has a      *)
(* time-out.  Or its bytes pass for a 'k', an upload is begun, and neither *)
(* side reads what the other one writes.                                   *)
(***************************************************************************)
MegaRunsEnd ==
  pc.at # "off" ~> pc.at = "off" \/ cart.at = "game" \/ pc.met = "game" \/ pc.pours
=============================================================================
