---------------------------- MODULE HexedTransfer ---------------------------
(***************************************************************************)
(* hexed's PC mode: runs of hexed/pc_transfer, each with one command, and  *)
(* the Mega Drive's main loop, do_transfer and its command handlers, over  *)
(* the wires of HexedWires.  The PC may be interrupted (SIGINT or the two  *)
(* second timeout) at any access, the console may be reset at any access.  *)
(* PC_TRANSFER must be 1 in hexed.s for this code to be in the build.      *)
(***************************************************************************)
EXTENDS HexedWires, Sequences, SequencesExt

CONSTANTS
  Requests,     \* the command lines pc_transfer is run with
  Addr,         \* the addresses that exist here, apart from the 20 bytes at
                \* 0xffe000 that "return" leaves its registers in
  VramBytes,    \* bytes of VRAM (0x10000), even
  LoadBytes,    \* bytes of VRAM, CRAM and VSRAM in a savestate, even
  LoadRegs,     \* VDP registers in a savestate (0x20)
  MaxRuns,      \* bound: how often pc_transfer is started
  MaxAborts,    \* bound: how many of the runs are interrupted
  MaxResets     \* bound: how often the console is reset

ASSUME BoundsAssumption ==
  {VramBytes, LoadBytes, LoadRegs, MaxRuns, MaxAborts, MaxResets} \subseteq Nat

VARIABLES
  job,    \* the PC's run: req, the calls still to make and the last one made, rd the
          \* bytes received, and how it ended
  cpu,    \* do_transfer's registers: stage, cmd, op, acc bytes, left,
          \* addr, early
  ram,    \* the console's memory
  jumps,  \* the addresses the console has jumped to
  before, \* history: ram as it was when the run started
  used    \* history: runs, aborts and resets so far, and whether every command
          \* line so far was Encodable

vars == <<pc, md, job, cpu, ram, jumps, before, used>>
mdHas == <<md, cpu, ram, jumps>>
pcHas == <<pc, job, before>>

ASSUME WholeNibbles == Nibble = 0..15 /\ Addr \subseteq Nat

\* A byte is its pair of nibbles; numbers go over the cable big endian, and
\* what does not fit into their bytes is lost.
B(n) == <<n % 16, (n \div 16) % 16>>
Num(bytes) ==
  LET upTo[i \in 0..Len(bytes)] ==
        IF i = 0 THEN 0 ELSE 256 * upTo[i - 1] + Low(bytes[i]) + 16 * High(bytes[i])
  IN  upTo[Len(bytes)]
Bytes3(n) == <<B(n \div 65536), B(n \div 256), B(n)>>

CmdPrefix == B(90)
Code == [send |-> B(193), recv |-> B(194), jump |-> B(195), io |-> B(196),
         loadstate |-> B(197), recvvram |-> B(198)]
Command(b) == CHOOSE c \in DOMAIN Code : Code[c] = b
IsCommand(b) == \E c \in DOMAIN Code : Code[c] = b   \* CMD_TEST only returns

IoCode == [r8 |-> B(176), r16 |-> B(177), r32 |-> B(178),
           w8 |-> B(179), w16 |-> B(180), w32 |-> B(181)]
IoOf(b) == CHOOSE o \in DOMAIN IoCode : IoCode[o] = b
Width == [r8 |-> 1, r16 |-> 2, r32 |-> 4, w8 |-> 1, w16 |-> 2, w32 |-> 4]
Reads == {"r8", "r16", "r32"}
IoOps == [op: Reads, addr: Nat]
           \cup [op: DOMAIN IoCode \ Reads, addr: Nat, data: Seq(Byte)]

\* The command lines that main accepts; the file of "send" and "loadstate"
\* is read before the transfer.
SendLine == [cmd: {"send"}, addr: Nat, data: Seq(Byte)]
RecvLine == [cmd: {"recv"}, addr: Nat, size: Nat]
JumpLine == [cmd: {"jump"}, addr: Nat]
IoLine == [cmd: {"io"}, ops: Seq(IoOps)]
\* The file's chunks must fill the whole of it.
LoadLine == [cmd: {"loadstate"}, data: {d \in Seq(Byte) : Len(d) = LoadBytes + LoadRegs}]
VramLine == [cmd: {"recvvram"}]

ASSUME RequestsAssumption ==
  Requests \subseteq SendLine \cup RecvLine \cup JumpLine \cup IoLine \cup LoadLine \cup VramLine

\* What a command line must be to be carried out.  Its numbers fit into the
\* bytes they are sent in; there is at least one byte to transfer, since the
\* console's loops count after the first one; the count of i/o operations is
\* not negative as a signed word; a write has all its bytes; and a program, a
\* word or a long is at an even address.
Encodable(r) ==
  /\ r.cmd \in {"send", "recv", "jump"} => r.addr < 16777216
  /\ r.cmd = "send" => Len(r.data) > 0 /\ Len(r.data) < 16777216
  /\ r.cmd = "recv" => r.size > 0 /\ r.size < 16777216
  /\ r.cmd = "jump" => r.addr % 2 = 0
  /\ r.cmd = "io" => /\ Len(r.ops) <= 32768
                     /\ \A i \in DOMAIN r.ops :
                          /\ r.ops[i].addr < 16777216
                          /\ Width[r.ops[i].op] > 1 => r.ops[i].addr % 2 = 0
                          /\ r.ops[i].op \notin Reads => Len(r.ops[i].data) = Width[r.ops[i].op]
  /\ r.cmd = "loadstate" => LoadBytes + LoadRegs > 0
  /\ r.cmd = "recvvram" => VramBytes > 0

Peek(m, a) == IF a \in Addr THEN m[a] ELSE <<0, 0>>
Poke(m, a, bytes) ==
  [x \in Addr |-> IF x - a + 1 \in DOMAIN bytes THEN bytes[x - a + 1] ELSE m[x]]
PeekN(m, a, n) == [i \in 1..n |-> Peek(m, a + i - 1)]
VramByte(i) == B(i)

-----------------------------------------------------------------------------
(* The PC: main's calls of the primitives, for each command.               *)

Sends(bytes) == [i \in DOMAIN bytes |-> [call |-> "send", byte |-> bytes[i]]]
Recvs(n) == [i \in 1..n |-> [call |-> "recv"]]
ToInput == <<[call |-> "toIn"]>>
ToOutput == <<[call |-> "toOut"]>>

IoCalls(o) ==
  ToOutput \o Sends(<<IoCode[o.op]>> \o Bytes3(o.addr))
    \o IF o.op \in Reads THEN ToInput \o Recvs(Width[o.op]) ELSE Sends(o.data)

Calls(r) ==
  Sends(<<CmdPrefix, Code[r.cmd]>>) \o
  CASE r.cmd = "send" -> Sends(Bytes3(r.addr) \o Bytes3(Len(r.data)) \o r.data)
    [] r.cmd = "recv" -> Sends(Bytes3(r.addr) \o Bytes3(r.size)) \o ToInput \o Recvs(r.size)
    [] r.cmd = "jump" -> Sends(Bytes3(r.addr))
    [] r.cmd = "io"   -> Sends(Tail(Bytes3(Len(r.ops))))
                           \o FlattenSeq([i \in DOMAIN r.ops |-> IoCalls(r.ops[i])])
    [] r.cmd = "loadstate" -> Sends(r.data)
    [] r.cmd = "recvvram"  -> ToInput \o Recvs(VramBytes)

\* The console is waiting for the PC, or for nothing: starting a program on
\* the PC takes far longer than any stretch between two of its loops.
MdSettled ==
  \/ md.at \in {"idle", "hang"}
  \/ md.at \in {"askLow", "recvLow", "sendLow", "swLow"} /\ pc.tl = 1

PcRun(r) ==
  /\ pc.at = "off" /\ used.runs < MaxRuns /\ MdSettled
  /\ pc' = [pc EXCEPT !.at = "startHigh"]
  /\ job' = [req |-> r, calls |-> Calls(r), rd |-> <<>>,
             last |-> "start", end |-> "running"]
  /\ before' = ram
  /\ used' = [used EXCEPT !.runs = @ + 1, !.valid = @ /\ Encodable(r)]
  /\ UNCHANGED mdHas

\* TR low asks for a transfer; the answer is TH low.
\* AckIsFresh: TR is lowered without waiting for TH high.
PcAsk_Bug == /\ pc.at = "startHigh"
             /\ pc' = [pc EXCEPT !.at = "startAck", !.tl = 1, !.tr = 0, !.out = FALSE]
             /\ UNCHANGED <<mdHas, job, before, used>>
PcAsk == /\ pc.at = "startHigh" /\ TH = 1
         /\ pc' = [pc EXCEPT !.at = "startAck", !.tl = 1, !.tr = 0, !.out = FALSE]
         /\ UNCHANGED <<mdHas, job, before, used>>
PcAcked == /\ TH = 0 /\ OutB("startAck", "done", 1, FALSE)
           /\ UNCHANGED <<mdHas, job, before, used>>

\* A byte that recv_byte has returned is kept.
Received == IF job.last = "recv" THEN Append(job.rd, pc.byte) ELSE job.rd

\* The next call of main.
PcNextCall ==
  LET c == Head(job.calls) IN
  /\ pc.at = "done" /\ job.calls # <<>>
  /\ pc' = CASE c.call = "send" -> PcSend(c.byte)
             [] c.call = "recv" -> PcStart("recvTlLow")
             [] OTHER           -> PcStart(c.call)
  /\ job' = [job EXCEPT !.calls = Tail(@), !.last = c.call, !.rd = Received]
  /\ UNCHANGED <<mdHas, before, used>>

PcExit ==
  /\ pc.at = "done" /\ job.calls = <<>>
  /\ pc' = PcStart("finish")
  /\ job' = [job EXCEPT !.end = "ok", !.rd = Received]
  /\ UNCHANGED <<mdHas, before, used>>

PcFinish == /\ MdHasSampled /\ OutB("finish", "off", 1, FALSE)
            /\ UNCHANGED <<mdHas, job, before, used>>

\* do_exit, from the SIGINT handler or a wait loop that timed out.
PcAbort ==
  /\ pc.at # "off" /\ used.aborts < MaxAborts
  /\ pc' = [pc EXCEPT !.at = "off", !.tl = 1, !.tr = 1, !.out = FALSE]
  /\ job' = [job EXCEPT !.end = "aborted"]
  /\ used' = [used EXCEPT !.aborts = @ + 1]
  /\ UNCHANGED <<mdHas, before>>

PcPrim == PcPrimitive /\ UNCHANGED <<mdHas, job, before, used>>

-----------------------------------------------------------------------------
(* The console: the main loop polls TR once a frame, do_transfer reads the *)
(* prefix and the command, and each handler is a loop over the primitives. *)

MdKeep == UNCHANGED <<pcHas, used>>
Recv(stage, last) == md' = MdRecv(last) /\ cpu' = [cpu EXCEPT !.stage = stage, !.acc = <<>>]
MdLeave == md' = MdStart("return") /\ UNCHANGED cpu
\* An address error: the 68000 leaves do_transfer for INT, and never returns.
MdCrash == md' = MdStart("done") /\ cpu' = [cpu EXCEPT !.stage = "fault"]
IsOdd(addr) == addr % 2 = 1

\* VBL and mode_transfer, or the start of main: TR low, so TH becomes an output.
MdPoll == /\ md.at \in {"idle", "boot"} /\ pc.tr = 0
          /\ md' = [md EXCEPT !.at = "startTh", !.dir = "th"]
          /\ cpu' = [cpu EXCEPT !.early = md.at = "boot"]
          /\ UNCHANGED <<ram, jumps>> /\ MdKeep

\* main with TR high: no early transfer, on to the main loop.
MdBooted == /\ md.at = "boot" /\ pc.tr = 1
            /\ md' = [md EXCEPT !.at = "idle"]
            /\ UNCHANGED <<cpu, ram, jumps>> /\ MdKeep

MdStartTh == /\ MdWrite("startTh", "askLow", 0, 0)
             /\ UNCHANGED <<cpu, ram, jumps>> /\ MdKeep

\* TL low: do_transfer is entered, its first byte must be the prefix.
MdEnter == /\ md.at = "askLow" /\ pc.tl = 0
           /\ md' = [MdRecv(TRUE) EXCEPT !.dir = "th", !.th = 0]
           /\ cpu' = [cpu EXCEPT !.stage = "prefix", !.acc = <<>>, !.early = FALSE]
           /\ UNCHANGED <<ram, jumps>> /\ MdKeep

\* Only the early wait gives up.
MdEarlyTimeout == /\ md.at = "askLow" /\ cpu.early /\ pc.tl = 1
                  /\ md' = [md EXCEPT !.at = "idle", !.dir = "in"]
                  /\ UNCHANGED <<cpu, ram, jumps>> /\ MdKeep

MdPrefix ==
  /\ md.at = "done" /\ cpu.stage = "prefix"
  /\ IF md.byte = CmdPrefix THEN Recv("cmd", TRUE) ELSE MdLeave
  /\ UNCHANGED <<ram, jumps>> /\ MdKeep

MdCommand ==
  /\ md.at = "done" /\ cpu.stage = "cmd"
  /\ IF ~IsCommand(md.byte) THEN MdLeave
     ELSE LET c == Command(md.byte) IN
       /\ md' = CASE c = "loadstate" -> MdRecv(FALSE)
                  [] c = "recvvram"  -> MdStart("swLow")
                  [] OTHER           -> MdRecv(TRUE)
       /\ cpu' = [cpu EXCEPT
            !.stage = CASE c = "loadstate" -> "load" [] c = "recvvram" -> "vram"
                        [] c = "io" -> "count" [] OTHER -> "args",
            !.cmd = c, !.acc = <<>>, !.addr = 0,
            !.left = CASE c = "loadstate" -> LoadBytes [] c = "recvvram" -> VramBytes
                       [] OTHER -> 0]
  /\ UNCHANGED <<ram, jumps>> /\ MdKeep

\* recv_ad, once or twice; then the handler proper.
MdArgs ==
  LET acc == Append(cpu.acc, md.byte)
      addr == Num(SubSeq(acc, 1, 3)) IN
  /\ md.at = "done" /\ cpu.stage = "args"
  /\ IF Len(acc) < (IF cpu.cmd = "jump" THEN 3 ELSE 6)
     THEN /\ md' = MdRecv(TRUE) /\ cpu' = [cpu EXCEPT !.acc = acc]
          /\ UNCHANGED jumps
     ELSE IF cpu.cmd = "jump"
     THEN IF IsOdd(addr) THEN MdCrash /\ UNCHANGED jumps
          ELSE MdLeave /\ jumps' = Append(jumps, addr)
     ELSE /\ md' = IF cpu.cmd = "send" THEN MdRecv(FALSE) ELSE MdStart("swLow")
          /\ cpu' = [cpu EXCEPT !.stage = cpu.cmd, !.addr = addr, !.acc = <<>>,
                                !.left = Num(SubSeq(acc, 4, 6))]
          /\ UNCHANGED jumps
  /\ UNCHANGED ram /\ MdKeep

\* CommandDone: the address is not advanced.
MdStore_Bug ==
  /\ md.at = "done" /\ cpu.stage = "send"
  /\ ram' = Poke(ram, cpu.addr, <<md.byte>>)
  /\ cpu' = [cpu EXCEPT !.left = @ - 1]
  /\ md' = IF cpu.left > 1 THEN MdRecv(FALSE) ELSE MdStart("return")
  /\ UNCHANGED jumps /\ MdKeep
\* tr_recv_loop: store, count down, and again while the count is positive.
MdStore ==
  /\ md.at = "done" /\ cpu.stage = "send"
  /\ ram' = Poke(ram, cpu.addr, <<md.byte>>)
  /\ cpu' = [cpu EXCEPT !.addr = @ + 1, !.left = @ - 1]
  /\ md' = IF cpu.left > 1 THEN MdRecv(FALSE) ELSE MdStart("return")
  /\ UNCHANGED jumps /\ MdKeep

\* RunsEnd: the loop is left one byte too late.
MdFetch_Bug ==
  /\ md.at = "done" /\ cpu.stage \in {"recv", "vram"}
  /\ IF cpu.acc # <<>> /\ cpu.left < 0 THEN MdLeave
     ELSE /\ md' = MdSend(IF cpu.stage = "vram" THEN VramByte(cpu.addr) ELSE Peek(ram, cpu.addr))
          /\ cpu' = [cpu EXCEPT !.addr = @ + 1, !.left = @ - 1, !.acc = <<md.byte>>]
  /\ UNCHANGED <<ram, jumps>> /\ MdKeep
\* tr_send_loop and tr_vram_send_loop, entered from switch_to_output: the
\* count is looked at only after a byte has been sent.
MdFetch ==
  /\ md.at = "done" /\ cpu.stage \in {"recv", "vram"}
  /\ IF cpu.acc # <<>> /\ cpu.left <= 0 THEN MdLeave
     ELSE /\ md' = MdSend(IF cpu.stage = "vram" THEN VramByte(cpu.addr) ELSE Peek(ram, cpu.addr))
          /\ cpu' = [cpu EXCEPT !.addr = @ + 1, !.left = @ - 1, !.acc = <<md.byte>>]
  /\ UNCHANGED <<ram, jumps>> /\ MdKeep

\* pcc_loadstate: words to the VDP, then the registers, and no way back.
MdLoad ==
  /\ md.at = "done" /\ cpu.stage = "load"
  /\ md' = IF cpu.left + LoadRegs = 1 THEN MdStart("hang") ELSE MdRecv(cpu.left <= 1)
  /\ cpu' = [cpu EXCEPT !.left = @ - 1, !.acc = Append(@, md.byte)]
  /\ UNCHANGED <<ram, jumps>> /\ MdKeep

\* pcc_io: the two bytes of the count, then back to input mode.
MdCount ==
  LET acc == Append(cpu.acc, md.byte) IN
  /\ md.at = "done" /\ cpu.stage = "count"
  /\ IF Len(acc) < 2
     THEN md' = MdRecv(TRUE) /\ cpu' = [cpu EXCEPT !.acc = acc]
     ELSE /\ md' = MdStart("input")
          /\ cpu' = [cpu EXCEPT !.stage = "ioNext", !.left = Num(acc), !.acc = <<>>]
  /\ UNCHANGED <<ram, jumps>> /\ MdKeep

\* The count is a signed word.
NoMoreOps == cpu.left = 0 \/ cpu.left > 32768
MdIoNext ==
  /\ md.at = "done" /\ cpu.stage = "ioNext"
  /\ IF NoMoreOps THEN MdLeave
     ELSE /\ md' = MdRecv(TRUE)
          /\ cpu' = [cpu EXCEPT !.stage = "ioOp", !.left = @ - 1, !.acc = <<>>]
  /\ UNCHANGED <<ram, jumps>> /\ MdKeep

\* A write goes on receiving; anything else switches to output first and
\* then returns if it is no read either.
MdIoOp ==
  LET acc == Append(cpu.acc, md.byte)
      write == acc[1] \in {IoCode[o] : o \in DOMAIN IoCode \ Reads} IN
  /\ md.at = "done" /\ cpu.stage = "ioOp"
  /\ IF Len(acc) < 4
     THEN md' = MdRecv(TRUE) /\ cpu' = [cpu EXCEPT !.acc = acc]
     ELSE /\ md' = IF write THEN MdRecv(TRUE) ELSE MdStart("swLow")
          /\ cpu' = [cpu EXCEPT !.stage = IF write THEN "ioWrite" ELSE "ioRead",
                                !.op = acc[1], !.addr = Num(Tail(acc)), !.acc = <<>>]
  /\ UNCHANGED <<ram, jumps>> /\ MdKeep

MdIoWrite ==
  LET acc == Append(cpu.acc, md.byte)
      width == Width[IoOf(cpu.op)] IN
  /\ md.at = "done" /\ cpu.stage = "ioWrite"
  /\ IF Len(acc) < width
     THEN md' = MdRecv(TRUE) /\ cpu' = [cpu EXCEPT !.acc = acc] /\ UNCHANGED ram
     ELSE IF width > 1 /\ IsOdd(cpu.addr) THEN MdCrash /\ UNCHANGED ram
     ELSE /\ ram' = Poke(ram, cpu.addr, acc)
          /\ md' = MdStart("input")
          /\ cpu' = [cpu EXCEPT !.stage = "ioNext", !.acc = <<>>]
  /\ UNCHANGED jumps /\ MdKeep

MdIoRead ==
  /\ md.at = "done" /\ cpu.stage = "ioRead"
  /\ IF cpu.op \notin {IoCode[o] : o \in Reads} THEN MdLeave
     ELSE IF Width[IoOf(cpu.op)] > 1 /\ IsOdd(cpu.addr) THEN MdCrash
     ELSE /\ md' = MdSend(Peek(ram, cpu.addr))
          /\ cpu' = [cpu EXCEPT !.stage = "ioSend",
               !.acc = Tail(PeekN(ram, cpu.addr, Width[IoOf(cpu.op)]))]
  /\ UNCHANGED <<ram, jumps>> /\ MdKeep

MdIoSend ==
  /\ md.at = "done" /\ cpu.stage = "ioSend"
  /\ IF cpu.acc = <<>>
     THEN md' = MdStart("input") /\ cpu' = [cpu EXCEPT !.stage = "ioNext"]
     ELSE md' = MdSend(Head(cpu.acc)) /\ cpu' = [cpu EXCEPT !.acc = Tail(@)]
  /\ UNCHANGED <<ram, jumps>> /\ MdKeep

MdReturn == /\ md.at = "return" /\ PcHasSampled
            /\ md' = [md EXCEPT !.at = "idle", !.dir = "in"]
            /\ cpu' = [cpu EXCEPT !.stage = "none"]
            /\ UNCHANGED <<ram, jumps>> /\ MdKeep

\* INT returns to the main loop, where the mode is still that of the transfer:
\* the next frame waits for one again, whatever TR is.  (After an early
\* transfer the mode is what d7 happens to hold, and this may never happen.)
MdFault == /\ md.at = "done" /\ cpu.stage = "fault"
           /\ md' = [md EXCEPT !.at = "startTh", !.dir = "th"]
           /\ cpu' = [cpu EXCEPT !.early = FALSE]
           /\ UNCHANGED <<ram, jumps>> /\ MdKeep

\* The console's reset button; the main program starts with all inputs.
MdReset == /\ used.resets < MaxResets /\ md.at # "boot"
           /\ md' = [md EXCEPT !.at = "boot", !.dir = "in"]
           /\ cpu' = [cpu EXCEPT !.stage = "none", !.acc = <<>>]
           /\ used' = [used EXCEPT !.resets = @ + 1]
           /\ UNCHANGED <<pcHas, ram, jumps>>

MdPrim == MdPrimitive /\ UNCHANGED <<cpu, ram, jumps>> /\ MdKeep

-----------------------------------------------------------------------------
TransferInit ==
  /\ pc = [at |-> "off", tl |-> 1, tr |-> 1, out |-> FALSE, data |-> 0, byte |-> <<0, 0>>]
  /\ md = [at |-> "boot", dir |-> "in", th |-> 1, data |-> 0, byte |-> <<0, 0>>, last |-> TRUE]
  /\ job = [req |-> [cmd |-> "none"], calls |-> <<>>, rd |-> <<>>, last |-> "start",
            end |-> "aborted"]
  /\ cpu = [stage |-> "none", cmd |-> "none", op |-> B(0), acc |-> <<>>, left |-> 0, addr |-> 0,
            early |-> FALSE]
  /\ ram = [a \in Addr |-> B(a)] /\ before = ram
  /\ jumps = <<>>
  /\ used = [runs |-> 0, aborts |-> 0, resets |-> 0, valid |-> TRUE]

PcProgram == PcAsk \/ PcAcked \/ PcNextCall \/ PcExit \/ PcFinish \/ PcPrim
MdHandler == \/ MdPrefix \/ MdCommand \/ MdArgs \/ MdStore \/ MdFetch \/ MdLoad
             \/ MdCount \/ MdIoNext \/ MdIoOp \/ MdIoWrite \/ MdIoRead \/ MdIoSend
MdProgram == \/ MdPoll \/ MdBooted \/ MdStartTh \/ MdEnter \/ MdEarlyTimeout
             \/ MdHandler \/ MdReturn \/ MdFault \/ MdPrim

TransferNext == \/ \E r \in Requests : PcRun(r)
                \/ PcProgram \/ PcAbort \/ MdProgram \/ MdReset

TransferSpec == TransferInit /\ [][TransferNext]_vars

\* Each processor keeps executing; nobody has to start, abort or reset.
FairTransferSpec == TransferSpec /\ WF_vars(PcProgram) /\ WF_vars(MdProgram)

-----------------------------------------------------------------------------
CpuStages == {"none", "prefix", "cmd", "args", "send", "recv", "vram", "load",
              "count", "ioNext", "ioOp", "ioWrite", "ioRead", "ioSend", "fault"}

(***************************************************************************)
(* The lines, both programs' registers, the memory (bytes only) and the    *)
(* addresses jumped to are what the two programs can hold.                 *)
(***************************************************************************)
TransferTypeOK ==
  /\ pc \in PcState /\ md \in MdState
  /\ cpu.stage \in CpuStages /\ cpu.left \in Int /\ cpu.acc \in Seq(Byte)
  /\ job.rd \in Seq(Byte) /\ job.end \in {"running", "ok", "aborted"}
  /\ ram \in [Addr -> Byte] /\ before \in [Addr -> Byte]
  /\ jumps \in Seq(Nat)
  /\ used \in [runs : 0..MaxRuns, aborts : 0..MaxAborts, resets : 0..MaxResets,
               valid : BOOLEAN]

(* What a command line promises: the memory it leaves and the bytes it      *)
(* reads, one i/o operation after the other.                               *)
IoResult(acc, o) ==
  IF o.op \in Reads
  THEN [acc EXCEPT !.rd = @ \o PeekN(acc.ram, o.addr, Width[o.op])]
  ELSE [acc EXCEPT !.ram = Poke(@, o.addr, o.data)]

\* After the first n operations.
Results(ops, m) ==
  LET upTo[n \in 0..Len(ops)] ==
        IF n = 0 THEN [ram |-> m, rd |-> <<>>] ELSE IoResult(upTo[n - 1], ops[n])
  IN  upTo

Promised(r, m) ==
  LET nothing == [ram |-> m, rd |-> <<>>] IN
  CASE r.cmd = "send" -> [nothing EXCEPT !.ram = Poke(m, r.addr, r.data)]
    [] r.cmd = "recv" -> [nothing EXCEPT !.rd = PeekN(m, r.addr, r.size)]
    [] r.cmd = "io"   -> Results(r.ops, m)[Len(r.ops)]
    [] r.cmd = "recvvram" -> [nothing EXCEPT !.rd = [i \in 1..VramBytes |-> VramByte(i - 1)]]
    [] OTHER -> nothing

(***************************************************************************)
(* As long as nobody interferes and every command line could be carried    *)
(* out: a run that ends normally has done what its command line says: the  *)
(* bytes read are the console's, and once the console is back in its main  *)
(* loop its memory is as the command leaves it, a savestate is loaded      *)
(* whole, and it has jumped where it was told to and nowhere else.  (After *)
(* ^C the console may take the next run's bytes for the rest of the        *)
(* interrupted command, and do anything.)                                  *)
(***************************************************************************)
Undisturbed == used.aborts = 0 /\ used.resets = 0 /\ used.valid
CommandDone ==
  Undisturbed =>
    /\ pc.at = "off" /\ job.end = "ok" =>
         /\ job.rd = Promised(job.req, before).rd
         /\ md.at = "idle" => ram = Promised(job.req, before).ram
         /\ md.at = "hang" => cpu.acc = job.req.data
    /\ \A i \in DOMAIN jumps : \E r \in Requests : r.cmd = "jump" /\ jumps[i] = r.addr

(***************************************************************************)
(* Whatever was interrupted before: the two ends do not drive D0-D3        *)
(* against each other.                                                     *)
(***************************************************************************)
NoTransferContention == ~Contention

(***************************************************************************)
(* TH low is taken for the answer to TR low only when the console has just *)
(* entered PC mode (its latch may still be low from the last transfer),    *)
(* never when it is in the middle of a transfer that was aborted.          *)
(***************************************************************************)
AckIsFresh ==
  [][pc.at = "startAck" /\ pc'.at = "done" => md.at \in {"startTh", "askLow"}]_vars

(***************************************************************************)
(* A run that nobody interrupts, on a console that is alive, of a command  *)
(* line that can be carried out, comes to its end, and the console returns *)
(* to its main loop (or has loaded the savestate, after which it stays in  *)
(* a loop for good).                                                       *)
(***************************************************************************)
RunsEnd == pc.at # "off" /\ md.at # "hang" /\ Undisturbed
             ~> \/ pc.at = "off" /\ job.end = "ok" /\ md.at \in {"idle", "hang"}
                \/ ~Undisturbed
=============================================================================
