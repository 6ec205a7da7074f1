------------------------- MODULE HexedTransferProofs ------------------------
(***************************************************************************)
(* Whatever pc_transfer is asked for, whenever it is interrupted or the    *)
(* console reset, and however fast the two machines are: the data lines    *)
(* are never driven from both ends, and a start is answered only by a      *)
(* console that polls for it.  Both follow from the handshake alone, not   *)
(* from what is sent: the calls the PC makes are taken in any order.  The  *)
(* third section is about what is sent: both sides hold what they can      *)
(* hold.  The rest shows that a run nobody interferes with does what its   *)
(* command line says: the calls of the command and where each byte stands  *)
(* among them; that each step of either program takes the story of         *)
(* HexedTransferStory to its next state; and that its end is what was      *)
(* promised.                                                               *)
(***************************************************************************)
EXTENDS HexedTransferStory, SequenceTheorems, FiniteSetTheorems, TLAPS

PcTlLow == {"sendHigh", "sendTlHigh", "recvLow", "recvLowIn", "recvTlHigh"}
PcInputs == {"off", "startHigh", "startAck", "recvLow", "recvLowIn", "recvTlHigh",
             "recvHigh", "recvHighIn", "delay"}
RecvPoints == {"recvClr", "recvLow", "recvSet", "recvHigh", "recvNext"}
DownStages == {"prefix", "cmd", "args", "send", "load", "count", "ioOp", "ioWrite"}
UpStages == {"recv", "vram", "ioRead", "ioSend"}
NextStages == {"send", "load"}
Asleep == {"boot", "idle"}

PcShape ==
  /\ pc = [at |-> pc.at, tl |-> pc.tl, tr |-> pc.tr, out |-> pc.out,
           data |-> pc.data, byte |-> pc.byte]
  /\ pc.at \in PcPoints /\ pc.tl \in {0, 1} /\ pc.tr \in {0, 1} /\ pc.out \in BOOLEAN

MdShape ==
  /\ md = [at |-> md.at, dir |-> md.dir, th |-> md.th, data |-> md.data,
           byte |-> md.byte, last |-> md.last]
  /\ md.at \in MdPoints /\ md.dir \in {"in", "th", "data"} /\ md.th \in {0, 1}
  /\ md.last \in BOOLEAN
  /\ cpu = [stage |-> cpu.stage, cmd |-> cpu.cmd, op |-> cpu.op, acc |-> cpu.acc,
            left |-> cpu.left, addr |-> cpu.addr, early |-> cpu.early]
  /\ cpu.stage \in CpuStages
  /\ cpu.stage = "args" => cpu.cmd \in {"send", "recv", "jump"}

PcLines ==
  /\ pc.tl = 0 <=> pc.at \in PcTlLow
  /\ pc.tr = 0 <=> pc.at = "startAck"
  /\ pc.at \in PcInputs => ~pc.out

MdLines ==
  /\ md.at \in Asleep => md.dir = "in"
  /\ md.at = "startTh" => md.dir = "th"
  /\ md.at = "askLow" => md.dir = "th" /\ md.th = 0
  /\ md.at \in RecvPoints => md.dir = "th" /\ cpu.stage \in DownStages
  /\ md.at \in RecvPoints /\ ~md.last => cpu.stage \in NextStages
  /\ md.at \in {"recvLow", "recvSet"} => md.th = 0
  /\ md.at \in {"recvHigh", "recvNext"} => md.th = 1
  /\ md.at = "recvNext" => ~md.last
  /\ md.at = "done" => \/ md.dir = "th" /\ cpu.stage \in DownStages \cup {"ioNext", "fault"}
                       \/ md.dir = "data" /\ md.th = 1 /\ cpu.stage \in UpStages \cup {"fault"}
  /\ md.at = "done" /\ md.th = 0 => cpu.stage \in NextStages
  /\ md.at \in {"swLow", "swDir"} => md.dir = "th"
  /\ md.at = "swTh" => md.dir = "data"
  /\ md.at \in {"swLow", "swDir", "swTh"} => md.th = 1 /\ cpu.stage \in {"recv", "vram", "ioRead"}
  /\ md.at \in {"sendLow", "sendPutLow"} => md.dir = "data" /\ md.th = 1
  /\ md.at \in {"sendHigh", "sendPutHigh"} => md.dir = "data" /\ md.th = 0
  /\ md.at \in {"sendLow", "sendPutLow", "sendHigh", "sendPutHigh"} =>
       cpu.stage \in {"recv", "vram", "ioSend"}
  /\ md.at = "input" => md.dir # "in" /\ md.th = 1 /\ cpu.stage = "ioNext"
  /\ md.at = "return" => md.dir = "th" \/ (md.dir = "data" /\ md.th = 1)
  /\ md.at = "hang" => md.dir = "th"

MdLow == /\ md.at \in {"startTh", "askLow", "recvClr", "recvLow", "done", "return", "hang"}
         /\ md.dir = "th" /\ md.th = 0

Joint ==
  /\ md.dir = "data" => ~pc.out /\ pc.at \notin {"sendTlLow", "sendHigh", "sendTlHigh"}
  /\ pc.at = "startHigh" =>
       md.at \in Asleep \cup {"hang", "askLow", "recvLow", "sendLow", "swLow"}
  /\ pc.at = "startAck" =>
       \/ md.at \in {"startTh", "askLow"}
       \/ TH = 1 /\ md.at \in Asleep \cup {"sendLow", "swLow", "hang"}
  /\ pc.at = "sendTlLow" => md.at \in Asleep \/ MdLow
  /\ pc.at = "sendHigh" => md.at \in Asleep \cup {"recvSet", "recvHigh"} \/ MdLow
  /\ pc.at = "sendTlHigh" => md.at \in Asleep \cup {"recvHigh"}
  /\ pc.at \in {"recvLowIn", "recvTlHigh"} =>
       md.at \in Asleep \cup {"sendHigh", "recvSet", "recvHigh"} \/ MdLow
  /\ md.at = "recvSet" => pc.at \in {"sendHigh", "recvLow", "recvLowIn", "recvTlHigh", "recvHigh", "off"}
  /\ md.at \in {"swDir", "swTh", "sendPutLow"} => pc.at \in {"recvLow", "off"}
  /\ md.at = "sendHigh" => pc.at \in {"recvLow", "recvLowIn", "recvTlHigh", "recvHigh", "off"}
  /\ md.at = "sendPutHigh" => pc.at \in {"recvHigh", "off"}

\* The calls the PC still has to make are calls of its primitives.
CallSet == [call: {"send"}, byte: Byte] \cup [call: {"recv", "toIn", "toOut"}]
CallSeq == Seq(CallSet)
JobShape ==
  /\ job = [req |-> job.req, calls |-> job.calls, rd |-> job.rd, last |-> job.last,
            end |-> job.end]
  /\ job.calls \in CallSeq

HandInv == PcShape /\ MdShape /\ JobShape /\ PcLines /\ MdLines /\ Joint

-----------------------------------------------------------------------------
(* The calls a command line is turned into.                                *)

LEMMA BType == ASSUME NEW n \in Int PROVE B(n) \in Byte
BY WholeNibbles DEF B, Byte

LEMMA CodeTypes ==
  /\ CmdPrefix \in Byte
  /\ \A c \in DOMAIN Code : Code[c] \in Byte
  /\ \A o \in DOMAIN IoCode : IoCode[o] \in Byte
BY BType DEF CmdPrefix, Code, IoCode

LEMMA Bytes3Type == ASSUME NEW n \in Int PROVE Bytes3(n) \in Seq(Byte)
<1>1. B(n \div 65536) \in Byte /\ B(n \div 256) \in Byte /\ B(n) \in Byte
  BY BType
<1>. QED
  BY <1>1 DEF Bytes3

LEMMA SendsType == ASSUME NEW s \in Seq(Byte) PROVE Sends(s) \in CallSeq
<1>1. \A i \in 1..Len(s) : [call |-> "send", byte |-> s[i]] \in CallSet
  BY DEF CallSet
<1>2. DOMAIN s = 1..Len(s) /\ Len(s) \in Nat
  OBVIOUS
<1>3. Sends(s) \in [1..Len(s) -> CallSet]
  BY <1>1, <1>2 DEF Sends
<1>. QED
  BY <1>2, <1>3 DEF CallSeq

LEMMA RecvsType == ASSUME NEW n \in Nat PROVE Recvs(n) \in CallSeq
<1>1. [call |-> "recv"] \in CallSet
  BY DEF CallSet
<1>2. Recvs(n) \in [1..n -> CallSet]
  BY <1>1 DEF Recvs
<1>. QED
  BY <1>2 DEF CallSeq

LEMMA TurnsType == ToInput \in CallSeq /\ ToOutput \in CallSeq
BY DEF ToInput, ToOutput, CallSeq, CallSet

LEMMA Joined == ASSUME NEW s \in CallSeq, NEW t \in CallSeq PROVE s \o t \in CallSeq
BY DEF CallSeq

LEMMA IoCallsType == ASSUME NEW o \in IoOps PROVE IoCalls(o) \in CallSeq
<1>1. o.op \in DOMAIN IoCode /\ o.addr \in Nat
  BY DEF IoOps, Reads, IoCode
<1>2. <<IoCode[o.op]>> \o Bytes3(o.addr) \in Seq(Byte)
  <2>1. <<IoCode[o.op]>> \in Seq(Byte)
    BY <1>1, CodeTypes
  <2>2. Bytes3(o.addr) \in Seq(Byte)
    BY <1>1, Bytes3Type
  <2>. QED
    BY <2>1, <2>2
<1>3. ASSUME o.op \in Reads PROVE ToInput \o Recvs(Width[o.op]) \in CallSeq
  <2>1. Width[o.op] \in Nat
    BY <1>3 DEF Reads, Width
  <2>. QED
    BY <2>1, RecvsType, TurnsType, Joined
<1>4. ASSUME o.op \notin Reads PROVE Sends(o.data) \in CallSeq
  <2>1. o.data \in Seq(Byte)
    BY <1>4 DEF IoOps
  <2>. QED
    BY <2>1, SendsType
<1>5. (IF o.op \in Reads THEN ToInput \o Recvs(Width[o.op]) ELSE Sends(o.data)) \in CallSeq
  BY <1>3, <1>4
<1>6. Sends(<<IoCode[o.op]>> \o Bytes3(o.addr)) \in CallSeq
  BY <1>2, SendsType
<1>7. ToOutput \o Sends(<<IoCode[o.op]>> \o Bytes3(o.addr)) \in CallSeq
  BY <1>6, TurnsType, Joined
<1>. QED
  BY <1>5, <1>7, Joined DEF IoCalls

\* A set with 0 and every successor has every number: the successors of its
\* numbers up to one that is missing would not fit into them without 0.
LEMMA NatSets ==
  ASSUME NEW T, 0 \in T, \A n \in Nat : n \in T => n + 1 \in T
  PROVE  \A n \in Nat : n \in T
<1>1. SUFFICES ASSUME NEW n \in Nat, n \notin T PROVE FALSE
  OBVIOUS
<1> DEFINE S == {i \in 0..n : i \in T}
           up == [i \in S |-> i + 1]
<1>2. IsFiniteSet(S)
  <2>1. IsFiniteSet(0..n)
    BY FS_Interval
  <2>. QED
    BY <2>1, FS_Subset
<1>3. IsFiniteSet(S \ {0}) /\ Cardinality(S \ {0}) < Cardinality(S)
  <2>1. 0 \in S
    OBVIOUS
  <2>2. Cardinality(S) \in Nat
    BY <1>2, FS_CardinalityType
  <2> HIDE DEF S
  <2>3. IsFiniteSet(S \ {0}) /\ Cardinality(S \ {0}) = Cardinality(S) - 1
    BY <1>2, <2>1, FS_RemoveElement
  <2>. QED
    BY <2>2, <2>3
<1>4. up \in [S -> S \ {0}]
  BY <1>1
<1>5. \A x, y \in S : up[x] = up[y] => x = y
  OBVIOUS
<1> HIDE DEF S, up
<1>. QED
  BY <1>2, <1>3, <1>4, <1>5, FS_PigeonHole

LEMMA FlattenType ==
  ASSUME NEW s, DOMAIN s = 1..Len(s), Len(s) \in Nat, \A i \in 1..Len(s) : s[i] \in CallSeq
  PROVE  FlattenSeq(s) \in CallSeq \/ (Len(s) = 0 /\ FlattenSeq(s) = s)
<1> DEFINE N == Len(s)
           Body(f, i) == IF i = 1 THEN s[i] ELSE f[i - 1] \o s[i]
           Grows(f, n) == f = [i \in 1..n |-> Body(f, i)] /\ \A i \in 1..n : f[i] \in CallSeq
           T == {n \in Nat : n <= N => \E f : Grows(f, n)}
<1> HIDE DEF N, Grows
<1>1. 0 \in T
  <2>1. PICK f : f = [i \in 1..0 |-> <<>>]
    OBVIOUS
  <2>2. Grows(f, 0)
    BY <2>1 DEF Grows
  <2>. QED
    BY <2>2
<1>2. ASSUME NEW n \in Nat, n \in T PROVE n + 1 \in T
  <2>1. SUFFICES ASSUME n + 1 <= N PROVE \E g : Grows(g, n + 1)
    OBVIOUS
  <2>0. PICK f : Grows(f, n)
    BY <1>2, <2>1 DEF N
  <2>2. f = [i \in 1..n |-> Body(f, i)] /\ \A i \in 1..n : f[i] \in CallSeq
    BY <2>0 DEF Grows
  <2>3. PICK g : g = [i \in 1..(n + 1) |-> Body(f, i)]
    OBVIOUS
  <2>4. \A i \in 1..n : g[i] = f[i]
    <3>1. \A i \in 1..n : f[i] = Body(f, i)
      BY <2>2
    <3>. QED
      BY <2>3, <3>1
  <2>5. \A i \in 1..(n + 1) : Body(f, i) = Body(g, i)
    BY <2>4
  <2>6. g = [i \in 1..(n + 1) |-> Body(g, i)]
    BY <2>3, <2>5
  <2>7. g[n + 1] \in CallSeq
    <3>1. n + 1 \in 1..Len(s)
      BY <2>1 DEF N
    <3>2. s[n + 1] \in CallSeq
      BY <3>1
    <3>3. g[n + 1] = Body(f, n + 1)
      BY <2>3
    <3>4. n + 1 # 1 => f[n] \in CallSeq
      BY <2>2
    <3>. QED
      BY <3>2, <3>3, <3>4, Joined
  <2>8. \A i \in 1..(n + 1) : g[i] \in CallSeq
    BY <2>2, <2>4, <2>7
  <2>. QED
    BY <2>6, <2>8 DEF Grows
<1>3. N \in T
  <2> HIDE DEF T
  <2>. QED
    BY <1>1, <1>2, NatSets DEF N
<1>4. PICK f : f = [i \in 1..Len(s) |-> Body(f, i)]
  BY <1>3 DEF N, Grows
<1> DEFINE flatten == CHOOSE g : g = [i \in 1..Len(s) |-> IF i = 1 THEN s[i] ELSE g[i - 1] \o s[i]]
<1>5. flatten = [i \in 1..Len(s) |-> Body(flatten, i)]
  BY <1>4
<1> HIDE DEF flatten
<1>6. \A i \in 1..Len(s) : flatten[i] = Body(flatten, i)
  BY <1>5
<1> DEFINE U == {n \in Nat : n + 1 <= N => flatten[n + 1] \in CallSeq}
<1>7. 0 \in U
  BY <1>6 DEF N
<1>8. ASSUME NEW n \in Nat, n \in U PROVE n + 1 \in U
  <2>1. SUFFICES ASSUME n + 2 <= N PROVE flatten[n + 2] \in CallSeq
    OBVIOUS
  <2>2. flatten[n + 1] \in CallSeq
    BY <1>8, <2>1 DEF N
  <2>3. n + 2 \in 1..Len(s) /\ n + 2 # 1 /\ (n + 2) - 1 = n + 1
    BY <2>1 DEF N
  <2>4. flatten[n + 2] = flatten[n + 1] \o s[n + 2]
    BY <1>6, <2>3
  <2>. QED
    BY <2>2, <2>3, <2>4, Joined
<1>9. \A n \in Nat : n \in U
  <2> HIDE DEF U
  <2>. QED
    BY <1>7, <1>8, NatSets
<1>10. Len(s) # 0 => flatten[Len(s)] \in CallSeq
  <2>1. Len(s) # 0 => Len(s) - 1 \in Nat /\ (Len(s) - 1) + 1 = Len(s)
    OBVIOUS
  <2>. QED
    BY <1>9, <2>1 DEF N
<1>. QED
  BY <1>10 DEF FlattenSeq, flatten

LEMMA ManyIoCallsType ==
  ASSUME NEW ops \in Seq(IoOps)
  PROVE  FlattenSeq([i \in DOMAIN ops |-> IoCalls(ops[i])]) \in CallSeq
<1>1. DOMAIN ops = 1..Len(ops) /\ Len(ops) \in Nat /\ \A i \in 1..Len(ops) : ops[i] \in IoOps
  OBVIOUS
<1>2. PICK s : s = [i \in DOMAIN ops |-> IoCalls(ops[i])]
  OBVIOUS
<1>3. \A i \in 1..Len(ops) : IoCalls(ops[i]) \in CallSeq
  BY <1>1, IoCallsType
<1>4. s \in Seq(CallSeq)
  <2>1. s \in [1..Len(ops) -> CallSeq]
    BY <1>1, <1>2, <1>3
  <2>. QED
    BY <1>1, <2>1
<1>5. DOMAIN s = 1..Len(s) /\ Len(s) \in Nat /\ \A i \in 1..Len(s) : s[i] \in CallSeq
  BY <1>4
<1>6. Len(s) = 0 => s \in CallSeq
  BY <1>4 DEF CallSeq
<1>7. FlattenSeq(s) \in CallSeq
  BY <1>5, <1>6, FlattenType
<1>. QED
  BY <1>2, <1>7

\* Every command line becomes a sequence of calls of the four primitives.
LEMMA CallsType == ASSUME NEW r \in Requests PROVE Calls(r) \in CallSeq
<1>1. \/ r \in [cmd: {"send"}, addr: Nat, data: Seq(Byte)]
      \/ r \in [cmd: {"recv"}, addr: Nat, size: Nat]
      \/ r \in [cmd: {"jump"}, addr: Nat]
      \/ r \in [cmd: {"io"}, ops: Seq(IoOps)]
      \/ r \in [cmd: {"loadstate"}, data: Seq(Byte)]
      \/ r \in [cmd: {"recvvram"}]
  BY RequestsAssumption DEF SendLine, RecvLine, JumpLine, IoLine, LoadLine, VramLine
<1>2. r.cmd \in DOMAIN Code
  BY <1>1 DEF Code
<1>3. Sends(<<CmdPrefix, Code[r.cmd]>>) \in CallSeq
  <2>1. <<CmdPrefix, Code[r.cmd]>> \in Seq(Byte)
    BY <1>2, CodeTypes
  <2>. QED
    BY <2>1, SendsType
<1>4. ASSUME r \in [cmd: {"send"}, addr: Nat, data: Seq(Byte)] PROVE Calls(r) \in CallSeq
  <2>1. r.cmd = "send" /\ r.addr \in Int /\ r.data \in Seq(Byte) /\ Len(r.data) \in Int
    BY <1>4
  <2>2. Bytes3(r.addr) \in Seq(Byte) /\ Bytes3(Len(r.data)) \in Seq(Byte)
    BY <2>1, Bytes3Type
  <2>3. Bytes3(r.addr) \o Bytes3(Len(r.data)) \o r.data \in Seq(Byte)
    BY <2>1, <2>2
  <2>4. Sends(Bytes3(r.addr) \o Bytes3(Len(r.data)) \o r.data) \in CallSeq
    BY <2>3, SendsType
  <2>. QED
    BY <1>3, <2>1, <2>4, Joined DEF Calls
<1>5. ASSUME r \in [cmd: {"recv"}, addr: Nat, size: Nat] PROVE Calls(r) \in CallSeq
  <2>1. r.cmd = "recv" /\ r.addr \in Int /\ r.size \in Int /\ r.size \in Nat
    BY <1>5
  <2>2. Bytes3(r.addr) \in Seq(Byte) /\ Bytes3(r.size) \in Seq(Byte)
    BY <2>1, Bytes3Type
  <2>3. Bytes3(r.addr) \o Bytes3(r.size) \in Seq(Byte)
    BY <2>2
  <2>4. Sends(Bytes3(r.addr) \o Bytes3(r.size)) \in CallSeq
    BY <2>3, SendsType
  <2>5. Sends(Bytes3(r.addr) \o Bytes3(r.size)) \o ToInput \in CallSeq
    BY <2>4, TurnsType, Joined
  <2>6. Sends(Bytes3(r.addr) \o Bytes3(r.size)) \o ToInput \o Recvs(r.size) \in CallSeq
    BY <2>1, <2>5, RecvsType, Joined
  <2>. QED
    BY <1>3, <2>1, <2>6, Joined DEF Calls
<1>6. ASSUME r \in [cmd: {"jump"}, addr: Nat] PROVE Calls(r) \in CallSeq
  <2>1. r.cmd = "jump" /\ r.addr \in Int
    BY <1>6
  <2>2. Sends(Bytes3(r.addr)) \in CallSeq
    BY <2>1, Bytes3Type, SendsType
  <2>. QED
    BY <1>3, <2>1, <2>2, Joined DEF Calls
<1>7. ASSUME r \in [cmd: {"io"}, ops: Seq(IoOps)] PROVE Calls(r) \in CallSeq
  <2>1. r.cmd = "io" /\ r.ops \in Seq(IoOps) /\ Len(r.ops) \in Int
    BY <1>7
  <2>2. Sends(Tail(Bytes3(Len(r.ops)))) \in CallSeq
    <3>1. PICK s \in Seq(Byte) : s = Bytes3(Len(r.ops))
      BY <2>1, Bytes3Type
    <3>2. Len(s) = 3
      BY <3>1 DEF Bytes3
    <3>3. Tail(s) \in Seq(Byte)
      BY <3>2
    <3>. QED
      BY <3>1, <3>3, SendsType
  <2>3. FlattenSeq([i \in DOMAIN r.ops |-> IoCalls(r.ops[i])]) \in CallSeq
    BY <2>1, ManyIoCallsType
  <2>4. Sends(Tail(Bytes3(Len(r.ops))))
          \o FlattenSeq([i \in DOMAIN r.ops |-> IoCalls(r.ops[i])]) \in CallSeq
    BY <2>2, <2>3, Joined
  <2>. QED
    BY <1>3, <2>1, <2>4, Joined DEF Calls
<1>8. ASSUME r \in [cmd: {"loadstate"}, data: Seq(Byte)] PROVE Calls(r) \in CallSeq
  <2>1. r.cmd = "loadstate" /\ r.data \in Seq(Byte)
    BY <1>8
  <2>2. Sends(r.data) \in CallSeq
    BY <2>1, SendsType
  <2>. QED
    BY <1>3, <2>1, <2>2, Joined DEF Calls
<1>9. ASSUME r \in [cmd: {"recvvram"}] PROVE Calls(r) \in CallSeq
  <2>1. r.cmd = "recvvram" /\ VramBytes \in Nat
    BY <1>9, BoundsAssumption
  <2>2. ToInput \o Recvs(VramBytes) \in CallSeq
    BY <2>1, RecvsType, TurnsType, Joined
  <2>. QED
    BY <1>3, <2>1, <2>2, Joined DEF Calls
<1>. QED
  BY <1>1, <1>4, <1>5, <1>6, <1>7, <1>8, <1>9

-----------------------------------------------------------------------------
(* The initial state.                                                      *)

LEMMA HandInitially == TransferInit => HandInv
<1> SUFFICES ASSUME TransferInit PROVE HandInv
  OBVIOUS
<1>1. PcShape /\ MdShape
  BY DEF TransferInit, PcShape, MdShape, PcPoints, MdPoints, CpuStages
<1>2. JobShape
  BY DEF TransferInit, JobShape, CallSeq
<1>3. PcLines /\ MdLines /\ Joint
  BY DEF TransferInit, PcLines, PcTlLow, PcInputs, MdLines, Joint, Asleep, RecvPoints
<1>. QED
  BY <1>1, <1>2, <1>3 DEF HandInv

-----------------------------------------------------------------------------
(* A step of the PC.                                                       *)

\* The PC's next point and lines; the console and the calls to make stay.
PcMoves(to, tl, tr, out) ==
  /\ PcShape' /\ JobShape'
  /\ pc'.at = to /\ pc'.tl = tl /\ pc'.tr = tr /\ pc'.out = out
  /\ UNCHANGED <<md, cpu>>

LEMMA OutBMoves ==
  ASSUME HandInv, NEW from, NEW to \in PcPoints, NEW tl \in {0, 1}, NEW out \in BOOLEAN,
         OutB(from, to, tl, out), UNCHANGED <<md, cpu, job>>
  PROVE  pc.at = from /\ PcMoves(to, tl, 1, out)
BY DEF OutB, HandInv, PcShape, JobShape, PcMoves

LEMMA PcGoMoves ==
  ASSUME HandInv, NEW from, NEW to \in PcPoints, PcGo(from, to), UNCHANGED <<md, cpu, job>>
  PROVE  pc.at = from /\ PcMoves(to, pc.tl, pc.tr, pc.out)
BY DEF PcGo, HandInv, PcShape, JobShape, PcMoves

LEMMA PcMoved ==
  ASSUME HandInv, NEW to, NEW tl, NEW tr, NEW out, PcMoves(to, tl, tr, out),
         tl = 0 <=> to \in PcTlLow, tr = 0 <=> to = "startAck", to \in PcInputs => ~out,
         Joint'
  PROVE  HandInv'
<1>1. PcLines'
  BY DEF PcMoves, PcLines
<1>2. MdShape' /\ MdLines'
  BY DEF PcMoves, HandInv, MdShape, MdLines
<1>. QED
  BY <1>1, <1>2 DEF PcMoves, HandInv

LEMMA PcPrimSafe == HandInv /\ PcPrim => HandInv'
<1> SUFFICES ASSUME HandInv, PcPrim PROVE HandInv'
  OBVIOUS
<1>0. UNCHANGED <<md, cpu, job>>
  BY DEF PcPrim, mdHas
<1>i. PcShape /\ MdShape /\ JobShape /\ PcLines /\ MdLines /\ Joint
  BY DEF HandInv
<1> USE DEF RecvPoints, PcPoints, PcTlLow, PcInputs, Asleep, MdLow, TH
<1>1. CASE PcSendWaitLow
  <2>1. pc.at = "sendLow" /\ PcMoves("sendTlLow", pc.tl, pc.tr, pc.out)
    BY <1>i, <1>0, <1>1 DEF PcSendWaitLow, PcShape, JobShape, PcMoves
  <2>2. md' = md /\ pc'.at = "sendTlLow" /\ pc'.out = pc.out
    BY <2>1 DEF PcMoves
  <2>3. Joint'
    BY <1>i, <1>1, <2>1, <2>2 DEF PcSendWaitLow, Joint, MdLines, MdShape, MdPoints, RecvPoints
  <2>4. pc.tl = 0 <=> "sendTlLow" \in PcTlLow
    BY <1>i, <2>1 DEF PcLines
  <2>5. pc.tr = 0 <=> "sendTlLow" = "startAck"
    BY <1>i, <2>1 DEF PcLines
  <2>6. "sendTlLow" \in PcInputs => ~pc.out
    BY <1>i, <2>1 DEF PcLines
  <2>. QED
    BY <2>1, <2>3, <2>4, <2>5, <2>6, PcMoved
<1>2. CASE PcSendTlLow
  <2>1. pc.at = "sendTlLow" /\ PcMoves("sendHigh", 0, 1, TRUE)
    BY <1>0, <1>2, OutBMoves DEF PcSendTlLow
  <2>2. md' = md /\ pc'.at = "sendHigh" /\ pc'.out = TRUE
    BY <2>1 DEF PcMoves
  <2>3. Joint'
    BY <1>i, <1>2, <2>1, <2>2 DEF Joint, MdLines
  <2>4. 0 = 0 <=> "sendHigh" \in PcTlLow
    OBVIOUS
  <2>5. 1 = 0 <=> "sendHigh" = "startAck"
    OBVIOUS
  <2>6. "sendHigh" \in PcInputs => ~TRUE
    OBVIOUS
  <2>. QED
    BY <2>1, <2>3, <2>4, <2>5, <2>6, PcMoved
<1>3. CASE PcSendWaitHigh
  <2>1. pc.at = "sendHigh" /\ PcMoves("sendTlHigh", pc.tl, pc.tr, pc.out)
    BY <1>i, <1>0, <1>3 DEF PcSendWaitHigh, PcShape, JobShape, PcMoves
  <2>2. md' = md /\ pc'.at = "sendTlHigh" /\ pc'.out = pc.out
    BY <2>1 DEF PcMoves
  <2>3. Joint'
    BY <1>i, <1>3, <2>1, <2>2 DEF PcSendWaitHigh, Joint, MdLines
  <2>4. pc.tl = 0 <=> "sendTlHigh" \in PcTlLow
    BY <1>i, <2>1 DEF PcLines
  <2>5. pc.tr = 0 <=> "sendTlHigh" = "startAck"
    BY <1>i, <2>1 DEF PcLines
  <2>6. "sendTlHigh" \in PcInputs => ~pc.out
    BY <1>i, <2>1 DEF PcLines
  <2>. QED
    BY <2>1, <2>3, <2>4, <2>5, <2>6, PcMoved
<1>4. CASE PcSendTlHigh
  <2>1. pc.at = "sendTlHigh" /\ PcMoves("done", 1, 1, TRUE)
    BY <1>0, <1>4, OutBMoves DEF PcSendTlHigh
  <2>2. md' = md /\ pc'.at = "done" /\ pc'.out = TRUE
    BY <2>1 DEF PcMoves
  <2>3. Joint'
    BY <1>i, <1>4, <2>1, <2>2 DEF Joint, MdLines
  <2>4. 1 = 0 <=> "done" \in PcTlLow
    OBVIOUS
  <2>5. 1 = 0 <=> "done" = "startAck"
    OBVIOUS
  <2>6. "done" \in PcInputs => ~TRUE
    OBVIOUS
  <2>. QED
    BY <2>1, <2>3, <2>4, <2>5, <2>6, PcMoved
<1>5. CASE PcRecvTlLow
  <2>1. pc.at = "recvTlLow" /\ PcMoves("recvLow", 0, 1, FALSE)
    BY <1>0, <1>5, OutBMoves DEF PcRecvTlLow
  <2>2. md' = md /\ pc'.at = "recvLow" /\ pc'.out = FALSE
    BY <2>1 DEF PcMoves
  <2>3. Joint'
    BY <1>i, <1>5, <2>1, <2>2 DEF Joint, MdLines
  <2>4. 0 = 0 <=> "recvLow" \in PcTlLow
    OBVIOUS
  <2>5. 1 = 0 <=> "recvLow" = "startAck"
    OBVIOUS
  <2>6. "recvLow" \in PcInputs => ~FALSE
    OBVIOUS
  <2>. QED
    BY <2>1, <2>3, <2>4, <2>5, <2>6, PcMoved
<1>6. CASE PcRecvWaitLow
  <2>1. pc.at = "recvLow" /\ PcMoves("recvLowIn", pc.tl, pc.tr, pc.out)
    BY <1>0, <1>6, PcGoMoves DEF PcRecvWaitLow
  <2>2. md' = md /\ pc'.at = "recvLowIn" /\ pc'.out = pc.out
    BY <2>1 DEF PcMoves
  <2>3. Joint'
    BY <1>i, <1>6, <2>1, <2>2 DEF PcRecvWaitLow, Joint, MdLines, MdShape, MdPoints, RecvPoints
  <2>4. pc.tl = 0 <=> "recvLowIn" \in PcTlLow
    BY <1>i, <2>1 DEF PcLines
  <2>5. pc.tr = 0 <=> "recvLowIn" = "startAck"
    BY <1>i, <2>1 DEF PcLines
  <2>6. "recvLowIn" \in PcInputs => ~pc.out
    BY <1>i, <2>1 DEF PcLines
  <2>. QED
    BY <2>1, <2>3, <2>4, <2>5, <2>6, PcMoved
<1>7. CASE PcRecvLow
  <2>1. pc.at = "recvLowIn" /\ PcMoves("recvTlHigh", pc.tl, pc.tr, pc.out)
    BY <1>i, <1>0, <1>7 DEF PcRecvLow, PcShape, JobShape, PcMoves
  <2>2. md' = md /\ pc'.at = "recvTlHigh" /\ pc'.out = pc.out
    BY <2>1 DEF PcMoves
  <2>3. Joint'
    BY <1>i, <1>7, <2>1, <2>2 DEF Joint, MdLines
  <2>4. pc.tl = 0 <=> "recvTlHigh" \in PcTlLow
    BY <1>i, <2>1 DEF PcLines
  <2>5. pc.tr = 0 <=> "recvTlHigh" = "startAck"
    BY <1>i, <2>1 DEF PcLines
  <2>6. "recvTlHigh" \in PcInputs => ~pc.out
    BY <1>i, <2>1 DEF PcLines
  <2>. QED
    BY <2>1, <2>3, <2>4, <2>5, <2>6, PcMoved
<1>8. CASE PcRecvTlHigh
  <2>1. pc.at = "recvTlHigh" /\ PcMoves("recvHigh", 1, 1, FALSE)
    BY <1>0, <1>8, OutBMoves DEF PcRecvTlHigh
  <2>2. md' = md /\ pc'.at = "recvHigh" /\ pc'.out = FALSE
    BY <2>1 DEF PcMoves
  <2>3. Joint'
    BY <1>i, <1>8, <2>1, <2>2 DEF Joint, MdLines
  <2>4. 1 = 0 <=> "recvHigh" \in PcTlLow
    OBVIOUS
  <2>5. 1 = 0 <=> "recvHigh" = "startAck"
    OBVIOUS
  <2>6. "recvHigh" \in PcInputs => ~FALSE
    OBVIOUS
  <2>. QED
    BY <2>1, <2>3, <2>4, <2>5, <2>6, PcMoved
<1>9. CASE PcRecvWaitHigh
  <2>1. pc.at = "recvHigh" /\ PcMoves("recvHighIn", pc.tl, pc.tr, pc.out)
    BY <1>0, <1>9, PcGoMoves DEF PcRecvWaitHigh
  <2>2. md' = md /\ pc'.at = "recvHighIn" /\ pc'.out = pc.out
    BY <2>1 DEF PcMoves
  <2>3. Joint'
    BY <1>i, <1>9, <2>1, <2>2 DEF PcRecvWaitHigh, Joint, MdLines
  <2>4. pc.tl = 0 <=> "recvHighIn" \in PcTlLow
    BY <1>i, <2>1 DEF PcLines
  <2>5. pc.tr = 0 <=> "recvHighIn" = "startAck"
    BY <1>i, <2>1 DEF PcLines
  <2>6. "recvHighIn" \in PcInputs => ~pc.out
    BY <1>i, <2>1 DEF PcLines
  <2>. QED
    BY <2>1, <2>3, <2>4, <2>5, <2>6, PcMoved
<1>10. CASE PcRecvHigh
  <2>1. pc.at = "recvHighIn" /\ PcMoves("done", pc.tl, pc.tr, pc.out)
    BY <1>i, <1>0, <1>10 DEF PcRecvHigh, PcShape, JobShape, PcMoves
  <2>2. md' = md /\ pc'.at = "done" /\ pc'.out = pc.out
    BY <2>1 DEF PcMoves
  <2>3. Joint'
    BY <1>i, <1>10, <2>1, <2>2 DEF Joint, MdLines
  <2>4. pc.tl = 0 <=> "done" \in PcTlLow
    BY <1>i, <2>1 DEF PcLines
  <2>5. pc.tr = 0 <=> "done" = "startAck"
    BY <1>i, <2>1 DEF PcLines
  <2>6. "done" \in PcInputs => ~pc.out
    BY <1>i, <2>1 DEF PcLines
  <2>. QED
    BY <2>1, <2>3, <2>4, <2>5, <2>6, PcMoved
<1>11. CASE PcToIn
  <2>1. pc.at = "toIn" /\ PcMoves("delay", 1, 1, FALSE)
    BY <1>0, <1>11, OutBMoves DEF PcToIn
  <2>2. md' = md /\ pc'.at = "delay" /\ pc'.out = FALSE
    BY <2>1 DEF PcMoves
  <2>3. Joint'
    BY <1>i, <1>11, <2>1, <2>2 DEF Joint, MdLines
  <2>4. 1 = 0 <=> "delay" \in PcTlLow
    OBVIOUS
  <2>5. 1 = 0 <=> "delay" = "startAck"
    OBVIOUS
  <2>6. "delay" \in PcInputs => ~FALSE
    OBVIOUS
  <2>. QED
    BY <2>1, <2>3, <2>4, <2>5, <2>6, PcMoved
<1>12. CASE PcDelay
  <2>1. pc.at = "delay" /\ PcMoves("done", pc.tl, pc.tr, pc.out)
    BY <1>0, <1>12, PcGoMoves DEF PcDelay
  <2>2. md' = md /\ pc'.at = "done" /\ pc'.out = pc.out
    BY <2>1 DEF PcMoves
  <2>3. Joint'
    BY <1>i, <1>12, <2>1, <2>2 DEF Joint, MdLines
  <2>4. pc.tl = 0 <=> "done" \in PcTlLow
    BY <1>i, <2>1 DEF PcLines
  <2>5. pc.tr = 0 <=> "done" = "startAck"
    BY <1>i, <2>1 DEF PcLines
  <2>6. "done" \in PcInputs => ~pc.out
    BY <1>i, <2>1 DEF PcLines
  <2>. QED
    BY <2>1, <2>3, <2>4, <2>5, <2>6, PcMoved
<1>13. CASE PcToOut
  <2>1. pc.at = "toOut" /\ PcMoves("done", 1, 1, TRUE)
    BY <1>0, <1>13, OutBMoves DEF PcToOut
  <2>2. md' = md /\ pc'.at = "done" /\ pc'.out = TRUE
    BY <2>1 DEF PcMoves
  <2>3. Joint'
    BY <1>i, <1>13, <2>1, <2>2 DEF PcToOut, Joint, MdLines, MdShape, MdPoints, RecvPoints
  <2>4. 1 = 0 <=> "done" \in PcTlLow
    OBVIOUS
  <2>5. 1 = 0 <=> "done" = "startAck"
    OBVIOUS
  <2>6. "done" \in PcInputs => ~TRUE
    OBVIOUS
  <2>. QED
    BY <2>1, <2>3, <2>4, <2>5, <2>6, PcMoved
<1>. QED
  BY <1>1, <1>2, <1>3, <1>4, <1>5, <1>6, <1>7, <1>8, <1>9, <1>10, <1>11, <1>12, <1>13
  DEF PcPrim, PcPrimitive

\* The fields of the PC after a step that leaves TL and TR high.
LEMMA PcHighMoved ==
  ASSUME HandInv, NEW to, NEW out, PcMoves(to, 1, 1, out),
         to \notin PcTlLow, to # "startAck", to \in PcInputs => ~out, Joint'
  PROVE  HandInv'
BY PcMoved

\* main's next call is one of a primitive.
LEMMA PcNextCallSafe == HandInv /\ PcNextCall => HandInv'
<1> SUFFICES ASSUME HandInv, PcNextCall PROVE HandInv'
  OBVIOUS
<1>i. PcShape /\ MdShape /\ JobShape /\ PcLines /\ MdLines /\ Joint
  BY DEF HandInv
<1>1. PICK c : c = Head(job.calls)
  OBVIOUS
<1>2. pc.at = "done" /\ job.calls # <<>> /\ UNCHANGED <<md, cpu>>
  BY DEF PcNextCall, mdHas
<1>3. c \in CallSet /\ Tail(job.calls) \in CallSeq
  BY <1>i, <1>1, <1>2 DEF JobShape, CallSeq
<1>4. c.call \in {"send", "recv", "toIn", "toOut"}
  BY <1>3 DEF CallSet
<1>5. JobShape'
  <2>1. job' = [job EXCEPT !.calls = Tail(@), !.last = c.call, !.rd = Received]
    BY <1>1 DEF PcNextCall
  <2>. QED
    BY <2>1, <1>i, <1>3 DEF JobShape
<1>6. PICK to : to = (CASE c.call = "send" -> "sendLow" [] c.call = "recv" -> "recvTlLow"
                        [] OTHER -> c.call)
  OBVIOUS
<1>7. to \in {"sendLow", "recvTlLow", "toIn", "toOut"}
  BY <1>4, <1>6
<1>8. PcMoves(to, pc.tl, pc.tr, pc.out)
  <2>1. CASE c.call = "send"
    <3>1. pc' = [pc EXCEPT !.at = "sendLow", !.byte = c.byte] /\ to = "sendLow"
      BY <2>1, <1>1, <1>6 DEF PcNextCall, PcSend
    <3>. QED
      BY <3>1, <1>2, <1>5, <1>i DEF PcMoves, PcShape, PcPoints
  <2>2. CASE c.call # "send"
    <3>1. pc' = [pc EXCEPT !.at = to]
      BY <2>2, <1>1, <1>4, <1>6 DEF PcNextCall, PcStart
    <3>. QED
      BY <3>1, <1>2, <1>5, <1>7, <1>i DEF PcMoves, PcShape, PcPoints
  <2>. QED
    BY <2>1, <2>2
<1>9. pc.tl = 1 /\ pc.tr = 1
  BY <1>i, <1>2 DEF PcLines, PcShape, PcTlLow
<1>10. Joint'
  <2>1. md' = md /\ pc'.at = to /\ pc'.out = pc.out
    BY <1>8 DEF PcMoves
  <2>. QED
    BY <2>1, <1>2, <1>7, <1>i DEF Joint, TH, Asleep
<1>11. to \notin PcTlLow /\ to # "startAck" /\ to \notin PcInputs
  BY <1>7 DEF PcTlLow, PcInputs
<1>. QED
  BY <1>8, <1>9, <1>10, <1>11, PcHighMoved

\* Every other step of pc_transfer, the primitives aside.
LEMMA PcProgramSafe == HandInv /\ PcProgram => HandInv'
<1> SUFFICES ASSUME HandInv, PcProgram PROVE HandInv'
  OBVIOUS
<1>i. PcShape /\ MdShape /\ JobShape /\ PcLines /\ MdLines /\ Joint
  BY DEF HandInv
<1> USE DEF RecvPoints, PcPoints, PcTlLow, PcInputs, Asleep, MdLow, TH
<1>1. CASE PcAsk
  <2>1. pc.at = "startHigh" /\ TH = 1 /\ PcMoves("startAck", 1, 0, FALSE)
    BY <1>i, <1>1 DEF PcAsk, mdHas, PcShape, JobShape, PcMoves
  <2>2. md' = md /\ pc'.at = "startAck" /\ pc'.out = FALSE
    BY <2>1 DEF PcMoves
  <2>3. Joint'
    BY <1>i, <2>1, <2>2 DEF Joint, MdLines, PcLines
  <2>4. 1 = 0 <=> "startAck" \in PcTlLow
    OBVIOUS
  <2>5. 0 = 0 <=> "startAck" = "startAck"
    OBVIOUS
  <2>6. "startAck" \in PcInputs => ~FALSE
    OBVIOUS
  <2>. QED
    BY <2>1, <2>3, <2>4, <2>5, <2>6, PcMoved
<1>2. CASE PcAcked
  <2>1. pc.at = "startAck" /\ TH = 0 /\ PcMoves("done", 1, 1, FALSE)
    BY <1>2, OutBMoves DEF PcAcked, mdHas
  <2>2. md' = md /\ pc'.at = "done" /\ pc'.out = FALSE
    BY <2>1 DEF PcMoves
  <2>3. Joint'
    BY <1>i, <2>1, <2>2 DEF Joint, MdLines, PcLines
  <2>4. 1 = 0 <=> "done" \in PcTlLow
    OBVIOUS
  <2>5. 1 = 0 <=> "done" = "startAck"
    OBVIOUS
  <2>6. "done" \in PcInputs => ~FALSE
    OBVIOUS
  <2>. QED
    BY <2>1, <2>3, <2>4, <2>5, <2>6, PcMoved
<1>3. CASE PcExit
  <2>1. pc.at = "done" /\ PcMoves("finish", 1, 1, pc.out)
    BY <1>i, <1>3 DEF PcExit, PcStart, mdHas, PcShape, JobShape, PcLines, PcMoves
  <2>2. md' = md /\ pc'.at = "finish" /\ pc'.out = pc.out
    BY <2>1 DEF PcMoves
  <2>3. Joint'
    BY <1>i, <2>1, <2>2 DEF Joint, MdLines, PcLines
  <2>4. 1 = 0 <=> "finish" \in PcTlLow
    OBVIOUS
  <2>5. 1 = 0 <=> "finish" = "startAck"
    OBVIOUS
  <2>6. "finish" \in PcInputs => ~pc.out
    OBVIOUS
  <2>. QED
    BY <2>1, <2>3, <2>4, <2>5, <2>6, PcMoved
<1>4. CASE PcFinish
  <2>1. pc.at = "finish" /\ PcMoves("off", 1, 1, FALSE)
    BY <1>4, OutBMoves DEF PcFinish, mdHas
  <2>2. md' = md /\ pc'.at = "off" /\ pc'.out = FALSE
    BY <2>1 DEF PcMoves
  <2>3. Joint'
    BY <1>i, <2>1, <2>2 DEF Joint, MdLines, PcLines
  <2>4. 1 = 0 <=> "off" \in PcTlLow
    OBVIOUS
  <2>5. 1 = 0 <=> "off" = "startAck"
    OBVIOUS
  <2>6. "off" \in PcInputs => ~FALSE
    OBVIOUS
  <2>. QED
    BY <2>1, <2>3, <2>4, <2>5, <2>6, PcMoved
<1>5. CASE PcNextCall
  BY <1>5, PcNextCallSafe
<1>6. CASE PcPrim
  BY <1>6, PcPrimSafe
<1>. QED
  BY <1>1, <1>2, <1>3, <1>4, <1>5, <1>6 DEF PcProgram

\* A run is started when the console is waiting for the PC, or for nothing;
\* it may be interrupted anywhere.
LEMMA PcRunsSafe ==
  ASSUME HandInv, (\E r \in Requests : PcRun(r)) \/ PcAbort PROVE HandInv'
<1>i. PcShape /\ MdShape /\ JobShape /\ PcLines /\ MdLines /\ Joint
  BY DEF HandInv
<1> USE DEF RecvPoints, PcPoints, PcTlLow, PcInputs, Asleep, MdLow, TH
<1>1. ASSUME NEW r \in Requests, PcRun(r) PROVE HandInv'
  <2>0. PICK calls : calls = Calls(r) /\ calls \in CallSeq
    BY CallsType
  <2>1. /\ pc.at = "off" /\ MdSettled
        /\ pc' = [pc EXCEPT !.at = "startHigh"]
        /\ job' = [req |-> r, calls |-> calls, rd |-> <<>>, last |-> "start", end |-> "running"]
        /\ UNCHANGED <<md, cpu>>
    BY <1>1, <2>0 DEF PcRun, mdHas
  <2>2. pc.tl = 1 /\ pc.tr = 1 /\ ~pc.out
    BY <1>i, <2>1 DEF PcLines, PcShape
  <2>3. PcMoves("startHigh", 1, 1, FALSE)
    BY <1>i, <2>0, <2>1, <2>2 DEF PcMoves, PcShape, JobShape
  <2>4. md' = md /\ pc'.at = "startHigh" /\ pc'.out = FALSE
    BY <2>3 DEF PcMoves
  <2>5. Joint'
    BY <1>i, <2>1, <2>4 DEF Joint, MdLines, MdSettled
  <2>. QED
    BY <2>3, <2>5, PcHighMoved
<1>2. ASSUME PcAbort PROVE HandInv'
  <2>1. PcMoves("off", 1, 1, FALSE)
    BY <1>i, <1>2 DEF PcAbort, mdHas, PcMoves, PcShape, JobShape
  <2>2. md' = md /\ pc'.at = "off" /\ pc'.out = FALSE
    BY <2>1 DEF PcMoves
  <2>3. Joint'
    BY <1>i, <2>2 DEF Joint, MdLines
  <2>. QED
    BY <2>1, <2>3, PcHighMoved
<1>. QED
  BY <1>1, <1>2

-----------------------------------------------------------------------------
(* A step of the console.                                                  *)

\* The console's next point, lines and stage; the PC stays.
MdMoves(at, dir, th, last, stage) ==
  /\ MdShape'
  /\ md'.at = at /\ md'.dir = dir /\ md'.th = th /\ md'.last = last
  /\ cpu'.stage = stage
  /\ UNCHANGED <<pc, job>>

LEMMA MdMoved ==
  ASSUME HandInv, NEW at, NEW dir, NEW th, NEW last, NEW stage,
         MdMoves(at, dir, th, last, stage), MdLines', Joint'
  PROVE  HandInv'
BY DEF MdMoves, HandInv, PcShape, JobShape, PcLines

LEMMA MdPrimSafe == HandInv /\ MdPrim => HandInv'
<1> SUFFICES ASSUME HandInv, MdPrim PROVE HandInv'
  OBVIOUS
<1>i. PcShape /\ MdShape /\ JobShape /\ PcLines /\ MdLines /\ Joint
  BY DEF HandInv
<1>0. UNCHANGED <<pc, job, cpu>>
  BY DEF MdPrim, MdKeep, pcHas
<1> USE DEF RecvPoints, DownStages, UpStages, NextStages, MdPoints, PcTlLow, PcInputs, Asleep, MdLow, TH
<1>1. CASE MdRecvClr
  <2>1. md.at = "recvClr" /\ MdMoves("recvLow", md.dir, 0, md.last, cpu.stage)
    BY <1>i, <1>0, <1>1 DEF MdRecvClr, MdWrite, MdShape, MdMoves
  <2>2. /\ pc' = pc /\ md'.at = "recvLow" /\ md'.dir = md.dir /\ md'.th = 0
        /\ md'.last = md.last /\ cpu'.stage = cpu.stage
    BY <2>1 DEF MdMoves
  <2>3. MdLines'
    BY <1>i, <2>1, <2>2 DEF MdLines, Joint, PcLines
  <2>4. Joint'
    BY <1>i, <2>1, <2>2 DEF MdLines, Joint, PcLines
  <2>. QED
    BY <2>1, <2>3, <2>4, MdMoved
<1>2. CASE MdRecvLow
  <2>1. md.at = "recvLow" /\ pc.tl = 0 /\ MdMoves("recvSet", md.dir, md.th, md.last, cpu.stage)
    BY <1>i, <1>0, <1>2 DEF MdRecvLow, MdShape, MdMoves
  <2>2. /\ pc' = pc /\ md'.at = "recvSet" /\ md'.dir = md.dir /\ md'.th = md.th
        /\ md'.last = md.last /\ cpu'.stage = cpu.stage
    BY <2>1 DEF MdMoves
  <2>3. MdLines'
    BY <1>i, <2>1, <2>2 DEF MdLines, Joint, PcLines
  <2>4. Joint'
    BY <1>i, <2>1, <2>2 DEF MdLines, Joint, PcLines
  <2>. QED
    BY <2>1, <2>3, <2>4, MdMoved
<1>3. CASE MdRecvSet
  <2>1. md.at = "recvSet" /\ MdMoves("recvHigh", md.dir, 1, md.last, cpu.stage)
    BY <1>i, <1>0, <1>3 DEF MdRecvSet, MdWrite, MdShape, MdMoves
  <2>2. /\ pc' = pc /\ md'.at = "recvHigh" /\ md'.dir = md.dir /\ md'.th = 1
        /\ md'.last = md.last /\ cpu'.stage = cpu.stage
    BY <2>1 DEF MdMoves
  <2>3. MdLines'
    BY <1>i, <2>1, <2>2 DEF MdLines, Joint, PcLines
  <2>4. Joint'
    BY <1>i, <2>1, <2>2 DEF MdLines, Joint, PcLines
  <2>. QED
    BY <2>1, <2>3, <2>4, MdMoved
<1>4. CASE MdRecvHigh
  <2>0. PICK to : to = IF md.last THEN "done" ELSE "recvNext"
    OBVIOUS
  <2>1. md.at = "recvHigh" /\ pc.tl = 1 /\ MdMoves(to, md.dir, md.th, md.last, cpu.stage)
    BY <1>i, <1>0, <1>4, <2>0 DEF MdRecvHigh, MdShape, MdMoves
  <2>2. /\ pc' = pc /\ md'.at = to /\ md'.dir = md.dir /\ md'.th = md.th
        /\ md'.last = md.last /\ cpu'.stage = cpu.stage
    BY <2>1 DEF MdMoves
  <2>3. MdLines'
    BY <1>i, <2>0, <2>1, <2>2 DEF MdLines, Joint, PcLines
  <2>4. Joint'
    BY <1>i, <2>0, <2>1, <2>2 DEF MdLines, Joint, PcLines
  <2>. QED
    BY <2>1, <2>3, <2>4, MdMoved
<1>5. CASE MdRecvNext
  <2>1. md.at = "recvNext" /\ MdMoves("done", md.dir, 0, md.last, cpu.stage)
    BY <1>i, <1>0, <1>5 DEF MdRecvNext, MdWrite, MdShape, MdMoves
  <2>2. /\ pc' = pc /\ md'.at = "done" /\ md'.dir = md.dir /\ md'.th = 0
        /\ md'.last = md.last /\ cpu'.stage = cpu.stage
    BY <2>1 DEF MdMoves
  <2>3. MdLines'
    BY <1>i, <2>1, <2>2 DEF MdLines, Joint, PcLines
  <2>4. Joint'
    BY <1>i, <2>1, <2>2 DEF MdLines, Joint, PcLines
  <2>. QED
    BY <2>1, <2>3, <2>4, MdMoved
<1>6. CASE MdSendLow
  <2>1. md.at = "sendLow" /\ pc.tl = 0 /\ MdMoves("sendPutLow", md.dir, md.th, md.last, cpu.stage)
    BY <1>i, <1>0, <1>6 DEF MdSendLow, MdGo, MdShape, MdMoves
  <2>2. /\ pc' = pc /\ md'.at = "sendPutLow" /\ md'.dir = md.dir /\ md'.th = md.th
        /\ md'.last = md.last /\ cpu'.stage = cpu.stage
    BY <2>1 DEF MdMoves
  <2>3. MdLines'
    BY <1>i, <2>1, <2>2 DEF MdLines, Joint, PcLines
  <2>4. Joint'
    BY <1>i, <2>1, <2>2 DEF MdLines, Joint, PcLines
  <2>. QED
    BY <2>1, <2>3, <2>4, MdMoved
<1>7. CASE MdSendPutLow
  <2>1. md.at = "sendPutLow" /\ MdMoves("sendHigh", md.dir, 0, md.last, cpu.stage)
    BY <1>i, <1>0, <1>7 DEF MdSendPutLow, MdWrite, MdShape, MdMoves
  <2>2. /\ pc' = pc /\ md'.at = "sendHigh" /\ md'.dir = md.dir /\ md'.th = 0
        /\ md'.last = md.last /\ cpu'.stage = cpu.stage
    BY <2>1 DEF MdMoves
  <2>3. MdLines'
    BY <1>i, <2>1, <2>2 DEF MdLines, Joint, PcLines
  <2>4. Joint'
    BY <1>i, <2>1, <2>2 DEF MdLines, Joint, PcLines
  <2>. QED
    BY <2>1, <2>3, <2>4, MdMoved
<1>8. CASE MdSendHigh
  <2>1. md.at = "sendHigh" /\ pc.tl = 1 /\ MdMoves("sendPutHigh", md.dir, md.th, md.last, cpu.stage)
    BY <1>i, <1>0, <1>8 DEF MdSendHigh, MdGo, MdShape, MdMoves
  <2>2. /\ pc' = pc /\ md'.at = "sendPutHigh" /\ md'.dir = md.dir /\ md'.th = md.th
        /\ md'.last = md.last /\ cpu'.stage = cpu.stage
    BY <2>1 DEF MdMoves
  <2>3. MdLines'
    BY <1>i, <2>1, <2>2 DEF MdLines, Joint, PcLines
  <2>4. Joint'
    BY <1>i, <2>1, <2>2 DEF MdLines, Joint, PcLines
  <2>. QED
    BY <2>1, <2>3, <2>4, MdMoved
<1>9. CASE MdSendPutHigh
  <2>1. md.at = "sendPutHigh" /\ MdMoves("done", md.dir, 1, md.last, cpu.stage)
    BY <1>i, <1>0, <1>9 DEF MdSendPutHigh, MdWrite, MdShape, MdMoves
  <2>2. /\ pc' = pc /\ md'.at = "done" /\ md'.dir = md.dir /\ md'.th = 1
        /\ md'.last = md.last /\ cpu'.stage = cpu.stage
    BY <2>1 DEF MdMoves
  <2>3. MdLines'
    BY <1>i, <2>1, <2>2 DEF MdLines, Joint, PcLines
  <2>4. Joint'
    BY <1>i, <2>1, <2>2 DEF MdLines, Joint, PcLines
  <2>. QED
    BY <2>1, <2>3, <2>4, MdMoved
<1>10. CASE MdSwitchWait
  <2>1. md.at = "swLow" /\ pc.tl = 0 /\ MdMoves("swDir", md.dir, md.th, md.last, cpu.stage)
    BY <1>i, <1>0, <1>10 DEF MdSwitchWait, MdGo, MdShape, MdMoves
  <2>2. /\ pc' = pc /\ md'.at = "swDir" /\ md'.dir = md.dir /\ md'.th = md.th
        /\ md'.last = md.last /\ cpu'.stage = cpu.stage
    BY <2>1 DEF MdMoves
  <2>3. MdLines'
    BY <1>i, <2>1, <2>2 DEF MdLines, Joint, PcLines
  <2>4. Joint'
    BY <1>i, <2>1, <2>2 DEF MdLines, Joint, PcLines
  <2>. QED
    BY <2>1, <2>3, <2>4, MdMoved
<1>11. CASE MdSwitchDir
  <2>1. md.at = "swDir" /\ MdMoves("swTh", "data", md.th, md.last, cpu.stage)
    BY <1>i, <1>0, <1>11 DEF MdSwitchDir, MdShape, MdMoves
  <2>2. /\ pc' = pc /\ md'.at = "swTh" /\ md'.dir = "data" /\ md'.th = md.th
        /\ md'.last = md.last /\ cpu'.stage = cpu.stage
    BY <2>1 DEF MdMoves
  <2>3. MdLines'
    BY <1>i, <2>1, <2>2 DEF MdLines, Joint, PcLines
  <2>4. Joint'
    BY <1>i, <2>1, <2>2 DEF MdLines, Joint, PcLines
  <2>. QED
    BY <2>1, <2>3, <2>4, MdMoved
<1>12. CASE MdSwitchTh
  <2>1. md.at = "swTh" /\ MdMoves("done", md.dir, 1, md.last, cpu.stage)
    BY <1>i, <1>0, <1>12 DEF MdSwitchTh, MdWrite, MdShape, MdMoves
  <2>2. /\ pc' = pc /\ md'.at = "done" /\ md'.dir = md.dir /\ md'.th = 1
        /\ md'.last = md.last /\ cpu'.stage = cpu.stage
    BY <2>1 DEF MdMoves
  <2>3. MdLines'
    BY <1>i, <2>1, <2>2 DEF MdLines, Joint, PcLines
  <2>4. Joint'
    BY <1>i, <2>1, <2>2 DEF MdLines, Joint, PcLines
  <2>. QED
    BY <2>1, <2>3, <2>4, MdMoved
<1>13. CASE MdInput
  <2>1. md.at = "input" /\ MdMoves("done", "th", md.th, md.last, cpu.stage)
    BY <1>i, <1>0, <1>13 DEF MdInput, MdShape, MdMoves
  <2>2. /\ pc' = pc /\ md'.at = "done" /\ md'.dir = "th" /\ md'.th = md.th
        /\ md'.last = md.last /\ cpu'.stage = cpu.stage
    BY <2>1 DEF MdMoves
  <2>3. MdLines'
    BY <1>i, <2>1, <2>2 DEF MdLines, Joint, PcLines
  <2>4. Joint'
    BY <1>i, <2>1, <2>2 DEF MdLines, Joint, PcLines
  <2>. QED
    BY <2>1, <2>3, <2>4, MdMoved
<1>. QED
  BY <1>1, <1>2, <1>3, <1>4, <1>5, <1>6, <1>7, <1>8, <1>9, <1>10, <1>11, <1>12, <1>13
  DEF MdPrim, MdPrimitive

\* Where a handler may go when a primitive has returned.
Leads(at, last, stage) ==
  \/ at = "recvClr" /\ md.dir = "th" /\ stage \in DownStages /\ (last \/ stage \in NextStages)
  \/ at = "sendLow" /\ md.dir = "data" /\ stage \in {"recv", "vram", "ioSend"}
  \/ at = "swLow" /\ md.dir = "th" /\ md.th = 1 /\ stage \in {"recv", "vram", "ioRead"}
  \/ at = "input" /\ md.th = 1 /\ stage = "ioNext"
  \/ at = "return" /\ stage \in CpuStages
  \/ at = "hang" /\ md.dir = "th" /\ stage \in CpuStages
  \/ at = "done" /\ md.th = 1 /\ stage = "fault"

LEMMA HandlerMoved ==
  ASSUME HandInv, NEW at, NEW last, NEW stage, md.at = "done",
         MdMoves(at, md.dir, md.th, last, stage), Leads(at, last, stage)
  PROVE  HandInv'
<1>i. PcShape /\ MdShape /\ JobShape /\ PcLines /\ MdLines /\ Joint
  BY DEF HandInv
<1> USE DEF RecvPoints, DownStages, UpStages, NextStages, MdPoints, Asleep, MdLow, TH, Leads
<1>1. /\ pc' = pc /\ md'.at = at /\ md'.dir = md.dir /\ md'.th = md.th
      /\ md'.last = last /\ cpu'.stage = stage
  BY DEF MdMoves
<1>2. MdLines'
  BY <1>i, <1>1 DEF MdLines, MdShape
<1>3. Joint'
  BY <1>i, <1>1 DEF MdLines, Joint, MdShape
<1>. QED
  BY <1>2, <1>3, MdMoved

\* What each handler does with the console's state.
HandlerMoves ==
  \E at \in MdPoints, last \in BOOLEAN, stage \in CpuStages :
    MdMoves(at, md.dir, md.th, last, stage) /\ Leads(at, last, stage)

LEMMA ByMove ==
  ASSUME NEW at \in MdPoints, NEW last \in BOOLEAN, NEW stage \in CpuStages,
         MdMoves(at, md.dir, md.th, last, stage), Leads(at, last, stage)
  PROVE  HandlerMoves
BY DEF HandlerMoves

LEMMA ACommand == ASSUME NEW b, IsCommand(b) PROVE Command(b) \in DOMAIN Code
BY DEF IsCommand, Command

LEMMA HandlersMove == ASSUME HandInv, MdHandler PROVE md.at = "done" /\ HandlerMoves
<1>i. PcShape /\ MdShape /\ JobShape /\ PcLines /\ MdLines /\ Joint
  BY DEF HandInv
<1>t. /\ md.last \in BOOLEAN /\ cpu.stage \in CpuStages
      /\ {"return", "recvClr", "hang", "sendLow", "swLow", "input", "done"} \subseteq MdPoints
  BY <1>i DEF MdShape, MdPoints
<1> USE DEF DownStages, UpStages, NextStages, CpuStages
<1>f. ASSUME MdCrash, md.at = "done", cpu.stage \in {"args", "ioWrite", "ioRead"}, UNCHANGED <<pc, job>>
      PROVE  md.at = "done" /\ HandlerMoves
  <2>1. MdMoves("done", md.dir, md.th, md.last, "fault")
    BY <1>i, <1>t, <1>f DEF MdCrash, MdMoves, MdShape, MdStart
  <2>2. Leads("done", md.last, "fault")
    BY <1>i, <1>t, <1>f DEF Leads, MdLines, MdShape
  <2>. QED
    BY <1>t, <1>f, <2>1, <2>2, ByMove
<1>1. CASE MdPrefix
  <2>1. md.at = "done" /\ cpu.stage = "prefix" /\ UNCHANGED <<pc, job>>
    BY <1>1 DEF MdPrefix, MdKeep, pcHas
  <2>2. CASE md.byte = CmdPrefix
    <3>1. MdMoves("recvClr", md.dir, md.th, TRUE, "cmd")
      BY <1>i, <1>t, <1>1, <2>1, <2>2 DEF MdPrefix, MdMoves, MdShape, MdRecv, Recv
    <3>2. Leads("recvClr", TRUE, "cmd")
      BY <1>i, <1>t, <2>1 DEF Leads, MdLines, MdShape
    <3>. QED
      BY <1>t, <2>1, <3>1, <3>2, ByMove
  <2>3. CASE md.byte # CmdPrefix
    <3>1. MdMoves("return", md.dir, md.th, md.last, cpu.stage)
      BY <1>i, <1>t, <1>1, <2>1, <2>3 DEF MdPrefix, MdMoves, MdShape, MdLeave, MdStart
    <3>2. Leads("return", md.last, cpu.stage)
      BY <1>i, <1>t, <2>1 DEF Leads, MdLines, MdShape
    <3>. QED
      BY <1>t, <2>1, <3>1, <3>2, ByMove
  <2>. QED
    BY <1>i, <2>1, <2>2, <2>3 DEF MdShape
<1>2. CASE MdCommand
  <2>1. md.at = "done" /\ cpu.stage = "cmd" /\ UNCHANGED <<pc, job>>
    BY <1>2 DEF MdCommand, MdKeep, pcHas
  <2>2. CASE ~IsCommand(md.byte)
    <3>1. MdMoves("return", md.dir, md.th, md.last, cpu.stage)
      BY <1>i, <1>t, <1>2, <2>1, <2>2 DEF MdCommand, MdMoves, MdShape, MdLeave, MdStart
    <3>2. Leads("return", md.last, cpu.stage)
      BY <1>i, <1>t, <2>1 DEF Leads, MdLines, MdShape
    <3>. QED
      BY <1>t, <2>1, <3>1, <3>2, ByMove
  <2>3. CASE IsCommand(md.byte)
    <3>0. PICK c : c = Command(md.byte) /\ c \in {"send", "recv", "jump", "io", "loadstate", "recvvram"}
      BY <2>3, ACommand DEF Code
    <3> DEFINE to == IF c = "recvvram" THEN "swLow" ELSE "recvClr"
               last == IF c = "recvvram" THEN md.last ELSE c # "loadstate"
               stage == CASE c = "loadstate" -> "load" [] c = "recvvram" -> "vram"
                          [] c = "io" -> "count" [] OTHER -> "args"
    <3>a. /\ md' = CASE c = "loadstate" -> MdRecv(FALSE)
                     [] c = "recvvram"  -> MdStart("swLow")
                     [] OTHER           -> MdRecv(TRUE)
          /\ \E left : cpu' = [cpu EXCEPT !.stage = stage, !.cmd = c, !.acc = <<>>, !.addr = 0,
                                         !.left = left]
      BY <1>2, <2>3, <3>0 DEF MdCommand
    <3>b. to \in MdPoints /\ last \in BOOLEAN /\ stage \in CpuStages
      BY <1>t
    <3>c. md.dir = "th" /\ md.th = 1
      BY <1>i, <2>1 DEF MdLines, MdShape
    <3>1. MdMoves(to, md.dir, md.th, last, stage)
      BY <1>i, <1>t, <2>1, <3>0, <3>a DEF MdMoves, MdShape, MdRecv, MdStart
    <3>2. Leads(to, last, stage)
      BY <3>0, <3>c DEF Leads
    <3> HIDE DEF to, last, stage
    <3>. QED
      BY <2>1, <3>b, <3>1, <3>2, ByMove
  <2>. QED
    BY <2>1, <2>2, <2>3
<1>3. CASE MdArgs
  <2>1. md.at = "done" /\ cpu.stage = "args" /\ UNCHANGED <<pc, job>>
    BY <1>3 DEF MdArgs, MdKeep, pcHas
  <2>2. CASE Len(Append(cpu.acc, md.byte)) < (IF cpu.cmd = "jump" THEN 3 ELSE 6)
    <3>1. MdMoves("recvClr", md.dir, md.th, TRUE, "args")
      BY <1>i, <1>t, <1>3, <2>1, <2>2 DEF MdArgs, MdMoves, MdShape, MdRecv, Recv
    <3>2. Leads("recvClr", TRUE, "args")
      BY <1>i, <1>t, <2>1 DEF Leads, MdLines, MdShape
    <3>. QED
      BY <1>t, <2>1, <3>1, <3>2, ByMove
  <2>3. CASE ~(Len(Append(cpu.acc, md.byte)) < (IF cpu.cmd = "jump" THEN 3 ELSE 6)) /\ cpu.cmd = "jump"
    <3>1. CASE md' = MdStart("return") /\ UNCHANGED cpu
      <4>1. MdMoves("return", md.dir, md.th, md.last, cpu.stage)
        BY <1>i, <1>t, <2>1, <3>1 DEF MdMoves, MdShape, MdStart
      <4>2. Leads("return", md.last, cpu.stage)
        BY <1>i, <1>t, <2>1 DEF Leads, MdLines, MdShape
      <4>. QED
        BY <1>t, <2>1, <4>1, <4>2, ByMove
    <3>2. CASE MdCrash
      BY <1>f, <2>1, <3>2
    <3>. QED
      BY <1>3, <2>3, <3>1, <3>2 DEF MdArgs, MdLeave
  <2>4. CASE ~(Len(Append(cpu.acc, md.byte)) < (IF cpu.cmd = "jump" THEN 3 ELSE 6)) /\ cpu.cmd = "send"
    <3>1. MdMoves("recvClr", md.dir, md.th, FALSE, "send")
      BY <1>i, <1>t, <1>3, <2>1, <2>4 DEF MdArgs, MdMoves, MdShape, MdRecv, Recv
    <3>2. Leads("recvClr", FALSE, "send")
      BY <1>i, <1>t, <2>1 DEF Leads, MdLines, MdShape
    <3>. QED
      BY <1>t, <2>1, <3>1, <3>2, ByMove
  <2>5. CASE ~(Len(Append(cpu.acc, md.byte)) < (IF cpu.cmd = "jump" THEN 3 ELSE 6)) /\ cpu.cmd = "recv"
    <3>1. MdMoves("swLow", md.dir, md.th, md.last, "recv")
      BY <1>i, <1>t, <1>3, <2>1, <2>5 DEF MdArgs, MdMoves, MdShape, MdStart
    <3>2. Leads("swLow", md.last, "recv")
      BY <1>i, <1>t, <2>1 DEF Leads, MdLines, MdShape
    <3>. QED
      BY <1>t, <2>1, <3>1, <3>2, ByMove
  <2>. QED
    BY <1>i, <2>1, <2>2, <2>3, <2>4, <2>5 DEF MdShape
<1>4. CASE MdStore
  <2>1. md.at = "done" /\ cpu.stage = "send" /\ UNCHANGED <<pc, job>>
    BY <1>4 DEF MdStore, MdKeep, pcHas
  <2>2. CASE cpu.left > 1
    <3>1. MdMoves("recvClr", md.dir, md.th, FALSE, cpu.stage)
      BY <1>i, <1>t, <1>4, <2>1, <2>2 DEF MdStore, MdMoves, MdShape, MdRecv, Recv
    <3>2. Leads("recvClr", FALSE, cpu.stage)
      BY <1>i, <1>t, <2>1 DEF Leads, MdLines, MdShape
    <3>. QED
      BY <1>t, <2>1, <3>1, <3>2, ByMove
  <2>3. CASE ~(cpu.left > 1)
    <3>1. MdMoves("return", md.dir, md.th, md.last, cpu.stage)
      BY <1>i, <1>t, <1>4, <2>1, <2>3 DEF MdStore, MdMoves, MdShape, MdLeave, MdStart
    <3>2. Leads("return", md.last, cpu.stage)
      BY <1>i, <1>t, <2>1 DEF Leads, MdLines, MdShape
    <3>. QED
      BY <1>t, <2>1, <3>1, <3>2, ByMove
  <2>. QED
    BY <1>i, <2>1, <2>2, <2>3 DEF MdShape
<1>5. CASE MdFetch
  <2>1. md.at = "done" /\ cpu.stage \in {"recv", "vram"} /\ UNCHANGED <<pc, job>>
    BY <1>5 DEF MdFetch, MdKeep, pcHas
  <2>2. CASE cpu.acc # <<>> /\ cpu.left <= 0
    <3>1. MdMoves("return", md.dir, md.th, md.last, cpu.stage)
      BY <1>i, <1>t, <1>5, <2>1, <2>2 DEF MdFetch, MdMoves, MdShape, MdLeave, MdStart
    <3>2. Leads("return", md.last, cpu.stage)
      BY <1>i, <1>t, <2>1 DEF Leads, MdLines, MdShape
    <3>. QED
      BY <1>t, <2>1, <3>1, <3>2, ByMove
  <2>3. CASE ~(cpu.acc # <<>> /\ cpu.left <= 0)
    <3>1. MdMoves("sendLow", md.dir, md.th, md.last, cpu.stage)
      BY <1>i, <1>t, <1>5, <2>1, <2>3 DEF MdFetch, MdMoves, MdShape, MdSend
    <3>2. Leads("sendLow", md.last, cpu.stage)
      BY <1>i, <1>t, <2>1 DEF Leads, MdLines, MdShape
    <3>. QED
      BY <1>t, <2>1, <3>1, <3>2, ByMove
  <2>. QED
    BY <1>i, <2>1, <2>2, <2>3 DEF MdShape
<1>6. CASE MdLoad
  <2>1. md.at = "done" /\ cpu.stage = "load" /\ UNCHANGED <<pc, job>>
    BY <1>6 DEF MdLoad, MdKeep, pcHas
  <2>2. CASE cpu.left + LoadRegs = 1
    <3>1. MdMoves("hang", md.dir, md.th, md.last, cpu.stage)
      BY <1>i, <1>t, <1>6, <2>1, <2>2 DEF MdLoad, MdMoves, MdShape, MdStart
    <3>2. Leads("hang", md.last, cpu.stage)
      BY <1>i, <1>t, <2>1 DEF Leads, MdLines, MdShape
    <3>. QED
      BY <1>t, <2>1, <3>1, <3>2, ByMove
  <2>3. CASE cpu.left + LoadRegs # 1 /\ cpu.left <= 1
    <3>0. (cpu.left <= 1) = TRUE
      BY <2>3
    <3>a. md' = MdRecv(TRUE)
      BY <1>6, <2>3, <3>0, Zenon DEF MdLoad
    <3>1. MdMoves("recvClr", md.dir, md.th, TRUE, cpu.stage)
      BY <1>i, <1>t, <1>6, <2>1, <3>a DEF MdLoad, MdMoves, MdShape, MdRecv
    <3>2. Leads("recvClr", TRUE, cpu.stage)
      BY <1>i, <1>t, <2>1 DEF Leads, MdLines, MdShape
    <3>. QED
      BY <1>t, <2>1, <3>1, <3>2, ByMove
  <2>4. CASE cpu.left + LoadRegs # 1 /\ ~(cpu.left <= 1)
    <3>0. (cpu.left <= 1) = FALSE
      BY <2>4
    <3>a. md' = MdRecv(FALSE)
      BY <1>6, <2>4, <3>0, Zenon DEF MdLoad
    <3>1. MdMoves("recvClr", md.dir, md.th, FALSE, cpu.stage)
      BY <1>i, <1>t, <1>6, <2>1, <3>a DEF MdLoad, MdMoves, MdShape, MdRecv
    <3>2. Leads("recvClr", FALSE, cpu.stage)
      BY <1>i, <1>t, <2>1 DEF Leads, MdLines, MdShape
    <3>. QED
      BY <1>t, <2>1, <3>1, <3>2, ByMove
  <2>. QED
    BY <1>i, <2>1, <2>2, <2>3, <2>4 DEF MdShape
<1>7. CASE MdCount
  <2>1. md.at = "done" /\ cpu.stage = "count" /\ UNCHANGED <<pc, job>>
    BY <1>7 DEF MdCount, MdKeep, pcHas
  <2>2. CASE Len(Append(cpu.acc, md.byte)) < 2
    <3>1. MdMoves("recvClr", md.dir, md.th, TRUE, cpu.stage)
      BY <1>i, <1>t, <1>7, <2>1, <2>2 DEF MdCount, MdMoves, MdShape, MdRecv, Recv
    <3>2. Leads("recvClr", TRUE, cpu.stage)
      BY <1>i, <1>t, <2>1 DEF Leads, MdLines, MdShape
    <3>. QED
      BY <1>t, <2>1, <3>1, <3>2, ByMove
  <2>3. CASE ~(Len(Append(cpu.acc, md.byte)) < 2)
    <3>1. MdMoves("input", md.dir, md.th, md.last, "ioNext")
      BY <1>i, <1>t, <1>7, <2>1, <2>3 DEF MdCount, MdMoves, MdShape, MdStart
    <3>2. Leads("input", md.last, "ioNext")
      BY <1>i, <1>t, <2>1 DEF Leads, MdLines, MdShape
    <3>. QED
      BY <1>t, <2>1, <3>1, <3>2, ByMove
  <2>. QED
    BY <1>i, <2>1, <2>2, <2>3 DEF MdShape
<1>8. CASE MdIoNext
  <2>1. md.at = "done" /\ cpu.stage = "ioNext" /\ UNCHANGED <<pc, job>>
    BY <1>8 DEF MdIoNext, MdKeep, pcHas
  <2>2. CASE NoMoreOps
    <3>1. MdMoves("return", md.dir, md.th, md.last, cpu.stage)
      BY <1>i, <1>t, <1>8, <2>1, <2>2 DEF MdIoNext, MdMoves, MdShape, MdLeave, MdStart
    <3>2. Leads("return", md.last, cpu.stage)
      BY <1>i, <1>t, <2>1 DEF Leads, MdLines, MdShape
    <3>. QED
      BY <1>t, <2>1, <3>1, <3>2, ByMove
  <2>3. CASE ~NoMoreOps
    <3>1. MdMoves("recvClr", md.dir, md.th, TRUE, "ioOp")
      BY <1>i, <1>t, <1>8, <2>1, <2>3 DEF MdIoNext, MdMoves, MdShape, MdRecv, Recv
    <3>2. Leads("recvClr", TRUE, "ioOp")
      BY <1>i, <1>t, <2>1 DEF Leads, MdLines, MdShape
    <3>. QED
      BY <1>t, <2>1, <3>1, <3>2, ByMove
  <2>. QED
    BY <1>i, <2>1, <2>2, <2>3 DEF MdShape
<1>9. CASE MdIoOp
  <2>1. md.at = "done" /\ cpu.stage = "ioOp" /\ UNCHANGED <<pc, job>>
    BY <1>9 DEF MdIoOp, MdKeep, pcHas
  <2>2. CASE Len(Append(cpu.acc, md.byte)) < 4
    <3>1. MdMoves("recvClr", md.dir, md.th, TRUE, cpu.stage)
      BY <1>i, <1>t, <1>9, <2>1, <2>2 DEF MdIoOp, MdMoves, MdShape, MdRecv, Recv
    <3>2. Leads("recvClr", TRUE, cpu.stage)
      BY <1>i, <1>t, <2>1 DEF Leads, MdLines, MdShape
    <3>. QED
      BY <1>t, <2>1, <3>1, <3>2, ByMove
  <2>3. CASE ~(Len(Append(cpu.acc, md.byte)) < 4) /\ Append(cpu.acc, md.byte)[1] \in {IoCode[o] : o \in DOMAIN IoCode \ Reads}
    <3>1. MdMoves("recvClr", md.dir, md.th, TRUE, "ioWrite")
      BY <1>i, <1>t, <1>9, <2>1, <2>3 DEF MdIoOp, MdMoves, MdShape, MdRecv, Recv
    <3>2. Leads("recvClr", TRUE, "ioWrite")
      BY <1>i, <1>t, <2>1 DEF Leads, MdLines, MdShape
    <3>. QED
      BY <1>t, <2>1, <3>1, <3>2, ByMove
  <2>4. CASE ~(Len(Append(cpu.acc, md.byte)) < 4) /\ ~(Append(cpu.acc, md.byte)[1] \in {IoCode[o] : o \in DOMAIN IoCode \ Reads})
    <3>1. MdMoves("swLow", md.dir, md.th, md.last, "ioRead")
      BY <1>i, <1>t, <1>9, <2>1, <2>4 DEF MdIoOp, MdMoves, MdShape, MdStart
    <3>2. Leads("swLow", md.last, "ioRead")
      BY <1>i, <1>t, <2>1 DEF Leads, MdLines, MdShape
    <3>. QED
      BY <1>t, <2>1, <3>1, <3>2, ByMove
  <2>. QED
    BY <1>i, <2>1, <2>2, <2>3, <2>4 DEF MdShape
<1>10. CASE MdIoWrite
  <2>1. md.at = "done" /\ cpu.stage = "ioWrite" /\ UNCHANGED <<pc, job>>
    BY <1>10 DEF MdIoWrite, MdKeep, pcHas
  <2>2. CASE Len(Append(cpu.acc, md.byte)) < Width[IoOf(cpu.op)]
    <3>1. MdMoves("recvClr", md.dir, md.th, TRUE, cpu.stage)
      BY <1>i, <1>t, <1>10, <2>1, <2>2 DEF MdIoWrite, MdMoves, MdShape, MdRecv, Recv
    <3>2. Leads("recvClr", TRUE, cpu.stage)
      BY <1>i, <1>t, <2>1 DEF Leads, MdLines, MdShape
    <3>. QED
      BY <1>t, <2>1, <3>1, <3>2, ByMove
  <2>3. CASE ~(Len(Append(cpu.acc, md.byte)) < Width[IoOf(cpu.op)])
    <3>1. CASE md' = MdStart("input") /\ cpu' = [cpu EXCEPT !.stage = "ioNext", !.acc = <<>>]
      <4>1. MdMoves("input", md.dir, md.th, md.last, "ioNext")
        BY <1>i, <1>t, <2>1, <3>1 DEF MdMoves, MdShape, MdStart
      <4>2. Leads("input", md.last, "ioNext")
        BY <1>i, <1>t, <2>1 DEF Leads, MdLines, MdShape
      <4>. QED
        BY <1>t, <2>1, <4>1, <4>2, ByMove
    <3>2. CASE MdCrash
      BY <1>f, <2>1, <3>2
    <3>. QED
      BY <1>10, <2>3, <3>1, <3>2 DEF MdIoWrite
  <2>. QED
    BY <1>i, <2>1, <2>2, <2>3 DEF MdShape
<1>11. CASE MdIoRead
  <2>1. md.at = "done" /\ cpu.stage = "ioRead" /\ UNCHANGED <<pc, job>>
    BY <1>11 DEF MdIoRead, MdKeep, pcHas
  <2>2. CASE cpu.op \notin {IoCode[o] : o \in Reads}
    <3>1. MdMoves("return", md.dir, md.th, md.last, cpu.stage)
      BY <1>i, <1>t, <1>11, <2>1, <2>2 DEF MdIoRead, MdMoves, MdShape, MdLeave, MdStart
    <3>2. Leads("return", md.last, cpu.stage)
      BY <1>i, <1>t, <2>1 DEF Leads, MdLines, MdShape
    <3>. QED
      BY <1>t, <2>1, <3>1, <3>2, ByMove
  <2>3. CASE cpu.op \in {IoCode[o] : o \in Reads}
    <3>1. CASE \E b, acc : md' = MdSend(b) /\ cpu' = [cpu EXCEPT !.stage = "ioSend", !.acc = acc]
      <4>1. MdMoves("sendLow", md.dir, md.th, md.last, "ioSend")
        BY <1>i, <1>t, <2>1, <3>1 DEF MdMoves, MdShape, MdSend
      <4>2. Leads("sendLow", md.last, "ioSend")
        BY <1>i, <1>t, <2>1 DEF Leads, MdLines, MdShape
      <4>. QED
        BY <1>t, <2>1, <4>1, <4>2, ByMove
    <3>2. CASE MdCrash
      BY <1>f, <2>1, <3>2
    <3>. QED
      BY <1>11, <2>3, <3>1, <3>2 DEF MdIoRead
  <2>. QED
    BY <1>i, <2>1, <2>2, <2>3 DEF MdShape
<1>12. CASE MdIoSend
  <2>1. md.at = "done" /\ cpu.stage = "ioSend" /\ UNCHANGED <<pc, job>>
    BY <1>12 DEF MdIoSend, MdKeep, pcHas
  <2>2. CASE cpu.acc = <<>>
    <3>1. MdMoves("input", md.dir, md.th, md.last, "ioNext")
      BY <1>i, <1>t, <1>12, <2>1, <2>2 DEF MdIoSend, MdMoves, MdShape, MdStart
    <3>2. Leads("input", md.last, "ioNext")
      BY <1>i, <1>t, <2>1 DEF Leads, MdLines, MdShape
    <3>. QED
      BY <1>t, <2>1, <3>1, <3>2, ByMove
  <2>3. CASE cpu.acc # <<>>
    <3>1. MdMoves("sendLow", md.dir, md.th, md.last, cpu.stage)
      BY <1>i, <1>t, <1>12, <2>1, <2>3 DEF MdIoSend, MdMoves, MdShape, MdSend
    <3>2. Leads("sendLow", md.last, cpu.stage)
      BY <1>i, <1>t, <2>1 DEF Leads, MdLines, MdShape
    <3>. QED
      BY <1>t, <2>1, <3>1, <3>2, ByMove
  <2>. QED
    BY <1>i, <2>1, <2>2, <2>3 DEF MdShape
<1>. QED
  BY <1>1, <1>2, <1>3, <1>4, <1>5, <1>6, <1>7, <1>8, <1>9, <1>10, <1>11, <1>12 DEF MdHandler

LEMMA MdHandlerSafe == HandInv /\ MdHandler => HandInv'
<1> SUFFICES ASSUME HandInv, MdHandler PROVE HandInv'
  OBVIOUS
<1>1. md.at = "done" /\ HandlerMoves
  BY HandlersMove
<1>2. PICK at \in MdPoints, last \in BOOLEAN, stage \in CpuStages :
        MdMoves(at, md.dir, md.th, last, stage) /\ Leads(at, last, stage)
  BY <1>1 DEF HandlerMoves
<1>. QED
  BY <1>1, <1>2, HandlerMoved

\* The main loop and do_transfer outside the handlers, and the reset button.
LEMMA MdProgramSafe == HandInv /\ (MdProgram \/ MdReset) => HandInv'
<1> SUFFICES ASSUME HandInv, MdProgram \/ MdReset PROVE HandInv'
  OBVIOUS
<1>i. PcShape /\ MdShape /\ JobShape /\ PcLines /\ MdLines /\ Joint
  BY DEF HandInv
<1> USE DEF RecvPoints, DownStages, UpStages, NextStages, MdPoints, PcTlLow, PcInputs, Asleep, MdLow, TH
<1>1. CASE MdPoll
  <2>1. md.at \in {"idle", "boot"} /\ pc.tr = 0 /\ MdMoves("startTh", "th", md.th, md.last, cpu.stage)
    BY <1>i, <1>1 DEF MdPoll, MdShape, MdMoves, MdKeep, pcHas, CpuStages
  <2>2. /\ pc' = pc /\ md'.at = "startTh" /\ md'.dir = "th" /\ md'.th = md.th
        /\ md'.last = md.last /\ cpu'.stage = cpu.stage
    BY <2>1 DEF MdMoves
  <2>3. MdLines'
    BY <1>i, <2>1, <2>2 DEF MdLines, Joint, PcLines
  <2>4. Joint'
    BY <1>i, <2>1, <2>2 DEF MdLines, Joint, PcLines
  <2>. QED
    BY <2>1, <2>3, <2>4, MdMoved
<1>2. CASE MdBooted
  <2>1. md.at = "boot" /\ pc.tr = 1 /\ MdMoves("idle", md.dir, md.th, md.last, cpu.stage)
    BY <1>i, <1>2 DEF MdBooted, MdShape, MdMoves, MdKeep, pcHas, CpuStages
  <2>2. /\ pc' = pc /\ md'.at = "idle" /\ md'.dir = md.dir /\ md'.th = md.th
        /\ md'.last = md.last /\ cpu'.stage = cpu.stage
    BY <2>1 DEF MdMoves
  <2>3. MdLines'
    BY <1>i, <2>1, <2>2 DEF MdLines, Joint, PcLines
  <2>4. Joint'
    BY <1>i, <2>1, <2>2 DEF MdLines, Joint, PcLines
  <2>. QED
    BY <2>1, <2>3, <2>4, MdMoved
<1>3. CASE MdStartTh
  <2>1. md.at = "startTh" /\ MdMoves("askLow", md.dir, 0, md.last, cpu.stage)
    BY <1>i, <1>3 DEF MdStartTh, MdWrite, MdShape, MdMoves, MdKeep, pcHas, CpuStages
  <2>2. /\ pc' = pc /\ md'.at = "askLow" /\ md'.dir = md.dir /\ md'.th = 0
        /\ md'.last = md.last /\ cpu'.stage = cpu.stage
    BY <2>1 DEF MdMoves
  <2>3. MdLines'
    BY <1>i, <2>1, <2>2 DEF MdLines, Joint, PcLines
  <2>4. Joint'
    BY <1>i, <2>1, <2>2 DEF MdLines, Joint, PcLines
  <2>. QED
    BY <2>1, <2>3, <2>4, MdMoved
<1>4. CASE MdEnter
  <2>1. md.at = "askLow" /\ pc.tl = 0 /\ MdMoves("recvClr", "th", 0, TRUE, "prefix")
    BY <1>i, <1>4 DEF MdEnter, MdRecv, MdShape, MdMoves, MdKeep, pcHas, CpuStages
  <2>2. /\ pc' = pc /\ md'.at = "recvClr" /\ md'.dir = "th" /\ md'.th = 0
        /\ md'.last = TRUE /\ cpu'.stage = "prefix"
    BY <2>1 DEF MdMoves
  <2>3. MdLines'
    BY <1>i, <2>1, <2>2 DEF MdLines, Joint, PcLines
  <2>4. Joint'
    BY <1>i, <2>1, <2>2 DEF MdLines, Joint, PcLines
  <2>. QED
    BY <2>1, <2>3, <2>4, MdMoved
<1>5. CASE MdEarlyTimeout
  <2>1. md.at = "askLow" /\ pc.tl = 1 /\ MdMoves("idle", "in", md.th, md.last, cpu.stage)
    BY <1>i, <1>5 DEF MdEarlyTimeout, MdShape, MdMoves, MdKeep, pcHas, CpuStages
  <2>2. /\ pc' = pc /\ md'.at = "idle" /\ md'.dir = "in" /\ md'.th = md.th
        /\ md'.last = md.last /\ cpu'.stage = cpu.stage
    BY <2>1 DEF MdMoves
  <2>3. MdLines'
    BY <1>i, <2>1, <2>2 DEF MdLines, Joint, PcLines
  <2>4. Joint'
    BY <1>i, <2>1, <2>2 DEF MdLines, Joint, PcLines
  <2>. QED
    BY <2>1, <2>3, <2>4, MdMoved
<1>6. CASE MdReturn
  <2>1. md.at = "return" /\ MdMoves("idle", "in", md.th, md.last, "none")
    BY <1>i, <1>6 DEF MdReturn, MdShape, MdMoves, MdKeep, pcHas, CpuStages
  <2>2. /\ pc' = pc /\ md'.at = "idle" /\ md'.dir = "in" /\ md'.th = md.th
        /\ md'.last = md.last /\ cpu'.stage = "none"
    BY <2>1 DEF MdMoves
  <2>3. MdLines'
    BY <1>i, <2>1, <2>2 DEF MdLines, Joint, PcLines
  <2>4. Joint'
    BY <1>i, <2>1, <2>2 DEF MdLines, Joint, PcLines
  <2>. QED
    BY <2>1, <2>3, <2>4, MdMoved
<1>8. CASE MdFault
  <2>1. md.at = "done" /\ cpu.stage = "fault" /\ MdMoves("startTh", "th", md.th, md.last, cpu.stage)
    BY <1>i, <1>8 DEF MdFault, MdShape, MdMoves, MdKeep, pcHas, CpuStages
  <2>2. /\ pc' = pc /\ md'.at = "startTh" /\ md'.dir = "th" /\ md'.th = md.th
        /\ md'.last = md.last /\ cpu'.stage = cpu.stage
    BY <2>1 DEF MdMoves
  <2>3. MdLines'
    BY <1>i, <2>1, <2>2 DEF MdLines, Joint, PcLines
  <2>4. Joint'
    BY <1>i, <2>1, <2>2 DEF MdLines, Joint, PcLines
  <2>. QED
    BY <2>1, <2>3, <2>4, MdMoved
<1>7. CASE MdReset
  <2>1. md.at # "boot" /\ MdMoves("boot", "in", md.th, md.last, "none")
    BY <1>i, <1>7 DEF MdReset, MdShape, MdMoves, MdKeep, pcHas, CpuStages
  <2>2. /\ pc' = pc /\ md'.at = "boot" /\ md'.dir = "in" /\ md'.th = md.th
        /\ md'.last = md.last /\ cpu'.stage = "none"
    BY <2>1 DEF MdMoves
  <2>3. MdLines'
    BY <1>i, <2>1, <2>2 DEF MdLines, Joint, PcLines
  <2>4. Joint'
    BY <1>i, <2>1, <2>2 DEF MdLines, Joint, PcLines
  <2>. QED
    BY <2>1, <2>3, <2>4, MdMoved
<1>. QED
  BY <1>1, <1>2, <1>3, <1>4, <1>5, <1>6, <1>7, <1>8, MdHandlerSafe, MdPrimSafe DEF MdProgram

LEMMA HandStep == HandInv /\ [TransferNext]_vars => HandInv'
<1> SUFFICES ASSUME HandInv, [TransferNext]_vars PROVE HandInv'
  OBVIOUS
<1>1. CASE UNCHANGED vars
  BY <1>1 DEF vars, HandInv, PcShape, MdShape, JobShape, PcLines, MdLines, Joint, TH, MdLow
<1>2. CASE TransferNext
  BY <1>2, PcRunsSafe, PcProgramSafe, MdProgramSafe DEF TransferNext
<1>. QED
  BY <1>1, <1>2

-----------------------------------------------------------------------------
(* The two ends do not drive D0-D3 against each other, whatever has been   *)
(* interrupted or reset, and at whatever speed the two programs run.       *)
THEOREM NeverContended == TransferSpec => []NoTransferContention
<1>1. HandInv => NoTransferContention
  BY DEF HandInv, Joint, NoTransferContention, Contention, MdDrivesData
<1>. QED
  BY <1>1, HandInitially, HandStep, PTL DEF TransferSpec

\* What AckIsFresh says of a step.
FreshAck == pc.at = "startAck" /\ pc'.at = "done" => md.at \in {"startTh", "askLow"}

\* None of them touches the PC.
LEMMA HandlersKeep == ASSUME MdHandler PROVE MdKeep
<1>1. CASE MdPrefix
  BY <1>1 DEF MdPrefix
<1>2. CASE MdCommand
  BY <1>2 DEF MdCommand
<1>3. CASE MdArgs
  BY <1>3 DEF MdArgs
<1>4. CASE MdStore
  BY <1>4 DEF MdStore
<1>5. CASE MdFetch
  BY <1>5 DEF MdFetch
<1>6. CASE MdLoad
  BY <1>6 DEF MdLoad
<1>7. CASE MdCount
  BY <1>7 DEF MdCount
<1>8. CASE MdIoNext
  BY <1>8 DEF MdIoNext
<1>9. CASE MdIoOp
  BY <1>9 DEF MdIoOp
<1>10. CASE MdIoWrite
  BY <1>10 DEF MdIoWrite
<1>11. CASE MdIoRead
  BY <1>11 DEF MdIoRead
<1>12. CASE MdIoSend
  BY <1>12 DEF MdIoSend
<1>. QED
  BY <1>1, <1>2, <1>3, <1>4, <1>5, <1>6, <1>7, <1>8, <1>9, <1>10, <1>11, <1>12 DEF MdHandler

LEMMA AckStep == HandInv /\ [TransferNext]_vars => [FreshAck]_vars
<1> SUFFICES ASSUME HandInv, TransferNext, pc.at = "startAck", pc'.at = "done"
             PROVE  md.at \in {"startTh", "askLow"}
  BY DEF FreshAck
<1>1. CASE TH = 0
  BY <1>1 DEF HandInv, Joint
<1>2. CASE TH # 0
  <2>1. CASE \E r \in Requests : PcRun(r)
    BY <2>1 DEF PcRun
  <2>2. CASE PcProgram
    BY <2>2, <1>2 DEF PcProgram, PcAsk, PcAcked, OutB, PcNextCall, PcExit, PcFinish, PcPrim, PcPrimitive,
         PcSendWaitLow, PcSendTlLow, PcSendWaitHigh, PcSendTlHigh, PcRecvTlLow, PcRecvWaitLow,
         PcRecvLow, PcRecvTlHigh, PcRecvWaitHigh, PcRecvHigh, PcToIn, PcDelay, PcToOut, PcGo
  <2>3. CASE PcAbort
    BY <2>3 DEF PcAbort, HandInv, PcShape
  <2>4. CASE MdProgram \/ MdReset
    <3>1. UNCHANGED pc
      BY <2>4, HandlersKeep DEF MdProgram, MdReset, MdPoll, MdBooted, MdStartTh, MdEnter, MdEarlyTimeout,
           MdReturn, MdFault, MdPrim, MdKeep, pcHas
    <3>. QED
      BY <3>1
  <2>. QED
    BY <2>1, <2>2, <2>3, <2>4 DEF TransferNext
<1>. QED
  BY <1>1, <1>2

(* TH low is an answer only of a console that has just entered PC mode:    *)
(* what an aborted run has left behind is never taken for one.             *)
THEOREM AcksAreFresh == TransferSpec => AckIsFresh
<1>1. [FreshAck]_vars => [pc.at = "startAck" /\ pc'.at = "done" => md.at \in {"startTh", "askLow"}]_vars
  BY DEF FreshAck
<1>. QED
  BY <1>1, HandInitially, HandStep, AckStep, PTL DEF TransferSpec, AckIsFresh

-----------------------------------------------------------------------------
(* What the two programs can hold.                                         *)

\* What the console makes of the bytes of an address, a length or a count.
Places(f, s) ==
  /\ f \in [0..Len(s) -> Nat] /\ f[0] = 0
  /\ \A i \in 1..Len(s) : f[i] = 256 * f[i - 1] + Low(s[i]) + 16 * High(s[i])

LEMMA NumIs == ASSUME NEW s \in Seq(Byte) PROVE \E f : Places(f, s) /\ Num(s) = f[Len(s)]
<1> DEFINE N == Len(s)
           Body(f, i) == IF i = 0 THEN 0 ELSE 256 * f[i - 1] + Low(s[i]) + 16 * High(s[i])
           Grows(f, n) == f = [i \in 0..n |-> Body(f, i)]
           T == {n \in Nat : n <= N => \E f : Grows(f, n)}
<1>a. N \in Nat
  OBVIOUS
<1>b. \A i \in 1..N : Low(s[i]) \in Nat /\ High(s[i]) \in Nat
  BY WholeNibbles DEF Byte, Low, High
<1> HIDE DEF N, Grows
<1>1. 0 \in T
  <2>1. PICK f : f = [i \in 0..0 |-> 0]
    OBVIOUS
  <2>2. Grows(f, 0)
    BY <2>1 DEF Grows
  <2>. QED
    BY <2>2
<1>2. ASSUME NEW n \in Nat, n \in T PROVE n + 1 \in T
  <2>1. SUFFICES ASSUME n + 1 <= N PROVE \E g : Grows(g, n + 1)
    OBVIOUS
  <2>2. PICK f : Grows(f, n)
    BY <1>2, <1>a, <2>1
  <2>3. PICK g : g = [i \in 0..(n + 1) |-> Body(f, i)]
    OBVIOUS
  <2>4. \A i \in 0..n : g[i] = f[i]
    <3>1. \A i \in 0..n : f[i] = Body(f, i)
      BY <2>2 DEF Grows
    <3>. QED
      BY <2>3, <3>1
  <2>5. \A i \in 0..(n + 1) : Body(f, i) = Body(g, i)
    BY <2>4
  <2>6. g = [i \in 0..(n + 1) |-> Body(g, i)]
    BY <2>3, <2>5
  <2>. QED
    BY <2>6 DEF Grows
<1>3. PICK f : Grows(f, N)
  <2> HIDE DEF T
  <2>1. N \in T
    BY <1>1, <1>2, <1>a, NatSets
  <2>. QED
    BY <2>1, <1>a DEF T
<1> DEFINE upTo == CHOOSE g : g = [i \in 0..Len(s) |->
                     IF i = 0 THEN 0 ELSE 256 * g[i - 1] + Low(s[i]) + 16 * High(s[i])]
<1>4. upTo = [i \in 0..Len(s) |-> Body(upTo, i)]
  BY <1>3 DEF Grows, N
<1> HIDE DEF upTo
<1>5. \A i \in 0..N : upTo[i] = Body(upTo, i)
  BY <1>4 DEF N
<1> DEFINE U == {n \in Nat : n <= N => upTo[n] \in Nat}
<1>6. 0 \in U
  BY <1>5, <1>a
<1>7. ASSUME NEW n \in Nat, n \in U PROVE n + 1 \in U
  <2>1. SUFFICES ASSUME n + 1 <= N PROVE upTo[n + 1] \in Nat
    OBVIOUS
  <2>2. upTo[n] \in Nat
    BY <1>7, <1>a, <2>1
  <2>3. upTo[n + 1] = 256 * upTo[n] + Low(s[n + 1]) + 16 * High(s[n + 1])
    BY <1>5, <1>a, <2>1
  <2>. QED
    BY <1>b, <1>a, <2>1, <2>2, <2>3
<1>8. \A n \in Nat : n \in U
  <2> HIDE DEF U
  <2>. QED
    BY <1>6, <1>7, NatSets
<1>9. upTo \in [0..N -> Nat]
  <2>1. \A n \in 0..N : upTo[n] \in Nat
    BY <1>8, <1>a
  <2>2. upTo = [n \in 0..N |-> upTo[n]]
    BY <1>4, <1>5
  <2>. QED
    BY <2>1, <2>2
<1>10. Places(upTo, s)
  <2>1. \A n \in 1..N : n \in 0..N /\ n # 0
    BY <1>a
  <2>. QED
    BY <1>5, <1>9, <1>a, <2>1 DEF Places, N
<1>. QED
  BY <1>10 DEF Num, upTo

LEMMA NumType == ASSUME NEW s \in Seq(Byte) PROVE Num(s) \in Nat
<1>1. PICK f : Places(f, s) /\ Num(s) = f[Len(s)]
  BY NumIs
<1>2. Len(s) \in 0..Len(s)
  OBVIOUS
<1>. QED
  BY <1>1, <1>2 DEF Places

\* VRAM's byte at an address needs the address to be a number.
Typed == HandInv /\ TransferTypeOK /\ cpu.addr \in Int

LEMMA NibblesOfBytes == ASSUME NEW b \in Byte PROVE Low(b) \in Nibble /\ High(b) \in Nibble
BY DEF Byte, Low, High

LEMMA PcKeepsType ==
  ASSUME Typed, pc' \in PcState, UNCHANGED <<mdHas, before, used>>,
         job'.rd \in Seq(Byte), job'.end \in {"running", "ok", "aborted"}
  PROVE  TransferTypeOK' /\ cpu'.addr \in Int
BY DEF Typed, TransferTypeOK, mdHas

LEMMA PcPrimTypes == ASSUME Typed, PcPrim PROVE TransferTypeOK' /\ cpu'.addr \in Int
<1>1. pc \in PcState /\ md \in MdState
  BY DEF Typed, TransferTypeOK
<1>2. pc.byte \in Byte /\ Low(pc.byte) \in Nibble /\ High(pc.byte) \in Nibble
  BY <1>1, NibblesOfBytes DEF PcState
<1>3. PcSees \subseteq Nibble
  BY <1>1 DEF PcSees, MdState
<1>4. \A n \in Nibble : <<n, High(pc.byte)>> \in Byte /\ <<Low(pc.byte), n>> \in Byte
  BY <1>2 DEF Byte
<1>5. pc' \in PcState
  <2>1. CASE PcSendWaitLow
    BY <2>1, <1>1, <1>2 DEF PcSendWaitLow, PcState, PcPoints
  <2>2. CASE PcSendTlLow
    BY <2>2, <1>1 DEF PcSendTlLow, OutB, PcState, PcPoints
  <2>3. CASE PcSendWaitHigh
    BY <2>3, <1>1, <1>2 DEF PcSendWaitHigh, PcState, PcPoints
  <2>4. CASE PcSendTlHigh
    BY <2>4, <1>1 DEF PcSendTlHigh, OutB, PcState, PcPoints
  <2>5. CASE PcRecvTlLow
    BY <2>5, <1>1 DEF PcRecvTlLow, OutB, PcState, PcPoints
  <2>6. CASE PcRecvWaitLow
    BY <2>6, <1>1 DEF PcRecvWaitLow, PcGo, PcState, PcPoints
  <2>7. CASE PcRecvLow
    <3>1. PICK n \in Nibble : pc' = [pc EXCEPT !.at = "recvTlHigh", !.byte = <<n, High(pc.byte)>>]
      BY <2>7, <1>3 DEF PcRecvLow
    <3>. QED
      BY <3>1, <1>1, <1>4 DEF PcState, PcPoints
  <2>8. CASE PcRecvTlHigh
    BY <2>8, <1>1 DEF PcRecvTlHigh, OutB, PcState, PcPoints
  <2>9. CASE PcRecvWaitHigh
    BY <2>9, <1>1 DEF PcRecvWaitHigh, PcGo, PcState, PcPoints
  <2>10. CASE PcRecvHigh
    <3>1. PICK n \in Nibble : pc' = [pc EXCEPT !.at = "done", !.byte = <<Low(pc.byte), n>>]
      BY <2>10, <1>3 DEF PcRecvHigh
    <3>. QED
      BY <3>1, <1>1, <1>4 DEF PcState, PcPoints
  <2>11. CASE PcToIn
    BY <2>11, <1>1 DEF PcToIn, OutB, PcState, PcPoints
  <2>12. CASE PcDelay
    BY <2>12, <1>1 DEF PcDelay, PcGo, PcState, PcPoints
  <2>13. CASE PcToOut
    BY <2>13, <1>1 DEF PcToOut, OutB, PcState, PcPoints
  <2>. QED
    BY <2>1, <2>2, <2>3, <2>4, <2>5, <2>6, <2>7, <2>8, <2>9, <2>10, <2>11, <2>12, <2>13
    DEF PcPrim, PcPrimitive
<1>6. UNCHANGED <<mdHas, before, used>> /\ job' = job
  BY DEF PcPrim
<1>7. job.rd \in Seq(Byte) /\ job.end \in {"running", "ok", "aborted"}
  BY DEF Typed, TransferTypeOK
<1>. QED
  BY <1>5, <1>6, <1>7, PcKeepsType

\* The rest of pc_transfer: its calls, its start and its end.
LEMMA PcTypes ==
  ASSUME Typed, PcProgram \/ (\E r \in Requests : PcRun(r)) \/ PcAbort
  PROVE  TransferTypeOK' /\ cpu'.addr \in Int
<1>1. /\ pc \in PcState /\ job.rd \in Seq(Byte) /\ job.end \in {"running", "ok", "aborted"}
      /\ ram \in [Addr -> Byte]
      /\ used \in [runs : 0..MaxRuns, aborts : 0..MaxAborts, resets : 0..MaxResets, valid : BOOLEAN]
  BY DEF Typed, TransferTypeOK
<1>2. JobShape
  BY DEF Typed, HandInv
<1>3. Received \in Seq(Byte)
  <2>1. pc.byte \in Byte
    BY <1>1 DEF PcState
  <2>. QED
    BY <1>1, <2>1 DEF Received
<1>4. CASE PcAsk \/ PcAcked \/ PcFinish
  <2>1. pc' \in PcState
    BY <1>1, <1>4 DEF PcAsk, PcAcked, PcFinish, OutB, PcState, PcPoints
  <2>2. job' = job /\ UNCHANGED <<mdHas, before, used>>
    BY <1>4 DEF PcAsk, PcAcked, PcFinish
  <2>. QED
    BY <1>1, <2>1, <2>2, PcKeepsType
<1>5. CASE PcNextCall
  <2>1. PICK c : c = Head(job.calls)
    OBVIOUS
  <2>2. job.calls # <<>> /\ c \in CallSet
    BY <1>2, <1>5, <2>1 DEF PcNextCall, JobShape, CallSeq
  <2>3. pc' = CASE c.call = "send" -> PcSend(c.byte)
                [] c.call = "recv" -> PcStart("recvTlLow")
                [] OTHER           -> PcStart(c.call)
    BY <1>5, <2>1 DEF PcNextCall
  <2>4. pc' \in PcState
    <3>1. CASE c.call = "send"
      <4>1. c.byte \in Byte
        BY <2>2, <3>1 DEF CallSet
      <4>. QED
        BY <1>1, <2>3, <3>1, <4>1 DEF PcSend, PcState, PcPoints
    <3>2. CASE c.call # "send"
      <4>1. c.call \in {"recv", "toIn", "toOut"}
        BY <2>2, <3>2 DEF CallSet
      <4>. QED
        BY <1>1, <2>3, <4>1 DEF PcStart, PcState, PcPoints
    <3>. QED
      BY <3>1, <3>2
  <2>5. job'.rd = Received /\ job'.end = job.end
    BY <1>2, <1>5 DEF PcNextCall, JobShape
  <2>6. UNCHANGED <<mdHas, before, used>>
    BY <1>5 DEF PcNextCall
  <2>. QED
    BY <1>1, <1>3, <2>4, <2>5, <2>6, PcKeepsType
<1>6. CASE PcExit
  <2>1. pc' \in PcState
    BY <1>1, <1>6 DEF PcExit, PcStart, PcState, PcPoints
  <2>2. job'.rd = Received /\ job'.end = "ok"
    BY <1>2, <1>6 DEF PcExit, JobShape
  <2>3. UNCHANGED <<mdHas, before, used>>
    BY <1>6 DEF PcExit
  <2>. QED
    BY <1>3, <2>1, <2>2, <2>3, PcKeepsType
<1>7. ASSUME NEW r \in Requests, PcRun(r) PROVE TransferTypeOK' /\ cpu'.addr \in Int
  <2>1. pc' \in PcState
    BY <1>1, <1>7 DEF PcRun, PcState, PcPoints
  <2>2. job'.rd = <<>> /\ job'.end = "running" /\ before' = ram /\ UNCHANGED mdHas
    BY <1>7 DEF PcRun
  <2>3. used' \in [runs : 0..MaxRuns, aborts : 0..MaxAborts, resets : 0..MaxResets, valid : BOOLEAN]
    <3>1. used' = [used EXCEPT !.runs = used.runs + 1, !.valid = used.valid /\ Encodable(r)]
      BY <1>7 DEF PcRun
    <3>2. PICK valid \in BOOLEAN : valid = (used.valid /\ Encodable(r))
      OBVIOUS
    <3>3. used.runs + 1 \in 0..MaxRuns
      <4>1. used.runs < MaxRuns
        BY <1>7 DEF PcRun
      <4>. QED
        BY <1>1, <4>1, BoundsAssumption
    <3>4. used' = [used EXCEPT !.runs = used.runs + 1, !.valid = valid]
      BY <3>1, <3>2, Zenon
    <3>. QED
      BY <1>1, <3>3, <3>4
  <2>. QED
    BY <1>1, <2>1, <2>2, <2>3 DEF Typed, TransferTypeOK, mdHas
<1>8. CASE PcAbort
  <2>1. pc' \in PcState
    BY <1>1, <1>8 DEF PcAbort, PcState, PcPoints
  <2>2. job'.rd = job.rd /\ job'.end = "aborted" /\ before' = before /\ UNCHANGED mdHas
    BY <1>2, <1>8 DEF PcAbort, JobShape
  <2>3. used' \in [runs : 0..MaxRuns, aborts : 0..MaxAborts, resets : 0..MaxResets, valid : BOOLEAN]
    BY <1>1, <1>8, BoundsAssumption DEF PcAbort
  <2>. QED
    BY <1>1, <2>1, <2>2, <2>3 DEF Typed, TransferTypeOK, mdHas
<1>. QED
  BY <1>4, <1>5, <1>6, <1>7, <1>8, PcPrimTypes DEF PcProgram

LEMMA MdPrimTypes == ASSUME Typed, MdPrim PROVE TransferTypeOK' /\ cpu'.addr \in Int
<1>1. pc \in PcState /\ md \in MdState
  BY DEF Typed, TransferTypeOK
<1>2. md.byte \in Byte /\ Low(md.byte) \in Nibble /\ High(md.byte) \in Nibble /\ 0 \in Nibble
  BY <1>1, NibblesOfBytes, NibbleAssumption DEF MdState
<1>3. MdSees \subseteq Nibble
  BY <1>1 DEF MdSees, PcState
<1>4. \A n \in Nibble : <<n, High(md.byte)>> \in Byte /\ <<Low(md.byte), n>> \in Byte
  BY <1>2 DEF Byte
<1>5. md' \in MdState
  <2>1. CASE MdRecvClr \/ MdRecvSet \/ MdRecvNext \/ MdSendPutLow \/ MdSendPutHigh \/ MdSwitchTh
    BY <2>1, <1>1, <1>2
    DEF MdRecvClr, MdRecvSet, MdRecvNext, MdSendPutLow, MdSendPutHigh, MdSwitchTh, MdWrite, MdState, MdPoints
  <2>2. CASE MdSendLow \/ MdSendHigh \/ MdSwitchWait
    BY <2>2, <1>1 DEF MdSendLow, MdSendHigh, MdSwitchWait, MdGo, MdState, MdPoints
  <2>3. CASE MdSwitchDir \/ MdInput
    BY <2>3, <1>1 DEF MdSwitchDir, MdInput, MdState, MdPoints
  <2>4. CASE MdRecvLow
    <3>1. PICK n \in Nibble : md' = [md EXCEPT !.at = "recvSet", !.byte = <<n, High(md.byte)>>]
      BY <2>4, <1>3 DEF MdRecvLow
    <3>. QED
      BY <3>1, <1>1, <1>4 DEF MdState, MdPoints
  <2>5. CASE MdRecvHigh
    <3>1. PICK n \in Nibble : md' = [md EXCEPT !.at = IF md.last THEN "done" ELSE "recvNext",
                                               !.byte = <<Low(md.byte), n>>]
      BY <2>5, <1>3 DEF MdRecvHigh
    <3>. QED
      BY <3>1, <1>1, <1>4 DEF MdState, MdPoints
  <2>. QED
    BY <2>1, <2>2, <2>3, <2>4, <2>5 DEF MdPrim, MdPrimitive
<1>6. UNCHANGED <<cpu, ram, jumps, pc, job, before, used>>
  BY DEF MdPrim, MdKeep, pcHas
<1>. QED
  BY <1>5, <1>6 DEF Typed, TransferTypeOK

\* What a handler leaves: the next primitive's byte, the bytes it has put
\* together, the address and the count, the memory.
LEMMA HandlerType ==
  ASSUME Typed, HandInv', MdKeep,
         NEW at \in MdPoints, NEW last \in BOOLEAN, NEW byte \in Byte,
         md' = [md EXCEPT !.at = at, !.last = last, !.byte = byte],
         cpu'.acc \in Seq(Byte), cpu'.left \in Int, cpu'.addr \in Int,
         ram' \in [Addr -> Byte], jumps' \in Seq(Nat)
  PROVE  TransferTypeOK' /\ cpu'.addr \in Int
<1>1. md' \in MdState
  BY DEF Typed, TransferTypeOK, MdState
<1>2. cpu'.stage \in CpuStages
  BY DEF HandInv, MdShape
<1>. QED
  BY <1>1, <1>2 DEF Typed, TransferTypeOK, MdKeep, pcHas

\* The same for one that calls a primitive without a byte of its own.
LEMMA CallType ==
  ASSUME Typed, HandInv', MdKeep,
         \/ \E last \in BOOLEAN : md' = MdRecv(last)
         \/ \E at \in {"return", "hang", "swLow", "input", "done"} : md' = MdStart(at)
         \/ \E byte \in Byte : md' = MdSend(byte),
         cpu'.acc \in Seq(Byte), cpu'.left \in Int, cpu'.addr \in Int,
         ram' \in [Addr -> Byte], jumps' \in Seq(Nat)
  PROVE  TransferTypeOK' /\ cpu'.addr \in Int
<1>1. md = [at |-> md.at, dir |-> md.dir, th |-> md.th, data |-> md.data,
            byte |-> md.byte, last |-> md.last] /\ md.last \in BOOLEAN /\ md.byte \in Byte
  BY DEF Typed, HandInv, MdShape, TransferTypeOK, MdState
<1> DEFINE Calls1(at, last, byte) == md' = [md EXCEPT !.at = at, !.last = last, !.byte = byte]
<1>2. \E at \in MdPoints, last \in BOOLEAN, byte \in Byte : Calls1(at, last, byte)
  <2>1. ASSUME NEW last \in BOOLEAN, md' = MdRecv(last)
        PROVE  Calls1("recvClr", last, md.byte)
    BY <1>1, <2>1 DEF MdRecv
  <2>2. ASSUME NEW at \in {"return", "hang", "swLow", "input", "done"}, md' = MdStart(at)
        PROVE  Calls1(at, md.last, md.byte)
    BY <1>1, <2>2 DEF MdStart
  <2>3. ASSUME NEW byte \in Byte, md' = MdSend(byte)
        PROVE  Calls1("sendLow", md.last, byte)
    BY <1>1, <2>3 DEF MdSend
  <2>4. {"recvClr", "return", "hang", "swLow", "input", "done", "sendLow"} \subseteq MdPoints
    BY DEF MdPoints
  <2> HIDE DEF Calls1
  <2>. QED
    BY <1>1, <2>1, <2>2, <2>3, <2>4
<1>3. PICK at \in MdPoints, last \in BOOLEAN, byte \in Byte : Calls1(at, last, byte)
  BY <1>2
<1>. QED
  BY <1>3, HandlerType

LEMMA PeekType == ASSUME NEW m \in [Addr -> Byte], NEW a PROVE Peek(m, a) \in Byte
<1>1. <<0, 0>> \in Byte
  BY NibbleAssumption DEF Byte
<1>2. a \in Addr => m[a] \in Byte
  OBVIOUS
<1>. QED
  BY <1>1, <1>2 DEF Peek

LEMMA PokeType ==
  ASSUME NEW m \in [Addr -> Byte], NEW a, NEW s \in Seq(Byte)
  PROVE  Poke(m, a, s) \in [Addr -> Byte]
<1>1. \A i \in DOMAIN s : s[i] \in Byte
  OBVIOUS
<1>. QED
  BY <1>1 DEF Poke

LEMMA HandlerTypes == ASSUME Typed, MdHandler PROVE TransferTypeOK' /\ cpu'.addr \in Int
<1>1. HandInv' /\ md.at = "done"
  BY MdHandlerSafe, HandlersMove DEF Typed
<1>2. /\ md.byte \in Byte /\ cpu.acc \in Seq(Byte) /\ cpu.left \in Int /\ cpu.addr \in Int
      /\ ram \in [Addr -> Byte] /\ jumps \in Seq(Nat)
  BY DEF Typed, TransferTypeOK, MdState
<1>3. cpu = [stage |-> cpu.stage, cmd |-> cpu.cmd, op |-> cpu.op, acc |-> cpu.acc,
             left |-> cpu.left, addr |-> cpu.addr, early |-> cpu.early]
  BY DEF Typed, HandInv, MdShape
<1>4. PICK acc : acc = Append(cpu.acc, md.byte)
  OBVIOUS
<1>5. acc \in Seq(Byte) /\ Len(acc) \in Nat \ {0} /\ Tail(acc) \in Seq(Byte)
  BY <1>2, <1>4
<1>6. \A a \in Seq(Byte) : Num(a) \in Int
  BY NumType
<1>7. {LoadBytes, VramBytes, LoadRegs} \subseteq Int
  BY BoundsAssumption
<1>8. <<>> \in Seq(Byte)
  OBVIOUS
<1>9. cpu.left - 1 \in Int /\ cpu.addr + 1 \in Int /\ 0 \in Int
  BY <1>2
<1>10. MdKeep
  BY HandlersKeep
<1> DEFINE Goes == \/ \E last \in BOOLEAN : md' = MdRecv(last)
                   \/ \E at \in {"return", "hang", "swLow", "input", "done"} : md' = MdStart(at)
                   \/ \E byte \in Byte : md' = MdSend(byte)
           Keeps == /\ cpu'.acc \in Seq(Byte) /\ cpu'.left \in Int /\ cpu'.addr \in Int
                    /\ ram' \in [Addr -> Byte] /\ jumps' \in Seq(Nat)
<1>11. CASE MdPrefix
  <2>1. Goes
    BY <1>11 DEF MdPrefix, Recv, MdLeave
  <2>2. Keeps
    <3>1. cpu' = cpu \/ cpu' = [cpu EXCEPT !.stage = "cmd", !.acc = <<>>]
      BY <1>11 DEF MdPrefix, Recv, MdLeave
    <3>2. cpu'.acc \in {cpu.acc, <<>>} /\ cpu'.left = cpu.left /\ cpu'.addr = cpu.addr
      BY <1>3, <3>1
    <3>3. UNCHANGED <<ram, jumps>>
      BY <1>11 DEF MdPrefix
    <3>. QED
      BY <1>8, <1>2, <3>2, <3>3
  <2>. QED
    BY <1>1, <1>10, <2>1, <2>2, CallType
<1>12. CASE MdLoad
  <2>1. Goes
    <3>1. (cpu.left <= 1) \in BOOLEAN
      OBVIOUS
    <3>2. md' = MdStart("hang") \/ md' = MdRecv(cpu.left <= 1)
      BY <1>12 DEF MdLoad
    <3>. QED
      BY <3>1, <3>2
  <2>2. Keeps
    <3>1. cpu' = [cpu EXCEPT !.left = cpu.left - 1, !.acc = acc] /\ UNCHANGED <<ram, jumps>>
      BY <1>12, <1>4 DEF MdLoad
    <3>. QED
      BY <1>8, <1>2, <1>3, <1>5, <3>1
  <2>. QED
    BY <1>1, <1>10, <2>1, <2>2, CallType
<1>13. CASE MdIoNext
  <2>1. Goes
    BY <1>13 DEF MdIoNext, MdLeave
  <2>2. Keeps
    <3>1. cpu' = cpu \/ cpu' = [cpu EXCEPT !.stage = "ioOp", !.left = cpu.left - 1, !.acc = <<>>]
      BY <1>13 DEF MdIoNext, MdLeave
    <3>2. cpu'.acc \in {cpu.acc, <<>>} /\ cpu'.left \in {cpu.left, cpu.left - 1} /\ cpu'.addr = cpu.addr
      BY <1>3, <3>1
    <3>3. UNCHANGED <<ram, jumps>>
      BY <1>13 DEF MdIoNext
    <3>. QED
      BY <1>8, <1>9, <1>2, <3>2, <3>3
  <2>. QED
    BY <1>1, <1>10, <2>1, <2>2, CallType
<1>14. CASE MdCommand
  <2>1. PICK c : c = Command(md.byte)
    OBVIOUS
  <2>2. Goes
    BY <1>14, <2>1 DEF MdCommand, MdLeave
  <2>3. Keeps
    <3>1. PICK left : left = CASE c = "loadstate" -> LoadBytes [] c = "recvvram" -> VramBytes [] OTHER -> 0
      OBVIOUS
    <3>2. left \in Int
      BY <1>7, <3>1
    <3>3. UNCHANGED <<ram, jumps>>
      BY <1>14 DEF MdCommand
    <3>4. \/ cpu' = cpu
          \/ \E stage : cpu' = [cpu EXCEPT !.stage = stage, !.cmd = c, !.acc = <<>>, !.addr = 0, !.left = left]
      BY <1>14, <2>1, <3>1 DEF MdCommand, MdLeave
    <3>5. cpu'.acc \in {cpu.acc, <<>>} /\ cpu'.left \in {cpu.left, left} /\ cpu'.addr \in {cpu.addr, 0}
      BY <1>3, <3>4
    <3>. QED
      BY <1>8, <1>9, <1>2, <3>2, <3>3, <3>5
  <2>. QED
    BY <1>1, <1>10, <2>2, <2>3, CallType
<1>15. CASE MdArgs
  <2>1. PICK n : n = IF cpu.cmd = "jump" THEN 3 ELSE 6
    OBVIOUS
  <2>2. ASSUME ~(Len(acc) < n) PROVE Num(SubSeq(acc, 1, 3)) \in Nat
    <3>1. SubSeq(acc, 1, 3) \in Seq(Byte)
      BY <1>5, <2>1, <2>2
    <3>. QED
      BY <3>1, NumType
  <2>3. ASSUME ~(Len(acc) < n), cpu.cmd # "jump" PROVE Num(SubSeq(acc, 4, 6)) \in Nat
    <3>1. SubSeq(acc, 4, 6) \in Seq(Byte)
      BY <1>5, <2>1, <2>3
    <3>. QED
      BY <3>1, NumType
  <2>4. Goes
    BY <1>15 DEF MdArgs, MdLeave, MdCrash
  <2>5. Keeps
    <3>1. CASE Len(acc) < n
      BY <1>15, <1>2, <1>3, <1>4, <1>5, <2>1, <3>1 DEF MdArgs
    <3>2. CASE ~(Len(acc) < n) /\ cpu.cmd = "jump"
      <4>1. /\ jumps' = jumps \/ jumps' = Append(jumps, Num(SubSeq(acc, 1, 3)))
            /\ cpu' = cpu \/ cpu' = [cpu EXCEPT !.stage = "fault"]
            /\ ram' = ram
        BY <1>15, <1>4, <2>1, <3>2 DEF MdArgs, MdLeave, MdCrash
      <4>2. cpu'.acc = cpu.acc /\ cpu'.left = cpu.left /\ cpu'.addr = cpu.addr
        BY <1>3, <4>1
      <4>3. Append(jumps, Num(SubSeq(acc, 1, 3))) \in Seq(Nat)
        BY <1>2, <2>2, <3>2
      <4>. QED
        BY <1>2, <4>1, <4>2, <4>3
    <3>3. CASE ~(Len(acc) < n) /\ cpu.cmd # "jump"
      <4>1. /\ cpu' = [cpu EXCEPT !.stage = cpu.cmd, !.addr = Num(SubSeq(acc, 1, 3)), !.acc = <<>>,
                                  !.left = Num(SubSeq(acc, 4, 6))]
            /\ UNCHANGED <<ram, jumps>>
        BY <1>15, <1>4, <2>1, <3>3 DEF MdArgs
      <4>. QED
        BY <1>2, <1>3, <2>2, <2>3, <3>3, <4>1
    <3>. QED
      BY <3>1, <3>2, <3>3
  <2>. QED
    BY <1>1, <1>10, <2>4, <2>5, CallType
<1>16. CASE MdStore
  <2>1. Goes
    BY <1>16 DEF MdStore
  <2>2. <<md.byte>> \in Seq(Byte)
    BY <1>2
  <2>3. Keeps
    <3>1. Poke(ram, cpu.addr, <<md.byte>>) \in [Addr -> Byte]
      BY <1>2, <2>2, PokeType
    <3>. QED
      BY <1>16, <1>2, <1>3, <3>1 DEF MdStore
  <2>. QED
    BY <1>1, <1>10, <2>1, <2>3, CallType
<1>17. CASE MdFetch
  <2>1. VramByte(cpu.addr) \in Byte /\ Peek(ram, cpu.addr) \in Byte
    BY <1>2, BType, PeekType DEF VramByte
  <2>2. Goes
    BY <1>17, <2>1 DEF MdFetch, MdLeave
  <2>3. <<md.byte>> \in Seq(Byte)
    BY <1>2
  <2>4. Keeps
    <3>1. \/ cpu' = cpu
          \/ cpu' = [cpu EXCEPT !.addr = cpu.addr + 1, !.left = cpu.left - 1, !.acc = <<md.byte>>]
      BY <1>17 DEF MdFetch, MdLeave
    <3>2. UNCHANGED <<ram, jumps>>
      BY <1>17 DEF MdFetch
    <3>3. /\ cpu'.acc \in {cpu.acc, <<md.byte>>} /\ cpu'.left \in {cpu.left, cpu.left - 1}
          /\ cpu'.addr \in {cpu.addr, cpu.addr + 1}
      BY <1>3, <3>1
    <3>. QED
      BY <1>8, <1>9, <1>2, <2>3, <3>2, <3>3
  <2>. QED
    BY <1>1, <1>10, <2>2, <2>4, CallType
<1>18. CASE MdCount
  <2>1. Goes
    BY <1>18 DEF MdCount
  <2>2. Keeps
    <3>1. \/ cpu' = [cpu EXCEPT !.acc = acc]
          \/ cpu' = [cpu EXCEPT !.stage = "ioNext", !.left = Num(acc), !.acc = <<>>]
      BY <1>18, <1>4 DEF MdCount
    <3>2. UNCHANGED <<ram, jumps>> /\ Num(acc) \in Int
      BY <1>18, <1>5, <1>6 DEF MdCount
    <3>3. cpu'.acc \in {acc, <<>>} /\ cpu'.left \in {cpu.left, Num(acc)} /\ cpu'.addr = cpu.addr
      BY <1>3, <3>1
    <3>. QED
      BY <1>8, <1>2, <1>5, <3>2, <3>3
  <2>. QED
    BY <1>1, <1>10, <2>1, <2>2, CallType
<1>19. CASE MdIoOp
  <2>1. Goes
    BY <1>19 DEF MdIoOp
  <2>2. Keeps
    <3>1. \/ cpu' = [cpu EXCEPT !.acc = acc]
          \/ \E stage : cpu' = [cpu EXCEPT !.stage = stage, !.op = acc[1], !.addr = Num(Tail(acc)), !.acc = <<>>]
      BY <1>19, <1>4 DEF MdIoOp
    <3>2. UNCHANGED <<ram, jumps>> /\ Num(Tail(acc)) \in Int
      BY <1>19, <1>5, <1>6 DEF MdIoOp
    <3>3. cpu'.acc \in {acc, <<>>} /\ cpu'.left = cpu.left /\ cpu'.addr \in {cpu.addr, Num(Tail(acc))}
      BY <1>3, <3>1
    <3>. QED
      BY <1>8, <1>2, <1>5, <3>2, <3>3
  <2>. QED
    BY <1>1, <1>10, <2>1, <2>2, CallType
<1>20. CASE MdIoWrite
  <2>1. Goes
    BY <1>20 DEF MdIoWrite, MdCrash
  <2>2. Poke(ram, cpu.addr, acc) \in [Addr -> Byte]
    BY <1>2, <1>5, PokeType
  <2>3. Keeps
    <3>1. \/ cpu' = [cpu EXCEPT !.acc = acc]
          \/ cpu' = [cpu EXCEPT !.stage = "ioNext", !.acc = <<>>]
          \/ cpu' = [cpu EXCEPT !.stage = "fault"]
      BY <1>20, <1>4 DEF MdIoWrite, MdCrash
    <3>2. cpu'.acc \in {acc, <<>>, cpu.acc} /\ cpu'.left = cpu.left /\ cpu'.addr = cpu.addr
      BY <1>3, <3>1
    <3>3. jumps' = jumps /\ ram' \in {ram, Poke(ram, cpu.addr, acc)}
      BY <1>20, <1>4 DEF MdIoWrite
    <3>. QED
      BY <1>8, <1>2, <1>5, <2>2, <3>2, <3>3
  <2>. QED
    BY <1>1, <1>10, <2>1, <2>3, CallType
<1>21. CASE MdIoRead
  <2>1. CASE cpu.op \notin {IoCode[o] : o \in Reads}
    <3>1. Goes /\ Keeps
      BY <1>21, <1>2, <2>1 DEF MdIoRead, MdLeave
    <3>. QED
      BY <1>1, <1>10, <3>1, CallType
  <2>2. CASE cpu.op \in {IoCode[o] : o \in Reads}
    <3>1. Peek(ram, cpu.addr) \in Byte
      BY <1>2, PeekType
    <3>2. Goes
      BY <1>21, <2>2, <3>1 DEF MdIoRead, MdCrash
    <3>3. Width[IoOf(cpu.op)] \in Nat \ {0}
      <4>1. IoOf(cpu.op) \in DOMAIN IoCode
        BY <2>2 DEF IoOf, Reads, IoCode
      <4>. QED
        BY <4>1 DEF IoCode, Width
    <3>4. Tail(PeekN(ram, cpu.addr, Width[IoOf(cpu.op)])) \in Seq(Byte)
      <4>1. PICK n \in Nat \ {0} : n = Width[IoOf(cpu.op)]
        BY <3>3
      <4>2. PeekN(ram, cpu.addr, n) \in [1..n -> Byte]
        BY <1>2, PeekType DEF PeekN
      <4>3. PICK s \in Seq(Byte) : s = PeekN(ram, cpu.addr, n) /\ Len(s) = n
        BY <4>2
      <4>4. Tail(s) \in Seq(Byte)
        BY <4>3
      <4>. QED
        BY <4>1, <4>3, <4>4
    <3>5. Keeps
      BY <1>21, <1>2, <1>3, <2>2, <3>4 DEF MdIoRead, MdCrash
    <3>. QED
      BY <1>1, <1>10, <3>2, <3>5, CallType
  <2>. QED
    BY <2>1, <2>2
<1>22. CASE MdIoSend
  <2>1. cpu.acc # <<>> => Head(cpu.acc) \in Byte /\ Tail(cpu.acc) \in Seq(Byte)
    BY <1>2
  <2>2. Goes
    BY <1>22, <2>1 DEF MdIoSend
  <2>3. Keeps
    BY <1>22, <1>2, <1>3, <2>1 DEF MdIoSend
  <2>. QED
    BY <1>1, <1>10, <2>2, <2>3, CallType
<1>. QED
  BY <1>11, <1>14, <1>15, <1>16, <1>17, <1>18, <1>19, <1>20, <1>21, <1>22, <1>12, <1>13 DEF MdHandler

\* The main loop, the start and the end of do_transfer, and the reset button.
LEMMA MdTypes ==
  ASSUME Typed, MdProgram \/ MdReset PROVE TransferTypeOK' /\ cpu'.addr \in Int
<1>1. /\ md \in MdState /\ cpu.stage \in CpuStages /\ cpu.acc \in Seq(Byte)
      /\ cpu.left \in Int /\ cpu.addr \in Int
      /\ used \in [runs : 0..MaxRuns, aborts : 0..MaxAborts, resets : 0..MaxResets, valid : BOOLEAN]
  BY DEF Typed, TransferTypeOK
<1>2. cpu = [stage |-> cpu.stage, cmd |-> cpu.cmd, op |-> cpu.op, acc |-> cpu.acc,
             left |-> cpu.left, addr |-> cpu.addr, early |-> cpu.early]
  BY DEF Typed, HandInv, MdShape
<1>3. ASSUME md' \in MdState, cpu'.stage \in CpuStages, cpu'.acc \in Seq(Byte),
             UNCHANGED <<ram, jumps, pcHas>>, cpu'.left = cpu.left, cpu'.addr = cpu.addr,
             used' \in [runs : 0..MaxRuns, aborts : 0..MaxAborts, resets : 0..MaxResets, valid : BOOLEAN]
      PROVE  TransferTypeOK' /\ cpu'.addr \in Int
  BY <1>1, <1>3 DEF Typed, TransferTypeOK, pcHas
<1>4. CASE MdPoll \/ MdBooted \/ MdEarlyTimeout \/ MdReturn \/ MdFault
  <2>1. md' \in MdState
    BY <1>1, <1>4 DEF MdPoll, MdBooted, MdEarlyTimeout, MdReturn, MdFault, MdState, MdPoints
  <2>2. /\ cpu'.stage \in {cpu.stage, "none"} /\ cpu'.acc = cpu.acc /\ cpu'.left = cpu.left
        /\ cpu'.addr = cpu.addr
    BY <1>2, <1>4 DEF MdPoll, MdBooted, MdEarlyTimeout, MdReturn, MdFault
  <2>3. UNCHANGED <<ram, jumps, pcHas, used>>
    BY <1>4 DEF MdPoll, MdBooted, MdEarlyTimeout, MdReturn, MdFault, MdKeep
  <2>. QED
    BY <1>1, <1>3, <2>1, <2>2, <2>3 DEF CpuStages
<1>5. CASE MdStartTh
  <2>1. md' \in MdState
    BY <1>1, <1>5, NibbleAssumption DEF MdStartTh, MdWrite, MdState, MdPoints
  <2>. QED
    BY <1>1, <1>3, <1>5, <2>1 DEF MdStartTh, MdKeep
<1>6. CASE MdEnter
  <2>1. md' \in MdState
    BY <1>1, <1>6 DEF MdEnter, MdRecv, MdState, MdPoints
  <2>2. cpu'.stage = "prefix" /\ cpu'.acc = <<>> /\ cpu'.left = cpu.left /\ cpu'.addr = cpu.addr
    BY <1>2, <1>6 DEF MdEnter
  <2>. QED
    BY <1>1, <1>3, <1>6, <2>1, <2>2 DEF MdEnter, MdKeep, CpuStages
<1>7. CASE MdReset
  <2>1. md' \in MdState
    BY <1>1, <1>7 DEF MdReset, MdState, MdPoints
  <2>2. cpu'.stage = "none" /\ cpu'.acc = <<>> /\ cpu'.left = cpu.left /\ cpu'.addr = cpu.addr
    BY <1>2, <1>7 DEF MdReset
  <2>3. used' \in [runs : 0..MaxRuns, aborts : 0..MaxAborts, resets : 0..MaxResets, valid : BOOLEAN]
    BY <1>1, <1>7, BoundsAssumption DEF MdReset
  <2>. QED
    BY <1>3, <1>7, <2>1, <2>2, <2>3 DEF MdReset, CpuStages
<1>. QED
  BY <1>4, <1>5, <1>6, <1>7, HandlerTypes, MdPrimTypes DEF MdProgram

LEMMA TypesInitially == TransferInit => Typed
<1> SUFFICES ASSUME TransferInit PROVE Typed
  OBVIOUS
<1>1. \A a \in Addr : B(a) \in Byte
  BY WholeNibbles, BType
<1>2. <<0, 0>> \in Byte /\ 0 \in Nibble
  BY NibbleAssumption DEF Byte
<1>3. pc \in PcState /\ md \in MdState
  BY <1>2 DEF TransferInit, PcState, MdState, PcPoints, MdPoints
<1>4. ram \in [Addr -> Byte] /\ before \in [Addr -> Byte]
  BY <1>1 DEF TransferInit
<1>5. used \in [runs : 0..MaxRuns, aborts : 0..MaxAborts, resets : 0..MaxResets, valid : BOOLEAN]
  BY BoundsAssumption DEF TransferInit
<1>. QED
  BY <1>3, <1>4, <1>5, HandInitially DEF TransferInit, Typed, TransferTypeOK, CpuStages

LEMMA TypesStep == Typed /\ [TransferNext]_vars => Typed'
<1> SUFFICES ASSUME Typed, [TransferNext]_vars PROVE Typed'
  OBVIOUS
<1>1. HandInv'
  BY HandStep DEF Typed
<1>2. CASE UNCHANGED vars
  BY <1>1, <1>2 DEF vars, Typed, TransferTypeOK
<1>3. CASE TransferNext
  BY <1>1, <1>3, PcTypes, MdTypes DEF TransferNext, Typed
<1>. QED
  BY <1>2, <1>3

(* Whatever is asked for, interrupted and reset, both programs hold what   *)
(* their registers can: bytes of two nibbles, numbers put together from    *)
(* them, a memory of bytes, and addresses to jump to.                      *)
THEOREM TransferTypes == TransferSpec => []TransferTypeOK
<1>1. Typed => TransferTypeOK
  BY DEF Typed
<1>. QED
  BY <1>1, TypesInitially, TypesStep, PTL DEF TransferSpec

-----------------------------------------------------------------------------
(* The calls of a command line, one after the other.                       *)

\* A byte is received after a turn or another byte received; after a turn a
\* byte goes the way the line was turned.
Legal(s) ==
  /\ s \in CallSeq
  /\ \A i \in 1..Len(s) :
       /\ s[i].call = "recv" => i > 1 /\ s[i - 1].call \in {"toIn", "recv"}
       /\ s[i].call = "toIn" => i < Len(s) /\ s[i + 1].call = "recv"
       /\ s[i].call = "toOut" => i < Len(s) /\ s[i + 1].call = "send"

SendsAt(s, p, b) ==
  /\ p + Len(b) <= Len(s)
  /\ \A k \in 1..Len(b) : s[p + k] = [call |-> "send", byte |-> b[k]]
RecvsAt(s, p, n) == p + n <= Len(s) /\ \A k \in 1..n : s[p + k].call = "recv"
TurnAt(s, p, turn) == p + 1 <= Len(s) /\ s[p + 1].call = turn

OpAt(s, p, o) ==
  /\ TurnAt(s, p, "toOut") /\ SendsAt(s, p + 1, OpBytes(o))
  /\ IF o.op \in Reads THEN TurnAt(s, p + 5, "toIn") /\ RecvsAt(s, p + 6, Width[o.op])
                       ELSE SendsAt(s, p + 5, o.data)

LEMMA CatIs ==
  ASSUME NEW s \in CallSeq, NEW t \in CallSeq
  PROVE  /\ s \o t \in CallSeq /\ Len(s \o t) = Len(s) + Len(t)
         /\ \A i \in 1..Len(s) : (s \o t)[i] = s[i]
         /\ \A i \in 1..Len(t) : (s \o t)[Len(s) + i] = t[i]
BY DEF CallSeq

LEMMA CatLegal == ASSUME NEW s, NEW t, Legal(s), Legal(t) PROVE Legal(s \o t)
<1>1. s \in CallSeq /\ t \in CallSeq
  BY DEF Legal
<1>2. PICK u : u = s \o t
  OBVIOUS
<1>3. /\ u \in CallSeq /\ Len(u) = Len(s) + Len(t)
      /\ \A i \in 1..Len(s) : u[i] = s[i]
      /\ \A i \in 1..Len(t) : u[Len(s) + i] = t[i]
  BY <1>1, <1>2, CatIs
<1>4. Len(s) \in Nat /\ Len(t) \in Nat
  BY <1>1 DEF CallSeq
<1>5. SUFFICES ASSUME NEW i \in 1..Len(u)
               PROVE  /\ u[i].call = "recv" => i > 1 /\ u[i - 1].call \in {"toIn", "recv"}
                      /\ u[i].call = "toIn" => i < Len(u) /\ u[i + 1].call = "recv"
                      /\ u[i].call = "toOut" => i < Len(u) /\ u[i + 1].call = "send"
  BY <1>2, <1>3 DEF Legal
<1>6. CASE i <= Len(s)
  <2>1. i \in 1..Len(s) /\ u[i] = s[i]
    BY <1>3, <1>4, <1>6
  <2>2. i > 1 => u[i - 1] = s[i - 1]
    BY <1>3, <1>4, <2>1
  <2>3. i < Len(s) => u[i + 1] = s[i + 1]
    BY <1>3, <1>4, <2>1
  <2>. QED
    BY <1>3, <1>4, <2>1, <2>2, <2>3 DEF Legal
<1>7. CASE i > Len(s)
  <2>1. PICK j \in 1..Len(t) : i = Len(s) + j
    <3>1. i - Len(s) \in 1..Len(t) /\ i = Len(s) + (i - Len(s))
      BY <1>3, <1>4, <1>7
    <3>. QED
      BY <3>1
  <2>2. u[i] = t[j]
    BY <1>3, <2>1
  <2>3. j > 1 => u[i - 1] = t[j - 1]
    <3>1. j > 1 => j - 1 \in 1..Len(t) /\ i - 1 = Len(s) + (j - 1)
      BY <1>4, <2>1
    <3>. QED
      BY <1>3, <3>1
  <2>4. j < Len(t) => u[i + 1] = t[j + 1]
    <3>1. j < Len(t) => j + 1 \in 1..Len(t) /\ i + 1 = Len(s) + (j + 1)
      BY <1>4, <2>1
    <3>. QED
      BY <1>3, <3>1
  <2>. QED
    BY <1>3, <1>4, <2>1, <2>2, <2>3, <2>4, SMTT(30) DEF Legal
<1>. QED
  BY <1>4, <1>6, <1>7

LEMMA CatAt ==
  ASSUME NEW s \in CallSeq, NEW t \in CallSeq, NEW b \in Seq(Byte), NEW p \in Nat, NEW n \in Nat
  PROVE  /\ SendsAt(s, p, b) => SendsAt(s \o t, p, b)
         /\ RecvsAt(s, p, n) => RecvsAt(s \o t, p, n)
         /\ \A turn : TurnAt(s, p, turn) => TurnAt(s \o t, p, turn)
         /\ SendsAt(t, p, b) => SendsAt(s \o t, Len(s) + p, b)
         /\ RecvsAt(t, p, n) => RecvsAt(s \o t, Len(s) + p, n)
         /\ \A turn : TurnAt(t, p, turn) => TurnAt(s \o t, Len(s) + p, turn)
<1>1. PICK u : u = s \o t
  OBVIOUS
<1>2. /\ Len(u) = Len(s) + Len(t)
      /\ \A i \in 1..Len(s) : u[i] = s[i]
      /\ \A i \in 1..Len(t) : u[Len(s) + i] = t[i]
  BY <1>1, CatIs
<1>3. Len(s) \in Nat /\ Len(t) \in Nat /\ Len(b) \in Nat
  BY DEF CallSeq
<1>4. \A k \in Nat : p + k <= Len(s) /\ k > 0 => u[p + k] = s[p + k]
  BY <1>2, <1>3
<1>5. \A k \in Nat : p + k <= Len(t) /\ k > 0 => u[Len(s) + p + k] = t[p + k]
  <2>1. SUFFICES ASSUME NEW k \in Nat, p + k <= Len(t), k > 0 PROVE u[Len(s) + p + k] = t[p + k]
    OBVIOUS
  <2>2. p + k \in 1..Len(t) /\ Len(s) + p + k = Len(s) + (p + k)
    BY <1>3, <2>1
  <2>. QED
    BY <1>2, <2>2
<1>6. ASSUME SendsAt(s, p, b) PROVE SendsAt(u, p, b)
  <2>1. p + Len(b) <= Len(s) /\ \A k \in 1..Len(b) : s[p + k] = [call |-> "send", byte |-> b[k]]
    BY <1>6 DEF SendsAt
  <2>2. ASSUME NEW k \in 1..Len(b) PROVE u[p + k] = [call |-> "send", byte |-> b[k]]
    <3>1. k \in Nat /\ k > 0 /\ p + k <= Len(s)
      BY <1>3, <2>1
    <3>. QED
      BY <1>4, <2>1, <3>1
  <2>3. p + Len(b) <= Len(u)
    BY <1>2, <1>3, <2>1
  <2>. QED
    BY <2>2, <2>3 DEF SendsAt
<1>7. ASSUME RecvsAt(s, p, n) PROVE RecvsAt(u, p, n)
  <2>1. p + n <= Len(s) /\ \A k \in 1..n : s[p + k].call = "recv"
    BY <1>7 DEF RecvsAt
  <2>2. ASSUME NEW k \in 1..n PROVE u[p + k].call = "recv"
    <3>1. k \in Nat /\ k > 0 /\ p + k <= Len(s)
      BY <1>3, <2>1
    <3>. QED
      BY <1>4, <2>1, <3>1
  <2>3. p + n <= Len(u)
    BY <1>2, <1>3, <2>1
  <2>. QED
    BY <2>2, <2>3 DEF RecvsAt
<1>8. \A turn : TurnAt(s, p, turn) => TurnAt(u, p, turn)
  BY <1>2, <1>3, <1>4 DEF TurnAt
<1>9. ASSUME SendsAt(t, p, b) PROVE SendsAt(u, Len(s) + p, b)
  <2>1. p + Len(b) <= Len(t) /\ \A k \in 1..Len(b) : t[p + k] = [call |-> "send", byte |-> b[k]]
    BY <1>9 DEF SendsAt
  <2>2. ASSUME NEW k \in 1..Len(b) PROVE u[Len(s) + p + k] = [call |-> "send", byte |-> b[k]]
    <3>1. k \in Nat /\ k > 0 /\ p + k <= Len(t)
      BY <1>3, <2>1
    <3>. QED
      BY <1>5, <2>1, <3>1
  <2>3. Len(s) + p + Len(b) <= Len(u)
    BY <1>2, <1>3, <2>1
  <2>. QED
    BY <2>2, <2>3 DEF SendsAt
<1>10. ASSUME RecvsAt(t, p, n) PROVE RecvsAt(u, Len(s) + p, n)
  <2>1. p + n <= Len(t) /\ \A k \in 1..n : t[p + k].call = "recv"
    BY <1>10 DEF RecvsAt
  <2>2. ASSUME NEW k \in 1..n PROVE u[Len(s) + p + k].call = "recv"
    <3>1. k \in Nat /\ k > 0 /\ p + k <= Len(t)
      BY <1>3, <2>1
    <3>. QED
      BY <1>5, <2>1, <3>1
  <2>3. Len(s) + p + n <= Len(u)
    BY <1>2, <1>3, <2>1
  <2>. QED
    BY <2>2, <2>3 DEF RecvsAt
<1>11. \A turn : TurnAt(t, p, turn) => TurnAt(u, Len(s) + p, turn)
  BY <1>2, <1>3, <1>5 DEF TurnAt
<1>. QED
  BY <1>1, <1>6, <1>7, <1>8, <1>9, <1>10, <1>11

LEMMA SendsAre ==
  ASSUME NEW b \in Seq(Byte)
  PROVE  Legal(Sends(b)) /\ Len(Sends(b)) = Len(b) /\ SendsAt(Sends(b), 0, b)
<1>1. PICK s : s = Sends(b)
  OBVIOUS
<1>2. s \in CallSeq
  BY <1>1, SendsType
<1>3. Len(s) = Len(b) /\ Len(b) \in Nat
  BY <1>1, <1>2 DEF Sends, CallSeq
<1>4. \A k \in 1..Len(b) : s[k] = [call |-> "send", byte |-> b[k]]
  BY <1>1 DEF Sends
<1>5. ASSUME NEW k \in 1..Len(s) PROVE s[k].call = "send"
  <2>1. s[k] = [call |-> "send", byte |-> b[k]]
    BY <1>3, <1>4
  <2>. QED
    BY <2>1
<1>6. Legal(s)
  BY <1>2, <1>5 DEF Legal
<1>7. SendsAt(s, 0, b)
  BY <1>3, <1>4 DEF SendsAt
<1>. QED
  BY <1>1, <1>3, <1>6, <1>7

\* The line is turned round and the bytes come.
LEMMA GivesAre ==
  ASSUME NEW n \in Nat, NEW s, Legal(s), n > 0
  PROVE  LET t == s \o ToInput \o Recvs(n) IN
         /\ Legal(t) /\ Len(t) = Len(s) + 1 + n
         /\ TurnAt(t, Len(s), "toIn") /\ RecvsAt(t, Len(s) + 1, n)
         /\ \A p \in Nat, b \in Seq(Byte) : SendsAt(s, p, b) => SendsAt(t, p, b)
         /\ \A p \in Nat : \A turn : TurnAt(s, p, turn) => TurnAt(t, p, turn)
<1>0. s \in CallSeq /\ Len(s) \in Nat
  BY DEF Legal, CallSeq
<1>1. PICK r : r = Recvs(n)
  OBVIOUS
<1>2. r \in CallSeq /\ Len(r) = n /\ \A i \in 1..n : r[i].call = "recv"
  BY <1>1, RecvsType DEF Recvs, CallSeq
<1>3. ToInput \in CallSeq /\ Len(ToInput) = 1 /\ ToInput[1].call = "toIn"
  BY TurnsType DEF ToInput
<1>4. PICK g : g = ToInput \o r
  OBVIOUS
<1>5. /\ g \in CallSeq /\ Len(g) = 1 + n
      /\ \A i \in 1..1 : g[i] = ToInput[i]
      /\ \A i \in 1..n : g[1 + i] = r[i]
  <2>1. PICK w \in CallSeq : w = ToInput /\ Len(w) = 1
    BY <1>3
  <2>2. /\ w \o r \in CallSeq /\ Len(w \o r) = Len(w) + Len(r)
        /\ \A i \in 1..Len(w) : (w \o r)[i] = w[i]
        /\ \A i \in 1..Len(r) : (w \o r)[Len(w) + i] = r[i]
    BY <1>2, CatIs
  <2>3. g = w \o r
    BY <1>4, <2>1
  <2>. QED
    BY <1>2, <2>1, <2>2, <2>3
<1>6. g[1].call = "toIn" /\ \A i \in 2..(1 + n) : g[i].call = "recv"
  <2>1. ASSUME NEW i \in 2..(1 + n) PROVE g[i].call = "recv"
    <3>1. i - 1 \in 1..n /\ 1 + (i - 1) = i
      OBVIOUS
    <3>2. g[1 + (i - 1)] = r[i - 1] /\ r[i - 1].call = "recv"
      BY <1>2, <1>5, <3>1
    <3>. QED
      BY <3>1, <3>2
  <2>2. g[1] = ToInput[1]
    BY <1>5
  <2>. QED
    BY <1>3, <2>1, <2>2
<1>7. Legal(g)
  BY <1>5, <1>6 DEF Legal
<1>8. TurnAt(g, 0, "toIn") /\ RecvsAt(g, 1, n)
  BY <1>5, <1>6 DEF TurnAt, RecvsAt
<1>9. s \o ToInput \o r = s \o g
  BY <1>0, <1>2, <1>3, <1>4 DEF CallSeq
<1>10. Legal(s \o g) /\ Len(s \o g) = Len(s) + 1 + n
  <2>1. Legal(s \o g)
    BY <1>7, CatLegal
  <2>2. Len(s \o g) = Len(s) + Len(g)
    BY <1>0, <1>5, CatIs
  <2>. QED
    BY <1>0, <1>5, <2>1, <2>2
<1>11. TurnAt(s \o g, Len(s) + 0, "toIn") /\ RecvsAt(s \o g, Len(s) + 1, n)
  <2>1. <<>> \in Seq(Byte)
    OBVIOUS
  <2>. QED
    BY <1>0, <1>5, <1>8, <2>1, CatAt
<1>12. \A p \in Nat, b \in Seq(Byte) : SendsAt(s, p, b) => SendsAt(s \o g, p, b)
  <2>1. 0 \in Nat
    OBVIOUS
  <2>. QED
    BY <1>0, <1>5, <2>1, CatAt
<1>13. \A p \in Nat : \A turn : TurnAt(s, p, turn) => TurnAt(s \o g, p, turn)
  <2>1. <<>> \in Seq(Byte) /\ 0 \in Nat
    OBVIOUS
  <2>2. \A p \in Nat : \A turn : TurnAt(s, p, turn) => TurnAt(s \o g, p, turn)
    BY <1>0, <1>5, <2>1, CatAt
  <2>. QED
    BY <2>2
<1>. QED
  BY <1>0, <1>1, <1>9, <1>10, <1>11, <1>12, <1>13

\* A function that is defined from one number to the next exists.
Unfolding(f, N, S, base, g) ==
  f \in [0..N -> S] /\ f[0] = base /\ \A i \in 1..N : f[i] = g[i][f[i - 1]]

LEMMA Unfolds ==
  ASSUME NEW N \in Nat, NEW S, NEW base \in S, NEW g \in [1..N -> [S -> S]]
  PROVE  \E f : Unfolding(f, N, S, base, g)
<1> DEFINE Upto(f, n) == f \in [0..n -> S] /\ f[0] = base /\ \A i \in 1..n : f[i] = g[i][f[i - 1]]
           T == {n \in Nat : n <= N => \E f : Upto(f, n)}
<1>1. 0 \in T
  <2>1. PICK f : f = [i \in 0..0 |-> base]
    OBVIOUS
  <2>2. Upto(f, 0)
    BY <2>1
  <2>. QED
    BY <2>2
<1>2. ASSUME NEW n \in Nat, n \in T PROVE n + 1 \in T
  <2>1. SUFFICES ASSUME n + 1 <= N PROVE \E h : Upto(h, n + 1)
    OBVIOUS
  <2>2. PICK f : Upto(f, n)
    BY <1>2, <2>1
  <2>3. g[n + 1] \in [S -> S] /\ f[n] \in S
    BY <2>1, <2>2
  <2>4. PICK h : h = [i \in 0..(n + 1) |-> IF i = n + 1 THEN g[n + 1][f[n]] ELSE f[i]]
    OBVIOUS
  <2>5. \A i \in 0..n : h[i] = f[i]
    BY <2>4
  <2>6. h[n + 1] = g[n + 1][f[n]]
    BY <2>4
  <2>7. h \in [0..(n + 1) -> S]
    BY <2>2, <2>3, <2>4
  <2>8. ASSUME NEW i \in 1..(n + 1) PROVE h[i] = g[i][h[i - 1]]
    <3>1. CASE i = n + 1
      BY <3>1, <2>5, <2>6
    <3>2. CASE i # n + 1
      <4>1. i \in 1..n /\ i - 1 \in 0..n
        BY <3>2
      <4>. QED
        BY <4>1, <2>2, <2>5
    <3>. QED
      BY <3>1, <3>2
  <2>9. h[0] = base
    BY <2>2, <2>5
  <2>. QED
    BY <2>7, <2>8, <2>9
<1>3. N \in T
  <2> HIDE DEF T
  <2>. QED
    BY <1>1, <1>2, NatSets
<1>. QED
  BY <1>3 DEF Unfolding

LEMMA CatAssoc ==
  ASSUME NEW s \in CallSeq, NEW t \in CallSeq, NEW u \in CallSeq
  PROVE  s \o (t \o u) = (s \o t) \o u
BY DEF CallSeq

LEMMA HeadCat ==
  ASSUME NEW S, NEW c \in S, NEW s \in Seq(S)
  PROVE  /\ <<c>> \o s \in Seq(S) /\ Len(<<c>> \o s) = Len(s) + 1
         /\ (<<c>> \o s)[1] = c /\ Tail(<<c>> \o s) = s
<1>1. PICK t : t = <<c>> \o s
  OBVIOUS
<1>2. <<c>> \in Seq(S) /\ Len(<<c>>) = 1 /\ <<c>>[1] = c
  OBVIOUS
<1>3. /\ t \in Seq(S) /\ Len(t) = 1 + Len(s)
      /\ \A i \in 1..(1 + Len(s)) : t[i] = IF i <= 1 THEN c ELSE s[i - 1]
  BY <1>1, <1>2, ConcatProperties
<1>4. Len(s) \in Nat /\ t # <<>>
  BY <1>3
<1>5. Tail(t) \in Seq(S) /\ Len(Tail(t)) = Len(s) /\ \A i \in 1..Len(s) : Tail(t)[i] = t[i + 1]
  BY <1>3, <1>4, HeadTailProperties
<1>6. \A i \in 1..Len(s) : Tail(t)[i] = s[i]
  BY <1>3, <1>4, <1>5
<1>7. Tail(t) = s
  BY <1>4, <1>5, <1>6, SeqEqual
<1>8. t[1] = c
  BY <1>3, <1>4
<1>. QED
  BY <1>1, <1>3, <1>4, <1>7, <1>8

LEMMA OpBytesAre ==
  ASSUME NEW o \in IoOps
  PROVE  /\ o.op \in DOMAIN IoCode /\ o.addr \in Nat
         /\ OpBytes(o) \in Seq(Byte) /\ Len(OpBytes(o)) = 4
         /\ OpBytes(o)[1] = IoCode[o.op] /\ Tail(OpBytes(o)) = Bytes3(o.addr)
         /\ o.op \notin Reads => o.data \in Seq(Byte)
<1>1. o.op \in DOMAIN IoCode /\ o.addr \in Nat
  BY DEF IoOps, Reads, IoCode
<1>2. IoCode[o.op] \in Byte
  BY <1>1, CodeTypes
<1>3. PICK s : s = Bytes3(o.addr)
  OBVIOUS
<1>4. s \in Seq(Byte) /\ Len(s) = 3
  <2>1. Bytes3(o.addr) \in Seq(Byte)
    BY <1>1, Bytes3Type
  <2>. QED
    BY <1>3, <2>1 DEF Bytes3
<1>5. OpBytes(o) = <<IoCode[o.op]>> \o s
  BY <1>3 DEF OpBytes
<1>6. o.op \notin Reads => o.data \in Seq(Byte)
  BY DEF IoOps
<1>7. OpBytes(o) \in Seq(Byte) /\ Len(OpBytes(o)) = 4 /\ OpBytes(o)[1] = IoCode[o.op] /\ Tail(OpBytes(o)) = s
  BY <1>2, <1>4, <1>5, HeadCat, SMTT(30)
<1>. QED
  BY <1>1, <1>3, <1>6, <1>7

OpLen(o) == (IF o.op \in Reads THEN 6 ELSE 5) + Width[o.op]
Whole(o) == o.op \notin Reads => Len(o.data) = Width[o.op]

LEMMA IoCallsAre ==
  ASSUME NEW o \in IoOps, Whole(o)
  PROVE  /\ Legal(IoCalls(o)) /\ Len(IoCalls(o)) = OpLen(o) /\ OpAt(IoCalls(o), 0, o)
         /\ Width[o.op] \in {1, 2, 4}
<1>1. PICK b \in Seq(Byte) : b = OpBytes(o) /\ Len(b) = 4
  BY OpBytesAre
<1>2. PICK w \in Nat : w = Width[o.op] /\ w \in {1, 2, 4}
  <2>1. o.op \in DOMAIN IoCode
    BY OpBytesAre
  <2>. QED
    BY <2>1 DEF IoCode, Width
<1>3. PICK v : v = Sends(b)
  OBVIOUS
<1>4. Legal(v) /\ v \in CallSeq /\ Len(v) = 4 /\ SendsAt(v, 0, b)
  BY <1>1, <1>3, SendsAre, SendsType
<1>5. PICK u \in CallSeq : u = ToOutput /\ Len(u) = 1 /\ u[1].call = "toOut"
  BY TurnsType DEF ToOutput
<1>6. PICK h : h = u \o v
  OBVIOUS
<1>7. /\ h \in CallSeq /\ Len(h) = 5 /\ h[1] = u[1]
      /\ \A i \in 1..4 : h[1 + i] = v[i]
  <2>1. /\ u \o v \in CallSeq /\ Len(u \o v) = Len(u) + Len(v)
        /\ \A i \in 1..Len(u) : (u \o v)[i] = u[i]
        /\ \A i \in 1..Len(v) : (u \o v)[Len(u) + i] = v[i]
    BY <1>4, <1>5, CatIs
  <2>. QED
    BY <1>4, <1>5, <1>6, <2>1
<1>8. \A i \in 1..4 : h[1 + i] = [call |-> "send", byte |-> b[i]]
  BY <1>1, <1>4, <1>7 DEF SendsAt
<1>9. TurnAt(h, 0, "toOut") /\ SendsAt(h, 1, b)
  BY <1>1, <1>5, <1>7, <1>8 DEF TurnAt, SendsAt
<1>10. Legal(h)
  <2>1. ASSUME NEW i \in 2..5 PROVE h[i].call = "send"
    <3>1. i - 1 \in 1..4 /\ 1 + (i - 1) = i
      OBVIOUS
    <3>2. h[1 + (i - 1)] = [call |-> "send", byte |-> b[i - 1]]
      BY <1>8, <3>1
    <3>. QED
      BY <3>1, <3>2
  <2>2. h[1].call = "toOut"
    BY <1>5, <1>7
  <2>. QED
    BY <1>7, <2>1, <2>2 DEF Legal
<1>11. IoCalls(o) = h \o IF o.op \in Reads THEN ToInput \o Recvs(w) ELSE Sends(o.data)
  BY <1>1, <1>2, <1>3, <1>5, <1>6 DEF IoCalls, OpBytes
<1>12. CASE o.op \in Reads
  <2>1. PICK t : t = h \o ToInput \o Recvs(w)
    OBVIOUS
  <2>2. /\ Legal(t) /\ Len(t) = 6 + w
        /\ TurnAt(t, 5, "toIn") /\ RecvsAt(t, 6, w)
        /\ TurnAt(t, 0, "toOut") /\ SendsAt(t, 1, b)
    <3>1. w > 0
      BY <1>2
    <3>2. /\ Legal(t) /\ Len(t) = Len(h) + 1 + w
          /\ TurnAt(t, Len(h), "toIn") /\ RecvsAt(t, Len(h) + 1, w)
          /\ \A p \in Nat, c \in Seq(Byte) : SendsAt(h, p, c) => SendsAt(t, p, c)
          /\ \A p \in Nat : \A turn : TurnAt(h, p, turn) => TurnAt(t, p, turn)
      BY <1>10, <2>1, <3>1, GivesAre
    <3>. QED
      BY <1>7, <1>9, <3>2
  <2>3. IoCalls(o) = t
    <3>1. PICK r \in CallSeq : r = Recvs(w)
      BY RecvsType
    <3>2. PICK i \in CallSeq : i = ToInput
      BY TurnsType
    <3>3. h \o (i \o r) = (h \o i) \o r
      BY <1>7, CatAssoc
    <3>. QED
      BY <1>11, <1>12, <2>1, <3>1, <3>2, <3>3
  <2>. QED
    BY <1>1, <1>2, <1>12, <2>2, <2>3 DEF OpLen, OpAt
<1>13. CASE o.op \notin Reads
  <2>1. PICK d \in Seq(Byte) : d = o.data /\ Len(d) = w
    BY <1>2, <1>13, OpBytesAre DEF Whole
  <2>2. PICK s : s = Sends(d)
    OBVIOUS
  <2>3. Legal(s) /\ s \in CallSeq /\ Len(s) = w /\ SendsAt(s, 0, d)
    BY <2>1, <2>2, SendsAre, SendsType
  <2>4. PICK t : t = h \o s
    OBVIOUS
  <2>5. Legal(t) /\ Len(t) = 5 + w
    <3>1. Legal(h \o s)
      BY <1>10, <2>3, CatLegal
    <3>2. Len(h \o s) = Len(h) + Len(s)
      BY <1>7, <2>3, CatIs
    <3>. QED
      BY <1>7, <2>3, <2>4, <3>1, <3>2
  <2>6. TurnAt(t, 0, "toOut") /\ SendsAt(t, 1, b)
    <3>1. 0 \in Nat /\ 1 \in Nat
      OBVIOUS
    <3>. QED
      BY <1>7, <1>9, <2>3, <2>4, <3>1, CatAt
  <2>7. SendsAt(t, 5, d)
    <3>1. 0 \in Nat /\ Len(h) + 0 = 5
      BY <1>7
    <3>2. SendsAt(t, Len(h) + 0, d)
      BY <1>7, <2>3, <2>4, <3>1, CatAt
    <3>. QED
      BY <3>1, <3>2
  <2>8. IoCalls(o) = t
    BY <1>11, <1>13, <2>1, <2>2, <2>4
  <2>. QED
    BY <1>1, <1>2, <1>13, <2>1, <2>5, <2>6, <2>7, <2>8 DEF OpLen, OpAt
<1>. QED
  BY <1>12, <1>13

LEMMA OffsetsAre ==
  ASSUME NEW ops \in Seq(IoOps), \A i \in 1..Len(ops) : Whole(ops[i])
  PROVE  /\ Offsets(ops) \in [0..Len(ops) -> Nat] /\ Offsets(ops)[0] = 4
         /\ \A n \in 1..Len(ops) : Offsets(ops)[n] = Offsets(ops)[n - 1] + OpLen(ops[n])
<1> DEFINE N == Len(ops)
<1>a. N \in Nat /\ \A n \in 1..N : ops[n] \in IoOps
  OBVIOUS
<1>1. ASSUME NEW n \in 1..N PROVE Len(IoCalls(ops[n])) = OpLen(ops[n]) /\ OpLen(ops[n]) \in Nat
  <2>1. Width[ops[n].op] \in {1, 2, 4} /\ Len(IoCalls(ops[n])) = OpLen(ops[n])
    BY <1>a, IoCallsAre
  <2>. QED
    BY <2>1 DEF OpLen
<1>2. PICK g : g = [n \in 1..N |-> [x \in Nat |-> x + OpLen(ops[n])]]
  OBVIOUS
<1>3. g \in [1..N -> [Nat -> Nat]]
  BY <1>1, <1>2, SMTT(30)
<1>4. PICK f : Unfolding(f, N, Nat, 4, g)
  BY <1>a, <1>3, Unfolds
<1>4a. f \in [0..N -> Nat] /\ f[0] = 4 /\ \A n \in 1..N : f[n] = g[n][f[n - 1]]
  BY <1>4 DEF Unfolding
<1>5. \A n \in 1..N : f[n] = f[n - 1] + OpLen(ops[n])
  <2>1. \A n \in 1..N : n - 1 \in 0..N
    BY <1>a
  <2>. QED
    BY <1>2, <1>4a, <2>1
<1> DEFINE Body(h, n) == IF n = 0 THEN 4 ELSE h[n - 1] + Len(IoCalls(ops[n]))
<1>6. f = [n \in 0..N |-> Body(f, n)]
  <2>1. \A n \in 0..N : f[n] = Body(f, n)
    BY <1>1, <1>4a, <1>5
  <2>. QED
    BY <1>4a, <2>1
<1> DEFINE upTo == CHOOSE h : h = [n \in 0..Len(ops) |-> IF n = 0 THEN 4 ELSE h[n - 1] + Len(IoCalls(ops[n]))]
<1>7. upTo = [n \in 0..N |-> Body(upTo, n)]
  BY <1>6
<1> HIDE DEF upTo
<1>8. \A n \in 0..N : upTo[n] = Body(upTo, n)
  BY <1>7
<1> DEFINE T == {n \in Nat : n <= N => upTo[n] = f[n]}
<1>9. 0 \in T
  BY <1>4a, <1>8, <1>a
<1>10. ASSUME NEW n \in Nat, n \in T PROVE n + 1 \in T
  <2>1. SUFFICES ASSUME n + 1 <= N PROVE upTo[n + 1] = f[n + 1]
    OBVIOUS
  <2>2. upTo[n] = f[n]
    BY <1>10, <1>a, <2>1
  <2>3. n + 1 \in 1..N /\ (n + 1) - 1 = n
    BY <1>a, <2>1
  <2>. QED
    BY <1>1, <1>5, <1>8, <2>2, <2>3
<1>11. \A n \in Nat : n \in T
  <2> HIDE DEF T
  <2>. QED
    BY <1>9, <1>10, NatSets
<1>12. upTo = f
  BY <1>4a, <1>7, <1>11, <1>a
<1>13. Offsets(ops) = upTo
  BY DEF Offsets, upTo
<1>. QED
  BY <1>4a, <1>5, <1>12, <1>13

LEMMA OpCat ==
  ASSUME NEW s \in CallSeq, NEW t \in CallSeq, NEW o \in IoOps, NEW p \in Nat
  PROVE  /\ OpAt(s, p, o) => OpAt(s \o t, p, o)
         /\ OpAt(t, 0, o) => OpAt(s \o t, Len(s), o)
<1>1. /\ OpBytes(o) \in Seq(Byte) /\ Width[o.op] \in Nat
      /\ o.op \notin Reads => o.data \in Seq(Byte)
  <2>1. Width[o.op] \in Nat
    BY OpBytesAre DEF IoCode, Width
  <2>. QED
    BY <2>1, OpBytesAre
<1>2. Len(s) \in Nat
  BY DEF CallSeq
<1>3. \A b \in Seq(Byte), q \in Nat :
        /\ SendsAt(s, q, b) => SendsAt(s \o t, q, b)
        /\ SendsAt(t, q, b) => SendsAt(s \o t, Len(s) + q, b)
  BY <1>1, CatAt
<1>4. \A n \in Nat, q \in Nat :
        /\ RecvsAt(s, q, n) => RecvsAt(s \o t, q, n)
        /\ RecvsAt(t, q, n) => RecvsAt(s \o t, Len(s) + q, n)
  BY <1>1, CatAt
<1>5. \A q \in Nat :
        /\ \A turn : TurnAt(s, q, turn) => TurnAt(s \o t, q, turn)
        /\ \A turn : TurnAt(t, q, turn) => TurnAt(s \o t, Len(s) + q, turn)
  BY <1>1, CatAt
<1>6. ASSUME OpAt(s, p, o) PROVE OpAt(s \o t, p, o)
  <2>1. p + 1 \in Nat /\ p + 5 \in Nat /\ p + 6 \in Nat
    OBVIOUS
  <2>. QED
    BY <1>1, <1>3, <1>4, <1>5, <1>6, <2>1 DEF OpAt
<1>7. ASSUME OpAt(t, 0, o) PROVE OpAt(s \o t, Len(s), o)
  <2>1. /\ 0 \in Nat /\ 1 \in Nat /\ 5 \in Nat /\ 6 \in Nat
        /\ 0 + 1 = 1 /\ 0 + 5 = 5 /\ 0 + 6 = 6 /\ Len(s) + 0 = Len(s)
    BY <1>2
  <2>2. TurnAt(t, 0, "toOut") /\ SendsAt(t, 1, OpBytes(o))
    BY <1>7, <2>1 DEF OpAt
  <2>3. o.op \in Reads => TurnAt(t, 5, "toIn") /\ RecvsAt(t, 6, Width[o.op])
    BY <1>7, <2>1 DEF OpAt
  <2>4. o.op \notin Reads => SendsAt(t, 5, o.data)
    BY <1>7, <2>1 DEF OpAt
  <2>5. TurnAt(s \o t, Len(s), "toOut") /\ SendsAt(s \o t, Len(s) + 1, OpBytes(o))
    BY <1>1, <1>3, <1>5, <2>1, <2>2
  <2>6. o.op \in Reads => TurnAt(s \o t, Len(s) + 5, "toIn") /\ RecvsAt(s \o t, Len(s) + 6, Width[o.op])
    BY <1>1, <1>4, <1>5, <2>1, <2>3
  <2>7. o.op \notin Reads => SendsAt(s \o t, Len(s) + 5, o.data)
    BY <1>1, <1>3, <2>1, <2>4
  <2>. QED
    BY <2>5, <2>6, <2>7 DEF OpAt
<1>. QED
  BY <1>6, <1>7

LEMMA FlattenAre ==
  ASSUME NEW ops \in Seq(IoOps), \A i \in 1..Len(ops) : Whole(ops[i]),
         NEW s, s = [i \in DOMAIN ops |-> IoCalls(ops[i])]
  PROVE  /\ Legal(FlattenSeq(s)) /\ 4 + Len(FlattenSeq(s)) = Offsets(ops)[Len(ops)]
         /\ \A n \in 1..Len(ops) : OpAt(FlattenSeq(s), Offsets(ops)[n - 1] - 4, ops[n])
<1> DEFINE N == Len(ops)
           off == Offsets(ops)
<1>a. N \in Nat /\ DOMAIN ops = 1..N /\ \A n \in 1..N : ops[n] \in IoOps /\ Whole(ops[n])
  OBVIOUS
<1>b. /\ off \in [0..N -> Nat] /\ off[0] = 4
      /\ \A n \in 1..N : off[n] = off[n - 1] + OpLen(ops[n])
  BY OffsetsAre
<1> HIDE DEF off
<1>1. ASSUME NEW n \in 1..N
      PROVE  /\ s[n] \in CallSeq /\ Legal(s[n]) /\ OpAt(s[n], 0, ops[n])
             /\ Len(s[n]) = OpLen(ops[n]) /\ OpLen(ops[n]) \in Nat
  <2>1. s[n] = IoCalls(ops[n])
    BY <1>a
  <2>2. /\ Legal(IoCalls(ops[n])) /\ Len(IoCalls(ops[n])) = OpLen(ops[n])
        /\ OpAt(IoCalls(ops[n]), 0, ops[n]) /\ Width[ops[n].op] \in {1, 2, 4}
    BY <1>a, IoCallsAre
  <2>3. OpLen(ops[n]) \in Nat
    BY <2>2 DEF OpLen
  <2>. QED
    BY <2>1, <2>2, <2>3 DEF Legal
<1>2. PICK g : g = [n \in 1..N |-> [x \in CallSeq |-> x \o s[n]]]
  OBVIOUS
<1>3. g \in [1..N -> [CallSeq -> CallSeq]]
  <2>1. \A n \in 1..N : \A x \in CallSeq : x \o s[n] \in CallSeq
    BY <1>1, Joined
  <2>. QED
    BY <1>2, <2>1
<1>4. <<>> \in CallSeq
  BY DEF CallSeq
<1>e. PICK f : Unfolding(f, N, CallSeq, <<>>, g)
  BY <1>a, <1>3, <1>4, Unfolds
<1>5. f \in [0..N -> CallSeq] /\ f[0] = <<>> /\ \A n \in 1..N : f[n] = g[n][f[n - 1]]
  BY <1>e DEF Unfolding
<1>6. \A n \in 1..N : f[n] = f[n - 1] \o s[n] /\ f[n - 1] \in CallSeq
  <2>1. \A n \in 1..N : n - 1 \in 0..N
    BY <1>a
  <2>. QED
    BY <1>2, <1>5, <2>1
<1> DEFINE Good(n) == /\ Legal(f[n]) /\ 4 + Len(f[n]) = off[n]
                      /\ \A m \in 1..n : OpAt(f[n], off[m - 1] - 4, ops[m])
           T == {n \in Nat : n <= N => Good(n)}
<1>7. 0 \in T
  <2>1. Legal(f[0])
    BY <1>4, <1>5 DEF Legal
  <2>2. Len(f[0]) = 0
    BY <1>5
  <2>. QED
    BY <1>b, <2>1, <2>2
<1>8. ASSUME NEW n \in Nat, n \in T PROVE n + 1 \in T
  <2>1. SUFFICES ASSUME n + 1 <= N PROVE Good(n + 1)
    OBVIOUS
  <2>2. Good(n)
    BY <1>8, <1>a, <2>1
  <2>3. n + 1 \in 1..N /\ (n + 1) - 1 = n
    BY <1>a, <2>1
  <2>4. f[n + 1] = f[n] \o s[n + 1] /\ f[n] \in CallSeq
    BY <1>6, <2>3
  <2>5. Legal(f[n + 1])
    BY <1>1, <2>2, <2>3, <2>4, CatLegal
  <2>6. Len(f[n + 1]) = Len(f[n]) + OpLen(ops[n + 1])
    <3>1. s[n + 1] \in CallSeq /\ Len(s[n + 1]) = OpLen(ops[n + 1])
      BY <1>1, <2>3
    <3>2. Len(f[n] \o s[n + 1]) = Len(f[n]) + Len(s[n + 1])
      BY <2>4, <3>1, CatIs
    <3>. QED
      BY <2>4, <3>1, <3>2
  <2>7. 4 + Len(f[n + 1]) = off[n + 1]
    <3>1. off[n + 1] = off[n] + OpLen(ops[n + 1]) /\ OpLen(ops[n + 1]) \in Nat
      BY <1>b, <1>1, <2>3
    <3>2. Len(f[n]) \in Nat
      BY <2>4 DEF CallSeq
    <3>. QED
      BY <2>2, <2>6, <3>1, <3>2
  <2>8. ASSUME NEW m \in 1..(n + 1) PROVE OpAt(f[n + 1], off[m - 1] - 4, ops[m])
    <3>1. CASE m = n + 1
      <4>1. off[m - 1] - 4 = Len(f[n])
        <5>1. Len(f[n]) \in Nat
          BY <2>4 DEF CallSeq
        <5>. QED
          BY <2>2, <3>1, <5>1
      <4>2. 0 \in Nat
        OBVIOUS
      <4>3. OpAt(f[n] \o s[m], Len(f[n]), ops[m])
        BY <1>1, <1>a, <2>3, <2>4, <3>1, <4>2, OpCat
      <4>. QED
        BY <2>4, <3>1, <4>1, <4>3
    <3>2. CASE m # n + 1
      <4>1. m \in 1..n /\ m \in 1..N
        BY <3>2, <2>1, <1>a
      <4>2. OpAt(f[n], off[m - 1] - 4, ops[m])
        BY <2>2, <4>1
      <4>3. off[m - 1] - 4 \in Nat
        <5>1. m - 1 \in Nat /\ m - 1 <= N
          BY <4>1, <1>a
        <5>2. DEFINE U == {k \in Nat : k <= N => off[k] - 4 \in Nat}
        <5>3. 0 \in U
          BY <1>b
        <5>4. ASSUME NEW k \in Nat, k \in U PROVE k + 1 \in U
          <6>1. SUFFICES ASSUME k + 1 <= N PROVE off[k + 1] - 4 \in Nat
            OBVIOUS
          <6>2. k + 1 \in 1..N /\ (k + 1) - 1 = k /\ off[k] - 4 \in Nat /\ off[k] \in Nat
            BY <5>4, <6>1, <1>a, <1>b
          <6>3. off[k + 1] = off[k] + OpLen(ops[k + 1]) /\ OpLen(ops[k + 1]) \in Nat
            BY <1>1, <1>b, <6>2
          <6>. QED
            BY <6>2, <6>3
        <5>5. m - 1 \in U
          <6> HIDE DEF U
          <6>. QED
            BY <5>1, <5>3, <5>4, NatSets
        <5>. QED
          BY <5>1, <5>5
      <4>4. OpAt(f[n] \o s[n + 1], off[m - 1] - 4, ops[m])
        BY <1>1, <1>a, <2>3, <2>4, <4>1, <4>2, <4>3, OpCat
      <4>. QED
        BY <2>4, <4>4
    <3>. QED
      BY <3>1, <3>2
  <2>. QED
    BY <2>5, <2>7, <2>8
<1>9. Good(N)
  <2>1. N \in T
    <3> HIDE DEF T
    <3>. QED
      BY <1>7, <1>8, <1>a, NatSets
  <2>. QED
    BY <2>1, <1>a
<1>10. FlattenSeq(s) = f[N]
  <2>1. s \in [1..N -> CallSeq] /\ Len(s) = N
    <3>1. s \in [1..N -> CallSeq]
      BY <1>1, <1>a
    <3>. QED
      BY <3>1, <1>a
  <2>2. CASE N = 0
    <3>1. s = <<>>
      BY <2>1, <2>2
    <3>2. FlattenSeq(s) = s
      BY <2>1, <2>2 DEF FlattenSeq
    <3>. QED
      BY <1>5, <2>2, <3>1, <3>2
  <2>3. CASE N # 0
    <3> DEFINE Body(h, i) == IF i = 1 THEN s[i] ELSE h[i - 1] \o s[i]
    <3>1. PICK h : h = [i \in 1..N |-> f[i]]
      OBVIOUS
    <3>2. h = [i \in 1..N |-> Body(h, i)]
      <4>1. ASSUME NEW i \in 1..N PROVE f[i] = Body(h, i)
        <5>1. f[i] = f[i - 1] \o s[i]
          BY <1>6
        <5>2. CASE i = 1
          <6>1. <<>> \o s[i] = s[i]
            BY <1>1 DEF CallSeq
          <6>2. f[i - 1] = <<>> /\ Body(h, i) = s[i]
            BY <1>5, <5>2
          <6> HIDE DEF Body
          <6>. QED
            BY <5>1, <6>1, <6>2
        <5>3. CASE i # 1
          <6>1. i - 1 \in 1..N
            BY <5>3, <1>a
          <6>2. h[i - 1] = f[i - 1]
            BY <3>1, <6>1
          <6>3. Body(h, i) = h[i - 1] \o s[i]
            BY <5>3
          <6> HIDE DEF Body
          <6>. QED
            BY <5>1, <6>2, <6>3
        <5>. QED
          BY <5>2, <5>3
      <4>. QED
        BY <3>1, <4>1
    <3> DEFINE flatten == CHOOSE e : e = [i \in 1..Len(s) |-> IF i = 1 THEN s[i] ELSE e[i - 1] \o s[i]]
    <3>3. flatten = [i \in 1..N |-> Body(flatten, i)]
      BY <2>1, <3>2, Zenon
    <3> HIDE DEF flatten
    <3>4. \A i \in 1..N : flatten[i] = Body(flatten, i) /\ h[i] = Body(h, i)
      BY <3>2, <3>3
    <3> DEFINE U == {n \in Nat : n + 1 <= N => flatten[n + 1] = h[n + 1]}
    <3>5. 0 \in U
      BY <3>4, <1>a
    <3>6. ASSUME NEW n \in Nat, n \in U PROVE n + 1 \in U
      <4>1. SUFFICES ASSUME n + 2 <= N PROVE flatten[n + 2] = h[n + 2]
        OBVIOUS
      <4>2. flatten[n + 1] = h[n + 1]
        BY <3>6, <4>1, <1>a
      <4>3. n + 2 \in 1..N /\ n + 2 # 1 /\ (n + 2) - 1 = n + 1
        BY <4>1, <1>a
      <4>4. /\ flatten[n + 2] = flatten[n + 1] \o s[n + 2]
            /\ h[n + 2] = h[n + 1] \o s[n + 2]
        <5>1. flatten[n + 2] = Body(flatten, n + 2) /\ h[n + 2] = Body(h, n + 2)
          BY <3>4, <4>3
        <5>2. Body(flatten, n + 2) = flatten[(n + 2) - 1] \o s[n + 2] /\ Body(h, n + 2) = h[(n + 2) - 1] \o s[n + 2]
          BY <4>3
        <5>. QED
          BY <4>3, <5>1, <5>2
      <4>. QED
        BY <4>2, <4>4
    <3>7. N - 1 \in U
      <4>1. N - 1 \in Nat
        BY <2>3, <1>a
      <4> HIDE DEF U
      <4>. QED
        BY <3>5, <3>6, <4>1, NatSets
    <3>8. flatten[N] = h[N]
      <4>1. N - 1 \in Nat /\ (N - 1) + 1 = N
        BY <2>3, <1>a
      <4>. QED
        BY <3>7, <4>1
    <3>9. h[N] = f[N]
      BY <2>3, <3>1, <1>a
    <3>10. FlattenSeq(s) = flatten[N]
      BY <2>1, <2>3 DEF FlattenSeq, flatten
    <3>. QED
      BY <3>8, <3>9, <3>10
  <2>. QED
    BY <2>2, <2>3
<1>. QED
  BY <1>9, <1>10 DEF off

Machine == [ram : [Addr -> Byte], rd : Seq(Byte)]

LEMMA PeekNAre ==
  ASSUME NEW m \in [Addr -> Byte], NEW a, NEW n \in Nat
  PROVE  /\ PeekN(m, a, n) \in Seq(Byte) /\ Len(PeekN(m, a, n)) = n
         /\ \A i \in 1..n : PeekN(m, a, n)[i] = Peek(m, a + i - 1)
<1>1. PeekN(m, a, n) \in [1..n -> Byte]
  BY PeekType DEF PeekN
<1>2. \A i \in 1..n : PeekN(m, a, n)[i] = Peek(m, a + i - 1)
  BY DEF PeekN
<1>. QED
  BY <1>1, <1>2

LEMMA IoResultType ==
  ASSUME NEW o \in IoOps, NEW acc \in Machine PROVE IoResult(acc, o) \in Machine
<1>0. acc.ram \in [Addr -> Byte] /\ acc.rd \in Seq(Byte) /\ acc = [ram |-> acc.ram, rd |-> acc.rd]
  BY DEF Machine
<1>1. CASE o.op \in Reads
  <2>1. Width[o.op] \in Nat
    BY <1>1 DEF Reads, Width
  <2>2. PeekN(acc.ram, o.addr, Width[o.op]) \in Seq(Byte)
    BY <1>0, <2>1, PeekNAre
  <2>3. acc.rd \o PeekN(acc.ram, o.addr, Width[o.op]) \in Seq(Byte)
    BY <1>0, <2>2
  <2>. QED
    BY <1>0, <1>1, <2>3 DEF IoResult, Machine
<1>2. CASE o.op \notin Reads
  <2>1. o.data \in Seq(Byte)
    BY <1>2, OpBytesAre
  <2>2. Poke(acc.ram, o.addr, o.data) \in [Addr -> Byte]
    BY <1>0, <2>1, PokeType
  <2>. QED
    BY <1>0, <1>2, <2>2 DEF IoResult, Machine
<1>. QED
  BY <1>1, <1>2

LEMMA ResultsAre ==
  ASSUME NEW ops \in Seq(IoOps), NEW m \in [Addr -> Byte]
  PROVE  /\ Results(ops, m) \in [0..Len(ops) -> Machine]
         /\ Results(ops, m)[0] = [ram |-> m, rd |-> <<>>]
         /\ \A n \in 1..Len(ops) : Results(ops, m)[n] = IoResult(Results(ops, m)[n - 1], ops[n])
<1> DEFINE N == Len(ops)
           nothing == [ram |-> m, rd |-> <<>>]
<1>a. N \in Nat /\ \A n \in 1..N : ops[n] \in IoOps
  OBVIOUS
<1>1. nothing \in Machine
  BY DEF Machine
<1>2. PICK g : g = [n \in 1..N |-> [x \in Machine |-> IoResult(x, ops[n])]]
  OBVIOUS
<1>3. g \in [1..N -> [Machine -> Machine]]
  <2>1. \A n \in 1..N : \A x \in Machine : IoResult(x, ops[n]) \in Machine
    BY <1>a, IoResultType
  <2>. QED
    BY <1>2, <2>1
<1> HIDE DEF nothing
<1>4. PICK f : Unfolding(f, N, Machine, nothing, g)
  BY <1>a, <1>1, <1>3, Unfolds
<1>5. f \in [0..N -> Machine] /\ f[0] = nothing /\ \A n \in 1..N : f[n] = g[n][f[n - 1]]
  BY <1>4 DEF Unfolding
<1>6. \A n \in 1..N : f[n] = IoResult(f[n - 1], ops[n])
  <2>1. \A n \in 1..N : n - 1 \in 0..N
    BY <1>a
  <2>. QED
    BY <1>2, <1>5, <2>1
<1> DEFINE Body(h, n) == IF n = 0 THEN [ram |-> m, rd |-> <<>>] ELSE IoResult(h[n - 1], ops[n])
<1>7. f = [n \in 0..N |-> Body(f, n)]
  <2>1. ASSUME NEW n \in 0..N PROVE f[n] = Body(f, n)
    <3>1. CASE n = 0
      BY <1>5, <3>1 DEF nothing
    <3>2. CASE n # 0
      <4>1. n \in 1..N
        BY <3>2, <1>a
      <4>2. Body(f, n) = IoResult(f[n - 1], ops[n])
        BY <3>2
      <4> HIDE DEF Body
      <4>. QED
        BY <1>6, <4>1, <4>2
    <3>. QED
      BY <3>1, <3>2
  <2>. QED
    BY <1>5, <2>1
<1> DEFINE upTo == CHOOSE h : h = [n \in 0..Len(ops) |-> IF n = 0 THEN [ram |-> m, rd |-> <<>>]
                                                         ELSE IoResult(h[n - 1], ops[n])]
<1>8. upTo = [n \in 0..N |-> Body(upTo, n)]
  BY <1>7
<1> HIDE DEF upTo
<1>9. \A n \in 0..N : upTo[n] = Body(upTo, n)
  BY <1>8
<1> DEFINE T == {n \in Nat : n <= N => upTo[n] = f[n]}
<1>10. 0 \in T
  BY <1>5, <1>9, <1>a DEF nothing
<1>11. ASSUME NEW n \in Nat, n \in T PROVE n + 1 \in T
  <2>1. SUFFICES ASSUME n + 1 <= N PROVE upTo[n + 1] = f[n + 1]
    OBVIOUS
  <2>2. upTo[n] = f[n]
    BY <1>11, <1>a, <2>1
  <2>3. n + 1 \in 1..N /\ n + 1 \in 0..N /\ (n + 1) - 1 = n /\ n + 1 # 0
    BY <1>a, <2>1
  <2>4. Body(upTo, n + 1) = IoResult(upTo[(n + 1) - 1], ops[n + 1])
    BY <2>3
  <2>5. f[n + 1] = IoResult(f[(n + 1) - 1], ops[n + 1])
    BY <1>6, <2>3
  <2>6. upTo[n + 1] = Body(upTo, n + 1)
    BY <1>9, <2>3
  <2> HIDE DEF Body
  <2>. QED
    BY <2>2, <2>3, <2>4, <2>5, <2>6
<1>12. \A n \in Nat : n \in T
  <2> HIDE DEF T
  <2>. QED
    BY <1>10, <1>11, NatSets
<1>13. upTo = f
  <2>1. \A n \in 0..N : upTo[n] = f[n]
    BY <1>12, <1>a
  <2> HIDE DEF Body
  <2>. QED
    BY <1>5, <1>8, <2>1
<1>14. Results(ops, m) = upTo
  BY DEF Results, upTo
<1>. QED
  BY <1>5, <1>6, <1>13, <1>14 DEF nothing

LEMMA SendsSplit ==
  ASSUME NEW s, NEW p \in Nat, NEW a \in Seq(Byte), NEW b \in Seq(Byte), Len(s) \in Nat,
         SendsAt(s, p, a \o b)
  PROVE  SendsAt(s, p, a) /\ SendsAt(s, p + Len(a), b)
<1>1. PICK c : c = a \o b
  OBVIOUS
<1>2. /\ Len(c) = Len(a) + Len(b) /\ Len(a) \in Nat /\ Len(b) \in Nat
      /\ \A i \in 1..Len(a) : c[i] = a[i]
      /\ \A i \in 1..Len(b) : c[Len(a) + i] = b[i]
  BY <1>1
<1>3. p + Len(c) <= Len(s) /\ \A k \in 1..Len(c) : s[p + k] = [call |-> "send", byte |-> c[k]]
  BY <1>1 DEF SendsAt
<1>4. ASSUME NEW k \in 1..Len(a) PROVE s[p + k] = [call |-> "send", byte |-> a[k]]
  <2>1. k \in 1..Len(c)
    BY <1>2
  <2>. QED
    BY <1>2, <1>3, <2>1
<1>5. ASSUME NEW k \in 1..Len(b) PROVE s[p + Len(a) + k] = [call |-> "send", byte |-> b[k]]
  <2>1. Len(a) + k \in 1..Len(c) /\ p + (Len(a) + k) = p + Len(a) + k
    BY <1>2
  <2>2. s[p + (Len(a) + k)] = [call |-> "send", byte |-> c[Len(a) + k]]
    BY <1>3, <2>1
  <2>3. c[Len(a) + k] = b[k]
    BY <1>2
  <2>. QED
    BY <2>1, <2>2, <2>3
<1>6. p + Len(a) <= Len(s) /\ p + Len(a) + Len(b) <= Len(s)
  BY <1>2, <1>3
<1>. QED
  BY <1>4, <1>5, <1>6 DEF SendsAt

ScriptFor(r, s) ==
  /\ Legal(s) /\ SendsAt(s, 0, <<CmdPrefix, Code[r.cmd]>>)
  /\ r.cmd = "send" =>
       SendsAt(s, 2, AddrBytes(r)) /\ SendsAt(s, 8, r.data) /\ Len(s) = 8 + Len(r.data)
  /\ r.cmd = "recv" =>
       /\ SendsAt(s, 2, AddrBytes(r)) /\ TurnAt(s, 8, "toIn") /\ RecvsAt(s, 9, r.size)
       /\ Len(s) = 9 + r.size
  /\ r.cmd = "jump" => SendsAt(s, 2, AddrBytes(r)) /\ Len(s) = 5
  /\ r.cmd = "io" =>
       /\ SendsAt(s, 2, Tail(Bytes3(Len(r.ops))))
       /\ \A n \in 1..Len(r.ops) : OpAt(s, Offsets(r.ops)[n - 1], r.ops[n])
       /\ Len(s) = Offsets(r.ops)[Len(r.ops)]
  /\ r.cmd = "loadstate" => SendsAt(s, 2, r.data) /\ Len(s) = 2 + Len(r.data)
  /\ r.cmd = "recvvram" => /\ TurnAt(s, 2, "toIn") /\ RecvsAt(s, 3, VramBytes)
                           /\ Len(s) = 3 + VramBytes

LEMMA RequestIs ==
  ASSUME NEW r \in Requests
  PROVE  /\ r.cmd \in DOMAIN Code
         /\ r.cmd \in {"send", "recv", "jump"} => r.addr \in Nat
         /\ r.cmd \in {"send", "loadstate"} => r.data \in Seq(Byte)
         /\ r.cmd = "recv" => r.size \in Nat
         /\ r.cmd = "io" => r.ops \in Seq(IoOps)
         /\ r.cmd = "loadstate" => Len(r.data) = LoadBytes + LoadRegs
BY RequestsAssumption DEF SendLine, RecvLine, JumpLine, IoLine, LoadLine, VramLine, Code

LEMMA Bytes3Are ==
  ASSUME NEW n \in Nat
  PROVE  /\ Bytes3(n) \in Seq(Byte) /\ Len(Bytes3(n)) = 3
         /\ Tail(Bytes3(n)) \in Seq(Byte) /\ Len(Tail(Bytes3(n))) = 2
<1>1. PICK s : s = Bytes3(n)
  OBVIOUS
<1>2. s \in Seq(Byte)
  BY <1>1, Bytes3Type
<1>3. Len(s) = 3
  BY <1>1 DEF Bytes3
<1>4. Tail(s) \in Seq(Byte) /\ Len(Tail(s)) = 2
  BY <1>2, <1>3
<1>. QED
  BY <1>1, <1>2, <1>3, <1>4

LEMMA VramBytesAre ==
  ASSUME NEW s, s = [k \in 1..VramBytes |-> VramByte(k - 1)]
  PROVE  s \in Seq(Byte) /\ Len(s) = VramBytes
<1>1. VramBytes \in Nat
  BY BoundsAssumption
<1>2. \A k \in 1..VramBytes : s[k] \in Byte
  <2>1. \A k \in 1..VramBytes : k - 1 \in Int
    BY <1>1
  <2>. QED
    BY <2>1, BType DEF VramByte
<1>. QED
  BY <1>1, <1>2

LEMMA ByteNum == ASSUME NEW n \in Nat PROVE Low(B(n)) + 16 * High(B(n)) = n % 256
BY DEF Low, High, B

LEMMA NumOfLen ==
  ASSUME NEW s \in Seq(Byte), NEW k, Len(s) = k
  PROVE  \E f : Places(f, s) /\ Num(s) = f[k]
BY NumIs, Zenon

\* The value of a byte, and of three and of two of them.
Value(b) == Low(b) + 16 * High(b)

LEMMA Placed ==
  ASSUME NEW x \in Int, NEW b \in Byte
  PROVE  256 * x + Low(b) + 16 * High(b) = 256 * x + Value(b)
<1>1. Low(b) \in Int /\ High(b) \in Int
  BY WholeNibbles, SMT DEF Byte, Low, High
<1>. QED
  BY <1>1, SMT DEF Value

LEMMA NumOfThree ==
  ASSUME NEW s \in Seq(Byte), Len(s) = 3
  PROVE  Num(s) = 256 * (256 * Value(s[1]) + Value(s[2])) + Value(s[3])
<1>1. PICK f : Places(f, s) /\ Num(s) = f[3]
  BY NumOfLen, Zenon
<1>2. s[1] \in Byte /\ s[2] \in Byte /\ s[3] \in Byte
  <2>1. 1 \in 1..Len(s) /\ 2 \in 1..Len(s) /\ 3 \in 1..Len(s)
    OBVIOUS
  <2>. QED
    BY <2>1, ElementOfSeq
<1>3. /\ f[0] = 0 /\ f[1] = 256 * f[0] + Low(s[1]) + 16 * High(s[1])
      /\ f[2] = 256 * f[1] + Low(s[2]) + 16 * High(s[2])
      /\ f[3] = 256 * f[2] + Low(s[3]) + 16 * High(s[3])
      /\ f[1] \in Int /\ f[2] \in Int /\ f[3] \in Int
  BY <1>1 DEF Places
<1>4. f[1] = Value(s[1])
  <2>1. Low(s[1]) \in Int /\ High(s[1]) \in Int
    BY <1>2, WholeNibbles, SMT DEF Byte, Low, High
  <2>2. f[1] = Low(s[1]) + 16 * High(s[1])
    BY <1>3, <2>1, SMT
  <2>. QED
    BY <2>2 DEF Value
<1>5. f[2] = 256 * f[1] + Value(s[2])
  BY <1>2, <1>3, Placed, SMT
<1>6. f[3] = 256 * f[2] + Value(s[3])
  BY <1>2, <1>3, Placed, SMT
<1>. QED
  BY <1>1, <1>4, <1>5, <1>6, SMT

LEMMA NumOfTwo ==
  ASSUME NEW s \in Seq(Byte), Len(s) = 2
  PROVE  Num(s) = 256 * Value(s[1]) + Value(s[2])
<1>1. PICK f : Places(f, s) /\ Num(s) = f[2]
  BY NumOfLen, Zenon
<1>2. s[1] \in Byte /\ s[2] \in Byte
  <2>1. 1 \in 1..Len(s) /\ 2 \in 1..Len(s)
    OBVIOUS
  <2>. QED
    BY <2>1, ElementOfSeq
<1>3. /\ f[0] = 0 /\ f[1] = 256 * f[0] + Low(s[1]) + 16 * High(s[1])
      /\ f[2] = 256 * f[1] + Low(s[2]) + 16 * High(s[2])
      /\ f[1] \in Int /\ f[2] \in Int
  BY <1>1 DEF Places
<1>4. f[1] = Value(s[1])
  <2>1. Low(s[1]) \in Int /\ High(s[1]) \in Int
    BY <1>2, WholeNibbles, SMT DEF Byte, Low, High
  <2>2. f[1] = Low(s[1]) + 16 * High(s[1])
    BY <1>3, <2>1, SMT
  <2>. QED
    BY <2>2 DEF Value
<1>5. f[2] = 256 * f[1] + Value(s[2])
  BY <1>2, <1>3, Placed, SMT
<1>. QED
  BY <1>1, <1>4, <1>5, SMT

\* An address or a length of three bytes, a count of two, arrives as it was.
LEMMA ThreeBytes == ASSUME NEW n \in Nat, n < 16777216 PROVE Num(Bytes3(n)) = n
<1>1. /\ Num(Bytes3(n)) = 256 * (256 * Value(Bytes3(n)[1]) + Value(Bytes3(n)[2])) + Value(Bytes3(n)[3])
      /\ n \div 65536 \in Nat /\ n \div 256 \in Nat
  BY Bytes3Are, NumOfThree, SMT
<1>2. Bytes3(n)[1] = B(n \div 65536) /\ Bytes3(n)[2] = B(n \div 256) /\ Bytes3(n)[3] = B(n)
  BY SMT DEF Bytes3
<1>3. /\ Value(B(n \div 65536)) = (n \div 65536) % 256
      /\ Value(B(n \div 256)) = (n \div 256) % 256
      /\ Value(B(n)) = n % 256
  BY <1>1, ByteNum, SMT DEF Value
<1>4. Num(Bytes3(n)) = 256 * (256 * ((n \div 65536) % 256) + ((n \div 256) % 256)) + (n % 256)
  BY <1>1, <1>2, <1>3, SMT
<1>. QED
  BY <1>4, SMT

LEMMA TwoBytes == ASSUME NEW n \in Nat, n < 65536 PROVE Num(Tail(Bytes3(n))) = n
<1> DEFINE s == Tail(Bytes3(n))
<1>1. s = <<B(n \div 256), B(n)>>
  BY SMT DEF Bytes3
<1>2. s \in Seq(Byte) /\ Len(s) = 2
  BY Bytes3Are, SMT
<1> HIDE DEF s
<1>3. s[1] = B(n \div 256) /\ s[2] = B(n) /\ n \div 256 \in Nat
  BY <1>1, SMT
<1>4. Value(B(n \div 256)) = (n \div 256) % 256 /\ Value(B(n)) = n % 256
  BY <1>3, ByteNum, SMT DEF Value
<1>5. Num(s) = 256 * ((n \div 256) % 256) + (n % 256)
  BY <1>2, <1>3, <1>4, NumOfTwo, SMT
<1>6. Num(s) = n
  BY <1>5, SMT
<1>. QED
  BY <1>6 DEF s

LEMMA CodesDiffer ==
  /\ \A c \in DOMAIN Code : IsCommand(Code[c]) /\ Command(Code[c]) = c
  /\ \A o \in DOMAIN IoCode : IoOf(IoCode[o]) = o
  /\ \A o \in DOMAIN IoCode :
       /\ IoCode[o] \in {IoCode[q] : q \in Reads} <=> o \in Reads
       /\ IoCode[o] \in {IoCode[q] : q \in DOMAIN IoCode \ Reads} <=> o \notin Reads
<1>1. \A c, d \in DOMAIN Code : Code[c] = Code[d] => c = d
  BY DEF Code, B
<1>2. \A o, q \in DOMAIN IoCode : IoCode[o] = IoCode[q] => o = q
  BY DEF IoCode, B
<1>3. Reads \subseteq DOMAIN IoCode
  BY DEF Reads, IoCode
<1>4. \A c \in DOMAIN Code : IsCommand(Code[c]) /\ Command(Code[c]) = c
  BY <1>1 DEF IsCommand, Command
<1>5. \A o \in DOMAIN IoCode : IoOf(IoCode[o]) = o
  BY <1>2 DEF IoOf
<1>. QED
  BY <1>2, <1>3, <1>4, <1>5

LEMMA OffsetsAbove ==
  ASSUME NEW ops \in Seq(IoOps), \A i \in 1..Len(ops) : Whole(ops[i])
  PROVE  \A n \in 0..Len(ops) : Offsets(ops)[n] - 4 \in Nat
<1>1. PICK f : f = Offsets(ops)
  OBVIOUS
<1>2. /\ f \in [0..Len(ops) -> Nat] /\ f[0] = 4
      /\ \A n \in 1..Len(ops) : f[n] = f[n - 1] + OpLen(ops[n])
  BY <1>1, OffsetsAre
<1>3. Len(ops) \in Nat /\ \A n \in 1..Len(ops) : OpLen(ops[n]) \in Nat
  <2>1. ASSUME NEW n \in 1..Len(ops) PROVE OpLen(ops[n]) \in Nat
    <3>1. Width[ops[n].op] \in {1, 2, 4}
      BY IoCallsAre
    <3>. QED
      BY <3>1 DEF OpLen
  <2>. QED
    BY <2>1
<1> DEFINE T == {n \in Nat : n <= Len(ops) => f[n] - 4 \in Nat}
<1>4. 0 \in T
  BY <1>2, <1>3
<1>5. ASSUME NEW n \in Nat, n \in T PROVE n + 1 \in T
  <2>1. SUFFICES ASSUME n + 1 <= Len(ops) PROVE f[n + 1] - 4 \in Nat
    OBVIOUS
  <2>2. f[n] - 4 \in Nat /\ f[n] \in Nat
    BY <1>2, <1>3, <1>5, <2>1
  <2>3. n + 1 \in 1..Len(ops) /\ (n + 1) - 1 = n
    BY <1>3, <2>1
  <2>4. f[n + 1] = f[n] + OpLen(ops[n + 1]) /\ OpLen(ops[n + 1]) \in Nat
    BY <1>2, <1>3, <2>3
  <2>. QED
    BY <2>2, <2>4
<1>6. \A n \in Nat : n \in T
  <2> HIDE DEF T
  <2>. QED
    BY <1>4, <1>5, NatSets
<1>. QED
  BY <1>1, <1>3, <1>6

\* What stands in a script stands in it when another one goes before it.
LEMMA Behind ==
  ASSUME NEW a, NEW t, Legal(a), Legal(t), NEW s, s = a \o t
  PROVE  /\ Legal(s) /\ Len(s) = Len(a) + Len(t)
         /\ \A p \in Nat, b \in Seq(Byte) : SendsAt(a, p, b) => SendsAt(s, p, b)
         /\ \A p \in Nat, b \in Seq(Byte) : SendsAt(t, p, b) => SendsAt(s, Len(a) + p, b)
         /\ \A p \in Nat, n \in Nat : RecvsAt(t, p, n) => RecvsAt(s, Len(a) + p, n)
         /\ \A p \in Nat : \A turn : TurnAt(t, p, turn) => TurnAt(s, Len(a) + p, turn)
         /\ \A p \in Nat, o \in IoOps : OpAt(t, p, o) => OpAt(s, Len(a) + p, o)
<1>1. a \in CallSeq /\ t \in CallSeq /\ Len(a) \in Nat /\ Len(t) \in Nat
  BY DEF Legal, CallSeq
<1>2. Legal(s) /\ Len(s) = Len(a) + Len(t)
  BY <1>1, CatIs, CatLegal
<1>3. \A p \in Nat, b \in Seq(Byte) : SendsAt(a, p, b) => SendsAt(s, p, b)
  BY <1>1, CatAt
<1>4. \A p \in Nat, b \in Seq(Byte) : SendsAt(t, p, b) => SendsAt(s, Len(a) + p, b)
  BY <1>1, CatAt
<1>0. <<>> \in Seq(Byte)
  OBVIOUS
<1>5. \A p \in Nat, n \in Nat : RecvsAt(t, p, n) => RecvsAt(s, Len(a) + p, n)
  BY <1>0, <1>1, CatAt
<1>6. \A p \in Nat : \A turn : TurnAt(t, p, turn) => TurnAt(s, Len(a) + p, turn)
  BY <1>0, <1>1, CatAt
<1>7. ASSUME NEW p \in Nat, NEW o \in IoOps, OpAt(t, p, o) PROVE OpAt(s, Len(a) + p, o)
  <2>1. /\ OpBytes(o) \in Seq(Byte) /\ o.op \in DOMAIN IoCode
        /\ o.op \notin Reads => o.data \in Seq(Byte)
    BY OpBytesAre
  <2>2. Width[o.op] \in Nat
    BY <2>1 DEF IoCode, Width
  <2>3. /\ p + 1 \in Nat /\ p + 5 \in Nat /\ p + 6 \in Nat
        /\ (Len(a) + p) + 1 = Len(a) + (p + 1) /\ (Len(a) + p) + 5 = Len(a) + (p + 5)
        /\ (Len(a) + p) + 6 = Len(a) + (p + 6)
    BY <1>1
  <2>4. TurnAt(s, Len(a) + p, "toOut") /\ SendsAt(s, Len(a) + (p + 1), OpBytes(o))
    BY <1>4, <1>6, <1>7, <2>1, <2>3 DEF OpAt
  <2>5. CASE o.op \in Reads
    <3>1. TurnAt(s, Len(a) + (p + 5), "toIn") /\ RecvsAt(s, Len(a) + (p + 6), Width[o.op])
      BY <1>5, <1>6, <1>7, <2>2, <2>3, <2>5 DEF OpAt
    <3>. QED
      BY <2>3, <2>4, <2>5, <3>1 DEF OpAt
  <2>6. CASE o.op \notin Reads
    <3>1. SendsAt(s, Len(a) + (p + 5), o.data)
      BY <1>4, <1>7, <2>1, <2>3, <2>6 DEF OpAt
    <3>. QED
      BY <2>3, <2>4, <2>6, <3>1 DEF OpAt
  <2>. QED
    BY <2>5, <2>6
<1>. QED
  BY <1>2, <1>3, <1>4, <1>5, <1>6, <1>7

LEMMA AddrBytesAre ==
  ASSUME NEW r \in Requests, r.cmd \in {"send", "recv", "jump"}
  PROVE  /\ AddrBytes(r) \in Seq(Byte)
         /\ Len(AddrBytes(r)) = IF r.cmd = "jump" THEN 3 ELSE 6
<1>1. r.addr \in Nat /\ (r.cmd = "recv" => r.size \in Nat) /\ (r.cmd = "send" => Len(r.data) \in Nat)
  BY RequestIs
<1>2. PICK a : a = Bytes3(r.addr)
  OBVIOUS
<1>3. a \in Seq(Byte) /\ Len(a) = 3
  BY <1>1, <1>2, Bytes3Are
<1>4. CASE r.cmd = "jump"
  BY <1>2, <1>3, <1>4 DEF AddrBytes
<1>5. CASE r.cmd = "send"
  <2>1. PICK b : b = Bytes3(Len(r.data))
    OBVIOUS
  <2>2. b \in Seq(Byte) /\ Len(b) = 3
    BY <1>1, <1>5, <2>1, Bytes3Are
  <2>3. AddrBytes(r) = a \o b
    BY <1>2, <1>5, <2>1 DEF AddrBytes
  <2>4. a \o b \in Seq(Byte) /\ Len(a \o b) = 6
    BY <1>3, <2>2, ConcatProperties, SMTT(30)
  <2>. QED
    BY <1>5, <2>3, <2>4
<1>6. CASE r.cmd = "recv"
  <2>1. PICK b : b = Bytes3(r.size)
    OBVIOUS
  <2>2. b \in Seq(Byte) /\ Len(b) = 3
    BY <1>1, <1>6, <2>1, Bytes3Are
  <2>3. AddrBytes(r) = a \o b
    BY <1>2, <1>6, <2>1 DEF AddrBytes
  <2>4. a \o b \in Seq(Byte) /\ Len(a \o b) = 6
    BY <1>3, <2>2, ConcatProperties, SMTT(30)
  <2>. QED
    BY <1>6, <2>3, <2>4
<1>. QED
  BY <1>4, <1>5, <1>6

LEMMA JoinedBytes ==
  ASSUME NEW s \in Seq(Byte), NEW t \in Seq(Byte)
  PROVE  /\ s \o t \in Seq(Byte) /\ Len(s \o t) = Len(s) + Len(t)
         /\ \A i \in 1..Len(s) : (s \o t)[i] = s[i]
         /\ \A i \in 1..Len(t) : (s \o t)[Len(s) + i] = t[i]
OBVIOUS

\* What a script does, command by command.
LEMMA ScriptIs ==
  ASSUME NEW r \in Requests, Encodable(r) PROVE ScriptFor(r, Calls(r))
<1> DEFINE pre == <<CmdPrefix, Code[r.cmd]>>
           a == Sends(pre)
<1>1. r.cmd \in DOMAIN Code
  BY RequestIs
<1>2. pre \in Seq(Byte) /\ Len(pre) = 2
  BY <1>1, CodeTypes
<1>3. Legal(a) /\ Len(a) = 2 /\ SendsAt(a, 0, pre)
  BY <1>2, SendsAre
<1>4. PICK s : s = Calls(r)
  OBVIOUS
<1> SUFFICES ScriptFor(r, s)
  BY <1>4
<1> DEFINE Rest(t) == s = a \o t /\ Legal(t)
<1>5. ASSUME NEW t, Rest(t)
      PROVE  /\ Legal(s) /\ Len(s) = 2 + Len(t) /\ SendsAt(s, 0, pre)
             /\ \A p \in Nat, b \in Seq(Byte) : SendsAt(t, p, b) => SendsAt(s, 2 + p, b)
             /\ \A p \in Nat, n \in Nat : RecvsAt(t, p, n) => RecvsAt(s, 2 + p, n)
             /\ \A p \in Nat : \A turn : TurnAt(t, p, turn) => TurnAt(s, 2 + p, turn)
             /\ \A p \in Nat, o \in IoOps : OpAt(t, p, o) => OpAt(s, 2 + p, o)
  <2> HIDE DEF pre, a
  <2>1. /\ Legal(s) /\ Len(s) = Len(a) + Len(t)
        /\ \A p \in Nat, b \in Seq(Byte) : SendsAt(a, p, b) => SendsAt(s, p, b)
        /\ \A p \in Nat, b \in Seq(Byte) : SendsAt(t, p, b) => SendsAt(s, Len(a) + p, b)
        /\ \A p \in Nat, n \in Nat : RecvsAt(t, p, n) => RecvsAt(s, Len(a) + p, n)
        /\ \A p \in Nat : \A turn : TurnAt(t, p, turn) => TurnAt(s, Len(a) + p, turn)
        /\ \A p \in Nat, o \in IoOps : OpAt(t, p, o) => OpAt(s, Len(a) + p, o)
    BY <1>3, <1>5, Behind
  <2>. QED
    BY <1>2, <1>3, <2>1
<1>6. CASE r.cmd = "send"
  <2>1. r.addr \in Nat /\ r.data \in Seq(Byte) /\ Len(r.data) \in Nat
    BY <1>6, RequestIs
  <2>2. PICK h : h = AddrBytes(r)
    OBVIOUS
  <2>3. h \in Seq(Byte) /\ Len(h) = 6
    BY <1>6, <2>2, AddrBytesAre
  <2>4. PICK u : u = h \o r.data
    OBVIOUS
  <2>5. u \in Seq(Byte) /\ Len(u) = 6 + Len(r.data)
    <3>1. PICK d : d = r.data
      OBVIOUS
    <3>2. d \in Seq(Byte) /\ h \in Seq(Byte)
      BY <2>1, <2>3, <3>1
    <3>3. h \o d \in Seq(Byte) /\ Len(h \o d) = Len(h) + Len(d)
      BY <3>2, JoinedBytes
    <3>. QED
      BY <2>3, <2>4, <3>1, <3>3
  <2>6. s = a \o Sends(u)
    <3>1. u = (Bytes3(r.addr) \o Bytes3(Len(r.data))) \o r.data
      BY <1>6, <2>2, <2>4 DEF AddrBytes
    <3>. QED
      BY <1>4, <1>6, <3>1 DEF Calls
  <2>7. PICK t : t = Sends(u)
    OBVIOUS
  <2>8. Legal(t) /\ Len(t) = Len(u) /\ SendsAt(t, 0, u)
    BY <2>5, <2>7, SendsAre
  <2>9. Len(t) \in Nat
    BY <2>5, <2>8
  <2>10. SendsAt(t, 0, h) /\ SendsAt(t, 0 + 6, r.data)
    BY <2>1, <2>3, <2>4, <2>8, <2>9, SendsSplit
  <2>11. Rest(t)
    BY <2>6, <2>7, <2>8
  <2>12. /\ Legal(s) /\ Len(s) = 2 + Len(t) /\ SendsAt(s, 0, pre)
         /\ SendsAt(s, 2 + 0, h) /\ SendsAt(s, 2 + 6, r.data)
    <3> HIDE DEF Rest, pre, a
    <3>. QED
      BY <1>5, <2>1, <2>3, <2>10, <2>11
  <2>. QED
    BY <1>6, <2>1, <2>2, <2>5, <2>8, <2>12 DEF ScriptFor
<1>7. CASE r.cmd = "recv"
  <2>1. r.addr \in Nat /\ r.size \in Nat /\ r.size > 0
    BY <1>7, RequestIs DEF Encodable
  <2>2. PICK h : h = AddrBytes(r)
    OBVIOUS
  <2>3. h \in Seq(Byte) /\ Len(h) = 6
    BY <1>7, <2>2, AddrBytesAre
  <2>4. PICK u : u = Sends(h)
    OBVIOUS
  <2>5. Legal(u) /\ Len(u) = 6 /\ SendsAt(u, 0, h)
    BY <2>3, <2>4, SendsAre
  <2>6. PICK t : t = u \o ToInput \o Recvs(r.size)
    OBVIOUS
  <2>7. s = a \o t
    BY <1>4, <1>7, <2>2, <2>4, <2>6 DEF Calls, AddrBytes
  <2>8. /\ Legal(t) /\ Len(t) = 7 + r.size
        /\ TurnAt(t, 6, "toIn") /\ RecvsAt(t, 6 + 1, r.size) /\ SendsAt(t, 0, h)
    <3>1. Legal(u)
      BY <2>5
    <3>2. /\ Legal(t) /\ Len(t) = Len(u) + 1 + r.size
          /\ TurnAt(t, Len(u), "toIn") /\ RecvsAt(t, Len(u) + 1, r.size)
          /\ \A p \in Nat, b \in Seq(Byte) : SendsAt(u, p, b) => SendsAt(t, p, b)
      BY <2>1, <2>6, <3>1, GivesAre
    <3>. QED
      BY <2>1, <2>3, <2>5, <3>2
  <2>11. Rest(t)
    BY <2>7, <2>8
  <2>12. /\ Legal(s) /\ Len(s) = 2 + Len(t) /\ SendsAt(s, 0, pre)
         /\ SendsAt(s, 2 + 0, h) /\ TurnAt(s, 2 + 6, "toIn") /\ RecvsAt(s, 2 + 7, r.size)
    <3> HIDE DEF Rest, pre, a
    <3>. QED
      BY <1>5, <2>1, <2>3, <2>8, <2>11
  <2>. QED
    BY <1>7, <2>1, <2>2, <2>8, <2>12 DEF ScriptFor
<1>8. CASE r.cmd = "jump"
  <2>1. r.addr \in Nat
    BY <1>8, RequestIs
  <2>2. PICK h : h = AddrBytes(r)
    OBVIOUS
  <2>3. h \in Seq(Byte) /\ Len(h) = 3
    BY <1>8, <2>2, AddrBytesAre
  <2>4. PICK t : t = Sends(h)
    OBVIOUS
  <2>5. Legal(t) /\ Len(t) = 3 /\ SendsAt(t, 0, h)
    BY <2>3, <2>4, SendsAre
  <2>6. Rest(t)
    BY <1>4, <1>8, <2>2, <2>4, <2>5 DEF Calls, AddrBytes
  <2>7. Legal(s) /\ Len(s) = 2 + Len(t) /\ SendsAt(s, 0, pre) /\ SendsAt(s, 2 + 0, h)
    <3> HIDE DEF Rest, pre, a
    <3>. QED
      BY <1>5, <2>3, <2>5, <2>6
  <2>. QED
    BY <1>8, <2>2, <2>5, <2>7 DEF ScriptFor
<1>9. CASE r.cmd = "loadstate"
  <2>1. r.data \in Seq(Byte) /\ Len(r.data) \in Nat
    BY <1>9, RequestIs
  <2>4. PICK t : t = Sends(r.data)
    OBVIOUS
  <2>5. Legal(t) /\ Len(t) = Len(r.data) /\ SendsAt(t, 0, r.data)
    BY <2>1, <2>4, SendsAre
  <2>6. Rest(t)
    BY <1>4, <1>9, <2>4, <2>5 DEF Calls
  <2>7. Legal(s) /\ Len(s) = 2 + Len(t) /\ SendsAt(s, 0, pre) /\ SendsAt(s, 2 + 0, r.data)
    <3> HIDE DEF Rest, pre, a
    <3>. QED
      BY <1>5, <2>1, <2>5, <2>6
  <2>. QED
    BY <1>9, <2>5, <2>7 DEF ScriptFor
<1>10. CASE r.cmd = "recvvram"
  <2>1. VramBytes \in Nat /\ VramBytes > 0
    BY <1>10, BoundsAssumption DEF Encodable
  <2>2. PICK t : t = a \o ToInput \o Recvs(VramBytes)
    OBVIOUS
  <2>3. s = t
    <3>1. s = a \o (ToInput \o Recvs(VramBytes))
      BY <1>4, <1>10 DEF Calls
    <3>2. a \in CallSeq /\ Recvs(VramBytes) \in CallSeq
      BY <1>3, <2>1, RecvsType DEF Legal
    <3> HIDE DEF a
    <3>. QED
      BY <2>2, <3>1, <3>2, TurnsType, CatAssoc
  <2>4. /\ Legal(t) /\ Len(t) = 2 + 1 + VramBytes
        /\ TurnAt(t, 2, "toIn") /\ RecvsAt(t, 2 + 1, VramBytes) /\ SendsAt(t, 0, pre)
    <3> HIDE DEF a, pre
    <3>. QED
      BY <1>2, <1>3, <2>1, <2>2, GivesAre
  <2>. QED
    BY <1>10, <2>1, <2>3, <2>4 DEF ScriptFor
<1>11. CASE r.cmd = "io"
  <2>1. r.ops \in Seq(IoOps) /\ Len(r.ops) \in Nat
    BY <1>11, RequestIs
  <2>2. \A i \in 1..Len(r.ops) : Whole(r.ops[i])
    BY <1>11, <2>1 DEF Encodable, Whole
  <2>3. PICK c : c = Tail(Bytes3(Len(r.ops)))
    OBVIOUS
  <2>4. c \in Seq(Byte) /\ Len(c) = 2
    BY <2>1, <2>3, Bytes3Are
  <2>5. PICK q : q = [i \in DOMAIN r.ops |-> IoCalls(r.ops[i])]
    OBVIOUS
  <2>6. PICK f : f = FlattenSeq(q)
    OBVIOUS
  <2>7. /\ Legal(f) /\ 4 + Len(f) = Offsets(r.ops)[Len(r.ops)]
        /\ \A n \in 1..Len(r.ops) : OpAt(f, Offsets(r.ops)[n - 1] - 4, r.ops[n])
    BY <2>1, <2>2, <2>5, <2>6, FlattenAre
  <2>8. PICK u : u = Sends(c)
    OBVIOUS
  <2>9. Legal(u) /\ Len(u) = 2 /\ SendsAt(u, 0, c)
    BY <2>4, <2>8, SendsAre
  <2>10. PICK t : t = u \o f
    OBVIOUS
  <2>11. /\ Legal(t) /\ Len(t) = 2 + Len(f) /\ SendsAt(t, 0, c)
         /\ \A p \in Nat, o \in IoOps : OpAt(f, p, o) => OpAt(t, 2 + p, o)
    BY <2>4, <2>7, <2>9, <2>10, Behind, ZenonT(30)
  <2>12. Rest(t)
    BY <1>4, <1>11, <2>3, <2>5, <2>6, <2>8, <2>10, <2>11 DEF Calls
  <2>13. /\ Legal(s) /\ Len(s) = 2 + Len(t) /\ SendsAt(s, 0, pre) /\ SendsAt(s, 2 + 0, c)
         /\ \A p \in Nat, o \in IoOps : OpAt(t, p, o) => OpAt(s, 2 + p, o)
    <3> HIDE DEF Rest, pre, a
    <3>. QED
      BY <1>5, <2>4, <2>11, <2>12
  <2>14. ASSUME NEW n \in 1..Len(r.ops) PROVE OpAt(s, Offsets(r.ops)[n - 1], r.ops[n])
    <3>1. Offsets(r.ops)[n - 1] - 4 \in Nat
      BY <2>1, <2>2, OffsetsAbove, SMTT(30)
    <3>2. r.ops[n] \in IoOps
      BY <2>1
    <3>3. OpAt(s, 2 + (2 + (Offsets(r.ops)[n - 1] - 4)), r.ops[n])
      BY <2>7, <2>11, <2>13, <3>1, <3>2
    <3>4. Offsets(r.ops)[n - 1] = 2 + (2 + (Offsets(r.ops)[n - 1] - 4))
      <4>1. Offsets(r.ops) \in [0..Len(r.ops) -> Nat]
        BY <2>1, <2>2, OffsetsAre
      <4>2. n - 1 \in 0..Len(r.ops)
        BY <2>1
      <4>3. Offsets(r.ops)[n - 1] \in Nat
        BY <4>1, <4>2
      <4>. QED
        BY <4>3
    <3>. QED
      BY <3>3, <3>4
  <2>15. Len(s) = Offsets(r.ops)[Len(r.ops)]
    <3>1. Len(f) \in Nat
      BY <2>7 DEF Legal, CallSeq
    <3>. QED
      BY <2>7, <2>11, <2>13, <3>1
  <2>. QED
    BY <1>11, <2>3, <2>13, <2>14, <2>15 DEF ScriptFor
<1>. QED
  BY <1>1, <1>6, <1>7, <1>8, <1>9, <1>10, <1>11 DEF Code

-----------------------------------------------------------------------------
(* What the console can count on.                                          *)

\* Past call n the console takes b, as call m.
NextIs(n, m, b) ==
  /\ After(n) = m /\ m \in 1..Len(Script) /\ Script[m] = [call |-> "send", byte |-> b]
\* Past call n the PC turns the lines and takes w bytes.
TakesNext(n, w) ==
  /\ n + 1 + w <= Len(Script) /\ Script[n + 1].call = "toIn" /\ After(n) = n + 2
  /\ \A i \in 1..w : Script[n + 1 + i].call = "recv"
  /\ \A i \in 2..w : After(n + i) = n + 1 + i

\* The request at hand, as the console will find it on the wires.
OpSays(n, o) ==
  /\ NextIs(n, n + 2, OpBytes(o)[1])
  /\ \A i \in 1..3 : NextIs(n + 1 + i, n + 2 + i, OpBytes(o)[i + 1])
  /\ o.op \notin Reads => \A i \in 0..(Len(o.data) - 1) : NextIs(n + 5 + i, n + 6 + i, o.data[i + 1])
  /\ o.op \in Reads => TakesNext(n + 5, Width[o.op])

Says(r) ==
  /\ NextIs(0, 1, CmdPrefix) /\ NextIs(1, 2, Code[r.cmd])
  /\ r.cmd \in {"send", "recv", "jump"} =>
       \A i \in 0..(Len(AddrBytes(r)) - 1) : NextIs(2 + i, 3 + i, AddrBytes(r)[i + 1])
  /\ r.cmd = "send" => \A i \in 0..(Len(r.data) - 1) : NextIs(8 + i, 9 + i, r.data[i + 1])
  /\ r.cmd = "recv" => TakesNext(8, r.size)
  /\ r.cmd = "recvvram" => TakesNext(2, VramBytes)
  /\ r.cmd = "loadstate" => \A i \in 0..(Len(r.data) - 1) : NextIs(2 + i, 3 + i, r.data[i + 1])
  /\ r.cmd = "io" =>
       /\ \A i \in 0..1 : NextIs(2 + i, 3 + i, Tail(Bytes3(Len(r.ops)))[i + 1])
       /\ \A n \in 0..(Len(r.ops) - 1) : OpSays(Offsets(r.ops)[n], r.ops[n + 1])

LEMMA SendsSay ==
  ASSUME Legal(Script), NEW p \in Nat, NEW b \in Seq(Byte), SendsAt(Script, p, b),
         NEW i \in 0..(Len(b) - 1)
  PROVE  NextIs(p + i, p + i + 1, b[i + 1])
<1>1. Len(Script) \in Nat /\ Len(b) \in Nat
  BY DEF Legal, CallSeq
<1>2. i + 1 \in 1..Len(b) /\ p + (i + 1) = p + i + 1
  BY <1>1
<1>3. p + i + 1 \in 1..Len(Script) /\ Script[p + i + 1] = [call |-> "send", byte |-> b[i + 1]]
  <2>1. Script[p + (i + 1)] = [call |-> "send", byte |-> b[i + 1]] /\ p + Len(b) <= Len(Script)
    BY <1>2 DEF SendsAt
  <2>. QED
    BY <1>1, <1>2, <2>1
<1>4. Script[p + i + 1].call = "send"
  BY <1>3
<1>5. After(p + i) = p + i + 1
  BY <1>4 DEF After, IsTurn, Turns
<1>. QED
  BY <1>3, <1>5 DEF NextIs

LEMMA TakesSay ==
  ASSUME Legal(Script), NEW p \in Nat, NEW w \in Nat, w > 0,
         TurnAt(Script, p, "toIn"), RecvsAt(Script, p + 1, w)
  PROVE  TakesNext(p, w)
<1>1. Len(Script) \in Nat
  BY DEF Legal, CallSeq
<1>2. p + 1 <= Len(Script) /\ Script[p + 1].call = "toIn" /\ p + 1 + w <= Len(Script)
  BY DEF TurnAt, RecvsAt
<1>3. \A i \in 1..w : Script[p + 1 + i].call = "recv"
  BY DEF RecvsAt
<1>4. After(p) = p + 2
  BY <1>1, <1>2 DEF After, IsTurn, Turns
<1>5. ASSUME NEW i \in 2..w PROVE After(p + i) = p + 1 + i
  <2>0. i \in 1..w
    OBVIOUS
  <2>1. Script[p + 1 + i].call = "recv"
    BY <1>3, <2>0
  <2>2. p + i + 1 = p + 1 + i
    OBVIOUS
  <2>3. ~IsTurn(p + i + 1)
    BY <2>1, <2>2 DEF IsTurn, Turns
  <2>. QED
    BY <2>2, <2>3 DEF After
<1>. QED
  BY <1>2, <1>3, <1>4, <1>5 DEF TakesNext

LEMMA OpIsSaid ==
  ASSUME Legal(Script), NEW o \in IoOps, Whole(o), NEW p \in Nat, OpAt(Script, p, o)
  PROVE  OpSays(p, o)
<1>1. /\ OpBytes(o) \in Seq(Byte) /\ Len(OpBytes(o)) = 4
      /\ o.op \notin Reads => o.data \in Seq(Byte)
  BY OpBytesAre
<1>2. Width[o.op] \in {1, 2, 4}
  BY IoCallsAre
<1>3. TurnAt(Script, p, "toOut") /\ SendsAt(Script, p + 1, OpBytes(o))
  BY DEF OpAt
<1>4. ASSUME NEW i \in 0..3 PROVE NextIs(p + 1 + i, p + 2 + i, OpBytes(o)[i + 1])
  <2>1. p + 1 \in Nat /\ (p + 1) + i = p + 1 + i /\ (p + 1) + i + 1 = p + 2 + i
        /\ i \in 0..(Len(OpBytes(o)) - 1)
    BY <1>1
  <2>2. NextIs((p + 1) + i, (p + 1) + i + 1, OpBytes(o)[i + 1])
    BY <1>1, <1>3, <2>1, SendsSay
  <2>. QED
    BY <2>1, <2>2
<1>5. NextIs(p, p + 2, OpBytes(o)[1])
  <2>1. NextIs(p + 1 + 0, p + 2 + 0, OpBytes(o)[0 + 1])
    BY <1>4
  <2>2. p + 2 \in 1..Len(Script) /\ Script[p + 2] = [call |-> "send", byte |-> OpBytes(o)[1]]
    BY <2>1 DEF NextIs
  <2>3. IsTurn(p + 1)
    BY <1>3 DEF TurnAt, IsTurn, Turns, Legal, CallSeq
  <2>. QED
    BY <2>2, <2>3 DEF NextIs, After
<1>6. ASSUME o.op \notin Reads, NEW i \in 0..(Len(o.data) - 1)
      PROVE  NextIs(p + 5 + i, p + 6 + i, o.data[i + 1])
  <2>1. SendsAt(Script, p + 5, o.data) /\ o.data \in Seq(Byte)
    BY <1>1, <1>6 DEF OpAt
  <2>2. p + 5 \in Nat /\ i \in Nat /\ (p + 5) + i + 1 = p + 6 + i
    BY <2>1
  <2>3. NextIs((p + 5) + i, (p + 5) + i + 1, o.data[i + 1])
    BY <2>1, <2>2, SendsSay
  <2>. QED
    BY <2>2, <2>3
<1>7. ASSUME o.op \in Reads PROVE TakesNext(p + 5, Width[o.op])
  <2>1. TurnAt(Script, p + 5, "toIn") /\ RecvsAt(Script, (p + 5) + 1, Width[o.op])
    <3>1. (p + 5) + 1 = p + 6
      OBVIOUS
    <3>. QED
      BY <1>7, <3>1 DEF OpAt
  <2>2. p + 5 \in Nat /\ Width[o.op] \in Nat /\ Width[o.op] > 0
    BY <1>2
  <2>. QED
    BY <2>1, <2>2, TakesSay
<1>8. \A i \in 1..3 : i \in 0..3
  OBVIOUS
<1>. QED
  BY <1>4, <1>5, <1>6, <1>7, <1>8 DEF OpSays

\* The bounds, and what each call of the script is.
LEMMA ScriptSays ==
  ASSUME job.req \in Requests, Encodable(job.req)
  PROVE  /\ ScriptFor(job.req, Script) /\ Len(Script) \in Nat /\ Len(Script) >= 2
         /\ Script \in CallSeq /\ Says(job.req)
<1> DEFINE r == job.req
<1>1. ScriptFor(r, Script)
  BY ScriptIs DEF Script
<1>2. Legal(Script) /\ Script \in CallSeq /\ Len(Script) \in Nat
  BY <1>1 DEF ScriptFor, Legal, CallSeq
<1>3. r.cmd \in DOMAIN Code
  BY RequestIs
<1>4. PICK pre : pre = <<CmdPrefix, Code[r.cmd]>>
  OBVIOUS
<1>5. pre \in Seq(Byte) /\ Len(pre) = 2 /\ pre[1] = CmdPrefix /\ pre[2] = Code[r.cmd]
  BY <1>3, <1>4, CodeTypes
<1>6. SendsAt(Script, 0, pre)
  BY <1>1, <1>4 DEF ScriptFor
<1>7. ASSUME NEW p \in Nat, NEW b \in Seq(Byte), SendsAt(Script, p, b)
      PROVE  \A i \in 0..(Len(b) - 1) : NextIs(p + i, p + i + 1, b[i + 1])
  BY <1>2, <1>7, SendsSay
<1>8. NextIs(0, 1, CmdPrefix) /\ NextIs(1, 2, Code[r.cmd])
  <2>1. 0 \in 0..(Len(pre) - 1) /\ 1 \in 0..(Len(pre) - 1)
    BY <1>5
  <2>2. NextIs(0 + 0, 0 + 0 + 1, pre[0 + 1]) /\ NextIs(0 + 1, 0 + 1 + 1, pre[1 + 1])
    BY <1>5, <1>6, <1>7, <2>1
  <2>. QED
    BY <1>5, <2>2
<1>9. Len(Script) >= 2
  BY <1>5, <1>6 DEF SendsAt
<1>10. ASSUME NEW p \in Nat, NEW b \in Seq(Byte), SendsAt(Script, p, b)
       PROVE  \A i \in 0..(Len(b) - 1) : NextIs(p + i, p + 1 + i, b[i + 1])
  <2>1. \A i \in 0..(Len(b) - 1) : p + i + 1 = p + 1 + i
    OBVIOUS
  <2>. QED
    BY <1>7, <1>10, <2>1
<1>11. ASSUME r.cmd \in {"send", "recv", "jump"}
       PROVE  \A i \in 0..(Len(AddrBytes(r)) - 1) : NextIs(2 + i, 3 + i, AddrBytes(r)[i + 1])
  <2>1. AddrBytes(r) \in Seq(Byte) /\ SendsAt(Script, 2, AddrBytes(r))
    BY <1>1, <1>11, AddrBytesAre DEF ScriptFor
  <2>2. \A i \in 0..(Len(AddrBytes(r)) - 1) : NextIs(2 + i, 2 + 1 + i, AddrBytes(r)[i + 1])
    BY <1>10, <2>1
  <2>. QED
    BY <2>2
<1>12. ASSUME r.cmd = "send"
       PROVE  \A i \in 0..(Len(r.data) - 1) : NextIs(8 + i, 9 + i, r.data[i + 1])
  <2>1. r.data \in Seq(Byte) /\ SendsAt(Script, 8, r.data)
    BY <1>1, <1>12, RequestIs DEF ScriptFor
  <2>2. \A i \in 0..(Len(r.data) - 1) : NextIs(8 + i, 8 + 1 + i, r.data[i + 1])
    BY <1>10, <2>1
  <2>. QED
    BY <2>2
<1>13. ASSUME r.cmd = "recv" PROVE TakesNext(8, r.size)
  <2>1. r.size \in Nat /\ r.size > 0
    BY <1>13, RequestIs DEF Encodable
  <2>2. TurnAt(Script, 8, "toIn") /\ RecvsAt(Script, 8 + 1, r.size)
    BY <1>1, <1>13 DEF ScriptFor
  <2>. QED
    BY <1>2, <2>1, <2>2, TakesSay
<1>14. ASSUME r.cmd = "recvvram" PROVE TakesNext(2, VramBytes)
  <2>1. VramBytes \in Nat /\ VramBytes > 0
    BY <1>14, BoundsAssumption DEF Encodable
  <2>2. TurnAt(Script, 2, "toIn") /\ RecvsAt(Script, 2 + 1, VramBytes)
    BY <1>1, <1>14 DEF ScriptFor
  <2>. QED
    BY <1>2, <2>1, <2>2, TakesSay
<1>15. ASSUME r.cmd = "loadstate"
       PROVE  \A i \in 0..(Len(r.data) - 1) : NextIs(2 + i, 3 + i, r.data[i + 1])
  <2>1. r.data \in Seq(Byte) /\ SendsAt(Script, 2, r.data)
    BY <1>1, <1>15, RequestIs DEF ScriptFor
  <2>2. \A i \in 0..(Len(r.data) - 1) : NextIs(2 + i, 2 + 1 + i, r.data[i + 1])
    BY <1>10, <2>1
  <2>. QED
    BY <2>2
<1>16. ASSUME r.cmd = "io"
       PROVE  /\ \A i \in 0..1 : NextIs(2 + i, 3 + i, Tail(Bytes3(Len(r.ops)))[i + 1])
              /\ \A n \in 0..(Len(r.ops) - 1) : OpSays(Offsets(r.ops)[n], r.ops[n + 1])
  <2>1. r.ops \in Seq(IoOps) /\ Len(r.ops) \in Nat
    BY <1>16, RequestIs
  <2>2. \A i \in 1..Len(r.ops) : Whole(r.ops[i])
    BY <1>16, <2>1 DEF Encodable, Whole
  <2>3. PICK c : c = Tail(Bytes3(Len(r.ops)))
    OBVIOUS
  <2>4. c \in Seq(Byte) /\ Len(c) = 2
    BY <2>1, <2>3, Bytes3Are
  <2>5. SendsAt(Script, 2, c)
    BY <1>1, <1>16, <2>3 DEF ScriptFor
  <2>6. \A i \in 0..(Len(c) - 1) : NextIs(2 + i, 2 + 1 + i, c[i + 1])
    BY <1>10, <2>4, <2>5
  <2>7. ASSUME NEW n \in 0..(Len(r.ops) - 1) PROVE OpSays(Offsets(r.ops)[n], r.ops[n + 1])
    <3>1. n + 1 \in 1..Len(r.ops) /\ (n + 1) - 1 = n /\ n \in 0..Len(r.ops)
      BY <2>1
    <3>2. OpAt(Script, Offsets(r.ops)[n], r.ops[n + 1])
      BY <1>1, <1>16, <3>1 DEF ScriptFor
    <3>3. Offsets(r.ops) \in [0..Len(r.ops) -> Nat]
      BY <2>1, <2>2, OffsetsAre
    <3>4. Offsets(r.ops)[n] \in Nat /\ r.ops[n + 1] \in IoOps /\ Whole(r.ops[n + 1])
      BY <2>1, <2>2, <3>1, <3>3
    <3>. QED
      BY <1>2, <3>2, <3>4, OpIsSaid
  <2>8. \A i \in 0..1 : NextIs(2 + i, 3 + i, c[i + 1])
    <3>1. \A i \in 0..1 : i \in 0..(Len(c) - 1) /\ 2 + 1 + i = 3 + i
      BY <2>4
    <3>. QED
      BY <2>6, <3>1
  <2>. QED
    BY <2>3, <2>7, <2>8
<1>. QED
  BY <1>1, <1>2, <1>8, <1>9, <1>11, <1>12, <1>13, <1>14, <1>15, <1>16 DEF Says

-----------------------------------------------------------------------------
(* Where the console is, and what the PC can count on.                     *)

Live ==
  /\ Typed /\ PcPrompt /\ MdPrompt /\ job.end # "aborted"
  /\ job.req \in Requests /\ Encodable(job.req) /\ PcWire /\ MdWire /\ Story

Resting ==
  \/ md.at = "idle" /\ (Complete \/ Fresh)
  \/ md.at = "return" /\ Complete
  \/ md.at = "hang" /\ (Fresh \/ (Complete /\ job.req.cmd = "loadstate" /\ cpu.acc = job.req.data))
Asking == md.at \in {"startTh", "askLow"} /\ ~cpu.early /\ LastByte = 0 /\ Nothing
Taking ==
  /\ cpu.stage \in DownStages
  /\ \E n \in Nat, m \in Nat, b \in Byte : NextIs(n, m, b) /\ Got(n)
Giving ==
  /\ cpu.stage \in UpStages
  /\ \E n \in Nat, i \in Int, s \in Seq(Byte), had \in Seq(Byte) :
       TakesNext(n, Len(s)) /\ Len(s) > 0 /\ Gives(n, i, s, had)
Between == md.at \in {"input", "done"} /\ cpu.stage = "ioNext"

\* What a read operation gives, and how far the operations have come.
LEMMA OpsAre ==
  ASSUME Live, job.req.cmd = "io", NEW n \in 0..Len(job.req.ops)
  PROVE  /\ job.req.ops \in Seq(IoOps) /\ Len(job.req.ops) \in Nat
         /\ Offsets(job.req.ops)[n] \in Nat
         /\ Results(job.req.ops, before)[n] \in Machine
         /\ n < Len(job.req.ops) =>
              LET o == job.req.ops[n + 1] IN
              /\ o \in IoOps /\ Whole(o) /\ Width[o.op] \in {1, 2, 4} /\ o.op \in DOMAIN IoCode
              /\ o.addr \in Nat /\ o.addr < 16777216
              /\ OpBytes(o) \in Seq(Byte) /\ Len(OpBytes(o)) = 4
              /\ OpBytes(o)[1] = IoCode[o.op] /\ Tail(OpBytes(o)) = Bytes3(o.addr)
              /\ o.op \notin Reads => o.data \in Seq(Byte) /\ Len(o.data) = Width[o.op]
              /\ OpSays(Offsets(job.req.ops)[n], o)
              /\ Offsets(job.req.ops)[n + 1] = Offsets(job.req.ops)[n] + OpLen(o)
              /\ Results(job.req.ops, before)[n + 1] = IoResult(Results(job.req.ops, before)[n], o)
<1> DEFINE ops == job.req.ops
<1>1. job.req \in Requests /\ Encodable(job.req) /\ before \in [Addr -> Byte]
  BY DEF Live, Typed, TransferTypeOK
<1>2. ops \in Seq(IoOps) /\ Len(ops) \in Nat
  BY <1>1, RequestIs
<1>3. \A i \in 1..Len(ops) : Whole(ops[i]) /\ ops[i].addr < 16777216
  BY <1>1, <1>2 DEF Encodable, Whole
<1>4. /\ Offsets(ops) \in [0..Len(ops) -> Nat]
      /\ \A k \in 1..Len(ops) : Offsets(ops)[k] = Offsets(ops)[k - 1] + OpLen(ops[k])
  BY <1>2, <1>3, OffsetsAre
<1>5. /\ Results(ops, before) \in [0..Len(ops) -> Machine]
      /\ \A k \in 1..Len(ops) :
           Results(ops, before)[k] = IoResult(Results(ops, before)[k - 1], ops[k])
  BY <1>1, <1>2, ResultsAre
<1>6. Says(job.req)
  BY <1>1, ScriptSays
<1>7. ASSUME n < Len(ops)
      PROVE  LET o == ops[n + 1] IN
              /\ o \in IoOps /\ Whole(o) /\ Width[o.op] \in {1, 2, 4} /\ o.op \in DOMAIN IoCode
              /\ o.addr \in Nat /\ o.addr < 16777216
              /\ OpBytes(o) \in Seq(Byte) /\ Len(OpBytes(o)) = 4
              /\ OpBytes(o)[1] = IoCode[o.op] /\ Tail(OpBytes(o)) = Bytes3(o.addr)
              /\ o.op \notin Reads => o.data \in Seq(Byte) /\ Len(o.data) = Width[o.op]
              /\ OpSays(Offsets(ops)[n], o)
              /\ Offsets(ops)[n + 1] = Offsets(ops)[n] + OpLen(o)
              /\ Results(ops, before)[n + 1] = IoResult(Results(ops, before)[n], o)
  <2>1. PICK o : o = ops[n + 1]
    OBVIOUS
  <2>2. n + 1 \in 1..Len(ops) /\ (n + 1) - 1 = n /\ n \in 0..(Len(ops) - 1)
    BY <1>2, <1>7
  <2>3. o \in IoOps /\ Whole(o) /\ o.addr < 16777216
    BY <1>2, <1>3, <2>1, <2>2
  <2>4. /\ o.op \in DOMAIN IoCode /\ o.addr \in Nat
        /\ OpBytes(o) \in Seq(Byte) /\ Len(OpBytes(o)) = 4
        /\ OpBytes(o)[1] = IoCode[o.op] /\ Tail(OpBytes(o)) = Bytes3(o.addr)
        /\ o.op \notin Reads => o.data \in Seq(Byte)
    BY <2>3, OpBytesAre
  <2>5. Width[o.op] \in {1, 2, 4}
    BY <2>3, IoCallsAre
  <2>6. OpSays(Offsets(ops)[n], o)
    BY <1>6, <2>1, <2>2 DEF Says
  <2>7. /\ Offsets(ops)[n + 1] = Offsets(ops)[n] + OpLen(o)
        /\ Results(ops, before)[n + 1] = IoResult(Results(ops, before)[n], o)
    BY <1>4, <1>5, <2>1, <2>2
  <2>. QED
    BY <2>1, <2>3, <2>4, <2>5, <2>6, <2>7 DEF Whole
<1>. QED
  BY <1>2, <1>4, <1>5, <1>7

\* What Encodable says of them: as many as md_cmd's signed counter can hold,
\* words and longs at even addresses.
LEMMA OpsAreFew ==
  ASSUME Live, job.req.cmd = "io"
  PROVE  Len(job.req.ops) \in Nat /\ Len(job.req.ops) <= 32768
<1>1. job.req \in Requests /\ Encodable(job.req)
  BY DEF Live, Typed, TransferTypeOK
<1>2. job.req.ops \in Seq(IoOps) /\ Len(job.req.ops) \in Nat
  BY <1>1, RequestIs
<1>. QED
  BY <1>1, <1>2 DEF Encodable

LEMMA OpIsEven ==
  ASSUME Live, job.req.cmd = "io", NEW n \in 0..Len(job.req.ops), n < Len(job.req.ops),
         Width[job.req.ops[n + 1].op] > 1
  PROVE  ~IsOdd(job.req.ops[n + 1].addr)
<1>1. job.req \in Requests /\ Encodable(job.req)
  BY DEF Live, Typed, TransferTypeOK
<1>2. job.req.ops \in Seq(IoOps) /\ Len(job.req.ops) \in Nat
  BY <1>1, RequestIs
<1>3. n + 1 \in DOMAIN job.req.ops
  BY <1>2
<1>4. job.req.ops[n + 1].addr % 2 = 0
  BY <1>1, <1>3 DEF Encodable
<1>. QED
  BY <1>4 DEF IsOdd

LEMMA GotSays ==
  ASSUME Live, InPrefix \/ InCmd \/ InArgs \/ InSend \/ InLoad \/ InCount \/ InOp \/ InWrite
  PROVE  Taking
<1>1. job.req \in Requests /\ Encodable(job.req) /\ cpu.acc \in Seq(Byte)
  BY DEF Live, Typed, TransferTypeOK
<1>2. Says(job.req) /\ Script \in CallSeq
  BY <1>1, ScriptSays
<1>3. ASSUME NEW n \in Nat, NEW m, NEW b, NextIs(n, m, b), Got(n), cpu.stage \in DownStages
      PROVE  Taking
  <2>1. m \in 1..Len(Script) /\ Script[m] = [call |-> "send", byte |-> b] /\ Len(Script) \in Nat
    BY <1>2, <1>3 DEF NextIs, CallSeq
  <2>2. Script[m] \in CallSet
    BY <1>2, <2>1 DEF CallSeq
  <2>3. b \in Byte
    BY <2>1, <2>2 DEF CallSet
  <2>4. m \in Nat
    BY <2>1
  <2>. QED
    BY <1>3, <2>3, <2>4 DEF Taking
<1>4. CASE InPrefix
  BY <1>2, <1>3, <1>4 DEF InPrefix, DownStages, Says
<1>5. CASE InCmd
  BY <1>2, <1>3, <1>5 DEF InCmd, DownStages, Says
<1>6. Len(cpu.acc) \in Nat
  BY <1>1
<1>7. CASE InArgs
  <2>1. PICK i \in Nat : i = Len(cpu.acc)
    BY <1>6
  <2>2. /\ cpu.stage = "args" /\ i < Len(AddrBytes(job.req)) /\ Got(2 + i)
        /\ job.req.cmd \in {"send", "recv", "jump"}
    BY <1>7, <2>1 DEF InArgs
  <2>3. Len(AddrBytes(job.req)) \in Nat
    BY <1>1, <2>2, AddrBytesAre
  <2>4. i \in 0..(Len(AddrBytes(job.req)) - 1)
    BY <2>2, <2>3
  <2>5. NextIs(2 + i, 3 + i, AddrBytes(job.req)[i + 1])
    BY <1>2, <2>2, <2>4 DEF Says
  <2>6. 2 + i \in Nat /\ cpu.stage \in DownStages
    BY <2>2 DEF DownStages
  <2>. QED
    BY <1>3, <2>2, <2>5, <2>6
<1>8. CASE InSend
  <2>1. PICK i : i = cpu.addr - job.req.addr
    OBVIOUS
  <2>2. /\ cpu.stage = "send" /\ job.req.cmd = "send" /\ i \in 0..(Len(job.req.data) - 1)
        /\ Got(8 + i)
    BY <1>8, <2>1 DEF InSend
  <2>3. NextIs(8 + i, 9 + i, job.req.data[i + 1])
    BY <1>2, <2>2 DEF Says
  <2>4. 8 + i \in Nat /\ cpu.stage \in DownStages
    BY <2>2 DEF DownStages
  <2>. QED
    BY <1>3, <2>2, <2>3, <2>4
<1>9. CASE InLoad
  <2>1. PICK i \in Nat : i = Len(cpu.acc)
    BY <1>6
  <2>2. /\ cpu.stage = "load" /\ job.req.cmd = "loadstate" /\ i < Len(job.req.data) /\ Got(2 + i)
    BY <1>9, <2>1 DEF InLoad
  <2>3. Len(job.req.data) \in Nat
    BY <1>1, <2>2, RequestIs
  <2>4. i \in 0..(Len(job.req.data) - 1)
    BY <2>2, <2>3
  <2>5. NextIs(2 + i, 3 + i, job.req.data[i + 1])
    BY <1>2, <2>2, <2>4 DEF Says
  <2>6. 2 + i \in Nat /\ cpu.stage \in DownStages
    BY <2>2 DEF DownStages
  <2>. QED
    BY <1>3, <2>2, <2>5, <2>6
<1>10. CASE InCount
  <2>1. PICK i \in Nat : i = Len(cpu.acc)
    BY <1>6
  <2>2. cpu.stage = "count" /\ job.req.cmd = "io" /\ i < 2 /\ Got(2 + i)
    BY <1>10, <2>1 DEF InCount
  <2>3. NextIs(2 + i, 3 + i, Tail(Bytes3(Len(job.req.ops)))[i + 1])
    <3>1. i \in 0..1
      BY <2>2
    <3>. QED
      BY <1>2, <2>2, <3>1 DEF Says
  <2>4. 2 + i \in Nat /\ cpu.stage \in DownStages
    BY <2>2 DEF DownStages
  <2>. QED
    BY <1>3, <2>2, <2>3, <2>4
<1>11. CASE InOp
  <2>1. PICK i \in Nat : i = Len(cpu.acc)
    BY <1>6
  <2>2. PICK n : n = Len(job.req.ops) - cpu.left - 1
    OBVIOUS
  <2>3. /\ cpu.stage = "ioOp" /\ job.req.cmd = "io" /\ n \in 0..Len(job.req.ops)
        /\ n < Len(job.req.ops) /\ i < 4
        /\ Got(Offsets(job.req.ops)[n] + (IF i = 0 THEN 0 ELSE 1 + i))
    BY <1>11, <2>1, <2>2 DEF InOp, OpsDoneAll, OpsDone
  <2>4. PICK f \in Nat : f = Offsets(job.req.ops)[n]
    BY <2>3, OpsAre
  <2>5. OpSays(f, job.req.ops[n + 1])
    BY <2>3, <2>4, OpsAre
  <2>6. cpu.stage \in DownStages
    BY <2>3 DEF DownStages
  <2>7. CASE i = 0
    <3>1. Got(f) /\ NextIs(f, f + 2, OpBytes(job.req.ops[n + 1])[1])
      BY <2>3, <2>4, <2>5, <2>7 DEF OpSays
    <3>. QED
      BY <1>3, <2>6, <3>1
  <2>8. CASE i # 0
    <3>1. i \in 1..3 /\ f + (1 + i) = f + 1 + i /\ f + 1 + i \in Nat
      BY <2>3, <2>8
    <3>2. Got(f + 1 + i)
      BY <2>3, <2>4, <2>8, <3>1
    <3>3. NextIs(f + 1 + i, f + 2 + i, OpBytes(job.req.ops[n + 1])[i + 1])
      BY <2>5, <3>1 DEF OpSays
    <3>. QED
      BY <1>3, <2>6, <3>1, <3>2, <3>3
  <2>. QED
    BY <2>7, <2>8
<1>12. CASE InWrite
  <2>1. PICK i \in Nat : i = Len(cpu.acc)
    BY <1>6
  <2>2. PICK n : n = Len(job.req.ops) - cpu.left - 1
    OBVIOUS
  <2>3. /\ cpu.stage = "ioWrite" /\ job.req.cmd = "io" /\ n \in 0..Len(job.req.ops)
        /\ n < Len(job.req.ops) /\ i < Len(job.req.ops[n + 1].data)
        /\ job.req.ops[n + 1].op \notin Reads
        /\ Got(Offsets(job.req.ops)[n] + 5 + i)
    BY <1>12, <2>1, <2>2 DEF InWrite, OpsDoneAll, OpsDone
  <2>4. PICK f \in Nat : f = Offsets(job.req.ops)[n]
    BY <2>3, OpsAre
  <2>5. PICK o : o = job.req.ops[n + 1]
    OBVIOUS
  <2>6. OpSays(f, o) /\ Len(o.data) = Width[o.op] /\ Width[o.op] \in {1, 2, 4}
    BY <2>3, <2>4, <2>5, OpsAre
  <2>7. i \in 0..(Len(o.data) - 1)
    BY <2>3, <2>5, <2>6, SMTT(30)
  <2>8. NextIs(f + 5 + i, f + 6 + i, o.data[i + 1])
    BY <2>3, <2>5, <2>6, <2>7 DEF OpSays
  <2>9. f + 5 + i \in Nat /\ cpu.stage \in DownStages
    BY <2>3 DEF DownStages
  <2>. QED
    BY <1>3, <2>3, <2>4, <2>8, <2>9
<1>. QED
  BY <1>4, <1>5, <1>7, <1>8, <1>9, <1>10, <1>11, <1>12

LEMMA GivesSays ==
  ASSUME Live, InRecv \/ InVram \/ InRead \/ InGive
  PROVE  Giving
<1>1. /\ job.req \in Requests /\ Encodable(job.req) /\ cpu.acc \in Seq(Byte) /\ cpu.addr \in Int
      /\ before \in [Addr -> Byte] /\ ram \in [Addr -> Byte]
  BY DEF Live, Typed, TransferTypeOK
<1>2. Says(job.req)
  BY <1>1, ScriptSays
<1>0. <<>> \in Seq(Byte)
  OBVIOUS
<1>3. CASE InRecv
  <2>1. PICK i : i = cpu.addr - job.req.addr
    OBVIOUS
  <2>2. PICK s : s = PeekN(before, job.req.addr, job.req.size)
    OBVIOUS
  <2>3. cpu.stage \in UpStages /\ job.req.cmd = "recv" /\ Gives(8, i, s, <<>>)
    BY <1>3, <2>1, <2>2 DEF InRecv, UpStages
  <2>4. job.req.addr \in Nat /\ job.req.size \in Nat /\ job.req.size > 0
    BY <1>1, <2>3, RequestIs DEF Encodable
  <2>5. s \in Seq(Byte) /\ Len(s) = job.req.size
    BY <1>1, <2>2, <2>4, PeekNAre
  <2>6. TakesNext(8, Len(s)) /\ i \in Int
    BY <1>1, <1>2, <2>1, <2>3, <2>4, <2>5 DEF Says
  <2>. QED
    BY <1>0, <2>3, <2>4, <2>5, <2>6 DEF Giving
<1>4. CASE InVram
  <2>1. PICK s : s = [k \in 1..VramBytes |-> VramByte(k - 1)]
    OBVIOUS
  <2>2. cpu.stage \in UpStages /\ job.req.cmd = "recvvram" /\ Gives(2, cpu.addr, s, <<>>)
    BY <1>4, <2>1 DEF InVram, UpStages
  <2>3. VramBytes \in Nat /\ VramBytes > 0
    BY <1>1, <2>2, BoundsAssumption DEF Encodable
  <2>4. s \in Seq(Byte) /\ Len(s) = VramBytes
    BY <2>1, <2>3, VramBytesAre
  <2>5. TakesNext(2, Len(s))
    BY <1>2, <2>2, <2>4 DEF Says
  <2>. QED
    BY <1>0, <1>1, <2>2, <2>3, <2>4, <2>5 DEF Giving
<1>5. ASSUME job.req.cmd = "io", NEW n, n \in 0..Len(job.req.ops), n < Len(job.req.ops),
             job.req.ops[n + 1].op \in Reads, NEW i \in Int, cpu.stage \in UpStages,
             Gives(Offsets(job.req.ops)[n] + 5, i,
                   PeekN(ram, job.req.ops[n + 1].addr, Width[job.req.ops[n + 1].op]),
                   OpsRd(n))
      PROVE  Giving
  <2>1. PICK o : o = job.req.ops[n + 1]
    OBVIOUS
  <2>2. PICK f : f = Offsets(job.req.ops)[n]
    OBVIOUS
  <2>3. PICK s : s = PeekN(ram, o.addr, Width[o.op])
    OBVIOUS
  <2>4. f \in Nat /\ OpSays(f, o) /\ Width[o.op] \in {1, 2, 4}
    BY <1>5, <2>1, <2>2, OpsAre, SMTT(30)
  <2>5. s \in Seq(Byte) /\ Len(s) = Width[o.op]
    BY <1>1, <2>3, <2>4, PeekNAre
  <2>6. TakesNext(f + 5, Len(s)) /\ f + 5 \in Nat
    BY <1>5, <2>1, <2>4, <2>5 DEF OpSays
  <2>7. OpsRd(n) \in Seq(Byte)
    <3>1. Results(job.req.ops, before)[n] \in Machine
      BY <1>5, OpsAre
    <3>. QED
      BY <3>1 DEF OpsRd, Machine
  <2>8. Gives(f + 5, i, s, OpsRd(n)) /\ Len(s) > 0
    BY <1>5, <2>1, <2>2, <2>3, <2>4, <2>5, SMTT(30)
  <2>. QED
    BY <1>5, <2>5, <2>6, <2>7, <2>8 DEF Giving
<1>6. CASE InRead
  <2>1. PICK n : n = Len(job.req.ops) - cpu.left - 1
    OBVIOUS
  <2>2. /\ job.req.cmd = "io" /\ n \in 0..Len(job.req.ops) /\ n < Len(job.req.ops)
        /\ job.req.ops[n + 1].op \in Reads /\ cpu.stage \in UpStages
        /\ Gives(Offsets(job.req.ops)[n] + 5, 0,
                 PeekN(ram, job.req.ops[n + 1].addr, Width[job.req.ops[n + 1].op]), OpsRd(n))
    BY <1>6, <2>1 DEF InRead, OpsDone, UpStages
  <2>. QED
    BY <1>5, <2>2
<1>7. CASE InGive
  <2>1. PICK n : n = Len(job.req.ops) - cpu.left - 1
    OBVIOUS
  <2>2. PICK i : i = Width[job.req.ops[n + 1].op] - Len(cpu.acc)
    OBVIOUS
  <2>3. /\ job.req.cmd = "io" /\ n \in 0..Len(job.req.ops) /\ n < Len(job.req.ops)
        /\ job.req.ops[n + 1].op \in Reads /\ cpu.stage \in UpStages
        /\ Gives(Offsets(job.req.ops)[n] + 5, i,
                 PeekN(ram, job.req.ops[n + 1].addr, Width[job.req.ops[n + 1].op]), OpsRd(n))
    BY <1>7, <2>1, <2>2, Zenon DEF InGive, OpsDone, UpStages
  <2>4. Width[job.req.ops[n + 1].op] \in {1, 2, 4}
    BY <2>3, OpsAre
  <2>5. i \in Int
    BY <1>1, <2>2, <2>4
  <2>. QED
    BY <1>5, <2>3, <2>5, SMTT(30)
<1>. QED
  BY <1>3, <1>4, <1>6, <1>7

\* Every state of the story is one of these.
LEMMA Phases ==
  ASSUME Live PROVE Resting \/ Asking \/ Taking \/ Between \/ Giving
<1>1. CASE InPrefix \/ InCmd \/ InArgs \/ InSend \/ InLoad \/ InCount \/ InOp \/ InWrite
  BY <1>1, GotSays
<1>2. CASE InRecv \/ InVram \/ InRead \/ InGive
  BY <1>2, GivesSays
<1>3. CASE InNext
  BY <1>3 DEF InNext, Between
<1>. QED
  BY <1>1, <1>2, <1>3 DEF Live, Story, Resting, Asking

\* How many of the PC's calls are done.
LEMMA Counts ==
  ASSUME Live
  PROVE  /\ Script \in CallSeq /\ Len(Script) \in Nat /\ Len(Script) >= 2 /\ Legal(Script)
         /\ Len(job.calls) \in Nat /\ Started \in 0..Len(Script)
         /\ Taken \in Int /\ Taken <= Started /\ LastByte \in Int
<1>1. job.req \in Requests /\ Encodable(job.req)
  BY DEF Live
<1>2. ScriptFor(job.req, Script) /\ Script \in CallSeq /\ Len(Script) \in Nat /\ Len(Script) >= 2
  BY <1>1, ScriptSays
<1>3. Len(job.calls) \in Nat /\ Len(job.calls) <= Len(Script)
  BY DEF Live, Typed, HandInv, JobShape, CallSeq, PcWire
<1>4. Started \in 0..Len(Script)
  BY <1>2, <1>3 DEF Started
<1>5. Taken \in Int /\ Taken <= Started
  BY <1>4 DEF Taken
<1>6. LastByte \in Int
  BY <1>5 DEF LastByte
<1>. QED
  BY <1>2, <1>3, <1>4, <1>5, <1>6 DEF ScriptFor

\* The console's next byte is the PC's next call that is no turn.
LEMMA Pending ==
  ASSUME Live, Taken + 1 \in 1..Len(Script), Script[Taken + 1].call \notin Turns
  PROVE  After(LastByte) = Taken + 1
<1>1. Taken \in Int /\ Len(Script) \in Nat
  BY Counts
<1>2. ~IsTurn(Taken + 1)
  BY DEF IsTurn
<1>3. CASE IsTurn(Taken)
  <2>1. LastByte = Taken - 1 /\ (Taken - 1) + 1 = Taken /\ (Taken - 1) + 2 = Taken + 1
    BY <1>1, <1>3 DEF LastByte
  <2>. QED
    BY <1>3, <2>1 DEF After
<1>4. CASE ~IsTurn(Taken)
  BY <1>2, <1>4 DEF LastByte, After
<1>. QED
  BY <1>3, <1>4

\* A byte the PC is sending or taking is the console's next one.
LEMMA PcTakes ==
  ASSUME Live, pc.at \in TakePoints \/ (pc.at = "recvHigh" /\ TH = 0)
  PROVE  /\ Started \in 1..Len(Script) /\ Script[Started].call = "recv"
         /\ Taken = Started - 1 /\ After(LastByte) = Started
<1>1. Started > 0 /\ Script[Started].call = "recv"
  BY DEF Live, PcWire, TakePoints
<1>2. Started \in 1..Len(Script)
  BY <1>1, Counts
<1>3. ~InFlight
  BY DEF Live, MdWire, TakePoints
<1>4. UnderWay
  BY DEF UnderWay
<1>5. Taken = Started - 1
  BY <1>2, <1>3, <1>4 DEF Taken
<1>6. Taken + 1 = Started
  BY <1>2, <1>5
<1>7. Script[Taken + 1].call \notin Turns
  BY <1>1, <1>6 DEF Turns
<1>. QED
  BY <1>1, <1>2, <1>5, <1>6, <1>7, Pending

LEMMA PcSends ==
  ASSUME Live, pc.at \in {"sendTlLow", "sendHigh", "sendTlHigh"}
  PROVE  /\ Started \in 1..Len(Script) /\ Script[Started] = [call |-> "send", byte |-> pc.byte]
         /\ Taken = Started - 1 /\ After(LastByte) = Started
<1>1. Started > 0 /\ Script[Started] = [call |-> "send", byte |-> pc.byte]
  BY DEF Live, PcWire, SendPoints
<1>2. Started \in 1..Len(Script)
  BY <1>1, Counts
<1>3. ~InFlight
  BY DEF Live, MdWire
<1>4. UnderWay
  BY DEF UnderWay, SendPoints
<1>5. Taken = Started - 1
  BY <1>2, <1>3, <1>4 DEF Taken
<1>6. Taken + 1 = Started
  BY <1>2, <1>5
<1>7. Script[Taken + 1].call \notin Turns
  BY <1>1, <1>6 DEF Turns
<1>. QED
  BY <1>1, <1>2, <1>5, <1>6, <1>7, Pending

LEMMA TakingIs ==
  ASSUME Live, Taking
  PROVE  /\ md.at \in RecvPoints \cup {"done"}
         /\ Waits => After(LastByte) \in 1..Len(Script) /\ Script[After(LastByte)].call = "send"
<1>1. PICK n \in Nat, m \in Nat, b \in Byte : NextIs(n, m, b) /\ Got(n)
  BY DEF Taking
<1>2. Waits => LastByte = n
  BY <1>1 DEF Got, Waits, Has
<1>3. md.at \in RecvPoints \cup {"done"}
  BY <1>1 DEF Got, Waits, Has, RecvPoints
<1>. QED
  BY <1>1, <1>2, <1>3 DEF NextIs

LEMMA GivingIs ==
  ASSUME Live, Giving
  PROVE  /\ md.at \in TurnPoints \cup GivePoints \cup {"done"}
         /\ md.at \in TurnPoints \cup GivePoints =>
              After(LastByte) \in 1..Len(Script) /\ Script[After(LastByte)].call = "recv"
<1>1. PICK n \in Nat, i \in Int, s \in Seq(Byte), had \in Seq(Byte) :
        TakesNext(n, Len(s)) /\ Len(s) > 0 /\ Gives(n, i, s, had)
  BY DEF Giving
<1>2. md.at \in TurnPoints \cup GivePoints \cup {"done"}
  BY <1>1 DEF Gives
<1>3. ASSUME md.at \in TurnPoints \cup GivePoints
      PROVE  After(LastByte) \in 1..Len(Script) /\ Script[After(LastByte)].call = "recv"
  <2>1. /\ n + 1 + Len(s) <= Len(Script) /\ After(n) = n + 2
        /\ \A k \in 1..Len(s) : Script[n + 1 + k].call = "recv"
        /\ \A k \in 2..Len(s) : After(n + k) = n + 1 + k
    BY <1>1 DEF TakesNext
  <2>2. Len(Script) \in Nat /\ Len(s) \in Nat
    BY Counts
  <2>3. CASE LastByte = n
    <3>1. 1 \in 1..Len(s) /\ n + 1 + 1 = n + 2 /\ n + 2 \in 1..Len(Script)
      BY <1>1, <2>1, <2>2
    <3>. QED
      BY <2>1, <2>3, <3>1
  <2>4. CASE LastByte # n
    <3>1. i \in 2..Len(s) /\ LastByte = n + i
      BY <1>1, <1>3, <2>4 DEF Gives, TurnPoints, GivePoints
    <3>2. i \in 1..Len(s) /\ n + 1 + i \in 1..Len(Script)
      BY <2>1, <2>2, <3>1
    <3>. QED
      BY <2>1, <3>1, <3>2
  <2>. QED
    BY <2>3, <2>4
<1>. QED
  BY <1>2, <1>3

-----------------------------------------------------------------------------
(* A step of the PC leaves the console's part of the story as it is.       *)

LEMMA StoryKept ==
  ASSUME Story, UNCHANGED <<md, cpu, ram, before>>, job'.req = job.req,
         LastByte' = LastByte, Arrived' = Arrived, Fresh' = Fresh \/ md.at \in {"startTh", "askLow"}
  PROVE  Story'
<1>1. Script' = Script
  BY DEF Script
<1>2. \A n : After(n)' = After(n)
  BY <1>1 DEF After, IsTurn
<1>3. \A n : Got(n)' = Got(n)
  BY <1>1, <1>2 DEF Got, Waits, Has
<1>4. Nothing' = Nothing /\ Complete' = Complete
  BY <1>1 DEF Nothing, Complete
<1>5. ASSUME NEW n, NEW i, NEW s, NEW had PROVE Gives(n, i, s, had)' = Gives(n, i, s, had)
  <2>1. After(IF i = 1 THEN n ELSE n + i)' = After(IF i = 1 THEN n ELSE n + i)
    BY <1>1 DEF After, IsTurn
  <2>. QED
    BY <2>1 DEF Gives
<1>6. \A n : OpsDone(n)' = OpsDone(n) /\ OpsRd(n)' = OpsRd(n) /\ OpsDoneAll(n)' = OpsDoneAll(n)
  BY DEF OpsDone, OpsRd, OpsDoneAll
<1>7. InPrefix' = InPrefix /\ InCmd' = InCmd /\ InArgs' = InArgs /\ InSend' = InSend
  BY <1>3, <1>4 DEF InPrefix, InCmd, InArgs, InSend
<1>8. InRecv' = InRecv /\ InVram' = InVram
  BY <1>5 DEF InRecv, InVram
<1>9. InLoad' = InLoad /\ InCount' = InCount
  BY <1>3, <1>4 DEF InLoad, InCount
<1>10. InNext' = InNext /\ InOp' = InOp /\ InWrite' = InWrite
  BY <1>3, <1>6 DEF InNext, InOp, InWrite
<1>11. InRead' = InRead /\ InGive' = InGive
  BY <1>5, <1>6, Zenon DEF InRead, InGive
<1>12. CASE /\ md.at \in MdPoints \ {"idle", "return", "hang", "startTh", "askLow", "boot"}
            /\ \/ InPrefix \/ InCmd \/ InArgs \/ InSend \/ InRecv \/ InVram \/ InLoad
               \/ InCount \/ InNext \/ InOp \/ InWrite \/ InRead \/ InGive
  BY <1>7, <1>8, <1>9, <1>10, <1>11, <1>12 DEF Story
<1>13. CASE \/ md.at = "idle" /\ (Complete \/ Fresh)
            \/ md.at = "return" /\ Complete
            \/ /\ md.at = "hang"
               /\ Fresh \/ (Complete /\ job.req.cmd = "loadstate" /\ cpu.acc = job.req.data)
            \/ md.at \in {"startTh", "askLow"} /\ ~cpu.early /\ LastByte = 0 /\ Nothing
  BY <1>4, <1>13 DEF Story
<1>. QED
  BY <1>12, <1>13 DEF Story

\* What is left to show of a step of the PC.
LEMMA PcKeepsLive ==
  ASSUME Live, Typed', UNCHANGED <<md, cpu, ram, before>>, job'.req = job.req,
         job'.end # "aborted", LastByte' = LastByte, Arrived' = Arrived,
         Fresh' = Fresh \/ md.at \in {"startTh", "askLow"}, PcWire', MdWire'
  PROVE  Live'
<1>1. Story'
  BY StoryKept DEF Live
<1>2. Encodable(job.req)'
  BY DEF Live, Encodable
<1>. QED
  BY <1>1, <1>2 DEF Live

\* "send" and "loadstate" only send.
LEMMA OnlySends ==
  ASSUME Live, job.req.cmd \in {"send", "loadstate"}, NEW k \in 1..Len(Script)
  PROVE  Script[k].call = "send"
<1>1. job.req \in Requests /\ Encodable(job.req)
  BY DEF Live
<1>2. ScriptFor(job.req, Script) /\ Says(job.req) /\ Len(Script) \in Nat
  BY <1>1, ScriptSays
<1>3. \A n, m, b : NextIs(n, m, b) => Script[m].call = "send"
  BY DEF NextIs
<1>4. Script[1].call = "send" /\ Script[2].call = "send"
  BY <1>2, <1>3 DEF Says
<1>5. job.req.data \in Seq(Byte) /\ Len(job.req.data) \in Nat
  BY <1>1, RequestIs
<1>6. CASE job.req.cmd = "loadstate"
  <2>1. Len(Script) = 2 + Len(job.req.data)
    BY <1>2, <1>6 DEF ScriptFor
  <2>2. CASE k > 2
    <3>1. k - 3 \in 0..(Len(job.req.data) - 1) /\ 3 + (k - 3) = k
      BY <1>2, <1>5, <2>1, <2>2
    <3>2. NextIs(2 + (k - 3), 3 + (k - 3), job.req.data[(k - 3) + 1])
      BY <1>2, <1>6, <3>1 DEF Says
    <3>. QED
      BY <1>3, <3>1, <3>2
  <2>. QED
    BY <1>4, <2>2
<1>7. CASE job.req.cmd = "send"
  <2>1. Len(Script) = 8 + Len(job.req.data)
    BY <1>2, <1>7 DEF ScriptFor
  <2>2. Len(AddrBytes(job.req)) = 6
    BY <1>1, <1>7, AddrBytesAre
  <2>3. CASE k \in 3..8
    <3>1. k - 3 \in 0..(Len(AddrBytes(job.req)) - 1) /\ 3 + (k - 3) = k
      BY <2>2, <2>3
    <3>2. NextIs(2 + (k - 3), 3 + (k - 3), AddrBytes(job.req)[(k - 3) + 1])
      BY <1>2, <1>7, <3>1 DEF Says
    <3>. QED
      BY <1>3, <3>1, <3>2
  <2>4. CASE k > 8
    <3>1. k - 9 \in 0..(Len(job.req.data) - 1) /\ 9 + (k - 9) = k
      BY <1>2, <1>5, <2>1, <2>4
    <3>2. NextIs(8 + (k - 9), 9 + (k - 9), job.req.data[(k - 9) + 1])
      BY <1>2, <1>7, <3>1 DEF Says
    <3>. QED
      BY <1>3, <3>1, <3>2
  <2>. QED
    BY <1>4, <2>3, <2>4
<1>. QED
  BY <1>6, <1>7

\* TH is low under a PC that waits for a byte only when the console drives one.
LEMMA LowIsDriven ==
  ASSUME Live, pc.at = "recvLow", TH = 0 PROVE md.dir = "data"
<1>1. /\ Started \in 1..Len(Script) /\ Script[Started].call = "recv"
      /\ Taken = Started - 1 /\ After(LastByte) = Started
  BY PcTakes DEF TakePoints
<1>2. md.dir # "in" /\ md.th = 0
  BY DEF TH
<1>3. MdLines /\ MdShape /\ Len(Script) \in Nat
  BY Counts DEF Live, Typed, HandInv
<1>4. CASE Resting
  <2>1. LastByte <= Taken
    BY <1>1 DEF LastByte
  <2>2. ~Complete /\ ~Fresh
    BY <1>1, <1>3, <2>1 DEF Complete, Fresh
  <2>. QED
    BY <1>4, <2>2 DEF Resting
<1>5. CASE Asking
  <2>1. NextIs(0, 1, CmdPrefix)
    BY ScriptSays DEF Live, Says
  <2>. QED
    BY <1>1, <1>5, <2>1 DEF Asking, NextIs
<1>6. CASE Taking
  <2>1. md.at \in RecvPoints \cup {"done"} /\ ~Waits
    BY <1>1, <1>6, TakingIs
  <2>2. md.at = "done"
    BY <1>2, <1>3, <2>1 DEF RecvPoints, Waits, MdLines
  <2>3. cpu.stage \in {"send", "load"}
    BY <1>2, <1>3, <2>2, SMTT(30) DEF MdLines, NextStages
  <2>4. job.req.cmd \in {"send", "loadstate"}
    BY <2>2, <2>3, Zenon DEF Live, Story, InPrefix, InCmd, InArgs, InSend, InRecv, InVram, InLoad, InCount,
                      InNext, InOp, InWrite, InRead, InGive
  <2>. QED
    BY <1>1, <2>4, OnlySends
<1>7. CASE Between
  BY <1>2, <1>3, <1>7 DEF Between, MdLines, NextStages
<1>8. CASE Giving
  <2>1. md.at \in TurnPoints \cup GivePoints \cup {"done"} /\ cpu.stage \in UpStages
    BY <1>8, GivingIs DEF Giving
  <2>. QED
    BY <1>2, <1>3, <2>1 DEF TurnPoints, GivePoints, UpStages, DownStages, MdLines, NextStages
<1>. QED
  BY <1>4, <1>5, <1>6, <1>7, <1>8, Phases

LEMMA PcPrimLive ==
  ASSUME Live, Typed', PcPrim
  PROVE  Live'
<1>1. UNCHANGED <<md, cpu, ram, jumps, job, before, used>>
  BY DEF PcPrim, mdHas
<1>2. Script' = Script /\ Started' = Started
  BY <1>1 DEF Script, Started
<1>3. PcShape /\ PcLines /\ MdLines /\ Joint /\ MdShape
  BY DEF Live, Typed, HandInv
<1>4. PcWire /\ MdWire /\ PcPrompt /\ MdPrompt
  BY DEF Live
<1>5. Script \in CallSeq /\ Started \in 0..Len(Script) /\ Len(Script) \in Nat
  BY Counts
<1>6. SUFFICES ASSUME PcPrimitive
               PROVE  /\ LastByte' = LastByte /\ Arrived' = Arrived
                      /\ PcWire' /\ MdWire' /\ Fresh' = Fresh
  <2>2. job'.req = job.req /\ job'.end # "aborted" /\ PcPrimitive
    BY <1>1 DEF Live, PcPrim
  <2>. QED
    BY <1>1, <2>2, PcKeepsLive
<1>a. Taken' = Taken => LastByte' = LastByte
  BY <1>2 DEF LastByte, IsTurn
<1>7. CASE PcSendWaitLow
  <2>1. /\ pc.at = "sendLow" /\ TH = 0 /\ pc'.at = "sendTlLow" /\ pc'.data = Low(pc.byte)
        /\ pc'.byte = pc.byte /\ pc'.tl = pc.tl
    BY <1>3, <1>7 DEF PcSendWaitLow, PcShape
  <2>2. ~InFlight /\ ~InFlight'
    BY <1>1, <1>3, <2>1 DEF InFlight, MdLines, RecvPoints, TH
  <2>3. Taken' = Taken
    BY <1>2, <2>1, <2>2 DEF Taken, UnderWay, SendPoints
  <2>4. Arrived' = Arrived
    BY <1>1, <2>1 DEF Arrived
  <2>5. PcWire'
    BY <1>1, <1>2, <1>4, <2>1 DEF PcWire, SendPoints, TakePoints, Turns
  <2>6. MdWire'
    BY <1>1, <1>2, <1>4, <2>1, <2>2, <2>3 DEF MdWire, TH
  <2>. QED
    BY <1>a, <2>1, <2>3, <2>4, <2>5, <2>6 DEF Fresh
<1>8. CASE PcSendTlLow
  <2>1. /\ pc.at = "sendTlLow" /\ pc'.at = "sendHigh" /\ pc'.data = pc.data
        /\ pc'.byte = pc.byte /\ pc'.tl = 0 /\ pc'.out
    BY <1>3, <1>8 DEF PcSendTlLow, OutB, PcShape
  <2>2. ~InFlight /\ ~InFlight'
    BY <1>1, <1>4, <2>1 DEF InFlight, MdWire
  <2>3. Taken' = Taken
    BY <1>2, <2>1, <2>2 DEF Taken, UnderWay, SendPoints
  <2>4. Arrived' = Arrived
    BY <1>1, <2>1 DEF Arrived
  <2>5. PcWire'
    BY <1>1, <1>2, <1>4, <2>1 DEF PcWire, SendPoints, TakePoints, Turns
  <2>6. MdWire'
    BY <1>1, <1>2, <1>4, <2>1, <2>2, <2>3 DEF MdWire, TH
  <2>. QED
    BY <1>a, <2>1, <2>3, <2>4, <2>5, <2>6 DEF Fresh
<1>9. CASE PcSendWaitHigh
  <2>1. /\ pc.at = "sendHigh" /\ pc'.at = "sendTlHigh" /\ pc'.data = High(pc.byte)
        /\ pc'.byte = pc.byte /\ pc'.tl = pc.tl /\ pc'.out = pc.out
    BY <1>3, <1>9 DEF PcSendWaitHigh, PcShape
  <2>2. ~InFlight /\ ~InFlight'
    BY <1>1, <1>4, <2>1 DEF InFlight, MdWire
  <2>3. Taken' = Taken
    BY <1>2, <2>1, <2>2 DEF Taken, UnderWay, SendPoints
  <2>4. Arrived' = Arrived
    BY <1>1, <2>1 DEF Arrived
  <2>5. PcWire'
    BY <1>1, <1>2, <1>4, <2>1 DEF PcWire, SendPoints, TakePoints, Turns
  <2>6. MdWire'
    BY <1>1, <1>2, <1>4, <2>1, <2>2, <2>3 DEF MdWire, TH
  <2>. QED
    BY <1>a, <2>1, <2>3, <2>4, <2>5, <2>6 DEF Fresh
\* The upper nibble stands on the lines, and the console has yet to read it.
<1>10. CASE PcSendTlHigh
  <2>1. /\ pc.at = "sendTlHigh" /\ pc'.at = "done" /\ pc'.data = pc.data
        /\ pc'.byte = pc.byte /\ pc'.tl = 1 /\ pc'.out
    BY <1>3, <1>10 DEF PcSendTlHigh, OutB, PcShape
  <2>2. /\ Started \in 1..Len(Script) /\ Script[Started] = [call |-> "send", byte |-> pc.byte]
        /\ Taken = Started - 1
    BY <2>1, PcSends
  <2>3. md.at = "recvHigh"
    <3>1. md.at \in {"boot", "idle", "recvHigh"}
      BY <1>3, <2>1 DEF Joint, Asleep
    <3>2. LastByte <= Taken
      BY <2>2 DEF LastByte
    <3>3. md.at # "idle"
      BY <1>5, <2>1, <2>2, <3>2 DEF Live, Story, Complete, Fresh
    <3>4. md.at # "boot"
      BY DEF Live, Story
    <3>. QED
      BY <3>1, <3>3, <3>4
  <2>4. InFlight'
    BY <1>1, <2>1, <2>3 DEF InFlight
  <2>5. Taken' = Taken
    BY <1>2, <1>5, <2>1, <2>2, <2>4 DEF Taken, UnderWay, SendPoints, TakePoints, Turns
  <2>6. job.last = "send"
    BY <1>4, <1>5, <2>2 DEF PcWire
  <2>7. Arrived' = Arrived
    BY <1>1, <2>1, <2>6 DEF Arrived
  <2>8. PcWire'
    BY <1>1, <1>2, <1>4, <2>1 DEF PcWire, SendPoints, TakePoints, Turns
  <2>9. pc.data = High(pc.byte)
    BY <1>4, <2>1 DEF PcWire
  <2>10. Taken + 1 = Started
    BY <1>5, <2>2
  <2>11. MdWire'
    BY <1>1, <1>2, <1>4, <2>1, <2>2, <2>3, <2>5, <2>9, <2>10 DEF MdWire, TH
  <2>. QED
    BY <1>a, <2>1, <2>5, <2>7, <2>8, <2>11 DEF Fresh
<1>11. CASE PcRecvTlLow
  <2>1. /\ pc.at = "recvTlLow" /\ pc'.at = "recvLow" /\ pc'.byte = pc.byte /\ pc'.tl = 0
    BY <1>3, <1>11 DEF PcRecvTlLow, OutB, PcShape
  <2>2. ~InFlight /\ ~InFlight'
    BY <1>1, <1>4, <2>1 DEF InFlight, MdWire
  <2>3. Taken' = Taken
    BY <1>2, <2>1, <2>2 DEF Taken, UnderWay, TakePoints
  <2>4. Arrived' = Arrived
    BY <1>1, <2>1 DEF Arrived
  <2>5. PcWire'
    BY <1>1, <1>2, <1>4, <2>1 DEF PcWire, SendPoints, TakePoints, Turns
  <2>6. MdWire'
    BY <1>1, <1>2, <1>4, <2>1, <2>2, <2>3 DEF MdWire, TH
  <2>. QED
    BY <1>a, <2>1, <2>3, <2>4, <2>5, <2>6 DEF Fresh
<1>12. CASE PcRecvWaitLow
  <2>1. /\ pc.at = "recvLow" /\ pc'.at = "recvLowIn" /\ pc'.byte = pc.byte /\ pc'.tl = pc.tl
        /\ TH = 0
    BY <1>3, <1>12 DEF PcRecvWaitLow, PcGo, PcShape
  <2>2. ~InFlight /\ ~InFlight'
    BY <1>1, <1>4, <2>1 DEF InFlight, MdWire
  <2>3. Taken' = Taken
    BY <1>2, <2>1, <2>2 DEF Taken, UnderWay, TakePoints
  <2>4. Arrived' = Arrived
    BY <1>1, <2>1 DEF Arrived
  <2>5. PcWire'
    BY <1>1, <1>2, <1>4, <2>1 DEF PcWire, SendPoints, TakePoints, Turns
  <2>6. md.dir = "data"
    BY <2>1, LowIsDriven
  <2>7. MdWire'
    BY <1>1, <1>2, <1>4, <2>1, <2>2, <2>3, <2>6 DEF MdWire, TH
  <2>. QED
    BY <1>a, <2>1, <2>3, <2>4, <2>5, <2>7 DEF Fresh
<1>13. CASE PcRecvLow
  <2>1. PICK n \in PcSees : pc' = [pc EXCEPT !.at = "recvTlHigh", !.byte = <<n, High(pc.byte)>>]
    BY <1>13 DEF PcRecvLow
  <2>2. /\ pc.at = "recvLowIn" /\ pc'.at = "recvTlHigh" /\ pc'.byte = <<n, High(pc.byte)>>
        /\ pc'.tl = pc.tl
    BY <1>3, <1>13, <2>1 DEF PcRecvLow, PcShape
  <2>3. md.dir = "data"
    BY <1>4, <2>2 DEF MdWire
  <2>4. n = md.data
    BY <1>3, <2>2, <2>3 DEF PcSees, MdDrivesData, PcLines, PcInputs
  <2>5. md.at = "sendHigh"
    BY <1>3, <2>2, <2>3 DEF Joint, Asleep, MdLow, MdLines, RecvPoints
  <2>6. Low(pc'.byte) = Low(md.byte)
    BY <1>4, <2>2, <2>4, <2>5 DEF MdWire, Low
  <2>7. ~InFlight /\ ~InFlight'
    BY <1>1, <2>5 DEF InFlight
  <2>8. Taken' = Taken
    BY <1>2, <2>2, <2>7 DEF Taken, UnderWay, TakePoints
  <2>9. Arrived' = Arrived
    BY <1>1, <2>2 DEF Arrived
  <2>10. PcWire'
    BY <1>1, <1>2, <1>4, <2>2 DEF PcWire, SendPoints, TakePoints, Turns
  <2>11. MdWire'
    BY <1>1, <1>2, <1>4, <2>2, <2>3, <2>5, <2>6, <2>7 DEF MdWire, TH
  <2>. QED
    BY <1>a, <2>2, <2>8, <2>9, <2>10, <2>11 DEF Fresh
<1>14. CASE PcRecvTlHigh
  <2>1. /\ pc.at = "recvTlHigh" /\ pc'.at = "recvHigh" /\ pc'.byte = pc.byte /\ pc'.tl = 1
    BY <1>3, <1>14 DEF PcRecvTlHigh, OutB, PcShape
  <2>2. md.dir = "data" /\ Low(pc.byte) = Low(md.byte)
    BY <1>4, <2>1 DEF MdWire
  <2>3. md.at = "sendHigh" /\ TH = 0 /\ TH' = 0
    BY <1>1, <1>3, <2>1, <2>2 DEF Joint, Asleep, MdLow, MdLines, RecvPoints, TH
  <2>4. ~InFlight /\ ~InFlight'
    BY <1>1, <2>3 DEF InFlight
  <2>5. Taken' = Taken
    BY <1>2, <2>1, <2>3, <2>4 DEF Taken, UnderWay, TakePoints
  <2>6. Arrived' = Arrived
    BY <1>1, <2>1, <2>3 DEF Arrived
  <2>7. PcWire'
    BY <1>1, <1>2, <1>4, <2>1 DEF PcWire, SendPoints, TakePoints, Turns
  <2>8. MdWire'
    BY <1>1, <1>2, <1>4, <2>1, <2>2, <2>3, <2>4 DEF MdWire
  <2>. QED
    BY <1>a, <2>1, <2>5, <2>6, <2>7, <2>8 DEF Fresh
<1>15. CASE PcRecvWaitHigh
  <2>1. /\ pc.at = "recvHigh" /\ pc'.at = "recvHighIn" /\ pc'.byte = pc.byte /\ pc'.tl = pc.tl
        /\ TH = 1
    BY <1>3, <1>15 DEF PcRecvWaitHigh, PcGo, PcShape
  <2>2. md.dir = "data" /\ md.th = 1
    BY <1>4, <2>1 DEF MdWire, TH
  <2>3. ~InFlight /\ ~InFlight' /\ TH' = TH
    BY <1>1, <1>3, <2>2 DEF InFlight, MdLines, RecvPoints, TH
  <2>4. Taken' = Taken
    BY <1>2, <2>1, <2>3 DEF Taken, UnderWay, TakePoints, SendPoints, Turns
  <2>5. Arrived' = Arrived
    BY <1>1, <2>1, <2>3 DEF Arrived
  <2>6. PcWire'
    BY <1>1, <1>2, <1>4, <2>1 DEF PcWire, SendPoints, TakePoints, Turns
  <2>7. MdWire'
    BY <1>1, <1>2, <1>4, <2>1, <2>2, <2>3, <2>4 DEF MdWire
  <2>. QED
    BY <1>a, <2>1, <2>4, <2>5, <2>6, <2>7 DEF Fresh
<1>16. CASE PcRecvHigh
  <2>1. PICK n \in PcSees : pc' = [pc EXCEPT !.at = "done", !.byte = <<Low(pc.byte), n>>]
    BY <1>16 DEF PcRecvHigh
  <2>2. /\ pc.at = "recvHighIn" /\ pc'.at = "done" /\ pc'.byte = <<Low(pc.byte), n>>
        /\ pc'.tl = pc.tl
    BY <1>3, <1>16, <2>1 DEF PcRecvHigh, PcShape
  <2>3. md.dir = "data" /\ md.th = 1 /\ TH = 1
    BY <1>4, <2>2 DEF MdWire, TH
  <2>4. n = md.data
    BY <1>3, <2>2, <2>3 DEF PcSees, MdDrivesData, PcLines, PcInputs
  <2>5. ~InFlight /\ ~InFlight'
    BY <1>1, <1>3, <2>3 DEF InFlight, MdLines, RecvPoints
  <2>6. Taken' = Taken
    BY <1>2, <2>2, <2>5 DEF Taken, UnderWay, TakePoints, SendPoints, Turns
  <2>7. job.last = "recv"
    BY <1>4, <1>5, <2>2 DEF PcWire
  <2>8. Arrived' = Arrived
    BY <1>1, <2>2, <2>3, <2>4, <2>7 DEF Arrived
  <2>9. PcWire'
    BY <1>1, <1>2, <1>4, <2>2 DEF PcWire, SendPoints, TakePoints, Turns
  <2>10. MdWire'
    BY <1>1, <1>2, <1>4, <2>2, <2>5, <2>6 DEF MdWire
  <2>. QED
    BY <1>a, <2>2, <2>6, <2>8, <2>9, <2>10 DEF Fresh
<1>17. ASSUME pc.at \in Turns, pc'.at \in {"delay", "done"}, md.at # "recvHigh", pc.at = "toIn" <=> pc'.at = "delay"
       PROVE  Taken' = Started /\ Taken = Started - 1 /\ LastByte' = LastByte
  <2>1. Started \in 1..Len(Script) /\ Script[Started].call = pc.at /\ IsTurn(Started)
    BY <1>4, <1>5, <1>17 DEF PcWire, IsTurn
  <2>2. ~InFlight /\ ~InFlight'
    BY <1>1, <1>17 DEF InFlight
  <2>3. Taken' = Started /\ Taken = Started - 1
    BY <1>2, <1>5, <1>17, <2>2 DEF Taken, UnderWay, SendPoints, TakePoints, Turns
  <2>4. ~IsTurn(Started - 1)
    <3>1. Legal(Script)
      BY Counts
    <3>2. ASSUME IsTurn(Started - 1) PROVE FALSE
      <4>1. Started - 1 \in 1..Len(Script) /\ (Started - 1) + 1 = Started
        BY <1>5, <3>2 DEF IsTurn
      <4>2. Script[Started - 1].call \in Turns
        BY <3>2 DEF IsTurn
      <4>3. Script[Started].call \in {"recv", "send"}
        BY <3>1, <4>1, <4>2 DEF Legal, Turns
      <4>. QED
        BY <2>1, <4>3 DEF IsTurn, Turns
    <3>. QED
      BY <3>2
  <2>5. IsTurn(Taken)' /\ ~IsTurn(Taken)
    BY <1>2, <2>1, <2>3, <2>4 DEF IsTurn
  <2>6. LastByte' = Started - 1 /\ LastByte = Started - 1
    BY <2>3, <2>5 DEF LastByte
  <2>. QED
    BY <2>3, <2>6
<1>18. CASE PcToIn
  <2>1. /\ pc.at = "toIn" /\ md.at # "recvHigh" /\ pc'.at = "delay" /\ pc'.byte = pc.byte
        /\ pc'.tl = 1
    BY <1>3, <1>4, <1>18 DEF PcToIn, MdHasSampled, OutB, PcShape
  <2>2. Taken' = Started /\ Taken = Started - 1 /\ LastByte' = LastByte
    BY <1>17, <2>1 DEF Turns
  <2>3. Arrived' = Arrived
    BY <1>1, <2>1 DEF Arrived
  <2>4. PcWire'
    BY <1>1, <1>2, <1>4, <2>1 DEF PcWire, SendPoints, TakePoints, Turns
  <2>5. ~InFlight'
    BY <1>1, <2>1 DEF InFlight
  <2>6. MdWire'
    <3>1. md.at \notin {"recvSet", "recvHigh"}
      BY <1>3, <2>1 DEF Joint
    <3>. QED
      BY <1>1, <1>4, <2>1, <2>5, <3>1 DEF MdWire
  <2>. QED
    BY <2>1, <2>2, <2>3, <2>4, <2>6 DEF Fresh
<1>19. CASE PcDelay
  <2>1. pc.at = "delay" /\ pc'.at = "done" /\ pc'.byte = pc.byte /\ pc'.tl = pc.tl
    BY <1>3, <1>19 DEF PcDelay, PcGo, PcShape
  <2>2. ~InFlight /\ ~InFlight'
    BY <1>1, <1>4, <2>1 DEF InFlight, MdWire
  <2>3. Taken' = Taken
    BY <1>2, <2>1, <2>2 DEF Taken, UnderWay, SendPoints, TakePoints, Turns
  <2>4. job.last = "toIn"
    BY <1>4, <1>5, <2>1 DEF PcWire
  <2>5. Arrived' = Arrived
    BY <1>1, <2>1, <2>4 DEF Arrived
  <2>6. PcWire'
    BY <1>1, <1>2, <1>4, <2>1 DEF PcWire, SendPoints, TakePoints, Turns
  <2>7. MdWire'
    BY <1>1, <1>2, <1>4, <2>1, <2>2, <2>3 DEF MdWire
  <2>. QED
    BY <1>a, <2>1, <2>3, <2>5, <2>6, <2>7 DEF Fresh
<1>20. CASE PcToOut
  <2>1. /\ pc.at = "toOut" /\ TH = 0 /\ pc'.at = "done" /\ pc'.byte = pc.byte /\ pc'.tl = 1
    BY <1>3, <1>20 DEF PcToOut, OutB, PcShape
  <2>2. md.at # "recvHigh"
    BY <1>3, <2>1 DEF MdLines, RecvPoints, TH
  <2>3. Taken' = Started /\ Taken = Started - 1 /\ LastByte' = LastByte
    BY <1>17, <2>1, <2>2 DEF Turns
  <2>4. job.last = "toOut"
    BY <1>4, <1>5, <2>1 DEF PcWire, Turns
  <2>5. Arrived' = Arrived
    BY <1>1, <2>1, <2>4 DEF Arrived
  <2>6. PcWire'
    BY <1>1, <1>2, <1>4, <2>1 DEF PcWire, SendPoints, TakePoints, Turns
  <2>7. ~InFlight'
    BY <1>1, <2>2 DEF InFlight
  <2>8. MdWire'
    <3>1. md.at \notin {"recvSet", "recvHigh"}
      BY <1>3, <2>1, <2>2 DEF Joint
    <3>. QED
      BY <1>1, <1>4, <2>1, <2>7, <3>1 DEF MdWire
  <2>. QED
    BY <2>1, <2>3, <2>5, <2>6, <2>8 DEF Fresh
<1>. QED
  BY <1>6, <1>7, <1>8, <1>9, <1>10, <1>11, <1>12, <1>13, <1>14, <1>15, <1>16, <1>18, <1>19, <1>20
     DEF PcPrimitive

\* The next call of main.
LEMMA PcNextCallLive ==
  ASSUME Live, Typed', PcNextCall PROVE Live'
<1> DEFINE c == Head(job.calls)
<1>1. /\ pc.at = "done" /\ job.calls # <<>>
      /\ job' = [job EXCEPT !.calls = Tail(@), !.last = c.call, !.rd = Received]
      /\ UNCHANGED <<md, cpu, ram, jumps, before, used>>
  BY DEF PcNextCall, mdHas
<1>2. PcShape /\ PcLines /\ MdLines /\ Joint /\ JobShape /\ MdShape
  BY DEF Live, Typed, HandInv
<1>3. PcWire /\ MdWire
  BY DEF Live
<1>4. /\ Script \in CallSeq /\ Started \in 0..Len(Script) /\ Len(Script) \in Nat /\ Legal(Script)
      /\ Len(job.calls) \in Nat
  BY Counts
<1>5. /\ job'.calls = Tail(job.calls) /\ job'.last = c.call /\ job'.rd = Received
      /\ job'.req = job.req /\ job'.end = job.end
  BY <1>1, <1>2 DEF JobShape
<1>6. /\ Len(job.calls) > 0 /\ c = job.calls[1] /\ Len(Tail(job.calls)) = Len(job.calls) - 1
      /\ \A i \in 1..Len(Tail(job.calls)) : Tail(job.calls)[i] = job.calls[i + 1]
  BY <1>1, <1>2, <1>4 DEF JobShape, CallSeq
<1>7. Script' = Script /\ Started' = Started + 1
  <2>1. Script' = Script
    BY <1>5 DEF Script
  <2>2. Len(job'.calls) = Len(job.calls) - 1
    BY <1>5, <1>6
  <2>. QED
    BY <1>4, <2>1, <2>2 DEF Started
<1>8. Started + 1 \in 1..Len(Script) /\ c = Script[Started + 1] /\ c \in CallSet
  <2>1. c = Script[Started + 1]
    BY <1>3, <1>4, <1>6 DEF PcWire
  <2>2. Started + 1 \in 1..Len(Script)
    BY <1>4, <1>6 DEF Started
  <2>. QED
    BY <1>4, <2>1, <2>2 DEF CallSeq
<1>9. /\ c.call \in {"send", "recv", "toIn", "toOut"}
      /\ c.call = "send" => c = [call |-> "send", byte |-> c.byte]
  BY <1>8 DEF CallSet
<1>10. /\ pc'.at = (CASE c.call = "send" -> "sendLow" [] c.call = "recv" -> "recvTlLow" [] OTHER -> c.call)
       /\ pc'.tl = pc.tl /\ pc'.out = pc.out /\ pc'.data = pc.data
       /\ pc'.byte = IF c.call = "send" THEN c.byte ELSE pc.byte
  <2>1. pc' = CASE c.call = "send" -> PcSend(c.byte)
               [] c.call = "recv" -> PcStart("recvTlLow")
               [] OTHER           -> PcStart(c.call)
    BY DEF PcNextCall
  <2> HIDE DEF c
  <2>. QED
    BY <1>2, <1>9, <2>1 DEF PcSend, PcStart, PcShape
<1> HIDE DEF c
<1>11. pc'.at \in {"sendLow", "recvTlLow", "toIn", "toOut"}
  BY <1>9, <1>10
<1>12. ~UnderWay /\ UnderWay' /\ InFlight' = InFlight
  BY <1>1, <1>10, <1>11 DEF UnderWay, InFlight, SendPoints, TakePoints, Turns
<1>13. Taken' = Taken
  BY <1>4, <1>7, <1>12 DEF Taken
<1>14. LastByte' = LastByte
  BY <1>7, <1>13 DEF LastByte, IsTurn
<1>15. Arrived' = Arrived
  BY <1>1, <1>5, <1>11 DEF Arrived, Received
<1>16. PcWire'
  <2>1. /\ Len(job'.calls) <= Len(Script')
        /\ \A i \in 1..Len(job'.calls) : job'.calls[i] = Script'[Started' + i]
    <3>1. ASSUME NEW i \in 1..Len(Tail(job.calls)) PROVE Tail(job.calls)[i] = Script[Started + 1 + i]
      <4>1. i + 1 \in 1..Len(job.calls) /\ Started + 1 + i = Started + (i + 1)
        BY <1>4, <1>6
      <4>. QED
        BY <1>3, <1>6, <4>1 DEF PcWire
    <3>2. Len(job.calls) - 1 <= Len(Script)
      BY <1>3, <1>4 DEF PcWire
    <3>. QED
      BY <1>5, <1>6, <1>7, <3>1, <3>2
  <2>2. Started' > 0 /\ Script'[Started'] = c /\ job'.last = c.call /\ Started' # 0
    BY <1>4, <1>5, <1>7, <1>8
  <2>3. /\ pc'.at \in SendPoints => Script'[Started'] = [call |-> "send", byte |-> pc'.byte]
        /\ pc'.at \in TakePoints \cup {"recvHigh", "recvHighIn"} => c.call = "recv"
        /\ pc'.at \in Turns => c.call = pc'.at
    BY <1>9, <1>10, <2>2 DEF SendPoints, TakePoints, Turns
  <2>4. job'.end # "ok"
    BY <1>1, <1>3, <1>5 DEF PcWire
  <2>. QED
    BY <1>11, <2>1, <2>2, <2>3, <2>4 DEF PcWire
<1>17. MdWire'
  <2>1. ASSUME InFlight PROVE pc'.at # "recvTlLow"
    <3>1. Taken + 1 = Started
      BY <1>4, <1>12, <2>1 DEF Taken
    <3>2. Taken + 1 \in Int /\ Taken < Len(Script) /\ Script[Taken + 1].call = "send"
      BY <1>3, <1>4, <2>1, <3>1 DEF MdWire, InFlight
    <3>3. Script[Started].call = "send"
      BY <3>1, <3>2
    <3>4. (Started + 1) - 1 = Started
      BY <1>4
    <3>5. c.call # "recv"
      BY <1>4, <1>8, <3>3, <3>4 DEF Legal
    <3>. QED
      BY <1>9, <1>10, <3>5
  <2>. QED
    BY <1>1, <1>3, <1>7, <1>10, <1>11, <1>12, <1>13, <2>1 DEF MdWire
<1>18. Fresh' = Fresh
  BY <1>1, <1>11 DEF Fresh
<1>19. job'.end # "aborted" /\ UNCHANGED <<md, cpu, ram, before>>
  BY <1>1, <1>5 DEF Live
<1>. QED
  BY <1>5, <1>14, <1>15, <1>16, <1>17, <1>18, <1>19, PcKeepsLive

LEMMA PcExitLive ==
  ASSUME Live, Typed', PcExit PROVE Live'
<1>1. /\ pc.at = "done" /\ job.calls = <<>>
      /\ job' = [job EXCEPT !.end = "ok", !.rd = Received]
      /\ UNCHANGED <<md, cpu, ram, before>>
  BY DEF PcExit, mdHas
<1>2. PcShape /\ JobShape
  BY DEF Live, Typed, HandInv
<1>3. PcWire /\ MdWire
  BY DEF Live
<1>4. /\ job'.calls = job.calls /\ job'.last = job.last /\ job'.rd = Received
      /\ job'.req = job.req /\ job'.end = "ok"
  BY <1>1, <1>2 DEF JobShape
<1>5. /\ pc'.at = "finish" /\ pc'.tl = pc.tl /\ pc'.out = pc.out /\ pc'.data = pc.data
      /\ pc'.byte = pc.byte
  BY <1>2 DEF PcExit, PcStart, PcShape
<1>6. Script' = Script /\ Started' = Started
  BY <1>4 DEF Script, Started
<1>7. ~UnderWay /\ ~UnderWay' /\ InFlight' = InFlight
  BY <1>1, <1>5 DEF UnderWay, InFlight, SendPoints, TakePoints, Turns
<1>8. Taken' = Taken
  BY <1>6, <1>7 DEF Taken
<1>9. LastByte' = LastByte
  BY <1>6, <1>8 DEF LastByte, IsTurn
<1>10. Arrived' = Arrived
  BY <1>1, <1>4, <1>5 DEF Arrived, Received
<1>11. PcWire'
  BY <1>1, <1>3, <1>4, <1>5, <1>6 DEF PcWire, SendPoints, TakePoints, Turns
<1>12. MdWire'
  BY <1>1, <1>3, <1>5, <1>6, <1>7, <1>8 DEF MdWire
<1>13. Fresh' = Fresh
  BY <1>1, <1>5 DEF Fresh
<1>. QED
  BY <1>1, <1>4, <1>9, <1>10, <1>11, <1>12, <1>13, PcKeepsLive

\* The start of a run on the wires, and its end.
LEMMA PcEndsLive ==
  ASSUME Live, Typed', PcAsk \/ PcAcked \/ PcFinish PROVE Live'
<1>1. UNCHANGED <<md, cpu, ram, jumps, job, before, used>>
  BY DEF PcAsk, PcAcked, PcFinish, mdHas
<1>2. Script' = Script /\ Started' = Started
  BY <1>1 DEF Script, Started
<1>3. PcShape /\ PcLines /\ MdLines /\ Joint /\ MdShape
  BY DEF Live, Typed, HandInv
<1>4. PcWire /\ MdWire /\ MdPrompt
  BY DEF Live
<1>5. SUFFICES /\ Taken' = Taken /\ Arrived' = Arrived /\ PcWire' /\ MdWire'
               /\ Fresh' = Fresh \/ md.at \in {"startTh", "askLow"}
  <2>1. Taken' = Taken => LastByte' = LastByte
    BY <1>2 DEF LastByte, IsTurn
  <2>2. job'.req = job.req /\ job'.end # "aborted" /\ UNCHANGED <<md, cpu, ram, before>>
    BY <1>1 DEF Live
  <2>. QED
    BY <1>1, <2>1, <2>2, PcKeepsLive
<1>6. CASE PcAsk
  <2>1. pc.at = "startHigh" /\ pc'.at = "startAck" /\ pc'.tl = 1 /\ ~pc'.out
    BY <1>3, <1>6 DEF PcAsk, PcShape
  <2>2. ~InFlight /\ ~InFlight'
    BY <1>1, <1>3, <2>1 DEF InFlight, Joint, Asleep
  <2>3. Taken' = Taken
    BY <1>2, <2>1, <2>2 DEF Taken, UnderWay, SendPoints, TakePoints, Turns
  <2>4. Arrived' = Arrived
    BY <1>1, <2>1 DEF Arrived
  <2>5. PcWire'
    BY <1>1, <1>2, <1>4, <2>1 DEF PcWire, SendPoints, TakePoints, Turns
  <2>6. MdWire'
    BY <1>1, <1>2, <1>4, <2>1, <2>2, <2>3 DEF MdWire
  <2>. QED
    BY <2>1, <2>3, <2>4, <2>5, <2>6 DEF Fresh
<1>7. CASE PcAcked
  <2>1. pc.at = "startAck" /\ pc'.at = "done" /\ TH = 0
    BY <1>3, <1>7 DEF PcAcked, OutB, PcShape
  <2>2. md.at \in {"startTh", "askLow"}
    BY <1>3, <2>1 DEF Joint
  <2>3. ~InFlight /\ ~InFlight'
    BY <1>1, <2>2 DEF InFlight
  <2>4. Taken' = Taken
    BY <1>2, <2>1, <2>3 DEF Taken, UnderWay, SendPoints, TakePoints, Turns
  <2>5. job.last = "start"
    BY <1>4, <2>1 DEF PcWire
  <2>6. Arrived' = Arrived
    BY <1>1, <2>1, <2>5 DEF Arrived
  <2>7. PcWire'
    BY <1>1, <1>2, <1>4, <2>1 DEF PcWire, SendPoints, TakePoints, Turns
  <2>8. MdWire'
    BY <1>1, <1>2, <1>4, <2>1, <2>2, <2>3, <2>4 DEF MdWire
  <2>. QED
    BY <2>2, <2>4, <2>6, <2>7, <2>8
<1>8. CASE PcFinish
  <2>1. pc.at = "finish" /\ pc'.at = "off" /\ md.at # "recvHigh"
    BY <1>3, <1>4, <1>8 DEF PcFinish, MdHasSampled, OutB, PcShape
  <2>2. ~InFlight /\ ~InFlight'
    BY <1>1, <2>1 DEF InFlight
  <2>3. Taken' = Taken
    BY <1>2, <2>1, <2>2 DEF Taken, UnderWay, SendPoints, TakePoints, Turns
  <2>4. Arrived' = Arrived
    BY <1>1, <2>1 DEF Arrived
  <2>5. PcWire'
    BY <1>1, <1>2, <1>4, <2>1 DEF PcWire, SendPoints, TakePoints, Turns
  <2>6. MdWire'
    <3>1. md.at # "recvSet"
      BY <1>3, <2>1 DEF Joint
    <3>. QED
      BY <1>1, <1>2, <1>4, <2>1, <2>2, <2>3, <3>1 DEF MdWire
  <2>. QED
    BY <2>1, <2>3, <2>4, <2>5, <2>6 DEF Fresh
<1>. QED
  BY <1>6, <1>7, <1>8

\* A run starts on a console that rests.
LEMMA RunStarts ==
  ASSUME HandInv, Typed', PcPrompt, MdPrompt, NEW r \in Requests, Encodable(r), PcRun(r),
         md.at \in {"idle", "hang"}
  PROVE  Live'
<1>1. /\ pc' = [pc EXCEPT !.at = "startHigh"] /\ before' = ram
      /\ job' = [req |-> r, calls |-> Calls(r), rd |-> <<>>, last |-> "start", end |-> "running"]
      /\ UNCHANGED <<md, cpu, ram, jumps>>
  BY DEF PcRun, mdHas
<1>2. /\ job'.req = r /\ job'.calls = Calls(r) /\ job'.rd = <<>> /\ job'.last = "start"
      /\ job'.end = "running" /\ pc'.at = "startHigh"
  BY <1>1 DEF HandInv, PcShape
<1>3. Calls(r) \in CallSeq /\ Len(Calls(r)) \in Nat
  BY CallsType DEF CallSeq
<1>4. Script' = Calls(r) /\ Started' = 0
  <2>1. Script' = Calls(r)
    BY <1>2 DEF Script
  <2>. QED
    BY <1>2, <1>3, <2>1 DEF Started
<1>5. PcWire'
  <2>1. \A i \in 1..Len(Calls(r)) : Calls(r)[i] = Calls(r)[0 + i]
    BY <1>3
  <2>2. Len(job'.calls) <= Len(Script')
    BY <1>2, <1>3, <1>4
  <2>3. \A i \in 1..Len(job'.calls) : job'.calls[i] = Script'[Started' + i]
    BY <1>2, <1>4, <2>1
  <2>. QED
    BY <1>1, <1>2, <1>4, <2>2, <2>3 DEF PcWire, SendPoints, TakePoints, Turns
<1>6. ~InFlight'
  BY <1>1 DEF InFlight
<1>7. MdWire'
  BY <1>1, <1>2, <1>6 DEF MdWire
<1>8. Story'
  BY <1>1, <1>2 DEF Story, Fresh
<1>9. Encodable(job.req)'
  BY <1>2 DEF Encodable
<1>. QED
  BY <1>2, <1>5, <1>7, <1>8, <1>9 DEF Live

\* A PC that has ended a run has made all its calls, and the console is past
\* their last byte.
LEMMA OffIs ==
  ASSUME Live, pc.at = "off"
  PROVE  /\ ~Fresh /\ Arrived = job.rd /\ LastByte = Len(Script) /\ LastByte >= 2
         /\ After(LastByte) \notin 1..Len(Script)
<1>2. Len(job.calls) = 0 /\ Started = Len(Script) /\ Len(Script) \in Nat /\ Len(Script) >= 2
      /\ Legal(Script)
  <2>1. job.calls = <<>>
    BY DEF Live, PcWire
  <2>. QED
    BY <2>1, Counts DEF Started
<1>3. ~UnderWay /\ ~InFlight /\ ~Fresh
  BY DEF UnderWay, InFlight, SendPoints, TakePoints, Turns, Live, MdWire, Fresh
<1>4. Taken = Len(Script)
  BY <1>2, <1>3 DEF Taken
<1>5. LastByte = Len(Script)
  <2>1. ~IsTurn(Len(Script))
    BY <1>2 DEF Legal, IsTurn, Turns
  <2>. QED
    BY <1>4, <2>1 DEF LastByte
<1>6. After(LastByte) \notin 1..Len(Script)
  BY <1>2, <1>5 DEF After, IsTurn
<1>7. Arrived = job.rd
  BY DEF Arrived
<1>. QED
  BY <1>2, <1>3, <1>5, <1>6, <1>7

LEMMA PcRunLive ==
  ASSUME Live, Typed', NEW r \in Requests, Encodable(r), PcRun(r)
  PROVE  Live'
<1>1. pc.at = "off" /\ MdSettled
  BY DEF PcRun
<1>2. ~Fresh /\ LastByte # 0 /\ After(LastByte) \notin 1..Len(Script)
  BY <1>1, OffIs
<1>7. md.at \in {"idle", "hang"}
  <2>1. md.at \in {"idle", "hang", "askLow", "recvLow", "sendLow", "swLow"}
    BY <1>1 DEF MdSettled
  <2>2. CASE Resting
    BY <1>2, <2>1, <2>2 DEF Resting
  <2>3. ~Asking
    BY <1>2 DEF Asking
  <2>4. CASE Taking
    BY <1>2, <2>1, <2>4, TakingIs DEF RecvPoints, Waits
  <2>5. CASE Between
    BY <2>1, <2>5 DEF Between
  <2>6. CASE Giving
    BY <1>2, <2>1, <2>6, GivingIs DEF GivePoints, TurnPoints
  <2>. QED
    BY <2>2, <2>3, <2>4, <2>5, <2>6, Phases
<1>. QED
  BY <1>7, RunStarts DEF Live, Typed

-----------------------------------------------------------------------------
(* A step of the console's primitives.                                     *)

LEMMA MdScript ==
  ASSUME MdKeep
  PROVE  /\ Script' = Script /\ Started' = Started /\ Fresh' = Fresh
         /\ \A n : After(n)' = After(n) /\ IsTurn(n)' = IsTurn(n)
<1>1. UNCHANGED <<pc, job, before, used>>
  BY DEF MdKeep, pcHas
<1>2. Script' = Script
  BY <1>1 DEF Script
<1>3. \A n : IsTurn(n)' = IsTurn(n)
  BY <1>2 DEF IsTurn
<1>. QED
  BY <1>1, <1>2, <1>3 DEF Started, Fresh, After

LEMMA Quiet ==
  ASSUME Live, MdKeep, md.at # "recvHigh", md'.at # "recvHigh",
         pc.at \in {"recvHigh", "recvHighIn"} => TH' = TH /\ md'.data = md.data
  PROVE  LastByte' = LastByte /\ Arrived' = Arrived /\ Taken' = Taken /\ ~InFlight'
<1>1. UNCHANGED <<pc, job, before, used>>
  BY DEF MdKeep, pcHas
<1>2. ~InFlight /\ ~InFlight'
  BY DEF InFlight
<1>3. UnderWay' = UnderWay
  BY <1>1 DEF UnderWay
<1>4. Taken' = Taken
  BY <1>2, <1>3, MdScript DEF Taken
<1>5. IsTurn(Taken)' = IsTurn(Taken)
  BY <1>4, MdScript DEF IsTurn
<1>6. LastByte' = LastByte
  BY <1>4, <1>5 DEF LastByte
<1>7. Arrived' = Arrived
  BY <1>1 DEF Arrived
<1>. QED
  BY <1>2, <1>4, <1>6, <1>7

Middle == {"done", "recvClr", "recvLow", "recvSet", "recvHigh", "recvNext",
           "sendLow", "sendPutLow", "sendHigh", "sendPutHigh", "swLow", "swDir", "swTh", "input"}

LEMMA GivenAre ==
  ASSUME Live
  PROVE  /\ job.req.cmd = "recv" => /\ cpu.addr - job.req.addr \in Int
                                    /\ PeekN(before, job.req.addr, job.req.size) \in Seq(Byte)
         /\ job.req.cmd = "recvvram" => /\ cpu.addr \in Int
                                        /\ [k \in 1..VramBytes |-> VramByte(k - 1)] \in Seq(Byte)
         /\ job.req.cmd = "io" =>
              \A n \in 0..Len(job.req.ops) : n < Len(job.req.ops) =>
                /\ Offsets(job.req.ops)[n] + 5 \in Nat /\ OpsRd(n) \in Seq(Byte)
                /\ PeekN(ram, job.req.ops[n + 1].addr, Width[job.req.ops[n + 1].op]) \in Seq(Byte)
                /\ Width[job.req.ops[n + 1].op] - Len(cpu.acc) \in Int
<1>1. /\ job.req \in Requests /\ Encodable(job.req) /\ cpu.acc \in Seq(Byte) /\ cpu.addr \in Int
      /\ before \in [Addr -> Byte] /\ ram \in [Addr -> Byte]
  BY DEF Live, Typed, TransferTypeOK
<1>2. ASSUME job.req.cmd = "recv"
      PROVE  /\ cpu.addr - job.req.addr \in Int
             /\ PeekN(before, job.req.addr, job.req.size) \in Seq(Byte)
  <2>1. job.req.addr \in Nat /\ job.req.size \in Nat
    BY <1>1, <1>2, RequestIs
  <2>. QED
    BY <1>1, <2>1, PeekNAre
<1>3. ASSUME job.req.cmd = "recvvram"
      PROVE  [k \in 1..VramBytes |-> VramByte(k - 1)] \in Seq(Byte)
  BY <1>1, <1>3, VramBytesAre
<1>4. ASSUME job.req.cmd = "io", NEW n \in 0..Len(job.req.ops), n < Len(job.req.ops)
      PROVE  /\ Offsets(job.req.ops)[n] + 5 \in Nat /\ OpsRd(n) \in Seq(Byte)
             /\ PeekN(ram, job.req.ops[n + 1].addr, Width[job.req.ops[n + 1].op]) \in Seq(Byte)
             /\ Width[job.req.ops[n + 1].op] - Len(cpu.acc) \in Int
  <2>1. /\ Offsets(job.req.ops)[n] \in Nat /\ Results(job.req.ops, before)[n] \in Machine
        /\ Width[job.req.ops[n + 1].op] \in {1, 2, 4}
    BY <1>4, OpsAre
  <2>2. OpsRd(n) \in Seq(Byte)
    BY <2>1 DEF OpsRd, Machine
  <2>3. Len(cpu.acc) \in Nat /\ Width[job.req.ops[n + 1].op] \in Nat
    BY <1>1, <2>1
  <2>4. PeekN(ram, job.req.ops[n + 1].addr, Width[job.req.ops[n + 1].op]) \in Seq(Byte)
    BY <1>1, <2>3, PeekNAre
  <2>. QED
    BY <2>1, <2>2, <2>3, <2>4
<1>. QED
  BY <1>1, <1>2, <1>3, <1>4

LEMMA StoryMoved ==
  ASSUME Live, MdKeep, UNCHANGED <<cpu, ram>>, md.at \in Middle, md'.at \in Middle,
         \A n : Got(n) => Got(n)' /\ Arrived' = Arrived,
         \A n \in Nat, i \in Int, s \in Seq(Byte), had \in Seq(Byte) :
           Gives(n, i, s, had) => Gives(n, i, s, had)',
         md.at \in {"input", "done"} /\ cpu.stage = "ioNext" =>
           md'.at \in {"input", "done"} /\ LastByte' = LastByte /\ Arrived' = Arrived
  PROVE  Story'
<1>1. UNCHANGED <<pc, job, before, cpu, ram>>
  BY DEF MdKeep, pcHas
<1>2. \A n : OpsDone(n)' = OpsDone(n) /\ OpsRd(n)' = OpsRd(n)
  BY <1>1 DEF OpsDone, OpsRd
<1>3. \A n : OpsDoneAll(n) /\ Arrived' = Arrived => OpsDoneAll(n)'
  BY <1>2 DEF OpsDoneAll
<1>4. Nothing /\ Arrived' = Arrived => Nothing'
  BY <1>1 DEF Nothing
<1>5. (InPrefix => InPrefix') /\ (InCmd => InCmd') /\ (InArgs => InArgs') /\ (InSend => InSend')
  BY <1>1, <1>4 DEF InPrefix, InCmd, InArgs, InSend
<1>0. <<>> \in Seq(Byte)
  OBVIOUS
<1>6. (InRecv => InRecv') /\ (InVram => InVram')
  <2>1. ASSUME InRecv PROVE InRecv'
    <3>1. job.req.cmd = "recv"
      BY <2>1 DEF InRecv
    <3>. QED
      BY <1>0, <1>1, <2>1, <3>1, GivenAre DEF InRecv
  <2>2. ASSUME InVram PROVE InVram'
    <3>1. job.req.cmd = "recvvram"
      BY <2>2 DEF InVram
    <3>. QED
      BY <1>0, <1>1, <2>2, <3>1, GivenAre DEF InVram
  <2>. QED
    BY <2>1, <2>2
<1>7. (InLoad => InLoad') /\ (InCount => InCount')
  BY <1>1, <1>4 DEF InLoad, InCount
<1>8. InNext => InNext'
  BY <1>1, <1>3 DEF InNext
<1>9. (InOp => InOp') /\ (InWrite => InWrite')
  BY <1>1, <1>3 DEF InOp, InWrite
<1>10. (InRead => InRead') /\ (InGive => InGive')
  <2>1. ASSUME InRead PROVE InRead'
    <3>1. PICK n : n = Len(job.req.ops) - cpu.left - 1
      OBVIOUS
    <3>2. job.req.cmd = "io" /\ n \in 0..Len(job.req.ops) /\ n < Len(job.req.ops)
      BY <2>1, <3>1 DEF InRead, OpsDone
    <3>3. /\ Offsets(job.req.ops)[n] + 5 \in Nat /\ OpsRd(n) \in Seq(Byte)
          /\ PeekN(ram, job.req.ops[n + 1].addr, Width[job.req.ops[n + 1].op]) \in Seq(Byte)
      BY <3>2, GivenAre, SMTT(30)
    <3>. QED
      BY <1>1, <1>2, <2>1, <3>1, <3>3 DEF InRead
  <2>2. ASSUME InGive PROVE InGive'
    <3>1. PICK n : n = Len(job.req.ops) - cpu.left - 1
      OBVIOUS
    <3>2. job.req.cmd = "io" /\ n \in 0..Len(job.req.ops) /\ n < Len(job.req.ops)
      BY <2>2, <3>1, Zenon DEF InGive, OpsDone
    <3>3. /\ Offsets(job.req.ops)[n] + 5 \in Nat /\ OpsRd(n) \in Seq(Byte)
          /\ PeekN(ram, job.req.ops[n + 1].addr, Width[job.req.ops[n + 1].op]) \in Seq(Byte)
          /\ Width[job.req.ops[n + 1].op] - Len(cpu.acc) \in Int
      BY <3>2, GivenAre
    <3>. QED
      BY <1>1, <1>2, <2>2, <3>1, <3>3, ZenonT(30) DEF InGive
  <2>. QED
    BY <2>1, <2>2
<1>11. Middle = MdPoints \ {"idle", "return", "hang", "startTh", "askLow", "boot"}
  BY DEF Middle, MdPoints
<1>12. \/ InPrefix \/ InCmd \/ InArgs \/ InSend \/ InRecv \/ InVram \/ InLoad
       \/ InCount \/ InNext \/ InOp \/ InWrite \/ InRead \/ InGive
  BY DEF Live, Story, Middle
<1>. QED
  BY <1>5, <1>6, <1>7, <1>8, <1>9, <1>10, <1>11, <1>12 DEF Story

\* What is left to show of a step of the console.
LEMMA MdKeepsLive ==
  ASSUME Live, Typed', MdKeep, ram' = ram \/ pc.at \notin {"startHigh", "startAck"}, MdWire', Story'
  PROVE  Live'
<1>1. UNCHANGED <<pc, job, before, used>> /\ Script' = Script /\ Started' = Started
  BY MdScript DEF MdKeep, pcHas
<1>2. PcWire'
  BY <1>1 DEF Live, PcWire
<1>3. Encodable(job.req)'
  BY <1>1 DEF Live, Encodable
<1>. QED
  BY <1>1, <1>2, <1>3 DEF Live

\* The same for a primitive between whose ends the console has neither taken
\* nor given a byte.
LEMMA QuietPrim ==
  ASSUME Live, Typed', MdPrim, md.at \in Middle \ {"recvHigh"}, md'.at \in Middle \ {"recvHigh"},
         pc.at \in {"recvHigh", "recvHighIn"} => TH' = TH /\ md'.data = md.data,
         \/ md.at \in {"recvClr", "recvLow"} /\ Waits'
         \/ md.at = "recvNext" /\ md'.at = "done" /\ md'.byte = md.byte
         \/ md.at \in TurnPoints /\ md'.at \in TurnPoints \cup {"done"}
         \/ md.at \in GivePoints /\ md'.at \in GivePoints /\ md'.byte = md.byte
         \/ md.at = "input" /\ md'.at = "done" /\ cpu.stage = "ioNext",
         MdWire'
  PROVE  Live'
<1>1. MdKeep /\ UNCHANGED <<cpu, ram, jumps>>
  BY DEF MdPrim
<1>2. LastByte' = LastByte /\ Arrived' = Arrived
  BY <1>1, Quiet
<1>3. ASSUME NEW n, Got(n) PROVE Got(n)'
  <2>1. \/ md.at \in {"recvClr", "recvLow"} /\ Waits'
        \/ md.at = "recvNext" /\ md'.at = "done" /\ md'.byte = md.byte
    BY <1>3 DEF Got, Waits, Has, TurnPoints, GivePoints
  <2>2. CASE md.at \in {"recvClr", "recvLow"} /\ Waits'
    BY <1>2, <1>3, <2>2 DEF Got, Has
  <2>3. CASE md.at = "recvNext" /\ md'.at = "done" /\ md'.byte = md.byte
    <3>1. LastByte = After(n) /\ md.byte = Script[LastByte].byte
      BY <1>3, <2>3 DEF Got, Waits
    <3>2. Has'
      BY <2>3 DEF Has
    <3>. QED
      BY <1>1, <1>2, <2>3, <3>1, <3>2, MdScript DEF Got
  <2>. QED
    BY <2>1, <2>2, <2>3
<1>4. ASSUME NEW n, NEW i, NEW s, NEW had, Gives(n, i, s, had) PROVE Gives(n, i, s, had)'
  BY <1>2, <1>4 DEF Gives, TurnPoints, GivePoints
<1>5. md.at \in {"input", "done"} /\ cpu.stage = "ioNext" => md'.at \in {"input", "done"}
  BY DEF TurnPoints, GivePoints
<1>6. Story'
  BY <1>1, <1>2, <1>3, <1>4, <1>5, StoryMoved
<1>. QED
  BY <1>1, <1>6, MdKeepsLive

\* The PC reads TH and the lines for the upper nibble only of a console that sends.
LEMMA OnlySenders ==
  ASSUME Live, pc.at \in {"recvLowIn", "recvTlHigh", "recvHigh", "recvHighIn"}
  PROVE  md.dir = "data" /\ md.at \notin RecvPoints \cup {"swLow", "swDir", "startTh", "askLow", "hang"}
<1>1. md.dir = "data" /\ MdLines
  BY DEF Live, MdWire, Typed, HandInv
<1>. QED
  BY <1>1 DEF MdLines, RecvPoints

LEMMA MdRecvPrims ==
  ASSUME Live, Typed', MdPrim, MdRecvClr \/ MdRecvLow \/ MdRecvNext PROVE Live'
<1>1. MdShape /\ MdLines /\ Joint /\ PcLines
  BY DEF Live, Typed, HandInv
<1>2. MdKeep /\ UNCHANGED <<pc, job, before, used, cpu, ram, jumps>> /\ MdWire
  BY DEF MdPrim, MdKeep, pcHas, Live
<1>3. Script' = Script /\ Started' = Started
  BY <1>2, MdScript
<1>4. md.at \in {"recvClr", "recvLow", "recvNext"} /\ md.dir = "th"
  BY <1>1 DEF MdRecvClr, MdRecvLow, MdRecvNext, MdWrite, MdLines, RecvPoints
<1>5. pc.at \notin {"recvLowIn", "recvTlHigh", "recvHigh", "recvHighIn"}
  BY <1>4, OnlySenders DEF RecvPoints
<1>6. CASE MdRecvClr
  <2>1. md.at = "recvClr" /\ md'.at = "recvLow"
    BY <1>1, <1>6 DEF MdRecvClr, MdWrite, MdShape
  <2>2. Taken' = Taken /\ ~InFlight'
    BY <1>2, <1>5, <2>1, Quiet
  <2>3. MdWire'
    BY <1>2, <1>5, <2>1, <2>2 DEF MdWire
  <2>. QED
    BY <1>5, <2>1, <2>3, QuietPrim DEF Middle, Waits
<1>7. CASE MdRecvNext
  <2>1. md.at = "recvNext" /\ md'.at = "done" /\ md'.byte = md.byte
    BY <1>1, <1>7 DEF MdRecvNext, MdWrite, MdShape
  <2>2. Taken' = Taken /\ ~InFlight'
    BY <1>2, <1>5, <2>1, Quiet
  <2>3. MdWire'
    BY <1>2, <1>5, <2>1, <2>2 DEF MdWire
  <2>. QED
    BY <1>5, <2>1, <2>3, QuietPrim DEF Middle
\* TL low: the lower nibble stands on the lines.
<1>8. CASE MdRecvLow
  <2>1. PICK n \in MdSees : md' = [md EXCEPT !.at = "recvSet", !.byte = <<n, High(md.byte)>>]
    BY <1>8 DEF MdRecvLow
  <2>2. /\ md.at = "recvLow" /\ md'.at = "recvSet" /\ md'.byte = <<n, High(md.byte)>>
        /\ md'.dir = md.dir /\ md'.th = md.th /\ pc.tl = 0
    BY <1>1, <1>8, <2>1 DEF MdRecvLow, MdShape
  <2>3. Taken' = Taken /\ ~InFlight'
    BY <1>2, <1>5, <2>2, Quiet
  <2>4. Taking
    <3>1. ~Giving
      BY <2>2, GivingIs DEF TurnPoints, GivePoints
    <3>. QED
      BY <2>2, <3>1, Phases DEF Resting, Asking, Between
  <2>5. After(LastByte) \in 1..Len(Script) /\ Script[After(LastByte)].call = "send"
    BY <2>2, <2>4, TakingIs DEF Waits
  <2>6. pc.at = "sendHigh"
    <3>1. pc.at \in {"sendHigh", "sendTlHigh", "recvLow"}
      BY <1>1, <1>5, <2>2 DEF PcLines, PcTlLow
    <3>2. pc.at # "sendTlHigh"
      BY <1>1, <2>2 DEF Joint, Asleep
    <3>3. pc.at # "recvLow"
      BY <2>5, PcTakes DEF TakePoints
    <3>. QED
      BY <3>1, <3>2, <3>3
  <2>7. /\ Started \in 1..Len(Script) /\ Script[Started] = [call |-> "send", byte |-> pc.byte]
        /\ Taken = Started - 1
    BY <2>6, PcSends
  <2>8. n = Low(pc.byte)
    BY <1>4, <2>6 DEF MdSees, MdDrivesData, Live, PcWire
  <2>9. Low(md'.byte) = Low(Script[Started].byte)
    BY <2>2, <2>7, <2>8 DEF Low
  <2>10. Taken + 1 = Started /\ Taken < Len(Script)
    <3>1. Len(Script) \in Nat
      BY Counts
    <3>. QED
      BY <2>7, <3>1
  <2>11. MdWire'
    BY <1>2, <1>3, <1>5, <2>2, <2>3, <2>7, <2>9, <2>10 DEF MdWire
  <2>. QED
    BY <1>5, <2>2, <2>11, QuietPrim DEF Middle, Waits
<1>. QED
  BY <1>6, <1>7, <1>8

LEMMA MdSendPrims ==
  ASSUME Live, Typed', MdPrim, MdSendLow \/ MdSendPutLow \/ MdSendHigh PROVE Live'
<1>1. MdShape /\ MdLines /\ Joint /\ PcLines
  BY DEF Live, Typed, HandInv
<1>2. MdKeep /\ UNCHANGED <<pc, job, before, used, cpu, ram, jumps>> /\ MdWire
  BY DEF MdPrim, MdKeep, pcHas, Live
<1>3. Script' = Script /\ Started' = Started
  BY <1>2, MdScript
<1>4. CASE MdSendLow
  <2>1. /\ md.at = "sendLow" /\ md'.at = "sendPutLow" /\ md'.byte = md.byte
        /\ md'.dir = md.dir /\ md'.th = md.th /\ md'.data = md.data
    BY <1>1, <1>4 DEF MdSendLow, MdGo, MdShape
  <2>2. TH' = TH
    BY <2>1 DEF TH
  <2>3. Taken' = Taken /\ ~InFlight'
    BY <1>2, <2>1, <2>2, Quiet
  <2>4. MdWire'
    BY <1>2, <2>1, <2>2, <2>3 DEF MdWire
  <2>. QED
    BY <2>1, <2>2, <2>4, QuietPrim DEF Middle, GivePoints
<1>5. CASE MdSendPutLow
  <2>1. /\ md.at = "sendPutLow" /\ md'.at = "sendHigh" /\ md'.byte = md.byte
        /\ md'.dir = md.dir /\ md'.data = Low(md.byte)
    BY <1>1, <1>5 DEF MdSendPutLow, MdWrite, MdShape
  <2>2. pc.at \in {"recvLow", "off"}
    BY <1>1, <2>1 DEF Joint
  <2>3. Taken' = Taken /\ ~InFlight'
    BY <1>2, <2>1, <2>2, Quiet
  <2>4. MdWire'
    BY <1>2, <2>1, <2>2, <2>3 DEF MdWire
  <2>. QED
    BY <2>1, <2>2, <2>4, QuietPrim DEF Middle, GivePoints
<1>6. CASE MdSendHigh
  <2>1. /\ md.at = "sendHigh" /\ md'.at = "sendPutHigh" /\ md'.byte = md.byte
        /\ md'.dir = md.dir /\ md'.th = md.th /\ md'.data = md.data
    BY <1>1, <1>6 DEF MdSendHigh, MdGo, MdShape
  <2>2. TH' = TH
    BY <2>1 DEF TH
  <2>3. Taken' = Taken /\ ~InFlight'
    BY <1>2, <2>1, <2>2, Quiet
  <2>4. MdWire'
    BY <1>2, <2>1, <2>2, <2>3 DEF MdWire
  <2>. QED
    BY <2>1, <2>2, <2>4, QuietPrim DEF Middle, GivePoints
<1>. QED
  BY <1>4, <1>5, <1>6

LEMMA MdTurnPrims ==
  ASSUME Live, Typed', MdPrim, MdSwitchWait \/ MdSwitchDir \/ MdSwitchTh \/ MdInput PROVE Live'
<1>1. MdShape /\ MdLines /\ Joint /\ PcLines
  BY DEF Live, Typed, HandInv
<1>2. MdKeep /\ UNCHANGED <<pc, job, before, used, cpu, ram, jumps>> /\ MdWire /\ PcPrompt
  BY DEF MdPrim, MdKeep, pcHas, Live
<1>3. Script' = Script /\ Started' = Started
  BY <1>2, MdScript
<1>4. CASE MdSwitchWait
  <2>1. /\ md.at = "swLow" /\ md'.at = "swDir" /\ md'.byte = md.byte
        /\ md'.dir = md.dir /\ md'.th = md.th /\ md'.data = md.data
    BY <1>1, <1>4 DEF MdSwitchWait, MdGo, MdShape
  <2>2. TH' = TH
    BY <2>1 DEF TH
  <2>3. Taken' = Taken /\ ~InFlight'
    BY <1>2, <2>1, <2>2, Quiet
  <2>4. MdWire'
    BY <1>2, <2>1, <2>2, <2>3 DEF MdWire
  <2>. QED
    BY <2>1, <2>2, <2>4, QuietPrim DEF Middle, TurnPoints
<1>5. CASE MdSwitchDir
  <2>1. md.at = "swDir" /\ md'.at = "swTh"
    BY <1>1, <1>5 DEF MdSwitchDir, MdShape
  <2>2. pc.at \in {"recvLow", "off"}
    BY <1>1, <2>1 DEF Joint
  <2>3. Taken' = Taken /\ ~InFlight'
    BY <1>2, <2>1, <2>2, Quiet
  <2>4. MdWire'
    BY <1>2, <2>1, <2>2, <2>3 DEF MdWire
  <2>. QED
    BY <2>1, <2>2, <2>4, QuietPrim DEF Middle, TurnPoints
<1>6. CASE MdSwitchTh
  <2>1. md.at = "swTh" /\ md'.at = "done"
    BY <1>1, <1>6 DEF MdSwitchTh, MdWrite, MdShape
  <2>2. pc.at \in {"recvLow", "off"}
    BY <1>1, <2>1 DEF Joint
  <2>3. Taken' = Taken /\ ~InFlight'
    BY <1>2, <2>1, <2>2, Quiet
  <2>4. MdWire'
    BY <1>2, <2>1, <2>2, <2>3 DEF MdWire
  <2>. QED
    BY <2>1, <2>2, <2>4, QuietPrim DEF Middle, TurnPoints
<1>7. CASE MdInput
  <2>1. /\ md.at = "input" /\ md'.at = "done" /\ cpu.stage = "ioNext"
        /\ pc.at \notin {"recvHigh", "recvHighIn"}
    BY <1>1, <1>2, <1>7 DEF MdInput, PcHasSampled, MdShape, MdLines
  <2>2. pc.at \notin {"recvLowIn", "recvTlHigh"}
    BY <1>1, <2>1 DEF Joint, Asleep, MdLow
  <2>3. Taken' = Taken /\ ~InFlight'
    BY <1>2, <2>1, Quiet
  <2>4. MdWire'
    BY <1>2, <2>1, <2>2, <2>3 DEF MdWire
  <2>. QED
    BY <2>1, <2>4, QuietPrim DEF Middle
<1>. QED
  BY <1>4, <1>5, <1>6, <1>7

LEMMA MdRecvSetLive ==
  ASSUME Live, Typed', MdPrim, MdRecvSet PROVE Live'
<1>1. MdShape /\ MdLines /\ Joint /\ PcLines
  BY DEF Live, Typed, HandInv
<1>2. MdKeep /\ UNCHANGED <<pc, job, before, used, cpu, ram, jumps>> /\ MdWire /\ PcWire
  BY DEF MdPrim, MdKeep, pcHas, Live
<1>3. Script' = Script /\ Started' = Started
  BY <1>2, MdScript
<1>4. md.at = "recvSet" /\ md'.at = "recvHigh" /\ md'.byte = md.byte /\ md'.dir = md.dir
  BY <1>1 DEF MdRecvSet, MdWrite, MdShape
<1>5. Taken < Len(Script) /\ Script[Taken + 1].call = "send"
  BY <1>2, <1>4 DEF MdWire
<1>6. pc.at = "sendHigh"
  <2>1. pc.at \in {"sendHigh", "recvLow", "off"}
    BY <1>1, <1>4, OnlySenders DEF Joint, RecvPoints
  <2>2. pc.at # "recvLow"
    <3>1. ASSUME pc.at = "recvLow" PROVE Script[Taken + 1].call = "recv"
      <4>1. Started \in 1..Len(Script) /\ Script[Started].call = "recv" /\ Taken = Started - 1
        BY <3>1, PcTakes DEF TakePoints
      <4>2. Taken + 1 = Started
        BY <4>1
      <4>. QED
        BY <4>1, <4>2
    <3>. QED
      BY <1>5, <3>1
  <2>3. pc.at # "off"
    <3>1. ASSUME pc.at = "off" PROVE Taken = Len(Script)
      <4>1. job.calls = <<>>
        BY <1>2, <3>1 DEF PcWire
      <4>2. Started = Len(Script) /\ Len(Script) \in Nat
        BY <4>1, Counts DEF Started
      <4>. QED
        BY <1>4, <3>1, <4>2 DEF Taken, UnderWay, InFlight, SendPoints, TakePoints, Turns
    <3>2. Len(Script) \in Nat
      BY Counts
    <3>. QED
      BY <1>5, <3>1, <3>2
  <2>. QED
    BY <2>1, <2>2, <2>3
<1>7. ~InFlight /\ ~InFlight'
  BY <1>1, <1>2, <1>4, <1>6 DEF InFlight, PcLines, PcTlLow
<1>8. UnderWay' = UnderWay /\ Arrived' = Arrived
  BY <1>2, <1>6 DEF UnderWay, SendPoints, Arrived
<1>9. Taken' = Taken
  BY <1>3, <1>7, <1>8 DEF Taken
<1>10. LastByte' = LastByte
  BY <1>3, <1>9 DEF LastByte, IsTurn
<1>11. MdWire'
  BY <1>2, <1>3, <1>4, <1>6, <1>7, <1>9 DEF MdWire
<1>12. ASSUME NEW n, Got(n) PROVE Got(n)'
  BY <1>4, <1>10, <1>12 DEF Got, Waits, Has
<1>13. ASSUME NEW n, NEW i, NEW s, NEW had, Gives(n, i, s, had) PROVE Gives(n, i, s, had)'
  BY <1>4, <1>13 DEF Gives, TurnPoints, GivePoints
<1>14. Story'
  BY <1>2, <1>4, <1>8, <1>12, <1>13, StoryMoved DEF Middle
<1>. QED
  BY <1>2, <1>11, <1>14, MdKeepsLive

\* TL high: the upper nibble stands on the lines, and the byte is whole.
LEMMA MdRecvHighLive ==
  ASSUME Live, Typed', MdPrim, MdRecvHigh PROVE Live'
<1>1. MdShape /\ MdLines /\ Joint /\ PcLines
  BY DEF Live, Typed, HandInv
<1>2. MdKeep /\ UNCHANGED <<pc, job, before, used, cpu, ram, jumps>> /\ MdWire
  BY DEF MdPrim, MdKeep, pcHas, Live
<1>3. Script' = Script /\ Started' = Started
  BY <1>2, MdScript
<1>4. PICK n \in MdSees : md' = [md EXCEPT !.at = IF md.last THEN "done" ELSE "recvNext",
                                          !.byte = <<Low(md.byte), n>>]
  BY DEF MdRecvHigh
<1>5. /\ md.at = "recvHigh" /\ md'.at \in {"done", "recvNext"} /\ pc.tl = 1
      /\ md'.byte = <<Low(md.byte), n>> /\ md'.dir = md.dir /\ md.dir = "th"
  BY <1>1, <1>4 DEF MdRecvHigh, MdShape, MdLines, RecvPoints
<1>6. InFlight /\ ~InFlight'
  BY <1>5 DEF InFlight
<1>7. /\ Taken < Len(Script) /\ Script[Taken + 1].call = "send"
      /\ Low(md.byte) = Low(Script[Taken + 1].byte)
      /\ pc.out /\ pc.data = High(Script[Taken + 1].byte)
      /\ pc.at \in {"done", "sendLow", "toIn", "toOut", "finish"}
  BY <1>2, <1>5, <1>6 DEF MdWire
<1>8. n = High(Script[Taken + 1].byte)
  BY <1>5, <1>7 DEF MdSees, MdDrivesData
<1>9. UnderWay' = UnderWay /\ Arrived' = Arrived
  BY <1>2, <1>7 DEF UnderWay, SendPoints, Turns, Arrived
<1>10. Started \in 0..Len(Script) /\ Len(Script) \in Nat /\ Taken \in Int /\ Script \in CallSeq
  BY Counts
<1>11. Taken' = Taken + 1
  BY <1>3, <1>6, <1>9, <1>10 DEF Taken
<1>12. CASE Taken + 1 \in 1..Len(Script)
  <2>1. Script[Taken + 1] \in CallSet /\ Script[Taken + 1].call = "send"
    BY <1>7, <1>10, <1>12 DEF CallSeq
  <2>2. md'.byte = Script[Taken + 1].byte
    <3>1. Script[Taken + 1].byte \in Byte
      BY <2>1 DEF CallSet
    <3>. QED
      BY <1>5, <1>7, <1>8, <3>1 DEF Byte, Low, High
  <2>3. After(LastByte) = Taken + 1
    BY <1>12, <2>1, Pending DEF Turns
  <2>4. LastByte' = Taken + 1
    <3>1. ~IsTurn(Taken + 1)
      BY <2>1 DEF IsTurn, Turns
    <3>2. ~IsTurn(Taken)'
      BY <1>3, <1>11, <3>1 DEF IsTurn
    <3>. QED
      BY <1>11, <3>2 DEF LastByte
  <2>5. MdWire'
    BY <1>2, <1>5, <1>6, <1>7 DEF MdWire
  <2>6. ASSUME NEW k, Got(k) PROVE Got(k)'
    <3>1. LastByte = k
      BY <1>5, <2>6 DEF Got, Has
    <3>2. After(k)' = After(k)
      BY <1>2, MdScript
    <3>3. Has'
      BY <1>5 DEF Has
    <3>. QED
      BY <1>3, <2>2, <2>3, <2>4, <3>1, <3>2, <3>3 DEF Got
  <2>7. ASSUME NEW k, NEW i, NEW s, NEW had, Gives(k, i, s, had) PROVE Gives(k, i, s, had)'
    BY <1>5, <2>7 DEF Gives, TurnPoints, GivePoints
  <2>8. Story'
    BY <1>2, <1>5, <1>9, <2>6, <2>7, StoryMoved DEF Middle
  <2>. QED
    BY <1>2, <2>5, <2>8, MdKeepsLive
<1>13. CASE Taken + 1 \notin 1..Len(Script)
  <2>1. Taken < 0
    BY <1>7, <1>10, <1>13
  <2>2. LastByte < 0
    BY <1>10, <2>1 DEF LastByte
  <2>3. Taking
    <3>1. ~Giving
      BY <1>5, GivingIs DEF TurnPoints, GivePoints
    <3>. QED
      BY <1>5, <3>1, Phases DEF Resting, Asking, Between
  <2>4. PICK k \in Nat : Got(k)
    BY <2>3 DEF Taking
  <2>5. LastByte = k
    BY <1>5, <2>4 DEF Got, Has
  <2>. QED
    BY <2>2, <2>5
<1>. QED
  BY <1>12, <1>13


LEMMA GivenOneMore ==
  ASSUME NEW s \in Seq(Byte), NEW had \in Seq(Byte), NEW i \in 1..Len(s)
  PROVE  Append(had \o SubSeq(s, 1, i - 1), s[i]) = had \o SubSeq(s, 1, i)
<1>1. PICK n \in Nat : n = Len(s)
  OBVIOUS
<1>2. i \in Nat /\ i - 1 \in Nat /\ i <= n
  BY <1>1
<1>3. PICK t : t = SubSeq(s, 1, i - 1)
  OBVIOUS
<1>4. PICK u : u = SubSeq(s, 1, i)
  OBVIOUS
<1>5. /\ t \in Seq(Byte) /\ Len(t) = i - 1 /\ \A k \in 1..(i - 1) : t[k] = s[k]
  BY <1>1, <1>2, <1>3
<1>6. /\ u \in Seq(Byte) /\ Len(u) = i /\ \A k \in 1..i : u[k] = s[k]
  BY <1>1, <1>2, <1>4
<1>7. u = Append(t, s[i])
  <2>1. s[i] \in Byte
    OBVIOUS
  <2>2. Append(t, s[i]) \in Seq(Byte) /\ Len(Append(t, s[i])) = i
    BY <1>2, <1>5, <2>1
  <2>3. \A k \in 1..i : Append(t, s[i])[k] = s[k]
    BY <1>2, <1>5
  <2>. QED
    BY <1>2, <1>6, <2>2, <2>3
<1>8. s[i] \in Byte
  OBVIOUS
<1>9. PICK b : b = s[i]
  OBVIOUS
<1>10. ASSUME NEW x \in Seq(Byte), NEW c \in Byte PROVE Append(had \o x, c) = had \o Append(x, c)
  <2>1. <<c>> \in Seq(Byte) /\ had \o x \in Seq(Byte)
    OBVIOUS
  <2>2. Append(had \o x, c) = (had \o x) \o <<c>> /\ Append(x, c) = x \o <<c>>
    BY <2>1, AppendIsConcat, Zenon
  <2>3. (had \o x) \o <<c>> = had \o (x \o <<c>>)
    BY <2>1, ConcatAssociative
  <2>. QED
    BY <2>2, <2>3
<1>. QED
  BY <1>3, <1>4, <1>5, <1>7, <1>8, <1>10

\* TH high: the upper nibble stands on the lines; the PC has the byte when it reads it.
LEMMA MdSendPutHighLive ==
  ASSUME Live, Typed', MdPrim, MdSendPutHigh PROVE Live'
<1>1. MdShape /\ MdLines /\ Joint /\ PcLines
  BY DEF Live, Typed, HandInv
<1>2. MdKeep /\ UNCHANGED <<pc, job, before, used, cpu, ram, jumps>> /\ MdWire /\ PcWire
  BY DEF MdPrim, MdKeep, pcHas, Live
<1>3. Script' = Script /\ Started' = Started
  BY <1>2, MdScript
<1>4. /\ md.at = "sendPutHigh" /\ md'.at = "done" /\ md'.byte = md.byte /\ md'.dir = md.dir
      /\ md'.th = 1 /\ md'.data = High(md.byte) /\ md.dir = "data" /\ md.th = 0
  BY <1>1 DEF MdSendPutHigh, MdWrite, MdShape, MdLines
<1>5. TH = 0 /\ TH' = 1
  BY <1>4 DEF TH
<1>6. Started \in 0..Len(Script) /\ Len(Script) \in Nat /\ Script \in CallSeq /\ LastByte \in Int
  BY Counts
<1>7. pc.at = "recvHigh"
  <2>1. pc.at \in {"recvHigh", "off"}
    BY <1>1, <1>4 DEF Joint
  <2>2. ASSUME pc.at = "off" PROVE FALSE
    <3>1. job.calls = <<>>
      BY <1>2, <2>2 DEF PcWire
    <3>2. Started = Len(Script)
      BY <1>6, <3>1 DEF Started
    <3>3. Taken = Len(Script)
      BY <1>4, <1>6, <2>2, <3>2 DEF Taken, UnderWay, InFlight, SendPoints, TakePoints, Turns
    <3>4. ~IsTurn(Len(Script))
      BY <1>6, Counts DEF Legal, IsTurn, Turns
    <3>5. LastByte = Len(Script)
      BY <3>3, <3>4 DEF LastByte
    <3>6. After(LastByte) \notin 1..Len(Script)
      BY <1>6, <3>5 DEF After, IsTurn
    <3>7. Giving
      <4>1. ~Taking
        BY <1>4, TakingIs DEF RecvPoints
      <4>. QED
        BY <1>4, <4>1, Phases DEF Resting, Asking, Between
    <3>. QED
      BY <1>4, <3>6, <3>7, GivingIs DEF GivePoints
  <2>. QED
    BY <2>1, <2>2
<1>8. /\ Started \in 1..Len(Script) /\ Script[Started].call = "recv"
      /\ Taken = Started - 1 /\ After(LastByte) = Started
  BY <1>5, <1>7, PcTakes
<1>9. Low(pc.byte) = Low(md.byte)
  BY <1>2, <1>5, <1>7 DEF MdWire
<1>10. ~InFlight' /\ ~UnderWay'
  BY <1>2, <1>4, <1>5, <1>7 DEF InFlight, UnderWay, SendPoints, TakePoints, Turns
<1>11. Taken' = Started
  BY <1>3, <1>6, <1>10 DEF Taken
<1>12. LastByte' = After(LastByte)
  <2>1. ~IsTurn(Taken)'
    BY <1>3, <1>8, <1>11 DEF IsTurn, Turns
  <2>. QED
    BY <1>8, <1>11, <2>1 DEF LastByte
<1>13. md.byte \in Byte
  BY DEF Live, Typed, TransferTypeOK, MdState
<1>14. Arrived = job.rd /\ Arrived' = Append(job.rd, md.byte)
  <2>1. Arrived = job.rd
    BY <1>5, <1>7 DEF Arrived
  <2>2. Arrived' = Append(job.rd, <<Low(pc.byte), High(md.byte)>>)
    BY <1>2, <1>4, <1>5, <1>7 DEF Arrived
  <2>3. <<Low(md.byte), High(md.byte)>> = md.byte
    BY <1>13 DEF Byte, Low, High
  <2>. QED
    BY <1>9, <2>1, <2>2, <2>3
<1>15. MdWire'
  BY <1>2, <1>4, <1>5, <1>7, <1>10 DEF MdWire
<1>16. ASSUME NEW n, Got(n) PROVE FALSE
  BY <1>4, <1>16 DEF Got, Waits, Has
\* The byte given is now one of those that have arrived.
<1>17. ASSUME NEW n \in Nat, NEW i \in Int, NEW s \in Seq(Byte), NEW had \in Seq(Byte), Gives(n, i, s, had)
       PROVE  Gives(n, i, s, had)'
  <2>1. /\ i \in 1..Len(s) /\ md.byte = s[i] /\ LastByte = (IF i = 1 THEN n ELSE n + i)
        /\ Arrived = had \o SubSeq(s, 1, i - 1)
    BY <1>4, <1>17 DEF Gives, TurnPoints
  <2>2. Arrived' = had \o SubSeq(s, 1, i)
    BY <1>14, <2>1, GivenOneMore
  <2>3. After(IF i = 1 THEN n ELSE n + i)' = After(LastByte)
    BY <1>2, <2>1, MdScript
  <2>. QED
    BY <1>4, <1>12, <2>1, <2>2, <2>3 DEF Gives
<1>18. Story'
  BY <1>2, <1>4, <1>16, <1>17, StoryMoved DEF Middle
<1>. QED
  BY <1>2, <1>15, <1>18, MdKeepsLive

-----------------------------------------------------------------------------
(* The console's handlers: what they do with the byte they have taken.     *)

\* A primitive is done and the console starts another.
Goes(at) ==
  /\ md.at = "done" /\ MdKeep /\ at \in {"recvClr", "sendLow", "swLow", "input", "return", "hang"}
  /\ md'.at = at /\ md'.dir = md.dir /\ md'.th = md.th /\ md'.data = md.data

LEMMA HandlerKeeps ==
  ASSUME Live, NEW at, Goes(at)
  PROVE  /\ LastByte' = LastByte /\ Arrived' = Arrived /\ Script' = Script /\ MdWire'
         /\ UNCHANGED <<pc, job, before, used>> /\ pc.at \notin {"startHigh", "startAck"}
         /\ \A n : After(n)' = After(n)
<1>1. MdShape /\ MdLines /\ Joint /\ MdWire
  BY DEF Live, Typed, HandInv
<1>2. UNCHANGED <<pc, job, before, used>> /\ MdKeep /\ md.at = "done"
  BY DEF Goes, MdKeep, pcHas
<1>3. TH' = TH
  BY DEF Goes, TH
<1>4. md.at # "recvHigh" /\ md'.at # "recvHigh"
  BY DEF Goes
<1>5. LastByte' = LastByte /\ Arrived' = Arrived /\ Taken' = Taken /\ ~InFlight'
  BY <1>2, <1>3, <1>4, Quiet DEF Goes
<1>6. pc.at \notin {"startHigh", "startAck"}
  BY <1>1, <1>2 DEF Joint, Asleep
\* A console that is done with a byte it sent has TH high.
<1>7. ~(pc.at = "recvTlHigh" \/ (pc.at = "recvHigh" /\ TH = 0))
  <2>1. md.dir = "data" => TH = 1
    BY <1>1, <1>2 DEF MdLines, TH
  <2>2. pc.at # "recvTlHigh"
    BY <1>1, <1>2 DEF Joint, Asleep, MdLow, MdWire
  <2>3. pc.at = "recvHigh" => md.dir = "data"
    BY <1>1 DEF MdWire
  <2>. QED
    BY <2>1, <2>2, <2>3
<1>8. MdWire'
  BY <1>1, <1>2, <1>3, <1>5, <1>7 DEF MdWire, Goes
<1>. QED
  BY <1>2, <1>5, <1>6, <1>8, MdScript

\* What is left to show of a handler.
LEMMA HandlerLive ==
  ASSUME Live, Typed', NEW at, Goes(at), Story' PROVE Live'
<1>1. MdWire' /\ pc.at \notin {"startHigh", "startAck"}
  BY HandlerKeeps, SMTT(30)
<1>. QED
  BY <1>1, MdKeepsLive DEF Goes

\* Where the story is when a handler runs.
LEMMA StageIs ==
  ASSUME Live, md.at = "done"
  PROVE  /\ cpu.stage = "prefix" => InPrefix
         /\ cpu.stage = "cmd" => InCmd
         /\ cpu.stage = "args" => InArgs
         /\ cpu.stage = "send" => InSend
         /\ cpu.stage = "recv" => InRecv
         /\ cpu.stage = "vram" => InVram
         /\ cpu.stage = "load" => InLoad
         /\ cpu.stage = "count" => InCount
         /\ cpu.stage = "ioNext" => InNext
         /\ cpu.stage = "ioOp" => InOp
         /\ cpu.stage = "ioWrite" => InWrite
         /\ cpu.stage = "ioRead" => InRead
         /\ cpu.stage = "ioSend" => InGive
BY Zenon DEF Live, Story, InPrefix, InCmd, InArgs, InSend, InRecv, InVram, InLoad, InCount,
       InNext, InOp, InWrite, InRead, InGive

LEMMA NoFault == ASSUME Live, md.at = "done" PROVE cpu.stage # "fault"
BY Zenon DEF Live, Story, InPrefix, InCmd, InArgs, InSend, InRecv, InVram, InLoad, InCount,
       InNext, InOp, InWrite, InRead, InGive

\* The story when the console goes on, in any of its stages.
LEMMA GoesOn ==
  ASSUME md'.at \in Middle,
         (\/ InPrefix \/ InCmd \/ InArgs \/ InSend \/ InRecv \/ InVram \/ InLoad
          \/ InCount \/ InNext \/ InOp \/ InWrite \/ InRead \/ InGive)'
  PROVE  Story'
<1>1. Middle = MdPoints \ {"idle", "return", "hang", "startTh", "askLow", "boot"}
  BY DEF Middle, MdPoints
<1>. QED
  BY <1>1 DEF Story

\* The byte taken is the one the PC's script has there.
LEMMA Took ==
  ASSUME md.at = "done", NEW n, NEW m, NEW b, Got(n), NextIs(n, m, b)
  PROVE  LastByte = m /\ md.byte = b /\ m \in 1..Len(Script)
<1>1. LastByte = After(n) /\ md.byte = Script[LastByte].byte
  BY DEF Got, Waits, Has
<1>. QED
  BY <1>1 DEF NextIs

LEMMA AsksNext ==
  ASSUME Live, Goes("recvClr"), NEW n, LastByte = n PROVE Got(n)'
<1>1. LastByte' = LastByte
  BY HandlerKeeps
<1>. QED
  BY <1>1 DEF Got, Waits, Goes

LEMMA StillNothing ==
  ASSUME Live, NEW at, Goes(at), Nothing, ram' = ram PROVE Nothing'
BY HandlerKeeps DEF Nothing

LEMMA GoesBy ==
  ASSUME Live, md.at = "done", MdKeep
  PROVE  /\ \A last : md' = MdRecv(last) => Goes("recvClr")
         /\ \A b : md' = MdSend(b) => Goes("sendLow") /\ md'.byte = b
         /\ \A at \in {"swLow", "input", "return", "hang"} : md' = MdStart(at) => Goes(at)
<1>1. MdShape
  BY DEF Live, Typed, HandInv
<1>. QED
  BY <1>1 DEF Goes, MdRecv, MdSend, MdStart, MdShape

LEMMA MdPrefixLive == ASSUME Live, Typed', MdPrefix PROVE Live'
<1>1. md.at = "done" /\ cpu.stage = "prefix" /\ MdKeep /\ UNCHANGED <<ram, jumps>> /\ MdShape
  BY DEF MdPrefix, Live, Typed, HandInv
<1>2. InPrefix /\ Says(job.req)
  BY <1>1, StageIs, ScriptSays DEF Live
<1>3. LastByte = 1 /\ md.byte = CmdPrefix
  BY <1>1, <1>2, Took DEF InPrefix, Says
<1>4. Goes("recvClr") /\ cpu'.stage = "cmd" /\ cpu'.acc = <<>>
  BY <1>1, <1>3, GoesBy DEF MdPrefix, Recv, MdShape
<1>5. InCmd'
  BY <1>1, <1>2, <1>3, <1>4, AsksNext, StillNothing DEF InCmd, InPrefix
<1>6. Story'
  BY <1>4, <1>5, GoesOn DEF Goes, Middle
<1>. QED
  BY <1>4, <1>6, HandlerLive

LEMMA NoneYet == ASSUME NEW S, NEW s \in Seq(S) PROVE SubSeq(s, 1, 0) = <<>>
OBVIOUS

LEMMA MdCommandLive == ASSUME Live, Typed', MdCommand PROVE Live'
<1>1. md.at = "done" /\ cpu.stage = "cmd" /\ MdKeep /\ UNCHANGED <<ram, jumps>> /\ MdShape
  BY DEF MdCommand, Live, Typed, HandInv
<1>2. InCmd /\ Says(job.req) /\ job.req \in Requests /\ Encodable(job.req)
  BY <1>1, StageIs, ScriptSays DEF Live
<1>3. PICK c : c = job.req.cmd
  OBVIOUS
<1>4. LastByte = 2 /\ md.byte = Code[c] /\ Nothing /\ Arrived = <<>>
  BY <1>1, <1>2, <1>3, Took DEF InCmd, Says, Nothing
<1>5. c \in DOMAIN Code
  BY <1>2, <1>3, RequestIs
<1>6. IsCommand(md.byte) /\ Command(md.byte) = c
  BY <1>4, <1>5, CodesDiffer
<1>7. /\ md' = CASE c = "loadstate" -> MdRecv(FALSE)
                 [] c = "recvvram"  -> MdStart("swLow")
                 [] OTHER           -> MdRecv(TRUE)
      /\ cpu' = [cpu EXCEPT
           !.stage = CASE c = "loadstate" -> "load" [] c = "recvvram" -> "vram"
                       [] c = "io" -> "count" [] OTHER -> "args",
           !.cmd = c, !.acc = <<>>, !.addr = 0,
           !.left = CASE c = "loadstate" -> LoadBytes [] c = "recvvram" -> VramBytes
                      [] OTHER -> 0]
  BY <1>6 DEF MdCommand
<1>8. /\ cpu'.cmd = c /\ cpu'.acc = <<>> /\ cpu'.addr = 0
      /\ cpu'.stage = (CASE c = "loadstate" -> "load" [] c = "recvvram" -> "vram"
                         [] c = "io" -> "count" [] OTHER -> "args")
      /\ cpu'.left = (CASE c = "loadstate" -> LoadBytes [] c = "recvvram" -> VramBytes
                         [] OTHER -> 0)
  BY <1>1, <1>7 DEF MdShape
<1>9. Len(cpu'.acc) = 0
  BY <1>8
<1>10. ASSUME NEW at, Goes(at) PROVE Nothing' /\ job' = job /\ LastByte' = 2 /\ Arrived' = <<>>
  BY <1>1, <1>4, <1>10, StillNothing, HandlerKeeps
<1>11. CASE c \in {"send", "recv", "jump"}
  <2>1. Goes("recvClr") /\ cpu'.stage = "args"
    BY <1>1, <1>7, <1>8, <1>11, GoesBy
  <2>2. PICK s : s = AddrBytes(job.req)
    OBVIOUS
  <2>3. s \in Seq(Byte) /\ Len(s) > 0 /\ SubSeq(s, 1, 0) = <<>>
    BY <1>2, <1>3, <1>11, <2>2, AddrBytesAre, NoneYet
  <2>4. AddrBytes(job.req)' = s
    BY <1>10, <2>1, <2>2 DEF AddrBytes
  <2>5. Got(2)'
    BY <1>4, <2>1, AsksNext
  <2>6. InArgs'
    BY <1>3, <1>8, <1>9, <1>10, <1>11, <2>1, <2>3, <2>4, <2>5 DEF InArgs
  <2>7. Story'
    BY <2>1, <2>6, GoesOn DEF Goes, Middle
  <2>. QED
    BY <2>1, <2>7, HandlerLive
<1>12. CASE c = "io"
  <2>1. Goes("recvClr") /\ cpu'.stage = "count"
    BY <1>1, <1>7, <1>8, <1>12, GoesBy
  <2>2. job.req.ops \in Seq(IoOps) /\ Len(job.req.ops) \in Nat
    <3>1. job.req.ops \in Seq(IoOps)
      BY <1>2, <1>3, <1>12, RequestIs
    <3>2. PICK ops : ops = job.req.ops
      OBVIOUS
    <3>3. ops \in Seq(IoOps)
      BY <3>1, <3>2
    <3>4. Len(ops) \in Nat
      BY <3>3
    <3>. QED
      BY <3>1, <3>2, <3>4
  <2>3. PICK s : s = Tail(Bytes3(Len(job.req.ops)))
    OBVIOUS
  <2>4. s \in Seq(Byte) /\ SubSeq(s, 1, 0) = <<>>
    BY <2>2, <2>3, Bytes3Are, NoneYet
  <2>5. Got(2)'
    BY <1>4, <2>1, AsksNext
  <2>6. InCount'
    <3>1. PICK i : i = Len(cpu'.acc)
      OBVIOUS
    <3>2. i = 0 /\ 0 < 2 /\ 2 + i = 2
      BY <1>9, <3>1
    <3>3. Got(2 + i)'
      BY <2>5, <3>2
    <3>4. (Tail(Bytes3(Len(job.req.ops))))' = s
      BY <1>10, <2>1, <2>3
    <3>5. cpu'.acc = SubSeq(s, 1, i) /\ i < 2
      BY <1>8, <2>4, <3>2
    <3>6. job'.req.cmd = "io" /\ Nothing'
      BY <1>3, <1>10, <1>12, <2>1
    <3>. QED
      BY <2>1, <3>1, <3>3, <3>4, <3>5, <3>6 DEF InCount
  <2>7. Story'
    BY <2>1, <2>6, GoesOn DEF Goes, Middle
  <2>. QED
    BY <2>1, <2>7, HandlerLive
<1>13. CASE c = "loadstate"
  <2>1. Goes("recvClr") /\ cpu'.stage = "load" /\ cpu'.left = LoadBytes
    BY <1>1, <1>7, <1>8, <1>13, GoesBy
  <2>2. job.req.data \in Seq(Byte) /\ Len(job.req.data) = LoadBytes + LoadRegs
    BY <1>2, <1>3, <1>13, RequestIs
  <2>3. Len(job.req.data) > 0
    BY <1>2, <1>3, <1>13, <2>2 DEF Encodable
  <2>4. SubSeq(job.req.data, 1, 0) = <<>>
    BY <2>2, NoneYet
  <2>5. Got(2)'
    BY <1>4, <2>1, AsksNext
  <2>6. LoadBytes - 0 = LoadBytes
    BY BoundsAssumption
  <2>7. InLoad'
    <3>1. PICK i : i = Len(cpu'.acc)
      OBVIOUS
    <3>2. i = 0 /\ 2 + i = 2
      BY <1>9, <3>1
    <3>3. Got(2 + i)' /\ cpu'.left = LoadBytes - i
      BY <2>1, <2>5, <2>6, <3>2
    <3>4. job' = job /\ job'.req.cmd = "loadstate" /\ Nothing'
      BY <1>3, <1>10, <1>13, <2>1
    <3>5. cpu'.acc = SubSeq(job'.req.data, 1, i) /\ i < Len(job'.req.data)
      BY <1>8, <2>3, <2>4, <3>2, <3>4
    <3>. QED
      BY <2>1, <3>1, <3>3, <3>4, <3>5 DEF InLoad
  <2>8. Story'
    BY <2>1, <2>7, GoesOn DEF Goes, Middle
  <2>. QED
    BY <2>1, <2>8, HandlerLive
<1>14. CASE c = "recvvram"
  <2>1. Goes("swLow") /\ cpu'.stage = "vram" /\ cpu'.left = VramBytes
    BY <1>1, <1>7, <1>8, <1>14, GoesBy
  <2>2. VramBytes - 0 = VramBytes
    BY BoundsAssumption
  <2>3. Gives(2, 0, [k \in 1..VramBytes |-> VramByte(k - 1)], <<>>)'
    BY <1>10, <2>1 DEF Gives, TurnPoints, Goes
  <2>4. ram' = before'
    BY <1>10, <2>1 DEF Nothing
  <2>5. InVram'
    BY <1>3, <1>8, <1>10, <1>14, <2>1, <2>2, <2>3, <2>4 DEF InVram
  <2>6. Story'
    BY <2>1, <2>5, GoesOn DEF Goes, Middle
  <2>. QED
    BY <2>1, <2>6, HandlerLive
<1>. QED
  BY <1>5, <1>11, <1>12, <1>13, <1>14 DEF Code

\* One more byte of what is being collected.
LEMMA OneMore ==
  ASSUME NEW S, NEW s \in Seq(S), NEW i \in 0..(Len(s) - 1)
  PROVE  /\ Append(SubSeq(s, 1, i), s[i + 1]) = SubSeq(s, 1, i + 1)
         /\ Len(SubSeq(s, 1, i + 1)) = i + 1
<1>1. Len(s) \in Nat /\ i \in Nat /\ i + 1 <= Len(s) /\ s[i + 1] \in S
  OBVIOUS
<1>2. PICK t : t = SubSeq(s, 1, i)
  OBVIOUS
<1>3. PICK u : u = SubSeq(s, 1, i + 1)
  OBVIOUS
<1>4. t \in Seq(S) /\ Len(t) = i /\ \A k \in 1..i : t[k] = s[k]
  BY <1>1, <1>2
<1>5. u \in Seq(S) /\ Len(u) = i + 1 /\ \A k \in 1..(i + 1) : u[k] = s[k]
  BY <1>1, <1>3
<1>6. Append(t, s[i + 1]) \in Seq(S) /\ Len(Append(t, s[i + 1])) = i + 1
  BY <1>1, <1>4
<1>7. \A k \in 1..(i + 1) : Append(t, s[i + 1])[k] = s[k]
  BY <1>1, <1>4
<1>8. Append(t, s[i + 1]) = u
  BY <1>1, <1>5, <1>6, <1>7
<1>. QED
  BY <1>2, <1>3, <1>5, <1>8

LEMMA WholeSeq == ASSUME NEW S, NEW s \in Seq(S) PROVE SubSeq(s, 1, Len(s)) = s
<1>1. Len(s) \in Nat
  OBVIOUS
<1>2. PICK u : u = SubSeq(s, 1, Len(s))
  OBVIOUS
<1>3. u \in Seq(S) /\ Len(u) = Len(s) /\ \A k \in 1..Len(s) : u[k] = s[k]
  BY <1>1, <1>2
<1>. QED
  BY <1>2, <1>3

LEMMA SixBytes ==
  ASSUME NEW s \in Seq(Byte), NEW t \in Seq(Byte), Len(s) = 3, Len(t) = 3
  PROVE  SubSeq(s \o t, 1, 3) = s /\ SubSeq(s \o t, 4, 6) = t
<1>1. PICK u : u = s \o t
  OBVIOUS
<1>2. u \in Seq(Byte) /\ Len(u) = 6 /\ \A i \in 1..3 : u[i] = s[i] /\ u[3 + i] = t[i]
  <2>1. /\ u \in Seq(Byte) /\ Len(u) = Len(s) + Len(t)
        /\ \A i \in 1..Len(s) : u[i] = s[i]
        /\ \A i \in 1..Len(t) : u[Len(s) + i] = t[i]
    BY <1>1, JoinedBytes
  <2>2. Len(s) + Len(t) = 6 /\ 1..Len(s) = 1..3 /\ 1..Len(t) = 1..3
    OBVIOUS
  <2>. QED
    BY <2>1, <2>2
<1>3. PICK x : x = SubSeq(u, 1, 3)
  OBVIOUS
<1>4. PICK y : y = SubSeq(u, 4, 6)
  OBVIOUS
<1>5. x \in Seq(Byte) /\ Len(x) = 3 /\ x[1] = u[1] /\ x[2] = u[2] /\ x[3] = u[3]
  BY <1>2, <1>3
<1>6. y \in Seq(Byte) /\ Len(y) = 3 /\ y[1] = u[4] /\ y[2] = u[5] /\ y[3] = u[6]
  <2>1. y = [k \in 1..3 |-> u[4 + k - 1]]
    BY <1>2, <1>4 DEF SubSeq
  <2>2. \A k \in 1..3 : 4 + k - 1 \in 1..6
    OBVIOUS
  <2>6. \A k \in 1..6 : u[k] \in Byte
    <3>1. u \in Seq(Byte) /\ Len(u) = 6
      BY <1>2
    <3>2. \A k \in 1..Len(u) : u[k] \in Byte
      BY <3>1, ElementOfSeq
    <3>. QED
      BY <3>1, <3>2
  <2>3. \A k \in 1..3 : u[4 + k - 1] \in Byte
    BY <2>2, <2>6
  <2>4. y \in Seq(Byte) /\ Len(y) = 3
    BY <2>1, <2>3
  <2>5. y[1] = u[4 + 1 - 1] /\ y[2] = u[4 + 2 - 1] /\ y[3] = u[4 + 3 - 1]
    BY <2>1
  <2>. QED
    BY <2>4, <2>5
<1>7. u[1] = s[1] /\ u[2] = s[2] /\ u[3] = s[3] /\ u[4] = t[1] /\ u[5] = t[2] /\ u[6] = t[3]
  <2>1. 1 \in 1..3 /\ 2 \in 1..3 /\ 3 \in 1..3 /\ 3 + 1 = 4 /\ 3 + 2 = 5 /\ 3 + 3 = 6
    OBVIOUS
  <2>. QED
    BY <1>2, <2>1
<1>8. x = s
  BY <1>5, <1>7
<1>9. y = t
  BY <1>6, <1>7
<1>. QED
  BY <1>1, <1>3, <1>4, <1>8, <1>9

\* What the address bytes say once they are all there.
LEMMA AddrSays ==
  ASSUME NEW r \in Requests, Encodable(r), r.cmd \in {"send", "recv", "jump"}
  PROVE  /\ Num(SubSeq(AddrBytes(r), 1, 3)) = r.addr
         /\ r.cmd = "send" => Num(SubSeq(AddrBytes(r), 4, 6)) = Len(r.data)
         /\ r.cmd = "recv" => Num(SubSeq(AddrBytes(r), 4, 6)) = r.size
<1>1. r.addr \in Nat /\ r.addr < 16777216
  BY RequestIs DEF Encodable
<1>2. PICK a : a = Bytes3(r.addr)
  OBVIOUS
<1>3. a \in Seq(Byte) /\ Len(a) = 3 /\ Num(a) = r.addr
  BY <1>1, <1>2, Bytes3Are, ThreeBytes
<1>4. CASE r.cmd = "jump"
  <2>1. AddrBytes(r) = a
    BY <1>2, <1>4 DEF AddrBytes
  <2>2. SubSeq(a, 1, 3) = a
    BY <1>3, WholeSeq
  <2>. QED
    BY <1>3, <1>4, <2>1, <2>2
<1>5. ASSUME NEW n \in Nat, n < 16777216, AddrBytes(r) = Bytes3(r.addr) \o Bytes3(n)
      PROVE  Num(SubSeq(AddrBytes(r), 1, 3)) = r.addr /\ Num(SubSeq(AddrBytes(r), 4, 6)) = n
  <2>1. PICK b : b = Bytes3(n)
    OBVIOUS
  <2>2. b \in Seq(Byte) /\ Len(b) = 3 /\ Num(b) = n
    BY <1>5, <2>1, Bytes3Are, ThreeBytes
  <2>3. AddrBytes(r) = a \o b
    BY <1>2, <1>5, <2>1
  <2>4. SubSeq(a \o b, 1, 3) = a /\ SubSeq(a \o b, 4, 6) = b
    BY <1>3, <2>2, SixBytes
  <2>. QED
    BY <1>3, <2>2, <2>3, <2>4
<1>6. CASE r.cmd = "send"
  <2>1. PICK n : n = Len(r.data)
    OBVIOUS
  <2>2. n \in Nat /\ n < 16777216
    <3>1. r.data \in Seq(Byte)
      BY <1>6, RequestIs
    <3>. QED
      BY <1>6, <2>1, <3>1 DEF Encodable
  <2>3. AddrBytes(r) = Bytes3(r.addr) \o Bytes3(n)
    BY <1>6, <2>1 DEF AddrBytes
  <2>4. Num(SubSeq(AddrBytes(r), 1, 3)) = r.addr /\ Num(SubSeq(AddrBytes(r), 4, 6)) = n
    BY <1>5, <2>2, <2>3
  <2>. QED
    BY <1>6, <2>1, <2>4
<1>7. CASE r.cmd = "recv"
  <2>1. PICK n : n = r.size
    OBVIOUS
  <2>2. n \in Nat /\ n < 16777216
    BY <1>7, <2>1, RequestIs DEF Encodable
  <2>3. AddrBytes(r) = Bytes3(r.addr) \o Bytes3(n)
    BY <1>7, <2>1 DEF AddrBytes
  <2>4. Num(SubSeq(AddrBytes(r), 1, 3)) = r.addr /\ Num(SubSeq(AddrBytes(r), 4, 6)) = n
    BY <1>5, <2>2, <2>3
  <2>. QED
    BY <1>7, <2>1, <2>4
<1>. QED
  BY <1>4, <1>6, <1>7

LEMMA ArgTaken ==
  ASSUME Live, md.at = "done", cpu.stage = "args", NEW acc, acc = Append(cpu.acc, md.byte)
  PROVE  /\ cpu.cmd = job.req.cmd /\ cpu.cmd \in {"send", "recv", "jump"} /\ Nothing
         /\ acc = SubSeq(AddrBytes(job.req), 1, Len(acc))
         /\ Len(acc) \in 1..Len(AddrBytes(job.req)) /\ LastByte = 2 + Len(acc)
         /\ Len(AddrBytes(job.req)) = IF cpu.cmd = "jump" THEN 3 ELSE 6
         /\ Len(acc) = Len(AddrBytes(job.req)) =>
              /\ Num(SubSeq(acc, 1, 3)) = job.req.addr
              /\ cpu.cmd = "send" => Num(SubSeq(acc, 4, 6)) = Len(job.req.data)
              /\ cpu.cmd = "recv" => Num(SubSeq(acc, 4, 6)) = job.req.size
<1>1. InArgs /\ Says(job.req) /\ job.req \in Requests /\ Encodable(job.req) /\ cpu.acc \in Seq(Byte)
  BY StageIs, ScriptSays DEF Live, Typed, TransferTypeOK
<1>2. PICK i \in Nat : i = Len(cpu.acc)
  BY <1>1
<1>3. PICK s : s = AddrBytes(job.req)
  OBVIOUS
<1>4. /\ cpu.cmd = job.req.cmd /\ cpu.cmd \in {"send", "recv", "jump"} /\ Nothing
      /\ i < Len(s) /\ cpu.acc = SubSeq(s, 1, i) /\ Got(2 + i)
  BY <1>1, <1>2, <1>3 DEF InArgs
<1>5. s \in Seq(Byte) /\ Len(s) = IF cpu.cmd = "jump" THEN 3 ELSE 6
  BY <1>1, <1>3, <1>4, AddrBytesAre
<1>6. i \in 0..(Len(s) - 1)
  BY <1>4, <1>5
<1>7. NextIs(2 + i, 3 + i, s[i + 1])
  BY <1>1, <1>3, <1>4, <1>6 DEF Says
<1>8. LastByte = 3 + i /\ md.byte = s[i + 1]
  BY <1>4, <1>7, Took
<1>9. acc = SubSeq(s, 1, i + 1) /\ Len(acc) = i + 1
  BY <1>4, <1>5, <1>6, <1>8, OneMore
<1>10. ASSUME i + 1 = Len(s) PROVE acc = s
  BY <1>5, <1>9, <1>10, WholeSeq
<1>11. /\ Num(SubSeq(s, 1, 3)) = job.req.addr
       /\ cpu.cmd = "send" => Num(SubSeq(s, 4, 6)) = Len(job.req.data)
       /\ cpu.cmd = "recv" => Num(SubSeq(s, 4, 6)) = job.req.size
  BY <1>1, <1>3, <1>4, AddrSays
<1>12. i + 1 \in 1..Len(s) /\ 2 + (i + 1) = 3 + i
  BY <1>5, <1>6
<1>. QED
  BY <1>3, <1>4, <1>5, <1>8, <1>9, <1>10, <1>11, <1>12

\* A console that leaves has done what the request is.
LEMMA GoesHome ==
  ASSUME Live, Goes("return"), LastByte = Len(Script), ram' = Promised(job.req, before).ram,
         Arrived = Promised(job.req, before).rd
  PROVE  Story'
<1>1. LastByte' = LastByte /\ Arrived' = Arrived /\ Script' = Script /\ UNCHANGED <<job, before>>
  BY HandlerKeeps
<1>2. Promised(job.req, before)' = Promised(job.req, before)
  BY <1>1 DEF Promised
<1>3. md'.at = "return"
  BY DEF Goes
<1>4. Complete'
  BY <1>1, <1>2 DEF Complete
<1>. QED
  BY <1>3, <1>4 DEF Story

LEMMA MdArgsLive == ASSUME Live, Typed', MdArgs PROVE Live'
<1>1. md.at = "done" /\ cpu.stage = "args" /\ MdKeep /\ ram' = ram /\ MdShape
  BY DEF MdArgs, Live, Typed, HandInv
<1>2. PICK acc : acc = Append(cpu.acc, md.byte)
  OBVIOUS
<1>3. PICK s : s = AddrBytes(job.req)
  OBVIOUS
<1>4. /\ cpu.cmd = job.req.cmd /\ cpu.cmd \in {"send", "recv", "jump"} /\ Nothing
      /\ acc = SubSeq(s, 1, Len(acc)) /\ Len(acc) \in 1..Len(s) /\ LastByte = 2 + Len(acc)
      /\ Len(s) = IF cpu.cmd = "jump" THEN 3 ELSE 6
      /\ Len(acc) = Len(s) =>
           /\ Num(SubSeq(acc, 1, 3)) = job.req.addr
           /\ cpu.cmd = "send" => Num(SubSeq(acc, 4, 6)) = Len(job.req.data)
           /\ cpu.cmd = "recv" => Num(SubSeq(acc, 4, 6)) = job.req.size
  BY <1>1, <1>2, <1>3, ArgTaken
<1>5. job.req \in Requests /\ Encodable(job.req) /\ ScriptFor(job.req, Script)
  BY ScriptSays DEF Live
<1>6. ASSUME NEW at, Goes(at)
      PROVE  Nothing' /\ job' = job /\ before' = before /\ LastByte' = LastByte /\ Arrived' = <<>>
  BY <1>1, <1>4, <1>6, StillNothing, HandlerKeeps DEF Nothing
<1>7. CASE Len(acc) < Len(s)
  <2>1. md' = MdRecv(TRUE) /\ cpu' = [cpu EXCEPT !.acc = acc]
    BY <1>2, <1>4, <1>7 DEF MdArgs
  <2>2. Goes("recvClr") /\ cpu'.acc = acc /\ cpu'.stage = "args" /\ cpu'.cmd = cpu.cmd
    BY <1>1, <2>1, GoesBy DEF MdShape
  <2>3. AddrBytes(job.req)' = s
    BY <1>3, <1>6, <2>2 DEF AddrBytes
  <2>4. Got(2 + Len(acc))'
    BY <1>4, <2>2, AsksNext
  <2>5. InArgs'
    BY <1>4, <1>6, <1>7, <2>2, <2>3, <2>4 DEF InArgs
  <2>6. Story'
    BY <2>2, <2>5, GoesOn DEF Goes, Middle
  <2>. QED
    BY <2>2, <2>6, HandlerLive
<1>8. CASE Len(acc) = Len(s) /\ cpu.cmd = "jump"
  <2>1. md' = MdStart("return")
    <3>1. ~IsOdd(job.req.addr)
      <4>1. job.req.addr % 2 = 0
        BY <1>4, <1>5, <1>8 DEF Encodable
      <4>. QED
        BY <4>1 DEF IsOdd
    <3>. QED
      BY <1>2, <1>4, <1>8, <3>1 DEF MdArgs, MdLeave
  <2>2. Goes("return")
    BY <1>1, <2>1, GoesBy
  <2>3. LastByte = Len(Script)
    BY <1>4, <1>5, <1>8 DEF ScriptFor
  <2>4. Promised(job.req, before).ram = before /\ Promised(job.req, before).rd = <<>>
    BY <1>4, <1>8 DEF Promised
  <2>5. Story'
    BY <1>1, <1>4, <2>2, <2>3, <2>4, GoesHome DEF Nothing
  <2>. QED
    BY <2>2, <2>5, HandlerLive
<1>9. CASE Len(acc) = Len(s) /\ cpu.cmd = "send"
  <2>1. /\ md' = MdRecv(FALSE)
        /\ cpu' = [cpu EXCEPT !.stage = cpu.cmd, !.addr = Num(SubSeq(acc, 1, 3)), !.acc = <<>>,
                              !.left = Num(SubSeq(acc, 4, 6))]
    BY <1>2, <1>4, <1>9 DEF MdArgs
  <2>2. /\ Goes("recvClr") /\ cpu'.stage = "send" /\ cpu'.addr = job.req.addr
        /\ cpu'.left = Len(job.req.data)
    BY <1>1, <1>4, <1>9, <2>1, GoesBy DEF MdShape
  <2>3. Got(8)'
    BY <1>4, <1>9, <2>2, AsksNext
  <2>4. job.req.addr \in Nat /\ job.req.data \in Seq(Byte) /\ Len(job.req.data) > 0
    <3>1. job.req.addr \in Nat /\ job.req.data \in Seq(Byte)
      BY <1>4, <1>5, <1>9, RequestIs
    <3>2. Len(job.req.data) > 0
      BY <1>4, <1>5, <1>9 DEF Encodable
    <3>. QED
      BY <3>1, <3>2
  <2>5. PICK i : i = cpu'.addr - job'.req.addr
    OBVIOUS
  <2>6. i = 0
    BY <1>6, <2>2, <2>4, <2>5
  <2>7. ram' = Poke(before, job.req.addr, SubSeq(job.req.data, 1, 0))
    <3>1. SubSeq(job.req.data, 1, 0) = <<>>
      BY <2>4, NoneYet
    <3>2. Poke(before, job.req.addr, <<>>) = before
      BY DEF Poke, Live, Typed, TransferTypeOK
    <3>. QED
      BY <1>1, <1>4, <3>1, <3>2 DEF Nothing
  <2>8. Len(job.req.data) \in Nat
    BY <2>4
  <2>9. i \in 0..(Len(job.req.data) - 1) /\ cpu'.left = Len(job.req.data) - i
    BY <2>2, <2>4, <2>6, <2>8
  <2>10. Got(8 + i)' /\ ram' = Poke(before, job.req.addr, SubSeq(job.req.data, 1, i))
    BY <2>3, <2>6, <2>7
  <2>11. InSend'
    BY <1>4, <1>6, <1>9, <2>2, <2>5, <2>9, <2>10 DEF InSend
  <2>12. Story'
    BY <2>2, <2>11, GoesOn DEF Goes, Middle
  <2>. QED
    BY <2>2, <2>12, HandlerLive
<1>10. CASE Len(acc) = Len(s) /\ cpu.cmd = "recv"
  <2>1. /\ md' = MdStart("swLow")
        /\ cpu' = [cpu EXCEPT !.stage = cpu.cmd, !.addr = Num(SubSeq(acc, 1, 3)), !.acc = <<>>,
                              !.left = Num(SubSeq(acc, 4, 6))]
    BY <1>2, <1>4, <1>10 DEF MdArgs
  <2>2. /\ Goes("swLow") /\ cpu'.stage = "recv" /\ cpu'.addr = job.req.addr
        /\ cpu'.left = job.req.size /\ cpu'.acc = <<>>
    BY <1>1, <1>4, <1>10, <2>1, GoesBy DEF MdShape
  <2>3. job.req.addr \in Nat /\ job.req.size \in Nat
    BY <1>4, <1>5, <1>10, RequestIs
  <2>4. PICK i : i = cpu'.addr - job'.req.addr
    OBVIOUS
  <2>5. i = 0 /\ cpu'.left = job.req.size - i
    BY <1>6, <2>2, <2>3, <2>4
  <2>6. LastByte' = 8 /\ Arrived' = <<>> /\ md'.at = "swLow"
    BY <1>4, <1>6, <1>10, <2>2 DEF Goes
  <2>7. \A d : Gives(8, 0, d, <<>>)'
    BY <2>6 DEF Gives, TurnPoints
  <2>8. InRecv'
    BY <1>4, <1>6, <1>10, <2>2, <2>4, <2>5, <2>7 DEF InRecv, Nothing
  <2>9. Story'
    BY <2>2, <2>8, GoesOn DEF Goes, Middle
  <2>. QED
    BY <2>2, <2>9, HandlerLive
<1>. QED
  BY <1>4, <1>7, <1>8, <1>9, <1>10

\* The address jumped to is the one asked for.
LEMMA JumpIsAsked ==
  ASSUME Live, MdArgs
  PROVE  jumps' = jumps \/ (job.req.cmd = "jump" /\ jumps' = Append(jumps, job.req.addr))
<1>1. PICK acc : acc = Append(cpu.acc, md.byte)
  OBVIOUS
<1>2. md.at = "done" /\ cpu.stage = "args"
  BY DEF MdArgs
<1>3. /\ cpu.cmd = job.req.cmd /\ Len(acc) \in 1..Len(AddrBytes(job.req))
      /\ Len(AddrBytes(job.req)) = IF cpu.cmd = "jump" THEN 3 ELSE 6
      /\ Len(acc) = Len(AddrBytes(job.req)) => Num(SubSeq(acc, 1, 3)) = job.req.addr
  BY <1>1, <1>2, ArgTaken
<1>4. CASE Len(acc) < (IF cpu.cmd = "jump" THEN 3 ELSE 6)
  <2>1. UNCHANGED jumps
    BY <1>1, <1>4 DEF MdArgs
  <2>. QED
    BY <2>1
<1>5. CASE ~(Len(acc) < (IF cpu.cmd = "jump" THEN 3 ELSE 6)) /\ cpu.cmd # "jump"
  <2>1. UNCHANGED jumps
    BY <1>1, <1>5 DEF MdArgs
  <2>. QED
    BY <2>1
<1>6. CASE ~(Len(acc) < (IF cpu.cmd = "jump" THEN 3 ELSE 6)) /\ cpu.cmd = "jump"
  <2>1. jumps' = jumps \/ jumps' = Append(jumps, Num(SubSeq(acc, 1, 3)))
    BY <1>1, <1>6 DEF MdArgs
  <2>2. Len(acc) = Len(AddrBytes(job.req))
    <3>1. Len(AddrBytes(job.req)) = 3 /\ ~(Len(acc) < 3)
      BY <1>3, <1>6
    <3>2. Len(acc) \in 1..3
      BY <1>3, <3>1
    <3>. QED
      BY <3>1, <3>2
  <2>. QED
    BY <1>3, <1>6, <2>1, <2>2
<1>. QED
  BY <1>4, <1>5, <1>6

LEMMA PokeNothing ==
  ASSUME NEW m \in [Addr -> Byte], NEW a \in Nat PROVE Poke(m, a, <<>>) = m
BY DEF Poke

LEMMA PokeOneMore ==
  ASSUME NEW m \in [Addr -> Byte], NEW a \in Nat, NEW s \in Seq(Byte), NEW i \in 0..(Len(s) - 1)
  PROVE  Poke(Poke(m, a, SubSeq(s, 1, i)), a + i, <<s[i + 1]>>) = Poke(m, a, SubSeq(s, 1, i + 1))
<1>1. Len(s) \in Nat /\ i \in Nat /\ i + 1 <= Len(s)
  OBVIOUS
<1>2. PICK t : t = SubSeq(s, 1, i)
  OBVIOUS
<1>3. PICK u : u = SubSeq(s, 1, i + 1)
  OBVIOUS
<1>4. DOMAIN t = 1..i /\ \A k \in 1..i : t[k] = s[k]
  BY <1>1, <1>2
<1>5. DOMAIN u = 1..(i + 1) /\ \A k \in 1..(i + 1) : u[k] = s[k]
  BY <1>1, <1>3
<1>6. PICK b : b = <<s[i + 1]>>
  OBVIOUS
<1>7. DOMAIN b = 1..1 /\ b[1] = s[i + 1]
  BY <1>6
<1>8. PICK p : p = Poke(m, a, t)
  OBVIOUS
<1>9. p = [x \in Addr |-> IF x - a + 1 \in DOMAIN t THEN t[x - a + 1] ELSE m[x]]
  BY <1>8 DEF Poke
<1>10. Poke(p, a + i, b) = [x \in Addr |-> IF x - (a + i) + 1 \in DOMAIN b
                                           THEN b[x - (a + i) + 1] ELSE p[x]]
  BY DEF Poke
<1>11. Poke(m, a, u) = [x \in Addr |-> IF x - a + 1 \in DOMAIN u THEN u[x - a + 1] ELSE m[x]]
  BY DEF Poke
<1>12. ASSUME NEW x \in Addr
       PROVE  (IF x - (a + i) + 1 \in DOMAIN b THEN b[x - (a + i) + 1] ELSE p[x])
                = IF x - a + 1 \in DOMAIN u THEN u[x - a + 1] ELSE m[x]
  <2>1. x \in Nat
    BY WholeNibbles
  <2>2. p[x] = IF x - a + 1 \in DOMAIN t THEN t[x - a + 1] ELSE m[x]
    BY <1>9
  <2>3. CASE x = a + i
    <3>1. x - (a + i) + 1 = 1 /\ x - a + 1 = i + 1
      BY <1>1, <2>1, <2>3
    <3>2. 1 \in DOMAIN b /\ i + 1 \in DOMAIN u /\ u[i + 1] = s[i + 1]
      BY <1>1, <1>5, <1>7
    <3>. QED
      BY <1>7, <3>1, <3>2
  <2>4. CASE x # a + i /\ x - a + 1 \in 1..i
    <3>1. x - (a + i) + 1 \notin 1..1 /\ x - a + 1 \in 1..(i + 1)
      BY <1>1, <2>1, <2>4
    <3>. QED
      BY <1>4, <1>5, <1>7, <2>2, <2>4, <3>1
  <2>5. CASE x # a + i /\ x - a + 1 \notin 1..i
    <3>1. x - (a + i) + 1 \notin 1..1 /\ x - a + 1 \notin 1..(i + 1)
      BY <1>1, <2>1, <2>5
    <3>. QED
      BY <1>4, <1>5, <1>7, <2>2, <2>5, <3>1
  <2>. QED
    BY <2>3, <2>4, <2>5
<1>13. Poke(p, a + i, b) = Poke(m, a, u)
  BY <1>10, <1>11, <1>12
<1>. QED
  BY <1>2, <1>3, <1>6, <1>8, <1>13

LEMMA MdStoreLive == ASSUME Live, Typed', MdStore PROVE Live'
<1>1. /\ md.at = "done" /\ cpu.stage = "send" /\ MdKeep /\ MdShape
      /\ ram' = Poke(ram, cpu.addr, <<md.byte>>)
      /\ cpu' = [cpu EXCEPT !.addr = @ + 1, !.left = @ - 1]
      /\ md' = IF cpu.left > 1 THEN MdRecv(FALSE) ELSE MdStart("return")
  BY DEF MdStore, Live, Typed, HandInv
<1>2. /\ cpu'.stage = "send" /\ cpu'.addr = cpu.addr + 1 /\ cpu'.left = cpu.left - 1
  BY <1>1 DEF MdShape
<1>3. /\ InSend /\ Says(job.req) /\ job.req \in Requests /\ Encodable(job.req)
      /\ ScriptFor(job.req, Script) /\ before \in [Addr -> Byte] /\ cpu.addr \in Int
  BY <1>1, StageIs, ScriptSays DEF Live, Typed, TransferTypeOK
<1>4. PICK d : d = job.req.data
  OBVIOUS
<1>5. PICK i : i = cpu.addr - job.req.addr
  OBVIOUS
<1>6. /\ job.req.cmd = "send" /\ i \in 0..(Len(d) - 1) /\ cpu.left = Len(d) - i
      /\ Got(8 + i) /\ Arrived = <<>> /\ ram = Poke(before, job.req.addr, SubSeq(d, 1, i))
  BY <1>3, <1>4, <1>5 DEF InSend
<1>7. d \in Seq(Byte) /\ job.req.addr \in Nat
  BY <1>3, <1>4, <1>6, RequestIs
<1>8. Len(d) \in Nat /\ cpu.addr = job.req.addr + i
  BY <1>3, <1>5, <1>6, <1>7
<1>9. NextIs(8 + i, 9 + i, d[i + 1])
  BY <1>3, <1>4, <1>6 DEF Says
<1>10. LastByte = 9 + i /\ md.byte = d[i + 1]
  BY <1>1, <1>6, <1>9, Took
<1>11. ram' = Poke(before, job.req.addr, SubSeq(d, 1, i + 1))
  BY <1>1, <1>3, <1>6, <1>7, <1>8, <1>10, PokeOneMore
<1>12. CASE cpu.left > 1
  <2>1. Goes("recvClr")
    BY <1>1, <1>12, GoesBy
  <2>2. job' = job /\ before' = before /\ Arrived' = <<>>
    BY <1>6, <2>1, HandlerKeeps
  <2>3. PICK j : j = cpu'.addr - job'.req.addr
    OBVIOUS
  <2>4. j = i + 1
    BY <1>2, <1>6, <1>7, <1>8, <2>2, <2>3
  <2>5. j \in 0..(Len(d) - 1) /\ cpu'.left = Len(d) - j /\ 8 + j = 9 + i
    BY <1>2, <1>6, <1>8, <1>12, <2>4
  <2>6. Got(8 + j)'
    BY <1>10, <2>1, <2>5, AsksNext
  <2>7. job'.req.data = d /\ ram' = Poke(before', job'.req.addr, SubSeq(d, 1, j))
    BY <1>4, <1>11, <2>2, <2>4
  <2>8. InSend'
    BY <1>2, <1>6, <2>2, <2>3, <2>5, <2>6, <2>7 DEF InSend
  <2>9. Story'
    BY <2>1, <2>8, GoesOn DEF Goes, Middle
  <2>. QED
    BY <2>1, <2>9, HandlerLive
<1>13. CASE ~(cpu.left > 1)
  <2>1. Goes("return")
    BY <1>1, <1>13, GoesBy
  <2>2. i + 1 = Len(d)
    BY <1>6, <1>8, <1>13
  <2>3. LastByte = Len(Script)
    BY <1>3, <1>4, <1>6, <1>8, <1>10, <2>2 DEF ScriptFor
  <2>4. ram' = Poke(before, job.req.addr, d)
    BY <1>7, <1>11, <2>2, WholeSeq
  <2>5. /\ Promised(job.req, before).ram = Poke(before, job.req.addr, job.req.data)
        /\ Promised(job.req, before).rd = <<>>
    BY <1>6 DEF Promised
  <2>6. Story'
    BY <1>4, <1>6, <2>1, <2>3, <2>4, <2>5, GoesHome
  <2>. QED
    BY <2>1, <2>6, HandlerLive
<1>. QED
  BY <1>12, <1>13

\* The console is between two bytes it gives, or done with them.
LEMMA GaveSome ==
  ASSUME Live, md.at = "done", NEW n \in Nat, NEW i \in Int, NEW s \in Seq(Byte), NEW had \in Seq(Byte),
         Len(s) > 0, TakesNext(n, Len(s)), Gives(n, i, s, had)
  PROVE  /\ i \in 0..Len(s) /\ LastByte = (IF i = 0 THEN n ELSE n + 1 + i)
         /\ Arrived = had \o SubSeq(s, 1, i) /\ (i = Len(s) => Arrived = had \o s)
<1>1. Len(s) \in Nat /\ SubSeq(s, 1, 0) = <<>> /\ had \o <<>> = had /\ SubSeq(s, 1, Len(s)) = s
  BY NoneYet, WholeSeq
<1>2. CASE i = 0
  <2>1. LastByte = n /\ Arrived = had
    BY <1>2 DEF Gives, GivePoints
  <2>. QED
    BY <1>1, <1>2, <2>1
<1>3. CASE i # 0
  <2>1. /\ i \in 1..Len(s) /\ LastByte = After(IF i = 1 THEN n ELSE n + i)
        /\ Arrived = had \o SubSeq(s, 1, i)
    BY <1>3 DEF Gives, GivePoints
  <2>2. LastByte = n + 1 + i
    <3>1. After(n) = n + 2 /\ \A k \in 2..Len(s) : After(n + k) = n + 1 + k
      BY DEF TakesNext
    <3>2. CASE i = 1
      BY <2>1, <3>1, <3>2
    <3>3. CASE i # 1
      <4>1. i \in 2..Len(s)
        BY <1>1, <2>1, <3>3
      <4>. QED
        BY <2>1, <3>1, <3>3, <4>1
    <3>. QED
      BY <3>2, <3>3
  <2>3. i \in 0..Len(s)
    BY <1>1, <2>1
  <2>4. i = Len(s) => Arrived = had \o s
    BY <1>1, <2>1
  <2>. QED
    BY <1>3, <2>1, <2>2, <2>3, <2>4
<1>. QED
  BY <1>2, <1>3

LEMMA GivesNext ==
  ASSUME Live, Goes("sendLow"), NEW n \in Nat, NEW s \in Seq(Byte), NEW i \in 0..(Len(s) - 1), NEW had,
         LastByte = (IF i = 0 THEN n ELSE n + 1 + i), Arrived = had \o SubSeq(s, 1, i),
         md'.byte = s[i + 1]
  PROVE  Gives(n, i + 1, s, had)'
<1>1. Len(s) \in Nat
  OBVIOUS
<1>2. i + 1 \in 1..Len(s) /\ (i + 1) - 1 = i
  BY <1>1
<1>3. LastByte = IF i + 1 = 1 THEN n ELSE n + (i + 1)
  BY <1>1
<1>4. LastByte' = LastByte /\ Arrived' = Arrived /\ md'.at = "sendLow"
  BY HandlerKeeps DEF Goes
<1>. QED
  BY <1>2, <1>3, <1>4 DEF Gives, GivePoints

\* Both loops of bytes given, of memory and of VRAM.
LEMMA FetchLive ==
  ASSUME Live, Typed', MdFetch, NEW n \in Nat, NEW i \in Int, NEW s \in Seq(Byte), Len(s) > 0,
         TakesNext(n, Len(s)), Gives(n, i, s, <<>>), ram = before,
         cpu.left = Len(s) - i, i = 0 <=> cpu.acc = <<>>,
         Len(Script) = n + 1 + Len(s), Promised(job.req, before) = [ram |-> before, rd |-> s],
         i < Len(s) => s[i + 1] = (IF cpu.stage = "vram" THEN VramByte(cpu.addr) ELSE Peek(ram, cpu.addr))
  PROVE  \/ Live'
         \/ /\ Goes("sendLow") /\ Gives(n, i + 1, s, <<>>)' /\ ram' = before' /\ job' = job
            /\ before' = before /\ cpu'.stage = cpu.stage /\ cpu'.addr = cpu.addr + 1
            /\ cpu'.left = Len(s) - (i + 1) /\ i + 1 # 0 /\ cpu'.acc # <<>>
<1>1. md.at = "done" /\ MdKeep /\ MdShape /\ ram' = ram
  BY DEF MdFetch, Live, Typed, HandInv
<1>2. <<>> \in Seq(Byte) /\ Len(s) \in Nat
  OBVIOUS
<1>3. /\ i \in 0..Len(s) /\ LastByte = (IF i = 0 THEN n ELSE n + 1 + i)
      /\ Arrived = <<>> \o SubSeq(s, 1, i) /\ (i = Len(s) => Arrived = <<>> \o s)
  BY <1>1, <1>2, GaveSome
<1>4. CASE cpu.acc # <<>> /\ cpu.left <= 0
  <2>1. Goes("return")
    BY <1>1, <1>4, GoesBy DEF MdFetch, MdLeave
  <2>2. i = Len(s)
    BY <1>2, <1>3, <1>4
  <2>3. LastByte = Len(Script)
    BY <1>2, <1>3, <1>4, <2>2
  <2>4. <<>> \o s = s
    OBVIOUS
  <2>5. Story'
    BY <1>1, <1>3, <2>1, <2>2, <2>3, <2>4, GoesHome
  <2>. QED
    BY <2>1, <2>5, HandlerLive
<1>5. CASE ~(cpu.acc # <<>> /\ cpu.left <= 0)
  <2>1. i \in 0..(Len(s) - 1)
    BY <1>2, <1>3, <1>5
  <2>2. PICK b : b = IF cpu.stage = "vram" THEN VramByte(cpu.addr) ELSE Peek(ram, cpu.addr)
    OBVIOUS
  <2>3. /\ md' = MdSend(b)
        /\ cpu' = [cpu EXCEPT !.addr = @ + 1, !.left = @ - 1, !.acc = <<md.byte>>]
    BY <1>5, <2>2 DEF MdFetch
  <2>4. Goes("sendLow") /\ md'.byte = b
    BY <1>1, <2>3, GoesBy
  <2>5. b = s[i + 1]
    BY <1>2, <2>1, <2>2
  <2>6. Gives(n, i + 1, s, <<>>)'
    BY <1>3, <2>1, <2>4, <2>5, GivesNext
  <2>7. /\ cpu'.stage = cpu.stage /\ cpu'.addr = cpu.addr + 1 /\ cpu'.left = cpu.left - 1
        /\ cpu'.acc = <<md.byte>>
    BY <1>1, <2>3 DEF MdShape
  <2>8. cpu'.acc # <<>>
    BY <2>7
  <2>9. cpu'.left = Len(s) - (i + 1) /\ i + 1 # 0
    BY <1>2, <2>1, <2>7
  <2>10. job' = job /\ before' = before
    BY <2>4, HandlerKeeps
  <2>. QED
    BY <1>1, <2>4, <2>6, <2>7, <2>8, <2>9, <2>10
<1>. QED
  BY <1>4, <1>5

LEMMA MdFetchLive == ASSUME Live, Typed', MdFetch PROVE Live'
<1>1. md.at = "done" /\ cpu.stage \in {"recv", "vram"}
  BY DEF MdFetch
<1>2. /\ Says(job.req) /\ job.req \in Requests /\ Encodable(job.req) /\ ScriptFor(job.req, Script)
      /\ before \in [Addr -> Byte] /\ cpu.addr \in Int
  BY ScriptSays DEF Live, Typed, TransferTypeOK
<1>3. CASE cpu.stage = "recv"
  <2>1. InRecv
    BY <1>1, <1>3, StageIs
  <2>2. PICK i : i = cpu.addr - job.req.addr
    OBVIOUS
  <2>3. PICK s : s = PeekN(before, job.req.addr, job.req.size)
    OBVIOUS
  <2>4. /\ job.req.cmd = "recv" /\ cpu.left = job.req.size - i /\ (i = 0 <=> cpu.acc = <<>>)
        /\ Gives(8, i, s, <<>>) /\ ram = before
    BY <2>1, <2>2, <2>3 DEF InRecv
  <2>5. job.req.addr \in Nat /\ job.req.size \in Nat /\ job.req.size > 0
    BY <1>2, <2>4, RequestIs DEF Encodable
  <2>6. /\ s \in Seq(Byte) /\ Len(s) = job.req.size
        /\ \A k \in 1..job.req.size : s[k] = Peek(before, job.req.addr + k - 1)
    BY <1>2, <2>3, <2>5, PeekNAre
  <2>7. TakesNext(8, Len(s)) /\ i \in Int /\ cpu.addr = job.req.addr + i
    BY <1>2, <2>2, <2>4, <2>5, <2>6 DEF Says
  <2>8. Len(Script) = 8 + 1 + Len(s)
    BY <1>2, <2>4, <2>5, <2>6 DEF ScriptFor
  <2>9. Promised(job.req, before) = [ram |-> before, rd |-> s]
    BY <2>3, <2>4 DEF Promised
  <2>10. ASSUME i < Len(s) PROVE s[i + 1] = Peek(ram, cpu.addr)
    <3>1. Len(s) > 0 /\ s \in Seq(Byte) /\ <<>> \in Seq(Byte) /\ 8 \in Nat
      BY <2>5, <2>6
    <3>2. i \in 0..Len(s)
      BY <1>1, <2>4, <2>7, <3>1, GaveSome
    <3>3. i + 1 \in 1..job.req.size /\ job.req.addr + (i + 1) - 1 = cpu.addr
      BY <2>5, <2>6, <2>7, <2>10, <3>2
    <3>. QED
      BY <2>4, <2>6, <3>3
  <2>11. \/ Live'
         \/ /\ Goes("sendLow") /\ Gives(8, i + 1, s, <<>>)' /\ ram' = before' /\ job' = job
            /\ before' = before /\ cpu'.stage = cpu.stage /\ cpu'.addr = cpu.addr + 1
            /\ cpu'.left = Len(s) - (i + 1) /\ i + 1 # 0 /\ cpu'.acc # <<>>
    <3>1. 8 \in Nat /\ cpu.left = Len(s) - i /\ Len(s) > 0
      BY <2>4, <2>5, <2>6
    <3>. QED
      BY <1>3, <2>4, <2>6, <2>7, <2>8, <2>9, <2>10, <3>1, FetchLive
  <2>12. SUFFICES ASSUME ~Live' PROVE FALSE
    OBVIOUS
  <2>13. /\ Goes("sendLow") /\ Gives(8, i + 1, s, <<>>)' /\ ram' = before' /\ job' = job
         /\ before' = before /\ cpu'.stage = "recv" /\ cpu'.addr = cpu.addr + 1
         /\ cpu'.left = job.req.size - (i + 1) /\ i + 1 # 0 /\ cpu'.acc # <<>>
    BY <1>3, <2>6, <2>11, <2>12
  <2>14. cpu'.addr - job'.req.addr = i + 1
    BY <2>5, <2>7, <2>13
  <2>15. PeekN(before, job.req.addr, job.req.size)' = s
    BY <2>3, <2>13 DEF PeekN, Peek
  <2>16. InRecv'
    BY <2>4, <2>13, <2>14, <2>15 DEF InRecv
  <2>17. Story'
    BY <2>13, <2>16, GoesOn DEF Goes, Middle
  <2>. QED
    BY <2>12, <2>13, <2>17, HandlerLive
<1>4. CASE cpu.stage = "vram"
  <2>1. InVram
    BY <1>1, <1>4, StageIs
  <2>2. PICK i : i = cpu.addr
    OBVIOUS
  <2>3. PICK s : s = [k \in 1..VramBytes |-> VramByte(k - 1)]
    OBVIOUS
  <2>4. /\ job.req.cmd = "recvvram" /\ cpu.left = VramBytes - i /\ (i = 0 <=> cpu.acc = <<>>)
        /\ Gives(2, i, s, <<>>) /\ ram = before
    BY <2>1, <2>2, <2>3 DEF InVram
  <2>5. VramBytes \in Nat /\ VramBytes > 0
    BY <1>2, <2>4, BoundsAssumption DEF Encodable
  <2>6. s \in Seq(Byte) /\ Len(s) = VramBytes
    BY <2>3, VramBytesAre
  <2>7. TakesNext(2, Len(s)) /\ i \in Int
    BY <1>2, <2>2, <2>4, <2>6 DEF Says
  <2>8. Len(Script) = 2 + 1 + Len(s)
    BY <1>2, <2>4, <2>5, <2>6 DEF ScriptFor
  <2>9. Promised(job.req, before) = [ram |-> before, rd |-> s]
    BY <2>3, <2>4 DEF Promised
  <2>10. ASSUME i < Len(s) PROVE s[i + 1] = VramByte(cpu.addr)
    <3>1. Len(s) > 0 /\ s \in Seq(Byte) /\ <<>> \in Seq(Byte) /\ 2 \in Nat
      BY <2>5, <2>6
    <3>2. i \in 0..Len(s)
      BY <1>1, <2>4, <2>7, <3>1, GaveSome
    <3>3. i + 1 \in 1..VramBytes /\ (i + 1) - 1 = cpu.addr
      BY <2>2, <2>5, <2>6, <2>7, <2>10, <3>2
    <3>. QED
      BY <2>3, <3>3
  <2>11. \/ Live'
         \/ /\ Goes("sendLow") /\ Gives(2, i + 1, s, <<>>)' /\ ram' = before' /\ job' = job
            /\ before' = before /\ cpu'.stage = cpu.stage /\ cpu'.addr = cpu.addr + 1
            /\ cpu'.left = Len(s) - (i + 1) /\ i + 1 # 0 /\ cpu'.acc # <<>>
    <3>1. 2 \in Nat /\ cpu.left = Len(s) - i /\ Len(s) > 0
      BY <2>4, <2>5, <2>6
    <3>. QED
      BY <1>4, <2>4, <2>6, <2>7, <2>8, <2>9, <2>10, <3>1, FetchLive
  <2>12. SUFFICES ASSUME ~Live' PROVE FALSE
    OBVIOUS
  <2>13. /\ Goes("sendLow") /\ Gives(2, i + 1, s, <<>>)' /\ ram' = before' /\ job' = job
         /\ cpu'.stage = "vram" /\ cpu'.addr = i + 1
         /\ cpu'.left = VramBytes - (i + 1) /\ i + 1 # 0 /\ cpu'.acc # <<>>
    BY <1>4, <2>2, <2>6, <2>11, <2>12
  <2>14. [k \in 1..VramBytes |-> VramByte(k - 1)]' = s
    BY <2>3
  <2>15. InVram'
    BY <2>4, <2>13, <2>14 DEF InVram
  <2>16. Story'
    BY <2>13, <2>15, GoesOn DEF Goes, Middle
  <2>. QED
    BY <2>12, <2>13, <2>16, HandlerLive
<1>. QED
  BY <1>1, <1>3, <1>4

LEMMA MdLoadLive == ASSUME Live, Typed', MdLoad PROVE Live'
<1>1. /\ md.at = "done" /\ cpu.stage = "load" /\ MdKeep /\ MdShape /\ UNCHANGED <<ram, jumps>>
      /\ md' = IF cpu.left + LoadRegs = 1 THEN MdStart("hang") ELSE MdRecv(cpu.left <= 1)
      /\ cpu' = [cpu EXCEPT !.left = @ - 1, !.acc = Append(@, md.byte)]
  BY DEF MdLoad, Live, Typed, HandInv
<1>2. cpu'.stage = "load" /\ cpu'.left = cpu.left - 1 /\ cpu'.acc = Append(cpu.acc, md.byte)
  BY <1>1 DEF MdShape
<1>3. /\ InLoad /\ Says(job.req) /\ job.req \in Requests /\ ScriptFor(job.req, Script)
      /\ cpu.acc \in Seq(Byte)
  BY <1>1, StageIs, ScriptSays DEF Live, Typed, TransferTypeOK
<1>4. PICK d : d = job.req.data
  OBVIOUS
<1>5. PICK i \in Nat : i = Len(cpu.acc)
  BY <1>3
<1>6. /\ job.req.cmd = "loadstate" /\ i < Len(d) /\ cpu.acc = SubSeq(d, 1, i)
      /\ cpu.left = LoadBytes - i /\ Got(2 + i) /\ Nothing
  BY <1>3, <1>4, <1>5 DEF InLoad
<1>7. d \in Seq(Byte) /\ Len(d) = LoadBytes + LoadRegs /\ LoadBytes \in Nat /\ LoadRegs \in Nat
  BY <1>3, <1>4, <1>6, RequestIs, BoundsAssumption
<1>8. i \in 0..(Len(d) - 1)
  BY <1>6, <1>7
<1>9. NextIs(2 + i, 3 + i, d[i + 1])
  BY <1>3, <1>4, <1>6, <1>8 DEF Says
<1>10. LastByte = 3 + i /\ md.byte = d[i + 1]
  BY <1>1, <1>6, <1>9, Took
<1>11. cpu'.acc = SubSeq(d, 1, i + 1) /\ Len(cpu'.acc) = i + 1
  BY <1>2, <1>6, <1>7, <1>8, <1>10, OneMore
<1>12. CASE cpu.left + LoadRegs # 1
  <2>1. Goes("recvClr")
    BY <1>1, <1>12, GoesBy
  <2>2. job' = job /\ Nothing'
    BY <1>1, <1>6, <2>1, StillNothing, HandlerKeeps
  <2>3. PICK j : j = Len(cpu'.acc)
    OBVIOUS
  <2>4. j = i + 1 /\ j < Len(d) /\ cpu'.left = LoadBytes - j /\ 2 + j = 3 + i
    BY <1>2, <1>6, <1>7, <1>8, <1>11, <1>12, <2>3
  <2>5. Got(2 + j)'
    BY <1>10, <2>1, <2>4, AsksNext
  <2>6. job'.req.data = d /\ cpu'.acc = SubSeq(d, 1, j)
    BY <1>4, <1>11, <2>2, <2>4
  <2>7. InLoad'
    BY <1>2, <1>6, <2>2, <2>3, <2>4, <2>5, <2>6 DEF InLoad
  <2>8. Story'
    BY <2>1, <2>7, GoesOn DEF Goes, Middle
  <2>. QED
    BY <2>1, <2>8, HandlerLive
<1>13. CASE cpu.left + LoadRegs = 1
  <2>1. Goes("hang")
    BY <1>1, <1>13, GoesBy
  <2>2. i + 1 = Len(d)
    BY <1>6, <1>7, <1>8, <1>13
  <2>3. LastByte = Len(Script)
    BY <1>3, <1>4, <1>6, <1>7, <1>10, <2>2 DEF ScriptFor
  <2>4. cpu'.acc = d
    BY <1>7, <1>11, <2>2, WholeSeq
  <2>5. /\ LastByte' = LastByte /\ Script' = Script /\ job' = job /\ before' = before /\ Nothing'
    BY <1>1, <1>6, <2>1, StillNothing, HandlerKeeps
  <2>6. Promised(job.req, before)' = [ram |-> before', rd |-> <<>>]
    BY <1>6, <2>5 DEF Promised
  <2>7. Complete'
    BY <2>3, <2>5, <2>6 DEF Complete, Nothing
  <2>8. Story'
    BY <1>4, <1>6, <2>1, <2>4, <2>5, <2>7 DEF Story, Goes
  <2>. QED
    BY <2>1, <2>8, HandlerLive
<1>. QED
  BY <1>12, <1>13

LEMMA MdCountLive == ASSUME Live, Typed', MdCount PROVE Live'
<1>1. md.at = "done" /\ cpu.stage = "count" /\ MdKeep /\ MdShape /\ UNCHANGED <<ram, jumps>>
  BY DEF MdCount, Live, Typed, HandInv
<1>2. PICK acc : acc = Append(cpu.acc, md.byte)
  OBVIOUS
<1>3. /\ InCount /\ Says(job.req) /\ job.req \in Requests /\ Encodable(job.req) /\ cpu.acc \in Seq(Byte)
      /\ before \in [Addr -> Byte]
  BY <1>1, StageIs, ScriptSays DEF Live, Typed, TransferTypeOK
<1>4. PICK ops : ops = job.req.ops
  OBVIOUS
<1>5. PICK s : s = Tail(Bytes3(Len(ops)))
  OBVIOUS
<1>6. PICK i \in Nat : i = Len(cpu.acc)
  BY <1>3
<1>7. job.req.cmd = "io" /\ i < 2 /\ cpu.acc = SubSeq(s, 1, i) /\ Got(2 + i) /\ Nothing
  BY <1>3, <1>4, <1>5, <1>6 DEF InCount
<1>8. ops \in Seq(IoOps) /\ Len(ops) <= 32768
  BY <1>3, <1>4, <1>7, RequestIs DEF Encodable
<1>9. Len(ops) \in Nat
  BY <1>8
<1>10. s \in Seq(Byte) /\ Len(s) = 2 /\ Num(s) = Len(ops)
  <2>1. Len(ops) < 65536
    BY <1>8, <1>9, SMT
  <2>. QED
    BY <1>5, <1>9, <2>1, Bytes3Are, TwoBytes
<1>11. i \in 0..1 /\ i \in 0..(Len(s) - 1)
  BY <1>7, <1>10
<1>12. NextIs(2 + i, 3 + i, s[i + 1])
  BY <1>3, <1>4, <1>5, <1>7, <1>11 DEF Says
<1>13. LastByte = 3 + i /\ md.byte = s[i + 1]
  BY <1>1, <1>7, <1>12, Took
<1>14. acc = SubSeq(s, 1, i + 1) /\ Len(acc) = i + 1
  BY <1>2, <1>7, <1>10, <1>11, <1>13, OneMore
<1>15. CASE Len(acc) < 2
  <2>1. md' = MdRecv(TRUE) /\ cpu' = [cpu EXCEPT !.acc = acc]
    BY <1>2, <1>15 DEF MdCount
  <2>2. Goes("recvClr") /\ cpu'.acc = acc /\ cpu'.stage = "count"
    BY <1>1, <2>1, GoesBy DEF MdShape
  <2>3. job' = job /\ Nothing'
    BY <1>1, <1>7, <2>2, StillNothing, HandlerKeeps
  <2>4. PICK j : j = Len(cpu'.acc)
    OBVIOUS
  <2>5. j = i + 1 /\ j < 2 /\ 2 + j = 3 + i
    BY <1>14, <1>15, <2>2, <2>4
  <2>6. Got(2 + j)'
    BY <1>13, <2>2, <2>5, AsksNext
  <2>7. Tail(Bytes3(Len(job.req.ops)))' = s /\ cpu'.acc = SubSeq(s, 1, j)
    BY <1>4, <1>5, <1>14, <2>2, <2>3, <2>5
  <2>8. InCount'
    BY <1>7, <2>2, <2>3, <2>4, <2>5, <2>6, <2>7 DEF InCount
  <2>9. Story'
    BY <2>2, <2>8, GoesOn DEF Goes, Middle
  <2>. QED
    BY <2>2, <2>9, HandlerLive
<1>16. CASE ~(Len(acc) < 2)
  <2>1. /\ md' = MdStart("input")
        /\ cpu' = [cpu EXCEPT !.stage = "ioNext", !.left = Num(acc), !.acc = <<>>]
    BY <1>2, <1>16 DEF MdCount
  <2>2. i + 1 = 2
    BY <1>11, <1>14, <1>16
  <2>3. Num(acc) = Len(ops)
    BY <1>10, <1>14, <2>2, WholeSeq
  <2>4. Goes("input") /\ cpu'.stage = "ioNext" /\ cpu'.left = Len(ops)
    BY <1>1, <2>1, <2>3, GoesBy DEF MdShape
  <2>5. job' = job /\ before' = before /\ Nothing' /\ LastByte' = 4
    BY <1>1, <1>7, <1>13, <2>2, <2>4, StillNothing, HandlerKeeps
  <2>6. PICK n : n = Len(job'.req.ops) - cpu'.left
    OBVIOUS
  <2>7. n = 0
    BY <1>4, <1>9, <2>4, <2>5, <2>6
  <2>8. \A k \in 1..Len(ops) : Whole(ops[k])
    BY <1>3, <1>4, <1>7, <1>8 DEF Encodable, Whole
  <2>9. Offsets(ops)[0] = 4
    BY <1>8, <2>8, OffsetsAre
  <2>10. Results(ops, before)[0] = [ram |-> before, rd |-> <<>>]
    BY <1>3, <1>8, ResultsAre
  <2>11. Offsets(job.req.ops)' = Offsets(ops) /\ Results(job.req.ops, before)' = Results(ops, before)
    BY <1>4, <2>5 DEF Offsets, Results
  <2>12. OpsDoneAll(n)'
    BY <1>4, <1>7, <1>9, <2>5, <2>7, <2>10, <2>11 DEF OpsDoneAll, OpsDone, OpsRd, Nothing
  <2>13. InNext'
    BY <2>4, <2>5, <2>6, <2>7, <2>9, <2>11, <2>12 DEF InNext, Goes
  <2>14. Story'
    BY <2>4, <2>13, GoesOn DEF Goes, Middle
  <2>. QED
    BY <2>4, <2>14, HandlerLive
<1>. QED
  BY <1>15, <1>16

-----------------------------------------------------------------------------
(* The i/o operations.                                                     *)

LEMMA OpsKept ==
  ASSUME Live, NEW at, Goes(at), ram' = ram
  PROVE  /\ job' = job /\ Offsets(job.req.ops)' = Offsets(job.req.ops)
         /\ \A n : OpsDone(n)' = OpsDone(n) /\ OpsRd(n)' = OpsRd(n) /\ OpsDoneAll(n)' = OpsDoneAll(n)
<1>1. UNCHANGED <<job, before>> /\ Arrived' = Arrived
  BY HandlerKeeps
<1>2. \A n : OpsDone(n)' = OpsDone(n) /\ OpsRd(n)' = OpsRd(n)
  BY <1>1 DEF OpsDone, OpsRd
<1>3. \A n : OpsDoneAll(n)' = OpsDoneAll(n)
  BY <1>1, <1>2 DEF OpsDoneAll
<1>4. Offsets(job.req.ops)' = Offsets(job.req.ops)
  BY <1>1 DEF Offsets
<1>. QED
  BY <1>1, <1>2, <1>3, <1>4

LEMMA MdIoNextLive == ASSUME Live, Typed', MdIoNext PROVE Live'
<1>1. md.at = "done" /\ cpu.stage = "ioNext" /\ MdKeep /\ MdShape /\ ram' = ram
  BY DEF MdIoNext, Live, Typed, HandInv
<1>2. InNext /\ cpu.left \in Int /\ ScriptFor(job.req, Script)
  BY <1>1, StageIs, ScriptSays DEF Live, Typed, TransferTypeOK
<1>3. PICK n : n = Len(job.req.ops) - cpu.left
  OBVIOUS
<1>4. /\ OpsDoneAll(n) /\ LastByte = Offsets(job.req.ops)[n]
      /\ job.req.cmd = "io" /\ n \in 0..Len(job.req.ops)
  BY <1>2, <1>3 DEF InNext, OpsDoneAll, OpsDone
<1>5. Len(job.req.ops) \in Nat /\ Len(job.req.ops) <= 32768
  BY <1>4, OpsAreFew
<1>8. NoMoreOps <=> cpu.left = 0
  <2>1. Len(job.req.ops) - cpu.left \in 0..Len(job.req.ops)
    BY <1>3, <1>4
  <2>2. cpu.left <= 32768
    BY <1>2, <1>5, <2>1, SMT
  <2>. QED
    BY <1>2, <2>2, SMT DEF NoMoreOps
<1>6. CASE cpu.left = 0
  <2>1. Goes("return")
    BY <1>1, <1>6, <1>8, GoesBy DEF MdIoNext, MdLeave
  <2>2. n = Len(job.req.ops)
    BY <1>3, <1>5, <1>6
  <2>3. LastByte = Len(Script)
    BY <1>2, <1>4, <2>2 DEF ScriptFor
  <2>4. Promised(job.req, before) = Results(job.req.ops, before)[n]
    BY <1>4, <2>2 DEF Promised
  <2>5. Story'
    BY <1>1, <1>4, <2>1, <2>3, <2>4, GoesHome DEF OpsDoneAll, OpsDone, OpsRd
  <2>. QED
    BY <2>1, <2>5, HandlerLive
<1>7. CASE cpu.left # 0
  <2>1. /\ md' = MdRecv(TRUE)
        /\ cpu' = [cpu EXCEPT !.stage = "ioOp", !.left = @ - 1, !.acc = <<>>]
    BY <1>7, <1>8 DEF MdIoNext
  <2>2. Goes("recvClr") /\ cpu'.stage = "ioOp" /\ cpu'.left = cpu.left - 1 /\ cpu'.acc = <<>>
    BY <1>1, <2>1, GoesBy DEF MdShape
  <2>3. /\ job' = job /\ Offsets(job.req.ops)' = Offsets(job.req.ops) /\ OpsDoneAll(n)'
    BY <1>1, <1>4, <2>2, OpsKept
  <2>4. PICK k : k = Len(job'.req.ops) - cpu'.left - 1
    OBVIOUS
  <2>5. k = n /\ n < Len(job.req.ops)
    BY <1>2, <1>3, <1>4, <1>5, <1>7, <2>2, <2>3, <2>4
  <2>6. PICK f : f = Offsets(job.req.ops)[n]
    OBVIOUS
  <2>7. f \in Nat
    BY <1>4, <2>6, OpsAre
  <2>8. PICK o : o = job.req.ops[n + 1]
    OBVIOUS
  <2>9. OpBytes(o) \in Seq(Byte)
    BY <1>4, <2>5, <2>8, OpsAre
  <2>10. SubSeq(OpBytes(o), 1, 0) = <<>>
    BY <2>9, NoneYet
  <2>11. PICK i : i = Len(cpu'.acc)
    OBVIOUS
  <2>12. i = 0 /\ i < 4
    BY <2>2, <2>11
  <2>13. Got(f)'
    BY <1>4, <2>2, <2>6, AsksNext
  <2>14. (IF i = 0 THEN 0 ELSE 1 + i) = 0 /\ f + 0 = f
    BY <2>7, <2>12
  <2>15. Got(Offsets(job.req.ops)[k] + (IF i = 0 THEN 0 ELSE 1 + i))'
    BY <2>3, <2>5, <2>6, <2>13, <2>14
  <2>16. cpu'.acc = SubSeq(OpBytes(job'.req.ops[k + 1]), 1, i)
    BY <2>2, <2>3, <2>5, <2>8, <2>10, <2>12
  <2>17. InOp'
    BY <2>2, <2>3, <2>4, <2>5, <2>11, <2>12, <2>15, <2>16 DEF InOp
  <2>18. Story'
    BY <2>2, <2>17, GoesOn DEF Goes, Middle
  <2>. QED
    BY <2>2, <2>18, HandlerLive
<1>. QED
  BY <1>6, <1>7

LEMMA MdIoOpLive == ASSUME Live, Typed', MdIoOp PROVE Live'
<1>1. md.at = "done" /\ cpu.stage = "ioOp" /\ MdKeep /\ MdShape /\ ram' = ram
  BY DEF MdIoOp, Live, Typed, HandInv
<1>2. InOp /\ cpu.left \in Int /\ cpu.acc \in Seq(Byte)
  BY <1>1, StageIs DEF Live, Typed, TransferTypeOK
<1>3. PICK acc : acc = Append(cpu.acc, md.byte)
  OBVIOUS
<1>4. PICK n : n = Len(job.req.ops) - cpu.left - 1
  OBVIOUS
<1>5. PICK o : o = job.req.ops[n + 1]
  OBVIOUS
<1>6. PICK i \in Nat : i = Len(cpu.acc)
  BY <1>2
<1>7. PICK f : f = Offsets(job.req.ops)[n]
  OBVIOUS
<1>8. PICK s : s = OpBytes(o)
  OBVIOUS
<1>9. /\ OpsDoneAll(n) /\ n < Len(job.req.ops) /\ n \in 0..Len(job.req.ops) /\ job.req.cmd = "io"
      /\ i < 4 /\ cpu.acc = SubSeq(s, 1, i) /\ Got(f + (IF i = 0 THEN 0 ELSE 1 + i))
  BY <1>2, <1>4, <1>5, <1>6, <1>7, <1>8 DEF InOp, OpsDoneAll, OpsDone
<1>10. /\ Len(job.req.ops) \in Nat /\ f \in Nat /\ Width[o.op] \in {1, 2, 4} /\ o.op \in DOMAIN IoCode
       /\ o.addr \in Nat /\ o.addr < 16777216 /\ s \in Seq(Byte) /\ Len(s) = 4
       /\ s[1] = IoCode[o.op] /\ Tail(s) = Bytes3(o.addr) /\ OpSays(f, o)
       /\ o.op \notin Reads => o.data \in Seq(Byte) /\ Len(o.data) = Width[o.op]
  BY <1>5, <1>7, <1>8, <1>9, OpsAre
<1>11. LastByte = f + 2 + i /\ md.byte = s[i + 1]
  <2>1. CASE i = 0
    <3>1. f + 0 = f /\ f + 2 + 0 = f + 2 /\ 0 + 1 = 1
      BY <1>10
    <3>2. Got(f) /\ NextIs(f, f + 2, s[1])
      BY <1>8, <1>9, <1>10, <2>1, <3>1 DEF OpSays
    <3>. QED
      BY <1>1, <2>1, <3>1, <3>2, Took
  <2>2. CASE i # 0
    <3>1. i \in 1..3 /\ f + (1 + i) = f + 1 + i
      BY <1>9, <1>10, <2>2
    <3>2. Got(f + 1 + i) /\ NextIs(f + 1 + i, f + 2 + i, s[i + 1])
      BY <1>8, <1>9, <1>10, <2>2, <3>1 DEF OpSays
    <3>. QED
      BY <1>1, <3>2, Took
  <2>. QED
    BY <2>1, <2>2
<1>12. i \in 0..(Len(s) - 1)
  BY <1>9, <1>10
<1>13. acc = SubSeq(s, 1, i + 1) /\ Len(acc) = i + 1
  BY <1>3, <1>9, <1>10, <1>11, <1>12, OneMore
<1>14. CASE Len(acc) < 4
  <2>1. md' = MdRecv(TRUE) /\ cpu' = [cpu EXCEPT !.acc = acc]
    BY <1>3, <1>14 DEF MdIoOp
  <2>2. Goes("recvClr") /\ cpu'.acc = acc /\ cpu'.stage = "ioOp" /\ cpu'.left = cpu.left
    BY <1>1, <2>1, GoesBy DEF MdShape
  <2>3. job' = job /\ Offsets(job.req.ops)' = Offsets(job.req.ops) /\ OpsDoneAll(n)'
    BY <1>1, <1>9, <2>2, OpsKept
  <2>4. PICK j : j = Len(cpu'.acc)
    OBVIOUS
  <2>5. j = i + 1 /\ j < 4 /\ f + (IF j = 0 THEN 0 ELSE 1 + j) = f + 2 + i
    BY <1>10, <1>13, <1>14, <2>2, <2>4
  <2>6. Got(f + (IF j = 0 THEN 0 ELSE 1 + j))'
    BY <1>11, <2>2, <2>5, AsksNext
  <2>7. Got(Offsets(job.req.ops)[n] + (IF j = 0 THEN 0 ELSE 1 + j))'
    BY <1>7, <2>3, <2>6
  <2>8. cpu'.acc = SubSeq(OpBytes(job'.req.ops[n + 1]), 1, j)
    BY <1>5, <1>8, <1>13, <2>2, <2>3, <2>5
  <2>9. n = Len(job'.req.ops) - cpu'.left - 1
    BY <1>4, <2>2, <2>3
  <2>10. InOp'
    BY <1>9, <2>2, <2>3, <2>4, <2>5, <2>7, <2>8, <2>9 DEF InOp
  <2>11. Story'
    BY <2>2, <2>10, GoesOn DEF Goes, Middle
  <2>. QED
    BY <2>2, <2>11, HandlerLive
<1>15. CASE ~(Len(acc) < 4)
  <2>1. i + 1 = 4
    BY <1>12, <1>10, <1>13, <1>15
  <2>2. acc = s /\ LastByte = f + 5
    BY <1>10, <1>11, <1>13, <2>1, WholeSeq
  <2>3. Num(Tail(acc)) = o.addr
    <3>1. PICK a \in Nat : a = o.addr
      BY <1>10
    <3>2. Num(Bytes3(a)) = a
      BY <1>10, <3>1, ThreeBytes
    <3>3. Tail(acc) = Bytes3(a)
      BY <1>10, <2>2, <3>1
    <3>. QED
      BY <3>1, <3>2, <3>3
  <2>4. acc[1] \in {IoCode[q] : q \in DOMAIN IoCode \ Reads} <=> o.op \notin Reads
    <3>1. acc[1] = IoCode[o.op]
      BY <1>10, <2>2
    <3>. QED
      BY <1>10, <3>1, CodesDiffer
  <2>8. CASE o.op \notin Reads
    <3>a. /\ md' = MdRecv(TRUE)
          /\ cpu' = [cpu EXCEPT !.stage = "ioWrite", !.op = acc[1],
                                !.addr = Num(Tail(acc)), !.acc = <<>>]
      BY <1>3, <1>15, <2>4, <2>8 DEF MdIoOp
    <3>b. /\ cpu'.op = IoCode[o.op] /\ cpu'.addr = o.addr /\ cpu'.acc = <<>> /\ cpu'.left = cpu.left
          /\ cpu'.stage = "ioWrite"
      BY <1>1, <1>10, <2>2, <2>3, <3>a DEF MdShape
    <3>1. Goes("recvClr") /\ cpu'.stage = "ioWrite"
      BY <1>1, <3>a, <3>b, GoesBy
    <3>2. job' = job /\ Offsets(job.req.ops)' = Offsets(job.req.ops) /\ OpsDoneAll(n)'
      BY <1>1, <1>9, <3>1, OpsKept
    <3>3. PICK j : j = Len(cpu'.acc)
      OBVIOUS
    <3>4. j = 0 /\ f + 5 + j = f + 5 /\ j < Len(o.data)
      BY <1>10, <3>b, <2>8, <3>3
    <3>5. Got(f + 5 + j)'
      BY <2>2, <3>1, <3>4, AsksNext
    <3>6. Got(Offsets(job.req.ops)[n] + 5 + j)'
      BY <1>7, <3>2, <3>5
    <3>7. cpu'.acc = SubSeq(o.data, 1, j)
      BY <1>10, <3>b, <2>8, <3>4, NoneYet
    <3>8. n = Len(job'.req.ops) - cpu'.left - 1 /\ o = job'.req.ops[n + 1]
      BY <1>4, <1>5, <3>b, <3>2
    <3>9. InWrite'
      BY <1>9, <3>b, <2>8, <3>1, <3>2, <3>3, <3>4, <3>6, <3>7, <3>8 DEF InWrite
    <3>10. Story'
      BY <3>1, <3>9, GoesOn DEF Goes, Middle
    <3>. QED
      BY <3>1, <3>10, HandlerLive
  <2>9. CASE o.op \in Reads
    <3>a. /\ md' = MdStart("swLow")
          /\ cpu' = [cpu EXCEPT !.stage = "ioRead", !.op = acc[1],
                                !.addr = Num(Tail(acc)), !.acc = <<>>]
      BY <1>3, <1>15, <2>4, <2>9 DEF MdIoOp
    <3>b. /\ cpu'.op = IoCode[o.op] /\ cpu'.addr = o.addr /\ cpu'.acc = <<>> /\ cpu'.left = cpu.left
          /\ cpu'.stage = "ioRead"
      BY <1>1, <1>10, <2>2, <2>3, <3>a DEF MdShape
    <3>1. Goes("swLow") /\ cpu'.stage = "ioRead"
      BY <1>1, <3>a, <3>b, GoesBy
    <3>2. /\ job' = job /\ Offsets(job.req.ops)' = Offsets(job.req.ops)
          /\ OpsDone(n)' = OpsDone(n) /\ OpsRd(n)' = OpsRd(n)
      BY <1>1, <3>1, OpsKept
    <3>3. LastByte' = f + 5 /\ Arrived' = OpsRd(n) /\ md'.at = "swLow"
      BY <1>9, <2>2, <3>1, HandlerKeeps DEF OpsDoneAll, Goes
    <3>4. \A d : Gives(Offsets(job.req.ops)[n] + 5, 0, d, OpsRd(n))'
      BY <1>7, <3>2, <3>3 DEF Gives, TurnPoints
    <3>5. n = Len(job'.req.ops) - cpu'.left - 1 /\ o = job'.req.ops[n + 1]
      BY <1>4, <1>5, <3>b, <3>2
    <3>6. InRead'
      BY <1>9, <3>b, <2>9, <3>1, <3>2, <3>4, <3>5 DEF InRead, OpsDoneAll
    <3>7. Story'
      BY <3>1, <3>6, GoesOn DEF Goes, Middle
    <3>. QED
      BY <3>1, <3>7, HandlerLive
  <2>. QED
    BY <2>8, <2>9
<1>. QED
  BY <1>14, <1>15

LEMMA MdIoWriteLive == ASSUME Live, Typed', MdIoWrite PROVE Live'
<1>1. md.at = "done" /\ cpu.stage = "ioWrite" /\ MdKeep /\ MdShape
  BY DEF MdIoWrite, Live, Typed, HandInv
<1>2. InWrite /\ cpu.left \in Int /\ cpu.acc \in Seq(Byte)
  BY <1>1, StageIs DEF Live, Typed, TransferTypeOK
<1>3. PICK acc : acc = Append(cpu.acc, md.byte)
  OBVIOUS
<1>4. PICK n : n = Len(job.req.ops) - cpu.left - 1
  OBVIOUS
<1>5. PICK o : o = job.req.ops[n + 1]
  OBVIOUS
<1>6. PICK i \in Nat : i = Len(cpu.acc)
  BY <1>2
<1>7. PICK f : f = Offsets(job.req.ops)[n]
  OBVIOUS
<1>8. PICK d : d = o.data
  OBVIOUS
<1>9. /\ OpsDoneAll(n) /\ n < Len(job.req.ops) /\ n \in 0..Len(job.req.ops) /\ job.req.cmd = "io"
      /\ o.op \notin Reads /\ cpu.op = IoCode[o.op] /\ cpu.addr = o.addr
      /\ i < Len(d) /\ cpu.acc = SubSeq(d, 1, i) /\ Got(f + 5 + i)
  BY <1>2, <1>4, <1>5, <1>6, <1>7, <1>8 DEF InWrite, OpsDoneAll, OpsDone
<1>10. /\ Len(job.req.ops) \in Nat /\ f \in Nat /\ Width[o.op] \in {1, 2, 4} /\ o.op \in DOMAIN IoCode
       /\ o.addr \in Nat /\ OpSays(f, o) /\ d \in Seq(Byte) /\ Len(d) = Width[o.op]
       /\ Results(job.req.ops, before)[n] \in Machine
       /\ Offsets(job.req.ops)[n + 1] = f + OpLen(o)
       /\ Results(job.req.ops, before)[n + 1] = IoResult(Results(job.req.ops, before)[n], o)
  BY <1>5, <1>7, <1>8, <1>9, OpsAre
<1>11. i \in 0..(Len(d) - 1)
  BY <1>9, <1>10
<1>12. LastByte = f + 6 + i /\ md.byte = d[i + 1]
  <2>1. NextIs(f + 5 + i, f + 6 + i, d[i + 1])
    BY <1>8, <1>9, <1>10, <1>11 DEF OpSays
  <2>. QED
    BY <1>1, <1>9, <2>1, Took
<1>13. acc = SubSeq(d, 1, i + 1) /\ Len(acc) = i + 1
  BY <1>3, <1>9, <1>10, <1>11, <1>12, OneMore
<1>14. Width[IoOf(cpu.op)] = Len(d)
  BY <1>9, <1>10, CodesDiffer
<1>17. ~(Width[IoOf(cpu.op)] > 1 /\ IsOdd(cpu.addr))
  <2>1. Width[o.op] > 1 => ~IsOdd(o.addr)
    BY <1>5, <1>9, OpIsEven
  <2>. QED
    BY <1>9, <1>10, <1>14, <2>1
<1>15. CASE Len(acc) < Len(d)
  <2>1. md' = MdRecv(TRUE) /\ cpu' = [cpu EXCEPT !.acc = acc] /\ ram' = ram
    BY <1>3, <1>14, <1>15 DEF MdIoWrite
  <2>2. /\ Goes("recvClr") /\ cpu'.acc = acc /\ cpu'.stage = "ioWrite" /\ cpu'.left = cpu.left
        /\ cpu'.op = cpu.op /\ cpu'.addr = cpu.addr
    BY <1>1, <2>1, GoesBy DEF MdShape
  <2>3. job' = job /\ Offsets(job.req.ops)' = Offsets(job.req.ops) /\ OpsDoneAll(n)'
    BY <1>9, <2>1, <2>2, OpsKept
  <2>4. PICK j : j = Len(cpu'.acc)
    OBVIOUS
  <2>5. j = i + 1 /\ j < Len(d) /\ f + 5 + j = f + 6 + i
    <3>1. j = i + 1 /\ j < Len(d)
      BY <1>13, <1>15, <2>2, <2>4, Zenon
    <3>2. f \in Int /\ i \in Int
      BY <1>10, <1>11
    <3>. QED
      BY <3>1, <3>2
  <2>6. Got(f + 5 + j)'
    BY <1>12, <2>2, <2>5, AsksNext
  <2>7. Got(Offsets(job.req.ops)[n] + 5 + j)'
    BY <1>7, <2>3, <2>6
  <2>8. cpu'.acc = SubSeq(o.data, 1, j) /\ j < Len(o.data)
    BY <1>8, <1>13, <2>2, <2>5
  <2>9. n = Len(job'.req.ops) - cpu'.left - 1 /\ o = job'.req.ops[n + 1]
    BY <1>4, <1>5, <2>2, <2>3
  <2>10. InWrite'
    BY <1>9, <2>2, <2>3, <2>4, <2>7, <2>8, <2>9 DEF InWrite
  <2>11. Story'
    BY <2>2, <2>10, GoesOn DEF Goes, Middle
  <2>. QED
    BY <2>2, <2>11, HandlerLive
<1>16. CASE ~(Len(acc) < Len(d))
  <2>1. /\ ram' = Poke(ram, cpu.addr, acc) /\ md' = MdStart("input")
        /\ cpu' = [cpu EXCEPT !.stage = "ioNext", !.acc = <<>>]
    BY <1>3, <1>14, <1>16, <1>17 DEF MdIoWrite
  <2>2. Goes("input") /\ cpu'.stage = "ioNext" /\ cpu'.left = cpu.left
    BY <1>1, <2>1, GoesBy DEF MdShape
  <2>3. i + 1 = Len(d)
    BY <1>10, <1>11, <1>13, <1>16
  <2>4. acc = d /\ ram' = Poke(ram, o.addr, o.data)
    BY <1>8, <1>9, <1>10, <1>13, <2>1, <2>3, WholeSeq
  <2>5. UNCHANGED <<job, before>> /\ LastByte' = LastByte /\ Arrived' = Arrived
    BY <2>2, HandlerKeeps
  <2>6. PICK res : res = Results(job.req.ops, before)[n]
    OBVIOUS
  <2>7. res \in Machine /\ ram = res.ram /\ Arrived = res.rd
    BY <1>9, <1>10, <2>6 DEF OpsDoneAll, OpsDone, OpsRd
  <2>8. /\ Results(job.req.ops, before)[n + 1] = IoResult(res, o)
        /\ IoResult(res, o).ram = Poke(res.ram, o.addr, o.data) /\ IoResult(res, o).rd = res.rd
    BY <1>9, <1>10, <2>6, <2>7 DEF IoResult, Machine
  <2>9. LastByte = Offsets(job.req.ops)[n + 1]
    <3>1. OpLen(o) = 5 + Width[o.op]
      BY <1>9 DEF OpLen
    <3>2. f + 6 + i = f + OpLen(o)
      BY <1>10, <1>11, <2>3, <3>1
    <3>. QED
      BY <1>10, <1>12, <3>2, Zenon
  <2>10. n + 1 \in 0..Len(job.req.ops) /\ n + 1 = Len(job'.req.ops) - cpu'.left
    <3>1. n + 1 \in 0..Len(job.req.ops)
      BY <1>9, <1>10
    <3>2. n + 1 = Len(job.req.ops) - cpu.left
      BY <1>2, <1>4, <1>10
    <3>. QED
      BY <2>2, <2>5, <3>1, <3>2
  <2>11. Results(job.req.ops, before)' = Results(job.req.ops, before)
         /\ Offsets(job.req.ops)' = Offsets(job.req.ops)
    BY <2>5 DEF Results, Offsets
  <2>12. OpsDoneAll(n + 1)'
    BY <1>9, <2>4, <2>5, <2>7, <2>8, <2>10, <2>11 DEF OpsDoneAll, OpsDone, OpsRd
  <2>13. InNext'
    BY <2>2, <2>5, <2>9, <2>10, <2>11, <2>12 DEF InNext, Goes
  <2>14. Story'
    BY <2>2, <2>13, GoesOn DEF Goes, Middle
  <2>. QED
    BY <2>2, <2>14, HandlerLive
<1>. QED
  BY <1>15, <1>16

\* The bytes of a number that are left to be sent.
LEMMA RestOf ==
  ASSUME NEW s \in Seq(Byte), NEW i \in 0..(Len(s) - 1)
  PROVE  /\ Len(SubSeq(s, i + 1, Len(s))) = Len(s) - i
         /\ Head(SubSeq(s, i + 1, Len(s))) = s[i + 1]
         /\ Tail(SubSeq(s, i + 1, Len(s))) = SubSeq(s, i + 2, Len(s))
         /\ Len(SubSeq(s, i + 2, Len(s))) = Len(s) - (i + 1)
<1>1. PICK w \in Nat : w = Len(s)
  OBVIOUS
<1>2. i \in Nat /\ i + 1 <= w
  BY <1>1
<1>3. PICK t : t = SubSeq(s, i + 1, w)
  OBVIOUS
<1>4. PICK u : u = SubSeq(s, i + 2, w)
  OBVIOUS
<1>5. t \in Seq(Byte) /\ Len(t) = w - i /\ \A k \in 1..(w - i) : t[k] = s[i + k]
  BY <1>1, <1>2, <1>3
<1>6. u \in Seq(Byte) /\ Len(u) = w - (i + 1) /\ \A k \in 1..(w - (i + 1)) : u[k] = s[i + 1 + k]
  BY <1>1, <1>2, <1>4
<1>7. Head(t) = s[i + 1]
  BY <1>2, <1>5
<1>8. Tail(t) = u
  <2>1. Tail(t) \in Seq(Byte) /\ Len(Tail(t)) = w - (i + 1)
    BY <1>2, <1>5
  <2>2. ASSUME NEW k \in 1..(w - (i + 1)) PROVE Tail(t)[k] = u[k]
    <3>1. Tail(t)[k] = t[k + 1] /\ k + 1 \in 1..(w - i) /\ i + (k + 1) = i + 1 + k
      BY <1>2, <1>5
    <3>. QED
      BY <1>5, <1>6, <3>1
  <2>. QED
    BY <1>6, <2>1, <2>2
<1>. QED
  BY <1>1, <1>3, <1>4, <1>5, <1>6, <1>7, <1>8

LEMMA MdIoReadLive == ASSUME Live, Typed', MdIoRead PROVE Live'
<1>1. md.at = "done" /\ cpu.stage = "ioRead" /\ MdKeep /\ MdShape /\ ram' = ram
  BY DEF MdIoRead, Live, Typed, HandInv
<1>2. InRead /\ cpu.left \in Int /\ ram \in [Addr -> Byte]
  BY <1>1, StageIs DEF Live, Typed, TransferTypeOK
<1>3. PICK n : n = Len(job.req.ops) - cpu.left - 1
  OBVIOUS
<1>4. PICK o : o = job.req.ops[n + 1]
  OBVIOUS
<1>5. PICK f : f = Offsets(job.req.ops)[n]
  OBVIOUS
<1>6. PICK w : w = Width[o.op]
  OBVIOUS
<1>7. PICK s : s = PeekN(ram, o.addr, w)
  OBVIOUS
<1>8. PICK had : had = OpsRd(n)
  BY SMTT(30)
<1>9. /\ OpsDone(n) /\ n < Len(job.req.ops) /\ n \in 0..Len(job.req.ops) /\ job.req.cmd = "io"
      /\ o.op \in Reads /\ cpu.op = IoCode[o.op] /\ cpu.addr = o.addr
      /\ Gives(f + 5, 0, s, had)
  BY <1>2, <1>3, <1>4, <1>5, <1>6, <1>7, <1>8, Zenon DEF InRead, OpsDone
<1>10. /\ f \in Nat /\ w \in {1, 2, 4} /\ o.op \in DOMAIN IoCode /\ o.addr \in Nat /\ OpSays(f, o)
       /\ Results(job.req.ops, before)[n] \in Machine
  BY <1>4, <1>5, <1>6, <1>9, OpsAre
<1>11. /\ s \in Seq(Byte) /\ Len(s) = w /\ Len(s) > 0 /\ had \in Seq(Byte)
       /\ \A k \in 1..w : s[k] = Peek(ram, o.addr + k - 1)
  <2>1. w \in Nat
    BY <1>10
  <2>. QED
    BY <1>2, <1>7, <1>8, <1>10, <2>1, PeekNAre DEF OpsRd, Machine
<1>12. LastByte = f + 5 /\ Arrived = had \o SubSeq(s, 1, 0)
  <2>1. TakesNext(f + 5, Len(s)) /\ f + 5 \in Nat
    BY <1>6, <1>9, <1>10, <1>11 DEF OpSays
  <2>. QED
    BY <1>1, <1>9, <1>11, <2>1, GaveSome
<1>13. cpu.op \in {IoCode[q] : q \in Reads} /\ IoOf(cpu.op) = o.op
  BY <1>9, <1>10, CodesDiffer
<1>14. PICK b : b = Peek(ram, cpu.addr)
  OBVIOUS
<1>29. ~(Width[IoOf(cpu.op)] > 1 /\ IsOdd(cpu.addr))
  <2>1. Width[o.op] > 1 => ~IsOdd(o.addr)
    BY <1>4, <1>9, OpIsEven
  <2>. QED
    BY <1>9, <1>13, <2>1
<1>15. /\ md' = MdSend(b)
       /\ cpu' = [cpu EXCEPT !.stage = "ioSend", !.acc = Tail(s)]
  BY <1>6, <1>7, <1>9, <1>13, <1>14, <1>29 DEF MdIoRead
<1>16. Goes("sendLow") /\ md'.byte = b /\ cpu'.stage = "ioSend" /\ cpu'.acc = Tail(s)
       /\ cpu'.left = cpu.left
  BY <1>1, <1>15, GoesBy DEF MdShape
<1>17. b = s[1]
  <2>1. 1 \in 1..w /\ o.addr + 1 - 1 = o.addr
    BY <1>10
  <2>. QED
    BY <1>9, <1>11, <1>14, <2>1
<1>18. Gives(f + 5, 1, s, had)'
  <2>1. f + 5 \in Nat /\ 0 \in 0..(Len(s) - 1) /\ 0 + 1 = 1
    BY <1>10, <1>11
  <2>2. LastByte = (IF 0 = 0 THEN f + 5 ELSE f + 5 + 1 + 0)
    BY <1>12
  <2>3. Gives(f + 5, 0 + 1, s, had)'
    BY <1>11, <1>12, <1>16, <1>17, <2>1, <2>2, GivesNext
  <2>. QED
    BY <2>1, <2>3
<1>19. Tail(s) = SubSeq(s, 2, w) /\ Len(Tail(s)) = w - 1
  <2>1. 0 \in 0..(Len(s) - 1) /\ 0 + 1 = 1 /\ 0 + 2 = 2
    BY <1>11
  <2>2. /\ Tail(SubSeq(s, 1, Len(s))) = SubSeq(s, 2, Len(s))
        /\ Len(SubSeq(s, 2, Len(s))) = Len(s) - 1
    BY <1>11, <2>1, RestOf
  <2>. QED
    BY <1>11, <2>2, WholeSeq
<1>20. /\ job' = job /\ Offsets(job.req.ops)' = Offsets(job.req.ops)
       /\ OpsDone(n)' /\ OpsRd(n)' = had
  BY <1>1, <1>8, <1>9, <1>16, OpsKept
<1>21. n = Len(job'.req.ops) - cpu'.left - 1 /\ o = job'.req.ops[n + 1]
  BY <1>3, <1>4, <1>16, <1>20
<1>22. PICK i : i = w - Len(cpu'.acc)
  OBVIOUS
<1>23. i = 1 /\ i \in 1..w /\ i + 1 = 2
  BY <1>10, <1>16, <1>19, <1>22, SMTT(30)
<1>24. PeekN(ram, o.addr, w)' = s
  BY <1>1, <1>3, <1>4, <1>6, <1>7, <1>20, <1>21 DEF PeekN, Peek
<1>25. PeekN(ram', o.addr, w) = s /\ cpu'.acc = SubSeq(s, i + 1, w)
  BY <1>1, <1>7, <1>16, <1>19, <1>23
<1>26. Gives(Offsets(job.req.ops)[n] + 5, i, s, OpsRd(n))'
  BY <1>5, <1>18, <1>20, <1>23
<1>27. InGive'
  BY <1>6, <1>9, <1>16, <1>20, <1>21, <1>22, <1>23, <1>25, <1>26, Zenon DEF InGive
<1>28. Story'
  BY <1>16, <1>27, GoesOn DEF Goes, Middle
<1>. QED
  BY <1>16, <1>28, HandlerLive

LEMMA MdIoSendLive == ASSUME Live, Typed', MdIoSend PROVE Live'
<1>1. md.at = "done" /\ cpu.stage = "ioSend" /\ MdKeep /\ MdShape /\ ram' = ram
  BY DEF MdIoSend, Live, Typed, HandInv
<1>2. InGive /\ cpu.left \in Int /\ ram \in [Addr -> Byte] /\ cpu.acc \in Seq(Byte)
  BY <1>1, StageIs DEF Live, Typed, TransferTypeOK
<1>3. PICK n : n = Len(job.req.ops) - cpu.left - 1
  OBVIOUS
<1>4. PICK o : o = job.req.ops[n + 1]
  OBVIOUS
<1>5. PICK f : f = Offsets(job.req.ops)[n]
  OBVIOUS
<1>6. PICK w : w = Width[o.op]
  OBVIOUS
<1>7. PICK s : s = PeekN(ram, o.addr, w)
  OBVIOUS
<1>8. PICK had : had = OpsRd(n)
  OBVIOUS
<1>9. PICK i : i = w - Len(cpu.acc)
  BY SMTT(30)
<1>10. /\ OpsDone(n) /\ n < Len(job.req.ops) /\ n \in 0..Len(job.req.ops) /\ job.req.cmd = "io"
       /\ o.op \in Reads /\ i \in 1..w /\ cpu.acc = SubSeq(s, i + 1, w)
       /\ Gives(f + 5, i, s, had)
  BY <1>2, <1>3, <1>4, <1>5, <1>6, <1>7, <1>8, <1>9, Zenon DEF InGive, OpsDone
<1>11. /\ f \in Nat /\ w \in {1, 2, 4} /\ OpSays(f, o) /\ Len(job.req.ops) \in Nat
       /\ Results(job.req.ops, before)[n] \in Machine
       /\ Offsets(job.req.ops)[n + 1] = f + OpLen(o)
       /\ Results(job.req.ops, before)[n + 1] = IoResult(Results(job.req.ops, before)[n], o)
  BY <1>4, <1>5, <1>6, <1>10, OpsAre
<1>12. w \in Nat /\ s \in Seq(Byte) /\ Len(s) = w /\ Len(s) > 0 /\ had \in Seq(Byte)
  <2>1. w \in Nat
    BY <1>11
  <2>. QED
    BY <1>2, <1>7, <1>8, <1>11, <2>1, PeekNAre DEF OpsRd, Machine
<1>13. /\ LastByte = (IF i = 0 THEN f + 5 ELSE f + 5 + 1 + i) /\ Arrived = had \o SubSeq(s, 1, i)
       /\ i = Len(s) => Arrived = had \o s
  <2>1. TakesNext(f + 5, Len(s)) /\ f + 5 \in Nat /\ i \in Int
    BY <1>6, <1>10, <1>11, <1>12 DEF OpSays
  <2>. QED
    BY <1>1, <1>10, <1>12, <2>1, GaveSome
<1>14. Len(cpu.acc) = w - i
  BY <1>2, <1>9, <1>12
<1>15. CASE cpu.acc = <<>>
  <2>1. md' = MdStart("input") /\ cpu' = [cpu EXCEPT !.stage = "ioNext"]
    BY <1>15 DEF MdIoSend
  <2>2. Goes("input") /\ cpu'.stage = "ioNext" /\ cpu'.left = cpu.left
    BY <1>1, <2>1, GoesBy DEF MdShape
  <2>3. i = w
    BY <1>9, <1>12, <1>15
  <2>4. LastByte = f + 6 + w /\ Arrived = had \o s
    <3>1. i # 0 /\ f + 5 + 1 + i = f + 6 + w
      BY <1>10, <1>11, <1>12, <2>3
    <3>2. i = Len(s)
      BY <1>12, <2>3
    <3>. QED
      BY <1>13, <3>1, <3>2
  <2>5. UNCHANGED <<job, before>> /\ LastByte' = LastByte /\ Arrived' = Arrived
    BY <2>2, HandlerKeeps
  <2>6. PICK res : res = Results(job.req.ops, before)[n]
    OBVIOUS
  <2>7. res \in Machine /\ ram = res.ram /\ had = res.rd
    BY <1>8, <1>10, <1>11, <2>6 DEF OpsDone, OpsRd
  <2>8. /\ Results(job.req.ops, before)[n + 1] = IoResult(res, o)
        /\ IoResult(res, o).ram = res.ram /\ IoResult(res, o).rd = res.rd \o s
    BY <1>6, <1>7, <1>10, <1>11, <2>6, <2>7, Zenon DEF IoResult, Machine
  <2>9. LastByte = Offsets(job.req.ops)[n + 1]
    BY <1>6, <1>10, <1>11, <2>4 DEF OpLen
  <2>10. n + 1 \in 0..Len(job.req.ops) /\ n + 1 = Len(job'.req.ops) - cpu'.left
    <3>1. n + 1 \in 0..Len(job.req.ops)
      BY <1>10, <1>11
    <3>2. n + 1 = Len(job.req.ops) - cpu.left
      BY <1>2, <1>3, <1>11
    <3>. QED
      BY <2>2, <2>5, <3>1, <3>2
  <2>11. Results(job.req.ops, before)' = Results(job.req.ops, before)
         /\ Offsets(job.req.ops)' = Offsets(job.req.ops)
    BY <2>5 DEF Results, Offsets
  <2>12. OpsDoneAll(n + 1)'
    BY <1>1, <1>10, <2>4, <2>5, <2>7, <2>8, <2>10, <2>11 DEF OpsDoneAll, OpsDone, OpsRd
  <2>13. InNext'
    BY <2>2, <2>5, <2>9, <2>10, <2>11, <2>12 DEF InNext, Goes
  <2>14. Story'
    BY <2>2, <2>13, GoesOn DEF Goes, Middle
  <2>. QED
    BY <2>2, <2>14, HandlerLive
<1>16. CASE cpu.acc # <<>>
  <2>1. md' = MdSend(Head(cpu.acc)) /\ cpu' = [cpu EXCEPT !.acc = Tail(@)]
    BY <1>16 DEF MdIoSend
  <2>2. /\ Goes("sendLow") /\ md'.byte = Head(cpu.acc) /\ cpu'.stage = "ioSend"
        /\ cpu'.acc = Tail(cpu.acc) /\ cpu'.left = cpu.left
    BY <1>1, <2>1, GoesBy DEF MdShape
  <2>3. i \in 0..(Len(s) - 1)
    <3>1. Len(cpu.acc) # 0
      BY <1>2, <1>16
    <3>. QED
      BY <1>10, <1>12, <1>14, <3>1
  <2>4. /\ Head(cpu.acc) = s[i + 1] /\ Tail(cpu.acc) = SubSeq(s, i + 2, w)
        /\ Len(Tail(cpu.acc)) = w - (i + 1)
    BY <1>10, <1>12, <2>3, RestOf
  <2>5. Gives(f + 5, i + 1, s, had)'
    <3>1. f + 5 \in Nat
      BY <1>11
    <3>. QED
      BY <1>12, <1>13, <2>2, <2>3, <2>4, <3>1, GivesNext
  <2>6. /\ job' = job /\ Offsets(job.req.ops)' = Offsets(job.req.ops)
        /\ OpsDone(n)' /\ OpsRd(n)' = had
    BY <1>1, <1>8, <1>10, <2>2, OpsKept
  <2>7. n = Len(job'.req.ops) - cpu'.left - 1 /\ o = job'.req.ops[n + 1]
    BY <1>3, <1>4, <2>2, <2>6
  <2>8. PICK j : j = w - Len(cpu'.acc)
    OBVIOUS
  <2>9. j = i + 1 /\ j \in 1..w /\ j + 1 = i + 2
    <3>1. j = w - (w - (i + 1))
      BY <2>2, <2>4, <2>8
    <3>2. i \in Nat /\ i < w
      BY <1>12, <2>3
    <3>. QED
      BY <1>12, <3>1, <3>2
  <2>10. PeekN(ram', o.addr, w) = s /\ cpu'.acc = SubSeq(s, j + 1, w)
    BY <1>1, <1>7, <2>2, <2>4, <2>9
  <2>11. Gives(Offsets(job.req.ops)[n] + 5, j, s, OpsRd(n))'
    BY <1>5, <2>5, <2>6, <2>9
  <2>12. InGive'
    BY <1>6, <1>10, <2>2, <2>6, <2>7, <2>8, <2>9, <2>10, <2>11, Zenon DEF InGive
  <2>13. Story'
    BY <2>2, <2>12, GoesOn DEF Goes, Middle
  <2>. QED
    BY <2>2, <2>13, HandlerLive
<1>. QED
  BY <1>15, <1>16

-----------------------------------------------------------------------------
(* The console's own steps, into do_transfer and back.                     *)

\* What is left to show of them.
LEMMA OwnLive ==
  ASSUME Live, Typed', MdKeep, ram' = ram, md.at \in {"idle", "startTh", "askLow", "return"},
         md'.at \in {"idle", "startTh", "askLow", "recvClr"},
         pc.at \notin {"recvLowIn", "recvTlHigh", "recvHigh", "recvHighIn"},
         LastByte' = LastByte /\ Arrived' = Arrived => Story'
  PROVE  Live'
<1>1. md.at # "recvHigh" /\ md'.at # "recvHigh"
  OBVIOUS
<1>2. LastByte' = LastByte /\ Arrived' = Arrived /\ Taken' = Taken /\ ~InFlight'
  BY <1>1, Quiet
<1>3. UNCHANGED <<pc, job>> /\ Script' = Script
  BY MdScript DEF MdKeep, pcHas
<1>4. MdWire'
  BY <1>2, <1>3 DEF MdWire
<1>. QED
  BY <1>2, <1>4, MdKeepsLive

LEMMA MdPollLive == ASSUME Live, Typed', MdPoll PROVE Live'
<1>1. /\ MdShape /\ PcShape /\ PcLines /\ PcWire /\ MdKeep /\ ram' = ram /\ md.at # "boot"
      /\ md.at \in {"idle", "boot"} /\ pc.tr = 0 /\ md'.at = "startTh"
      /\ cpu' = [cpu EXCEPT !.early = md.at = "boot"]
  BY DEF MdPoll, Live, Typed, HandInv, Story, MdShape
<1>2. md.at = "idle" /\ pc.at = "startAck" /\ Started = 0 /\ job.rd = <<>> /\ ram = before
  BY <1>1 DEF PcLines, PcWire
<1>3. ~cpu'.early
  BY <1>1 DEF MdShape
<1>4. Taken = 0
  <2>1. ~UnderWay /\ ~InFlight
    BY <1>2 DEF UnderWay, InFlight, SendPoints, TakePoints, Turns
  <2>2. PICK none : none = Started
    OBVIOUS
  <2>3. none = 0
    BY <1>2, <2>2
  <2>4. Taken = none - 0 - 0
    BY <2>1, <2>2 DEF Taken
  <2>. QED
    BY <2>3, <2>4
<1>5. LastByte = 0
  BY <1>4 DEF LastByte, IsTurn
<1>6. Arrived = <<>>
  BY <1>2 DEF Arrived
<1>7. ASSUME LastByte' = LastByte, Arrived' = Arrived PROVE Story'
  <2>1. Nothing'
    BY <1>1, <1>2, <1>6, <1>7, SMTT(30) DEF Nothing, MdKeep, pcHas
  <2>. QED
    BY <1>1, <1>3, <1>5, <1>7, <2>1 DEF Story
<1>. QED
  BY <1>1, <1>2, <1>7, OwnLive

LEMMA AskingIs ==
  ASSUME Live, md.at \in {"startTh", "askLow"}
  PROVE  ~cpu.early /\ LastByte = 0 /\ Nothing
BY Zenon DEF Live, Story, InPrefix, InCmd, InArgs, InSend, InRecv, InVram, InLoad, InCount,
       InNext, InOp, InWrite, InRead, InGive

LEMMA MdStartThLive == ASSUME Live, Typed', MdStartTh PROVE Live'
<1>1. /\ MdShape /\ MdKeep /\ UNCHANGED <<cpu, ram>> /\ md.at = "startTh" /\ md'.at = "askLow"
  BY DEF MdStartTh, MdWrite, Live, Typed, HandInv, MdShape
<1>2. ~cpu.early /\ LastByte = 0 /\ Nothing
  BY <1>1, AskingIs
<1>3. pc.at \notin {"recvLowIn", "recvTlHigh", "recvHigh", "recvHighIn"}
  BY <1>1, OnlySenders
<1>4. ASSUME LastByte' = LastByte, Arrived' = Arrived PROVE Story'
  <2>1. Nothing'
    BY <1>1, <1>2, <1>4 DEF Nothing, MdKeep, pcHas
  <2>. QED
    BY <1>1, <1>2, <1>4, <2>1 DEF Story
<1>. QED
  BY <1>1, <1>3, <1>4, OwnLive

LEMMA MdEnterLive == ASSUME Live, Typed', MdEnter PROVE Live'
<1>1. /\ MdShape /\ MdKeep /\ ram' = ram /\ md.at = "askLow" /\ md'.at = "recvClr"
      /\ cpu'.stage = "prefix" /\ cpu'.acc = <<>>
  BY DEF MdEnter, MdRecv, Live, Typed, HandInv, MdShape
<1>2. LastByte = 0 /\ Nothing
  BY <1>1, AskingIs
<1>3. pc.at \notin {"recvLowIn", "recvTlHigh", "recvHigh", "recvHighIn"}
  BY <1>1, OnlySenders
<1>4. ASSUME LastByte' = LastByte, Arrived' = Arrived PROVE Story'
  <2>1. Nothing'
    BY <1>1, <1>2, <1>4 DEF Nothing, MdKeep, pcHas
  <2>2. Got(0)'
    BY <1>1, <1>2, <1>4 DEF Got, Waits
  <2>3. InPrefix'
    BY <1>1, <2>1, <2>2 DEF InPrefix
  <2>. QED
    BY <1>1, <2>3, GoesOn DEF Middle
<1>. QED
  BY <1>1, <1>3, <1>4, OwnLive

LEMMA MdReturnLive == ASSUME Live, Typed', MdReturn PROVE Live'
<1>1. /\ MdShape /\ MdLines /\ Joint /\ MdWire /\ MdKeep /\ ram' = ram
      /\ md.at = "return" /\ md'.at = "idle" /\ pc.at \notin {"recvHigh", "recvHighIn"}
  BY DEF MdReturn, PcHasSampled, Live, Typed, HandInv, MdShape
<1>2. Complete
  BY <1>1 DEF Live, Story
<1>3. pc.at \notin {"recvLowIn", "recvTlHigh"}
  BY <1>1 DEF Joint, Asleep, MdLow, MdWire
<1>4. ASSUME LastByte' = LastByte, Arrived' = Arrived PROVE Story'
  <2>1. UNCHANGED <<job, before>> /\ Script' = Script
    BY <1>1, MdScript DEF MdKeep, pcHas
  <2>2. Complete'
    BY <1>1, <1>2, <1>4, <2>1 DEF Complete
  <2>. QED
    BY <1>1, <2>2 DEF Story
<1>. QED
  BY <1>1, <1>3, <1>4, OwnLive

\* Whatever the console does next.
LEMMA MdProgramLive == ASSUME Live, Typed', MdProgram PROVE Live'
<1>1. CASE MdPoll
  BY <1>1, MdPollLive
<1>2. CASE MdStartTh
  BY <1>2, MdStartThLive
<1>3. CASE MdEnter
  BY <1>3, MdEnterLive
<1>4. CASE MdReturn
  BY <1>4, MdReturnLive
<1>5. ~MdBooted /\ ~MdEarlyTimeout /\ ~MdFault
  <2>1. md.at # "boot"
    BY DEF Live, Story
  <2>2. md.at = "askLow" => ~cpu.early
    BY AskingIs
  <2>3. md.at = "done" => cpu.stage # "fault"
    BY NoFault
  <2>. QED
    BY <2>1, <2>2, <2>3 DEF MdBooted, MdEarlyTimeout, MdFault
<1>6. CASE MdHandler
  BY <1>6, MdPrefixLive, MdCommandLive, MdArgsLive, MdStoreLive, MdFetchLive, MdLoadLive,
     MdCountLive, MdIoNextLive, MdIoOpLive, MdIoWriteLive, MdIoReadLive, MdIoSendLive
     DEF MdHandler
<1>7. CASE MdPrim
  <2>1. MdPrimitive
    BY <1>7 DEF MdPrim
  <2>2. CASE MdRecvClr \/ MdRecvLow \/ MdRecvNext
    BY <1>7, <2>2, MdRecvPrims
  <2>3. CASE MdSendLow \/ MdSendPutLow \/ MdSendHigh
    BY <1>7, <2>3, MdSendPrims
  <2>4. CASE MdSwitchWait \/ MdSwitchDir \/ MdSwitchTh \/ MdInput
    BY <1>7, <2>4, MdTurnPrims
  <2>5. CASE MdRecvSet
    BY <1>7, <2>5, MdRecvSetLive
  <2>6. CASE MdRecvHigh
    BY <1>7, <2>6, MdRecvHighLive
  <2>7. CASE MdSendPutHigh
    BY <1>7, <2>7, MdSendPutHighLive
  <2>. QED
    BY <2>1, <2>2, <2>3, <2>4, <2>5, <2>6, <2>7 DEF MdPrimitive
<1>. QED
  BY <1>1, <1>2, <1>3, <1>4, <1>5, <1>6, <1>7 DEF MdProgram

LEMMA PcProgramLive == ASSUME Live, Typed', PcProgram PROVE Live'
BY PcEndsLive, PcNextCallLive, PcExitLive, PcPrimLive DEF PcProgram

-----------------------------------------------------------------------------
(* The invariant, and what it says of a run that has ended.                *)

\* Before the first run.
First == /\ pc.at = "off" /\ md.at \in {"boot", "idle"} /\ job.end = "aborted"
         /\ jumps = <<>>
CommandInv == Typed /\ (Undisturbed => JumpsAsked /\ (First \/ Live))

LEMMA CommandInitially ==
  ASSUME TransferInit PROVE CommandInv
<1>1. Typed
  BY TypesInitially
<1>2. First
  BY DEF TransferInit, First
<1>3. JumpsAsked
  BY <1>2 DEF First, JumpsAsked
<1>. QED
  BY <1>1, <1>2, <1>3 DEF CommandInv

LEMMA JumpsStayAsked ==
  ASSUME Typed, JumpsAsked, Live \/ First, [TransferNext]_vars PROVE JumpsAsked'
<1>1. jumps \in Seq(Nat)
  BY DEF Typed, TransferTypeOK
<1>2. CASE jumps' = jumps
  BY <1>2 DEF JumpsAsked
<1>3. CASE MdArgs
  <2>1. Live
    BY <1>3 DEF MdArgs, First
  <2>2. CASE jumps' = jumps
    BY <1>2, <2>2
  <2>3. CASE job.req.cmd = "jump" /\ jumps' = Append(jumps, job.req.addr)
    <3>1. job.req \in Requests /\ job.req.addr \in Nat
      BY <2>1, <2>3, RequestIs DEF Live
    <3>2. PICK a \in Nat : a = job.req.addr
      BY <3>1
    <3>3. jumps' = Append(jumps, a)
      BY <2>3, <3>2
    <3>4. ASSUME NEW i \in DOMAIN jumps' PROVE \E r \in Requests : r.cmd = "jump" /\ jumps'[i] = r.addr
      <4>1. CASE i \in DOMAIN jumps
        <5>1. jumps'[i] = jumps[i]
          BY <1>1, <3>3, <4>1
        <5>. QED
          BY <4>1, <5>1 DEF JumpsAsked
      <4>2. CASE i \notin DOMAIN jumps
        <5>1. jumps'[i] = a
          BY <1>1, <3>3, <3>4, <4>2
        <5>. QED
          BY <2>3, <3>1, <3>2, <5>1
      <4>. QED
        BY <4>1, <4>2
    <3>. QED
      BY <3>4 DEF JumpsAsked
  <2>. QED
    BY <1>3, <2>1, <2>2, <2>3, JumpIsAsked
<1>4. MdArgs \/ jumps' = jumps
  BY DEF TransferNext, PcProgram, PcRun, PcAsk, PcAcked, PcNextCall, PcExit, PcFinish, PcPrim, PcAbort,
         MdProgram, MdPoll, MdBooted, MdStartTh, MdEnter, MdEarlyTimeout, MdHandler, MdReturn, MdFault,
         MdPrim, MdPrefix, MdCommand, MdStore, MdFetch, MdLoad, MdCount, MdIoNext, MdIoOp, MdIoWrite,
         MdIoRead, MdIoSend, MdReset, mdHas, vars
<1>. QED
  BY <1>2, <1>3, <1>4

LEMMA LiveStutters == ASSUME Live, UNCHANGED vars PROVE Live'
<1>1. MdKeep /\ UNCHANGED <<cpu, ram, md, pc, job, before, jumps, used>>
  BY DEF vars, MdKeep, pcHas
<1>2. Script' = Script /\ Started' = Started /\ Fresh' = Fresh
  BY <1>1, MdScript
<1>3. TH' = TH /\ InFlight' = InFlight /\ UnderWay' = UnderWay
  BY <1>1 DEF TH, InFlight, UnderWay
<1>4. Taken' = Taken
  BY <1>2, <1>3 DEF Taken
<1>5. LastByte' = LastByte /\ Arrived' = Arrived
  BY <1>1, <1>2, <1>3, <1>4 DEF LastByte, IsTurn, Arrived
<1>6. PcWire' /\ MdWire' /\ job'.req = job.req /\ job'.end # "aborted"
  BY <1>1, <1>2, <1>3, <1>4 DEF Live, PcWire, MdWire
<1>7. Typed'
  BY TypesStep DEF Live
<1>. QED
  BY <1>1, <1>2, <1>5, <1>6, <1>7, PcKeepsLive

LEMMA CommandStep ==
  ASSUME PcPrompt, MdPrompt, CommandInv, [TransferNext]_vars
  PROVE  CommandInv'
<1>1. Typed /\ Typed'
  BY TypesStep DEF CommandInv
<1>2. SUFFICES ASSUME Undisturbed' PROVE JumpsAsked' /\ (First' \/ Live')
  BY <1>1 DEF CommandInv
<1>3. Undisturbed /\ ~PcAbort /\ ~MdReset /\ \A r \in Requests : PcRun(r) => Encodable(r)
  <2>1. used \in [runs : 0..MaxRuns, aborts : 0..MaxAborts, resets : 0..MaxResets, valid : BOOLEAN]
    BY <1>1 DEF Typed, TransferTypeOK
  <2>2. used.aborts \in Nat /\ used.resets \in Nat
    BY <2>1, BoundsAssumption
  <2>3. ~PcAbort
    BY <1>2, <2>1, <2>2 DEF PcAbort, Undisturbed
  <2>4. ~MdReset
    BY <1>2, <2>1, <2>2 DEF MdReset, Undisturbed
  <2>6. ASSUME NEW r \in Requests, PcRun(r)
        PROVE  /\ used'.aborts = used.aborts /\ used'.resets = used.resets
               /\ used'.valid => used.valid /\ Encodable(r)
    <3>1. used' = [used EXCEPT !.runs = used.runs + 1, !.valid = used.valid /\ Encodable(r)]
      BY <2>6 DEF PcRun
    <3>2. PICK valid \in BOOLEAN : valid = (used.valid /\ Encodable(r))
      OBVIOUS
    <3>3. used' = [used EXCEPT !.runs = used.runs + 1, !.valid = valid]
      BY <3>1, <3>2, Zenon
    <3>4. used'.aborts = used.aborts /\ used'.resets = used.resets /\ used'.valid = valid
      BY <2>1, <3>3
    <3>. QED
      BY <3>2, <3>4, Zenon
  <2>5. used'.aborts = used.aborts /\ used'.resets = used.resets /\ (used'.valid => used.valid)
    <3>1. CASE \E r \in Requests : PcRun(r)
      BY <2>6, <3>1
    <3>2. CASE PcProgram
      BY <3>2 DEF PcProgram, PcAsk, PcAcked, PcNextCall, PcExit, PcFinish, PcPrim
    <3>3. CASE MdProgram
      BY <3>3, HandlersKeep DEF MdProgram, MdPoll, MdBooted, MdStartTh, MdEnter, MdEarlyTimeout,
         MdReturn, MdFault, MdPrim, MdKeep
    <3>4. CASE UNCHANGED vars
      BY <3>4 DEF vars
    <3>. QED
      BY <2>3, <2>4, <3>1, <3>2, <3>3, <3>4 DEF TransferNext
  <2>. QED
    BY <1>2, <2>3, <2>4, <2>5, <2>6 DEF Undisturbed
<1>4. JumpsAsked /\ (First \/ Live)
  BY <1>3 DEF CommandInv
<1>5. JumpsAsked'
  BY <1>1, <1>4, JumpsStayAsked
<1>6. CASE Live
  <2>1. CASE \E r \in Requests : PcRun(r)
    BY <1>1, <1>3, <1>5, <1>6, <2>1, PcRunLive
  <2>2. CASE PcProgram
    BY <1>1, <1>5, <1>6, <2>2, PcProgramLive
  <2>3. CASE MdProgram
    BY <1>1, <1>5, <1>6, <2>3, MdProgramLive
  <2>4. CASE UNCHANGED vars
    BY <1>5, <1>6, <2>4, LiveStutters
  <2>. QED
    BY <1>3, <1>5, <2>1, <2>2, <2>3, <2>4 DEF TransferNext
<1>7. CASE First
  <2>1. PcShape /\ PcLines /\ MdShape
    BY <1>1 DEF Typed, HandInv
  <2>2. pc.at = "off" /\ md.at \in {"boot", "idle"} /\ pc.tr # 0
    BY <1>7, <2>1 DEF First, PcLines
  <2>3. CASE \E r \in Requests : PcRun(r)
    <3>1. PICK r \in Requests : PcRun(r)
      BY <2>3
    <3>2. md.at \in {"idle", "hang"}
      BY <2>2, <3>1 DEF PcRun, MdSettled
    <3>. QED
      BY <1>1, <1>3, <1>5, <3>1, <3>2, RunStarts DEF Typed
  <2>4. ~PcProgram
    BY <2>2 DEF PcProgram, PcAsk, PcAcked, PcNextCall, PcExit, PcFinish, PcPrim, PcPrimitive,
       OutB, PcSendWaitLow, PcSendTlLow, PcSendWaitHigh, PcSendTlHigh, PcRecvTlLow, PcRecvWaitLow,
       PcRecvLow, PcRecvTlHigh, PcRecvWaitHigh, PcRecvHigh, PcToIn, PcDelay, PcToOut, PcGo
  <2>5. CASE MdProgram
    <3>1. ~MdPoll /\ ~MdStartTh /\ ~MdEnter /\ ~MdEarlyTimeout /\ ~MdReturn /\ ~MdFault
      BY <2>2 DEF MdPoll, MdStartTh, MdEnter, MdEarlyTimeout, MdReturn, MdFault, MdWrite
    <3>2. ~MdHandler
      BY <2>2 DEF MdHandler, MdPrefix, MdCommand, MdArgs, MdStore, MdFetch, MdLoad, MdCount,
         MdIoNext, MdIoOp, MdIoWrite, MdIoRead, MdIoSend
    <3>3. ~MdPrim
      BY <2>2 DEF MdPrim, MdPrimitive, MdRecvClr, MdRecvLow, MdRecvSet, MdRecvHigh, MdRecvNext,
         MdSendLow, MdSendPutLow, MdSendHigh, MdSendPutHigh, MdSwitchWait, MdSwitchDir, MdSwitchTh,
         MdInput, MdGo, MdWrite
    <3>4. MdBooted
      BY <2>5, <3>1, <3>2, <3>3 DEF MdProgram
    <3>5. First'
      BY <1>7, <2>1, <3>4 DEF First, MdBooted, MdKeep, pcHas, MdShape
    <3>. QED
      BY <1>5, <3>5
  <2>6. CASE UNCHANGED vars
    BY <1>5, <1>7, <2>6 DEF First, vars
  <2>. QED
    BY <1>3, <2>3, <2>4, <2>5, <2>6 DEF TransferNext
<1>. QED
  BY <1>4, <1>5, <1>6, <1>7

-----------------------------------------------------------------------------
(* A run that has ended.                                                   *)

Ended == Live /\ pc.at = "off"

\* The console is not waiting for the PC.
LEMMA EndedIs ==
  ASSUME Ended
  PROVE  /\ ~Fresh /\ Arrived = job.rd /\ LastByte = Len(Script) /\ Len(Script) \in Nat
         /\ Len(Script) >= 2
         /\ Taking => md.at \in {"recvNext", "done"}
         /\ Giving => md.at = "done"
<1>1. /\ ~Fresh /\ Arrived = job.rd /\ LastByte = Len(Script) /\ LastByte >= 2
      /\ After(LastByte) \notin 1..Len(Script)
  BY OffIs DEF Ended
<1>2. Len(Script) \in Nat
  BY Counts DEF Ended
<1>3. Taking => md.at \in {"recvNext", "done"}
  BY <1>1, TakingIs DEF Ended, RecvPoints, Waits
<1>4. Giving => md.at = "done"
  BY <1>1, GivingIs DEF Ended
<1>. QED
  BY <1>1, <1>2, <1>3, <1>4

\* It has taken the byte it has asked for.
LEMMA EndedTook ==
  ASSUME Ended, NEW n, NEW m, NEW b, Got(n), NextIs(n, m, b), Taking PROVE m = Len(Script)
<1>1. LastByte = Len(Script) /\ ~Waits
  BY EndedIs DEF Waits
<1>. QED
  BY <1>1 DEF Got, NextIs

\* Each operation takes five bytes and more, so only the last one's end is
\* the script's.
LEMMA OffsetsGrow ==
  ASSUME Live, job.req.cmd = "io"
  PROVE  \A n \in 0..Len(job.req.ops) :
           Offsets(job.req.ops)[n] + (Len(job.req.ops) - n) <= Len(Script)
<1>1. PICK L : L = Len(job.req.ops)
  OBVIOUS
<1>2. PICK f : f = Offsets(job.req.ops)
  OBVIOUS
<1>3. L \in Nat /\ \A n \in 0..L : f[n] \in Nat
  <2>1. L \in Nat
    <3>1. job.req.ops \in Seq(IoOps)
      BY RequestIs DEF Live
    <3>. QED
      BY <1>1, <3>1
  <2>. QED
    BY <1>1, <1>2, <2>1, OpsAre
<1>4. ASSUME NEW n \in 0..L, n < L PROVE f[n + 1] >= f[n] + 1
  <2>1. PICK o : o = job.req.ops[n + 1]
    OBVIOUS
  <2>2. Width[o.op] \in {1, 2, 4} /\ f[n + 1] = f[n] + OpLen(o)
    BY <1>1, <1>2, <1>4, <2>1, OpsAre
  <2>3. OpLen(o) \in Nat /\ OpLen(o) >= 1
    BY <2>2 DEF OpLen
  <2>. QED
    BY <1>3, <2>2, <2>3
<1>5. f[L] = Len(Script)
  BY <1>1, <1>2, ScriptSays DEF ScriptFor, Live
<1> DEFINE T == {k \in Nat : k <= L => f[L - k] + k <= Len(Script)}
<1>6. 0 \in T
  BY <1>3, <1>5
<1>7. ASSUME NEW k \in Nat, k \in T PROVE k + 1 \in T
  <2>1. SUFFICES ASSUME k + 1 <= L PROVE f[L - (k + 1)] + (k + 1) <= Len(Script)
    OBVIOUS
  <2>2. PICK n \in 0..L : n = L - (k + 1)
    BY <1>3, <2>1
  <2>3. n < L /\ n + 1 = L - k /\ n + 1 \in 0..L
    BY <1>3, <2>1, <2>2
  <2>4. f[n + 1] + k <= Len(Script)
    BY <1>3, <1>7, <2>1, <2>3
  <2>5. f[n + 1] >= f[n] + 1 /\ f[n] \in Nat /\ f[n + 1] \in Nat /\ Len(Script) \in Nat
    BY <1>3, <1>4, <2>3, Counts
  <2>. QED
    BY <2>2, <2>4, <2>5
<1>8. \A k \in Nat : k \in T
  <2> HIDE DEF T
  <2>. QED
    BY <1>6, <1>7, NatSets
<1>9. ASSUME NEW n \in 0..L PROVE f[n] + (L - n) <= Len(Script)
  <2>1. L - n \in Nat /\ L - n <= L /\ L - (L - n) = n
    BY <1>3
  <2>2. L - n \in T
    BY <1>8, <2>1
  <2>. QED
    BY <2>1, <2>2
<1>. QED
  BY <1>1, <1>2, <1>9

\* The commands that only send have no bytes to bring.
LEMMA SentAll ==
  ASSUME Ended, job.req.cmd \in {"send", "jump", "loadstate"}, md.at \in Middle
  PROVE  Arrived = <<>> /\ Promised(job.req, before).rd = <<>>
<1>1. Promised(job.req, before).rd = <<>>
  BY DEF Promised
<1>2. job.req.cmd = "jump" \/ job.req.cmd = "send" \/ job.req.cmd = "loadstate"
  BY SMTT(30)
<1>3. InPrefix \/ InCmd \/ InArgs \/ InSend \/ InLoad
  BY <1>2, Zenon DEF Ended, Live, Story, Middle, InRecv, InVram, InCount, InNext, InOp, InWrite, InRead, InGive,
              OpsDone, OpsDoneAll
<1>. QED
  BY <1>1, <1>3 DEF InPrefix, InCmd, InArgs, InSend, InLoad, Nothing

\* A console that has not taken the whole command yet is not at its end.
LEMMA FirstBytes ==
  ASSUME Ended, InPrefix \/ InCmd PROVE Len(Script) = 2
<1>1. Taking
  BY GotSays DEF Ended
<1>2. NextIs(0, 1, CmdPrefix) /\ NextIs(1, 2, Code[job.req.cmd])
  BY ScriptSays DEF Ended, Live, Says
<1>3. CASE InPrefix
  <2>1. 1 = Len(Script)
    BY <1>1, <1>2, <1>3, EndedTook DEF InPrefix
  <2>. QED
    BY <2>1, EndedIs
<1>4. CASE InCmd
  BY <1>1, <1>2, <1>4, EndedTook DEF InCmd
<1>. QED
  BY <1>3, <1>4

\* A reading loop has sent all it was to send.
LEMMA GaveAll ==
  ASSUME Ended, Giving, NEW n \in Nat, NEW i \in Int, NEW s \in Seq(Byte), NEW had \in Seq(Byte),
         Len(s) > 0, TakesNext(n, Len(s)), Gives(n, i, s, had)
  PROVE  /\ i \in 0..Len(s) /\ Len(Script) = (IF i = 0 THEN n ELSE n + 1 + i)
         /\ (Len(Script) = n + 1 + Len(s) => i = Len(s) /\ Arrived = had \o s)
<1>1. md.at = "done" /\ LastByte = Len(Script) /\ Live
  BY EndedIs DEF Ended
<1>2. /\ i \in 0..Len(s) /\ LastByte = (IF i = 0 THEN n ELSE n + 1 + i)
      /\ i = Len(s) => Arrived = had \o s
  BY <1>1, GaveSome
<1>. QED
  BY <1>1, <1>2

LEMMA RecvAll ==
  ASSUME Ended, job.req.cmd = "recv", md.at \in Middle
  PROVE  Arrived = Promised(job.req, before).rd
<1>1. /\ job.req \in Requests /\ Encodable(job.req) /\ before \in [Addr -> Byte] /\ cpu.addr \in Int
      /\ Live
  BY DEF Ended, Live, Typed, TransferTypeOK
<1>2. PICK size \in Nat : size = job.req.size /\ size > 0
  BY <1>1, RequestIs DEF Encodable
<1>3. Len(Script) = 9 + size /\ Says(job.req)
  BY <1>1, <1>2, ScriptSays DEF ScriptFor
<1>4. InPrefix \/ InCmd \/ InArgs \/ InRecv
  BY DEF Ended, Live, Story, Middle, InSend, InVram, InLoad, InCount, InNext, InOp, InWrite, InRead, InGive,
         OpsDone, OpsDoneAll
<1>5. ~InPrefix /\ ~InCmd
  BY <1>2, <1>3, FirstBytes
<1>6. ~InArgs
  <2>1. SUFFICES ASSUME InArgs PROVE FALSE
    OBVIOUS
  <2>2. PICK i : i = Len(cpu.acc)
    OBVIOUS
  <2>3. i \in Nat
    BY <2>2 DEF Ended, Live, Typed, TransferTypeOK
  <2>4. Len(AddrBytes(job.req)) = 6
    BY <1>1, AddrBytesAre
  <2>a. i < Len(AddrBytes(job.req)) /\ Got(2 + i)
    BY <2>1, <2>2 DEF InArgs
  <2>5. i \in 0..(Len(AddrBytes(job.req)) - 1) /\ Got(2 + i) /\ i < 6
    BY <2>3, <2>4, <2>a
  <2>6. NextIs(2 + i, 3 + i, AddrBytes(job.req)[i + 1])
    BY <1>3, <2>5 DEF Says
  <2>7. Taking
    BY <1>1, <2>1, GotSays
  <2>8. 3 + i = Len(Script)
    BY <2>5, <2>6, <2>7, EndedTook
  <2>. QED
    BY <1>2, <1>3, <2>3, <2>5, <2>8
<1>7. InRecv /\ Giving
  BY <1>1, <1>4, <1>5, <1>6, GivesSays
<1>8. PICK i : i = cpu.addr - job.req.addr
  OBVIOUS
<1>9. PICK s : s = PeekN(before, job.req.addr, size)
  OBVIOUS
<1>10. i \in Int /\ s \in Seq(Byte) /\ Len(s) = size
  <2>1. job.req.addr \in Nat
    BY <1>1, RequestIs
  <2>2. i \in Int
    BY <1>1, <1>8, <2>1
  <2>3. s \in Seq(Byte) /\ Len(s) = size
    BY <1>1, <1>9, PeekNAre
  <2>. QED
    BY <2>2, <2>3
<1>11. Gives(8, i, s, <<>>)
  BY <1>2, <1>7, <1>8, <1>9 DEF InRecv
<1>12. TakesNext(8, Len(s)) /\ Len(Script) = 8 + 1 + Len(s) /\ Len(s) > 0
  BY <1>2, <1>3, <1>10 DEF Says
<1>13. <<>> \in Seq(Byte) /\ <<>> \o s = s
  BY <1>10
<1>14. Arrived = s
  <2>1. PICK n \in Nat : n = 8
    OBVIOUS
  <2>2. PICK had \in Seq(Byte) : had = <<>>
    BY <1>13
  <2>3. Gives(n, i, s, had) /\ TakesNext(n, Len(s)) /\ Len(Script) = n + 1 + Len(s)
    BY <1>11, <1>12, <2>1, <2>2
  <2>4. Arrived = had \o s
    BY <1>7, <1>10, <1>11, <1>12, <1>13, <2>3, GaveAll
  <2>. QED
    BY <2>2, <2>4, <1>13
<1>15. Promised(job.req, before).rd = PeekN(before, job.req.addr, job.req.size)
  BY DEF Promised
<1>. QED
  BY <1>2, <1>9, <1>14, <1>15

LEMMA VramAll ==
  ASSUME Ended, job.req.cmd = "recvvram", md.at \in Middle
  PROVE  Arrived = Promised(job.req, before).rd
<1>1. job.req \in Requests /\ Encodable(job.req) /\ cpu.addr \in Int /\ Live
  BY DEF Ended, Live, Typed, TransferTypeOK
<1>2. VramBytes \in Nat /\ VramBytes > 0
  BY <1>1, BoundsAssumption DEF Encodable
<1>3. Len(Script) = 3 + VramBytes /\ Says(job.req)
  BY <1>1, <1>2, ScriptSays DEF ScriptFor
<1>4. InPrefix \/ InCmd \/ InVram
  BY DEF Ended, Live, Story, Middle, InArgs, InSend, InRecv, InLoad, InCount, InNext, InOp, InWrite, InRead,
         InGive, OpsDone, OpsDoneAll
<1>5. ~InPrefix /\ ~InCmd
  BY <1>2, <1>3, FirstBytes
<1>6. InVram /\ Giving
  BY <1>1, <1>4, <1>5, GivesSays
<1>7. PICK i : i = cpu.addr
  OBVIOUS
<1>8. PICK s : s = [k \in 1..VramBytes |-> VramByte(k - 1)]
  OBVIOUS
<1>9. s \in Seq(Byte) /\ Len(s) = VramBytes
  BY <1>8, VramBytesAre
<1>10. Gives(2, i, s, <<>>) /\ i \in Int
  BY <1>1, <1>6, <1>7, <1>8 DEF InVram
<1>11. TakesNext(2, Len(s)) /\ Len(Script) = 2 + 1 + Len(s) /\ Len(s) > 0
  BY <1>2, <1>3, <1>9 DEF Says
<1>12. <<>> \in Seq(Byte) /\ <<>> \o s = s
  BY <1>9
<1>13. Arrived = s
  <2>1. PICK n \in Nat : n = 2
    OBVIOUS
  <2>2. PICK had \in Seq(Byte) : had = <<>>
    BY <1>12
  <2>3. Gives(n, i, s, had) /\ TakesNext(n, Len(s)) /\ Len(Script) = n + 1 + Len(s)
    BY <1>10, <1>11, <2>1, <2>2
  <2>4. Arrived = had \o s
    BY <1>6, <1>9, <1>10, <1>11, <1>12, <2>3, GaveAll
  <2>. QED
    BY <2>2, <2>4, <1>12
<1>14. Promised(job.req, before).rd = [k \in 1..VramBytes |-> VramByte(k - 1)]
  BY DEF Promised
<1>. QED
  BY <1>8, <1>13, <1>14

\* The i/o operations are all done, and the last read has brought its bytes.
LEMMA OpsAllDone ==
  ASSUME Ended, job.req.cmd = "io", NEW n \in 0..Len(job.req.ops), Offsets(job.req.ops)[n] = Len(Script)
  PROVE  n = Len(job.req.ops) /\ Promised(job.req, before).rd = OpsRd(n)
<1>1. job.req.ops \in Seq(IoOps) /\ Len(job.req.ops) \in Nat /\ Len(Script) \in Nat /\ Live
  BY RequestIs, EndedIs DEF Ended, Live
<1>2. Offsets(job.req.ops)[n] + (Len(job.req.ops) - n) <= Len(Script)
  BY <1>1, OffsetsGrow
<1>3. n = Len(job.req.ops)
  BY <1>1, <1>2
<1>. QED
  BY <1>3 DEF Promised, OpsRd

\* An operation that has begun ends within the script.
LEMMA OpFits ==
  ASSUME Ended, job.req.cmd = "io", NEW n \in 0..Len(job.req.ops), n < Len(job.req.ops)
  PROVE  /\ n + 1 \in 0..Len(job.req.ops)
         /\ Offsets(job.req.ops)[n] \in Nat /\ Width[job.req.ops[n + 1].op] \in {1, 2, 4}
         /\ OpSays(Offsets(job.req.ops)[n], job.req.ops[n + 1])
         /\ Offsets(job.req.ops)[n + 1] = Offsets(job.req.ops)[n] + OpLen(job.req.ops[n + 1])
         /\ Offsets(job.req.ops)[n] + OpLen(job.req.ops[n + 1]) <= Len(Script)
<1>1. Live /\ Len(Script) \in Nat
  BY EndedIs DEF Ended
<1>2. PICK o : o = job.req.ops[n + 1]
  OBVIOUS
<1>3. PICK f : f = Offsets(job.req.ops)
  OBVIOUS
<1>4. /\ Len(job.req.ops) \in Nat /\ f[n] \in Nat /\ Width[o.op] \in {1, 2, 4} /\ OpSays(f[n], o)
      /\ f[n + 1] = f[n] + OpLen(o)
  BY <1>1, <1>2, <1>3, OpsAre
<1>5. n + 1 \in 0..Len(job.req.ops)
  BY <1>4
<1>6. f[n + 1] + (Len(job.req.ops) - (n + 1)) <= Len(Script)
  BY <1>1, <1>3, <1>5, OffsetsGrow
<1>7. OpLen(o) \in Nat
  BY <1>4 DEF OpLen
<1>8. f[n] + OpLen(o) <= Len(Script)
  BY <1>1, <1>4, <1>5, <1>6, <1>7
<1>. QED
  BY <1>2, <1>3, <1>4, <1>5, <1>8

\* Only a command of no operations ends with its count.
LEMMA NoOps ==
  ASSUME Ended, job.req.cmd = "io", InPrefix \/ InCmd \/ InCount
  PROVE  Arrived = Promised(job.req, before).rd
<1>1. Arrived = <<>> /\ Taking /\ Live
  BY GotSays DEF Ended, InPrefix, InCmd, InCount, Nothing
<1>2. Len(Script) <= 4
  <2>1. CASE InPrefix \/ InCmd
    <3>1. Len(Script) = 2
      BY <2>1, FirstBytes
    <3>. QED
      BY <3>1
  <2>2. CASE InCount
    <3>1. PICK i : i = Len(cpu.acc)
      OBVIOUS
    <3>2. i \in Nat /\ i < 2 /\ Got(2 + i)
      BY <2>2, <3>1 DEF InCount, Ended, Live, Typed, TransferTypeOK
    <3>3. i \in 0..1
      BY <3>2
    <3>4. NextIs(2 + i, 3 + i, Tail(Bytes3(Len(job.req.ops)))[i + 1])
      BY <1>1, <3>3, ScriptSays DEF Live, Says
    <3>5. 3 + i = Len(Script)
      BY <1>1, <3>2, <3>4, EndedTook
    <3>. QED
      BY <3>3, <3>5
  <2>. QED
    BY <2>1, <2>2
<1>3. job.req.ops \in Seq(IoOps) /\ Len(job.req.ops) \in Nat /\ before \in [Addr -> Byte]
  BY <1>1, RequestIs DEF Live, Typed, TransferTypeOK
<1>4. Len(job.req.ops) = 0
  <2>1. SUFFICES ASSUME Len(job.req.ops) # 0 PROVE FALSE
    OBVIOUS
  <2>2. 0 \in 0..Len(job.req.ops) /\ 0 < Len(job.req.ops)
    BY <1>3, <2>1
  <2>3. PICK f : f = Offsets(job.req.ops)[0]
    OBVIOUS
  <2>4. PICK o : o = job.req.ops[0 + 1]
    OBVIOUS
  <2>5. f = 4
    <3>1. \A i \in 1..Len(job.req.ops) : Whole(job.req.ops[i])
      BY <1>1, <1>3 DEF Live, Encodable, Whole
    <3>. QED
      BY <1>3, <2>3, <3>1, OffsetsAre
  <2>6. Width[o.op] \in {1, 2, 4} /\ f + OpLen(o) <= Len(Script)
    BY <2>2, <2>3, <2>4, OpFits
  <2>7. OpLen(o) \in Nat /\ OpLen(o) >= 6
    BY <2>6 DEF OpLen
  <2>. QED
    BY <1>2, <2>5, <2>6, <2>7, EndedIs
<1>5. Results(job.req.ops, before)[0] = [ram |-> before, rd |-> <<>>]
  BY <1>3, ResultsAre
<1>6. Promised(job.req, before).rd = <<>>
  BY <1>4, <1>5 DEF Promised
<1>. QED
  BY <1>1, <1>6

LEMMA OpAtEnd == ASSUME Ended, job.req.cmd = "io", InOp PROVE FALSE
<1>1. PICK n : n = Len(job.req.ops) - cpu.left - 1
  OBVIOUS
<1>2. PICK o : o = job.req.ops[n + 1]
  OBVIOUS
<1>3. PICK i \in Nat : i = Len(cpu.acc)
  BY DEF Ended, Live, Typed, TransferTypeOK
<1>4. PICK f : f = Offsets(job.req.ops)[n]
  OBVIOUS
<1>5. /\ n \in 0..Len(job.req.ops) /\ n < Len(job.req.ops) /\ i < 4
      /\ Got(f + (IF i = 0 THEN 0 ELSE 1 + i))
  BY <1>1, <1>3, <1>4 DEF InOp, OpsDoneAll, OpsDone
<1>6. f \in Nat /\ Width[o.op] \in {1, 2, 4} /\ OpSays(f, o) /\ f + OpLen(o) <= Len(Script)
  BY <1>2, <1>4, <1>5, OpFits
<1>7. OpLen(o) \in Nat /\ OpLen(o) >= 6 /\ Len(Script) \in Nat
  BY <1>6, EndedIs DEF OpLen
<1>8. Taking
  BY GotSays DEF Ended
<1>9. f + 2 + i = Len(Script)
  <2>1. CASE i = 0
    <3>1. f + 0 = f
      BY <1>6
    <3>2. Got(f) /\ NextIs(f, f + 2, OpBytes(o)[1])
      BY <1>5, <1>6, <2>1, <3>1 DEF OpSays
    <3>3. f + 2 = Len(Script)
      BY <1>8, <3>2, EndedTook
    <3>. QED
      BY <1>6, <2>1, <3>3
  <2>2. CASE i # 0
    <3>1. i \in 1..3 /\ f + (1 + i) = f + 1 + i
      BY <1>5, <1>6, <2>2
    <3>2. Got(f + 1 + i) /\ NextIs(f + 1 + i, f + 2 + i, OpBytes(o)[i + 1])
      BY <1>5, <1>6, <2>2, <3>1 DEF OpSays
    <3>. QED
      BY <1>8, <3>2, EndedTook
  <2>. QED
    BY <2>1, <2>2
<1>. QED
  BY <1>5, <1>6, <1>7, <1>9

LEMMA WriteAtEnd ==
  ASSUME Ended, job.req.cmd = "io", InWrite PROVE Arrived = Promised(job.req, before).rd
<1>1. PICK n : n = Len(job.req.ops) - cpu.left - 1
  OBVIOUS
<1>2. PICK o : o = job.req.ops[n + 1]
  OBVIOUS
<1>3. PICK i \in Nat : i = Len(cpu.acc)
  BY DEF Ended, Live, Typed, TransferTypeOK
<1>4. PICK f : f = Offsets(job.req.ops)[n]
  OBVIOUS
<1>5. /\ n \in 0..Len(job.req.ops) /\ n < Len(job.req.ops) /\ i < Len(o.data) /\ o.op \notin Reads
      /\ Got(f + 5 + i) /\ Arrived = OpsRd(n) /\ Live
  BY <1>1, <1>2, <1>3, <1>4 DEF InWrite, OpsDoneAll, OpsDone, Ended
<1>6. /\ f \in Nat /\ Width[o.op] \in {1, 2, 4} /\ OpSays(f, o) /\ f + OpLen(o) <= Len(Script)
      /\ Offsets(job.req.ops)[n + 1] = f + OpLen(o) /\ n + 1 \in 0..Len(job.req.ops)
  BY <1>2, <1>4, <1>5, OpFits
<1>7. Len(o.data) = Width[o.op] /\ OpLen(o) = 5 + Width[o.op] /\ Len(Script) \in Nat
  <2>1. Len(o.data) = Width[o.op]
    BY <1>2, <1>5, OpsAre
  <2>2. OpLen(o) = 5 + Width[o.op]
    BY <1>5 DEF OpLen
  <2>3. Len(Script) \in Nat
    BY EndedIs
  <2>. QED
    BY <2>1, <2>2, <2>3
<1>8. Taking
  BY <1>5, GotSays
<1>9. f + 6 + i = Len(Script)
  <2>1. i \in 0..(Len(o.data) - 1)
    BY <1>5, <1>6, <1>7
  <2>2. NextIs(f + 5 + i, f + 6 + i, o.data[i + 1])
    BY <1>5, <1>6, <2>1 DEF OpSays
  <2>. QED
    BY <1>5, <1>8, <2>2, EndedTook
<1>10. Offsets(job.req.ops)[n + 1] = Len(Script)
  BY <1>5, <1>6, <1>7, <1>9, SMTT(30)
<1>11. Promised(job.req, before).rd = OpsRd(n + 1)
  BY <1>6, <1>10, OpsAllDone
<1>12. OpsRd(n + 1) = OpsRd(n)
  <2>1. PICK res : res = Results(job.req.ops, before)[n]
    OBVIOUS
  <2>2. res \in Machine /\ Results(job.req.ops, before)[n + 1] = IoResult(res, o)
    BY <1>2, <1>5, <2>1, OpsAre
  <2>3. IoResult(res, o).rd = res.rd
    BY <1>5, <2>2 DEF IoResult, Machine
  <2>. QED
    BY <2>1, <2>2, <2>3 DEF OpsRd
<1>. QED
  BY <1>5, <1>11, <1>12

LEMMA ReadAtEnd ==
  ASSUME Ended, job.req.cmd = "io", InRead PROVE FALSE
<1>1. PICK n : n = Len(job.req.ops) - cpu.left - 1
  OBVIOUS
<1>2. PICK o : o = job.req.ops[n + 1]
  OBVIOUS
<1>4. PICK f : f = Offsets(job.req.ops)[n]
  OBVIOUS
<1>a. PICK s : s = PeekN(ram, o.addr, Width[o.op])
  OBVIOUS
<1>b. PICK had : had = OpsRd(n)
  BY SMTT(30)
<1>5. /\ n \in 0..Len(job.req.ops) /\ n < Len(job.req.ops) /\ o.op \in Reads
      /\ Gives(f + 5, 0, s, had) /\ Live
  BY <1>1, <1>2, <1>4, <1>a, <1>b, Zenon DEF InRead, OpsDone, Ended
<1>6. f \in Nat /\ Width[o.op] \in {1, 2, 4} /\ f + OpLen(o) <= Len(Script)
  BY <1>2, <1>4, <1>5, OpFits
<1>7. OpLen(o) \in Nat /\ OpLen(o) >= 6 /\ Len(Script) \in Nat
  BY <1>6, EndedIs DEF OpLen
<1>8. LastByte = f + 5
  BY <1>5 DEF Gives, GivePoints
<1>. QED
  BY <1>6, <1>7, <1>8, EndedIs

LEMMA GiveAtEnd ==
  ASSUME Ended, job.req.cmd = "io", InGive PROVE Arrived = Promised(job.req, before).rd
<1>1. PICK n : n = Len(job.req.ops) - cpu.left - 1
  OBVIOUS
<1>2. PICK o : o = job.req.ops[n + 1]
  OBVIOUS
<1>3. PICK f : f = Offsets(job.req.ops)[n]
  OBVIOUS
<1>4. PICK w : w = Width[o.op]
  OBVIOUS
<1>5. PICK s : s = PeekN(ram, o.addr, w)
  OBVIOUS
<1>6. PICK had : had = OpsRd(n)
  OBVIOUS
<1>7. PICK i : i = w - Len(cpu.acc)
  OBVIOUS
<1>8. /\ OpsDone(n) /\ n \in 0..Len(job.req.ops) /\ n < Len(job.req.ops) /\ o.op \in Reads
      /\ i \in 1..w /\ Gives(f + 5, i, s, had) /\ Live
  BY <1>1, <1>2, <1>3, <1>4, <1>5, <1>6, <1>7, Zenon DEF InGive, OpsDone, Ended
<1>9. /\ f \in Nat /\ w \in {1, 2, 4} /\ OpSays(f, o) /\ f + OpLen(o) <= Len(Script)
      /\ Offsets(job.req.ops)[n + 1] = f + OpLen(o) /\ n + 1 \in 0..Len(job.req.ops)
  BY <1>2, <1>3, <1>4, <1>8, OpFits
<1>10. PICK res : res = Results(job.req.ops, before)[n]
  OBVIOUS
<1>11. /\ res \in Machine /\ Results(job.req.ops, before)[n + 1] = IoResult(res, o)
       /\ ram = res.ram /\ had = res.rd
  BY <1>2, <1>6, <1>8, <1>10, OpsAre DEF OpsDone, OpsRd
<1>12. w \in Nat /\ s \in Seq(Byte) /\ Len(s) = w /\ Len(s) > 0 /\ had \in Seq(Byte)
  <2>1. w \in Nat /\ ram \in [Addr -> Byte]
    BY <1>9, <1>11 DEF Machine
  <2>2. s \in Seq(Byte) /\ Len(s) = w
    BY <1>5, <2>1, PeekNAre
  <2>. QED
    BY <1>9, <1>11, <2>1, <2>2 DEF Machine
<1>13. OpLen(o) = 6 + w /\ Len(Script) \in Nat
  BY <1>4, <1>8, EndedIs DEF OpLen
<1>14. PICK p \in Nat : p = f + 5
  BY <1>9
<1>15. /\ Giving /\ TakesNext(p, Len(s)) /\ Gives(p, i, s, had) /\ i \in Int
  <2>1. Giving
    BY <1>8, GivesSays
  <2>. QED
    BY <1>4, <1>8, <1>9, <1>12, <1>14, <2>1 DEF OpSays
<1>16. /\ Len(Script) = (IF i = 0 THEN p ELSE p + 1 + i)
       /\ Len(Script) = p + 1 + Len(s) => i = Len(s) /\ Arrived = had \o s
  BY <1>12, <1>15, GaveAll
<1>17. Len(Script) = p + 1 + Len(s) /\ Offsets(job.req.ops)[n + 1] = Len(Script)
  BY <1>8, <1>9, <1>12, <1>13, <1>14, <1>16
<1>18. Promised(job.req, before).rd = OpsRd(n + 1)
  BY <1>9, <1>17, OpsAllDone
<1>19. OpsRd(n + 1) = had \o s
  <2>1. IoResult(res, o).rd = res.rd \o s
    BY <1>4, <1>5, <1>8, <1>11 DEF IoResult, Machine
  <2>. QED
    BY <1>11, <2>1 DEF OpsRd
<1>. QED
  BY <1>16, <1>17, <1>18, <1>19

LEMMA IoAll ==
  ASSUME Ended, job.req.cmd = "io", md.at \in Middle
  PROVE  Arrived = Promised(job.req, before).rd
<1>1. InPrefix \/ InCmd \/ InCount \/ InNext \/ InOp \/ InWrite \/ InRead \/ InGive
  BY DEF Ended, Live, Story, Middle, InArgs, InSend, InRecv, InVram, InLoad
<1>2. CASE InNext
  <2>1. PICK n : n = Len(job.req.ops) - cpu.left
    OBVIOUS
  <2>2. n \in 0..Len(job.req.ops) /\ Arrived = OpsRd(n) /\ LastByte = Offsets(job.req.ops)[n]
    BY <1>2, <2>1 DEF InNext, OpsDoneAll, OpsDone
  <2>3. Promised(job.req, before).rd = OpsRd(n)
    BY <2>2, EndedIs, OpsAllDone
  <2>. QED
    BY <2>2, <2>3
<1>. QED
  BY <1>1, <1>2, NoOps, OpAtEnd, WriteAtEnd, ReadAtEnd, GiveAtEnd

\* So the run has done what its command line says.
LEMMA RunDone ==
  ASSUME Ended
  PROVE  /\ job.rd = Promised(job.req, before).rd
         /\ md.at = "idle" => ram = Promised(job.req, before).ram
         /\ md.at = "hang" => cpu.acc = job.req.data
<1>1. Arrived = job.rd /\ ~Fresh /\ LastByte # 0
  BY EndedIs
<1>2. CASE md.at \in {"idle", "return", "hang"}
  <2>1. Complete /\ (md.at = "hang" => cpu.acc = job.req.data)
    BY <1>1, <1>2 DEF Ended, Live, Story
  <2>. QED
    BY <1>1, <2>1 DEF Complete
<1>3. md.at \notin {"startTh", "askLow", "boot"}
  BY <1>1, AskingIs DEF Ended, Live, Story
<1>4. CASE md.at \in Middle
  <2>1. job.req.cmd \in DOMAIN Code
    BY RequestIs DEF Ended, Live
  <2>2. job.req.cmd \in {"send", "recv", "jump", "io", "loadstate", "recvvram"}
    BY <2>1 DEF Code
  <2>3. Arrived = Promised(job.req, before).rd
    BY <1>4, <2>2, SentAll, RecvAll, VramAll, IoAll
  <2>. QED
    BY <1>1, <1>4, <2>3 DEF Middle
<1>5. md.at \in MdPoints
  BY DEF Ended, Live, Typed, HandInv, MdShape
<1>. QED
  BY <1>2, <1>3, <1>4, <1>5 DEF MdPoints, Middle

(***************************************************************************)
(* On a cable that keeps the timing the two programs rely on (PcPrompt,    *)
(* MdPrompt): as long as nobody interferes and no command line has been    *)
(* given that the console cannot carry out, a run that ends normally has   *)
(* read what it asked for, the console's memory is as the command leaves   *)
(* it once it is back in its main loop, a savestate has been loaded whole, *)
(* and the console has jumped only where it was told to (pc_transfer.c:    *)
(* main; transfer.S: do_transfer).                                         *)
(***************************************************************************)
THEOREM CommandsDone ==
  ASSUME PcPrompt, MdPrompt
  PROVE  TransferSpec => []CommandDone
<1>1. TransferInit => CommandInv
  BY CommandInitially
<1>2. CommandInv /\ [TransferNext]_vars => CommandInv'
  BY CommandStep
<1>3. CommandInv => CommandDone
  <2>1. SUFFICES ASSUME CommandInv, Undisturbed PROVE CommandDone
    BY DEF CommandDone
  <2>2. JumpsAsked /\ (First \/ Live)
    BY <2>1 DEF CommandInv
  <2>3. ASSUME pc.at = "off", job.end = "ok"
        PROVE  /\ job.rd = Promised(job.req, before).rd
               /\ md.at = "idle" => ram = Promised(job.req, before).ram
               /\ md.at = "hang" => cpu.acc = job.req.data
    BY <2>2, <2>3, RunDone DEF Ended, First
  <2>. QED
    BY <2>2, <2>3 DEF CommandDone, JumpsAsked
<1>. QED
  BY <1>1, <1>2, <1>3, PTL DEF TransferSpec
=============================================================================
