------------------------- MODULE HexedTransferStory -------------------------
(***************************************************************************)
(* Where the two programs of HexedTransfer are in a command that nobody    *)
(* interferes with: how many of the PC's calls the console has seen        *)
(* through, what it has in its registers and its memory at that point, and *)
(* which bytes have come back.  HexedTransferProofs shows that every state *)
(* of such a run is one of these, and that the last of them is what the    *)
(* command line promises.                                                  *)
(***************************************************************************)
EXTENDS HexedTransfer

-----------------------------------------------------------------------------
(* How far the calls have come.                                            *)

\* The PC is in the middle of a call.
SendPoints == {"sendLow", "sendTlLow", "sendHigh", "sendTlHigh"}
TakePoints == {"recvTlLow", "recvLow", "recvLowIn", "recvTlHigh"}
Turns == {"toIn", "toOut"}

\* Of the calls of the command, the PC has started Started, and the console
\* has seen Taken of them through: not the one under way, nor a byte of which
\* it has yet to read the upper nibble off the lines.
Script == Calls(job.req)
Started == Len(Script) - Len(job.calls)
UnderWay == pc.at \in SendPoints \cup TakePoints \cup Turns \/ (pc.at = "recvHigh" /\ TH = 0)
InFlight == md.at = "recvHigh" /\ pc.tl = 1
Taken == Started - (IF UnderWay THEN 1 ELSE 0) - (IF InFlight THEN 1 ELSE 0)
IsTurn(n) == n \in 1..Len(Script) /\ Script[n].call \in Turns
\* The last call seen through that was a byte, and the byte call that comes
\* after call n.
LastByte == IF IsTurn(Taken) THEN Taken - 1 ELSE Taken
After(n) == IF IsTurn(n + 1) THEN n + 2 ELSE n + 1

\* The bytes that have come back; those in the PC's hands, or on the lines,
\* count.
Arrived ==
  IF pc.at = "done" /\ job.last = "recv" THEN Append(job.rd, pc.byte)
  ELSE IF pc.at \in {"recvHigh", "recvHighIn"} /\ TH = 1 THEN Append(job.rd, <<Low(pc.byte), md.data>>)
  ELSE job.rd

\* What the PC's control point says of its calls.
PcWire ==
  /\ Len(job.calls) <= Len(Script)
  /\ \A i \in 1..Len(job.calls) : job.calls[i] = Script[Started + i]
  /\ pc.at \in SendPoints => Started > 0 /\ Script[Started] = [call |-> "send", byte |-> pc.byte]
  /\ pc.at \in TakePoints \cup {"recvHigh", "recvHighIn"} =>
       Started > 0 /\ Script[Started].call = "recv"
  /\ pc.at \in Turns => Started > 0 /\ Script[Started].call = pc.at
  /\ pc.at = "delay" => Started > 0 /\ Script[Started].call = "toIn"
  /\ job.last = IF Started = 0 THEN "start" ELSE Script[Started].call
  /\ pc.at \in {"sendTlLow", "sendHigh"} => pc.data = Low(pc.byte)
  /\ pc.at = "sendTlHigh" => pc.data = High(pc.byte)
  /\ pc.at \in {"sendHigh", "sendTlHigh"} => pc.out
  /\ pc.at \in {"startHigh", "startAck"} => Started = 0 /\ job.rd = <<>> /\ ram = before
  /\ pc.at \in {"finish", "off"} <=> job.end = "ok"
  /\ job.end = "ok" => job.calls = <<>>

\* What stands on the lines is what the other side is to see.
MdWire ==
  /\ md.at \in {"recvSet", "recvHigh"} =>
       /\ Taken < Len(Script) /\ Script[Taken + 1].call = "send"
       /\ Low(md.byte) = Low(Script[Taken + 1].byte)
  /\ InFlight => /\ pc.out /\ pc.data = High(Script[Taken + 1].byte)
                 /\ pc.at \in {"done", "sendLow", "toIn", "toOut", "finish"}
  /\ md.at \in {"sendHigh", "sendPutHigh"} => md.data = Low(md.byte)
  /\ pc.at = "recvTlHigh" \/ (pc.at = "recvHigh" /\ TH = 0) => Low(pc.byte) = Low(md.byte)
  /\ pc.at \in {"recvLowIn", "recvTlHigh", "recvHigh", "recvHighIn"} => md.dir = "data"
  /\ pc.at = "recvHighIn" => md.th = 1

-----------------------------------------------------------------------------
(* What the console has done of the command, at each stage.                *)

\* After call n the console waits for the next byte, or has it.
Waits == md.at \in {"recvClr", "recvLow", "recvSet", "recvHigh"}
Has == md.at \in {"recvNext", "done"}
Got(n) == \/ Waits /\ LastByte = n
          \/ Has /\ LastByte = After(n) /\ md.byte = Script[LastByte].byte
TurnPoints == {"swLow", "swDir", "swTh"}
GivePoints == {"sendLow", "sendPutLow", "sendHigh", "sendPutHigh"}

\* The console has begun i of the bytes of s, the first of which is call n + 2.
Gives(n, i, s, had) ==
  \/ md.at \in TurnPoints \cup {"done"} /\ i = 0 /\ LastByte = n /\ Arrived = had
  \/ /\ md.at \in GivePoints /\ i \in 1..Len(s) /\ md.byte = s[i]
     /\ LastByte = (IF i = 1 THEN n ELSE n + i)
     /\ Arrived = had \o SubSeq(s, 1, i - 1)
  \/ /\ md.at = "done" /\ i \in 1..Len(s) /\ LastByte = After(IF i = 1 THEN n ELSE n + i)
     /\ Arrived = had \o SubSeq(s, 1, i)

\* Nothing has happened to the memory, and nothing has come back.
Nothing == ram = before /\ Arrived = <<>>
AddrBytes(r) ==
  CASE r.cmd = "send" -> Bytes3(r.addr) \o Bytes3(Len(r.data))
    [] r.cmd = "recv" -> Bytes3(r.addr) \o Bytes3(r.size)
    [] OTHER -> Bytes3(r.addr)

\* The calls before operation n + 1.
Offsets(ops) ==
  LET upTo[n \in 0..Len(ops)] ==
        IF n = 0 THEN 4 ELSE upTo[n - 1] + Len(IoCalls(ops[n]))
  IN  upTo
OpBytes(o) == <<IoCode[o.op]>> \o Bytes3(o.addr)

\* The stages of do_transfer and its handlers.
InPrefix == cpu.stage = "prefix" /\ cpu.acc = <<>> /\ Got(0) /\ Nothing
InCmd == cpu.stage = "cmd" /\ cpu.acc = <<>> /\ Got(1) /\ Nothing
InArgs ==
  LET i == Len(cpu.acc) IN
  /\ cpu.stage = "args" /\ cpu.cmd = job.req.cmd /\ cpu.cmd \in {"send", "recv", "jump"}
  /\ i < Len(AddrBytes(job.req)) /\ cpu.acc = SubSeq(AddrBytes(job.req), 1, i)
  /\ Got(2 + i) /\ Nothing
InSend ==
  LET i == cpu.addr - job.req.addr IN
  /\ cpu.stage = "send" /\ job.req.cmd = "send"
  /\ i \in 0..(Len(job.req.data) - 1) /\ cpu.left = Len(job.req.data) - i
  /\ Got(8 + i) /\ Arrived = <<>>
  /\ ram = Poke(before, job.req.addr, SubSeq(job.req.data, 1, i))
InRecv ==
  LET i == cpu.addr - job.req.addr IN
  /\ cpu.stage = "recv" /\ job.req.cmd = "recv"
  /\ cpu.left = job.req.size - i /\ (i = 0 <=> cpu.acc = <<>>)
  /\ Gives(8, i, PeekN(before, job.req.addr, job.req.size), <<>>) /\ ram = before
InVram ==
  LET i == cpu.addr IN
  /\ cpu.stage = "vram" /\ job.req.cmd = "recvvram"
  /\ cpu.left = VramBytes - i /\ (i = 0 <=> cpu.acc = <<>>)
  /\ Gives(2, i, [k \in 1..VramBytes |-> VramByte(k - 1)], <<>>) /\ ram = before
InLoad ==
  LET i == Len(cpu.acc) IN
  /\ cpu.stage = "load" /\ job.req.cmd = "loadstate"
  /\ i < Len(job.req.data) /\ cpu.acc = SubSeq(job.req.data, 1, i)
  /\ cpu.left = LoadBytes - i
  /\ Got(2 + i) /\ Nothing
InCount ==
  LET i == Len(cpu.acc) IN
  /\ cpu.stage = "count" /\ job.req.cmd = "io"
  /\ i < 2 /\ cpu.acc = SubSeq(Tail(Bytes3(Len(job.req.ops))), 1, i)
  /\ Got(2 + i) /\ Nothing

\* n operations are done, with or without their answers.
OpsDone(n) ==
  LET done == Results(job.req.ops, before)[n] IN
  /\ job.req.cmd = "io" /\ n \in 0..Len(job.req.ops) /\ ram = done.ram
OpsRd(n) == Results(job.req.ops, before)[n].rd
OpsDoneAll(n) == OpsDone(n) /\ Arrived = OpsRd(n)
InNext ==
  LET n == Len(job.req.ops) - cpu.left IN
  /\ cpu.stage = "ioNext" /\ md.at \in {"input", "done"} /\ OpsDoneAll(n)
  /\ LastByte = Offsets(job.req.ops)[n]
InOp ==
  LET n == Len(job.req.ops) - cpu.left - 1
      i == Len(cpu.acc) IN
  /\ cpu.stage = "ioOp" /\ OpsDoneAll(n) /\ n < Len(job.req.ops)
  /\ i < 4 /\ cpu.acc = SubSeq(OpBytes(job.req.ops[n + 1]), 1, i)
  /\ Got(Offsets(job.req.ops)[n] + (IF i = 0 THEN 0 ELSE 1 + i))
InWrite ==
  LET n == Len(job.req.ops) - cpu.left - 1
      i == Len(cpu.acc)
      o == job.req.ops[n + 1] IN
  /\ cpu.stage = "ioWrite" /\ OpsDoneAll(n) /\ n < Len(job.req.ops)
  /\ o.op \notin Reads /\ cpu.op = IoCode[o.op] /\ cpu.addr = o.addr
  /\ i < Len(o.data) /\ cpu.acc = SubSeq(o.data, 1, i)
  /\ Got(Offsets(job.req.ops)[n] + 5 + i)
InRead ==
  LET n == Len(job.req.ops) - cpu.left - 1
      o == job.req.ops[n + 1] IN
  /\ cpu.stage = "ioRead" /\ OpsDone(n) /\ n < Len(job.req.ops)
  /\ o.op \in Reads /\ cpu.op = IoCode[o.op] /\ cpu.addr = o.addr
  /\ Gives(Offsets(job.req.ops)[n] + 5, 0, PeekN(ram, o.addr, Width[o.op]), OpsRd(n))
InGive ==
  LET n == Len(job.req.ops) - cpu.left - 1
      o == job.req.ops[n + 1]
      w == Width[o.op]
      i == w - Len(cpu.acc) IN
  /\ cpu.stage = "ioSend" /\ OpsDone(n) /\ n < Len(job.req.ops)
  /\ o.op \in Reads /\ i \in 1..w
  /\ cpu.acc = SubSeq(PeekN(ram, o.addr, w), i + 1, w)
  /\ Gives(Offsets(job.req.ops)[n] + 5, i, PeekN(ram, o.addr, w), OpsRd(n))

\* All of it is done; and a run that has not started to talk.
Complete ==
  /\ LastByte = Len(Script) /\ ram = Promised(job.req, before).ram
  /\ Arrived = Promised(job.req, before).rd
Fresh == pc.at \in {"startHigh", "startAck"}

Story ==
  \/ md.at = "idle" /\ (Complete \/ Fresh)
  \/ md.at = "return" /\ Complete
  \/ md.at = "hang" /\ (Fresh \/ (Complete /\ job.req.cmd = "loadstate" /\ cpu.acc = job.req.data))
  \/ md.at \in {"startTh", "askLow"} /\ ~cpu.early /\ LastByte = 0 /\ Nothing
  \/ /\ md.at \in MdPoints \ {"idle", "return", "hang", "startTh", "askLow", "boot"}
     /\ \/ InPrefix \/ InCmd \/ InArgs \/ InSend \/ InRecv \/ InVram \/ InLoad
        \/ InCount \/ InNext \/ InOp \/ InWrite \/ InRead \/ InGive

\* The console has jumped where a command line told it to.
JumpsAsked == \A i \in DOMAIN jumps : \E r \in Requests : r.cmd = "jump" /\ jumps[i] = r.addr
=============================================================================
