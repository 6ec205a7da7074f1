----------------------------- MODULE HexedWires -----------------------------
(***************************************************************************)
(* The cable between the PC's parallel port and controller port 2 of the   *)
(* Mega Drive that hexed/pc_transfer.c and hexed/transfer.S talk over, and *)
(* the byte primitives of the two programs.                                *)
(*                                                                         *)
(* TH is the Mega Drive's line, TL and TR are the PC's, D0-D3 carry one    *)
(* nibble in either direction.  Every action is one access to a port, or   *)
(* one polling loop leaving, so the two programs interleave between any    *)
(* two accesses.  A caller (HexedLink, HexedTransfer) starts an operation  *)
(* by setting "at" to its first label and takes over again at "done".      *)
(*                                                                         *)
(* An operator named ..._Bug is not part of the specification: it is the   *)
(* definition that follows it with a mistake, and the property named in    *)
(* its comment fails when it takes that definition's place.                *)
(***************************************************************************)
EXTENDS Integers

CONSTANTS
  Nibble,    \* the values of D0-D3 that are told apart
  PcPrompt,  \* the PC samples the upper nibble before the Mega Drive's next
             \* command can move the lines again (about 50 cycles, 7 us)
  MdPrompt,  \* the Mega Drive's polling loop (28 cycles) sees TL high before
             \* the PC's next access stops driving the nibble
  DelayOk    \* the 40 us of output_to_input are longer than that loop

ASSUME NibbleAssumption == 0 \in Nibble
ASSUME TimingAssumption == {PcPrompt, MdPrompt, DelayOk} \subseteq BOOLEAN

VARIABLES
  pc,  \* at: control point; tl, tr: the lines; out: data lines driven;
       \* data: the port's latch; byte: being sent, or as received so far
  md   \* at: control point; dir: what the port's control register drives
       \* ("in" 0x00, "th" 0x40, "data" 0x4f); th, data: the port's latch;
       \* byte: being sent, or as received so far; last: recv_byte's is_last

Byte == Nibble \X Nibble     \* <<lower nibble, upper nibble>>
Low(b) == b[1]
High(b) == b[2]

PcPoints == {"off", "startHigh", "startAck", "done",
             "sendLow", "sendTlLow", "sendHigh", "sendTlHigh",
             "recvTlLow", "recvLow", "recvLowIn", "recvTlHigh", "recvHigh",
             "recvHighIn", "toIn", "delay", "toOut", "finish"}
MdPoints == {"boot", "idle", "startTh", "askLow", "done",
             "recvClr", "recvLow", "recvSet", "recvHigh", "recvNext",
             "sendLow", "sendPutLow", "sendHigh", "sendPutHigh",
             "swLow", "swDir", "swTh", "input", "return", "hang"}

PcState == [at: PcPoints, tl: {0, 1}, tr: {0, 1}, out: BOOLEAN,
            data: Nibble, byte: Byte]
MdState == [at: MdPoints, dir: {"in", "th", "data"}, th: {0, 1},
            data: Nibble, byte: Byte, last: BOOLEAN]

-----------------------------------------------------------------------------
(* The lines.                                                              *)

\* TH is pulled up while the Mega Drive does not drive it.
TH == IF md.dir = "in" THEN 1 ELSE md.th
MdDrivesData == md.dir = "data"
Contention == pc.out /\ MdDrivesData

\* What a read of D0-D3 may return: the driven value, or anything at all
\* while nobody drives the lines or both do.
PcSees == IF MdDrivesData /\ ~pc.out THEN {md.data} ELSE Nibble
MdSees == IF pc.out /\ ~MdDrivesData THEN {pc.data} ELSE Nibble

-----------------------------------------------------------------------------
(* The PC's primitives.                                                    *)

PcGo(from, to) == pc.at = from /\ pc' = [pc EXCEPT !.at = to]

\* The control port: 0xc2, 0xc0, 0xe2, 0xe0 say direction and TL; TR is high.
OutB(from, to, tl, out) ==
  /\ pc.at = from
  /\ pc' = [pc EXCEPT !.at = to, !.tl = tl, !.tr = 1, !.out = out]

\* The nibble the PC has just finished sending has been sampled, or the
\* machine is slow enough for this not to be guaranteed.
MdHasSampled == MdPrompt => md.at # "recvHigh"

PcSendWaitLow  == /\ pc.at = "sendLow" /\ TH = 0
                  /\ pc' = [pc EXCEPT !.at = "sendTlLow", !.data = Low(pc.byte)]
PcSendTlLow    == OutB("sendTlLow", "sendHigh", 0, TRUE)
PcSendWaitHigh == /\ pc.at = "sendHigh" /\ TH = 1
                  /\ pc' = [pc EXCEPT !.at = "sendTlHigh", !.data = High(pc.byte)]
PcSendTlHigh   == OutB("sendTlHigh", "done", 1, TRUE)

PcRecvTlLow    == OutB("recvTlLow", "recvLow", 0, FALSE)
\* SamplesDriven: the nibble is read without waiting for TH.
PcRecvWaitLow_Bug == PcGo("recvLow", "recvLowIn")
PcRecvWaitLow  == TH = 0 /\ PcGo("recvLow", "recvLowIn")
PcRecvLow      == /\ pc.at = "recvLowIn"
                  /\ \E n \in PcSees :
                       pc' = [pc EXCEPT !.at = "recvTlHigh", !.byte = <<n, High(pc.byte)>>]
PcRecvTlHigh   == OutB("recvTlHigh", "recvHigh", 1, FALSE)
PcRecvWaitHigh == TH = 1 /\ PcGo("recvHigh", "recvHighIn")
PcRecvHigh     == /\ pc.at = "recvHighIn"
                  /\ \E n \in PcSees :
                       pc' = [pc EXCEPT !.at = "done", !.byte = <<Low(pc.byte), n>>]

PcToIn  == MdHasSampled /\ OutB("toIn", "delay", 1, FALSE)
PcDelay == (DelayOk => md.at # "recvHigh") /\ PcGo("delay", "done")
PcToOut == TH = 0 /\ OutB("toOut", "done", 1, TRUE)

PcPrimitive ==
  \/ PcSendWaitLow \/ PcSendTlLow \/ PcSendWaitHigh \/ PcSendTlHigh
  \/ PcRecvTlLow \/ PcRecvWaitLow \/ PcRecvLow \/ PcRecvTlHigh
  \/ PcRecvWaitHigh \/ PcRecvHigh
  \/ PcToIn \/ PcDelay \/ PcToOut

-----------------------------------------------------------------------------
(* The Mega Drive's primitives.                                            *)

MdGo(from, to) == md.at = from /\ md' = [md EXCEPT !.at = to]
MdWrite(from, to, th, data) ==
  /\ md.at = from
  /\ md' = [md EXCEPT !.at = to, !.th = th, !.data = data]

MdRecvClr  == MdWrite("recvClr", "recvLow", 0, 0)
\* One read returns TL and the nibble together.
MdRecvLow  == /\ md.at = "recvLow" /\ pc.tl = 0
              /\ \E n \in MdSees :
                   md' = [md EXCEPT !.at = "recvSet", !.byte = <<n, High(md.byte)>>]
\* Completes: the first loop is taken again instead of setting TH.
MdRecvSet_Bug == MdGo("recvSet", "recvLow")
MdRecvSet  == MdWrite("recvSet", "recvHigh", 1, 0)
\* Delivery: the two nibbles are put together the wrong way round.
MdRecvHigh_Bug == /\ md.at = "recvHigh" /\ pc.tl = 1
                  /\ \E n \in MdSees :
                       md' = [md EXCEPT !.at = IF md.last THEN "done" ELSE "recvNext",
                                        !.byte = <<n, Low(md.byte)>>]
MdRecvHigh == /\ md.at = "recvHigh" /\ pc.tl = 1
              /\ \E n \in MdSees :
                   md' = [md EXCEPT !.at = IF md.last THEN "done" ELSE "recvNext",
                                    !.byte = <<Low(md.byte), n>>]
MdRecvNext == MdWrite("recvNext", "done", 0, 0)

MdSendLow     == pc.tl = 0 /\ MdGo("sendLow", "sendPutLow")
MdSendPutLow  == MdWrite("sendPutLow", "sendHigh", 0, Low(md.byte))
MdSendHigh    == pc.tl = 1 /\ MdGo("sendHigh", "sendPutHigh")
MdSendPutHigh == MdWrite("sendPutHigh", "done", 1, High(md.byte))

\* NoContention, NoTransferContention: TL low is not waited for.
MdSwitchWait_Bug == MdGo("swLow", "swDir")
MdSwitchWait == pc.tl = 0 /\ MdGo("swLow", "swDir")
MdSwitchDir  == /\ md.at = "swDir"
                /\ md' = [md EXCEPT !.at = "swTh", !.dir = "data"]
MdSwitchTh   == MdWrite("swTh", "done", 1, 0)

\* The PC has taken the upper nibble of the last byte sent to it.
PcHasSampled == PcPrompt => pc.at \notin {"recvHigh", "recvHighIn"}

\* pcc_io_loop: back to 0x40.  The lines move under a PC that is too slow.
MdInput == /\ md.at = "input" /\ PcHasSampled
           /\ md' = [md EXCEPT !.at = "done", !.dir = "th"]

MdPrimitive ==
  \/ MdRecvClr \/ MdRecvLow \/ MdRecvSet \/ MdRecvHigh \/ MdRecvNext
  \/ MdSendLow \/ MdSendPutLow \/ MdSendHigh \/ MdSendPutHigh
  \/ MdSwitchWait \/ MdSwitchDir \/ MdSwitchTh
  \/ MdInput

-----------------------------------------------------------------------------
(* How a caller starts an operation.                                       *)

PcSend(b)     == [pc EXCEPT !.at = "sendLow", !.byte = b]
PcStart(at)   == [pc EXCEPT !.at = at]
MdSend(b)     == [md EXCEPT !.at = "sendLow", !.byte = b]
MdRecv(last)  == [md EXCEPT !.at = "recvClr", !.last = last]
MdStart(at)   == [md EXCEPT !.at = at]
=============================================================================
