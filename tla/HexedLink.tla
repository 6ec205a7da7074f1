------------------------------ MODULE HexedLink -----------------------------
(***************************************************************************)
(* One transfer over the cable after the start handshake, as both programs *)
(* execute it: the PC's sequence of send_byte, recv_byte, output_to_input  *)
(* and input_to_output calls and the Mega Drive's matching recv_one_byte,  *)
(* send_one_byte, switch_to_output and back-to-input steps.  The script is *)
(* a parameter, so what is shown here is shown for every command.          *)
(***************************************************************************)
EXTENDS HexedWires, Sequences

CONSTANTS
  Script,  \* the steps both programs agree on, [op: Ops, byte: Byte]
  None

Ops == {"down",      \* PC send_byte, MD recv_one_byte 1 (recv_byte)
        "downNext",  \* PC send_byte, MD recv_one_byte (TH low again at once)
        "turnUp",    \* PC output_to_input, MD switch_to_output
        "up",        \* PC recv_byte, MD send_one_byte
        "turnDown"}  \* PC input_to_output, MD control port back to 0x40

\* Which step may follow which one in the commands of the two programs.
Follows == [down     |-> {"down", "downNext", "turnUp", "turnDown"},
            downNext |-> {"down", "downNext"},
            turnUp   |-> {"up"},
            up       |-> {"up", "turnDown"},
            turnDown |-> {"down", "downNext"}]

Size == Len(Script)
Data == {i \in 1..Size : Script[i].op \in {"down", "downNext", "up"}}
Sent == [i \in Data |-> Script[i].byte]

ASSUME ScriptAssumption ==
  /\ Script \in Seq([op: Ops, byte: Byte])
  /\ Size > 0
  /\ Script[1].op \in {"down", "downNext"}
  /\ Script[Size].op \in {"down", "downNext", "up"}
  /\ \A i \in 1..Size - 1 : Script[i + 1].op \in Follows[Script[i].op]
ASSUME NoneAssumption == None \notin Byte

VARIABLES
  pcI, mdI,   \* the step each program is at; Size + 1 is its ending
  got         \* history: the byte the receiver of each step assembled

vars == <<pc, md, pcI, mdI, got>>

OpAt(i) == IF i \in 1..Size THEN Script[i].op ELSE "end"

-----------------------------------------------------------------------------
\* do_transfer and the start handshake have just run: TH is driven low, TL is
\* high, and the PC's data lines are still inputs.
LinkInit ==
  /\ pc = [at |-> "done", tl |-> 1, tr |-> 1, out |-> FALSE,
           data |-> 0, byte |-> <<0, 0>>]
  /\ md = [at |-> "done", dir |-> "th", th |-> 0, data |-> 0,
           byte |-> <<0, 0>>, last |-> TRUE]
  /\ pcI = 0 /\ mdI = 0
  /\ got = [i \in 1..Size |-> None]

PcCall(i) ==
  CASE OpAt(i) \in {"down", "downNext"} -> PcSend(Script[i].byte)
    [] OpAt(i) = "up"                   -> PcStart("recvTlLow")
    [] OpAt(i) = "turnUp"               -> PcStart("toIn")
    [] OpAt(i) = "turnDown"             -> PcStart("toOut")
    [] OTHER                            -> PcStart("finish")

MdCall(i) ==
  CASE OpAt(i) \in {"down", "downNext"} -> MdRecv(OpAt(i) = "down")
    [] OpAt(i) = "up"                   -> MdSend(Script[i].byte)
    [] OpAt(i) = "turnUp"               -> MdStart("swLow")
    [] OpAt(i) = "turnDown"             -> MdStart("input")
    [] OTHER                            -> MdStart("return")

\* A primitive has returned; its byte is taken and the next one is called.
PcNext ==
  /\ pc.at = "done"
  /\ got' = IF OpAt(pcI) = "up" THEN [got EXCEPT ![pcI] = pc.byte] ELSE got
  /\ pcI' = pcI + 1
  /\ pc' = PcCall(pcI + 1)
  /\ UNCHANGED <<md, mdI>>

MdNext ==
  /\ md.at = "done"
  /\ got' = IF OpAt(mdI) \in {"down", "downNext"}
              THEN [got EXCEPT ![mdI] = md.byte] ELSE got
  /\ mdI' = mdI + 1
  /\ md' = MdCall(mdI + 1)
  /\ UNCHANGED <<pc, pcI>>

\* main's last outb: TL high, outputs off.
PcFinish == /\ MdHasSampled /\ OutB("finish", "off", 1, FALSE)
            /\ UNCHANGED <<md, pcI, mdI, got>>

\* return: every line an input, TH floats high.
MdReturn == /\ md.at = "return" /\ PcHasSampled
            /\ md' = [md EXCEPT !.at = "idle", !.dir = "in"]
            /\ UNCHANGED <<pc, pcI, mdI, got>>

PcStep == PcPrimitive /\ UNCHANGED <<md, pcI, mdI, got>>
MdStep == MdPrimitive /\ UNCHANGED <<pc, pcI, mdI, got>>

\* Both programs are through; nothing else may be the end of a transfer.
Finished == pc.at = "off" /\ md.at = "idle" /\ UNCHANGED vars

LinkNext == PcStep \/ MdStep \/ PcNext \/ MdNext \/ PcFinish \/ MdReturn \/ Finished

LinkSpec == LinkInit /\ [][LinkNext]_vars

\* Both programs run whenever a line they wait for has the level they want;
\* the two-second timeout of the PC is not part of this module.
Fairness ==
  /\ WF_vars(PcStep) /\ WF_vars(PcNext) /\ WF_vars(PcFinish)
  /\ WF_vars(MdStep) /\ WF_vars(MdNext) /\ WF_vars(MdReturn)

FairLinkSpec == LinkSpec /\ Fairness

-----------------------------------------------------------------------------
(***************************************************************************)
(* The control points and lines are those of the two programs, and neither *)
(* program runs past the end of its transfer.                              *)
(***************************************************************************)
LinkTypeOK ==
  /\ pc \in PcState /\ md \in MdState
  /\ pcI \in 0..Size + 1 /\ mdI \in 0..Size + 1
  /\ got \in [1..Size -> Byte \cup {None}]

(***************************************************************************)
(* The two sides never drive the data lines against each other             *)
(* (output_to_input and switch_to_output hand them over with one level on  *)
(* TL, input_to_output and pcc_io_loop hand them back with one on TH).     *)
(***************************************************************************)
NoContention == ~Contention

(***************************************************************************)
(* A nibble is sampled only while its sender drives it: the lines hold the *)
(* lower nibble under TL/TH low and the upper one until it has been read   *)
(* (the table in pc_transfer.c's header).                                  *)
(***************************************************************************)
SamplesDriven ==
  /\ pc.at \in {"recvLowIn", "recvHighIn"} => MdDrivesData
  /\ (md.at = "recvLow" /\ pc.tl = 0) \/ (md.at = "recvHigh" /\ pc.tl = 1)
       => pc.out

(***************************************************************************)
(* Every byte arrives once, intact and in order, in both directions.       *)
(***************************************************************************)
Channel == INSTANCE ScriptChannel WITH got <- got
Delivery == Channel!ChannelSpec

(***************************************************************************)
(* A transfer that nobody aborts is completed by both sides.               *)
(***************************************************************************)
Completes == <>(pc.at = "off" /\ md.at = "idle" /\ \A i \in Data : got[i] # None)

-----------------------------------------------------------------------------
(* Why these hold: where the two programs can be relative to each other.   *)

Down == {"down", "downNext"}
Ahead == mdI - pcI

\* What each control point says about its own side.
PcLocal ==
  /\ pc.tl = 0 <=> pc.at \in {"sendHigh", "sendTlHigh", "recvLow", "recvLowIn", "recvTlHigh"}
  /\ pc.at \in {"sendLow", "sendTlLow", "sendHigh", "sendTlHigh"} => OpAt(pcI) \in Down
  /\ pc.at \in {"recvTlLow", "recvLow", "recvLowIn", "recvTlHigh", "recvHigh", "recvHighIn"}
       => OpAt(pcI) = "up" /\ ~pc.out
  /\ pc.at \in {"toIn", "delay"} => OpAt(pcI) = "turnUp"
  /\ pc.at = "toOut" => OpAt(pcI) = "turnDown" /\ (pc.out => OpAt(pcI - 1) = "down")
  /\ pc.at = "delay" \/ (pc.at = "done" /\ OpAt(pcI) \in {"up", "turnUp"}) => ~pc.out
  /\ pc.at \in {"finish", "off"} <=> pcI = Size + 1
  /\ pc.at = "finish" /\ pc.out => OpAt(Size) \in Down
  /\ pc.at = "off" => ~pc.out
  /\ pc.at \notin {"off", "finish"} => pc.at \in PcPoints \ {"startHigh", "startAck"}

MdLocal ==
  /\ md.at \in {"recvClr", "recvLow", "recvSet", "recvHigh", "recvNext"}
       => OpAt(mdI) \in Down /\ (md.last <=> OpAt(mdI) = "down") /\ md.dir = "th"
  /\ md.at \in {"recvLow", "recvSet"} => md.th = 0
  /\ md.at \in {"recvHigh", "recvNext"} => md.th = 1
  /\ md.at = "recvNext" => OpAt(mdI) = "downNext"
  /\ md.at \in {"swLow", "swDir"} => OpAt(mdI) = "turnUp" /\ md.dir = "th" /\ md.th = 1
  /\ md.at = "swTh" => OpAt(mdI) = "turnUp" /\ md.dir = "data" /\ md.th = 1
  /\ md.at \in {"sendLow", "sendPutLow"} => OpAt(mdI) = "up" /\ md.dir = "data" /\ md.th = 1
  /\ md.at \in {"sendHigh", "sendPutHigh"} => OpAt(mdI) = "up" /\ md.dir = "data" /\ md.th = 0
  /\ md.at = "input" => /\ OpAt(mdI) = "turnDown" /\ md.th = 1
                        /\ md.dir = IF OpAt(mdI - 1) = "up" THEN "data" ELSE "th"
  /\ md.at = "done" => /\ OpAt(mdI) \in {"up", "turnUp"} <=> md.dir = "data"
                       /\ md.dir # "in"
                       /\ OpAt(mdI) \in {"downNext", "end"} <=> md.th = 0
  /\ md.at \in {"return", "idle"} <=> mdI = Size + 1
  /\ md.at = "return" => md.dir = IF OpAt(Size) = "up" THEN "data" ELSE "th"
  /\ md.at = "idle" => md.dir = "in"
  /\ md.at \in MdPoints \ {"boot", "askLow", "startTh", "hang"}

\* Where the Mega Drive is when the PC has finished a byte (or is about to).
\* It may run on to the next polling loop, and over one step back to input.
RanOn(points) ==
  \/ Ahead = 1 /\ md.at \in points
  \/ Ahead = 1 /\ md.at = "done" /\ OpAt(mdI) = "turnDown"
  \/ Ahead = 2 /\ md.at \in {"recvClr", "recvLow"} /\ OpAt(mdI - 1) = "turnDown"

Joint ==
  /\ pc.at = "sendLow" =>
       \/ Ahead = -1 /\ md.at \in {"recvHigh", "recvNext", "done"}
       \/ Ahead = 0 /\ md.at \in {"recvClr", "recvLow"}
  /\ pc.at \in {"sendTlLow", "sendHigh"} =>
       \/ Ahead = -1 /\ md.at = "done" /\ md.th = 0
       \/ Ahead = 0 /\ md.at \in {"recvClr", "recvLow"} /\ md.th = 0
       \/ Ahead = 0 /\ md.at \in {"recvSet", "recvHigh"} /\ pc.at = "sendHigh"
  /\ pc.at = "sendTlHigh" => Ahead = 0 /\ md.at = "recvHigh"
  /\ pc.at = "done" /\ OpAt(pcI) \in Down =>
       \/ Ahead = 0 /\ md.at \in {"recvHigh", "recvNext", "done"}
       \/ RanOn({"recvClr", "recvLow", "swLow", "input", "return", "idle"})
  /\ pc.at \in {"toIn", "delay"} \/ (pc.at = "done" /\ OpAt(pcI) = "turnUp") =>
       \/ Ahead = -1 /\ md.at \in {"recvHigh", "done"}
       \/ Ahead = 0 /\ md.at = "swLow"
  /\ pc.at = "toOut" =>
       \/ Ahead = -1 /\ md.at \in {"recvHigh", "done"}
       \/ Ahead = 0 /\ md.at \in {"input", "done"}
       \/ Ahead = 1 /\ md.at \in {"recvClr", "recvLow"}
  /\ pc.at = "done" /\ OpAt(pcI) = "turnDown" =>
       Ahead = 1 /\ md.at \in {"recvClr", "recvLow"} /\ md.th = 0
  /\ pc.at \in {"recvTlLow", "recvLow"} =>
       \/ Ahead = -2 /\ md.at \in {"recvHigh", "done"} /\ OpAt(pcI - 1) = "turnUp"
       \/ Ahead = -1 /\ md.at \in {"swLow", "done"}
       \/ Ahead = -1 /\ md.at \in {"swDir", "swTh"} /\ pc.at = "recvLow"
       \/ Ahead = 0 /\ md.at = "sendLow"
       \/ Ahead = 0 /\ md.at \in {"sendPutLow", "sendHigh"} /\ pc.at = "recvLow"
  /\ pc.at \in {"recvLowIn", "recvTlHigh"} => Ahead = 0 /\ md.at = "sendHigh"
  /\ pc.at = "recvHigh" =>
       \/ Ahead = 0 /\ md.at \in {"sendHigh", "sendPutHigh", "done"}
       \/ RanOn({"sendLow", "input", "return", "idle"})
  /\ pc.at = "recvHighIn" \/ (pc.at = "done" /\ OpAt(pcI) = "up") =>
       \/ Ahead = 0 /\ md.at = "done"
       \/ RanOn({"sendLow", "input", "return", "idle"})
  /\ pc.at \in {"finish", "off"} =>
       \/ Ahead = -1 /\ md.at \in {"recvHigh", "recvNext", "done"}
       \/ Ahead = 0 /\ md.at \in {"return", "idle"}
  /\ pc.at = "done" /\ pcI = 0 =>
       \/ Ahead = 0 /\ md.at = "done"
       \/ Ahead = 1 /\ md.at \in {"recvClr", "recvLow"} /\ md.th = 0

(***************************************************************************)
(* The inductive invariant behind NoContention: how far apart recv_byte,   *)
(* send_byte and their counterparts can be; it needs no timing.            *)
(***************************************************************************)
LinkInv == LinkTypeOK /\ PcLocal /\ MdLocal /\ Joint

\* The nibbles, while the timing assumptions hold.
PcData ==
  /\ pc.at \in {"sendLow", "sendTlLow", "sendHigh", "sendTlHigh"} => pc.byte = Script[pcI].byte
  /\ pc.at \in {"sendTlLow", "sendHigh"} => pc.data = Low(Script[pcI].byte)
  /\ pc.at = "sendHigh" => pc.out
  /\ pc.at = "sendTlHigh" => pc.out /\ pc.data = High(Script[pcI].byte)
  /\ pc.at \in {"recvTlHigh", "recvHigh", "recvHighIn"} => Low(pc.byte) = Low(Script[pcI].byte)
  /\ pc.at = "done" /\ OpAt(pcI) = "up" => pc.byte = Script[pcI].byte
  /\ pc.at \in {"recvHigh", "recvHighIn"} /\ md.at \notin {"sendHigh", "sendPutHigh"}
       => md.dir = "data" /\ md.data = High(Script[pcI].byte)

MdData ==
  /\ md.at \in {"sendLow", "sendPutLow", "sendHigh", "sendPutHigh"} => md.byte = Script[mdI].byte
  /\ md.at = "sendHigh" => md.data = Low(Script[mdI].byte)
  /\ md.at \in {"recvSet", "recvHigh"} => Low(md.byte) = Low(Script[mdI].byte)
  /\ md.at = "recvNext" \/ (md.at = "done" /\ OpAt(mdI) \in Down) => md.byte = Script[mdI].byte
  /\ md.at = "recvHigh" /\ pc.tl = 1 => pc.out /\ pc.data = High(Script[mdI].byte)

GotData == \A k \in 1..Size :
  got[k] = IF k \in Data /\ k < (IF OpAt(k) = "up" THEN pcI ELSE mdI)
             THEN Script[k].byte ELSE None

DataInv == PcData /\ MdData /\ GotData
=============================================================================
