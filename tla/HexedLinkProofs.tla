--------------------------- MODULE HexedLinkProofs --------------------------
(***************************************************************************)
(* For every script the two programs can agree on, and whatever the two    *)
(* machines' speeds: both programs stay in step, and the data lines are    *)
(* never driven from both ends.                                            *)
(***************************************************************************)
EXTENDS HexedLink, TLAPS

\* An element of a sequence over S is in S.
LEMMA SeqElement ==
  ASSUME NEW S, NEW s \in Seq(S), NEW i \in 1..Len(s) PROVE s[i] \in S
OBVIOUS

\* What the well-formedness of the script says about two neighbouring steps.
LEMMA OpFacts ==
  /\ Size \in Nat \ {0}
  /\ OpAt(0) = "end" /\ OpAt(Size + 1) = "end"
  /\ OpAt(1) \in Down
  /\ OpAt(Size) \in {"down", "downNext", "up"}
  /\ \A i \in 1..Size : /\ OpAt(i) = Script[i].op
                        /\ OpAt(i) \in Ops
                        /\ Script[i].byte \in Byte
  /\ \A i \in 1..Size :
       /\ OpAt(i) = "up" => i > 1 /\ OpAt(i - 1) \in {"up", "turnUp"}
       /\ OpAt(i) = "turnUp" => i > 1 /\ OpAt(i - 1) = "down"
       /\ OpAt(i) = "turnDown" => i > 1 /\ OpAt(i - 1) \in {"down", "up"}
       /\ OpAt(i) \in Down => OpAt(i - 1) \in {"down", "downNext", "turnDown", "end"}
       /\ OpAt(i) = "turnUp" => i < Size /\ OpAt(i + 1) = "up"
       /\ OpAt(i) = "turnDown" => i < Size /\ OpAt(i + 1) \in Down
       /\ OpAt(i) = "downNext" => OpAt(i + 1) \in {"down", "downNext", "end"}
<1>1. Size \in Nat \ {0} /\ Script \in Seq([op: Ops, byte: Byte])
  BY ScriptAssumption DEF Size
<1>2. \A i \in 1..Size : Script[i] \in [op: Ops, byte: Byte]
  BY <1>1, SeqElement DEF Size
<1>3. \A i \in 1..Size : OpAt(i) = Script[i].op /\ OpAt(i) \in Ops /\ Script[i].byte \in Byte
  BY <1>2 DEF OpAt
<1>4. OpAt(0) = "end" /\ OpAt(Size + 1) = "end"
  BY <1>1 DEF OpAt
<1>5. OpAt(1) \in Down /\ OpAt(Size) \in {"down", "downNext", "up"}
  BY <1>1, <1>3, ScriptAssumption DEF Down
<1>6. \A i \in 1..Size - 1 : OpAt(i + 1) \in Follows[OpAt(i)]
  BY <1>1, <1>3, ScriptAssumption
<1>7. ASSUME NEW i \in 1..Size - 1
      PROVE  /\ OpAt(i) = "down" => OpAt(i + 1) \in {"down", "downNext", "turnUp", "turnDown"}
             /\ OpAt(i) = "downNext" => OpAt(i + 1) \in {"down", "downNext"}
             /\ OpAt(i) = "turnUp" => OpAt(i + 1) = "up"
             /\ OpAt(i) = "up" => OpAt(i + 1) \in {"up", "turnDown"}
             /\ OpAt(i) = "turnDown" => OpAt(i + 1) \in {"down", "downNext"}
  BY <1>6 DEF Follows
<1>8. ASSUME NEW i \in 1..Size
      PROVE  /\ OpAt(i) = "up" => i > 1 /\ OpAt(i - 1) \in {"up", "turnUp"}
             /\ OpAt(i) = "turnUp" => i > 1 /\ OpAt(i - 1) = "down"
             /\ OpAt(i) = "turnDown" => i > 1 /\ OpAt(i - 1) \in {"down", "up"}
             /\ OpAt(i) \in Down => OpAt(i - 1) \in {"down", "downNext", "turnDown", "end"}
  <2>1. CASE i = 1
    BY <2>1, <1>4, <1>5 DEF Down
  <2>2. CASE i > 1
    <3>1. i - 1 \in 1..Size - 1 /\ (i - 1) + 1 = i
      BY <2>2, <1>1
    <3>2. OpAt(i - 1) \in Ops
      BY <3>1, <1>1, <1>3
    <3>3. QED
      BY <3>1, <3>2, <1>7, <2>2 DEF Ops, Down
  <2>3. QED
    BY <2>1, <2>2, <1>1
<1>9. ASSUME NEW i \in 1..Size
      PROVE  /\ OpAt(i) = "turnUp" => i < Size /\ OpAt(i + 1) = "up"
             /\ OpAt(i) = "turnDown" => i < Size /\ OpAt(i + 1) \in Down
             /\ OpAt(i) = "downNext" => OpAt(i + 1) \in {"down", "downNext", "end"}
  BY <1>1, <1>4, <1>5, <1>7 DEF Down
<1>10. QED
  BY <1>1, <1>3, <1>4, <1>5, <1>8, <1>9

-----------------------------------------------------------------------------
(* The initial state.                                                      *)

\* After the start handshake the inductive invariant holds.
LEMMA InitInv == LinkInit => LinkInv
<1> SUFFICES ASSUME LinkInit PROVE LinkInv
  OBVIOUS
<1>1. LinkTypeOK
  BY OpFacts, NibbleAssumption
  DEF LinkInit, LinkTypeOK, PcState, MdState, PcPoints, MdPoints, Byte
<1>2. PcLocal /\ MdLocal /\ Joint
  BY OpFacts
  DEF LinkInit, PcLocal, MdLocal, Joint, RanOn, Ahead, Down, PcPoints, MdPoints
<1>3. QED
  BY <1>1, <1>2 DEF LinkInv

-----------------------------------------------------------------------------
(* What each form of port access does to the fields of its side's state.   *)

\* An outb to the control port sets TL, the direction and the point.
LEMMA OutBFields ==
  ASSUME pc \in PcState, NEW from, NEW to \in PcPoints, NEW tl \in {0, 1}, NEW out \in BOOLEAN,
         OutB(from, to, tl, out)
  PROVE  /\ pc' \in PcState
         /\ pc.at = from /\ pc'.at = to /\ pc'.tl = tl /\ pc'.out = out
         /\ pc'.data = pc.data /\ pc'.byte = pc.byte
BY DEF OutB, PcState

\* A wait that ends changes nothing of the PC but its point.
LEMMA PcGoFields ==
  ASSUME pc \in PcState, NEW from, NEW to \in PcPoints, PcGo(from, to)
  PROVE  /\ pc' \in PcState
         /\ pc.at = from /\ pc'.at = to /\ pc'.tl = pc.tl /\ pc'.out = pc.out
         /\ pc'.data = pc.data /\ pc'.byte = pc.byte
BY DEF PcGo, PcState

\* A polling loop that ends changes nothing of the console but its point.
LEMMA MdGoFields ==
  ASSUME md \in MdState, NEW from, NEW to \in MdPoints, MdGo(from, to)
  PROVE  /\ md' \in MdState
         /\ md.at = from /\ md'.at = to /\ md'.dir = md.dir /\ md'.th = md.th
         /\ md'.data = md.data /\ md'.byte = md.byte /\ md'.last = md.last
BY DEF MdGo, MdState

\* A write of the console's data port sets TH, the data and the point.
LEMMA MdWriteFields ==
  ASSUME md \in MdState, NEW from, NEW to \in MdPoints, NEW th \in {0, 1}, NEW data \in Nibble,
         MdWrite(from, to, th, data)
  PROVE  /\ md' \in MdState
         /\ md.at = from /\ md'.at = to /\ md'.dir = md.dir /\ md'.th = th
         /\ md'.data = data /\ md'.byte = md.byte /\ md'.last = md.last
BY DEF MdWrite, MdState

-----------------------------------------------------------------------------
\* A step of the PC inside send_byte, recv_byte or a change of direction
\* preserves the invariant.
LEMMA PcStepInv == ASSUME LinkInv, PcStep PROVE LinkInv'
<1> USE DEF LinkInv
<1>u. UNCHANGED <<md, pcI, mdI, got>>
  BY DEF PcStep
<1>t. pc \in PcState
  BY DEF LinkTypeOK
<1>s. PcSees \subseteq Nibble
  BY DEF PcSees, LinkTypeOK, MdState
<1>o. /\ Size \in Nat \ {0} /\ pcI \in 0..Size + 1 /\ mdI \in 0..Size + 1
      /\ OpAt(0) = "end" /\ OpAt(Size + 1) = "end"
  BY OpFacts DEF LinkTypeOK
<1>p. /\ OpAt(pcI) = "up" => pcI > 1 /\ OpAt(pcI - 1) \in {"up", "turnUp"}
      /\ OpAt(pcI - 1) = "turnUp" => OpAt(pcI - 2) = "down"
      /\ OpAt(pcI) = "turnDown" => /\ pcI > 1 /\ pcI < Size
                                     /\ OpAt(pcI - 1) \in {"down", "up"}
                                     /\ OpAt(pcI + 1) \in Down
  <2>1. CASE pcI \in 1..Size
    BY <2>1, <1>o, OpFacts
  <2>2. CASE pcI = 0
    BY <2>2, <1>o DEF OpAt
  <2>3. CASE pcI = Size + 1
    BY <2>3, <1>o, OpFacts
  <2>4. QED
    BY <2>1, <2>2, <2>3, <1>o
<1>m. MdLocal'
  BY <1>u DEF MdLocal
<1>1. CASE PcSendWaitLow
  <2>1. /\ pc' \in PcState /\ pc.at = "sendLow" /\ pc'.at = "sendTlLow"
        /\ TH = 0 /\ pc'.tl = pc.tl /\ pc'.out = pc.out
    BY <1>1, <1>t DEF PcSendWaitLow, PcState, PcPoints, Low, Byte
  <2>2. LinkTypeOK'
    BY <2>1, <1>u DEF LinkTypeOK
  <2>3. PcLocal'
    BY <2>1, <1>u, <1>o DEF PcLocal, PcPoints, Joint, MdLocal, TH, Ahead, RanOn, LinkTypeOK, Down
  <2>4. Joint'
    BY <2>1, <1>u, <1>o, <1>p DEF Joint, RanOn, Ahead, PcLocal, MdLocal, TH, LinkTypeOK, Down
  <2>5. QED
    BY <1>m, <2>2, <2>3, <2>4
<1>2. CASE PcSendTlLow
  <2>1. /\ pc' \in PcState /\ pc.at = "sendTlLow" /\ pc'.at = "sendHigh"
        /\ pc'.tl = 0 /\ pc'.out = TRUE
    BY <1>2, <1>t, OutBFields DEF PcSendTlLow, PcPoints
  <2>2. LinkTypeOK'
    BY <2>1, <1>u DEF LinkTypeOK
  <2>3. PcLocal'
    BY <2>1, <1>u, <1>o DEF PcLocal, PcPoints, Joint, MdLocal, TH, Ahead, RanOn, LinkTypeOK, Down
  <2>4. Joint'
    BY <2>1, <1>u, <1>o, <1>p DEF Joint, RanOn, Ahead, PcLocal, MdLocal, TH, LinkTypeOK, Down
  <2>5. QED
    BY <1>m, <2>2, <2>3, <2>4
<1>3. CASE PcSendWaitHigh
  <2>1. /\ pc' \in PcState /\ pc.at = "sendHigh" /\ pc'.at = "sendTlHigh"
        /\ TH = 1 /\ pc'.tl = pc.tl /\ pc'.out = pc.out
    BY <1>3, <1>t DEF PcSendWaitHigh, PcState, PcPoints, High, Byte
  <2>2. LinkTypeOK'
    BY <2>1, <1>u DEF LinkTypeOK
  <2>3. PcLocal'
    BY <2>1, <1>u, <1>o DEF PcLocal, PcPoints, Joint, MdLocal, TH, Ahead, RanOn, LinkTypeOK, Down
  <2>4. Joint'
    BY <2>1, <1>u, <1>o, <1>p DEF Joint, RanOn, Ahead, PcLocal, MdLocal, TH, LinkTypeOK, Down
  <2>5. QED
    BY <1>m, <2>2, <2>3, <2>4
<1>4. CASE PcSendTlHigh
  <2>1. /\ pc' \in PcState /\ pc.at = "sendTlHigh" /\ pc'.at = "done"
        /\ pc'.tl = 1 /\ pc'.out = TRUE
    BY <1>4, <1>t, OutBFields DEF PcSendTlHigh, PcPoints
  <2>2. LinkTypeOK'
    BY <2>1, <1>u DEF LinkTypeOK
  <2>3. PcLocal'
    BY <2>1, <1>u, <1>o DEF PcLocal, PcPoints, Joint, MdLocal, TH, Ahead, RanOn, LinkTypeOK, Down
  <2>4. Joint'
    BY <2>1, <1>u, <1>o, <1>p DEF Joint, RanOn, Ahead, PcLocal, MdLocal, TH, LinkTypeOK, Down
  <2>5. QED
    BY <1>m, <2>2, <2>3, <2>4
<1>5. CASE PcRecvTlLow
  <2>1. /\ pc' \in PcState /\ pc.at = "recvTlLow" /\ pc'.at = "recvLow"
        /\ pc'.tl = 0 /\ pc'.out = FALSE
    BY <1>5, <1>t, OutBFields DEF PcRecvTlLow, PcPoints
  <2>2. LinkTypeOK'
    BY <2>1, <1>u DEF LinkTypeOK
  <2>3. PcLocal'
    BY <2>1, <1>u, <1>o DEF PcLocal, PcPoints, Joint, MdLocal, TH, Ahead, RanOn, LinkTypeOK, Down
  <2>4. Joint'
    BY <2>1, <1>u, <1>o, <1>p DEF Joint, RanOn, Ahead, PcLocal, MdLocal, TH, LinkTypeOK, Down
  <2>5. QED
    BY <1>m, <2>2, <2>3, <2>4
<1>6. CASE PcRecvWaitLow
  <2>1. /\ pc' \in PcState /\ pc.at = "recvLow" /\ pc'.at = "recvLowIn"
        /\ TH = 0 /\ pc'.tl = pc.tl /\ pc'.out = pc.out
    BY <1>6, <1>t, PcGoFields DEF PcRecvWaitLow, PcPoints
  <2>2. LinkTypeOK'
    BY <2>1, <1>u DEF LinkTypeOK
  <2>3. PcLocal'
    BY <2>1, <1>u, <1>o DEF PcLocal, PcPoints, Joint, MdLocal, TH, Ahead, RanOn, LinkTypeOK, Down
  <2>4. Joint'
    BY <2>1, <1>u, <1>o, <1>p DEF Joint, RanOn, Ahead, PcLocal, MdLocal, TH, LinkTypeOK, Down
  <2>5. QED
    BY <1>m, <2>2, <2>3, <2>4
<1>7. CASE PcRecvLow
  <2>0. PICK k \in Nibble : pc' = [pc EXCEPT !.at = "recvTlHigh", !.byte = <<k, High(pc.byte)>>]
    BY <1>7, <1>s DEF PcRecvLow
  <2>b. <<k, High(pc.byte)>> \in Byte
    BY <1>t DEF PcState, Byte, Low, High
  <2>1. /\ pc' \in PcState /\ pc.at = "recvLowIn" /\ pc'.at = "recvTlHigh"
        /\ pc'.tl = pc.tl /\ pc'.out = pc.out
    BY <1>7, <1>t, <2>0, <2>b DEF PcRecvLow, PcState, PcPoints
  <2>2. LinkTypeOK'
    BY <2>1, <1>u DEF LinkTypeOK
  <2>3. PcLocal'
    BY <2>1, <1>u, <1>o DEF PcLocal, PcPoints, Joint, MdLocal, TH, Ahead, RanOn, LinkTypeOK, Down
  <2>4. Joint'
    BY <2>1, <1>u, <1>o, <1>p DEF Joint, RanOn, Ahead, PcLocal, MdLocal, TH, LinkTypeOK, Down
  <2>5. QED
    BY <1>m, <2>2, <2>3, <2>4
<1>8. CASE PcRecvTlHigh
  <2>1. /\ pc' \in PcState /\ pc.at = "recvTlHigh" /\ pc'.at = "recvHigh"
        /\ pc'.tl = 1 /\ pc'.out = FALSE
    BY <1>8, <1>t, OutBFields DEF PcRecvTlHigh, PcPoints
  <2>2. LinkTypeOK'
    BY <2>1, <1>u DEF LinkTypeOK
  <2>3. PcLocal'
    BY <2>1, <1>u, <1>o DEF PcLocal, PcPoints, Joint, MdLocal, TH, Ahead, RanOn, LinkTypeOK, Down
  <2>4. Joint'
    BY <2>1, <1>u, <1>o, <1>p DEF Joint, RanOn, Ahead, PcLocal, MdLocal, TH, LinkTypeOK, Down
  <2>5. QED
    BY <1>m, <2>2, <2>3, <2>4
<1>9. CASE PcRecvWaitHigh
  <2>1. /\ pc' \in PcState /\ pc.at = "recvHigh" /\ pc'.at = "recvHighIn"
        /\ TH = 1 /\ pc'.tl = pc.tl /\ pc'.out = pc.out
    BY <1>9, <1>t, PcGoFields DEF PcRecvWaitHigh, PcPoints
  <2>2. LinkTypeOK'
    BY <2>1, <1>u DEF LinkTypeOK
  <2>3. PcLocal'
    BY <2>1, <1>u, <1>o DEF PcLocal, PcPoints, Joint, MdLocal, TH, Ahead, RanOn, LinkTypeOK, Down
  <2>4. Joint'
    BY <2>1, <1>u, <1>o, <1>p DEF Joint, RanOn, Ahead, PcLocal, MdLocal, TH, LinkTypeOK, Down
  <2>5. QED
    BY <1>m, <2>2, <2>3, <2>4
<1>10. CASE PcRecvHigh
  <2>0. PICK k \in Nibble : pc' = [pc EXCEPT !.at = "done", !.byte = <<Low(pc.byte), k>>]
    BY <1>10, <1>s DEF PcRecvHigh
  <2>b. <<Low(pc.byte), k>> \in Byte
    BY <1>t DEF PcState, Byte, Low, High
  <2>1. /\ pc' \in PcState /\ pc.at = "recvHighIn" /\ pc'.at = "done"
        /\ pc'.tl = pc.tl /\ pc'.out = pc.out
    BY <1>10, <1>t, <2>0, <2>b DEF PcRecvHigh, PcState, PcPoints
  <2>2. LinkTypeOK'
    BY <2>1, <1>u DEF LinkTypeOK
  <2>3. PcLocal'
    BY <2>1, <1>u, <1>o DEF PcLocal, PcPoints, Joint, MdLocal, TH, Ahead, RanOn, LinkTypeOK, Down
  <2>4. Joint'
    BY <2>1, <1>u, <1>o, <1>p DEF Joint, RanOn, Ahead, PcLocal, MdLocal, TH, LinkTypeOK, Down
  <2>5. QED
    BY <1>m, <2>2, <2>3, <2>4
<1>11. CASE PcToIn
  <2>1. /\ pc' \in PcState /\ pc.at = "toIn" /\ pc'.at = "delay"
        /\ pc'.tl = 1 /\ pc'.out = FALSE
    BY <1>11, <1>t, OutBFields DEF PcToIn, PcPoints
  <2>2. LinkTypeOK'
    BY <2>1, <1>u DEF LinkTypeOK
  <2>3. PcLocal'
    BY <2>1, <1>u, <1>o DEF PcLocal, PcPoints, Joint, MdLocal, TH, Ahead, RanOn, LinkTypeOK, Down
  <2>4. Joint'
    BY <2>1, <1>u, <1>o, <1>p DEF Joint, RanOn, Ahead, PcLocal, MdLocal, TH, LinkTypeOK, Down
  <2>5. QED
    BY <1>m, <2>2, <2>3, <2>4
<1>12. CASE PcDelay
  <2>1. /\ pc' \in PcState /\ pc.at = "delay" /\ pc'.at = "done"
        /\ pc'.tl = pc.tl /\ pc'.out = pc.out
    BY <1>12, <1>t, PcGoFields DEF PcDelay, PcPoints
  <2>2. LinkTypeOK'
    BY <2>1, <1>u DEF LinkTypeOK
  <2>3. PcLocal'
    BY <2>1, <1>u, <1>o DEF PcLocal, PcPoints, Joint, MdLocal, TH, Ahead, RanOn, LinkTypeOK, Down
  <2>4. Joint'
    BY <2>1, <1>u, <1>o, <1>p DEF Joint, RanOn, Ahead, PcLocal, MdLocal, TH, LinkTypeOK, Down
  <2>5. QED
    BY <1>m, <2>2, <2>3, <2>4
<1>13. CASE PcToOut
  <2>1. /\ pc' \in PcState /\ pc.at = "toOut" /\ pc'.at = "done"
        /\ TH = 0 /\ pc'.tl = 1 /\ pc'.out = TRUE
    BY <1>13, <1>t, OutBFields DEF PcToOut, PcPoints
  <2>2. LinkTypeOK'
    BY <2>1, <1>u DEF LinkTypeOK
  <2>3. PcLocal'
    BY <2>1, <1>u, <1>o DEF PcLocal, PcPoints, Joint, MdLocal, TH, Ahead, RanOn, LinkTypeOK, Down
  <2>4. Joint'
    BY <2>1, <1>u, <1>o, <1>p DEF Joint, RanOn, Ahead, PcLocal, MdLocal, TH, LinkTypeOK, Down
  <2>5. QED
    BY <1>m, <2>2, <2>3, <2>4
<1>14. QED
  BY <1>1, <1>2, <1>3, <1>4, <1>5, <1>6, <1>7, <1>8, <1>9, <1>10, <1>11, <1>12, <1>13 DEF PcStep, PcPrimitive

\* A step of the console inside recv_one_byte, send_one_byte or a change of
\* direction preserves the invariant.
LEMMA MdStepInv == ASSUME LinkInv, MdStep PROVE LinkInv'
<1> USE DEF LinkInv
<1>u. UNCHANGED <<pc, pcI, mdI, got>>
  BY DEF MdStep
<1>t. md \in MdState
  BY DEF LinkTypeOK
<1>b. Low(md.byte) \in Nibble /\ High(md.byte) \in Nibble
  BY <1>t DEF MdState, Byte, Low, High
<1>s. MdSees \subseteq Nibble
  BY DEF MdSees, LinkTypeOK, PcState
<1>o. /\ Size \in Nat \ {0} /\ pcI \in 0..Size + 1 /\ mdI \in 0..Size + 1
      /\ OpAt(0) = "end" /\ OpAt(Size + 1) = "end"
  BY OpFacts DEF LinkTypeOK
<1>p. /\ OpAt(mdI) = "turnDown" => /\ mdI > 1 /\ mdI < Size
                                     /\ OpAt(mdI - 1) \in {"down", "up"}
      /\ OpAt(mdI) = "turnUp" => mdI < Size /\ OpAt(mdI + 1) = "up"
      /\ OpAt(pcI) = "up" => pcI > 1 /\ OpAt(pcI - 1) \in {"up", "turnUp"}
      /\ OpAt(pcI) = "turnUp" => pcI > 1 /\ OpAt(pcI - 1) = "down"
      /\ OpAt(pcI) = "turnDown" => pcI > 1 /\ OpAt(pcI - 1) \in {"down", "up"}
      /\ OpAt(pcI - 1) = "turnUp" => OpAt(pcI - 2) = "down"
  BY <1>o, OpFacts DEF OpAt
<1>m. PcLocal'
  BY <1>u DEF PcLocal
<1>1. CASE MdRecvClr
  <2>1. /\ md' \in MdState /\ md.at = "recvClr" /\ md'.at = "recvLow"
        /\ md'.th = 0 /\ md'.dir = md.dir /\ md'.last = md.last
    BY <1>1, <1>t, NibbleAssumption DEF MdRecvClr, MdWrite, MdState, MdPoints
  <2>2. LinkTypeOK'
    BY <2>1, <1>u DEF LinkTypeOK
  <2>3. MdLocal'
    BY <2>1, <1>u, <1>o, <1>p DEF MdLocal, MdPoints, Down
  <2>4. Joint'
    BY <2>1, <1>u, <1>o, <1>p DEF Joint, RanOn, Ahead, PcLocal, MdLocal, LinkTypeOK, Down
  <2>5. QED
    BY <1>m, <2>2, <2>3, <2>4
<1>2. CASE MdRecvLow
  <2>0. PICK k \in Nibble : md' = [md EXCEPT !.at = "recvSet", !.byte = <<k, High(md.byte)>>]
    BY <1>2, <1>s DEF MdRecvLow
  <2>b. <<k, High(md.byte)>> \in Byte
    BY <1>t DEF MdState, Byte, Low, High
  <2>1. /\ md' \in MdState /\ md.at = "recvLow" /\ md'.at = "recvSet"
        /\ pc.tl = 0 /\ md'.th = md.th /\ md'.dir = md.dir /\ md'.last = md.last
    BY <1>2, <1>t, <2>0, <2>b DEF MdRecvLow, MdState, MdPoints
  <2>2. LinkTypeOK'
    BY <2>1, <1>u DEF LinkTypeOK
  <2>3. MdLocal'
    BY <2>1, <1>u, <1>o, <1>p DEF MdLocal, MdPoints, Down
  <2>4. Joint'
    BY <2>1, <1>u, <1>o, <1>p DEF Joint, RanOn, Ahead, PcLocal, MdLocal, LinkTypeOK, Down
  <2>5. QED
    BY <1>m, <2>2, <2>3, <2>4
<1>3. CASE MdRecvSet
  <2>1. /\ md' \in MdState /\ md.at = "recvSet" /\ md'.at = "recvHigh"
        /\ md'.th = 1 /\ md'.dir = md.dir /\ md'.last = md.last
    BY <1>3, <1>t, NibbleAssumption DEF MdRecvSet, MdWrite, MdState, MdPoints
  <2>2. LinkTypeOK'
    BY <2>1, <1>u DEF LinkTypeOK
  <2>3. MdLocal'
    BY <2>1, <1>u, <1>o, <1>p DEF MdLocal, MdPoints, Down
  <2>4. Joint'
    BY <2>1, <1>u, <1>o, <1>p DEF Joint, RanOn, Ahead, PcLocal, MdLocal, LinkTypeOK, Down
  <2>5. QED
    BY <1>m, <2>2, <2>3, <2>4
<1>4. CASE MdRecvHigh
  <2>0. PICK k \in Nibble : md' = [md EXCEPT !.at = IF md.last THEN "done" ELSE "recvNext", !.byte = <<Low(md.byte), k>>]
    BY <1>4, <1>s DEF MdRecvHigh
  <2>b. <<Low(md.byte), k>> \in Byte
    BY <1>t DEF MdState, Byte, Low, High
  <2>1. /\ md' \in MdState /\ md.at = "recvHigh" /\ md'.at = IF md.last THEN "done" ELSE "recvNext"
        /\ pc.tl = 1 /\ md'.th = md.th /\ md'.dir = md.dir /\ md'.last = md.last
    BY <1>4, <1>t, <2>0, <2>b DEF MdRecvHigh, MdState, MdPoints
  <2>2. LinkTypeOK'
    BY <2>1, <1>u DEF LinkTypeOK
  <2>3. MdLocal'
    BY <2>1, <1>u, <1>o, <1>p DEF MdLocal, MdPoints, Down
  <2>4. Joint'
    BY <2>1, <1>u, <1>o, <1>p DEF Joint, RanOn, Ahead, PcLocal, MdLocal, LinkTypeOK, Down
  <2>5. QED
    BY <1>m, <2>2, <2>3, <2>4
<1>5. CASE MdRecvNext
  <2>1. /\ md' \in MdState /\ md.at = "recvNext" /\ md'.at = "done"
        /\ md'.th = 0 /\ md'.dir = md.dir /\ md'.last = md.last
    BY <1>5, <1>t, NibbleAssumption DEF MdRecvNext, MdWrite, MdState, MdPoints
  <2>2. LinkTypeOK'
    BY <2>1, <1>u DEF LinkTypeOK
  <2>3. MdLocal'
    BY <2>1, <1>u, <1>o, <1>p DEF MdLocal, MdPoints, Down
  <2>4. Joint'
    BY <2>1, <1>u, <1>o, <1>p DEF Joint, RanOn, Ahead, PcLocal, MdLocal, LinkTypeOK, Down
  <2>5. QED
    BY <1>m, <2>2, <2>3, <2>4
<1>6. CASE MdSendLow
  <2>1. /\ md' \in MdState /\ md.at = "sendLow" /\ md'.at = "sendPutLow"
        /\ pc.tl = 0 /\ md'.th = md.th /\ md'.dir = md.dir /\ md'.last = md.last
    BY <1>6, <1>t, MdGoFields DEF MdSendLow, MdPoints
  <2>2. LinkTypeOK'
    BY <2>1, <1>u DEF LinkTypeOK
  <2>3. MdLocal'
    BY <2>1, <1>u, <1>o, <1>p DEF MdLocal, MdPoints, Down
  <2>4. Joint'
    BY <2>1, <1>u, <1>o, <1>p DEF Joint, RanOn, Ahead, PcLocal, MdLocal, LinkTypeOK, Down
  <2>5. QED
    BY <1>m, <2>2, <2>3, <2>4
<1>7. CASE MdSendPutLow
  <2>1. /\ md' \in MdState /\ md.at = "sendPutLow" /\ md'.at = "sendHigh"
        /\ md'.th = 0 /\ md'.dir = md.dir /\ md'.last = md.last
    BY <1>7, <1>t, <1>b DEF MdSendPutLow, MdWrite, MdState, MdPoints
  <2>2. LinkTypeOK'
    BY <2>1, <1>u DEF LinkTypeOK
  <2>3. MdLocal'
    BY <2>1, <1>u, <1>o, <1>p DEF MdLocal, MdPoints, Down
  <2>4. Joint'
    BY <2>1, <1>u, <1>o, <1>p DEF Joint, RanOn, Ahead, PcLocal, MdLocal, LinkTypeOK, Down
  <2>5. QED
    BY <1>m, <2>2, <2>3, <2>4
<1>8. CASE MdSendHigh
  <2>1. /\ md' \in MdState /\ md.at = "sendHigh" /\ md'.at = "sendPutHigh"
        /\ pc.tl = 1 /\ md'.th = md.th /\ md'.dir = md.dir /\ md'.last = md.last
    BY <1>8, <1>t, MdGoFields DEF MdSendHigh, MdPoints
  <2>2. LinkTypeOK'
    BY <2>1, <1>u DEF LinkTypeOK
  <2>3. MdLocal'
    BY <2>1, <1>u, <1>o, <1>p DEF MdLocal, MdPoints, Down
  <2>4. Joint'
    BY <2>1, <1>u, <1>o, <1>p DEF Joint, RanOn, Ahead, PcLocal, MdLocal, LinkTypeOK, Down
  <2>5. QED
    BY <1>m, <2>2, <2>3, <2>4
<1>9. CASE MdSendPutHigh
  <2>1. /\ md' \in MdState /\ md.at = "sendPutHigh" /\ md'.at = "done"
        /\ md'.th = 1 /\ md'.dir = md.dir /\ md'.last = md.last
    BY <1>9, <1>t, <1>b DEF MdSendPutHigh, MdWrite, MdState, MdPoints
  <2>2. LinkTypeOK'
    BY <2>1, <1>u DEF LinkTypeOK
  <2>3. MdLocal'
    BY <2>1, <1>u, <1>o, <1>p DEF MdLocal, MdPoints, Down
  <2>4. Joint'
    BY <2>1, <1>u, <1>o, <1>p DEF Joint, RanOn, Ahead, PcLocal, MdLocal, LinkTypeOK, Down
  <2>5. QED
    BY <1>m, <2>2, <2>3, <2>4
<1>10. CASE MdSwitchWait
  <2>1. /\ md' \in MdState /\ md.at = "swLow" /\ md'.at = "swDir"
        /\ pc.tl = 0 /\ md'.th = md.th /\ md'.dir = md.dir /\ md'.last = md.last
    BY <1>10, <1>t, MdGoFields DEF MdSwitchWait, MdPoints
  <2>2. LinkTypeOK'
    BY <2>1, <1>u DEF LinkTypeOK
  <2>3. MdLocal'
    BY <2>1, <1>u, <1>o, <1>p DEF MdLocal, MdPoints, Down
  <2>4. Joint'
    BY <2>1, <1>u, <1>o, <1>p DEF Joint, RanOn, Ahead, PcLocal, MdLocal, LinkTypeOK, Down
  <2>5. QED
    BY <1>m, <2>2, <2>3, <2>4
<1>11. CASE MdSwitchDir
  <2>1. /\ md' \in MdState /\ md.at = "swDir" /\ md'.at = "swTh"
        /\ md'.dir = "data" /\ md'.th = md.th /\ md'.last = md.last
    BY <1>11, <1>t DEF MdSwitchDir, MdState, MdPoints
  <2>2. LinkTypeOK'
    BY <2>1, <1>u DEF LinkTypeOK
  <2>3. MdLocal'
    BY <2>1, <1>u, <1>o, <1>p DEF MdLocal, MdPoints, Down
  <2>4. Joint'
    BY <2>1, <1>u, <1>o, <1>p DEF Joint, RanOn, Ahead, PcLocal, MdLocal, LinkTypeOK, Down
  <2>5. QED
    BY <1>m, <2>2, <2>3, <2>4
<1>12. CASE MdSwitchTh
  <2>1. /\ md' \in MdState /\ md.at = "swTh" /\ md'.at = "done"
        /\ md'.th = 1 /\ md'.dir = md.dir /\ md'.last = md.last
    BY <1>12, <1>t, NibbleAssumption DEF MdSwitchTh, MdWrite, MdState, MdPoints
  <2>2. LinkTypeOK'
    BY <2>1, <1>u DEF LinkTypeOK
  <2>3. MdLocal'
    BY <2>1, <1>u, <1>o, <1>p DEF MdLocal, MdPoints, Down
  <2>4. Joint'
    BY <2>1, <1>u, <1>o, <1>p DEF Joint, RanOn, Ahead, PcLocal, MdLocal, LinkTypeOK, Down
  <2>5. QED
    BY <1>m, <2>2, <2>3, <2>4
<1>13. CASE MdInput
  <2>1. /\ md' \in MdState /\ md.at = "input" /\ md'.at = "done"
        /\ md'.dir = "th" /\ md'.th = md.th /\ md'.last = md.last
    BY <1>13, <1>t DEF MdInput, MdState, MdPoints
  <2>2. LinkTypeOK'
    BY <2>1, <1>u DEF LinkTypeOK
  <2>3. MdLocal'
    BY <2>1, <1>u, <1>o, <1>p DEF MdLocal, MdPoints, Down
  <2>4. Joint'
    BY <2>1, <1>u, <1>o, <1>p DEF Joint, RanOn, Ahead, PcLocal, MdLocal, LinkTypeOK, Down
  <2>5. QED
    BY <1>m, <2>2, <2>3, <2>4
<1>14. QED
  BY <1>1, <1>2, <1>3, <1>4, <1>5, <1>6, <1>7, <1>8, <1>9, <1>10, <1>11, <1>12, <1>13 DEF MdStep, MdPrimitive

\* The PC's call of its next primitive preserves the invariant.
LEMMA PcNextInv == ASSUME LinkInv, PcNext PROVE LinkInv'
<1> USE DEF LinkInv
<1>u. pc.at = "done" /\ pcI' = pcI + 1 /\ pc' = PcCall(pcI + 1) /\ UNCHANGED <<md, mdI>>
  BY DEF PcNext
<1>t. pc \in PcState
  BY DEF LinkTypeOK
<1>o. /\ Size \in Nat \ {0} /\ pcI \in 0..Size /\ mdI \in 0..Size + 1 /\ pcI + 1 \in 1..Size + 1
      /\ OpAt(0) = "end" /\ OpAt(Size + 1) = "end"
  BY <1>u, OpFacts DEF LinkTypeOK, PcLocal
<1>p. /\ OpAt(pcI) = "up" => pcI > 1 /\ OpAt(pcI - 1) \in {"up", "turnUp"}
      /\ OpAt(pcI) = "turnUp" => pcI > 1 /\ OpAt(pcI - 1) = "down"
      /\ OpAt(pcI) = "end" <=> pcI = 0
      /\ OpAt(pcI) \in Ops \cup {"end"}
  <2>1. CASE pcI = 0
    BY <2>1, <1>o
  <2>2. CASE pcI \in 1..Size
    BY <2>2, <1>o, OpFacts DEF Ops
  <2>3. QED
    BY <2>1, <2>2, <1>o
<1>n. /\ OpAt(pcI + 1) = "up" => OpAt(pcI) \in {"up", "turnUp"}
      /\ OpAt(pcI + 1) = "turnUp" => OpAt(pcI) = "down"
      /\ OpAt(pcI + 1) = "turnDown" => OpAt(pcI) \in {"down", "up"}
      /\ OpAt(pcI + 1) \in Down => OpAt(pcI) \in {"down", "downNext", "turnDown", "end"}
      /\ OpAt(pcI + 1) = "end" => pcI = Size /\ OpAt(pcI) \in {"down", "downNext", "up"}
      /\ OpAt(pcI + 1) \in Ops \cup {"end"}
  <2>1. CASE pcI < Size
    <3>1. pcI + 1 \in 1..Size /\ (pcI + 1) - 1 = pcI
      BY <2>1, <1>o
    <3>2. QED
      BY <3>1, OpFacts DEF Ops
  <2>2. CASE pcI = Size
    BY <2>2, <1>o, OpFacts DEF Down
  <2>3. QED
    BY <2>1, <2>2, <1>o
<1>g. got' \in [1..Size -> Byte \cup {None}]
  <2>1. pc.byte \in Byte
    BY <1>t DEF PcState
  <2>2. QED
    BY <2>1, <1>o DEF PcNext, LinkTypeOK
<1>m. MdLocal'
  BY <1>u DEF MdLocal
<1>1. CASE OpAt(pcI + 1) \in Down
  <2>b. Script[pcI + 1].byte \in Byte
    BY <1>1, <1>o, OpFacts DEF Down
  <2>1. pc' \in PcState /\ pc'.at = "sendLow" /\ pc'.tl = pc.tl /\ pc'.out = pc.out
    BY <1>1, <1>u, <1>t, <2>b DEF PcCall, PcSend, PcState, PcPoints, Down
  <2>2. LinkTypeOK'
    BY <2>1, <1>u, <1>o, <1>g DEF LinkTypeOK
  <2>3. PcLocal'
    BY <1>1, <2>1, <1>u, <1>o, <1>p, <1>n DEF PcLocal, PcPoints, Down
  <2>4. Joint'
    BY <1>1, <2>1, <1>u, <1>o, <1>p, <1>n DEF Joint, RanOn, Ahead, PcLocal, MdLocal, LinkTypeOK, Down
  <2>5. QED
    BY <1>m, <2>2, <2>3, <2>4
<1>2. CASE OpAt(pcI + 1) = "up"
  <2>1. pc' \in PcState /\ pc'.at = "recvTlLow" /\ pc'.tl = pc.tl /\ pc'.out = pc.out
    BY <1>2, <1>u, <1>t DEF PcCall, PcStart, PcState, PcPoints, Down
  <2>2. LinkTypeOK'
    BY <2>1, <1>u, <1>o, <1>g DEF LinkTypeOK
  <2>3. PcLocal'
    BY <1>2, <2>1, <1>u, <1>o, <1>p, <1>n DEF PcLocal, PcPoints, Down
  <2>4. Joint'
    BY <1>2, <2>1, <1>u, <1>o, <1>p, <1>n DEF Joint, RanOn, Ahead, PcLocal, MdLocal, LinkTypeOK, Down
  <2>5. QED
    BY <1>m, <2>2, <2>3, <2>4
<1>3. CASE OpAt(pcI + 1) = "turnUp"
  <2>1. pc' \in PcState /\ pc'.at = "toIn" /\ pc'.tl = pc.tl /\ pc'.out = pc.out
    BY <1>3, <1>u, <1>t DEF PcCall, PcStart, PcState, PcPoints, Down
  <2>2. LinkTypeOK'
    BY <2>1, <1>u, <1>o, <1>g DEF LinkTypeOK
  <2>3. PcLocal'
    BY <1>3, <2>1, <1>u, <1>o, <1>p, <1>n DEF PcLocal, PcPoints, Down
  <2>4. Joint'
    BY <1>3, <2>1, <1>u, <1>o, <1>p, <1>n DEF Joint, RanOn, Ahead, PcLocal, MdLocal, LinkTypeOK, Down
  <2>5. QED
    BY <1>m, <2>2, <2>3, <2>4
<1>4. CASE OpAt(pcI + 1) = "turnDown"
  <2>1. pc' \in PcState /\ pc'.at = "toOut" /\ pc'.tl = pc.tl /\ pc'.out = pc.out
    BY <1>4, <1>u, <1>t DEF PcCall, PcStart, PcState, PcPoints, Down
  <2>2. LinkTypeOK'
    BY <2>1, <1>u, <1>o, <1>g DEF LinkTypeOK
  <2>3. PcLocal'
    BY <1>4, <2>1, <1>u, <1>o, <1>p, <1>n DEF PcLocal, PcPoints, Down
  <2>4. Joint'
    BY <1>4, <2>1, <1>u, <1>o, <1>p, <1>n DEF Joint, RanOn, Ahead, PcLocal, MdLocal, LinkTypeOK, Down
  <2>5. QED
    BY <1>m, <2>2, <2>3, <2>4
<1>5. CASE OpAt(pcI + 1) = "end"
  <2>1. pc' \in PcState /\ pc'.at = "finish" /\ pc'.tl = pc.tl /\ pc'.out = pc.out
    BY <1>5, <1>u, <1>t DEF PcCall, PcStart, PcState, PcPoints, Down
  <2>2. LinkTypeOK'
    BY <2>1, <1>u, <1>o, <1>g DEF LinkTypeOK
  <2>3. PcLocal'
    BY <1>5, <2>1, <1>u, <1>o, <1>p, <1>n DEF PcLocal, PcPoints, Down
  <2>4. Joint'
    BY <1>5, <2>1, <1>u, <1>o, <1>p, <1>n DEF Joint, RanOn, Ahead, PcLocal, MdLocal, LinkTypeOK, Down
  <2>5. QED
    BY <1>m, <2>2, <2>3, <2>4
<1>6. QED
  BY <1>1, <1>2, <1>3, <1>4, <1>5, <1>n DEF Ops, Down

\* The console's call of its next primitive preserves the invariant.
LEMMA MdNextInv == ASSUME LinkInv, MdNext PROVE LinkInv'
<1> USE DEF LinkInv
<1>u. md.at = "done" /\ mdI' = mdI + 1 /\ md' = MdCall(mdI + 1) /\ UNCHANGED <<pc, pcI>>
  BY DEF MdNext
<1>t. md \in MdState
  BY DEF LinkTypeOK
<1>o. /\ Size \in Nat \ {0} /\ mdI \in 0..Size /\ pcI \in 0..Size + 1 /\ mdI + 1 \in 1..Size + 1
      /\ OpAt(0) = "end" /\ OpAt(Size + 1) = "end"
  BY <1>u, OpFacts DEF LinkTypeOK, MdLocal
<1>d. md.dir \in {"in", "th", "data"} /\ md.th \in {0, 1} /\ (mdI + 1) - 1 = mdI
  BY <1>t, <1>o DEF MdState
<1>p. /\ OpAt(mdI) = "end" <=> mdI = 0
      /\ OpAt(mdI) \in Ops \cup {"end"}
  <2>1. CASE mdI = 0
    BY <2>1, <1>o
  <2>2. CASE mdI \in 1..Size
    BY <2>2, <1>o, OpFacts DEF Ops
  <2>3. QED
    BY <2>1, <2>2, <1>o
<1>q. /\ OpAt(pcI) = "up" => pcI > 1 /\ OpAt(pcI - 1) \in {"up", "turnUp"}
      /\ OpAt(pcI) = "turnUp" => pcI > 1 /\ OpAt(pcI - 1) = "down" /\ pcI < Size
      /\ OpAt(pcI) = "turnDown" => pcI > 1 /\ OpAt(pcI - 1) \in {"down", "up"} /\ pcI < Size
      /\ OpAt(pcI) \in Ops => pcI \in 1..Size
  <2>1. CASE pcI \in 1..Size
    BY <2>1, <1>o, OpFacts
  <2>2. CASE pcI = 0 \/ pcI = Size + 1
    BY <2>2, <1>o DEF Ops
  <2>3. QED
    BY <2>1, <2>2, <1>o
<1>n. /\ OpAt(mdI + 1) = "up" => OpAt(mdI) \in {"up", "turnUp"}
      /\ OpAt(mdI + 1) = "turnUp" => OpAt(mdI) = "down"
      /\ OpAt(mdI + 1) = "turnDown" => OpAt(mdI) \in {"down", "up"}
      /\ OpAt(mdI + 1) \in Down => OpAt(mdI) \in {"down", "downNext", "turnDown", "end"}
      /\ OpAt(mdI + 1) = "end" => mdI = Size /\ OpAt(mdI) \in {"down", "downNext", "up"}
      /\ OpAt(mdI + 1) \in Ops \cup {"end"}
  <2>1. CASE mdI < Size
    <3>1. mdI + 1 \in 1..Size /\ (mdI + 1) - 1 = mdI
      BY <2>1, <1>o
    <3>2. QED
      BY <3>1, OpFacts DEF Ops
  <2>2. CASE mdI = Size
    BY <2>2, <1>o, OpFacts DEF Down
  <2>3. QED
    BY <2>1, <2>2, <1>o
<1>g. got' \in [1..Size -> Byte \cup {None}]
  <2>1. md.byte \in Byte
    BY <1>t DEF MdState
  <2>2. QED
    BY <2>1, <1>o DEF MdNext, LinkTypeOK
<1>m. PcLocal'
  BY <1>u DEF PcLocal
<1>1. CASE OpAt(mdI + 1) \in Down
  <2>1. /\ md' \in MdState /\ md'.at = "recvClr" /\ md'.th = md.th /\ md'.dir = md.dir /\ (md'.last <=> OpAt(mdI + 1) = "down")
    BY <1>1, <1>u, <1>t DEF MdCall, MdRecv, MdState, MdPoints, Down
  <2>2. LinkTypeOK'
    BY <2>1, <1>u, <1>o, <1>g DEF LinkTypeOK
  <2>3. MdLocal'
    BY <1>1, <2>1, <1>u, <1>o, <1>d, <1>p, <1>n DEF MdLocal, MdPoints, Down
  <2>4. Joint'
    BY <1>1, <2>1, <1>u, <1>o, <1>p, <1>q, <1>n
    DEF Joint, RanOn, Ahead, PcLocal, MdLocal, LinkTypeOK, Down, Ops
  <2>5. QED
    BY <1>m, <2>2, <2>3, <2>4
<1>2. CASE OpAt(mdI + 1) = "up"
  <2>b. Script[mdI + 1].byte \in Byte
    BY <1>2, <1>o, OpFacts
  <2>1. /\ md' \in MdState /\ md'.at = "sendLow" /\ md'.th = md.th /\ md'.dir = md.dir
    BY <1>2, <1>u, <1>t, <2>b DEF MdCall, MdSend, MdState, MdPoints, Down
  <2>2. LinkTypeOK'
    BY <2>1, <1>u, <1>o, <1>g DEF LinkTypeOK
  <2>3. MdLocal'
    BY <1>2, <2>1, <1>u, <1>o, <1>d, <1>p, <1>n DEF MdLocal, MdPoints, Down
  <2>4. Joint'
    BY <1>2, <2>1, <1>u, <1>o, <1>p, <1>q, <1>n
    DEF Joint, RanOn, Ahead, PcLocal, MdLocal, LinkTypeOK, Down, Ops
  <2>5. QED
    BY <1>m, <2>2, <2>3, <2>4
<1>3. CASE OpAt(mdI + 1) = "turnUp"
  <2>1. /\ md' \in MdState /\ md'.at = "swLow" /\ md'.th = md.th /\ md'.dir = md.dir
    BY <1>3, <1>u, <1>t DEF MdCall, MdStart, MdState, MdPoints, Down
  <2>2. LinkTypeOK'
    BY <2>1, <1>u, <1>o, <1>g DEF LinkTypeOK
  <2>3. MdLocal'
    BY <1>3, <2>1, <1>u, <1>o, <1>d, <1>p, <1>n DEF MdLocal, MdPoints, Down
  <2>4. Joint'
    BY <1>3, <2>1, <1>u, <1>o, <1>p, <1>q, <1>n
    DEF Joint, RanOn, Ahead, PcLocal, MdLocal, LinkTypeOK, Down, Ops
  <2>5. QED
    BY <1>m, <2>2, <2>3, <2>4
<1>4. CASE OpAt(mdI + 1) = "turnDown"
  <2>1. /\ md' \in MdState /\ md'.at = "input" /\ md'.th = md.th /\ md'.dir = md.dir
    BY <1>4, <1>u, <1>t DEF MdCall, MdStart, MdState, MdPoints, Down
  <2>2. LinkTypeOK'
    BY <2>1, <1>u, <1>o, <1>g DEF LinkTypeOK
  <2>3. MdLocal'
    BY <1>4, <2>1, <1>u, <1>o, <1>d, <1>p, <1>n DEF MdLocal, MdPoints, Down
  <2>4. Joint'
    BY <1>4, <2>1, <1>u, <1>o, <1>p, <1>q, <1>n
    DEF Joint, RanOn, Ahead, PcLocal, MdLocal, LinkTypeOK, Down, Ops
  <2>5. QED
    BY <1>m, <2>2, <2>3, <2>4
<1>5. CASE OpAt(mdI + 1) = "end"
  <2>1. /\ md' \in MdState /\ md'.at = "return" /\ md'.th = md.th /\ md'.dir = md.dir
    BY <1>5, <1>u, <1>t DEF MdCall, MdStart, MdState, MdPoints, Down
  <2>2. LinkTypeOK'
    BY <2>1, <1>u, <1>o, <1>g DEF LinkTypeOK
  <2>3. MdLocal'
    BY <1>5, <2>1, <1>u, <1>o, <1>d, <1>p, <1>n DEF MdLocal, MdPoints, Down
  <2>4. Joint'
    BY <1>5, <2>1, <1>u, <1>o, <1>p, <1>q, <1>n
    DEF Joint, RanOn, Ahead, PcLocal, MdLocal, LinkTypeOK, Down, Ops
  <2>5. QED
    BY <1>m, <2>2, <2>3, <2>4
<1>6. QED
  BY <1>1, <1>2, <1>3, <1>4, <1>5, <1>n DEF Ops, Down

\* The last steps of both programs preserve the invariant.
LEMMA EndInv == ASSUME LinkInv, PcFinish \/ MdReturn PROVE LinkInv'
<1> USE OpFacts DEF LinkInv
<1>1. CASE PcFinish
  <2>1. /\ pc' \in PcState /\ pc.at = "finish" /\ pc'.at = "off" /\ pc'.tl = 1 /\ pc'.out = FALSE
        /\ UNCHANGED <<md, pcI, mdI, got>>
    BY <1>1, OutBFields DEF PcFinish, PcPoints, LinkTypeOK
  <2>2. LinkTypeOK' /\ MdLocal'
    BY <2>1 DEF LinkTypeOK, MdLocal
  <2>3. PcLocal'
    BY <2>1 DEF PcLocal, PcPoints, LinkTypeOK, Down
  <2>4. Joint'
    BY <2>1 DEF Joint, RanOn, Ahead, PcLocal
  <2>5. QED
    BY <2>2, <2>3, <2>4
<1>2. CASE MdReturn
  <2>1. /\ md' \in MdState /\ md.at = "return" /\ md'.at = "idle" /\ md'.dir = "in"
        /\ UNCHANGED <<pc, pcI, mdI, got>>
    BY <1>2 DEF MdReturn, MdPoints, MdState, LinkTypeOK
  <2>2. LinkTypeOK' /\ PcLocal'
    BY <2>1 DEF LinkTypeOK, PcLocal
  <2>3. MdLocal'
    BY <2>1 DEF MdLocal, MdPoints, LinkTypeOK
  <2>4. Joint'
    BY <2>1 DEF Joint, RanOn, Ahead, MdLocal
  <2>5. QED
    BY <2>2, <2>3, <2>4
<1>3. QED
  BY <1>1, <1>2

\* The invariant is inductive.
LEMMA LinkInvStep == LinkInv /\ [LinkNext]_vars => LinkInv'
<1> SUFFICES ASSUME LinkInv, [LinkNext]_vars PROVE LinkInv'
  OBVIOUS
<1>1. CASE UNCHANGED vars
  BY <1>1 DEF vars, LinkInv, LinkTypeOK, PcLocal, MdLocal, Joint, RanOn, Ahead
<1>2. QED
  BY <1>1, PcStepInv, MdStepInv, PcNextInv, MdNextInv, EndInv DEF LinkNext, Finished

(***************************************************************************)
(* Every state a transfer can reach is well-typed and in step, for every   *)
(* script and whatever the speeds of the two machines.                     *)
(***************************************************************************)
THEOREM LinkInvariant == LinkSpec => []LinkInv
<1>1. QED
  BY InitInv, LinkInvStep, PTL DEF LinkSpec

\* Both programs' points, registers and progress stay within their types: no
\* order of steps takes send_byte or recv_one_byte out of the script.
THEOREM LinkTypes == LinkSpec => []LinkTypeOK
<1>1. LinkInv => LinkTypeOK
  BY DEF LinkInv
<1>2. QED
  BY <1>1, LinkInvariant, PTL

\* The two ends never drive D0-D3 together: the direction hand-over needs no
\* assumption on timing.
THEOREM LinkNoContention == LinkSpec => []NoContention
<1>1. LinkInv => NoContention
  <2> SUFFICES ASSUME LinkInv, pc.out, md.dir = "data" PROVE FALSE
    BY DEF NoContention, Contention, MdDrivesData
  <2> USE DEF LinkInv
  <2>1. /\ Size \in Nat \ {0} /\ pcI \in 0..Size + 1 /\ mdI \in 0..Size + 1
        /\ OpAt(0) = "end" /\ OpAt(Size + 1) = "end"
    BY OpFacts DEF LinkTypeOK
  <2>2. /\ OpAt(pcI) \in Down => OpAt(pcI - 1) \in {"down", "downNext", "turnDown", "end"}
        /\ OpAt(mdI) = "up" => OpAt(mdI - 1) \in {"up", "turnUp"}
        /\ OpAt(mdI) = "turnUp" => mdI < Size /\ OpAt(mdI + 1) = "up"
    BY <2>1, OpFacts DEF OpAt, Down
  <2>3. /\ md.at \in {"swTh", "sendLow", "sendPutLow", "sendHigh", "sendPutHigh",
                     "done", "input", "return"}
        /\ md.at = "done" => OpAt(mdI) \in {"up", "turnUp"}
        /\ md.at = "input" => OpAt(mdI) = "turnDown" /\ OpAt(mdI - 1) = "up"
        /\ md.at = "return" => mdI = Size + 1 /\ OpAt(Size) = "up"
    BY DEF MdLocal, MdPoints
  <2>4. CASE pc.at \in {"sendLow", "sendTlLow", "sendHigh", "sendTlHigh"}
    BY <2>1, <2>2, <2>3, <2>4 DEF PcLocal, MdLocal, Joint, Ahead, Down
  <2>5. CASE pc.at = "done"
    BY <2>1, <2>2, <2>3, <2>5, OpFacts DEF PcLocal, MdLocal, Joint, RanOn, Ahead, Down, Ops
  <2>6. CASE pc.at \in {"toIn", "toOut", "finish"}
    BY <2>1, <2>2, <2>3, <2>6, OpFacts DEF PcLocal, MdLocal, Joint, Ahead, Down
  <2>7. QED
    BY <2>4, <2>5, <2>6 DEF PcLocal, PcPoints, LinkTypeOK, PcState
<1>2. QED
  BY <1>1, LinkInvariant, PTL

-----------------------------------------------------------------------------
(* The bytes.  PcPrompt and MdPrompt are what the two programs rely on: a  *)
(* nibble that is released without an acknowledgement has been sampled.    *)
(* DelayOk is not needed beside MdPrompt.                                  *)

\* Before a transfer no byte has arrived.
LEMMA InitData == LinkInit => DataInv
<1> SUFFICES ASSUME LinkInit PROVE DataInv
  OBVIOUS
<1>1. Size \in Nat \ {0} /\ OpAt(0) = "end"
  BY OpFacts
<1>2. PcData /\ MdData
  BY <1>1 DEF LinkInit, PcData, MdData, Down
<1>3. GotData
  BY <1>1 DEF LinkInit, GotData
<1>4. QED
  BY <1>2, <1>3 DEF DataInv

\* A byte is its two nibbles.
LEMMA TwoNibbles == \A b \in Byte : b = <<Low(b), High(b)>> /\ Low(b) \in Nibble /\ High(b) \in Nibble
BY DEF Byte, Low, High

\* What the PC reads is what the console drives, and the reverse.
LEMMA PcSeesDriven ==
  ASSUME md.dir = "data", ~pc.out, NEW n \in PcSees PROVE n = md.data
BY DEF PcSees, MdDrivesData
LEMMA MdSeesDriven ==
  ASSUME md.dir = "th", pc.out, NEW n \in MdSees PROVE n = pc.data
BY DEF MdSees, MdDrivesData

\* A step inside one of the PC's primitives keeps the bytes right.
LEMMA PcStepData ==
  ASSUME MdPrompt = TRUE, LinkInv, DataInv, PcStep PROVE DataInv'
<1> USE DEF LinkInv, DataInv
<1>u. UNCHANGED <<md, pcI, mdI, got>>
  BY DEF PcStep
<1>t. pc \in PcState
  BY DEF LinkTypeOK
<1>g. GotData'
  BY <1>u DEF GotData
<1>b. Low(pc.byte) \in Nibble /\ High(pc.byte) \in Nibble /\ pc.byte = <<Low(pc.byte), High(pc.byte)>>
  BY <1>t, TwoNibbles DEF PcState
<1>1. CASE PcSendWaitLow
  <2>1. /\ pc.at = "sendLow" /\ pc'.at = "sendTlLow" /\ TH = 0
        /\ pc'.tl = pc.tl /\ pc'.out = pc.out /\ pc'.data = Low(pc.byte) /\ pc'.byte = pc.byte
    BY <1>1, <1>t DEF PcSendWaitLow, PcState
  <2>2. PcData'
    BY <2>1, <1>u DEF PcData
  <2>3. md.at # "recvHigh"
    BY <2>1 DEF MdLocal, TH
  <2>4. MdData'
    BY <2>1, <2>3, <1>u DEF MdData
  <2>5. QED
    BY <1>g, <2>2, <2>4
<1>2. CASE PcSendTlLow
  <2>1. /\ pc.at = "sendTlLow" /\ pc'.at = "sendHigh"
        /\ pc'.tl = 0 /\ pc'.out = TRUE /\ pc'.data = pc.data /\ pc'.byte = pc.byte
    BY <1>2, <1>t, OutBFields DEF PcSendTlLow, PcPoints
  <2>2. PcData'
    BY <2>1, <1>u DEF PcData
  <2>3. MdData'
    BY <2>1, <1>u DEF MdData
  <2>4. QED
    BY <1>g, <2>2, <2>3
<1>3. CASE PcSendWaitHigh
  <2>1. /\ pc.at = "sendHigh" /\ pc'.at = "sendTlHigh"
        /\ pc'.tl = pc.tl /\ pc'.out = pc.out /\ pc'.data = High(pc.byte) /\ pc'.byte = pc.byte
    BY <1>3, <1>t DEF PcSendWaitHigh, PcState
  <2>2. PcData'
    BY <2>1, <1>u DEF PcData
  <2>3. pc.tl = 0
    BY <2>1 DEF PcLocal
  <2>4. MdData'
    BY <2>1, <2>3, <1>u DEF MdData
  <2>5. QED
    BY <1>g, <2>2, <2>4
<1>4. CASE PcSendTlHigh
  <2>1. /\ pc.at = "sendTlHigh" /\ pc'.at = "done"
        /\ pc'.tl = 1 /\ pc'.out = TRUE /\ pc'.data = pc.data /\ pc'.byte = pc.byte
    BY <1>4, <1>t, OutBFields DEF PcSendTlHigh, PcPoints
  <2>2. OpAt(pcI) # "up" /\ mdI = pcI
    BY <2>1 DEF PcLocal, Down, Joint, Ahead, LinkTypeOK
  <2>3. PcData'
    BY <2>1, <2>2, <1>u DEF PcData, OpAt
  <2>4. MdData'
    BY <2>1, <2>2, <1>u DEF MdData, PcData
  <2>5. QED
    BY <1>g, <2>3, <2>4
<1>5. CASE PcRecvTlLow
  <2>1. /\ pc.at = "recvTlLow" /\ pc'.at = "recvLow"
        /\ pc'.tl = 0 /\ pc'.out = FALSE /\ pc'.data = pc.data /\ pc'.byte = pc.byte
    BY <1>5, <1>t, OutBFields DEF PcRecvTlLow, PcPoints
  <2>2. PcData'
    BY <2>1, <1>u DEF PcData
  <2>3. MdData'
    BY <2>1, <1>u DEF MdData
  <2>4. QED
    BY <1>g, <2>2, <2>3
<1>6. CASE PcRecvWaitLow
  <2>1. /\ pc.at = "recvLow" /\ pc'.at = "recvLowIn"
        /\ pc'.tl = pc.tl /\ pc'.out = pc.out /\ pc'.data = pc.data /\ pc'.byte = pc.byte
    BY <1>6, <1>t, PcGoFields DEF PcRecvWaitLow, PcPoints
  <2>2. PcData'
    BY <2>1, <1>u DEF PcData
  <2>3. MdData'
    BY <2>1, <1>u DEF MdData
  <2>4. QED
    BY <1>g, <2>2, <2>3
<1>7. CASE PcRecvLow
  <2>1. PICK n \in PcSees : pc' = [pc EXCEPT !.at = "recvTlHigh", !.byte = <<n, High(pc.byte)>>]
    BY <1>7 DEF PcRecvLow
  <2>2. /\ pc.at = "recvLowIn" /\ pc'.at = "recvTlHigh"
        /\ pc'.tl = pc.tl /\ pc'.out = pc.out /\ pc'.data = pc.data /\ pc'.byte = <<n, High(pc.byte)>>
    BY <1>7, <1>t, <2>1 DEF PcRecvLow, PcState
  <2>3. md.at = "sendHigh" /\ mdI = pcI /\ md.dir = "data" /\ ~pc.out
    BY <2>2 DEF Joint, Ahead, MdLocal, PcLocal, LinkTypeOK
  <2>4. n = Low(Script[pcI].byte)
    BY <2>3, PcSeesDriven DEF MdData
  <2>5. Low(pc'.byte) = Low(Script[pcI].byte)
    BY <2>2, <2>4 DEF Low
  <2>6. PcData'
    BY <2>2, <2>5, <1>u DEF PcData
  <2>7. MdData'
    BY <2>2, <1>u DEF MdData
  <2>8. QED
    BY <1>g, <2>6, <2>7
<1>8. CASE PcRecvTlHigh
  <2>1. /\ pc.at = "recvTlHigh" /\ pc'.at = "recvHigh"
        /\ pc'.tl = 1 /\ pc'.out = FALSE /\ pc'.data = pc.data /\ pc'.byte = pc.byte
    BY <1>8, <1>t, OutBFields DEF PcRecvTlHigh, PcPoints
  <2>2. md.at = "sendHigh"
    BY <2>1 DEF Joint
  <2>3. PcData'
    BY <2>1, <2>2, <1>u DEF PcData
  <2>4. MdData'
    BY <2>1, <2>2, <1>u DEF MdData
  <2>5. QED
    BY <1>g, <2>3, <2>4
<1>9. CASE PcRecvWaitHigh
  <2>1. /\ pc.at = "recvHigh" /\ pc'.at = "recvHighIn"
        /\ pc'.tl = pc.tl /\ pc'.out = pc.out /\ pc'.data = pc.data /\ pc'.byte = pc.byte
    BY <1>9, <1>t, PcGoFields DEF PcRecvWaitHigh, PcPoints
  <2>2. PcData'
    BY <2>1, <1>u DEF PcData
  <2>3. MdData'
    BY <2>1, <1>u DEF MdData
  <2>4. QED
    BY <1>g, <2>2, <2>3
<1>10. CASE PcRecvHigh
  <2>1. PICK n \in PcSees : pc' = [pc EXCEPT !.at = "done", !.byte = <<Low(pc.byte), n>>]
    BY <1>10 DEF PcRecvHigh
  <2>2. /\ pc.at = "recvHighIn" /\ pc'.at = "done"
        /\ pc'.tl = pc.tl /\ pc'.out = pc.out /\ pc'.data = pc.data /\ pc'.byte = <<Low(pc.byte), n>>
    BY <1>10, <1>t, <2>1 DEF PcRecvHigh, PcState
  <2>3. md.at \notin {"sendHigh", "sendPutHigh"} /\ ~pc.out /\ OpAt(pcI) = "up"
    BY <2>2 DEF Joint, RanOn, PcLocal
  <2>4. md.dir = "data" /\ md.data = High(Script[pcI].byte)
    BY <2>2, <2>3 DEF PcData
  <2>5. n = High(Script[pcI].byte) /\ Low(pc.byte) = Low(Script[pcI].byte)
    BY <2>2, <2>3, <2>4, PcSeesDriven DEF PcData
  <2>6. Script[pcI].byte \in Byte
    BY <2>3, OpFacts DEF OpAt
  <2>7. pc'.byte = Script[pcI].byte
    BY <2>2, <2>5, <2>6, TwoNibbles
  <2>8. PcData'
    BY <2>2, <2>7, <1>u DEF PcData
  <2>9. MdData'
    BY <2>2, <1>u DEF MdData
  <2>10. QED
    BY <1>g, <2>8, <2>9
<1>11. CASE PcToIn
  <2>1. /\ pc.at = "toIn" /\ pc'.at = "delay"
        /\ pc'.tl = 1 /\ pc'.out = FALSE /\ pc'.data = pc.data /\ pc'.byte = pc.byte
    BY <1>11, <1>t, OutBFields DEF PcToIn, PcPoints
  <2>2. md.at # "recvHigh"
    BY <1>11 DEF PcToIn, MdHasSampled
  <2>3. PcData'
    BY <2>1, <1>u DEF PcData
  <2>4. MdData'
    BY <2>1, <2>2, <1>u DEF MdData
  <2>5. QED
    BY <1>g, <2>3, <2>4
<1>12. CASE PcDelay
  <2>1. /\ pc.at = "delay" /\ pc'.at = "done"
        /\ pc'.tl = pc.tl /\ pc'.out = pc.out /\ pc'.data = pc.data /\ pc'.byte = pc.byte
    BY <1>12, <1>t, PcGoFields DEF PcDelay, PcPoints
  <2>2. OpAt(pcI) = "turnUp"
    BY <2>1 DEF PcLocal
  <2>3. PcData'
    BY <2>1, <2>2, <1>u DEF PcData, OpAt
  <2>4. MdData'
    BY <2>1, <1>u DEF MdData
  <2>5. QED
    BY <1>g, <2>3, <2>4
<1>13. CASE PcToOut
  <2>1. /\ pc.at = "toOut" /\ pc'.at = "done" /\ TH = 0
        /\ pc'.tl = 1 /\ pc'.out = TRUE /\ pc'.data = pc.data /\ pc'.byte = pc.byte
    BY <1>13, <1>t, OutBFields DEF PcToOut, PcPoints
  <2>2. OpAt(pcI) = "turnDown" /\ md.at # "recvHigh"
    BY <2>1 DEF PcLocal, MdLocal, TH
  <2>3. PcData'
    BY <2>1, <2>2, <1>u DEF PcData, OpAt
  <2>4. MdData'
    BY <2>1, <2>2, <1>u DEF MdData
  <2>5. QED
    BY <1>g, <2>3, <2>4
<1>14. QED
  BY <1>1, <1>2, <1>3, <1>4, <1>5, <1>6, <1>7, <1>8, <1>9, <1>10, <1>11, <1>12, <1>13 DEF PcStep, PcPrimitive

\* A step inside one of the console's primitives keeps the bytes right.
LEMMA MdStepData ==
  ASSUME PcPrompt = TRUE, LinkInv, DataInv, MdStep PROVE DataInv'
<1> USE DEF LinkInv, DataInv
<1>u. UNCHANGED <<pc, pcI, mdI, got>>
  BY DEF MdStep
<1>t. md \in MdState
  BY DEF LinkTypeOK
<1>g. GotData'
  BY <1>u DEF GotData
<1>b. Low(md.byte) \in Nibble /\ High(md.byte) \in Nibble /\ 0 \in Nibble
  BY <1>t, TwoNibbles, NibbleAssumption DEF MdState
<1>1. CASE MdRecvClr
  <2>1. /\ md.at = "recvClr" /\ md'.at = "recvLow"
        /\ md'.dir = md.dir /\ md'.byte = md.byte
    BY <1>1, <1>t, <1>b, MdWriteFields DEF MdRecvClr, MdPoints
  <2>2. md.dir = "th"
    BY <2>1 DEF MdLocal
  <2>3. PcData'
    BY <2>1, <2>2, <1>u DEF PcData
  <2>4. MdData'
    BY <2>1, <1>u DEF MdData
  <2>5. QED
    BY <1>g, <2>3, <2>4
<1>2. CASE MdRecvLow
  <2>1. PICK n \in MdSees : md' = [md EXCEPT !.at = "recvSet", !.byte = <<n, High(md.byte)>>]
    BY <1>2 DEF MdRecvLow
  <2>2. /\ md.at = "recvLow" /\ md'.at = "recvSet" /\ pc.tl = 0
        /\ md'.dir = md.dir /\ md'.byte = <<n, High(md.byte)>>
    BY <1>2, <1>t, <2>1 DEF MdRecvLow, MdState
  <2>3. md.dir = "th" /\ pc.at = "sendHigh" /\ mdI = pcI
    BY <2>2 DEF MdLocal, PcLocal, Joint, Ahead, LinkTypeOK
  <2>4. n = Low(Script[mdI].byte)
    BY <2>3, MdSeesDriven DEF PcData
  <2>5. Low(md'.byte) = Low(Script[mdI].byte)
    BY <2>2, <2>4 DEF Low
  <2>6. PcData'
    BY <2>2, <2>3, <1>u DEF PcData
  <2>7. MdData'
    BY <2>2, <2>5, <1>u DEF MdData
  <2>8. QED
    BY <1>g, <2>6, <2>7
<1>3. CASE MdRecvSet
  <2>1. /\ md.at = "recvSet" /\ md'.at = "recvHigh"
        /\ md'.dir = md.dir /\ md'.byte = md.byte
    BY <1>3, <1>t, <1>b, MdWriteFields DEF MdRecvSet, MdPoints
  <2>2. pc.at = "sendHigh" /\ pc.tl = 0
    <3>1. pc.at = "done" => pcI = 0 \/ OpAt(pcI) \in Ops
      BY OpFacts DEF PcLocal, LinkTypeOK
    <3>2. pc.at # "done"
      BY <3>1, <2>1 DEF Joint, RanOn, Ops, Down
    <3>3. pc.at \in PcPoints /\ pc.at \notin {"startHigh", "startAck"}
      BY DEF LinkTypeOK, PcState, PcLocal
    <3>4. pc.at = "sendHigh"
      BY <3>2, <3>3, <2>1 DEF Joint, RanOn, PcPoints
    <3>5. QED
      BY <3>4 DEF PcLocal
  <2>3. PcData'
    BY <2>1, <2>2, <1>u DEF PcData
  <2>4. MdData'
    BY <2>1, <2>2, <1>u DEF MdData
  <2>5. QED
    BY <1>g, <2>3, <2>4
<1>4. CASE MdRecvHigh
  <2>1. PICK n \in MdSees : md' = [md EXCEPT !.at = IF md.last THEN "done" ELSE "recvNext",
                                             !.byte = <<Low(md.byte), n>>]
    BY <1>4 DEF MdRecvHigh
  <2>2. /\ md.at = "recvHigh" /\ md'.at \in {"done", "recvNext"} /\ pc.tl = 1
        /\ md'.dir = md.dir /\ md'.byte = <<Low(md.byte), n>>
    BY <1>4, <1>t, <2>1 DEF MdRecvHigh, MdState
  <2>3. md.dir = "th" /\ OpAt(mdI) \in Down
    BY <2>2 DEF MdLocal
  <2>4. pc.out /\ pc.data = High(Script[mdI].byte) /\ Low(md.byte) = Low(Script[mdI].byte)
    BY <2>2 DEF MdData
  <2>5. n = High(Script[mdI].byte)
    BY <2>3, <2>4, MdSeesDriven
  <2>6. Script[mdI].byte \in Byte
    BY <2>3, OpFacts DEF OpAt, Down
  <2>7. md'.byte = Script[mdI].byte
    BY <2>2, <2>4, <2>5, <2>6, TwoNibbles
  <2>8. pc.at \notin {"recvHigh", "recvHighIn"}
    BY <2>4 DEF PcLocal
  <2>9. PcData'
    BY <2>8, <1>u DEF PcData
  <2>10. MdData'
    BY <2>2, <2>7, <1>u DEF MdData
  <2>11. QED
    BY <1>g, <2>9, <2>10
<1>5. CASE MdRecvNext
  <2>1. /\ md.at = "recvNext" /\ md'.at = "done"
        /\ md'.dir = md.dir /\ md'.byte = md.byte
    BY <1>5, <1>t, <1>b, MdWriteFields DEF MdRecvNext, MdPoints
  <2>2. md.dir = "th"
    BY <2>1 DEF MdLocal
  <2>3. PcData'
    BY <2>1, <2>2, <1>u DEF PcData
  <2>4. MdData'
    BY <2>1, <1>u DEF MdData
  <2>5. QED
    BY <1>g, <2>3, <2>4
<1>6. CASE MdSendLow
  <2>1. /\ md.at = "sendLow" /\ md'.at = "sendPutLow" /\ pc.tl = 0
        /\ md'.dir = md.dir /\ md'.data = md.data /\ md'.byte = md.byte
    BY <1>6, <1>t, MdGoFields DEF MdSendLow, MdPoints
  <2>2. PcData'
    BY <2>1, <1>u DEF PcData
  <2>3. MdData'
    BY <2>1, <1>u DEF MdData
  <2>4. QED
    BY <1>g, <2>2, <2>3
<1>7. CASE MdSendPutLow
  <2>1. /\ md.at = "sendPutLow" /\ md'.at = "sendHigh"
        /\ md'.dir = md.dir /\ md'.data = Low(md.byte) /\ md'.byte = md.byte
    BY <1>7, <1>t DEF MdSendPutLow, MdWrite, MdState
  <2>2. PcData'
    BY <2>1, <1>u DEF PcData
  <2>3. MdData'
    BY <2>1, <1>u DEF MdData
  <2>4. QED
    BY <1>g, <2>2, <2>3
<1>8. CASE MdSendHigh
  <2>1. /\ md.at = "sendHigh" /\ md'.at = "sendPutHigh"
        /\ md'.dir = md.dir /\ md'.data = md.data /\ md'.byte = md.byte
    BY <1>8, <1>t, MdGoFields DEF MdSendHigh, MdPoints
  <2>2. PcData'
    BY <2>1, <1>u DEF PcData
  <2>3. MdData'
    BY <2>1, <1>u DEF MdData
  <2>4. QED
    BY <1>g, <2>2, <2>3
<1>9. CASE MdSendPutHigh
  <2>1. /\ md.at = "sendPutHigh" /\ md'.at = "done"
        /\ md'.dir = md.dir /\ md'.data = High(md.byte) /\ md'.byte = md.byte
    BY <1>9, <1>t DEF MdSendPutHigh, MdWrite, MdState
  <2>2. md.dir = "data" /\ OpAt(mdI) = "up" /\ md.byte = Script[mdI].byte
    BY <2>1 DEF MdLocal, MdData
  <2>3. pc.at \in {"recvHigh", "recvHighIn"} => mdI = pcI
    BY <2>1 DEF Joint, RanOn, Ahead, LinkTypeOK
  <2>4. PcData'
    BY <2>1, <2>2, <2>3, <1>u DEF PcData
  <2>5. MdData'
    BY <2>1, <2>2, <1>u DEF MdData, OpAt, Down
  <2>6. QED
    BY <1>g, <2>4, <2>5
<1>10. CASE MdSwitchWait
  <2>1. /\ md.at = "swLow" /\ md'.at = "swDir"
        /\ md'.dir = md.dir /\ md'.data = md.data /\ md'.byte = md.byte
    BY <1>10, <1>t, MdGoFields DEF MdSwitchWait, MdPoints
  <2>2. PcData'
    BY <2>1, <1>u DEF PcData
  <2>3. MdData'
    BY <2>1, <1>u DEF MdData
  <2>4. QED
    BY <1>g, <2>2, <2>3
<1>11. CASE MdSwitchDir
  <2>1. /\ md.at = "swDir" /\ md'.at = "swTh" /\ md'.data = md.data /\ md'.dir = "data"
    BY <1>11, <1>t DEF MdSwitchDir, MdState
  <2>2. PcData'
    BY <2>1, <1>u DEF PcData
  <2>3. MdData'
    BY <2>1, <1>u DEF MdData
  <2>4. QED
    BY <1>g, <2>2, <2>3
<1>12. CASE MdSwitchTh
  <2>1. /\ md.at = "swTh" /\ md'.at = "done" /\ md'.dir = md.dir
    BY <1>12, <1>t, <1>b, MdWriteFields DEF MdSwitchTh, MdPoints
  <2>2. OpAt(mdI) = "turnUp"
    BY <2>1 DEF MdLocal
  <2>3. pc.at \notin {"recvHigh", "recvHighIn"}
    BY <2>1 DEF Joint, RanOn
  <2>4. PcData'
    BY <2>1, <2>3, <1>u DEF PcData
  <2>5. MdData'
    BY <2>1, <2>2, <1>u DEF MdData, OpAt, Down
  <2>6. QED
    BY <1>g, <2>4, <2>5
<1>13. CASE MdInput
  <2>1. /\ md.at = "input" /\ md'.at = "done"
    BY <1>13, <1>t DEF MdInput, MdState
  <2>2. OpAt(mdI) = "turnDown"
    BY <2>1 DEF MdLocal
  <2>3. pc.at \notin {"recvHigh", "recvHighIn"}
    BY <1>13 DEF MdInput, PcHasSampled
  <2>4. PcData'
    BY <2>1, <2>3, <1>u DEF PcData
  <2>5. MdData'
    BY <2>1, <2>2, <1>u DEF MdData, OpAt, Down
  <2>6. QED
    BY <1>g, <2>4, <2>5
<1>14. QED
  BY <1>1, <1>2, <1>3, <1>4, <1>5, <1>6, <1>7, <1>8, <1>9, <1>10, <1>11, <1>12, <1>13 DEF MdStep, MdPrimitive

\* Where a step that carries a byte ends, every byte before it has arrived:
\* the other program is not behind.
LEMMA InOrder ==
  ASSUME LinkInv
  PROVE  /\ pc.at = "done" /\ OpAt(pcI) = "up" => mdI >= pcI /\ pcI \in 1..Size
         /\ md.at = "done" /\ OpAt(mdI) \in Down => pcI >= mdI /\ mdI \in 1..Size
<1> USE DEF LinkInv
<1>1. /\ Size \in Nat \ {0} /\ pcI \in 0..Size + 1 /\ mdI \in 0..Size + 1
      /\ OpAt(0) = "end" /\ OpAt(Size + 1) = "end"
  BY OpFacts DEF LinkTypeOK
<1>2. ASSUME pc.at = "done", OpAt(pcI) = "up" PROVE mdI >= pcI /\ pcI \in 1..Size
  BY <1>1, <1>2 DEF Joint, RanOn, Ahead
<1>3. ASSUME md.at = "done", OpAt(mdI) \in Down PROVE pcI >= mdI /\ mdI \in 1..Size
  <2>1. mdI \in 1..Size
    BY <1>1, <1>3 DEF Down
  <2>2. pc.at = "done" => pcI = 0 \/ OpAt(pcI) \in Ops
    BY OpFacts DEF PcLocal, LinkTypeOK
  <2>3. pc.at \in PcPoints /\ pc.at \notin {"startHigh", "startAck"}
    BY DEF LinkTypeOK, PcState, PcLocal
  <2>4. CASE pc.at = "done"
    BY <1>1, <1>3, <2>1, <2>2, <2>4 DEF Joint, RanOn, Ahead, Ops, Down
  <2>5. CASE pc.at \in {"recvTlLow", "recvLow", "recvLowIn", "recvTlHigh", "recvHigh", "recvHighIn"}
    BY <1>1, <1>3, <2>1, <2>5 DEF Joint, RanOn, Ahead, Down
  <2>6. CASE pc.at \in {"sendLow", "sendTlLow", "sendHigh", "sendTlHigh", "toIn", "delay", "toOut", "finish", "off"}
    BY <1>1, <1>3, <2>1, <2>6 DEF Joint, RanOn, Ahead, Down
  <2>7. QED
    BY <2>1, <2>3, <2>4, <2>5, <2>6 DEF PcPoints
<1>4. QED
  BY <1>2, <1>3

\* The PC takes the byte that recv_byte returned, and calls the next primitive.
LEMMA PcNextData ==
  ASSUME LinkInv, DataInv, PcNext PROVE DataInv'
<1> USE DEF LinkInv, DataInv
<1>u. pc.at = "done" /\ pcI' = pcI + 1 /\ pc' = PcCall(pcI + 1) /\ UNCHANGED <<md, mdI>>
  BY DEF PcNext
<1>o. /\ Size \in Nat \ {0} /\ pcI \in 0..Size /\ mdI \in 0..Size + 1
      /\ OpAt(Size + 1) = "end"
  BY <1>u, OpFacts DEF LinkTypeOK, PcLocal
<1>c. /\ pc'.at \in {"sendLow", "recvTlLow", "toIn", "toOut", "finish"}
      /\ pc'.tl = pc.tl /\ pc'.out = pc.out /\ pc'.data = pc.data
      /\ pc'.at = "sendLow" => pc'.byte = Script[pcI + 1].byte
  BY <1>u DEF PcCall, PcSend, PcStart, LinkTypeOK, PcState
<1>1. PcData'
  BY <1>u, <1>c DEF PcData
<1>2. MdData'
  BY <1>u, <1>c DEF MdData
<1>3. GotData'
  <2> SUFFICES ASSUME NEW k \in 1..Size
               PROVE  got'[k] = IF k \in Data /\ k < (IF OpAt(k) = "up" THEN pcI + 1 ELSE mdI)
                                  THEN Script[k].byte ELSE None
    BY <1>u DEF GotData
  <2>1. got[k] = IF k \in Data /\ k < (IF OpAt(k) = "up" THEN pcI ELSE mdI)
                   THEN Script[k].byte ELSE None
    BY DEF GotData
  <2>2. CASE OpAt(pcI) # "up"
    <3>1. got' = got
      BY <2>2 DEF PcNext
    <3>2. OpAt(k) = "up" => (k < pcI + 1 <=> k < pcI)
      BY <2>2, <1>o
    <3>3. QED
      BY <2>1, <3>1, <3>2
  <2>3. CASE OpAt(pcI) = "up"
    <3>1. got' = [got EXCEPT ![pcI] = pc.byte] /\ pc.byte = Script[pcI].byte
      BY <2>3, <1>u DEF PcNext, PcData
    <3>2. CASE k = pcI
      <4>1. got'[k] = Script[k].byte
        BY <3>1, <3>2 DEF LinkTypeOK
      <4>2. k \in Data
        BY <3>2, <2>3 DEF Data, OpAt
      <4>3. QED
        BY <4>1, <4>2, <3>2, <2>3, <1>o
    <3>3. CASE k # pcI
      <4>1. got'[k] = got[k]
        BY <3>1, <3>3 DEF LinkTypeOK
      <4>2. k < pcI + 1 <=> k < pcI
        BY <3>3, <1>o
      <4>3. QED
        BY <2>1, <4>1, <4>2
    <3>4. QED
      BY <3>2, <3>3
  <2>4. QED
    BY <2>2, <2>3
<1>4. QED
  BY <1>1, <1>2, <1>3

\* The console takes the byte that recv_one_byte returned, and calls the next.
LEMMA MdNextData ==
  ASSUME LinkInv, DataInv, MdNext PROVE DataInv'
<1> USE DEF LinkInv, DataInv
<1>u. md.at = "done" /\ mdI' = mdI + 1 /\ md' = MdCall(mdI + 1) /\ UNCHANGED <<pc, pcI>>
  BY DEF MdNext
<1>o. /\ Size \in Nat \ {0} /\ mdI \in 0..Size /\ pcI \in 0..Size + 1
      /\ OpAt(Size + 1) = "end"
  BY <1>u, OpFacts DEF LinkTypeOK, MdLocal
<1>c. /\ md'.at \in {"recvClr", "sendLow", "swLow", "input", "return"}
      /\ md'.dir = md.dir /\ md'.data = md.data
      /\ md'.at = "sendLow" => md'.byte = Script[mdI + 1].byte
  BY <1>u DEF MdCall, MdRecv, MdSend, MdStart, LinkTypeOK, MdState
<1>1. PcData'
  BY <1>u, <1>c DEF PcData
<1>2. MdData'
  BY <1>u, <1>c DEF MdData
<1>3. GotData'
  <2> SUFFICES ASSUME NEW k \in 1..Size
               PROVE  got'[k] = IF k \in Data /\ k < (IF OpAt(k) = "up" THEN pcI ELSE mdI + 1)
                                  THEN Script[k].byte ELSE None
    BY <1>u DEF GotData
  <2>1. got[k] = IF k \in Data /\ k < (IF OpAt(k) = "up" THEN pcI ELSE mdI)
                   THEN Script[k].byte ELSE None
    BY DEF GotData
  <2>k. k \in Data => OpAt(k) = "up" \/ OpAt(k) \in Down
    BY DEF Data, OpAt, Down
  <2>2. CASE OpAt(mdI) \notin Down
    <3>1. got' = got
      BY <2>2 DEF MdNext, Down
    <3>2. k \in Data /\ OpAt(k) # "up" => (k < mdI + 1 <=> k < mdI)
      BY <2>2, <2>k, <1>o
    <3>3. QED
      BY <2>1, <3>1, <3>2
  <2>3. CASE OpAt(mdI) \in Down
    <3>1. got' = [got EXCEPT ![mdI] = md.byte] /\ md.byte = Script[mdI].byte
      BY <2>3, <1>u DEF MdNext, MdData, Down
    <3>2. CASE k = mdI
      <4>1. got'[k] = Script[k].byte
        BY <3>1, <3>2 DEF LinkTypeOK
      <4>2. k \in Data /\ OpAt(k) # "up"
        BY <3>2, <2>3 DEF Data, OpAt, Down
      <4>3. QED
        BY <4>1, <4>2, <3>2, <1>o
    <3>3. CASE k # mdI
      <4>1. got'[k] = got[k]
        BY <3>1, <3>3 DEF LinkTypeOK
      <4>2. k < mdI + 1 <=> k < mdI
        BY <3>3, <1>o
      <4>3. QED
        BY <2>1, <4>1, <4>2
    <3>4. QED
      BY <3>2, <3>3
  <2>4. QED
    BY <2>2, <2>3
<1>4. QED
  BY <1>1, <1>2, <1>3

\* The last steps of both programs come after the last nibble was sampled.
LEMMA EndData ==
  ASSUME PcPrompt = TRUE, MdPrompt = TRUE, LinkInv, DataInv, PcFinish \/ MdReturn PROVE DataInv'
<1> USE DEF LinkInv, DataInv
<1>1. CASE PcFinish
  <2>1. /\ pc.at = "finish" /\ pc'.at = "off" /\ md.at # "recvHigh"
        /\ UNCHANGED <<md, pcI, mdI, got>>
    BY <1>1 DEF PcFinish, OutB, MdHasSampled, LinkTypeOK, PcState
  <2>2. PcData' /\ MdData' /\ GotData'
    BY <2>1 DEF PcData, MdData, GotData
  <2>3. QED
    BY <2>2
<1>2. CASE MdReturn
  <2>1. /\ md.at = "return" /\ md'.at = "idle" /\ pc.at \notin {"recvHigh", "recvHighIn"}
        /\ UNCHANGED <<pc, pcI, mdI, got>>
    BY <1>2 DEF MdReturn, PcHasSampled, LinkTypeOK, MdState
  <2>2. PcData' /\ MdData' /\ GotData'
    BY <2>1 DEF PcData, MdData, GotData
  <2>3. QED
    BY <2>2
<1>3. QED
  BY <1>1, <1>2

\* With both machines in time the bytes stay right in every step.
LEMMA DataInvStep ==
  ASSUME PcPrompt = TRUE, MdPrompt = TRUE PROVE LinkInv /\ DataInv /\ [LinkNext]_vars => DataInv'
<1> SUFFICES ASSUME LinkInv, DataInv, [LinkNext]_vars PROVE DataInv'
  OBVIOUS
<1>1. CASE UNCHANGED vars
  BY <1>1 DEF vars, DataInv, PcData, MdData, GotData
<1>2. QED
  BY <1>1, PcStepData, MdStepData, PcNextData, MdNextData, EndData DEF LinkNext, Finished

(***************************************************************************)
(* For every script, with a PC and a console that keep up with each other: *)
(* each nibble on its way and each byte assembled is the script's.         *)
(***************************************************************************)
THEOREM LinkData ==
  ASSUME PcPrompt = TRUE, MdPrompt = TRUE PROVE LinkSpec => []DataInv
<1>1. QED
  BY InitInv, LinkInvStep, InitData, DataInvStep, PTL DEF LinkSpec

\* A nibble is sampled only while its sender drives the lines, also the last
\* one before a hand-over, which nobody acknowledges.
THEOREM LinkSamplesDriven ==
  ASSUME PcPrompt = TRUE, MdPrompt = TRUE PROVE LinkSpec => []SamplesDriven
<1>1. LinkInv /\ DataInv => SamplesDriven
  <2> SUFFICES ASSUME LinkInv, DataInv PROVE SamplesDriven
    OBVIOUS
  <2> USE DEF LinkInv, DataInv
  <2>1. pc.at = "recvLowIn" => md.dir = "data"
    BY DEF Joint, MdLocal
  <2>2. pc.at = "recvHighIn" => md.dir = "data"
    BY DEF Joint, RanOn, PcData
  <2>3. md.at = "recvLow" /\ pc.tl = 0 => pc.at = "sendHigh"
    BY DEF PcLocal, Joint
  <2>4. QED
    BY <2>1, <2>2, <2>3 DEF SamplesDriven, MdDrivesData, PcData, MdData
<1>2. QED
  BY <1>1, LinkInvariant, LinkData, PTL

\* A step of the two programs is a delivery of the channel, or none of its.
LEMMA StepDelivers ==
  LinkInv /\ DataInv /\ DataInv' /\ [LinkNext]_vars => [Channel!ChannelNext]_got
<1> SUFFICES ASSUME LinkInv, DataInv, DataInv', LinkNext, got' # got PROVE Channel!ChannelNext
  BY DEF vars
<1> USE DEF LinkInv, DataInv
<1>o. Size \in Nat /\ pcI \in 0..Size + 1 /\ mdI \in 0..Size + 1
  BY OpFacts DEF LinkTypeOK
<1>n. \A j \in Data : Script[j].byte # None
  BY OpFacts, NoneAssumption DEF Data
<1>1. CASE PcNext /\ OpAt(pcI) = "up"
  <2>1. pcI \in Data /\ pcI \in 1..Size /\ mdI >= pcI /\ pc.byte = Script[pcI].byte
    BY <1>1, InOrder DEF PcNext, PcData, Data, OpAt
  <2>2. got[pcI] = None
    BY <2>1, <1>1, <1>o DEF GotData
  <2>3. \A j \in Data : j < pcI => got[j] # None
    BY <2>1, <1>n, <1>o DEF GotData, Data
  <2>4. got' = [got EXCEPT ![pcI] = Sent[pcI]]
    BY <2>1, <1>1 DEF PcNext, Sent
  <2>5. Channel!Deliver(pcI)
    BY <2>2, <2>3, <2>4 DEF Channel!Deliver
  <2>6. QED
    BY <2>1, <2>5 DEF Channel!ChannelNext
<1>2. CASE MdNext /\ OpAt(mdI) \in Down
  <2>1. mdI \in Data /\ mdI \in 1..Size /\ pcI >= mdI /\ md.byte = Script[mdI].byte /\ OpAt(mdI) # "up"
    BY <1>2, InOrder DEF MdNext, MdData, Data, OpAt, Down
  <2>2. got[mdI] = None
    BY <2>1, <1>o DEF GotData
  <2>3. \A j \in Data : j < mdI => got[j] # None
    BY <2>1, <1>n, <1>o DEF GotData, Data
  <2>4. got' = [got EXCEPT ![mdI] = Sent[mdI]]
    BY <2>1, <1>2 DEF MdNext, Sent, Down
  <2>5. Channel!Deliver(mdI)
    BY <2>2, <2>3, <2>4 DEF Channel!Deliver
  <2>6. QED
    BY <2>1, <2>5 DEF Channel!ChannelNext
<1>3. QED
  BY <1>1, <1>2 DEF LinkNext, PcStep, MdStep, PcNext, MdNext, PcFinish, MdReturn, Finished, vars, Down

(***************************************************************************)
(* The cable is a channel: for every script each byte arrives once, intact *)
(* and in order, in both directions, as long as neither machine is so slow *)
(* that a nibble goes before it has been sampled.                          *)
(***************************************************************************)
THEOREM LinkDelivers ==
  ASSUME PcPrompt = TRUE, MdPrompt = TRUE PROVE LinkSpec => Delivery
<1>1. LinkInit => Channel!ChannelInit
  BY DEF LinkInit, Channel!ChannelInit
<1>2. QED
  BY <1>1, StepDelivers, InitInv, LinkInvStep, InitData, DataInvStep, PTL
  DEF LinkSpec, Delivery, Channel!ChannelSpec
=============================================================================
