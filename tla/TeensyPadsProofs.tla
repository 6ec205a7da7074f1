-------------------------- MODULE TeensyPadsProofs --------------------------
(***************************************************************************)
(* For any number of polls, reports, mode switches and milliseconds: what  *)
(* the firmware of teensytp puts on the lines is what the console's poll   *)
(* has asked for.                                                          *)
(***************************************************************************)
EXTENDS TeensyPads, TLAPS

-----------------------------------------------------------------------------
ModeNames == {"3btn", "6btn", "tp"}
Switching == {"clear", "pin", "vector", "mode"}

Polls == [game : {"btn", "tp"}, edges : Nat, rises : Nat, idle : 0..2, fresh : BOOLEAN,
          raced : BOOLEAN]

Outs == [slot : Nat, rep : Nat, tl : {0, 1}, by : ModeNames]

PadsShapes ==
  /\ th \in {0, 1} /\ tr \in {0, 1} /\ pend \subseteq {"th", "tr"}
  /\ out \in Outs
  /\ btn \in [Slots -> Nat] /\ tp \in [Nibbles -> Nat]
  /\ phase \in Nat /\ time \in Nat /\ clock \in Nat /\ tp_cnt \in Nat /\ pl1th \in {0, 1}
  /\ vec \in ModeNames /\ mode \in ModeNames /\ irq \in BOOLEAN
  /\ main \in [at : MainPoints, now : Nat, mode : ModeNames, who : SUBSET Players]
  /\ polled \in Polls
  /\ sent \in [reports : Nat, switches : Nat]

\* The vector and the mode differ only while the main loop switches, with
\* interrupts off until attachInterrupt turns them on for the Team Player; no
\* poll that is going on then is one the properties are about, except a sequence
\* that has begun with the new vector in place.
SwitchInv ==
  /\ main.at \notin Switching => irq = TRUE /\ vec = mode
  /\ main.at = "mode" => vec = main.mode
  /\ main.at \in {"vector", "mode"} => (irq = TRUE <=> main.mode = "tp")
  /\ main.at \in Switching /\ polled.fresh = TRUE => main.at = "mode" /\ polled.game = "tp"

-----------------------------------------------------------------------------
\* A Team Player sequence: TH's edge is not handled yet, or the lines show the
\* nibble that the edges of TR ask for, or TR's edge is not handled yet.
SequenceInv ==
  polled.game = "tp" /\ vec = "tp" /\ polled.fresh = TRUE /\ th = 0 =>
    \/ pend = {"th"} /\ polled.rises = 0
    \/ pend = {} /\ pl1th = 0 /\ tp_cnt = 1 + polled.rises /\ out.slot = tp_cnt % 16
    \/ pend = {"tr"} /\ pl1th = 0 /\ tp_cnt = polled.rises /\ out.tl # tr

\* A poll of a six button pad.  The phase never counts more rises of TH than
\* there were.  Unless an edge came in late it counts all of them, but for one
\* that is not handled yet, until the poll has been idle for two milliseconds;
\* "time" is then that of the last edge and not after the "now" of a pass that
\* has still to compare them, so that the phase is not reset before that.
Unraced ==
  /\ pend = {} /\ polled.rises < 4 => out.slot = 2 * polled.rises + th
  /\ polled.idle < 2 =>
       IF pend = {} THEN phase = polled.rises /\ clock - time = polled.idle
       ELSE phase + th = polled.rises /\ (phase # 0 => clock - time \in 0..1)
  /\ main.at = "reset" => polled.idle = 2
  /\ main.at = "age" => time <= main.now /\ (pend # {} => main.now = clock)
InPoll ==
  /\ pend = {} => out.slot % 2 = th /\ out.slot <= 2 * polled.rises + th
  /\ phase + (IF pend = {} THEN 0 ELSE th) <= polled.rises
  /\ pend # {} => polled.idle = 0
  /\ polled.raced = FALSE => Unraced
Polled == polled.game = "btn" /\ vec = "6btn" /\ polled.fresh = TRUE
PollInv ==
  /\ polled.game = "btn" => pend \subseteq {"th"}
  /\ time <= clock /\ (main.at = "age" => main.now <= clock)
  /\ main.at = "reset" => phase # 0
  /\ Polled => InPoll

\* The two answers of a three button pad are of one report, which is not older
\* than the one on the lines.
ForwardInv ==
  /\ btn[0] = btn[1] /\ btn[1] <= sent.reports /\ out.rep <= sent.reports
  /\ \A s \in Slots : btn[s] <= sent.reports
  /\ \A n \in Nibbles : tp[n] <= sent.reports
  /\ main.at \in {"pin", "vector", "mode"} => btn[1] = 0
  /\ vec = "3btn" /\ mode = "3btn" /\ main.at \notin Switching => btn[1] = 0 \/ out.rep <= btn[1]

-----------------------------------------------------------------------------
LEMMA Sets ==
  /\ Games \subseteq {"btn", "tp"} /\ Modes \subseteq ModeNames /\ Players \subseteq 0..3
BY PadsAssumption DEF ModeNames

LEMMA ShapesInit == PadsInit => PadsShapes
<1>1. SUFFICES ASSUME PadsInit PROVE PadsShapes
  OBVIOUS
<1>2. polled \in Polls
  <2>1. PICK g \in {"btn", "tp"} :
          polled = [game |-> g, edges |-> 0, rises |-> 0, idle |-> 2, fresh |-> FALSE, raced |-> FALSE]
    <3>1. polled \in [game : Games, edges : {0}, rises : {0}, idle : {2}, fresh : {FALSE}, raced : {FALSE}]
      BY <1>1 DEF PadsInit
    <3>. QED
      BY <3>1, Sets
  <2>. QED
    BY <2>1 DEF Polls
<1>3. main \in [at : MainPoints, now : Nat, mode : ModeNames, who : SUBSET Players]
  BY <1>1 DEF PadsInit, ModeNames, MainPoints
<1>4. sent \in [reports : Nat, switches : Nat] /\ out \in Outs
  BY <1>1 DEF PadsInit, Outs, ModeNames
<1>. QED
  BY <1>1, <1>2, <1>3, <1>4 DEF PadsInit, PadsShapes, ModeNames

\* The six button handler shows a slot of the table.
LEMMA SixSlot ==
  ASSUME NEW c \in Nat, NEW h \in {0, 1}
  PROVE  2 * (IF c < 4 THEN c ELSE 0) + h \in Slots
BY DEF Slots

LEMMA ShapesIsr == PadsShapes /\ Isr => PadsShapes'
<1>1. SUFFICES ASSUME PadsShapes, Isr PROVE PadsShapes'
  OBVIOUS
<1>2. /\ pend' = {} /\ UNCHANGED <<lines, btn, tp, mode, vec, irq, main, clock, sent>>
  BY <1>1 DEF Isr, Isr3btn, Isr6btn, IsrTp, IsrKeep
<1>3. /\ out' \in Outs
      /\ phase' \in Nat /\ time' \in Nat /\ tp_cnt' \in Nat /\ pl1th' \in {0, 1}
  <2>1. CASE Isr3btn
    <3>1. th \in Slots /\ btn[th] \in Nat
      BY <1>1 DEF PadsShapes, Slots
    <3>. QED
      BY <1>1, <2>1, <3>1 DEF Isr3btn, Show, TlOf, PadsShapes, Outs
  <2>2. CASE Isr6btn
    <3>1. PICK c \in Nat : c = phase + th
      BY <1>1 DEF PadsShapes
    <3>2. PICK s \in Slots : s = 2 * (IF c < 4 THEN c ELSE 0) + th
      BY <1>1, SixSlot DEF PadsShapes
    <3>3. \E tl \in TlOf(btn[s]) : Show(s, btn[s], tl)
      BY <2>2, <3>1, <3>2 DEF Isr6btn
    <3>4. s \in Nat /\ btn[s] \in Nat
      BY <1>1 DEF PadsShapes, Slots
    <3>5. out' \in Outs
      BY <1>1, <3>3, <3>4 DEF Show, TlOf, Outs, PadsShapes
    <3>6. phase' = c /\ time' = clock /\ tp_cnt' = tp_cnt /\ pl1th' = pl1th
      BY <2>2, <3>1 DEF Isr6btn
    <3>. QED
      BY <1>1, <3>5, <3>6 DEF PadsShapes
  <2>3. CASE IsrTp
    <3>1. PICK h \in {0, 1} : h = IF "th" \in pend THEN th ELSE pl1th
      BY <1>1 DEF PadsShapes
    <3>2. PICK c1 \in Nat : c1 = IF "th" \in pend THEN 1 - th ELSE tp_cnt
      <4>1. 1 - th \in Nat /\ tp_cnt \in Nat
        BY <1>1 DEF PadsShapes
      <4>. QED
        BY <4>1
    <3>3. PICK c \in Nat : c = IF "tr" \in pend /\ h = 0 THEN c1 + 1 ELSE c1
      BY <1>1
    <3>4. /\ pl1th' = h /\ tp_cnt' = c /\ phase' = phase /\ time' = time
          /\ Show(c % 16, tp[c % 16], tr) \/ out' = out
      BY <2>3, <3>1, <3>2, <3>3 DEF IsrTp
    <3>5. PICK m \in Nibbles : m = c % 16
      BY DEF Nibbles
    <3>6. m \in Nat /\ tp[m] \in Nat
      BY <1>1 DEF PadsShapes, Nibbles
    <3>. QED
      BY <1>1, <3>4, <3>5, <3>6 DEF PadsShapes, Show, Outs
  <2>. QED
    BY <1>1, <2>1, <2>2, <2>3 DEF Isr
<1>. QED
  BY <1>1, <1>2, <1>3 DEF PadsShapes, lines

LEMMA ShapesMain == PadsShapes /\ Main => PadsShapes'
<1>1. SUFFICES ASSUME PadsShapes, Main PROVE PadsShapes'
  OBVIOUS
<1> DEFINE Mains == [at : MainPoints, now : Nat, mode : ModeNames, who : SUBSET Players]
<1>2. /\ main \in Mains /\ clock \in Nat /\ main.mode \in ModeNames
  BY <1>1 DEF PadsShapes
<1>3. UNCHANGED <<out, time, clock, th, tr>> /\ pend' \subseteq pend /\ irq' \in BOOLEAN
  BY <1>1 DEF Main, MainKeep, MainNow, MainAge, MainReset, MainNoPacket, MainModePacket, MainBtnPacket,
              MainClear, MainPin, MainVector, MainMode, MainWord, MainFour, MainFive, MainSix, MainSeven,
              Fill, MainTp0, MainTp1, lines, state, PadsShapes
<1>4. /\ polled' = polled \/ polled' = [polled EXCEPT !.fresh = FALSE]
      /\ \/ sent' = sent \/ sent' = [sent EXCEPT !.switches = @ + 1]
         \/ sent' = [sent EXCEPT !.reports = @ + 1]
  BY <1>1 DEF Main, MainKeep, MainNow, MainAge, MainReset, MainNoPacket, MainModePacket, MainBtnPacket,
              MainClear, MainPin, MainVector, MainMode, MainWord, MainFour, MainFive, MainSix, MainSeven,
              Fill, MainTp0, MainTp1, lines
<1>5. /\ phase' \in {0, phase} /\ tp_cnt' \in {0, tp_cnt} /\ pl1th' \in {th, pl1th}
      /\ vec' \in {vec, main.mode} /\ mode' \in {mode, main.mode}
  BY <1>1 DEF Main, MainKeep, MainNow, MainAge, MainReset, MainNoPacket, MainModePacket, MainBtnPacket,
              MainClear, MainPin, MainVector, MainMode, MainWord, MainFour, MainFive, MainSix, MainSeven,
              Fill, MainTp0, MainTp1, state
<1>6. main' \in Mains
  <2>1. CASE MainNow
    BY <1>2, <2>1 DEF MainNow, MainPoints
  <2>2. CASE MainModePacket
    BY <1>2, <2>2, Sets DEF MainModePacket, MainPoints
  <2>3. CASE MainBtnPacket
    BY <1>2, <2>3 DEF MainBtnPacket, MainPoints
  <2>4. CASE MainTp0
    BY <1>2, <2>4 DEF MainTp0, MainPoints
  <2>5. CASE MainTp1
    BY <1>2, <2>5 DEF MainTp1, MainPoints
  <2>6. CASE \E p \in MainPoints : main' = [main EXCEPT !.at = p]
    BY <1>2, <2>6
  <2>7. \/ MainNow \/ MainModePacket \/ MainBtnPacket \/ MainTp0 \/ MainTp1
        \/ \E p \in MainPoints : main' = [main EXCEPT !.at = p]
    <3>1. /\ (IF Aged THEN "reset" ELSE "usb") \in MainPoints
          /\ {"usb", "top", "pin", "vector", "mode", "four", "five", "six", "seven"} \subseteq MainPoints
      BY DEF MainPoints
    <3>. QED
      BY <1>1, <3>1 DEF Main, MainAge, MainReset, MainNoPacket, MainClear, MainPin, MainVector, MainMode,
                        MainWord, MainFour, MainFive, MainSix, MainSeven, Fill, At
  <2>. QED
    BY <2>1, <2>2, <2>3, <2>4, <2>5, <2>6, <2>7
<1>7. btn' \in [Slots -> Nat] /\ tp' \in [Nibbles -> Nat]
  <2>1. sent.reports \in Nat /\ btn \in [Slots -> Nat] /\ tp \in [Nibbles -> Nat]
    BY <1>1 DEF PadsShapes
  <2>2. \/ btn' = btn \/ btn' = [s \in Slots |-> 0]
        \/ \E slots \in SUBSET Slots : btn' = [s \in Slots |-> IF s \in slots THEN sent.reports ELSE btn[s]]
    <3>1. {0..3, {4}, {5}, {6}, {7}} \subseteq SUBSET Slots
      BY DEF Slots
    <3>. QED
      BY <1>1, <3>1
         DEF Main, MainKeep, MainNow, MainAge, MainReset, MainNoPacket, MainModePacket, MainBtnPacket,
             MainClear, MainPin, MainVector, MainMode, MainWord, MainFour, MainFive, MainSix, MainSeven,
             Fill, MainTp0, MainTp1, state
  <2>3. \/ tp' = tp \/ tp' = [s \in Nibbles |-> 0]
        \/ \E n : tp' = [tp EXCEPT ![n] = sent.reports]
    BY <1>1 DEF Main, MainKeep, MainNow, MainAge, MainReset, MainNoPacket, MainModePacket, MainBtnPacket,
                MainClear, MainPin, MainVector, MainMode, MainWord, MainFour, MainFive, MainSix, MainSeven,
                Fill, MainTp0, MainTp1, state
  <2>. QED
    BY <2>1, <2>2, <2>3
<1>8. PadsShapes'
  <2>1. sent' \in [reports : Nat, switches : Nat]
    BY <1>1, <1>4 DEF PadsShapes
  <2>2. polled' \in Polls
    <3>1. PICK x \in Polls : polled = x
      BY <1>1 DEF PadsShapes
    <3>2. [x EXCEPT !.fresh = FALSE] \in Polls
      BY DEF Polls
    <3>. QED
      BY <1>4, <3>1, <3>2
  <2>. QED
    BY <1>1, <1>3, <1>5, <1>6, <1>7, <2>1, <2>2 DEF PadsShapes
<1>. QED
  BY <1>8

\* The fields of a poll after an edge, or a millisecond.
LEMMA PollFields ==
  ASSUME NEW x \in Polls, NEW e \in Nat, NEW r \in Nat, NEW i \in 0..2, NEW f \in BOOLEAN, NEW z \in BOOLEAN
  PROVE  /\ [x EXCEPT !.edges = e, !.rises = r, !.idle = i, !.raced = z, !.fresh = f] \in Polls
         /\ [x EXCEPT !.edges = e, !.rises = r, !.idle = i, !.raced = z] \in Polls
         /\ [x EXCEPT !.edges = e, !.rises = r, !.fresh = f] \in Polls
         /\ [x EXCEPT !.rises = r] \in Polls
         /\ [x EXCEPT !.idle = i] \in Polls
BY DEF Polls

LEMMA ShapesConsole == PadsShapes /\ (Console \/ Tick) => PadsShapes'
<1>1. SUFFICES ASSUME PadsShapes, Console \/ Tick PROVE PadsShapes'
  OBVIOUS
<1>2. PICK x \in Polls : polled = x
  BY <1>1 DEF PadsShapes
<1>3. x.edges + 1 \in Nat /\ x.rises \in Nat /\ x.rises + 1 \in Nat /\ x.rises + 1 - th \in Nat
      /\ x.idle \in 0..2 /\ (IF x.idle < 2 THEN x.idle + 1 ELSE 2) \in 0..2
      /\ 0 \in Nat /\ 0 \in 0..2 /\ TRUE \in BOOLEAN
  BY <1>1 DEF Polls, PadsShapes
<1>4. polled' \in Polls
  <2>1. CASE BeginPoll
    <3>1. PICK f, z \in BOOLEAN :
            polled' = [x EXCEPT !.edges = x.edges + 1, !.rises = 0, !.idle = 0, !.raced = z, !.fresh = f]
      BY <1>2, <2>1 DEF BeginPoll, Late
    <3>. QED
      BY <1>3, <3>1, PollFields, Zenon
  <2>2. CASE MoveTh
    <3>1. PICK z \in BOOLEAN :
            polled' = [x EXCEPT !.edges = x.edges + 1, !.rises = x.rises + 1 - th, !.idle = 0, !.raced = z]
      BY <1>2, <2>2 DEF MoveTh, Late, Polls
    <3>. QED
      BY <1>3, <3>1, PollFields, Zenon
  <2>3. CASE TpBegin
    <3>1. PICK f \in BOOLEAN : polled' = [x EXCEPT !.edges = x.edges + 1, !.rises = 0, !.fresh = f]
      BY <1>2, <2>3 DEF TpBegin
    <3>. QED
      BY <1>3, <3>1, PollFields
  <2>4. CASE TpMoveTr
    <3>1. polled' = [x EXCEPT !.rises = x.rises + 1]
      BY <1>2, <2>4 DEF TpMoveTr
    <3>. QED
      BY <1>3, <3>1, PollFields
  <2>5. CASE TpEnd
    <3>1. polled' = [x EXCEPT !.rises = 0]
      BY <1>2, <2>5 DEF TpEnd
    <3>. QED
      BY <1>3, <3>1, PollFields
  <2>6. CASE Tick
    <3>1. polled' = [x EXCEPT !.idle = IF x.idle < 2 THEN x.idle + 1 ELSE 2]
      BY <1>2, <2>6 DEF Tick
    <3>. QED
      BY <1>3, <3>1, PollFields
  <2>. QED
    BY <1>1, <2>1, <2>2, <2>3, <2>4, <2>5, <2>6 DEF Console
<1>5. th' \in {0, 1} /\ tr' \in {0, 1} /\ pend' \subseteq {"th", "tr"} /\ clock' \in Nat
  BY <1>1 DEF Console, BeginPoll, MoveTh, TpBegin, TpMoveTr, TpEnd, TrEdge, Tick, ConsoleKeep, PadsShapes
<1>6. UNCHANGED <<out, state, vec, irq, main, sent>>
  BY <1>1 DEF Console, BeginPoll, MoveTh, TpBegin, TpMoveTr, TpEnd, Tick, ConsoleKeep
<1>. QED
  BY <1>1, <1>4, <1>5, <1>6 DEF PadsShapes, state

LEMMA ShapesNext == PadsShapes /\ [PadsNext]_vars => PadsShapes'
<1>1. PadsShapes /\ UNCHANGED vars => PadsShapes'
  BY DEF PadsShapes, vars, lines, state
<1>. QED
  BY <1>1, ShapesIsr, ShapesMain, ShapesConsole DEF PadsNext

-----------------------------------------------------------------------------
LEMMA SwitchInit == PadsInit => SwitchInv
BY DEF PadsInit, SwitchInv, Switching

\* What the pin interrupts, the console and time leave alone.
LEMMA SwitchOthers == PadsShapes /\ SwitchInv /\ (Isr \/ Console \/ Tick) => SwitchInv'
<1>1. SUFFICES ASSUME PadsShapes, SwitchInv, Isr \/ Console \/ Tick PROVE SwitchInv'
  OBVIOUS
<1>2. UNCHANGED <<vec, mode, irq, main>>
  BY <1>1 DEF Isr, Isr3btn, Isr6btn, IsrTp, IsrKeep, Console, BeginPoll, MoveTh, TpBegin, TpMoveTr, TpEnd,
              ConsoleKeep, Tick, state
<1>3. main.at \in Switching /\ polled'.fresh = TRUE => main.at = "mode" /\ polled'.game = "tp"
  <2>1. CASE Isr
    BY <1>1, <2>1 DEF Isr, Isr3btn, Isr6btn, IsrTp, IsrKeep, lines, SwitchInv
  <2>2. CASE BeginPoll
    BY <1>1, <2>2 DEF BeginPoll, Switching, PadsShapes, Polls
  <2>3. CASE TpBegin
    BY <1>1, <2>3 DEF TpBegin, Switching, PadsShapes, Polls
  <2>4. CASE MoveTh \/ TpMoveTr \/ TpEnd \/ Tick
    <3>1. polled'.fresh = polled.fresh /\ polled'.game = polled.game
      BY <1>1, <2>4 DEF MoveTh, TpMoveTr, TpEnd, Tick, PadsShapes, Polls
    <3>. QED
      BY <1>1, <3>1 DEF SwitchInv
  <2>. QED
    BY <1>1, <2>1, <2>2, <2>3, <2>4 DEF Console
<1>. QED
  BY <1>1, <1>2, <1>3 DEF SwitchInv

LEMMA SwitchMain == PadsShapes /\ SwitchInv /\ Main => SwitchInv'
<1>1. SUFFICES ASSUME PadsShapes, SwitchInv, Main PROVE SwitchInv'
  OBVIOUS
<1>2. main \in [at : MainPoints, now : Nat, mode : ModeNames, who : SUBSET Players]
      /\ polled \in Polls /\ vec \in ModeNames
  BY <1>1 DEF PadsShapes
<1>3. CASE MainModePacket
  BY <1>1, <1>2, <1>3 DEF MainModePacket, SwitchInv, Switching, Polls
<1>4. CASE MainClear
  BY <1>1, <1>2, <1>4 DEF MainClear, At, MainKeep, lines, SwitchInv, Switching
<1>5. CASE MainPin
  BY <1>1, <1>2, <1>5 DEF MainPin, At, MainKeep, lines, SwitchInv, Switching
<1>6. CASE MainVector
  BY <1>1, <1>2, <1>6 DEF MainVector, At, MainKeep, lines, SwitchInv, Switching
<1>7. CASE MainMode
  BY <1>1, <1>2, <1>7 DEF MainMode, At, MainKeep, lines, SwitchInv, Switching
<1>8. CASE ~(MainModePacket \/ MainClear \/ MainPin \/ MainVector \/ MainMode)
  <2>1. main.at \notin Switching /\ UNCHANGED <<vec, mode, irq, polled>>
    BY <1>1, <1>8
       DEF Main, MainKeep, MainNow, MainAge, MainReset, MainNoPacket, MainBtnPacket, MainWord, MainFour,
           MainFive, MainSix, MainSeven, Fill, At, MainTp0, MainTp1, lines, state, Switching
  <2>2. main'.at \notin Switching
    BY <1>1, <1>2, <1>8
       DEF Main, MainNow, MainAge, MainReset, MainNoPacket, MainBtnPacket, MainWord, MainFour,
           MainFive, MainSix, MainSeven, Fill, At, MainTp0, MainTp1, Switching
  <2>. QED
    BY <1>1, <2>1, <2>2 DEF SwitchInv, Switching
<1>. QED
  BY <1>3, <1>4, <1>5, <1>6, <1>7, <1>8

LEMMA SwitchNext == PadsShapes /\ SwitchInv /\ [PadsNext]_vars => SwitchInv'
<1>1. SwitchInv /\ UNCHANGED vars => SwitchInv'
  BY DEF SwitchInv, vars, lines, state
<1>. QED
  BY <1>1, SwitchOthers, SwitchMain DEF PadsNext

-----------------------------------------------------------------------------
(* Team Player.                                                            *)

LEMMA SequenceIsr == PadsShapes /\ SequenceInv /\ Isr => SequenceInv'
<1>1. SUFFICES ASSUME PadsShapes, SequenceInv, Isr,
                      polled.game = "tp", vec = "tp", polled.fresh = TRUE, th = 0
               PROVE  SequenceInv'
  BY DEF Isr, Isr3btn, Isr6btn, IsrTp, IsrKeep, lines, SequenceInv
<1>2. IsrTp /\ pend # {} /\ pend' = {} /\ UNCHANGED <<th, tr, polled, vec>>
  BY <1>1 DEF Isr, Isr3btn, Isr6btn, IsrTp, IsrKeep, lines
<1>3. tp_cnt \in Nat /\ polled.rises \in Nat
  BY <1>1 DEF PadsShapes, Polls
<1>4. \/ pend = {"th"} /\ polled.rises = 0
      \/ pend = {"tr"} /\ pl1th = 0 /\ tp_cnt = polled.rises
  BY <1>1, <1>2 DEF SequenceInv
<1>5. pl1th' = 0 /\ tp_cnt' = 1 + polled.rises /\ out'.slot = (1 + polled.rises) % 16
  <2>1. CASE pend = {"th"} /\ polled.rises = 0
    BY <1>1, <1>2, <2>1 DEF IsrTp, Show
  <2>2. CASE pend = {"tr"} /\ pl1th = 0 /\ tp_cnt = polled.rises
    <3>1. PICK c \in Nat : c = 1 + polled.rises
      BY <1>3
    <3>2. tp_cnt' = c /\ pl1th' = 0 /\ Show(c % 16, tp[c % 16], tr)
      BY <1>2, <1>3, <2>2, <3>1 DEF IsrTp
    <3>. QED
      BY <3>1, <3>2 DEF Show
  <2>. QED
    BY <1>4, <2>1, <2>2
<1>. QED
  BY <1>2, <1>5 DEF SequenceInv

LEMMA SequenceMain == PadsShapes /\ SwitchInv /\ SequenceInv /\ Main => SequenceInv'
<1>1. SUFFICES ASSUME PadsShapes, SwitchInv, SequenceInv, Main PROVE SequenceInv'
  OBVIOUS
<1>2. CASE main.at \in {"clear", "pin", "vector"} \/ MainModePacket
  <2>1. polled'.fresh = FALSE
    BY <1>1, <1>2
       DEF SwitchInv, Main, MainKeep, MainNow, MainAge, MainReset, MainNoPacket, MainModePacket, MainBtnPacket,
           MainClear, MainPin, MainVector, MainMode, MainWord, MainFour, MainFive, MainSix, MainSeven,
           Fill, At, MainTp0, MainTp1, lines, Switching, PadsShapes, Polls
  <2>. QED
    BY <2>1 DEF SequenceInv
<1>3. CASE main.at \notin {"clear", "pin", "vector"} /\ ~MainModePacket
  <2>1. UNCHANGED <<polled, vec, th, tr, pend, pl1th, tp_cnt, out>>
    BY <1>1, <1>3
       DEF Main, MainKeep, MainNow, MainAge, MainReset, MainNoPacket, MainBtnPacket,
           MainClear, MainPin, MainVector, MainMode, MainWord, MainFour, MainFive, MainSix, MainSeven,
           Fill, At, MainTp0, MainTp1, lines, state, Switching
  <2>. QED
    BY <1>1, <2>1 DEF SequenceInv
<1>. QED
  BY <1>2, <1>3

LEMMA SequenceConsole == PadsShapes /\ SwitchInv /\ SequenceInv /\ (Console \/ Tick) => SequenceInv'
<1>1. SUFFICES ASSUME PadsShapes, SwitchInv, SequenceInv, Console \/ Tick PROVE SequenceInv'
  OBVIOUS
<1>2. /\ UNCHANGED <<out, vec, tp_cnt, pl1th>> /\ polled \in Polls
  BY <1>1 DEF Console, BeginPoll, MoveTh, TpBegin, TpMoveTr, TpEnd, Tick, ConsoleKeep, state, PadsShapes
<1>3. CASE BeginPoll \/ MoveTh \/ Tick
  <2>1. polled'.game = "btn"
    BY <1>2, <1>3 DEF BeginPoll, MoveTh, Tick, Polls
  <2>. QED
    BY <2>1 DEF SequenceInv
<1>4. CASE TpEnd
  BY <1>4 DEF TpEnd, SequenceInv
<1>5. CASE TpBegin
  <2>1. /\ polled'.rises = 0 /\ (polled'.fresh = TRUE => main.at \notin {"clear", "pin", "vector"})
        /\ pend' = pend \cup {"th"}
    BY <1>2, <1>5 DEF TpBegin, Polls
  <2>2. vec = "tp" /\ main.at \notin {"clear", "pin", "vector"} => pend = {}
    BY <1>1, <1>5 DEF TpBegin, IsrDone, SwitchInv, Switching
  <2>. QED
    BY <1>2, <2>1, <2>2 DEF SequenceInv
<1>6. CASE TpMoveTr
  <2>1. SUFFICES ASSUME polled'.fresh = TRUE, vec' = "tp" PROVE SequenceInv'
    BY DEF SequenceInv
  <2>2. polled.fresh = TRUE /\ polled.game = "tp" /\ vec = "tp" /\ th = 0 /\ out.tl = tr
    BY <1>2, <1>6, <2>1 DEF TpMoveTr, Polls
  <2>3. pend = {} /\ TrIsOn
    BY <1>1, <1>6, <2>2 DEF TpMoveTr, IsrDone, SwitchInv, Switching, TrIsOn
  <2>4. pend' = {"tr"} /\ tr' # tr /\ out'.tl # tr'
    BY <1>1, <1>2, <1>6, <2>2, <2>3 DEF TpMoveTr, TrEdge, PadsShapes
  <2>5. polled'.rises = polled.rises + 1 /\ polled.rises \in Nat
    BY <1>2, <1>6 DEF TpMoveTr, Polls
  <2>6. pl1th = 0 /\ tp_cnt = 1 + polled.rises
    BY <1>1, <2>2, <2>3 DEF SequenceInv
  <2>. QED
    BY <1>2, <2>4, <2>5, <2>6 DEF SequenceInv
<1>. QED
  BY <1>1, <1>3, <1>4, <1>5, <1>6 DEF Console

-----------------------------------------------------------------------------
(* The six button pad.                                                     *)

LEMMA PollIsr == PadsShapes /\ PollInv /\ Isr => PollInv'
<1>1. SUFFICES ASSUME PadsShapes, PollInv, Isr PROVE PollInv'
  OBVIOUS
<1>2. pend # {} /\ pend' = {} /\ UNCHANGED <<polled, main, clock, vec, th>>
  BY <1>1 DEF Isr, Isr3btn, Isr6btn, IsrTp, IsrKeep, lines
<1>3. /\ polled.idle \in 0..2 /\ polled.rises \in Nat /\ phase \in Nat /\ th \in {0, 1}
      /\ clock \in Nat /\ time \in Nat
  BY <1>1 DEF PadsShapes, Polls
<1>4. phase' \in {phase, phase + th} /\ time' \in {time, clock}
  BY <1>1 DEF Isr, Isr3btn, Isr6btn, IsrTp
<1>5. Polled => InPoll'
  <2>1. SUFFICES ASSUME Polled PROVE InPoll'
    OBVIOUS
  <2>2. Isr6btn /\ InPoll
    BY <1>1, <2>1 DEF Isr, Isr3btn, Isr6btn, IsrTp, Polled, PollInv
  <2>3. /\ polled.idle = 0 /\ phase + th <= polled.rises
        /\ phase' = phase + th /\ time' = clock
    BY <1>2, <2>2 DEF InPoll, Unraced, Isr6btn
  <2>4. PICK c \in Nat : c = phase + th
    BY <1>3
  <2>5. out'.slot = 2 * (IF c < 4 THEN c ELSE 0) + th
    BY <2>2, <2>4 DEF Isr6btn, Show
  <2>6. out'.slot % 2 = th /\ out'.slot <= 2 * polled.rises + th
    <3>1. PICK k \in Nat : k = IF c < 4 THEN c ELSE 0
      OBVIOUS
    <3>2. k <= polled.rises
      BY <1>3, <2>3, <2>4, <3>1
    <3>. QED
      BY <1>3, <2>5, <3>1, <3>2
  <2>7. polled.raced = FALSE => Unraced'
    <3>1. SUFFICES ASSUME polled.raced = FALSE PROVE Unraced'
      OBVIOUS
    <3>2. c = polled.rises /\ (main.at = "reset" => polled.idle = 2) /\ (main.at = "age" => main.now = clock)
      BY <1>2, <2>2, <2>3, <2>4, <3>1 DEF InPoll, Unraced
    <3>. QED
      BY <1>2, <1>3, <2>3, <2>4, <2>5, <3>2 DEF Unraced
  <2>. QED
    BY <1>2, <1>3, <2>3, <2>6, <2>7 DEF InPoll, Unraced
<1>. QED
  BY <1>1, <1>2, <1>3, <1>4, <1>5 DEF PollInv, Polled

\* While a button poll that the property is about goes on, interrupts are on.
LEMMA PolledOn == SwitchInv /\ IsrDone /\ Polled => main.at \notin Switching /\ pend = {}
BY DEF SwitchInv, IsrDone, Polled, Switching

LEMMA PollConsole == PadsShapes /\ SwitchInv /\ PollInv /\ (Console \/ Tick) => PollInv'
<1>. SUFFICES ASSUME PadsShapes, SwitchInv, PollInv, Console \/ Tick PROVE PollInv'
  OBVIOUS
<1>1. /\ UNCHANGED <<out, vec, phase, time, main>> /\ polled \in Polls
      /\ phase \in Nat /\ time \in Nat /\ clock \in Nat /\ th \in {0, 1} /\ main.now \in Nat
      /\ out.slot \in Nat
  BY DEF Console, BeginPoll, MoveTh, TpBegin, TpMoveTr, TpEnd, Tick, ConsoleKeep, state, PadsShapes, Outs
<1>2. polled.rises \in Nat /\ polled.idle \in 0..2 /\ polled.raced \in BOOLEAN /\ polled.fresh \in BOOLEAN
  BY <1>1 DEF Polls
<1>3. CASE TpBegin \/ TpMoveTr \/ TpEnd
  <2>1. polled'.game = "tp" /\ clock' = clock
    BY <1>1, <1>3 DEF TpBegin, TpMoveTr, TpEnd, ConsoleKeep, Polls
  <2>. QED
    BY <1>1, <2>1 DEF PollInv, Polled
<1>4. CASE BeginPoll
  <2>1. /\ pend' = pend \cup {"th"} /\ phase = 0 /\ th' = 0 /\ clock' = clock /\ polled.game = "btn"
        /\ IsrDone
    BY <1>4 DEF BeginPoll, IdlePad, ConsoleKeep
  <2>2. /\ polled'.rises = 0 /\ polled'.idle = 0
        /\ polled'.raced = FALSE => main.at # "age" \/ main.now = clock
    BY <1>1, <1>4 DEF BeginPoll, Polls, Late
  <2>3. main.at # "reset" /\ pend' = {"th"} /\ time <= clock
    BY <2>1 DEF PollInv
  <2>4. InPoll'
    BY <1>1, <2>1, <2>2, <2>3 DEF InPoll, Unraced
  <2>. QED
    BY <1>1, <2>1, <2>3, <2>4 DEF PollInv
<1>5. CASE MoveTh
  <2>1. /\ pend' = pend \cup {"th"} /\ th' = 1 - th /\ clock' = clock /\ polled.idle <= 1
        /\ polled.game = "btn" /\ IsrDone
    BY <1>5 DEF MoveTh, ConsoleKeep
  <2>2. /\ polled'.rises = polled.rises + 1 - th /\ polled'.idle = 0 /\ polled'.fresh = polled.fresh
        /\ polled'.game = "btn"
        /\ polled'.raced = FALSE => polled.raced = FALSE /\ (main.at # "age" \/ main.now = clock)
    BY <1>1, <1>2, <1>5 DEF MoveTh, Polls, Late
  <2>3. Polled' => InPoll'
    <3>1. SUFFICES ASSUME Polled PROVE InPoll'
      BY <1>1, <2>1, <2>2 DEF Polled
    <3>2. pend = {} /\ InPoll
      BY <2>1, <3>1, PolledOn DEF PollInv
    <3>3. phase + th' <= polled'.rises
      BY <1>1, <1>2, <2>1, <2>2, <3>2 DEF InPoll, Unraced
    <3>4. polled'.raced = FALSE =>
            /\ phase + th' = polled'.rises /\ clock - time \in 0..1 /\ main.at # "reset"
            /\ main.at = "age" => time <= main.now /\ main.now = clock
      BY <1>1, <1>2, <2>1, <2>2, <3>2 DEF InPoll, Unraced
    <3>. QED
      BY <1>1, <2>1, <2>2, <3>2, <3>3, <3>4 DEF InPoll, Unraced
  <2>. QED
    BY <1>1, <2>1, <2>3 DEF PollInv
<1>6. CASE Tick
  <2>1. clock' = clock + 1 /\ IsrDone /\ UNCHANGED <<pend, th>>
    BY <1>6 DEF Tick
  <2>2. /\ polled'.rises = polled.rises /\ polled'.fresh = polled.fresh /\ polled'.game = polled.game
        /\ polled'.raced = polled.raced
        /\ polled'.idle = IF polled.idle < 2 THEN polled.idle + 1 ELSE 2
    BY <1>1, <1>6 DEF Tick, Polls
  <2>3. Polled' => InPoll'
    <3>1. SUFFICES ASSUME Polled PROVE InPoll'
      BY <1>1, <2>1, <2>2 DEF Polled
    <3>2. pend = {} /\ InPoll
      BY <2>1, <3>1, PolledOn DEF PollInv
    <3>. QED
      BY <1>1, <1>2, <2>1, <2>2, <3>2 DEF InPoll, Unraced
  <2>4. time <= clock' /\ (main.at = "age" => main.now <= clock')
    BY <1>1, <2>1 DEF PollInv
  <2>. QED
    BY <1>1, <2>1, <2>2, <2>3, <2>4 DEF PollInv
<1>. QED
  BY <1>3, <1>4, <1>5, <1>6 DEF Console

LEMMA PollMain == PadsShapes /\ SwitchInv /\ PollInv /\ Main => PollInv'
<1>. SUFFICES ASSUME PadsShapes, SwitchInv, PollInv, Main PROVE PollInv'
  OBVIOUS
<1>1. /\ UNCHANGED <<out, time, clock, th>> /\ pend' \subseteq pend
      /\ polled \in Polls /\ main \in [at : MainPoints, now : Nat, mode : ModeNames, who : SUBSET Players]
      /\ phase \in Nat /\ time \in Nat /\ clock \in Nat /\ time <= clock
  BY DEF Main, MainKeep, MainNow, MainAge, MainReset, MainNoPacket, MainModePacket, MainBtnPacket,
         MainClear, MainPin, MainVector, MainMode, MainWord, MainFour, MainFive, MainSix, MainSeven,
         Fill, MainTp0, MainTp1, lines, state, PadsShapes, PollInv
<1>2. CASE main.at \in Switching \/ MainModePacket
  <2>1. /\ polled'.game = polled.game /\ (polled.game = "btn" => polled'.fresh = FALSE)
        /\ main'.at \notin {"age", "reset"}
    BY <1>1, <1>2
       DEF SwitchInv, Main, MainKeep, MainNow, MainAge, MainReset, MainNoPacket, MainModePacket, MainBtnPacket,
           MainClear, MainPin, MainVector, MainMode, MainWord, MainFour, MainFive, MainSix, MainSeven,
           Fill, At, MainTp0, MainTp1, lines, Switching, Polls
  <2>. QED
    BY <1>1, <2>1 DEF PollInv, Polled
<1>3. CASE main.at \notin Switching /\ ~MainModePacket
  <2>1. UNCHANGED <<polled, vec, pend>>
    BY <1>3
       DEF Main, MainKeep, MainNow, MainAge, MainReset, MainNoPacket, MainBtnPacket,
           MainClear, MainPin, MainVector, MainMode, MainWord, MainFour, MainFive, MainSix, MainSeven,
           Fill, At, MainTp0, MainTp1, lines, state, Switching
  <2>2. CASE MainNow
    <3>1. main'.at = "age" /\ main'.now = clock /\ phase' = phase
      BY <1>1, <2>2 DEF MainNow, state
    <3>2. Polled => InPoll'
      BY <1>1, <2>1, <3>1 DEF InPoll, Unraced, PollInv
    <3>. QED
      BY <1>1, <2>1, <3>1, <3>2 DEF PollInv, Polled
  <2>3. CASE MainAge
    <3>1. main.at = "age" /\ phase' = phase /\ main'.at = IF Aged THEN "reset" ELSE "usb"
      BY <1>1, <2>3 DEF MainAge, At, state
    <3>2. Polled /\ polled.raced = FALSE /\ Aged => polled.idle = 2
      <4>1. polled.idle \in 0..2
        BY <1>1 DEF Polls
      <4>2. ASSUME Polled, polled.raced = FALSE, Aged, polled.idle < 2 PROVE FALSE
        <5>1. InPoll /\ main.now <= clock /\ main.now \in Nat
          BY <1>1, <3>1, <4>2 DEF PollInv
        <5>2. phase # 0 /\ main.now - time \notin 0..1
          BY <4>2 DEF Aged
        <5>3. clock - time \in 0..1 /\ time <= main.now
          BY <1>1, <3>1, <4>1, <4>2, <5>1, <5>2 DEF InPoll, Unraced
        <5>. QED
          BY <1>1, <5>1, <5>2, <5>3
      <4>3. polled.idle < 2 \/ polled.idle = 2
        BY <4>1
      <4>. QED
        BY <4>2, <4>3
    <3>3. Polled => InPoll'
      BY <1>1, <2>1, <3>1, <3>2 DEF InPoll, Unraced, PollInv
    <3>4. main'.at = "reset" => phase' # 0
      BY <3>1 DEF Aged
    <3>5. main'.at # "age"
      BY <3>1
    <3>. QED
      BY <1>1, <2>1, <3>3, <3>4, <3>5 DEF PollInv, Polled
  <2>4. CASE MainReset
    <3>1. main.at = "reset" /\ main'.at = "usb" /\ phase' = 0
      BY <1>1, <2>4 DEF MainReset, At
    <3>2. Polled => InPoll'
      <4>1. SUFFICES ASSUME Polled PROVE InPoll'
        OBVIOUS
      <4>2. InPoll /\ polled.rises \in Nat /\ th \in {0, 1} /\ phase # 0
        BY <1>1, <3>1, <4>1 DEF PollInv, Polls, PadsShapes
      <4>. QED
        BY <1>1, <2>1, <3>1, <4>2 DEF InPoll, Unraced
    <3>. QED
      BY <1>1, <2>1, <3>1, <3>2 DEF PollInv, Polled
  <2>5. CASE ~(MainNow \/ MainAge \/ MainReset)
    <3>1. phase' = phase /\ main'.at \notin {"age", "reset"}
      BY <1>1, <1>3, <2>5
         DEF Main, MainKeep, MainNoPacket, MainBtnPacket,
             MainClear, MainPin, MainVector, MainMode, MainWord, MainFour, MainFive, MainSix, MainSeven,
             Fill, At, MainTp0, MainTp1, state, Switching
    <3>2. Polled => InPoll'
      BY <1>1, <2>1, <3>1 DEF InPoll, Unraced, PollInv
    <3>. QED
      BY <1>1, <2>1, <3>1, <3>2 DEF PollInv, Polled
  <2>. QED
    BY <2>2, <2>3, <2>4, <2>5
<1>. QED
  BY <1>2, <1>3

(***************************************************************************)
(* In every poll of a six button pad that began after the last mode switch *)
(* the answers come in the order of the table, and however main's reset of *)
(* the phase falls into the poll, also when it is due to an edge between   *)
(* the reading of millis() and the comparison, the answer is of the right  *)
(* half and of no later phase.                                             *)
(***************************************************************************)
THEOREM PadsSixButtonRead == PadsSpec => []SixButtonRead
<1> DEFINE Inv == PadsShapes /\ SwitchInv /\ PollInv
<1>1. PadsInit => Inv
  <2>1. PadsInit => PollInv
    BY DEF PadsInit, PollInv, Polled
  <2>. QED
    BY <2>1, ShapesInit, SwitchInit
<1>2. Inv /\ [PadsNext]_vars => Inv'
  <2>1. PollInv /\ UNCHANGED vars => PollInv'
    BY DEF PollInv, Polled, InPoll, Unraced, vars, lines, state
  <2>. QED
    BY <2>1, ShapesNext, SwitchNext, PollIsr, PollMain, PollConsole DEF PadsNext
<1>3. Inv => SixButtonRead
  <2>1. Inv => (polled.fresh => polled.fresh = TRUE) /\ (~polled.raced => polled.raced = FALSE)
    BY DEF PadsShapes, Polls
  <2>. QED
    BY <2>1 DEF PollInv, Polled, InPoll, Unraced, SixButtonRead
<1>. QED
  BY <1>1, <1>2, <1>3, PTL DEF PadsSpec

-----------------------------------------------------------------------------
(* The three button pad.                                                   *)

LEMMA ForwardIsr == PadsShapes /\ ForwardInv /\ Isr => ForwardInv'
<1>1. SUFFICES ASSUME PadsShapes, ForwardInv, Isr PROVE ForwardInv'
  OBVIOUS
<1>2. UNCHANGED <<btn, tp, vec, mode, main, sent>>
  BY <1>1 DEF Isr, Isr3btn, Isr6btn, IsrTp, IsrKeep
<1>3. btn[0] = btn[1] /\ th \in {0, 1} /\ phase \in Nat /\ tp_cnt \in Nat
  BY <1>1 DEF ForwardInv, PadsShapes
<1>4. CASE Isr3btn
  <2>1. out'.rep = btn[1] /\ vec = "3btn"
    BY <1>3, <1>4 DEF Isr3btn, Show
  <2>2. btn[1] \in Nat
    BY <1>1 DEF PadsShapes, Slots
  <2>. QED
    BY <1>1, <1>2, <2>1, <2>2 DEF ForwardInv
<1>5. CASE Isr6btn
  <2>1. PICK c \in Nat : c = phase + th
    BY <1>3
  <2>2. PICK s \in Slots : s = 2 * (IF c < 4 THEN c ELSE 0) + th
    BY <1>3, SixSlot
  <2>3. out'.rep = btn[s] /\ vec = "6btn"
    BY <1>5, <2>1, <2>2 DEF Isr6btn, Show
  <2>. QED
    BY <1>1, <1>2, <2>3 DEF ForwardInv
<1>6. CASE IsrTp
  <2>1. vec = "tp"
    BY <1>6 DEF IsrTp
  <2>2. \E c \in Nat : out' = out \/ Show(c % 16, tp[c % 16], tr)
    <3>1. PICK c1 \in Nat : c1 = IF "th" \in pend THEN 1 - th ELSE tp_cnt
      <4>1. 1 - th \in Nat
        BY <1>3
      <4>. QED
        BY <1>3, <4>1
    <3>2. PICK c \in Nat : c = IF "tr" \in pend /\ (IF "th" \in pend THEN th ELSE pl1th) = 0 THEN c1 + 1 ELSE c1
      OBVIOUS
    <3>. QED
      BY <1>6, <3>1, <3>2 DEF IsrTp
  <2>3. PICK c \in Nat : out' = out \/ Show(c % 16, tp[c % 16], tr)
    BY <2>2
  <2>4. PICK m \in Nibbles : m = c % 16
    BY DEF Nibbles
  <2>5. out' = out \/ out'.rep = tp[m]
    BY <2>3, <2>4 DEF Show
  <2>6. out'.rep <= sent.reports
    BY <1>1, <2>5 DEF ForwardInv
  <2>. QED
    BY <1>1, <1>2, <2>1, <2>6 DEF ForwardInv
<1>. QED
  BY <1>1, <1>4, <1>5, <1>6 DEF Isr

LEMMA ForwardMain == PadsShapes /\ SwitchInv /\ ForwardInv /\ Main => ForwardInv'
<1>1. SUFFICES ASSUME PadsShapes, SwitchInv, ForwardInv, Main PROVE ForwardInv'
  OBVIOUS
<1>2. /\ UNCHANGED out /\ btn \in [Slots -> Nat] /\ tp \in [Nibbles -> Nat] /\ out.rep \in Nat
      /\ main \in [at : MainPoints, now : Nat, mode : ModeNames, who : SUBSET Players]
      /\ sent.reports \in Nat /\ sent'.reports \in {sent.reports, sent.reports + 1}
      /\ 0 \in Slots /\ 1 \in Slots
  <2>1. UNCHANGED out
    BY <1>1 DEF Main, MainKeep, MainNow, MainAge, MainReset, MainNoPacket, MainModePacket, MainBtnPacket,
           MainClear, MainPin, MainVector, MainMode, MainWord, MainFour, MainFive, MainSix, MainSeven,
           Fill, MainTp0, MainTp1
  <2>2. /\ btn \in [Slots -> Nat] /\ tp \in [Nibbles -> Nat] /\ out.rep \in Nat
        /\ main \in [at : MainPoints, now : Nat, mode : ModeNames, who : SUBSET Players]
        /\ sent \in [reports : Nat, switches : Nat]
    BY <1>1 DEF PadsShapes, Outs
  <2>3. \/ sent' = sent \/ sent' = [sent EXCEPT !.switches = @ + 1]
        \/ sent' = [sent EXCEPT !.reports = @ + 1]
    BY <1>1 DEF Main, MainKeep, MainNow, MainAge, MainReset, MainNoPacket, MainModePacket, MainBtnPacket,
           MainClear, MainPin, MainVector, MainMode, MainWord, MainFour, MainFive, MainSix, MainSeven,
           Fill, MainTp0, MainTp1
  <2>4. sent.reports \in Nat /\ sent'.reports \in {sent.reports, sent.reports + 1}
    BY <2>2, <2>3
  <2>. QED
    BY <2>1, <2>2, <2>4 DEF Slots
<1>3. CASE MainClear
  <2>1. /\ btn' = [s \in Slots |-> 0] /\ tp' = [s \in Nibbles |-> 0] /\ main'.at = "pin"
        /\ sent' = sent /\ out' = out
    BY <1>2, <1>3 DEF MainClear, At, MainKeep
  <2>. QED
    BY <1>1, <1>2, <2>1 DEF ForwardInv, Switching
<1>4. CASE MainPin \/ MainVector \/ MainMode
  <2>1. UNCHANGED <<btn, tp, sent>> /\ main.at \in {"pin", "vector", "mode"}
    BY <1>4 DEF MainPin, MainVector, MainMode, At, MainKeep, state
  <2>. QED
    BY <1>1, <1>2, <2>1 DEF ForwardInv
<1>5. CASE MainWord
  <2>1. /\ btn' = [s \in Slots |-> IF s \in 0..3 THEN sent.reports ELSE btn[s]]
        /\ main'.at = "four" /\ sent' = sent /\ tp' = tp
    BY <1>2, <1>5 DEF MainWord, Fill, At, MainKeep
  <2>. QED
    BY <1>1, <1>2, <2>1 DEF ForwardInv
<1>6. CASE MainFour \/ MainFive \/ MainSix \/ MainSeven
  <2>1. PICK slots \in SUBSET (4..7) : btn' = [s \in Slots |-> IF s \in slots THEN sent.reports ELSE btn[s]]
    <3>1. {{4}, {5}, {6}, {7}} \subseteq SUBSET (4..7)
      OBVIOUS
    <3>. QED
      BY <1>6, <3>1 DEF MainFour, MainFive, MainSix, MainSeven, Fill
  <2>2. /\ main.at \notin Switching /\ main'.at \notin Switching
        /\ UNCHANGED <<sent, tp, vec, mode>>
    BY <1>2, <1>6 DEF MainFour, MainFive, MainSix, MainSeven, Fill, At, MainKeep, Switching
  <2>3. btn'[0] = btn[0] /\ btn'[1] = btn[1]
    BY <1>2, <2>1
  <2>. QED
    BY <1>1, <1>2, <2>1, <2>2, <2>3 DEF ForwardInv, Switching
<1>7. CASE MainTp0 \/ MainTp1
  <2>1. tp' = tp \/ \E n : tp' = [tp EXCEPT ![n] = sent.reports]
    BY <1>7 DEF MainTp0, MainTp1
  <2>2. /\ main.at \notin Switching /\ main'.at \notin Switching
        /\ UNCHANGED <<sent, btn, vec, mode>>
    BY <1>2, <1>7 DEF MainTp0, MainTp1, MainKeep, Switching
  <2>3. \A n \in Nibbles : tp'[n] <= sent.reports
    BY <1>1, <1>2, <2>1 DEF ForwardInv
  <2>. QED
    BY <1>1, <1>2, <2>2, <2>3 DEF ForwardInv, Switching
<1>8. CASE MainNow \/ MainAge \/ MainReset \/ MainNoPacket \/ MainModePacket \/ MainBtnPacket
  <2>1. UNCHANGED <<btn, tp, vec, mode>> /\ main.at \notin Switching
    BY <1>8 DEF MainNow, MainAge, MainReset, MainNoPacket, MainModePacket, MainBtnPacket, At, state, Switching
  <2>2. main'.at \notin {"pin", "vector", "mode"}
    BY <1>2, <1>8 DEF MainNow, MainAge, MainReset, MainNoPacket, MainModePacket, MainBtnPacket, At
  <2>3. btn[1] \in Nat /\ btn[1] <= sent'.reports /\ out.rep <= sent'.reports
    BY <1>1, <1>2 DEF ForwardInv
  <2>4. /\ \A s \in Slots : btn[s] <= sent'.reports
        /\ \A n \in Nibbles : tp[n] <= sent'.reports
    BY <1>1, <1>2 DEF ForwardInv
  <2>. QED
    BY <1>1, <1>2, <2>1, <2>2, <2>3, <2>4 DEF ForwardInv
<1>. QED
  BY <1>1, <1>3, <1>4, <1>5, <1>6, <1>7, <1>8 DEF Main

(***************************************************************************)
(* The console never sees a report of a three button pad and then an older *)
(* one, wherever the main loop is in storing a report.                     *)
(***************************************************************************)
THEOREM PadsReportsForward == PadsSpec => ReportsForward
<1> DEFINE Inv == PadsShapes /\ SwitchInv /\ ForwardInv
           Forward == vec = "3btn" /\ mode = "3btn" /\ main.at \notin {"clear", "pin", "vector", "mode"}
                        => out'.rep >= out.rep \/ out'.rep = 0
<1>1. PadsInit => Inv
  <2>1. PadsInit => ForwardInv
    BY DEF PadsInit, ForwardInv, Slots, Nibbles
  <2>. QED
    BY <2>1, ShapesInit, SwitchInit
<1>2. Inv /\ [PadsNext]_vars => Inv'
  <2>1. ForwardInv /\ (Console \/ Tick \/ UNCHANGED vars) => ForwardInv'
    BY DEF ForwardInv, vars, lines, state, Console, BeginPoll, MoveTh, TpBegin, TpMoveTr, TpEnd, ConsoleKeep,
           Tick
  <2>. QED
    BY <2>1, ShapesNext, SwitchNext, ForwardIsr, ForwardMain DEF PadsNext
<1>3. Inv /\ [PadsNext]_vars => [Forward]_vars
  <2>1. SUFFICES ASSUME Inv, PadsNext, vec = "3btn", mode = "3btn", main.at \notin Switching
                 PROVE  out'.rep >= out.rep \/ out'.rep = 0
    BY DEF Switching
  <2>2. out.rep \in Nat /\ btn[1] \in Nat
    BY <2>1 DEF PadsShapes, Outs, Slots
  <2>3. CASE Isr
    <3>1. out'.rep = btn[1]
      BY <2>1, <2>3 DEF Isr, Isr3btn, Isr6btn, IsrTp, Show, ForwardInv, PadsShapes
    <3>. QED
      BY <2>1, <2>2, <3>1 DEF ForwardInv
  <2>4. CASE Main \/ Console \/ Tick
    <3>1. out' = out
      BY <2>4 DEF Main, MainKeep, MainNow, MainAge, MainReset, MainNoPacket, MainModePacket, MainBtnPacket,
           MainClear, MainPin, MainVector, MainMode, MainWord, MainFour, MainFive, MainSix, MainSeven,
           Fill, MainTp0, MainTp1, Console, BeginPoll, MoveTh, TpBegin, TpMoveTr, TpEnd, ConsoleKeep, Tick
    <3>. QED
      BY <2>2, <3>1
  <2>. QED
    BY <2>1, <2>3, <2>4 DEF PadsNext
<1>. QED
  BY <1>1, <1>2, <1>3, PTL DEF PadsSpec, ReportsForward

-----------------------------------------------------------------------------
(***************************************************************************)
(* In the button modes the lines show the half of the answer that TH asks  *)
(* for, also when the phase is reset too early.                            *)
(***************************************************************************)
THEOREM PadsLinesFollowTh == PadsSpec => []LinesFollowTh
<1> DEFINE Inv == PadsShapes /\ SwitchInv /\ LinesFollowTh
<1>1. PadsInit => Inv
  <2>1. PadsInit => LinesFollowTh
    BY DEF PadsInit, LinesFollowTh
  <2>. QED
    BY <2>1, ShapesInit, SwitchInit
<1>2. Inv /\ [PadsNext]_vars => Inv'
  <2>1. SUFFICES ASSUME Inv, [PadsNext]_vars PROVE LinesFollowTh'
    BY ShapesNext, SwitchNext
  <2>2. CASE UNCHANGED vars
    BY <2>1, <2>2 DEF LinesFollowTh, vars, lines
  <2>3. CASE Isr
    <3>1. SUFFICES ASSUME vec # "tp" PROVE out'.slot % 2 = th
      BY <2>3 DEF Isr, Isr3btn, Isr6btn, IsrTp, IsrKeep, lines, LinesFollowTh
    <3>2. th \in {0, 1} /\ phase \in Nat
      BY <2>1 DEF PadsShapes
    <3>3. \E k \in Nat : out'.slot = 2 * k + th
      <4>1. CASE Isr3btn
        <5>1. out'.slot = 2 * 0 + th
          BY <3>2, <4>1 DEF Isr3btn, Show
        <5>. QED
          BY <5>1
      <4>2. CASE Isr6btn
        <5>1. PICK k \in Nat : k = IF phase + th < 4 THEN phase + th ELSE 0
          BY <3>2
        <5>2. out'.slot = 2 * k + th
          BY <4>2, <5>1 DEF Isr6btn, Show
        <5>. QED
          BY <5>2
      <4>. QED
        BY <2>3, <3>1, <4>1, <4>2 DEF Isr, IsrTp
    <3>. QED
      BY <3>2, <3>3
  <2>4. CASE Main
    <3>1. CASE main.at \in {"clear", "pin", "vector"} \/ MainModePacket
      <4>1. polled'.fresh = FALSE
        BY <2>1, <2>4, <3>1
           DEF SwitchInv, Main, MainKeep, MainNow, MainAge, MainReset, MainNoPacket, MainModePacket,
               MainBtnPacket, MainClear, MainPin, MainVector, MainMode, MainWord, MainFour, MainFive, MainSix,
               MainSeven, Fill, At, MainTp0, MainTp1, lines, Switching, PadsShapes, Polls
      <4>. QED
        BY <4>1 DEF LinesFollowTh
    <3>2. CASE main.at \notin {"clear", "pin", "vector"} /\ ~MainModePacket
      <4>1. UNCHANGED <<polled, vec, th, pend, out>>
        BY <2>4, <3>2
           DEF Main, MainKeep, MainNow, MainAge, MainReset, MainNoPacket, MainBtnPacket,
               MainClear, MainPin, MainVector, MainMode, MainWord, MainFour, MainFive, MainSix, MainSeven,
               Fill, At, MainTp0, MainTp1, lines, Switching
      <4>. QED
        BY <2>1, <4>1 DEF LinesFollowTh
    <3>. QED
      BY <3>1, <3>2
  <2>5. CASE Console \/ Tick
    <3>1. /\ UNCHANGED <<out, vec>> /\ polled \in Polls
          /\ "th" \in pend' \/ (th' = th /\ (pend' = {} => pend = {}) /\ polled'.fresh = polled.fresh)
      BY <2>1, <2>5 DEF Console, BeginPoll, MoveTh, TpBegin, TpMoveTr, TpEnd, Tick, ConsoleKeep, PadsShapes,
                        Polls
    <3>. QED
      BY <2>1, <3>1 DEF LinesFollowTh
  <2>. QED
    BY <2>1, <2>2, <2>3, <2>4, <2>5 DEF PadsNext
<1>. QED
  BY <1>1, <1>2, PTL DEF PadsSpec

-----------------------------------------------------------------------------
(***************************************************************************)
(* The indices.  The Team Player count is one more than the edges of TR    *)
(* that have been handled in the sequence; while a switch is under way an  *)
(* edge of TR may be left over, and is cleared before interrupts are on; a *)
(* button handler that takes an edge after that leaves the count at zero.  *)
(***************************************************************************)
CountInv ==
  /\ tp_cnt <= 17
  /\ polled.game = "tp" => polled.rises <= 16
  /\ polled.game = "btn" => "tr" \notin pend
  /\ vec # "tp" => tp_cnt = 0
  /\ main.at \in {"pin", "vector", "mode"} /\ main.mode # "tp" => tp_cnt = 0
  /\ main.at \in {"clear", "pin"} => irq = FALSE
  /\ main.at \in {"vector", "mode"} /\ main.mode # "tp" => "tr" \notin pend
  /\ main.at = "pin" => tp_cnt = 0
  /\ main.at \notin {"clear", "pin"} =>
       /\ "th" \notin pend => tp_cnt + (IF "tr" \in pend THEN 1 ELSE 0) <= 1 + polled.rises
       /\ "th" \in pend /\ "tr" \in pend => th = 1
LimitInv ==
  /\ out.slot \in Nibbles /\ time <= clock /\ clock <= MaxTime /\ sent.reports <= MaxReports

LEMMA CountInit == PadsInit => CountInv
<1>1. PadsInit => PadsShapes
  BY ShapesInit
<1>2. PadsInit => polled.rises = 0
  BY DEF PadsInit
<1>. QED
  BY <1>1, <1>2 DEF PadsInit, CountInv, PadsShapes, Polls

LEMMA CountIsr == PadsShapes /\ SwitchInv /\ CountInv /\ Isr => CountInv'
<1>1. SUFFICES ASSUME PadsShapes, SwitchInv, CountInv, Isr PROVE CountInv'
  OBVIOUS
<1>2. /\ th \in {0, 1} /\ pend \subseteq {"th", "tr"} /\ tp_cnt \in Nat /\ pl1th \in {0, 1}
      /\ polled \in Polls /\ polled.rises \in Nat /\ polled.game \in {"btn", "tp"}
  BY <1>1 DEF PadsShapes, Polls
<1>3. pend' = {} /\ pend # {} /\ irq /\ UNCHANGED <<polled, vec, irq, main, th>>
  BY <1>1 DEF Isr, Isr3btn, Isr6btn, IsrTp, IsrKeep, lines
<1>4. main.at \notin {"clear", "pin"}
  BY <1>1, <1>3 DEF CountInv
<1>5. CASE Isr3btn \/ Isr6btn
  <2>1. tp_cnt' = 0 /\ tp_cnt = 0
    BY <1>1, <1>5 DEF Isr3btn, Isr6btn, CountInv
  <2>. QED
    BY <1>1, <1>2, <1>3, <2>1 DEF CountInv
<1>6. CASE IsrTp
  <2>1. vec = "tp"
    BY <1>6 DEF IsrTp
  <2>2. tp_cnt' \in Nat /\ tp_cnt' <= 17 /\ tp_cnt' <= 1 + polled.rises
    <3>1. CASE "th" \in pend
      <4>1. tp_cnt' = 1 - th
        BY <1>1, <1>2, <1>4, <1>6, <3>1 DEF IsrTp, CountInv
      <4>. QED
        BY <1>2, <4>1
    <3>2. CASE "th" \notin pend
      <4>1. "tr" \in pend /\ tp_cnt' \in {tp_cnt, tp_cnt + 1}
        BY <1>2, <1>3, <1>6, <3>2 DEF IsrTp
      <4>2. tp_cnt + 1 <= 1 + polled.rises /\ polled.rises <= 16
        BY <1>1, <1>2, <1>4, <3>2, <4>1 DEF CountInv
      <4>. QED
        BY <1>2, <4>1, <4>2
    <3>. QED
      BY <3>1, <3>2
  <2>3. main.at \in {"vector", "mode"} => main.mode = "tp"
    BY <1>1, <1>3 DEF SwitchInv
  <2>. QED
    BY <1>1, <1>2, <1>3, <1>4, <2>1, <2>2, <2>3 DEF CountInv
<1>. QED
  BY <1>1, <1>5, <1>6 DEF Isr

LEMMA CountMain == PadsShapes /\ SwitchInv /\ CountInv /\ Main => CountInv'
<1>1. SUFFICES ASSUME PadsShapes, SwitchInv, CountInv, Main PROVE CountInv'
  OBVIOUS
<1>2. /\ main \in [at : MainPoints, now : Nat, mode : ModeNames, who : SUBSET Players]
      /\ polled \in Polls /\ polled.rises \in Nat /\ tp_cnt \in Nat /\ irq \in BOOLEAN
      /\ vec \in ModeNames /\ pend \subseteq {"th", "tr"}
  BY <1>1 DEF PadsShapes, Polls
<1>3. CASE MainModePacket
  <2>1. /\ main'.at = "clear" /\ irq' = FALSE /\ UNCHANGED <<tp_cnt, pend, vec, th>>
        /\ polled'.rises = polled.rises /\ polled'.game = polled.game
    BY <1>2, <1>3 DEF MainModePacket, state, Polls
  <2>. QED
    BY <1>1, <1>2, <2>1 DEF CountInv
<1>4. CASE MainClear
  <2>1. /\ main.at = "clear" /\ main'.at = "pin" /\ tp_cnt' = 0
        /\ UNCHANGED <<pend, vec, irq, polled, th>>
    BY <1>2, <1>4 DEF MainClear, At, MainKeep, lines
  <2>. QED
    BY <1>1, <1>2, <2>1 DEF CountInv
<1>5. CASE MainPin
  <2>1. /\ main.at = "pin" /\ main'.at = "vector" /\ main'.mode = main.mode
        /\ pend' = pend \ {"tr"} /\ (irq' = TRUE <=> main.mode = "tp") /\ UNCHANGED <<tp_cnt, vec, polled, th>>
    BY <1>2, <1>5 DEF MainPin, At, MainKeep, lines, state
  <2>. QED
    BY <1>1, <1>2, <2>1 DEF CountInv
<1>6. CASE MainVector
  <2>1. /\ main.at = "vector" /\ main'.at = "mode" /\ main'.mode = main.mode /\ vec' = main.mode
        /\ UNCHANGED <<tp_cnt, pend, irq, polled, th>>
    BY <1>2, <1>6 DEF MainVector, At, MainKeep, lines, state
  <2>. QED
    BY <1>1, <1>2, <2>1 DEF CountInv
<1>7. CASE MainMode
  <2>1. /\ main.at = "mode" /\ main'.at = "top" /\ UNCHANGED <<tp_cnt, pend, vec, polled, th>>
    BY <1>2, <1>7 DEF MainMode, At, MainKeep, lines
  <2>. QED
    BY <1>1, <1>2, <2>1 DEF CountInv
<1>8. CASE ~(MainModePacket \/ MainClear \/ MainPin \/ MainVector \/ MainMode)
  <2>1. main.at \notin Switching /\ UNCHANGED <<vec, irq, polled, tp_cnt, pend, th>>
    BY <1>1, <1>8
       DEF Main, MainKeep, MainNow, MainAge, MainReset, MainNoPacket, MainBtnPacket, MainWord, MainFour,
           MainFive, MainSix, MainSeven, Fill, At, MainTp0, MainTp1, lines, state, Switching
  <2>2. main'.at \notin Switching
    BY <1>1, <1>2, <1>8
       DEF Main, MainNow, MainAge, MainReset, MainNoPacket, MainBtnPacket, MainWord, MainFour,
           MainFive, MainSix, MainSeven, Fill, At, MainTp0, MainTp1, Switching
  <2>. QED
    BY <1>1, <2>1, <2>2 DEF CountInv, Switching
<1>. QED
  BY <1>3, <1>4, <1>5, <1>6, <1>7, <1>8

LEMMA CountConsole == PadsShapes /\ SwitchInv /\ CountInv /\ (Console \/ Tick) => CountInv'
<1>1. SUFFICES ASSUME PadsShapes, SwitchInv, CountInv, Console \/ Tick PROVE CountInv'
  OBVIOUS
<1>2. /\ th \in {0, 1} /\ pend \subseteq {"th", "tr"} /\ tp_cnt \in Nat
      /\ polled \in Polls /\ polled.rises \in Nat /\ polled.game \in {"btn", "tp"}
  BY <1>1 DEF PadsShapes, Polls
<1>3. UNCHANGED <<tp_cnt, vec, irq, main>> /\ polled'.game = polled.game
  BY <1>1, <1>2 DEF Console, BeginPoll, MoveTh, TpBegin, TpMoveTr, TpEnd, ConsoleKeep, Tick, state, Polls
<1>4. main.at \notin {"clear", "pin"} => pend = {} \/ (main.at \in {"vector", "mode"} /\ main.mode # "tp")
  BY <1>1 DEF SwitchInv, Console, BeginPoll, MoveTh, TpBegin, TpMoveTr, TpEnd, Tick, IsrDone, Switching
<1>5. /\ main.at \notin {"clear", "pin"} => "tr" \notin pend
      /\ main.at \in {"vector", "mode"} /\ main.mode # "tp" => TrEdge = {}
  BY <1>1, <1>4 DEF CountInv, TrEdge, TrIsOn
<1>6. CASE BeginPoll \/ MoveTh
  <2>1. pend' = pend \cup {"th"} /\ polled.game = "btn"
    BY <1>6 DEF BeginPoll, MoveTh
  <2>. QED
    BY <1>1, <1>2, <1>3, <2>1 DEF CountInv
<1>7. CASE TpBegin
  <2>1. pend' = pend \cup {"th"} /\ polled.game = "tp" /\ polled'.rises = 0
    BY <1>2, <1>7 DEF TpBegin, Polls
  <2>2. main.at \notin {"clear", "pin"} => "tr" \notin pend'
    BY <1>5, <2>1
  <2>. QED
    BY <1>1, <1>2, <1>3, <1>5, <2>1, <2>2 DEF CountInv
<1>8. CASE TpMoveTr
  <2>1. /\ polled.game = "tp" /\ pend' = pend \cup TrEdge /\ polled'.rises = polled.rises + 1
        /\ polled.rises < 16 /\ th' = th
    BY <1>2, <1>8 DEF TpMoveTr, Polls
  <2>2. CASE main.at \notin {"clear", "pin"}
    <3>1. CASE pend = {}
      <4>1. pend' \subseteq {"tr"} /\ (main.at \in {"vector", "mode"} /\ main.mode # "tp" => pend' = {})
        BY <1>5, <2>1, <3>1 DEF TrEdge
      <4>2. tp_cnt <= 1 + polled.rises
        BY <1>1, <1>2, <2>2, <3>1 DEF CountInv
      <4>. QED
        BY <1>1, <1>2, <1>3, <2>1, <2>2, <4>1, <4>2 DEF CountInv
    <3>2. CASE main.at \in {"vector", "mode"} /\ main.mode # "tp"
      <4>1. pend' = pend
        BY <1>5, <2>1, <3>2
      <4>. QED
        BY <1>1, <1>2, <1>3, <2>1, <3>2, <4>1 DEF CountInv
    <3>. QED
      BY <1>4, <2>2, <3>1, <3>2
  <2>3. CASE main.at \in {"clear", "pin"}
    BY <1>1, <1>2, <1>3, <2>1, <2>3 DEF CountInv
  <2>. QED
    BY <2>2, <2>3
<1>9. CASE TpEnd
  <2>1. /\ polled.game = "tp" /\ "th" \in pend' /\ polled'.rises = 0 /\ th' = 1
        /\ pend' \subseteq pend \cup {"th"} \cup TrEdge
    BY <1>2, <1>9 DEF TpEnd, Polls
  <2>2. main.at \in {"vector", "mode"} /\ main.mode # "tp" => "tr" \notin pend'
    BY <1>5, <2>1
  <2>. QED
    BY <1>1, <1>2, <1>3, <2>1, <2>2 DEF CountInv
<1>10. CASE Tick
  <2>1. pend' = pend /\ th' = th /\ polled'.rises = polled.rises
    BY <1>2, <1>10 DEF Tick, Polls
  <2>. QED
    BY <1>1, <1>2, <1>3, <2>1 DEF CountInv
<1>. QED
  BY <1>1, <1>6, <1>7, <1>8, <1>9, <1>10 DEF Console

LEMMA CountNext == PadsShapes /\ SwitchInv /\ CountInv /\ [PadsNext]_vars => CountInv'
<1>1. CountInv /\ UNCHANGED vars => CountInv'
  BY DEF CountInv, vars, lines, state
<1>. QED
  BY <1>1, CountIsr, CountMain, CountConsole DEF PadsNext

\* The nibble on the lines has had its turn, also when the sequence was cut.
TurnInv ==
  polled.game = "tp" /\ th = 0 /\ "th" \notin pend /\ out.by = "tp" =>
    \E k \in Nat : k <= 1 + polled.rises /\ out.slot = k % 16

LEMMA TurnNext == PadsShapes /\ SwitchInv /\ CountInv /\ TurnInv /\ [PadsNext]_vars => TurnInv'
<1>. SUFFICES ASSUME PadsShapes, SwitchInv, CountInv, TurnInv, [PadsNext]_vars PROVE TurnInv'
  OBVIOUS
<1>1. polled \in Polls /\ polled.rises \in Nat /\ th \in {0, 1} /\ tp_cnt \in Nat
  BY DEF PadsShapes, Polls
<1>2. CASE Isr
  <2>1. pend' = {} /\ irq /\ UNCHANGED <<polled, main, vec, th>>
    BY <1>2 DEF Isr, Isr3btn, Isr6btn, IsrTp, IsrKeep, lines
  <2>2. CASE Isr3btn \/ Isr6btn
    <3>1. out'.by # "tp"
      BY <2>2 DEF Isr3btn, Isr6btn, Show
    <3>. QED
      BY <3>1 DEF TurnInv
  <2>3. CASE IsrTp
    <3>1. SUFFICES ASSUME polled.game = "tp", th = 0, out.by = "tp" \/ out' # out
                   PROVE  \E k \in Nat : k <= 1 + polled.rises /\ out'.slot = k % 16
      BY <2>1, <2>3 DEF TurnInv
    <3>2. main.at \notin {"clear", "pin"} /\ CountInv' /\ PadsShapes'
      BY <1>2, <2>1, CountIsr, ShapesIsr DEF CountInv
    <3>3. tp_cnt' \in Nat /\ tp_cnt' <= 1 + polled.rises
      BY <2>1, <3>2 DEF CountInv, PadsShapes
    <3>4. \/ out' = out /\ "th" \notin pend
          \/ out'.slot = tp_cnt' % 16
      BY <2>3 DEF IsrTp, Show
    <3>. QED
      BY <3>1, <3>3, <3>4 DEF TurnInv
  <2>. QED
    BY <1>2, <2>2, <2>3 DEF Isr
<1>3. CASE Main
  <2>1. UNCHANGED <<out, th>> /\ ("th" \in pend <=> "th" \in pend')
        /\ (polled' = polled \/ polled' = [polled EXCEPT !.fresh = FALSE])
    BY <1>3 DEF Main, MainKeep, MainNow, MainAge, MainReset, MainNoPacket, MainModePacket, MainBtnPacket,
           MainClear, MainPin, MainVector, MainMode, MainWord, MainFour, MainFive, MainSix, MainSeven,
           Fill, MainTp0, MainTp1, lines
  <2>2. polled'.game = polled.game /\ polled'.rises = polled.rises
    BY <1>1, <2>1 DEF Polls
  <2>. QED
    BY <2>1, <2>2 DEF TurnInv
<1>4. CASE BeginPoll \/ MoveTh \/ Tick
  <2>1. polled'.game = "btn"
    BY <1>1, <1>4 DEF BeginPoll, MoveTh, Tick, Polls
  <2>. QED
    BY <2>1 DEF TurnInv
<1>5. CASE TpBegin \/ TpEnd
  <2>1. "th" \in pend'
    BY <1>5 DEF TpBegin, TpEnd
  <2>. QED
    BY <2>1 DEF TurnInv
<1>6. CASE TpMoveTr
  <2>1. /\ polled'.rises = polled.rises + 1 /\ polled.game = "tp"
        /\ UNCHANGED <<th, out>> /\ pend \subseteq pend'
    BY <1>1, <1>6 DEF TpMoveTr, ConsoleKeep, Polls
  <2>. QED
    BY <1>1, <2>1 DEF TurnInv
<1>7. CASE UNCHANGED vars
  BY <1>7 DEF TurnInv, vars, lines
<1>. QED
  BY <1>2, <1>3, <1>4, <1>5, <1>6, <1>7 DEF PadsNext, Console

(***************************************************************************)
(* Team Player: when TL answers, the lines show the nibble that the console*)
(* has asked for, in every sequence that began with the handler in place;  *)
(* in one that a mode switch cuts into, wherever its edges fell between    *)
(* attachInterrupt and the new vector, a nibble that has had its turn.     *)
(***************************************************************************)
THEOREM PadsAckedNibble == PadsSpec => []AckedNibble
<1> DEFINE Inv == PadsShapes /\ SwitchInv /\ SequenceInv /\ CountInv /\ TurnInv
<1>1. PadsInit => Inv
  <2>1. PadsInit => SequenceInv /\ TurnInv
    BY DEF PadsInit, SequenceInv, TurnInv
  <2>. QED
    BY <2>1, ShapesInit, SwitchInit, CountInit
<1>2. Inv /\ [PadsNext]_vars => Inv'
  <2>1. SequenceInv /\ UNCHANGED vars => SequenceInv'
    BY DEF SequenceInv, vars, lines, state
  <2>. QED
    BY <2>1, ShapesNext, SwitchNext, SequenceIsr, SequenceMain, SequenceConsole, CountNext, TurnNext
       DEF PadsNext
<1>3. Inv => AckedNibble
  <2>1. SUFFICES ASSUME Inv, polled.game = "tp", vec = "tp", th = 0, "th" \notin pend, out.tl = tr
                 PROVE  /\ polled.fresh => out.slot = (1 + polled.rises) % 16
                        /\ out.by = "tp" /\ polled.rises < 15 => out.slot <= 1 + polled.rises
    BY DEF AckedNibble
  <2>2. polled.fresh => out.slot = (1 + polled.rises) % 16
    <3>1. polled.fresh => polled.fresh = TRUE
      BY <2>1 DEF PadsShapes, Polls
    <3>. QED
      BY <2>1, <3>1 DEF SequenceInv
  <2>3. out.by = "tp" /\ polled.rises < 15 => out.slot <= 1 + polled.rises
    <3>1. SUFFICES ASSUME out.by = "tp", polled.rises < 15 PROVE out.slot <= 1 + polled.rises
      OBVIOUS
    <3>2. PICK k \in Nat : k <= 1 + polled.rises /\ out.slot = k % 16
      BY <2>1, <3>1 DEF TurnInv
    <3>3. polled.rises \in Nat
      BY <2>1 DEF PadsShapes, Polls
    <3>. QED
      BY <3>1, <3>2, <3>3
  <2>. QED
    BY <2>2, <2>3
<1>. QED
  BY <1>1, <1>2, <1>3, PTL DEF PadsSpec

LEMMA LimitNext == PadsShapes /\ LimitInv /\ [PadsNext]_vars => LimitInv'
<1>1. SUFFICES ASSUME PadsShapes, LimitInv, [PadsNext]_vars PROVE LimitInv'
  OBVIOUS
<1>2. /\ th \in {0, 1} /\ tp_cnt \in Nat /\ phase \in Nat /\ time \in Nat /\ clock \in Nat
      /\ sent \in [reports : Nat, switches : Nat] /\ sent.reports \in Nat
      /\ {MaxReports, MaxTime} \subseteq Nat
  BY <1>1, PadsAssumption DEF PadsShapes
<1>3. out'.slot \in Nibbles
  <2>1. CASE Isr3btn
    BY <1>2, <2>1 DEF Isr3btn, Show, Nibbles
  <2>2. CASE Isr6btn
    <3>1. PICK c \in Nat : c = phase + th
      BY <1>2
    <3>2. PICK s \in Slots : s = 2 * (IF c < 4 THEN c ELSE 0) + th
      BY <1>2, SixSlot
    <3>3. out'.slot = s
      BY <2>2, <3>1, <3>2 DEF Isr6btn, Show
    <3>. QED
      BY <3>3 DEF Slots, Nibbles
  <2>3. CASE IsrTp
    <3>1. PICK c1 \in Nat : c1 = IF "th" \in pend THEN 1 - th ELSE tp_cnt
      <4>1. 1 - th \in Nat
        BY <1>2
      <4>. QED
        BY <1>2, <4>1
    <3>2. PICK c \in Nat : c = IF "tr" \in pend /\ (IF "th" \in pend THEN th ELSE pl1th) = 0 THEN c1 + 1 ELSE c1
      OBVIOUS
    <3>3. out' = out \/ out'.slot = c % 16
      BY <2>3, <3>1, <3>2 DEF IsrTp, Show
    <3>. QED
      BY <1>1, <3>3 DEF LimitInv, Nibbles
  <2>4. CASE Main \/ Console \/ Tick \/ UNCHANGED vars
    <3>1. out' = out
      BY <2>4 DEF Main, MainKeep, MainNow, MainAge, MainReset, MainNoPacket, MainModePacket, MainBtnPacket,
           MainClear, MainPin, MainVector, MainMode, MainWord, MainFour, MainFive, MainSix, MainSeven,
           Fill, MainTp0, MainTp1, Console, BeginPoll, MoveTh, TpBegin, TpMoveTr, TpEnd, ConsoleKeep, Tick,
           vars
    <3>. QED
      BY <1>1, <3>1 DEF LimitInv
  <2>. QED
    BY <1>1, <2>1, <2>2, <2>3, <2>4 DEF PadsNext, Isr
<1>4. time' <= clock' /\ clock' <= MaxTime
  <2>1. \/ UNCHANGED <<time, clock>>
        \/ time' = clock /\ clock' = clock
        \/ time' = time /\ clock' = clock + 1 /\ clock < MaxTime
    <3>1. CASE Isr
      BY <3>1 DEF Isr, Isr3btn, Isr6btn, IsrTp, IsrKeep
    <3>2. CASE Main
      BY <3>2 DEF Main, MainKeep, MainNow, MainAge, MainReset, MainNoPacket, MainModePacket, MainBtnPacket,
           MainClear, MainPin, MainVector, MainMode, MainWord, MainFour, MainFive, MainSix, MainSeven,
           Fill, MainTp0, MainTp1, state
    <3>3. CASE Console \/ Tick \/ UNCHANGED vars
      BY <3>3 DEF Console, BeginPoll, MoveTh, TpBegin, TpMoveTr, TpEnd, ConsoleKeep, Tick, vars, state
    <3>. QED
      BY <1>1, <3>1, <3>2, <3>3 DEF PadsNext
  <2>. QED
    BY <1>1, <1>2, <2>1 DEF LimitInv
<1>5. sent'.reports <= MaxReports
  <2>1. CASE MainBtnPacket
    BY <1>2, <2>1 DEF MainBtnPacket
  <2>2. CASE ~MainBtnPacket
    <3>1. sent' = sent \/ sent' = [sent EXCEPT !.switches = @ + 1]
      <4>1. CASE Isr \/ Console \/ Tick \/ UNCHANGED vars
        BY <4>1 DEF Isr, Isr3btn, Isr6btn, IsrTp, IsrKeep, Console, BeginPoll, MoveTh, TpBegin, TpMoveTr,
                    TpEnd, ConsoleKeep, Tick, vars
      <4>2. CASE Main
        BY <2>2, <4>2 DEF Main, MainKeep, MainNow, MainAge, MainReset, MainNoPacket, MainModePacket,
           MainClear, MainPin, MainVector, MainMode, MainWord, MainFour, MainFive, MainSix, MainSeven,
           Fill, MainTp0, MainTp1
      <4>. QED
        BY <1>1, <4>1, <4>2 DEF PadsNext
    <3>. QED
      BY <1>1, <1>2, <3>1 DEF LimitInv
  <2>. QED
    BY <2>1, <2>2
<1>. QED
  BY <1>3, <1>4, <1>5 DEF LimitInv

(***************************************************************************)
(* Every index stays inside its table: the slot of an answer, the nibble,  *)
(* and the Team Player count, which a sequence that is given up, or one    *)
(* that a mode switch cuts in two, never lets run on.                      *)
(***************************************************************************)
THEOREM PadsTypes == PadsSpec => []PadsTypeOK
<1> DEFINE Inv == PadsShapes /\ SwitchInv /\ ForwardInv /\ CountInv /\ LimitInv
<1>1. PadsInit => Inv
  <2>1. PadsInit => ForwardInv
    BY DEF PadsInit, ForwardInv, Slots, Nibbles
  <2>3. PadsInit => LimitInv
    BY PadsAssumption DEF PadsInit, LimitInv, Nibbles
  <2>. QED
    BY <2>1, <2>3, ShapesInit, SwitchInit, CountInit
<1>2. Inv /\ [PadsNext]_vars => Inv'
  <2>1. ForwardInv /\ (Console \/ Tick \/ UNCHANGED vars) => ForwardInv'
    BY DEF ForwardInv, vars, lines, state, Console, BeginPoll, MoveTh, TpBegin, TpMoveTr, TpEnd, ConsoleKeep,
           Tick
  <2>. QED
    BY <2>1, ShapesNext, SwitchNext, ForwardIsr, ForwardMain, CountNext, LimitNext DEF PadsNext
<1>3. Inv => PadsTypeOK
  <2>1. SUFFICES ASSUME Inv PROVE PadsTypeOK
    OBVIOUS
  <2>2. /\ out \in Outs /\ sent.reports \in Nat
        /\ btn \in [Slots -> Nat] /\ tp \in [Nibbles -> Nat] /\ MaxReports \in Nat /\ MaxTime \in Nat
        /\ main \in [at : MainPoints, now : Nat, mode : ModeNames, who : SUBSET Players]
        /\ time \in Nat /\ clock \in Nat /\ tp_cnt \in Nat
    BY <2>1, PadsAssumption DEF PadsShapes
  <2>3. \A r \in Nat : r <= sent.reports => r \in Reports
    BY <2>1, <2>2 DEF LimitInv, Reports
  <2>4. btn \in [Slots -> Reports] /\ tp \in [Nibbles -> Reports]
    BY <2>1, <2>2, <2>3 DEF ForwardInv
  <2>5. out \in [slot : Nibbles, rep : Reports, tl : {0, 1}, by : {"3btn", "6btn", "tp"}]
    BY <2>1, <2>2, <2>3 DEF ForwardInv, LimitInv, Outs, ModeNames
  <2>6. time \in 0..MaxTime /\ tp_cnt \in 0..17
    BY <2>1, <2>2 DEF LimitInv, CountInv
  <2>. QED
    BY <2>1, <2>2, <2>4, <2>5, <2>6 DEF PadsShapes, PadsTypeOK, ModeNames
<1>. QED
  BY <1>1, <1>2, <1>3, PTL DEF PadsSpec
=============================================================================
