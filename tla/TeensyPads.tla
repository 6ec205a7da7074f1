----------------------------- MODULE TeensyPads -----------------------------
(***************************************************************************)
(* The firmware of teensytp (main.c): a Teensy on a controller port of the *)
(* Mega Drive.  The console moves TH (and TR, for a Team Player), the pin  *)
(* interrupts put the answer on the data lines, and the main loop takes    *)
(* packets from USB and ages the six button phase.  Port 1 is modelled;    *)
(* port 2 has the same two button handlers and nothing in Team Player mode.*)
(*                                                                         *)
(* The pin interrupts have priority 0 and some twenty instructions at      *)
(* 72 MHz, so they run whole and before the console's next access, except  *)
(* while the main loop has interrupts disabled.  The main loop can be      *)
(* interrupted between any two of its accesses to the shared state g.      *)
(*                                                                         *)
(* The contents of a report are abstracted to its number: 0 is "nothing    *)
(* pressed", a slot holds the number of the report it was filled from.     *)
(*                                                                         *)
(* An operator named ..._Bug is the definition after it with a mistake.    *)
(***************************************************************************)
EXTENDS Integers, FiniteSets

CONSTANTS
  Games,        \* what the console may poll for: "btn", "tp"
  Modes,        \* the modes that PKT_UPD_MODE packets select
  Players,      \* the Team Player pads that reports are about
  MaxReports,   \* bound: PKT_UPD_BTNS packets
  MaxSwitches,  \* bound: PKT_UPD_MODE packets
  MaxTime,      \* bound: milliseconds
  MaxEdges,     \* bound: edges of TH before a button game stops polling
  MaxPolls      \* bound: Team Player sequences

ASSUME PadsAssumption ==
  /\ Games \subseteq {"btn", "tp"} /\ Modes \subseteq {"3btn", "6btn", "tp"}
  /\ Players \subseteq 0..3
  /\ {MaxReports, MaxSwitches, MaxTime, MaxEdges, MaxPolls} \subseteq Nat

VARIABLES
  th, tr,     \* the console's lines
  pend,       \* PORTD_ISFR: the pins with an edge that is not handled yet
  out,        \* GPIOD_PDOR: [slot, rep, tl, by], the entry shown, TL, and
              \* the mode of the handler that wrote it
  btn,        \* g.btn_state[0].b6: the report in each of the eight slots
  phase, time,\* g.btn_state[0].phase and .time
  tp,         \* g.tp_state: the report in each of the 16 nibbles
  tp_cnt, pl1th, mode,
  vec,        \* the vector of the port's interrupt
  irq,        \* interrupts are enabled
  main,       \* main loop: at, now, and the packet it is handling
  clock,      \* millis()
  polled,     \* the console's game, and its poll: edges of TH, rises of TH
              \* and edges of TR since it began, ms since the last edge,
              \* fresh: it began after the last mode switch, raced: an edge
              \* of it fell into a pass of the main loop whose reading of
              \* millis() was out of date
  sent        \* packets so far

lines == <<th, tr, polled>>
state == <<btn, phase, time, tp, tp_cnt, pl1th, mode>>
vars == <<lines, pend, out, state, vec, irq, main, clock, sent>>

Slots == 0..7
Nibbles == 0..15
Pads(p) == {8 + 2 * p, 9 + 2 * p}

-----------------------------------------------------------------------------
(* The pin interrupts.                                                     *)

Show(slot, rep, tl) == out' = [slot |-> slot, rep |-> rep, tl |-> tl, by |-> vec]
\* In the button modes TL is a button, B or A.
TlOf(report) == IF report = 0 THEN {1} ELSE {0, 1}
IsrKeep == UNCHANGED <<lines, btn, tp, mode, vec, irq, main, clock, sent>>

Isr3btn ==
  /\ vec = "3btn" /\ irq /\ pend # {}
  /\ pend' = {} /\ \E tl \in TlOf(btn[th]) : Show(th, btn[th], tl)
  /\ UNCHANGED <<phase, time, tp_cnt, pl1th>> /\ IsrKeep

\* SixButtonRead: the table is left one phase too early.
Isr6btn_Bug ==
  LET counted == phase + th
      slot == 2 * (IF counted < 3 THEN counted ELSE 0) + th IN
  /\ vec = "6btn" /\ irq /\ pend # {}
  /\ pend' = {} /\ \E tl \in TlOf(btn[slot]) : Show(slot, btn[slot], tl)
  /\ phase' = counted /\ time' = clock
  /\ UNCHANGED <<tp_cnt, pl1th>> /\ IsrKeep
Isr6btn ==
  LET counted == phase + th
      slot == 2 * (IF counted < 4 THEN counted ELSE 0) + th IN
  /\ vec = "6btn" /\ irq /\ pend # {}
  /\ pend' = {} /\ \E tl \in TlOf(btn[slot]) : Show(slot, btn[slot], tl)
  /\ phase' = counted /\ time' = clock
  /\ UNCHANGED <<tp_cnt, pl1th>> /\ IsrKeep

\* pl1_isr_tp: an edge of TH restarts the sequence, one of TR advances it.
\* AckedNibble: the count is advanced after the nibble has been shown.
IsrTp_Bug ==
  LET th1 == IF "th" \in pend THEN th ELSE pl1th
      cnt1 == IF "th" \in pend THEN 1 - th ELSE tp_cnt
      cnt == IF "tr" \in pend /\ th1 = 0 THEN cnt1 + 1 ELSE cnt1 IN
  /\ vec = "tp" /\ irq /\ pend # {}
  /\ pend' = {} /\ pl1th' = th1 /\ tp_cnt' = cnt
  /\ IF "th" \in pend \/ th1 = 0 THEN Show(cnt1 % 16, tp[cnt1 % 16], tr) ELSE UNCHANGED out
  /\ UNCHANGED <<phase, time>> /\ IsrKeep
IsrTp ==
  LET th1 == IF "th" \in pend THEN th ELSE pl1th
      cnt1 == IF "th" \in pend THEN 1 - th ELSE tp_cnt
      cnt == IF "tr" \in pend /\ th1 = 0 THEN cnt1 + 1 ELSE cnt1 IN
  /\ vec = "tp" /\ irq /\ pend # {}
  /\ pend' = {} /\ pl1th' = th1 /\ tp_cnt' = cnt
  /\ IF "th" \in pend \/ th1 = 0 THEN Show(cnt % 16, tp[cnt % 16], tr) ELSE UNCHANGED out
  /\ UNCHANGED <<phase, time>> /\ IsrKeep

Isr == Isr3btn \/ Isr6btn \/ IsrTp

-----------------------------------------------------------------------------
(* The main loop.                                                          *)

MainKeep == UNCHANGED <<lines, clock, sent>>
At(from, to) == main.at = from /\ main' = [main EXCEPT !.at = to]

MainNow ==
  /\ main.at = "top"
  /\ main' = [main EXCEPT !.at = "age", !.now = clock]
  /\ UNCHANGED <<pend, out, state, vec, irq>> /\ MainKeep

\* "now - time" is unsigned: a time after now is an enormous age.
Aged == phase # 0 /\ main.now - time \notin 0..1

MainAge == /\ At("age", IF Aged THEN "reset" ELSE "usb")
           /\ UNCHANGED <<pend, out, state, vec, irq>> /\ MainKeep
MainReset == /\ At("reset", "usb")
             /\ phase' = 0
             /\ UNCHANGED <<pend, out, btn, time, tp, tp_cnt, pl1th, mode, vec, irq>> /\ MainKeep
MainNoPacket == /\ At("usb", "top")
                /\ UNCHANGED <<pend, out, state, vec, irq>> /\ MainKeep

\* usb_rawhid_recv returns a packet of the host.
MainModePacket ==
  /\ main.at = "usb" /\ sent.switches < MaxSwitches
  /\ \E m \in Modes :
       main' = [main EXCEPT !.at = "clear", !.mode = m]
  /\ irq' = FALSE
  /\ sent' = [sent EXCEPT !.switches = @ + 1]
  /\ polled' = [polled EXCEPT !.fresh = FALSE]
  /\ UNCHANGED <<th, tr, pend, out, state, vec, clock>>
MainBtnPacket ==
  /\ main.at = "usb" /\ sent.reports < MaxReports
  /\ \E who \in SUBSET Players :
       main' = [main EXCEPT !.who = IF mode = "tp" THEN who ELSE {},
                  !.at = IF mode = "tp" THEN "tp0" ELSE IF 0 \in who THEN "word" ELSE "top"]
  /\ sent' = [sent EXCEPT !.reports = @ + 1]
  /\ UNCHANGED <<lines, pend, out, state, vec, irq, clock>>

\* switch_mode, with interrupts disabled by do_usb.
MainClear ==
  /\ At("clear", "pin")
  /\ btn' = [s \in Slots |-> 0] /\ phase' = 0
  /\ tp' = [s \in Nibbles |-> 0] /\ tp_cnt' = 0 /\ pl1th' = th
  /\ UNCHANGED <<pend, out, time, mode, vec, irq>> /\ MainKeep
\* pinMode turns the pin's interrupt off; attachInterrupt clears its flag,
\* turns it on again and, at its end, enables interrupts.
MainPin ==
  /\ At("pin", "vector")
  /\ pend' = pend \ {"tr"}
  /\ irq' = (main.mode = "tp")
  /\ UNCHANGED <<out, state, vec>> /\ MainKeep
MainVector ==
  /\ At("vector", "mode")
  /\ vec' = main.mode
  /\ UNCHANGED <<pend, out, state, irq>> /\ MainKeep
MainMode ==
  /\ At("mode", "top")
  /\ mode' = main.mode /\ irq' = TRUE
  /\ UNCHANGED <<pend, out, btn, phase, time, tp, tp_cnt, pl1th, vec>> /\ MainKeep

\* update_btns_btn: one word for the slots of the three button answer, then
\* the other four, byte by byte.
Fill(from, to, slots) ==
  /\ At(from, to)
  /\ btn' = [s \in Slots |-> IF s \in slots THEN sent.reports ELSE btn[s]]
  /\ UNCHANGED <<pend, out, phase, time, tp, tp_cnt, pl1th, mode, vec, irq>> /\ MainKeep

\* ReportsForward: the two halves are written by a store each.
MainWord_Bug == IF btn[1] # sent.reports THEN Fill("word", "word", {1})
                ELSE Fill("word", "four", {0, 2, 3})
MainWord == Fill("word", "four", 0..3)
MainFour == Fill("four", "five", {4})
MainFive == Fill("five", "six", {5})
MainSix == Fill("six", "seven", {6})
MainSeven == Fill("seven", "top", {7})

\* update_btns_tp, for each changed pad its two nibbles.
TpNext == LET left == {p \in Players : p \in main.who} IN
          CHOOSE p \in left : \A q \in left : p <= q
MainTp0 ==
  /\ main.at = "tp0"
  /\ IF main.who = {}
     THEN main' = [main EXCEPT !.at = "top"] /\ UNCHANGED tp
     ELSE /\ tp' = [tp EXCEPT ![8 + 2 * TpNext] = sent.reports]
          /\ main' = [main EXCEPT !.at = "tp1"]
  /\ UNCHANGED <<pend, out, btn, phase, time, tp_cnt, pl1th, mode, vec, irq>> /\ MainKeep
MainTp1 ==
  /\ main.at = "tp1"
  /\ tp' = [tp EXCEPT ![9 + 2 * TpNext] = sent.reports]
  /\ main' = [main EXCEPT !.at = "tp0", !.who = @ \ {TpNext}]
  /\ UNCHANGED <<pend, out, btn, phase, time, tp_cnt, pl1th, mode, vec, irq>> /\ MainKeep

Main ==
  \/ MainNow \/ MainAge \/ MainReset \/ MainNoPacket
  \/ MainModePacket \/ MainClear \/ MainPin \/ MainVector \/ MainMode
  \/ MainBtnPacket \/ MainWord \/ MainFour \/ MainFive \/ MainSix \/ MainSeven
  \/ MainTp0 \/ MainTp1

-----------------------------------------------------------------------------
(* The console, and time.                                                  *)

\* Edges pile up only while interrupts are off.
IsrDone == irq => pend = {}
ConsoleKeep == UNCHANGED <<out, state, vec, irq, main, clock, sent>>
\* The interrupt of the TR pin is on from attachInterrupt, before the vector
\* and the mode are those of the Team Player, to pinMode.
TrIsOn == IF main.at \in {"vector", "mode"} THEN main.mode = "tp" ELSE mode = "tp"
TrEdge == IF TrIsOn THEN {"tr"} ELSE {}

\* A poll begins on an idle pad (the last one was a frame ago), with TH high.
IdlePad == polled.idle >= 2 /\ phase = 0
\* The edge's time will be after the "now" that the main loop compares it with.
Late == main.at = "age" /\ main.now # clock
BeginPoll ==
  /\ polled.game = "btn" /\ th = 1 /\ IdlePad /\ IsrDone /\ polled.edges < MaxEdges
  /\ th' = 0 /\ pend' = pend \cup {"th"}
  /\ polled' = [polled EXCEPT !.edges = @ + 1, !.rises = 0, !.idle = 0, !.raced = Late,
                  !.fresh = main.at \notin {"clear", "pin", "vector", "mode"}]
  /\ UNCHANGED tr /\ ConsoleKeep
\* ... and goes on within a millisecond.
MoveTh ==
  /\ polled.game = "btn" /\ IsrDone /\ polled.idle <= 1 /\ polled.edges < MaxEdges
  /\ th' = 1 - th /\ pend' = pend \cup {"th"}
  /\ polled' = [polled EXCEPT !.edges = @ + 1, !.rises = @ + 1 - th, !.idle = 0, !.raced = @ \/ Late]
  /\ UNCHANGED tr /\ ConsoleKeep

\* Team Player: TH falls with TR high, TR moves when TL has answered, and
\* the sequence may be given up by raising both.
TpBegin ==
  /\ polled.game = "tp" /\ th = 1 /\ IsrDone /\ polled.edges < MaxPolls
  /\ th' = 0 /\ pend' = pend \cup {"th"}
  /\ polled' = [polled EXCEPT !.edges = @ + 1, !.rises = 0,
                  !.fresh = main.at \notin {"clear", "pin", "vector"}]
  /\ UNCHANGED tr /\ ConsoleKeep
TpMoveTr ==
  /\ polled.game = "tp" /\ th = 0 /\ IsrDone /\ out.tl = tr /\ polled.rises < 16
  /\ tr' = 1 - tr /\ pend' = pend \cup TrEdge
  /\ polled' = [polled EXCEPT !.rises = @ + 1]
  /\ UNCHANGED th /\ ConsoleKeep
TpEnd ==
  /\ polled.game = "tp" /\ th = 0 /\ IsrDone
  /\ th' = 1 /\ tr' = 1
  /\ pend' = pend \cup {"th"} \cup (IF tr = 0 THEN TrEdge ELSE {})
  /\ polled' = [polled EXCEPT !.rises = 0]
  /\ ConsoleKeep

Console == BeginPoll \/ MoveTh \/ TpBegin \/ TpMoveTr \/ TpEnd

\* No Team Player answer depends on the time.
Tick ==
  /\ polled.game = "btn" /\ clock < MaxTime /\ IsrDone
  /\ clock' = clock + 1
  /\ polled' = [polled EXCEPT !.idle = IF @ < 2 THEN @ + 1 ELSE 2]
  /\ UNCHANGED <<th, tr, pend, out, state, vec, irq, main, sent>>

-----------------------------------------------------------------------------
PadsInit ==
  /\ th = 1 /\ tr = 1 /\ pend = {}
  /\ out = [slot |-> 1, rep |-> 0, tl |-> 1, by |-> "3btn"]
  /\ btn = [s \in Slots |-> 0] /\ phase = 0 /\ time = 0
  /\ tp = [s \in Nibbles |-> 0] /\ tp_cnt = 0 /\ pl1th = 1
  /\ mode = "3btn" /\ vec = "3btn" /\ irq = TRUE
  /\ main = [at |-> "top", now |-> 0, mode |-> "3btn", who |-> {}]
  /\ clock = 0
  /\ polled \in [game : Games, edges : {0}, rises : {0}, idle : {2}, fresh : {FALSE}, raced : {FALSE}]
  /\ sent = [reports |-> 0, switches |-> 0]

PadsNext == Isr \/ Main \/ Console \/ Tick
PadsSpec == PadsInit /\ [][PadsNext]_vars

-----------------------------------------------------------------------------
Reports == 0..MaxReports
MainPoints == {"top", "age", "reset", "usb", "clear", "pin", "vector", "mode",
               "word", "four", "five", "six", "seven", "tp0", "tp1"}

(***************************************************************************)
(* The firmware's state and the lines: slots, nibbles, TL and the Team     *)
(* Player count stay within the tables they index.                         *)
(***************************************************************************)
PadsTypeOK ==
  /\ th \in {0, 1} /\ tr \in {0, 1} /\ pend \subseteq {"th", "tr"}
  /\ out \in [slot : Nibbles, rep : Reports, tl : {0, 1}, by : {"3btn", "6btn", "tp"}]
  /\ btn \in [Slots -> Reports] /\ tp \in [Nibbles -> Reports]
  /\ phase \in Nat /\ time \in 0..MaxTime /\ tp_cnt \in 0..17 /\ pl1th \in {0, 1}
  /\ {mode, vec, main.mode} \subseteq {"3btn", "6btn", "tp"}
  /\ irq \in BOOLEAN /\ main.at \in MainPoints /\ main.who \subseteq Players

(***************************************************************************)
(* Whenever no interrupt is outstanding the lines of a button pad show the *)
(* half of the answer that TH asks for, whatever the main loop is doing    *)
(* to the answers, in a poll that began after the last mode switch.        *)
(***************************************************************************)
LinesFollowTh == vec # "tp" /\ pend = {} /\ polled.fresh => out.slot % 2 = th

(***************************************************************************)
(* In a poll of a six button pad that began after the last mode switch the *)
(* answers come in the order of the table in update_btns_btn: the second   *)
(* rise of TH ends the plain answers, ?0SA 0000 follows, and the third     *)
(* rise brings ?1CB MXYZ.  The one thing that may disturb it is main's     *)
(* aging, when an edge falls between its reading of millis() and the       *)
(* comparison and millis() has moved on: "now - time" is then an enormous  *)
(* age and the phase is lost.  Even so the answer is of the half that TH   *)
(* selects and of a phase no later than the one asked for (the game sees a *)
(* three button pad), and the next poll is right again.                    *)
(***************************************************************************)
SixButtonRead ==
  polled.game = "btn" /\ vec = "6btn" /\ polled.fresh /\ pend = {} /\ polled.rises < 4
    => /\ out.slot % 2 = th /\ out.slot <= 2 * polled.rises + th
       /\ ~polled.raced => out.slot = 2 * polled.rises + th

(***************************************************************************)
(* The two halves of a three button answer change together (the word in    *)
(* btn_state is there "for more atomic change"): the console never sees a  *)
(* report and then an older one.                                           *)
(***************************************************************************)
ReportsForward ==
  [][vec = "3btn" /\ mode = "3btn" /\ main.at \notin {"clear", "pin", "vector", "mode"}
       => out'.rep >= out.rep \/ out'.rep = 0]_vars

(***************************************************************************)
(* Team Player: once TL answers the console's TR, the nibble on the lines  *)
(* is the one the console has asked for, in every sequence that began with *)
(* the handler of the Team Player in place, whatever the switch has made   *)
(* of the one before.  In a sequence that the switch cuts into, with edges *)
(* that are taken by the old handler after attachInterrupt has enabled     *)
(* interrupts, nibbles may come again but none comes before its turn.      *)
(***************************************************************************)
AckedNibble ==
  polled.game = "tp" /\ vec = "tp" /\ th = 0 /\ "th" \notin pend /\ out.tl = tr
    => /\ polled.fresh => out.slot = (1 + polled.rises) % 16
       /\ out.by = "tp" /\ polled.rises < 15 => out.slot <= 1 + polled.rises
=============================================================================
