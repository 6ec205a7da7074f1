----------------------------- MODULE PicoBoard ------------------------------
(***************************************************************************)
(* The rest of the console that testpico tests: interrupts of the VDP and  *)
(* how the 68000 takes them (with the handlers test_hint and test_vint),   *)
(* the V counter, the Z80 with the test program z80_test.s80, the timers   *)
(* of the sound chip.  Pure operators, like PicoVdp's.                     *)
(***************************************************************************)
EXTENDS PicoVdp, FiniteSets, FiniteSetsExt

LastHint == 224    \* the hint counter runs on lines 0..224
VintLine == 224
LastLine == 261

-----------------------------------------------------------------------------
(* Interrupts: vp and hp are pending; q.load is what the hint counter was  *)
(* loaded with in the last blanking; the rest is what the handlers saw.    *)

NoCount == [n |-> 0, first |-> -1, last |-> -1]
IrqInit == [load |-> 255, line |-> 0, vp |-> FALSE, hp |-> FALSE, mask |-> 6,
            hint |-> NoCount, vint |-> NoCount]

Ie0(v) == "IE0" \in v.reg["mode2"]
Ie1(v) == "IE1" \in v.reg["mode1"]
Level(v, q) == IF q.vp /\ Ie0(v) THEN 6 ELSE IF q.hp /\ Ie1(v) THEN 4 ELSE 0
Counted(c, n, first, last) ==
  [n |-> c.n + n, first |-> IF c.n = 0 THEN first ELSE c.first, last |-> last]

\* The processor takes what it sampled; what the VDP clears is the highest
\* that is enabled when it is acknowledged.
Take(v, q, level) ==
  LET acked == IF q.vp /\ Ie0(v) THEN [q EXCEPT !.vp = FALSE]
               ELSE IF Ie1(v) THEN [q EXCEPT !.hp = FALSE] ELSE q IN
  IF level <= q.mask THEN q
  ELSE IF level = 6 THEN [acked EXCEPT !.vint = Counted(@, 1, q.line, q.line)]
       ELSE [acked EXCEPT !.hint = Counted(@, 1, q.line, q.line)]
\* At the end of an instruction: the level it began with, then, as the
\* handlers return, what is still there.
Interrupts(v, q, sampled) ==
  LET q1 == Take(v, q, sampled)
      again(p) == Take(v, p, Level(v, p)) IN
  IF q1 = q THEN q ELSE again(again(q1))

\* Lines go by until line; hints that are not masked are taken one by one.
Passed(q, line) ==
  IF line > q.line THEN (q.line + 1)..line ELSE ((q.line + 1)..LastLine) \cup (0..line)
Hints(load, r10, lines) ==
  {x \in lines \cap (0..LastHint) : x >= load /\ (x - load) % (r10 + 1) = 0}
\* The counter is loaded in every line of the blanking.
LinesPass(v, q, line) ==
  LET passed == Passed(q, line)
      wraps == line <= q.line
      r10 == v.reg["r10"]
      loaded == IF q.line < LastLine THEN r10 ELSE q.load
      hints == Hints(q.load, r10, {x \in passed : x > q.line})
               \cup Hints(loaded, r10, {x \in passed : x <= line /\ wraps})
      taken == hints # {} /\ Ie1(v) /\ q.mask < 4 IN
  [q EXCEPT !.line = line,
            !.load = IF \E x \in passed : x > LastHint THEN r10 ELSE @,
            !.vp = @ \/ VintLine \in passed,
            !.hp = @ \/ (hints # {} /\ ~taken),
            !.hint = IF taken THEN Counted(@, Cardinality(hints), Min(hints), Max(hints)) ELSE @]

\* What test_vcnt_vb stores: the first line, each jump of the counter or
\* change of blanking with the line before it, the last, and the count.
VcntLines(jumpFrom, jumpTo) ==
  [x \in 1..(jumpFrom + 1) |-> [c |-> (x - 1) % 256, vb |-> x - 1 >= VintLine]]
  \o [x \in 1..(256 - jumpTo) |-> [c |-> jumpTo + x - 1, vb |-> jumpTo + x - 1 < 255]]
VcntVb(lines) ==
  LET jump(i) == lines[i].c # (lines[i - 1].c + 1) % 256 \/ lines[i].vb # lines[i - 1].vb
      jumps == SetToSortSeq({i \in 2..Len(lines) : jump(i)}, <) IN
  [out |-> <<lines[1]>> \o FlattenSeq([k \in DOMAIN jumps |-> SubSeq(lines, jumps[k] - 1, jumps[k])])
           \o <<lines[1]>>,
   count |-> Len(lines) - 1]
\* What test_vcnt_loops stores: from the last line on, the counter in each of
\* LoopLines lines; how many loops fit into one is left out.
LoopLines == 315
VcntLoops(lines) == [k \in 1..LoopLines |-> lines[((k - 2) % Len(lines)) + 1].c]

\* test_hb takes sixteen samples of the status in a line: the horizontal
\* blanking begins with one of the first and ends with one of the last.
Hb == [h40 |-> [on |-> 0..2, off |-> 8..11], h32 |-> [on |-> 1..4, off |-> 9..11]]

-----------------------------------------------------------------------------
(* The timers of the sound chip: register 27h and the status.              *)

YmInit == [run |-> {}, on |-> {}, flags |-> {}]
Write27(y, run, on, reset) == [run |-> run, on |-> on, flags |-> y.flags \ reset]
Overflow(y, t) == [y EXCEPT !.flags = @ \cup ({t} \cap y.on)]
YmStatus(y) == (IF "A" \in y.flags THEN 1 ELSE 0) + (IF "B" \in y.flags THEN 2 ELSE 0)

-----------------------------------------------------------------------------
(* The Z80: its test program, the command block at 1000h, results at 1100h.*)

Stop == "end"
Reading == {"ram", "ym", "vdp", "bank"}     \* what z80_read_loop lets it read
Program == [copy |-> <<"byte", "byte", Stop>>, idle |-> <<"vcnt", Stop>>,
            timerA |-> <<"prepare", "B", "stop", "startA", "A", "vcnt", Stop>>,
            timerB |-> <<"prepare", "B", "stop", "startB", "B", "vcnt", Stop>>]
NoCommand == "none"
Measured == 1    \* a line number; which one is left out
\* The line on which it ends: the bus of the VDP, and that of the 68000,
\* where the bank register leads, make it wait.
EndLine(z) ==
  CASE z.cmd \in {"ram", "ym"} -> \h80 [] z.cmd = "vdp" -> \h91
    [] z.cmd = "bank" -> IF z.bank = "rom" THEN \h95 ELSE 0 [] OTHER -> Measured
Z80Init == [bus |-> "z80", cmd |-> NoCommand, left |-> <<>>, out |-> [x \in 0..3 |-> 0], k |-> 0,
            bank |-> "other"]

\* One step of the program on the board m.
Z80Step(m) ==
  LET z == m.z
      rest == [m EXCEPT !.z.left = Tail(@)]
      v == Emptied(m.v)
      b == IF z.k = 0 THEN Hi(DataOf(v)) ELSE Lo(DataOf(v)) IN
  CASE z.left = <<>> -> [m EXCEPT !.z.left = Program[IF z.cmd \in Reading THEN "idle" ELSE z.cmd], !.z.k = 0]
    [] z.left # <<>> ->
       CASE Head(z.left) = "byte" ->
              [rest EXCEPT !.z.out[z.k] = b, !.z.k = @ + 1, !.v = DataRead(v)]
         [] Head(z.left) = "vcnt" -> [rest EXCEPT !.z.out[0] = EndLine(z)]
         [] Head(z.left) = "prepare" -> [rest EXCEPT !.y = Write27(@, {"B"}, {"B"}, {"A", "B"})]
         [] Head(z.left) = "stop" -> [rest EXCEPT !.y = Write27(@, {}, {}, {}), !.z.out[2] = Measured]
         [] Head(z.left) = "startA" -> [rest EXCEPT !.y = Write27(@, {"A"}, {"A"}, {"A", "B"})]
         [] Head(z.left) = "startB" -> [rest EXCEPT !.y = Write27(@, {"B"}, {"B"}, {"A", "B"})]
         [] Head(z.left) \in {"A", "B"} -> rest
         [] Head(z.left) = Stop -> [rest EXCEPT !.z.cmd = NoCommand]
\* With the bus, a command to carry out, and a timer it waits for.
Z80May(m) ==
  /\ m.z.bus = "z80"
  /\ m.z.left = <<>> => m.z.cmd # NoCommand
  /\ m.z.left # <<>> /\ Head(m.z.left) \in {"A", "B"} => Head(m.z.left) \in m.y.flags
=============================================================================
