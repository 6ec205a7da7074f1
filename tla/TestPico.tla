------------------------------ MODULE TestPico ------------------------------
(***************************************************************************)
(* testpico on a Mega Drive, with a 32X or without: main and the tests of  *)
(* g_tests, one access at a time (PicoTests, Pico32xTests), on the console *)
(* as they expect it (PicoVdp, PicoBoard, Pico32x), while the VDP empties  *)
(* its FIFO, a fill goes on, the Z80 runs its program, the SH2s run theirs,*)
(* timers overflow, and somebody may press RESET: the 68000 starts over    *)
(* and the rest of the console stays as it is.  Only a finished run rests  *)
(* (no wait of a test lasts for ever): TLC looks for deadlocks.            *)
(***************************************************************************)
EXTENDS Pico32xTests

CONSTANTS
  MaxResets,   \* bound: how often RESET is pressed
  LastAgain    \* bound: the last test in which it is pressed again
ASSUME TestAssumption == {MaxResets, LastAgain} \subseteq Nat

VARIABLES m,        \* the console: v, q, y, z, x, ram, mars (have_32x)
          test, op,  \* the test (0: main before the first) and its next access
          got,       \* what the test has read so far
          saved,     \* t_dma_ram_wrap's copy of what it overwrites
          failed,    \* the tests that have failed
          resets

vars == <<m, test, op, got, saved, failed, resets>>

\* main's set-up, each test with its number before it, the summary.
Accesses ==
  CASE test = 0 -> Len(MainSetup)
    [] test \in DOMAIN Tests -> Len(Number) + Len(Tests[test].ops)
    [] test > Len(Tests) -> Len(Summary)
AtEnd == op > Accesses
Finished == test > Len(Tests) /\ AtEnd
Now ==
  CASE test = 0 -> MainSetup[op]
    [] test \in DOMAIN Tests ->
         IF op <= Len(Number) THEN Number[op] ELSE Tests[test].ops[op - Len(Number)]
    [] test > Len(Tests) -> Summary[op]

\* An access ends; the processor takes what was pending when it began.
Settled(n) ==
  [n EXCEPT !.x.fresh = @ /\ ~m.x.fresh,
            !.q = Interrupts(n.v, @, Level(m.v, m.q)),
            !.v.busy = IF @ = "new" /\ m.v.busy = "new" THEN "on" ELSE @]
Does(n, values) ==
  /\ m' = Settled(n)
  /\ op' = op + 1
  /\ got' = got \o values
  /\ UNCHANGED <<test, saved, failed, resets>>
V(v) == Does([m EXCEPT !.v = v], <<>>)
Q(q) == Does([m EXCEPT !.q = q], <<>>)
Bit(b) == IF b THEN 1 ELSE 0

-----------------------------------------------------------------------------
(* The VDP's ports.                                                        *)

WriteReg(a) == a.op = "reg" /\ V(SetReg(m.v, a.r, a.x))
WriteFirst(a) == a.op = "c1" /\ V(Command1(m.v, a.lo, a.a))
WriteSecond(a) ==
  /\ a.op = "c2"
  /\ LET v == Command2(m.v, a.hi, a.a, a.dma) IN
     V(IF DmaStarts(v) THEN CopyDone(v, m.ram) ELSE v)
WriteData(a) == a.op = "data" /\ Room(m.v) /\ V(DataWrite(m.v, a.w))
ReadData(a) == a.op = "get" /\ m.v.fifo = <<>> /\ Does([m EXCEPT !.v = DataRead(@)], <<DataOf(m.v)>>)
KeepData(a) ==
  /\ a.op = "keep" /\ m.v.fifo = <<>>
  /\ Does([m EXCEPT !.v = DataRead(@), !.ram[a.i] = DataOf(m.v)], <<>>)

\* Reading the status forgets the first half of a command.
Read1(v) == [v EXCEPT !.pend = FALSE]
StatusOf(bit) ==
  CASE bit = "dma" -> Bit(m.v.busy # "no") [] bit = "f" -> Bit(m.q.vp)
    [] bit = "vb" -> Bit(m.q.line \in VintLine..(LastLine - 1) \/ "DISP" \notin m.v.reg["mode2"])
ReadStatus(a) == a.op = "status" /\ Does([m EXCEPT !.v = Read1(@)], <<StatusOf(a.bit)>>)
KeepStatus(a) ==
  /\ a.op = "keepbusy"
  /\ Does([m EXCEPT !.v = Read1(@), !.ram[4] = 0, !.ram[5] = 2 * StatusOf("dma")], <<>>)
WaitIdle(a) == a.op = "idle" /\ m.v.busy = "no" /\ V(Read1(m.v))
WaitFifo(a) == a.op = "fifo" /\ m.v.fifo = <<>> /\ V(Read1(m.v))

-----------------------------------------------------------------------------
(* Main RAM.                                                               *)

ReadRam(a) == a.op = "ram" /\ Does(m, <<m.ram[a.i]>>)
WriteRam(a) == a.op = "ramset" /\ Does([m EXCEPT !.ram[a.i] = a.w], <<>>)
RampRam(a) == a.op = "ramp" /\ Does([m EXCEPT !.ram = [i \in 0..35 |-> i + 1] @@ @], <<>>)
SaveRam(a) ==
  /\ a.op = "save"
  /\ saved' = <<m.ram[32766], m.ram[32767]>> /\ m' = Settled(m) /\ op' = op + 1
  /\ UNCHANGED <<test, got, failed, resets>>
RestoreRam(a) ==
  a.op = "restore" /\ Does([m EXCEPT !.ram[32766] = saved[1], !.ram[32767] = saved[2]], <<>>)

-----------------------------------------------------------------------------
(* Lines and interrupts.                                                   *)

To(line) == Does([m EXCEPT !.q = IF line = @.line THEN @ ELSE LinesPass(m.v, @, line),
                           !.x = Blanking(@, m.q, line), !.v = Read1(@)], <<>>)
AwaitLine(a) == a.op = "line" /\ To(a.l)
AwaitBlank(a) ==
  a.op = "blank" /\ To(IF StatusOf("vb") = 1 THEN m.q.line ELSE VintLine)
AwaitActive(a) == a.op = "active" /\ To(IF StatusOf("vb") = 1 THEN LastLine ELSE m.q.line)
\* Between two tests; how long it takes depends on what was printed.
TimePasses(a) == a.op = "later" /\ \E n \in a.ds : To((m.q.line + n) % (LastLine + 1))
\* The level of what is pending counts from the moment the mask falls.
MoveSr(a) == a.op = "sr" /\ Q([m.q EXCEPT !.mask = a.mask])
ClearCounts(a) ==
  /\ a.op = "clear"
  /\ Q([m.q EXCEPT !.hint = IF "hint" \in a.cs THEN NoCount ELSE @,
                   !.vint = IF "vint" \in a.cs THEN NoCount ELSE @])
ReadCount(a) ==
  /\ a.op = "saw"
  /\ LET c == IF a.c = "hint" THEN m.q.hint ELSE m.q.vint IN
     Does(m, <<CASE a.f = "n" -> c.n [] a.f = "first" -> c.first [] a.f = "last" -> c.last>>)
LineCounts == [ntsc |-> VcntVb(VcntLines(\hea, \he5)), pal |-> VcntVb(VcntLines(\h102, \hca))]
CountLines(a) == a.op = "vcnt" /\ Does(m, <<LineCounts>>)
\* The first line, and the one after a whole frame.
Frame(lines) == LET seen == VcntLoops(lines) IN <<seen[1], seen[Len(lines) + 2]>>
LineLoops == [ntsc |-> Frame(VcntLines(\hea, \he5)), pal |-> Frame(VcntLines(\h102, \hca))]
CountLoops(a) == a.op = "vloops" /\ Does(m, <<LineLoops>>)
ReadLine(a) == a.op = "vc" /\ Does(m, <<m.q.line>>)
\* In the next line 1.
SampleHb(a) ==
  /\ a.op = "hb"
  /\ \E on \in Hb[m.v.reg["mode4"]].on, off \in Hb[m.v.reg["mode4"]].off :
       Does([m EXCEPT !.q = LinesPass(m.v, @, 1), !.x = Blanking(@, m.q, 1), !.v = Read1(@)],
            [i \in DOMAIN a.at |-> Bit(a.at[i] \in on..(off - 1))])

-----------------------------------------------------------------------------
(* Z80 and sound chip.                                                     *)

HasBus == m.z.bus = "68k"
TakeTheBus(a) == a.op = "take" /\ Does([m EXCEPT !.z.bus = "68k"], <<>>)
ReleaseBus(a) == a.op = "release" /\ Does([m EXCEPT !.z.bus = "z80"], <<>>)
LoadZ80(a) == a.op = "zload" /\ Does([m EXCEPT !.z.cmd = NoCommand], <<>>)
ResetZ80(a) == a.op = "zreset" /\ Does([m EXCEPT !.z.left = <<>>], <<>>)
Command(a) == a.op = "zcmd" /\ Does([m EXCEPT !.z.cmd = IF HasBus THEN a.c ELSE @], <<>>)
\* A bit of the Z80's bank register; nine zeros make it 0, the ROM.
WriteBank(a) == a.op = "zbank" /\ Does([m EXCEPT !.z.bank = IF HasBus THEN "rom" ELSE @], <<>>)
\* Without the bus a write is lost.
WriteZ80(a) ==
  a.op = "zout" /\ Does([m EXCEPT !.z.out[a.x] = IF HasBus THEN a.b ELSE @], <<>>)
\* A long goes out as two words, of which the upper byte is written.
WriteLong(a) ==
  a.op = "zlong" /\ Does([m EXCEPT !.z.out = IF HasBus THEN (0 :> \h55) @@ (2 :> \h77) @@ @ ELSE @], <<>>)
ReadZ80(a) == a.op = "zin" /\ Does(m, <<m.z.out[a.x]>>)
ReadCommand(a) == a.op = "zend" /\ Does(m, <<Bit(m.z.cmd = NoCommand)>>)
\* burn10: long enough for what the Z80 or the SH2s have to do.
BurnTime(a) ==
  /\ a.op = "burn" /\ AtRest(m.x)
  /\ ~HasBus => m.z.cmd = NoCommand /\ m.z.left = <<>>
  /\ Does(m, <<>>)
WriteTimers(a) == a.op = "ym27" /\ Does([m EXCEPT !.y = Write27(@, a.run, a.run, a.reset)], <<>>)
AwaitTimer(a) == a.op = "ticked" /\ a.t \in m.y.flags /\ Does(m, <<>>)
ReadTimers(a) == a.op = "ym" /\ Does(m, <<YmStatus(m.y)>>)

-----------------------------------------------------------------------------
(* The 32X; the frame buffer and its counters hang the 68000 when FM = 1.  *)

X(x) == Does([m EXCEPT !.x = x], <<>>)
XValue(w) == Does(m, <<w>>)
WriteX(a) == a.op = "xw" /\ X(XWrite(m.x, a.a, a.w))
WriteXByte(a) == a.op = "xwb" /\ X(XWriteByte(m.x, a.a, a.w))
ReadX(a) == a.op = "xr" /\ XValue(XRead(m.x, a.a))
ReadXByte(a) == a.op = "xrb" /\ XValue(XReadByte(m.x, a.a))
ReadWarm(a) == a.op = "xwarm" /\ XValue(Bit(m.x.r[\h10] \in {\h1234, \hffff}))
AwaitX(a) == a.op = "xawait" /\ Word(m.x, a.a) # 0 /\ X(m.x)
ReadVector(a) == a.op = "vec" /\ Does(m, Vector(m.x, a.a))
WriteVector(a) == a.op = "hv" /\ X([m.x EXCEPT !.hv = a.w])
WriteFb(a) == a.op = "fbw" /\ ~m.x.fm /\ X(FbWord(m.x, a.i, a.w, a.over))
WriteFbByte(a) == a.op = "fbb" /\ ~m.x.fm /\ X(FbByte(m.x, a.i, a.b))
ReadFb(a) == a.op = "fbr" /\ ~m.x.fm /\ XValue(FbRead(m.x, a.i))
ReadCounter(a) == a.op = "cnt" /\ ~m.x.fm /\ XValue(m.x.cnt[a.p][a.k])
FillCounters(a) ==
  a.op = "cntfill" /\ ~m.x.fm /\ X([m.x EXCEPT !.cnt = [p \in Sh2 |-> [k \in 0..7 |-> a.n]]])
\* The mailbox is empty; an error that was counted is cleared.
CommandTaken(a) ==
  /\ a.op = "xdone" /\ Word(m.x, \h20) = 0
  /\ X(IF m.x.b[\h22] = 0 THEN m.x ELSE Set(m.x, \h22, 0))

-----------------------------------------------------------------------------
(* main's loop over the tests.                                             *)

\* expect, expect_bits, expect_range: all that was read is as it should be.
AsExpected == got = Tests[test].want
Verdict ==
  /\ AtEnd /\ test \in DOMAIN Tests
  /\ failed' = IF AsExpected THEN failed ELSE failed \cup {test}
  /\ test' = test + 1 /\ op' = 1 /\ got' = <<>>
  /\ UNCHANGED <<m, saved, resets>>
FirstTest ==
  /\ AtEnd /\ test = 0 /\ AtRest(m.x)
  /\ test' = 1 /\ op' = 1 /\ got' = <<>>
  /\ UNCHANGED <<m, saved, failed, resets>>
\* No 32X, or R_SKIP: it is off.
Skipped ==
  /\ test \in DOMAIN Tests /\ op = Len(Number) + 1
  /\ IF m.mars THEN test = 1 /\ ~m.x.aden ELSE Of32(test)
Skip ==
  /\ Skipped
  /\ test' = test + 1 /\ op' = 1
  /\ UNCHANGED <<m, got, saved, failed, resets>>
\* px32x_switch_rv
SwitchRv ==
  /\ Finished /\ m.x.aden /\ Rv(m.x)
  /\ m' = [m EXCEPT !.x.r[\h06] = 0]
  /\ UNCHANGED <<test, op, got, saved, failed, resets>>

Access(a) ==
  \/ WriteReg(a) \/ WriteFirst(a) \/ WriteSecond(a) \/ WriteData(a) \/ ReadData(a)
  \/ KeepData(a) \/ ReadStatus(a) \/ KeepStatus(a) \/ WaitIdle(a) \/ WaitFifo(a)
  \/ ReadRam(a) \/ WriteRam(a) \/ RampRam(a) \/ SaveRam(a) \/ RestoreRam(a)
  \/ AwaitLine(a) \/ AwaitBlank(a) \/ AwaitActive(a) \/ TimePasses(a)
  \/ MoveSr(a) \/ ClearCounts(a) \/ ReadCount(a) \/ CountLines(a) \/ CountLoops(a)
  \/ ReadLine(a) \/ SampleHb(a) \/ WriteBank(a)
  \/ TakeTheBus(a) \/ ReleaseBus(a) \/ LoadZ80(a) \/ ResetZ80(a) \/ Command(a)
  \/ WriteZ80(a) \/ WriteLong(a) \/ ReadZ80(a) \/ ReadCommand(a) \/ BurnTime(a)
  \/ WriteTimers(a) \/ AwaitTimer(a) \/ ReadTimers(a)
  \/ WriteX(a) \/ WriteXByte(a) \/ ReadX(a) \/ ReadXByte(a) \/ ReadWarm(a) \/ AwaitX(a)
  \/ ReadVector(a) \/ WriteVector(a) \/ WriteFb(a) \/ WriteFbByte(a) \/ ReadFb(a)
  \/ ReadCounter(a) \/ FillCounters(a) \/ CommandTaken(a)
Program68k ==
  \/ ~AtEnd /\ ~Skipped /\ \E a \in {Now} : Access(a)
  \/ Verdict \/ FirstTest \/ Skip \/ SwitchRv

-----------------------------------------------------------------------------
(* The rest of the console.                                                *)

Hardware(n) == m' = n /\ UNCHANGED <<test, op, got, saved, failed, resets>>
FifoDrains == m.v.fifo # <<>>
              /\ Hardware([m EXCEPT !.v = [Store(@, Head(@.fifo)) EXCEPT !.fifo = Tail(@)]])
\* Not before the status has been read once.
FillEnds ==
  /\ m.v.busy = "on" \/ (m.v.busy = "new" /\ ~AtEnd /\ Now.op = "idle")
  /\ Hardware([m EXCEPT !.v = FillDone(@)])
Z80Runs == Z80May(m) /\ Hardware(Z80Step(m))
Sh2Runs == \E p \in Sh2 : Sh2Step(m.x, p) # m.x /\ Hardware([m EXCEPT !.x = Sh2Step(@, p)])
TimerTicks ==
  \E t \in m.y.run : Overflow(m.y, t) # m.y /\ Hardware([m EXCEPT !.y = Overflow(@, t)])

\* The start-up code masks the interrupts and calls main.  Not while the
\* 32X's tests run: t_32x_reset_btn and t_32x_init expect what
\* t_32x_reset_prep and t_32x_reset_btn leave.
PressReset ==
  /\ resets < MaxResets /\ (resets = 0 \/ test <= LastAgain)
  /\ IF Finished THEN m.x.aden => ~Rv(m.x) ELSE ~Of32(test) /\ ~m.x.aden
  /\ m' = [m EXCEPT !.q.mask = 6, !.x = Resets32(@)]
  /\ test' = 0 /\ op' = 1 /\ got' = <<>> /\ saved' = <<>>
  /\ failed' = {}
  /\ resets' = resets + 1

PicoInit ==
  /\ \E mars \in BOOLEAN :
       m = [mars |-> mars, v |-> VdpInit, q |-> IrqInit, y |-> YmInit, z |-> Z80Init, x |-> Board32Init,
            ram |-> [i \in RamKept |-> 0]]
  /\ test = 0 /\ op = 1 /\ got = <<>> /\ saved = <<>>
  /\ failed = {} /\ resets = 0
Console == FifoDrains \/ FillEnds \/ Z80Runs \/ TimerTicks \/ Sh2Runs
\* After the summary main waits for a button.
Rest == Finished /\ UNCHANGED vars
PicoNext == Program68k \/ Console \/ PressReset \/ Rest
PicoSpec == PicoInit /\ [][PicoNext]_vars

-----------------------------------------------------------------------------
(* Properties.                                                             *)

\* On a console that is what the tests say it is every test passes, in
\* whatever state the test before it left the console and wherever RESET
\* stopped the run before: a failure is a fact about the console (main's
\* "failed %d").
TestsPass == failed = {}

\* Between two tests the console is as the tests assume it: no half of a
\* command, no fill, an increment of 2, the display and DMA on, 40 cells,
\* no interrupt, the font's colours, the Z80 stopped and off the bus; and
\* "all tests assume RV=1 FM=0" (main.c:2450) once the 32X is on.
ConsoleReady ==
  test > 0 /\ op = 1 =>
    /\ ~m.v.pend /\ m.v.busy = "no"
    /\ m.v.reg["inc"] = 2 /\ m.v.reg["mode2"] = {"MD", "DMA", "DISP"}
    /\ m.v.reg["mode1"] = {} /\ m.v.reg["mode4"] = "h40"
    /\ m.q.mask >= 6 /\ m.z.bus = "68k"
    /\ <<m.v.cram[0], m.v.cram[30], m.v.cram[62], m.v.cram[94]>> = <<0, \heee, \h0e0, \h00e>>
         \/ m.v.fifo # <<>>
    /\ m.x.aden /\ test \in 2..Len(Tests) => Rv(m.x) /\ ~m.x.fm
=============================================================================
