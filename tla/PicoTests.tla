----------------------------- MODULE PicoTests ------------------------------
(***************************************************************************)
(* testpico's tests for the Mega Drive as main.c has them: the accesses    *)
(* each one makes, in order, and the values it expects to have read.       *)
(* TestPico carries them out one by one.                                   *)
(*                                                                         *)
(* An operator named ..._Bug is the definition after it with a mistake.    *)
(***************************************************************************)
EXTENDS PicoBoard

Op(name) == <<[op |-> name]>>
Reg(r, x) == <<[op |-> "reg", r |-> r, x |-> x]>>
Data(w) == <<[op |-> "data", w |-> w]>>
Data32(hi, lo) == Data(hi) \o Data(lo)
Times(n, ops) == [i \in 1..(n * Len(ops)) |-> ops[((i - 1) % Len(ops)) + 1]]

-----------------------------------------------------------------------------
(* CTL_WRITE_*, CTL_READ_*, do_setup_dma.                                  *)

First(t, a) == <<[op |-> "c1", lo |-> [vram |-> 1, cram |-> 3, vsram |-> 1][t], a |-> a]>>
Second(hi, a, dma) == <<[op |-> "c2", hi |-> hi, a |-> a, dma |-> dma]>>
WriteHi == [vram |-> 0, cram |-> 0, vsram |-> 1]
Write(t, a) == First(t, a) \o Second(WriteHi[t], a, FALSE)
Dma(t, a) == First(t, a) \o Second(WriteHi[t], a, TRUE)
Read(t, a) == <<[op |-> "c1", lo |-> 0, a |-> a]>>
              \o Second([vram |-> 0, vsram |-> 1, cram |-> 2][t], a, FALSE)
Get(n) == Times(n, Op("get"))
Get32(t, a, n) == Read(t, a) \o Get(2 * n)
Keep(i) == <<[op |-> "keep", i |-> i]>>      \* a word read, stored in ram16[i]
Ram(i) == <<[op |-> "ram", i |-> i]>>
RamSet(i, w) == <<[op |-> "ramset", i |-> i, w |-> w]>>
SetupDma(bank, i, n) ==
  Reg("len0", Lo(n)) \o Reg("len1", Hi(n)) \o Reg("src0", Lo(i)) \o Reg("src1", Hi(i))
  \o Reg("src2", bank)
RamAt(i) == 32768 + i       \* 0xff0000 in its bank of 128K

Normal == Reg("mode2", {"MD", "DMA", "DISP"})
Inc(n) == Reg("inc", n)
Palette == Write("cram", 0) \o Data32(0, 0) \o Write("cram", 30) \o Data(\heee)
           \o Write("cram", 62) \o Data(\h0e0) \o Write("cram", 94) \o Data(\h00e)
Idle == Op("idle")
FifoEmpty == Op("fifo")
Status(bit) == <<[op |-> "status", bit |-> bit]>>
Line(l) == <<[op |-> "line", l |-> l]>>
Blank == Op("blank")
Active == Op("active")
Line0 == Blank \o Active \o Line(0)      \* vdp_wait_for_line_0

\* TestsPass: the increment is put back while the fill goes on.
FillAt_Bug(t, a, inc, n, w) ==
  Inc(inc) \o Reg("len0", n) \o Reg("src2", Fill) \o Dma(t, a) \o Data(w) \o Inc(2)
FillAt(t, a, inc, n, w) ==
  Inc(inc) \o Reg("len0", n) \o Reg("src2", Fill) \o Dma(t, a) \o Data(w) \o Idle \o Inc(2)

-----------------------------------------------------------------------------
(* DMA and VDP tests.                                                      *)

DmaZeroWrapEarly == SetupDma("rom", 8, 2) \o Dma("vram", 0) \o Dma("vram", 0)
  \o Read("vram", 0) \o Keep(0) \o Keep(1) \o Read("vram", \hfffc) \o Keep(2) \o Keep(3)
DmaZeroFillEarly == Write("vram", 0) \o Times(8, Data(0)) \o Inc(1) \o Reg("src2", Fill)
  \o Dma("vram", 1) \o Data(\h1122) \o Op("keepbusy") \o Idle
  \o Inc(2) \o Read("vram", 0) \o Keep(6) \o Keep(7)

DmaZeroWrap == [ops |-> Ram(0) \o Ram(1) \o Ram(2) \o Ram(3), want |-> <<32778, 32779, 8, 9>>]
DmaZeroFill == [ops |-> Ram(5) \o Ram(6) \o Ram(7), want |-> <<2, \h1111, \h1111>>]

DmaRamWrap ==
  [ops |-> Op("save") \o RamSet(32766, \h0102) \o RamSet(32767, \h0304)
           \o RamSet(0, \h0506) \o RamSet(1, \h0708)
           \o SetupDma("ram", RamAt(32766), 4) \o Dma("vram", \h100) \o Op("restore")
           \o Get32("vram", \h100, 2),
   want |-> <<\h0102, \h0304, \h0506, \h0708>>]
DmaMulti ==
  [ops |-> SetupDma("rom", 0, 2) \o Dma("vram", \h100) \o Reg("len0", 2) \o Dma("vram", \h104)
           \o Get32("vram", \h100, 2),
   want |-> <<0, 1, 2, 3>>]
DmaCramWrap ==
  [ops |-> Write("cram", 0) \o Data32(0, 0)
           \o RamSet(0, \hec2) \o RamSet(1, \hec4) \o RamSet(2, \hec6) \o RamSet(3, \hec8)
           \o SetupDma("ram", RamAt(0), 4) \o Dma("cram", \hfffd)
           \o Get32("cram", \h7c, 1) \o Get32("cram", 0, 1) \o Palette,
   want |-> <<\hec2, \hec4, \hec6, \hec8>>]
DmaVsramWrap ==
  [ops |-> Write("vsram", 0) \o Data32(0, 0) \o Op("ramp")
           \o SetupDma("ram", RamAt(0), 36) \o Dma("vsram", \hffbd)
           \o Get32("vsram", \h3c, 1) \o Get32("vsram", 0, 1)
           \o Write("vsram", 0) \o Data32(0, 0),
   want |-> <<1, 2, 35, 36>>]
DmaAndData ==
  [ops |-> Write("vram", \h100) \o Data32(0, 0) \o SetupDma("rom", 0, 2) \o Dma("vram", \hfc)
           \o Data32(\h5ec8, \ha248) \o Get32("vram", \hfc, 2),
   want |-> <<0, 1, \h5ec8, \ha248>>]
DmaShortCmd ==
  [ops |-> Write("vram", \h3ff4) \o Data32(\h1011, \h1213)
           \o Write("vram", \hfff0) \o Data32(\h2021, \h2223) \o Data32(\h3031, \h3233) \o FifoEmpty
           \o SetupDma("rom", 0, 2) \o Dma("vram", \hfff0) \o First("vram", \h3ff4)
           \o Data32(\h4041, \h4243) \o Get32("vram", \h3ff4, 1) \o Get32("vram", \hfff0, 2),
   want |-> <<\h1011, \h1213, 0, 1, \h4041, \h4243>>]
DmaFill3(a, want) ==
  [ops |-> Write("vram", \h100) \o Times(6, Data(0)) \o FifoEmpty
           \o FillAt("vram", a, 3, 3, \h1122) \o Get32("vram", \h100, 3),
   want |-> want]
DmaFill3Odd == DmaFill3(\h101, <<\h2211, 0, \h0011, \h1100, 0, \h0011>>)
DmaFill3Even == DmaFill3(\h100, <<\h1122, \h1100, 0, \h0011, \h1100, 0>>)
DmaFill3Vsram ==
  [ops |-> Write("vsram", 0) \o Times(6, Data(0)) \o Data(\h111) \o Data(\h222) \o Data(\h333)
           \o FifoEmpty \o FillAt("vsram", 1, 3, 3, \h102) \o Get32("vsram", 0, 3)
           \o Write("vsram", 0) \o Data32(0, 0),
   want |-> <<\h102, 0, \h111, \h111, 0, \h111>>]
DmaFillDis ==
  [ops |-> Write("vram", \h100) \o Times(4, Data(0)) \o Reg("len0", 1) \o Reg("src2", Fill)
           \o Dma("vram", \h100) \o Reg("mode2", {"MD"}) \o Data(\h1122) \o Idle
           \o Normal \o Data(\h3344) \o Idle \o Get32("vram", \h100, 2),
   want |-> <<0, 0, 0, 0>>]
DmaFillSrc ==
  [ops |-> Write("vram", \h100) \o Data32(0, 0)
           \o Reg("len0", 2) \o Reg("src0", 0) \o Reg("src1", 0) \o Reg("src2", Fill)
           \o Dma("vram", \h100) \o Data(\h1122) \o Idle
           \o Reg("len0", 2) \o Reg("src2", "rom") \o Dma("vram", \h104) \o Get32("vram", \h100, 2),
   want |-> <<\h1122, \h0011, 2, 3>>]
DmaBusyVram ==
  LET again == Dma("vram", \h100) \o Status("dma") IN
  [ops |-> Line0 \o SetupDma("rom", 0, 1) \o again \o SetupDma("rom", 0, 4) \o again
           \o Reg("len0", 8) \o again,
   want |-> <<0, 0, 0>>]

Mode128 == Reg("mode2", {"MD", "DMA", "128K"})
Dma128k ==
  [ops |-> RamSet(0, \h5a11) \o RamSet(1, \h5a22) \o RamSet(2, \h5a33)
           \o Write("vram", \h100) \o Data32(\h0102, \h0304) \o Data32(\h0506, \h0708) \o FifoEmpty
           \o Mode128 \o SetupDma("ram", RamAt(0), 3) \o Dma("vram", \h100) \o FifoEmpty
           \o Normal \o Get32("vram", \h100, 2),
   want |-> <<\h2211, \h0304, \h0533, \h0708>>]
Vdp128kB16 ==
  [ops |-> Inc(0) \o Write("vram", \h8100) \o Data32(\h0102, \h0304)
           \o Write("vram", \h10100) \o Data32(\h0506, \h0708) \o FifoEmpty
           \o Mode128 \o First("vram", \h100) \o Data32(\h1122, \h3344)
           \o Write("vram", \h10102) \o Data32(\h5566, \h7788) \o FifoEmpty
           \o Normal \o Read("vram", \h8100) \o Get(1) \o Read("vram", \h100) \o Get(1) \o Inc(2),
   want |-> <<\h8844, \h0708>>]
VdpRegCmd ==
  [ops |-> Inc(0) \o Write("vram", \h100) \o Data32(\h0102, \h0304) \o Normal
           \o Data32(\h0506, \h0708) \o Inc(2) \o Read("vram", \h100) \o Get(1),
   want |-> <<\h0304>>]

-----------------------------------------------------------------------------
(* Lines and interrupts.  Later is the time between two tests.             *)

Later(ds) == <<[op |-> "later", ds |-> ds]>>
Hint(on) == Reg("mode1", IF on THEN {"IE1"} ELSE {})
R10(n) == Reg("r10", n)
Sr(mask) == <<[op |-> "sr", mask |-> mask]>>
Burn == Op("burn")
Clear(cs) == <<[op |-> "clear", cs |-> cs]>>
Saw(c, f) == <<[op |-> "saw", c |-> c, f |-> f]>>
F == Status("f")
Both == {"hint", "vint"}
VintOn == Reg("mode2", {"MD", "IE0"})
VintShown == Reg("mode2", {"MD", "IE0", "DISP"})
Quiet == Hint(FALSE) \o Normal
Soon == 2..3

VdpSrVb ==
  [ops |-> Line(242) \o Status("vb") \o Reg("mode2", {"MD"}) \o Status("vb") \o Line(4)
           \o Status("vb") \o Normal \o Status("vb"),
   want |-> <<1, 1, 1, 0>>]
\* First line, last not blank, first blank, before and after the jump,
\* before and after the end of the blanking, first line.
Jumps(before, after, lines) ==
  LET seen(c, vb) == [c |-> c, vb |-> vb] IN
  [out |-> <<seen(0, FALSE), seen(223, FALSE), seen(224, TRUE), seen(before, TRUE),
             seen(after, TRUE), seen(\hfe, TRUE), seen(\hff, FALSE), seen(0, FALSE)>>,
   count |-> lines - 1]
TimVcnt ==
  [ops |-> Line0 \o Op("vcnt"),
   want |-> <<[ntsc |-> Jumps(\hea, \he5, 262), pal |-> Jumps(2, \hca, 313)]>>]
TimVcntLoops ==
  [ops |-> Blank \o Active \o Op("vloops"), want |-> <<[ntsc |-> <<255, 0>>, pal |-> <<255, 0>>]>>]

IrqHint ==
  [ops |-> Later(1..3) \o Clear(Both) \o Blank \o Reg("mode2", {"MD"}) \o R10(0) \o Line(100)
           \o Line(229) \o Hint(TRUE) \o Sr(0) \o Burn \o Sr(7)
           \o Saw("hint", "first") \o Saw("hint", "n") \o Saw("vint", "n")
           \o Clear({"hint"}) \o Sr(0) \o Line(4) \o Line(228) \o Sr(7)
           \o Saw("hint", "n") \o Saw("hint", "first") \o Saw("hint", "last") \o Normal
           \o Clear({"hint"}) \o R10(17) \o Sr(0) \o Active \o R10(255) \o Line(228) \o Sr(7)
           \o Saw("hint", "n") \o Saw("hint", "first") \o Saw("hint", "last") \o Hint(FALSE),
   want |-> <<229, 1, 0, 225, 0, 224, 1, 17, 17>>]
IrqBothCpuUnmask ==
  [ops |-> Later(Soon) \o Clear(Both) \o R10(0) \o Line(100) \o Line(226) \o R10(99)
           \o Hint(TRUE) \o VintShown \o Line(100) \o F \o Sr(0) \o F \o Sr(7) \o Quiet
           \o Saw("vint", "n") \o Saw("vint", "first") \o Saw("hint", "n") \o Saw("hint", "first"),
   want |-> <<1, 0, 1, 100, 1, 100>>]
IrqAckVH ==
  [ops |-> Later(Soon) \o Clear(Both) \o R10(0) \o Blank \o Active \o Hint(TRUE) \o VintOn
           \o Line(100) \o Line(226) \o F \o Sr(5) \o F \o Burn \o Sr(0) \o F \o Burn \o Sr(7)
           \o Quiet \o Saw("vint", "n") \o Saw("vint", "first") \o Saw("hint", "n"),
   want |-> <<1, 0, 0, 1, 226, 1>>]
IrqAckVH2 ==
  [ops |-> Later(Soon) \o Clear(Both) \o R10(0) \o Line(100) \o Line(226) \o F
           \o Sr(0) \o VintShown \o Reg("mode2", {"MD", "DISP"}) \o Burn \o VintShown
           \o Hint(TRUE) \o Sr(7) \o F \o Quiet
           \o Saw("vint", "n") \o Saw("vint", "first") \o Saw("hint", "n"),
   want |-> <<1, 0, 2, 226, 1>>]
IrqAckHV ==
  [ops |-> Later(Soon) \o Clear(Both) \o R10(0) \o Line(100) \o Line(226) \o F \o Hint(TRUE)
           \o Sr(0) \o Burn \o F \o VintOn \o F \o F \o Sr(7) \o Quiet
           \o Saw("hint", "n") \o Saw("hint", "first") \o Saw("vint", "n"),
   want |-> <<1, 1, 1, 0, 1, 226, 1>>]
IrqAckHV2 ==
  [ops |-> Later(Soon) \o Clear(Both) \o R10(0) \o Line(100) \o Line(226) \o F
           \o Sr(0) \o Hint(TRUE) \o VintShown \o Burn \o Sr(7) \o F \o Quiet
           \o Saw("hint", "n") \o Saw("hint", "first") \o Saw("hint", "last") \o Saw("vint", "n"),
   want |-> <<1, 0, 2, 226, 226, 0>>]

\* The flag shows until the interrupt is taken, and no longer.
IrqFFlag == VintShown \o Sr(0) \o Active \o Blank \o F \o F \o Sr(7) \o Normal
IrqFFlagH40 == [ops |-> IrqFFlag, want |-> <<1, 0>>]
IrqFFlagH32 ==
  [ops |-> Reg("mode4", "h32") \o IrqFFlag \o Reg("mode4", "h40"), want |-> <<1, 0>>]

-----------------------------------------------------------------------------
(* Z80 and sound.  Out(x, b) is a byte written to 1100h + x.               *)

Out(x, b) == <<[op |-> "zout", x |-> x, b |-> b]>>
In(x) == <<[op |-> "zin", x |-> x]>>
Cmd(c) == <<[op |-> "zcmd", c |-> c]>>
Release == Op("release")
TakeBus == Op("take")
Finish == Op("zend")       \* burn10, then the command byte is read
Ym27(run, reset) == <<[op |-> "ym27", run |-> run, reset |-> reset]>>
Ticked(t) == <<[op |-> "ticked", t |-> t]>>
Cleared(n) == [x \in 1..n |-> Head(Out(x - 1, 0))]

SetupZ80 == TakeBus \o Op("zload") \o Op("zreset") \o Release \o TakeBus
Z80MemLongMirror ==
  [ops |-> Out(0, \h11) \o Out(1, \h22) \o Out(2, \h33) \o Out(3, \h44) \o Op("zlong")
           \o In(0) \o In(1) \o In(2) \o In(3),
   want |-> <<\h55, \h22, \h77, \h44>>]
Z80MemNoreqW ==
  [ops |-> Out(0, \h11) \o Release \o Out(0, \h22) \o TakeBus \o In(0), want |-> <<\h11>>]
Z80MemVdpR ==
  [ops |-> Write("vram", \h100) \o Data32(\h1122, \h3344) \o Read("vram", \h100) \o Cmd("copy")
           \o Out(0, \h5a) \o Out(1, \h5a) \o Out(2, \h5a) \o Release \o Burn \o TakeBus \o Finish
           \o In(0) \o In(1) \o In(2),
   want |-> <<1, \h11, \h44, \h5a>>]
TimLoop == [ops |-> Line0 \o Line(223) \o Op("vc"), want |-> <<223>>]
Z80Loop(c) == Cmd(c) \o Cleared(1) \o Line0 \o Release \o Burn \o TakeBus
TimZ80Loop == [ops |-> Z80Loop("idle") \o Finish \o In(0), want |-> <<1, 1>>]
TimZ80Ram == [ops |-> Z80Loop("ram") \o Finish \o In(0), want |-> <<1, \h80>>]
TimZ80Ym == [ops |-> Z80Loop("ym") \o Finish \o In(0), want |-> <<1, \h80>>]
TimZ80Vdp == [ops |-> Z80Loop("vdp") \o Finish \o In(0), want |-> <<1, \h91>>]
TimZ80BankRom ==
  [ops |-> Times(17, Op("zbank")) \o Z80Loop("bank") \o Finish \o In(0), want |-> <<1, \h95>>]
TimYmTimerZ80(c, t, flag) ==
  [ops |-> Cmd(c) \o Cleared(3) \o Line0 \o Release \o Burn \o TakeBus \o Finish \o In(2) \o In(0)
           \o Ym27({}, {}) \o Op("ym") \o Ym27({}, {t}) \o Op("ym"),
   want |-> <<1, Measured, Measured, flag, 0>>]
TimYmTimerbStop ==
  [ops |-> TakeBus \o Ym27({}, {"A", "B"}) \o Line0 \o Ym27({"B"}, {}) \o Ticked("B")
           \o Ym27({}, {"A", "B"}) \o Op("ym") \o Ym27({"B"}, {}) \o Ticked("B")
           \o Op("ym") \o Op("ym") \o Ym27({}, {"A", "B"}),
   want |-> <<0, 2, 2>>]
TimVdpAsVramW == [ops |-> Write("vram", \h100) \o Line0 \o Data(0), want |-> <<>>]
Samples(at) == <<[op |-> "hb", at |-> at]>>
TimHblankH40 == [ops |-> Samples(<<2, 5, 7, 12>>), want |-> <<1, 1, 1, 0>>]
TimHblankH32 ==
  [ops |-> Reg("mode4", "h32") \o Samples(<<0, 4, 5, 8, 12>>) \o Reg("mode4", "h40"),
   want |-> <<0, 1, 1, 1, 0>>]
TimVdpAsCramW == [ops |-> Write("cram", 0) \o Line0 \o Data(0) \o Palette, want |-> <<>>]

-----------------------------------------------------------------------------
(* main.  A text goes to plane A, its characters are one; the lines that a  *)
(* failed test prints are left out, and with them the scrolling.            *)

APlane == \hc000
PlaneW == 64
LeftBorder == 1
DrawText(x, y) == Write("vram", APlane + 2 * (LeftBorder + x + PlaneW * y)) \o Data(0)
PrintLine(y) == DrawText(0, y)      \* y < 27: below, the plane scrolls
Heading == PrintLine(1) \o PrintLine(2) \o PrintLine(3)
Number == DrawText(0, 0)
Summary == PrintLine(4) \o DrawText(0, 0)

\* ConsoleReady: the interrupt of a test that RESET ended stays on.
MainSetup_Bug ==
  SetupZ80 \o Idle \o Reg("mode2", {"MD", "DMA"}) \o Reg("mode4", "h40") \o Inc(2)
  \o DmaZeroWrapEarly \o DmaZeroFillEarly
  \o Write("vram", 0) \o Times(4, Data32(0, 0))
  \o Write("vsram", 0) \o Data32(0, 0) \o Palette \o Normal \o Heading
\* main, up to the first test.
MainSetup ==
  SetupZ80 \o Idle \o Hint(FALSE) \o Reg("mode2", {"MD", "DMA"}) \o Reg("mode4", "h40") \o Inc(2)
  \o DmaZeroWrapEarly \o DmaZeroFillEarly
  \o Write("vram", 0) \o Times(4, Data32(0, 0))
  \o Write("vsram", 0) \o Data32(0, 0) \o Palette \o Normal \o Heading

\* g_tests
MdTests ==
  <<DmaZeroWrap, DmaZeroFill, DmaRamWrap, DmaMulti, DmaCramWrap, DmaVsramWrap, DmaAndData,
    DmaShortCmd, DmaFill3Odd, DmaFill3Even, DmaFill3Vsram, DmaFillDis, DmaFillSrc, DmaBusyVram,
    Dma128k, Vdp128kB16, VdpRegCmd, VdpSrVb, Z80MemLongMirror, Z80MemNoreqW, Z80MemVdpR,
    TimLoop, TimZ80Loop, TimZ80Ram, TimZ80Ym, TimZ80Vdp, TimZ80BankRom,
    TimVcnt, TimVcntLoops, TimHblankH40, TimHblankH32, TimVdpAsVramW, TimVdpAsCramW,
    TimYmTimerZ80("timerA", "A", 1), TimYmTimerZ80("timerB", "B", 2), TimYmTimerbStop,
    IrqHint, IrqBothCpuUnmask, IrqAckVH, IrqAckVH2, IrqAckHV, IrqAckHV2,
    IrqFFlagH40, IrqFFlagH32>>
=============================================================================
