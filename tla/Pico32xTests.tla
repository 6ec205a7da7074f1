---------------------------- MODULE Pico32xTests ----------------------------
(***************************************************************************)
(* testpico's tests for the 32X as main.c has them, like PicoTests'.  A    *)
(* long is two words; what a test expects of a long is two values.         *)
(***************************************************************************)
EXTENDS PicoTests, Pico32x

Xw(a, w) == <<[op |-> "xw", a |-> a, w |-> w]>>          \* a15100h + a
Xwb(a, b) == <<[op |-> "xwb", a |-> a, w |-> b]>>
Xl(a, hi, lo) == Xw(a, hi) \o Xw(a + 2, lo)
Xr(a) == <<[op |-> "xr", a |-> a]>>
Xrb(a) == <<[op |-> "xrb", a |-> a]>>
Xrl(a) == Xr(a) \o Xr(a + 2)
Await(a) == <<[op |-> "xawait", a |-> a]>>
Vec(a) == <<[op |-> "vec", a |-> a]>>
Hv(hi, lo) == <<[op |-> "hv", w |-> <<hi, lo>>]>>
Fb(i, w, over) == <<[op |-> "fbw", i |-> i, w |-> w, over |-> over]>>
Fbb(i, b) == <<[op |-> "fbb", i |-> i, b |-> b]>>
Fbl(i, hi, lo, over) == Fb(i, hi, over) \o Fb(i + 2, lo, over)
Fbr(i) == <<[op |-> "fbr", i |-> i]>>
Cnt(p, k) == <<[op |-> "cnt", p |-> p, k |-> k]>>
CntFill(n) == <<[op |-> "cntfill", n |-> n]>>

Fm0 == Xwb(0, 0)
Same(n, w) == [i \in 1..n |-> w]
Counters(p) == [k \in 1..8 |-> Head(Cnt(p, k - 1))]

\* x32_cmd: arguments, command, until it is cleared; an error is cleared.
X32Cmd(c, a0, a1, s) ==
  Xl(\h24, a0[1], a0[2]) \o Xl(\h28, a1[1], a1[2]) \o Xw(\h20, c + s * \h8000) \o Op("xdone")
Code(name) == CHOOSE c \in DOMAIN Codes : Codes[c] = name
Zero == <<0, 0>>
Sys(a) == <<\h2000, \h4000 + a>>
Cmd32(name, a0, a1, s) == X32Cmd(Code(name), a0, a1, s)
Mask(bits, s) == Cmd32("write8", Sys(1), <<0, bits>>, s)
SetSr(sr, s) == Cmd32("setsr", <<0, sr>>, Zero, s)
Read32(a, s) == Cmd32("read32", Sys(a), Zero, s) \o Xrl(\h24)

-----------------------------------------------------------------------------
(* After RESET with the 32X on, what t_32x_reset_prep left.                *)

X32ResetBtn ==
  [ops |-> Xr(0) \o Fm0 \o Xr(0) \o Xr(2) \o Xr(4) \o Xr(6) \o Xrl(\h08) \o Xrl(\h0c) \o Xr(\h10)
           \o Xrl(\h14) \o Xrl(\h18) \o Xrl(\h1c) \o Xrl(\h20) \o Xrl(\h24) \o Xrl(\h28) \o Xrl(\h2c)
           \o Xrb(\h81) \o Xr(\h82) \o Xr(\h84) \o Xr(\h86) \o Xr(\h88) \o Xrb(\h8b) \o Xr(\h8c) \o Xr(\h8e)
           \o Xwb(\h81, 0) \o Xw(\h86, 0) \o Xw(\h84, 0) \o Xw(\h82, 0)
           \o Xl(\h2c, 0, 0) \o Xl(\h28, 0, 0) \o Xl(\h24, 0, 0) \o Xl(\h20, 0, 0)
           \o Read32(0, 0) \o Read32(0, 1) \o Mask(0, 0) \o Mask(0, 1)
           \o Counters(0) \o Counters(1) \o Cmd32("getsr", Zero, Zero, 1) \o Xrl(\h24)
           \o SetSr(\h10, 1) \o Xr(0) \o Fm0 \o Cnt(0, 7) \o Cnt(1, 7) \o Xrl(\h2c) \o Xl(\h2c, 0, 0)
           \o Xw(6, 0) \o Xw(0, 1) \o Xw(0, 0) \o Xw(0, 2)               \* x32x_disable
           \o Xr(0) \o Xr(2) \o Xr(4) \o Xr(6) \o Xrl(\h08) \o Xrl(\h0c) \o Xr(\h10) \o Vec(4)
           \o Xw(4, 0) \o Xw(\h10, \h1234) \o Xr(6),
   want |-> <<\h8083, \h83, 0, 3, 1, \h5a, \h5a08, \h5a, \h5a0c, \h5a10>> \o Same(6, 0)
            \o <<0, \h5a20, \h5a5a, \h5a24, \h5a5a, \h5a28, \h075a, \h5a2c>>
            \o <<1, 1, \hff, \hffff, 0, 0, 0, 0>> \o <<\h0202, 0, \h0202, 0>>
            \o Same(7, \h100) \o <<\h101>> \o Same(8, \h100)
            \o <<0, \hf0, \h8083, \h101, \h101, 7, 0>>
            \o <<\h82, 0, 3, 0, \h5a, \h5a08, \h5a, \h5a0c, \h5a10, 0, \h0800, 0>>]

-----------------------------------------------------------------------------
(* The adapter is enabled; the SH2s and the mailbox.                       *)

\* 10h keeps 1234h over a warm start.
X32Init ==
  [ops |-> Xr(0) \o Xr(2) \o Xr(4) \o Xr(6) \o Xrb(8) \o Xrb(\h0c) \o Op("xwarm") \o Xr(\h12)
           \o Xrl(\h14) \o Xrl(\h18) \o Xrl(\h1c)
           \o Xl(\h20, 0, 0) \o Xl(\h24, 0, 0) \o Xl(\h28, 0, 0) \o Xl(\h2c, 0, 0)
           \o Xw(0, 0) \o Xr(0) \o Xw(0, \hfffe) \o Xr(0) \o Xw(0, \h82)
           \o FlattenSeq([i \in 1..14 |-> Xw(IF i < 9 THEN 2 * i ELSE 2 * i + 2, \hffff)])
           \o Xr(0) \o Xr(2) \o Xr(4) \o Xr(6) \o Xrl(8) \o Xrl(\h0c) \o Xr(\h10) \o Xrl(\h14)
           \o Xr(\h18) \o Xr(\h1a) \o Xrl(\h1c)
           \o Xw(2, 0) \o Xl(4, 0, 0) \o Xl(8, 0, 0) \o Xl(\h0c, 0, 0) \o Xw(\h1a, 0)
           \o Xw(0, 1) \o Xw(0, 3) \o Await(\h22) \o Await(\h26) \o Xw(6, 1)   \* x32x_enable
           \o Xr(0) \o Xr(2) \o Xr(4) \o Xr(6) \o Xrl(\h14) \o Xrl(\h18) \o Xrl(\h1c)
           \o Xrl(\h20) \o Await(\h24) \o Xrl(\h24) \o Xl(\h20, 0, 0)
           \o Xrb(\h81) \o Xr(\h82) \o Xr(\h84) \o Xr(\h86) \o Xrb(\h8b) \o Xr(\h8c) \o Xr(\h8e),
   want |-> <<\h82, 0, 0, 0, 0, 0, 1, 0>> \o Same(6, 0) \o <<\h80, \h8082>>
            \o <<\h82, 3, 3, 7, \hff, \hfffe, \hff, \hffff, \hfffc, 0, 0, 0, \h0101, 0, 0>>
            \o <<\h83, 0, 0, 1>> \o Same(6, 0) \o <<\h4d5f, \h4f4b, \h535f, \h4f4b>> \o Same(7, 0)]
X32Echo ==
  [ops |-> Xw(\h2e, 0) \o Xw(\h2c, 0) \o Cmd32("echo", <<\h1234, 0>>, Zero, 0) \o Xr(\h26)
           \o Cmd32("echo", <<\h2345, 0>>, Zero, 1) \o Xr(\h26) \o Xr(\h2c) \o Xr(\h2e),
   want |-> <<\h1234, \ha345, 0, 0>>]
X32ShDefaults ==
  LET of(s) == Read32(0, s) \o Read32(4, s) \o Read32(8, s) \o Read32(\h0c, s)
               \o Cmd32("getgbr", Zero, Zero, s) \o Xrl(\h24) IN
  [ops |-> of(0) \o of(1),
   want |-> LET w == <<\h0200, 0, 0, \h4001, 0, 0, 0, 0, \h2000, \h4000>> IN w \o w]

\* test_32x_b_c0 calls the BIOS, which stores with RV off.
X32MdBios ==
  [ops |-> RamSet(0, 0) \o Xw(6, 0) \o RamSet(0, \h5a00) \o Xw(6, 1)
           \o Ram(0) \o Vec(4) \o Vec(\h10) \o Vec(\h94),
   want |-> <<\h5a00, \h88, \h0200, \h88, \h0212, \h88, \h02d8>>]
X32MdRom ==
  [ops |-> Vec(4) \o Vec(\h100) \o Vec(\h70) \o Hv(\ha512, \h3456) \o Vec(\h78) \o Vec(\h70) \o Hv(0, 0),
   want |-> <<\h88, \h0200, \h5345, \h4741, 0, 0, \h88, \h02ae, \ha512, \h3456>>]

X32MdFb ==
  [ops |-> Fbl(0, \h1234, \h5678, FALSE) \o Fbl(4, \h89ab, \hcdef, TRUE) \o Fbr(2) \o Fbr(4)
           \o Fbb(0, 0) \o Fbb(1, 0) \o Fb(2, 0, FALSE) \o Fb(4, 0, TRUE) \o Fb(6, 1, TRUE)
           \o Fb(6, \h200, TRUE) \o Fbr(0) \o Fbr(2) \o Fbr(4) \o Fbr(6),
   want |-> <<\h5678, \h89ab, \h1234, 0, \h89ab, \h0201>>]
X32ShFb ==
  [ops |-> Fm0 \o Fbl(0, \h1234, \h5678, FALSE) \o Fbl(4, \h89ab, \hcdef, FALSE) \o Xwb(0, \h80)
           \o Cmd32("write8", <<\h2400, 0>>, Zero, 0) \o Cmd32("write8", <<\h2402, 1>>, Zero, 0)
           \o Cmd32("write16", <<\h2400, 2>>, Zero, 0) \o Cmd32("write16", <<\h2402, 0>>, Zero, 0)
           \o Cmd32("write32", <<\h2402, 4>>, <<\h5a00, \ha5>>, 1)
           \o Fm0 \o Fbr(0) \o Fbr(2) \o Fbr(4) \o Fbr(6),
   want |-> <<\h1234, 0, \h5aab, \hcda5>>]

-----------------------------------------------------------------------------
(* Interrupts of the SH2s; a handler leaves the frame buffer to them.      *)

LastVec(n) == Xrb(\h2c + n)          \* last_irq_vec of an SH2
ClearLast == Xw(\h2c, 0)
\* Every counter of the other seven.
NoneElse(k) ==
  [i \in 1..14 |-> LET c == (i - 1) \div 2 IN
                   Head(Cnt((i - 1) % 2, IF c < k THEN c ELSE c + 1))]
X32IrqCmd ==
  [ops |-> Fm0 \o Xl(\h2c, 0, 0) \o CntFill(0) \o Xw(2, \hfffd) \o Xr(2)
           \o Mask(UnmaskCmd, 0) \o Mask(UnmaskCmd, 1) \o Burn \o Fm0
           \o Xr(2) \o LastVec(0) \o LastVec(1) \o Xr(\h2e) \o Cnt(0, CmdInt) \o Cnt(1, CmdInt)
           \o Xw(2, \haaaa) \o Xr(2) \o Mask(0, 0) \o Mask(0, 1)
           \o Xr(2) \o LastVec(0) \o LastVec(1) \o Xr(\h2e) \o Fm0
           \o Cnt(0, CmdInt) \o Cnt(1, CmdInt) \o NoneElse(CmdInt),
   want |-> <<1, 0, 4, 0, 0, 1, 0, 2, 0, 4, 4, 0, 1, 1>> \o Same(14, 0)]

Vsync == Active \o Blank          \* wait_next_vsync
X32IrqVint ==
  [ops |-> Line0 \o Fm0 \o Xl(\h2c, 0, 0) \o CntFill(0)
           \o SetSr(\hf0, 0) \o Mask(UnmaskV, 0) \o Mask(UnmaskV, 1) \o Burn \o Xr(\h2c) \o Xr(\h2e)
           \o Xwb(\h23, Noack) \o Vsync \o Burn \o LastVec(0) \o LastVec(1)
           \o Xwb(\h2d, 0) \o Burn \o LastVec(0) \o LastVec(1)
           \o Cmd32("write16", Sys(\h16), Zero, 0) \o Burn \o ClearLast \o Burn \o LastVec(0) \o LastVec(1)
           \o Xwb(\h23, 0) \o Burn \o ClearLast \o Burn \o Xr(\h2c) \o Xr(\h2e)
           \o Fm0 \o Cnt(0, Vint) \o Cnt(1, Vint)
           \o SetSr(\h10, 0) \o Vsync \o Burn \o LastVec(0) \o LastVec(1)
           \o Mask(0, 0) \o Mask(0, 1) \o ClearLast \o Vsync \o Burn \o Xr(\h2c) \o Xr(\h2e)
           \o Mask(UnmaskV, 1) \o Burn \o Mask(0, 1) \o Burn \o LastVec(0) \o LastVec(1) \o ClearLast
           \o Line0 \o Mask(UnmaskV, 0) \o Burn \o Mask(0, 0) \o Burn \o LastVec(0) \o LastVec(1)
           \o Xwb(\h23, 0) \o Fm0 \o Cnt(0, Vint) \o NoneElse(Vint),
   want |-> <<0, 0, 0, Vint, 0, Vint, 0, Vint, 0, 0, 0, Many, Vint, Vint, 0, 0, 0, Vint, 0, 0, 1>>
            \o Same(14, 0)]

-----------------------------------------------------------------------------
(* The last two: what can be written, and what RESET shall find.           *)

X32RegW ==
  [ops |-> Xl(8, \hffff, \hffff) \o Xl(\h0c, \hffff, \hffff) \o Xw(\h10, \hffff)
           \o Xrl(8) \o Xrl(\h0c) \o Xr(\h10) \o Xl(\h0c, 0, 0) \o Xl(8, 0, 0) \o Xw(\h10, 0)
           \o Xr(6) \o Cmd32("write16", Sys(6), <<\hffff, \hfffe>>, 0) \o Xr(6),
   want |-> <<\hff, \hfffe, \hff, \hffff, \hfffc, 1, 1>>]
X32ResetPrep ==
  [ops |-> Xr(0) \o Fm0 \o Xl(\h2c, 0, 0) \o Xrb(\h8b) \o CntFill(\h100)
           \o Mask(UnmaskCmd, 0) \o Mask(UnmaskCmd, 1) \o SetSr(\hf0, 1) \o Burn \o Fm0
           \o Xrl(\h2c) \o Counters(0) \o Counters(1)
           \o Xw(4, \hffff) \o Xl(8, \h5a5a, \h5a08) \o Xl(\h0c, \h5a5a, \h5a0c) \o Xw(\h10, \h5a10)
           \o Xl(\h20, 0, \h5a20) \o Xl(\h24, \h5a5a, \h5a24) \o Xl(\h28, \h5a5a, \h5a28)
           \o Xl(\h2c, \h5a5a, \h5a2c) \o Vsync \o Xw(\h8a, 1) \o Xwb(\h81, 1)
           \o Xw(\h82, \hffff) \o Xw(\h84, \hffff) \o Xw(\h86, \hffff) \o Xw(\h8a, 0)
           \o Xw(\h8c, \hffff) \o Xw(\h8e, \hffff),
   want |-> <<\h83, 0, 0, 0>> \o Same(16, \h100)]

\* The tests of g_tests of type T_32: one before the others, these after.
X32Tests ==
  <<X32Init, X32Echo, X32ShDefaults, X32MdBios, X32MdRom, X32MdFb, X32ShFb, X32IrqCmd, X32IrqVint,
    X32RegW, X32ResetPrep>>
Tests == <<X32ResetBtn>> \o MdTests \o X32Tests
Of32(t) == t = 1 \/ t > Len(MdTests) + 1
=============================================================================
