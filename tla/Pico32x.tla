------------------------------ MODULE Pico32x -------------------------------
(***************************************************************************)
(* The 32X that testpico's last tests look at: its registers on the 68000's *)
(* side, the communication registers, the frame buffer (the cells that are *)
(* read), and the two SH2s, which run main_c of sh2_main.c and the         *)
(* interrupt handler of sh2_test.sh2.  Pure operators on a state x, like   *)
(* PicoVdp's.  How a command may be torn or time out is in X32Mailbox;     *)
(* here an SH2 carries it out in one step and clears it in another.        *)
(***************************************************************************)
EXTENDS PicoBoard, Bitwise

Sh2 == {0, 1}        \* master, slave
Many == 16           \* an interrupt taken again and again: 10h times at least
Noack == \h5a
Vres == 7
Vint == 6
CmdInt == 4
UnmaskV == 8
UnmaskCmd == 2

\* The bits that can be written; what is not listed reads as 0.
Writable ==
  (\h04 :> 3) @@ (\h06 :> 7) @@ (\h08 :> \hff) @@ (\h0a :> \hfffe) @@ (\h0c :> \hff)
  @@ (\h0e :> \hffff) @@ (\h10 :> \hfffc) @@ (\h1a :> \h0101)
  @@ (\h80 :> 1) @@ (\h82 :> 1) @@ (\h84 :> \hff) @@ (\h86 :> \hffff) @@ (\h8a :> 1)
Comm == \h20..\h2f

Board32Init ==
  [aden |-> FALSE, nres |-> TRUE, fm |-> FALSE, ints |-> {}, fresh |-> FALSE,
   r |-> [a \in DOMAIN Writable |-> IF a = \h10 THEN \hffff ELSE 0], b |-> [a \in Comm |-> 0],
   hv |-> <<0, 0>>, fb |-> [i \in 0..7 |-> 0], cnt |-> [p \in Sh2 |-> [k \in 0..7 |-> 0]],
   sh |-> [p \in Sh2 |-> [at |-> "off", mask |-> 0, sr |-> \h10, vp |-> FALSE, rp |-> FALSE]]]

-----------------------------------------------------------------------------
(* Registers.                                                              *)

Word(x, a) == x.b[a] * 256 + x.b[a + 1]
Set(x, a, w) == [x EXCEPT !.b[a] = Hi(w), !.b[a + 1] = Lo(w)]
Rv(x) == x.r[\h06] % 2 = 1
Adapter(x) == (IF x.fm THEN \h8000 ELSE 0) + \h80 + (IF x.nres THEN 2 ELSE 0) + (IF x.aden THEN 1 ELSE 0)
Ints(x) == (IF 0 \in x.ints THEN 1 ELSE 0) + (IF 1 \in x.ints THEN 2 ELSE 0)
XRead(x, a) ==
  CASE a = 0 -> Adapter(x) [] a = 2 -> Ints(x) [] a \in Comm -> Word(x, a)
    [] a \in DOMAIN x.r -> x.r[a] [] OTHER -> 0

\* The SH2s run the BIOS when they come out of reset with the adapter on.
Adapt(x, w) ==
  LET on == w % 4 = 3
      was == x.aden /\ x.nres IN
  [x EXCEPT !.fm = w >= \h8000, !.nres = (w \div 2) % 2 = 1, !.aden = w % 2 = 1,
            !.sh = [p \in Sh2 |-> IF on = was THEN @[p]
                                  ELSE [@[p] EXCEPT !.at = IF on THEN "bios" ELSE "off",
                                                    !.sr = \h10, !.vp = FALSE, !.rp = FALSE]]]
XWrite(x, a, w) ==
  CASE a = 0 -> Adapt(x, w)
    [] a = 2 -> [x EXCEPT !.ints = {p \in Sh2 : (w \div (p + 1)) % 2 = 1}, !.fresh = TRUE]
    [] a \in Comm -> Set(x, a, w)
    [] a \in DOMAIN x.r -> [x EXCEPT !.r[a] = w & Writable[a]]
    [] OTHER -> x
XWriteByte(x, a, b) ==
  IF a = 0 THEN [x EXCEPT !.fm = b >= \h80]
  ELSE IF a \in Comm THEN [x EXCEPT !.b[a] = b] ELSE XWrite(x, a - 1, b)
XReadByte(x, a) == IF a % 2 = 0 THEN Hi(XRead(x, a)) ELSE Lo(XRead(x, a - 1))

\* What the 68000 finds at its vectors: the cartridge's, or the BIOS's.
Vector(x, a) ==
  CASE a = \h70 -> x.hv
    [] a = \h04 -> IF x.aden THEN <<\h88, \h0200>> ELSE <<0, \h0800>>
    [] a = \h10 -> <<\h88, \h0212>> [] a = \h78 -> <<\h88, \h02ae>> [] a = \h94 -> <<\h88, \h02d8>>
    [] a = \h100 -> <<\h5345, \h4741>>

\* Zero bytes are not written by byte accesses and to the overwrite image.
FbByte(x, i, b) == IF b = 0 THEN x ELSE [x EXCEPT !.fb[i] = b]
FbWord(x, i, w, over) ==
  IF over THEN FbByte(FbByte(x, i, Hi(w)), i + 1, Lo(w))
  ELSE [x EXCEPT !.fb[i] = Hi(w), !.fb[i + 1] = Lo(w)]
FbRead(x, i) == x.fb[i] * 256 + x.fb[i + 1]

-----------------------------------------------------------------------------
(* The SH2s.                                                               *)

Pending(x, p) ==
  LET s == x.sh[p] IN
  (IF s.rp THEN {Vres} ELSE {})
  \cup (IF s.vp /\ (s.mask \div UnmaskV) % 2 = 1 THEN {Vint} ELSE {})
  \cup (IF p \in x.ints /\ ~x.fresh /\ (s.mask \div UnmaskCmd) % 2 = 1 THEN {CmdInt} ELSE {})
Taken(x, p) == {k \in Pending(x, p) : x.sh[p].at \in {"loop", "clear"} /\ 32 * k > x.sh[p].sr}

\* do_irq_master, do_irq_slave, do_irq_cmn
Handled(x, p, k) ==
  LET y == [x EXCEPT !.b[\h2c + p] = k, !.fm = TRUE, !.cnt[p][k] = IF @ = Many THEN @ ELSE @ + 1] IN
  IF x.b[\h23] = Noack THEN y
  ELSE CASE k = Vres -> [y EXCEPT !.sh[p].rp = FALSE]
         [] k = Vint -> [y EXCEPT !.sh[p].vp = FALSE]
         [] k = CmdInt -> [y EXCEPT !.ints = @ \ {p}]

\* The BIOS reports and goes to main_c.
Booted(x, p) ==
  LET y == [x EXCEPT !.sh[p].at = "loop"] IN
  IF p = 0 THEN Set(Set(y, \h20, \h4d5f), \h22, \h4f4b) ELSE Set(Set(y, \h24, \h535f), \h26, \h4f4b)

\* The addresses that the tests name, as <<high, low>>.
Sh2Read(x, p, a) ==
  CASE a = <<\h2000, \h4000>> -> <<(IF x.fm THEN \h8000 ELSE 0) + \h0200 + x.sh[p].mask, 0>>
    [] a = <<\h2000, \h4004>> -> <<0, \h4000 + (IF Rv(x) THEN 1 ELSE 0)>>
    [] a = <<\h2000, \h4008>> -> <<x.r[\h08], x.r[\h0a]>>
    [] a = <<\h2000, \h400c>> -> <<x.r[\h0c], x.r[\h0e]>>
Sh2Write(x, p, op, a, d) ==
  CASE a = <<\h2000, \h4001>> -> [x EXCEPT !.sh[p].mask = Lo(d[2])]
    [] a = <<\h2000, \h4016>> -> [x EXCEPT !.sh[p].vp = FALSE]
    [] a = <<\h2000, \h4006>> -> x          \* read only for an SH2
    [] a[1] \in {\h2400, \h2402} ->
         LET over == a[1] = \h2402 IN
         IF ~x.fm THEN x
         ELSE CASE op = "write8" -> FbByte(x, a[2], Lo(d[2]))
                [] op = "write16" -> FbWord(x, a[2], d[2], over)
                [] op = "write32" -> FbWord(FbWord(x, a[2], d[1], over), a[2] + 2, d[2], over)

Codes == <<"echo", "readFrt", "read8", "read16", "read32", "write8", "write16", "write32",
           "getgbr", "getvbr", "getsr", "setsr">>
\* do_cmd
Command32(x, p) ==
  LET op == Codes[Word(x, \h20) % \h8000]
      a0 == <<Word(x, \h24), Word(x, \h26)>>
      a1 == <<Word(x, \h28), Word(x, \h2a)>>
      reply(w) == Set(Set(x, \h24, w[1]), \h26, w[2]) IN
  CASE op = "echo" -> Set(x, \h26, a0[1] ^^ (p * \h8000))
    [] op = "read32" -> reply(Sh2Read(x, p, a0))
    [] op \in {"write8", "write16", "write32"} -> Sh2Write(x, p, op, a0, a1)
    [] op = "getgbr" -> reply(<<\h2000, \h4000>>)
    [] op = "getsr" -> reply(<<0, x.sh[p].sr>>)
    [] op = "setsr" -> [x EXCEPT !.sh[p].sr = a0[2]]
\* main_c: a command, for this one, that is not the BIOS's 'M_'.
ForMe(x, p) ==
  LET c == Word(x, \h20) IN c # 0 /\ c # \h4d5f /\ c \div \h8000 = p

\* One step of an SH2: interrupts first.
Sh2Step(x, p) ==
  IF Taken(x, p) # {} THEN Handled(x, p, Max(Taken(x, p)))
  ELSE CASE x.sh[p].at = "bios" -> Booted(x, p)
         [] x.sh[p].at = "clear" -> [Set(x, \h20, 0) EXCEPT !.sh[p].at = "loop"]
         [] x.sh[p].at = "loop" /\ ForMe(x, p) -> [Command32(x, p) EXCEPT !.sh[p].at = "clear"]
         [] OTHER -> x
\* burn10: enough for the SH2s to get to rest.
AtRest(x) == \A p \in Sh2 : Sh2Step(x, p) = x

\* The vertical interrupt is there from the blanking's beginning to its end.
Blanking(x, q, line) ==
  [x EXCEPT !.sh = [p \in Sh2 |->
     [@[p] EXCEPT !.vp = line \in VintLine..(LastLine - 1) /\ (@ \/ VintLine \in Passed(q, line))]]]
\* RESET with the adapter on; RST32X of sega_gcc.s sets RV.
Resets32(x) ==
  IF ~x.aden THEN x
  ELSE [x EXCEPT !.r[\h06] = 1, !.sh = [p \in Sh2 |-> [@[p] EXCEPT !.rp = TRUE]]]
=============================================================================
