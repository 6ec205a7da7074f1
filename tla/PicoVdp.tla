------------------------------ MODULE PicoVdp -------------------------------
(***************************************************************************)
(* The video processor and the RAM that testpico's tests write and read,   *)
(* as far as the tests can tell: what they expect of it is what it does.   *)
(* Pure operators from a state v to the next one; TestPico applies them.   *)
(*                                                                         *)
(* Only the cells that some test looks at are kept.                        *)
(***************************************************************************)
EXTENDS Integers, Sequences, SequencesExt

VramKept == (0..15) \cup (\hfc..\h10b) \cup (\h3ff4..\h3ff7)
            \cup (\h8000..\h8003) \cup (\h8100..\h8103) \cup (\hfff0..\hffff)
CramKept == {0, 2, 30, 62, 94, \h7c, \h7e}
VsramKept == {0, 2, 4, 6, 8, 10, \h3c, \h3e}
RamKept == 0..35 \cup {32766, 32767}

DmaLength(r) == IF r["len0"] = 0 /\ r["len1"] = 0 THEN 65536 ELSE r["len1"] * 256 + r["len0"]
Source(r) == r["src1"] * 256 + r["src0"]
Fill == "fill"

\* Every word of the ROM's table differs; RAM is mirrored in its bank.
RomWord(i) == i
SourceWord(v, ram, k) ==
  LET i == (Source(v.reg) + k) % 65536 IN
  CASE v.reg["src2"] = "rom" -> RomWord(i) [] v.reg["src2"] = "ram" -> ram[i % 32768]
    [] OTHER -> 0

-----------------------------------------------------------------------------
(* Memories.                                                               *)

Hi(w) == w \div 256
Lo(w) == w % 256
Swap(a) == (a + 1) - (2 * (a % 2))      \* a ^ 1
Down(a, n) == a - (a % n)
Put(f, a, x) == IF a \in DOMAIN f THEN [f EXCEPT ![a] = x] ELSE f

\* main.c:829: where a word goes in 128K mode, as one byte.
Mapped(a) == (1 - ((a \div 2) % 2)) + (2 * ((a \div 1024) % 2)) + Down(a % 1024, 4)
             + ((Down(a, 2048) \div 2) % 65536)
PutVram(v, a, w) ==
  IF "128K" \in v.reg["mode2"] THEN [v EXCEPT !.vram = Put(@, Mapped(a), Lo(w))]
  ELSE [v EXCEPT !.vram = Put(Put(@, a % 65536, Hi(w)), Swap(a % 65536), Lo(w))]
\* One entry of the FIFO: memory, address, word.
Store(v, e) ==
  CASE e.to = "vram" -> PutVram(v, e.a, e.w)
    [] e.to = "cram" -> [v EXCEPT !.cram = Put(@, Down(e.a % 128, 2), e.w)]
    [] e.to = "vsram" -> [v EXCEPT !.vsram = Put(@, Down(e.a % 128, 2), e.w)]
Load(v, from, a) ==
  CASE from = "vram" ->
         LET b == Down(a % 65536, 2) IN
         IF b \in DOMAIN v.vram THEN v.vram[b] * 256 + v.vram[b + 1] ELSE 0
    [] from = "cram" -> v.cram[Down(a % 128, 2)]
    [] from = "vsram" -> v.vsram[Down(a % 128, 2)]
Emptied(v) == [FoldLeft(Store, v, v.fifo) EXCEPT !.fifo = <<>>]

-----------------------------------------------------------------------------
(* DMA.                                                                    *)

Advance(v, n) ==
  LET i == (Source(v.reg) + n) % 65536 IN
  [v EXCEPT !.reg["len0"] = 0, !.reg["len1"] = 0, !.reg["src0"] = Lo(i), !.reg["src1"] = Hi(i)]

\* The whole bank, to VRAM: a cell keeps the last word written to it.
Whole(v, ram) ==
  LET last(x) == LET k == ((x - v.a) % 65536) \div 2 IN
                 SourceWord(v, ram, k + 32768) IN
  [v EXCEPT !.vram = [x \in DOMAIN v.vram |->
                        IF x % 2 = 0 THEN Hi(last(x)) ELSE Lo(last(x - 1))]]
Copy(v, ram) ==
  LET n == DmaLength(v.reg)
      cell(u, k) == Store(u, [to |-> v.to, a |-> v.a + k * v.reg["inc"],
                              w |-> SourceWord(v, ram, k)]) IN
  IF n = 65536 THEN Whole(v, ram)
  ELSE [FoldLeft(cell, v, [k \in 1..n |-> k - 1]) EXCEPT !.a = v.a + n * v.reg["inc"]]
CopyDone(v, ram) == Advance(Copy(Emptied(v), ram), DmaLength(v.reg))

\* Bytes in VRAM, words that wait in the FIFO in VSRAM.
FillCells(v, n) ==
  IF n = 65536 THEN DOMAIN v.vram
  ELSE {Swap((v.a + k * v.reg["inc"]) % 65536) : k \in 0..(n - 1)} \cap DOMAIN v.vram
FillDone(v) ==
  LET n == DmaLength(v.reg)
      u == Emptied(v)
      word(x, k) == Store(x, [to |-> "vsram", a |-> v.a + k * v.reg["inc"], w |-> v.ring[1]])
      filled == IF v.to = "vram"
                THEN [u EXCEPT !.vram = [x \in FillCells(v, n) |-> Hi(v.ring[4])] @@ @]
                ELSE FoldLeft(word, u, [k \in 1..n |-> k - 1]) IN
  [Advance(filled, n) EXCEPT !.busy = "no"]

-----------------------------------------------------------------------------
(* The ports.                                                              *)

\* A register write takes back the command; it is the second half of a
\* command whose first half has been written.
SetReg(v, r, x) ==
  IF v.pend THEN [v EXCEPT !.pend = FALSE, !.to = "none"]
  ELSE [v EXCEPT !.reg[r] = x, !.to = "none", !.dma = FALSE]

\* Code bits 1 and 0 with A13..A0, then the others with A16..A14 and DMA.
Decode(lo, hi) ==
  CASE <<lo, hi>> = <<1, 0>> -> "vram" [] <<lo, hi>> = <<3, 0>> -> "cram"
    [] <<lo, hi>> = <<1, 1>> -> "vsram" [] OTHER -> "none"
DecodeRead(hi) == CASE hi = 0 -> "vram" [] hi = 1 -> "vsram" [] hi = 2 -> "cram"
\* The first half already changes the address and the two bits.
Command1(v, lo, a) ==
  [v EXCEPT !.pend = TRUE, !.lo = lo, !.to = Decode(lo, v.hi),
            !.a = Down(@, 16384) + (a % 16384)]
Command2(v, hi, a, dma) ==
  [v EXCEPT !.pend = FALSE, !.hi = hi, !.to = Decode(v.lo, hi), !.dma = dma,
            !.a = (@ % 16384) + Down(a, 16384)]
DmaStarts(v) == v.dma /\ "DMA" \in v.reg["mode2"] /\ v.reg["src2"] # Fill

Room(v) == Len(v.fifo) < 4
DataWrite(v, w) ==
  LET fill == v.dma /\ "DMA" \in v.reg["mode2"] /\ v.reg["src2"] = Fill IN
  [v EXCEPT !.pend = FALSE,
            !.fifo = IF v.to = "none" THEN @ ELSE Append(@, [to |-> v.to, a |-> v.a, w |-> w]),
            !.ring = IF v.to = "none" THEN @ ELSE Append(Tail(@), w),
            !.a = IF v.to = "none" THEN @ ELSE @ + v.reg["inc"],
            !.busy = IF fill /\ v.to # "none" THEN "new" ELSE @]
\* Waits for the FIFO, not for a fill.
DataRead(v) == [v EXCEPT !.pend = FALSE, !.a = @ + v.reg["inc"]]
DataOf(v) == Load(v, DecodeRead(v.hi), v.a)

VdpInit ==
  [reg |-> [r \in {"inc", "len0", "len1", "src0", "src1"} |-> 0]
           @@ [r \in {"src2"} |-> "ram"] @@ [r \in {"mode1", "mode2"} |-> {}]
           @@ [r \in {"r10"} |-> 255] @@ [r \in {"mode4"} |-> "h32"],
   pend |-> FALSE, lo |-> 0, hi |-> 0, to |-> "none", dma |-> FALSE, a |-> 0,
   vram |-> [x \in VramKept |-> 0], cram |-> [x \in CramKept |-> 0],
   vsram |-> [x \in VsramKept |-> 0],
   fifo |-> <<>>, ring |-> <<0, 0, 0, 0>>, busy |-> "no"]
=============================================================================
