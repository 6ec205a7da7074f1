---------------------------- MODULE HexedEditor -----------------------------
(***************************************************************************)
(* hexed.s: the memory editor on the Mega Drive.  Once per vertical blank  *)
(* VBL runs the frame of the current mode: draw, read the joypad, react.   *)
(* Everything the editor knows is packed in three registers: a6 is the     *)
(* cursor, d5 the input field or the menu's choice, d6 and d7 hold flags.  *)
(* Their fields are the variables here; where fields share a register and  *)
(* one could spill into the other, they share a variable.                  *)
(*                                                                         *)
(* Sizes are scaled: a hexadecimal digit has Base values, an address       *)
(* AddrBytes bytes.  A frame that makes a word access at an odd address    *)
(* ends in INT, which leaves everything as it was (but for the stack), so  *)
(* that the next frame does the same: such a frame is not enabled here.    *)
(*                                                                         *)
(* An operator named ..._Bug is the definition after it with a mistake.    *)
(***************************************************************************)
EXTENDS Integers, Sequences

CONSTANTS
  Base,         \* values of a digit (16)
  AddrBytes,    \* bytes of an address (3)
  Row,          \* bytes in a row of the screen (8)
  Rows,         \* rows on the screen (27)
  OffMod,       \* values of the cursor's offset field (256)
  Under,        \* from here on an offset has been below zero (0xf0)
  RepeatAt,     \* frames until a held button repeats (9)
  Nib,          \* values of the autorepeat counter (16)
  Predef,       \* predef_addrs
  Region,       \* what is at each row of addresses
  Mars,         \* the 32X: "none", "off" (ADEN or nRES is 0) or "on"
  Inputs        \* what the two reads of the joypad may find pressed

Space == Base ^ (2 * AddrBytes)
Page == Row * Rows
Buttons == {"u1", "d1", "l", "r", "b", "c", "u0", "d0", "a", "s"}
Regions == {"memory", "tmss", "bank", "vdpData", "vdp", "psg", "mars", "marsVdp", "empty"}

ASSUME SizesAssumption ==
  /\ {Base, AddrBytes, Row, Rows, OffMod, Under, RepeatAt, Nib} \subseteq Nat \ {0}
  /\ Space \in Nat \ {0} /\ Space % 2 = 0
  /\ Page \in Nat /\ Row <= Page /\ Row % 2 = 0
  /\ Page + Row <= Under /\ Under + Row <= OffMod
  /\ RepeatAt < Nib
ASSUME DataAssumption ==
  /\ Predef \in Seq(0..Space - 1) /\ Len(Predef) > 0
  /\ Region \in [0..Space - 1 -> Regions]
  /\ Mars \in {"none", "off", "on"}
  /\ Inputs \subseteq SUBSET Buttons
\* The provers know nothing of ^: the weights of digits are numbers, and
\* digits can be put side by side.
Places == 0..2 * (AddrBytes + 1)
ASSUME PowerAssumption ==
  /\ Base ^ 1 = Base
  /\ \A k \in Places : Base ^ k \in Nat \ {0}
  /\ \A i, j \in Places : i + j \in Places => Base ^ (i + j) = Base ^ i * Base ^ j

VARIABLES
  cur,    \* a6: the address at the top of the screen and the cursor's offset
  width,  \* d7[15:14]: bytes that a cell of the main view has
  mode, back,   \* d7[10:8] and d7[13:11]
  old,    \* d7[31:16]: the buttons that were down
  d5,     \* the input field: its value, the digit and the bytes; or a choice
  flags,  \* d6[4:0]: the autorepeat counter, and above it no_dtack_detect
  done,   \* d6[7]: the input field is confirmed
  save,   \* d6[31:16]: the upper bytes of the last address gone to
  asked,  \* history: what A has confirmed
  did     \* history: the effect of the last frame

vars == <<cur, width, mode, back, old, d5, flags, done, save, asked, did>>

Nothing == [what |-> "nothing"]
Address == (cur.page + cur.offs) % Space
NoDtack == (flags \div Nib) % 2 = 1
Choice(n) == [val |-> n, pos |-> 0, bytes |-> 0]
Field(val, bytes) == [val |-> val, pos |-> 0, bytes |-> bytes]
LeftOver == [val |-> -1, pos |-> -1, bytes |-> -1]

ChangeMode(new, prev) == mode' = new /\ back' = prev

-----------------------------------------------------------------------------
(* get_input: what is down, what of it is news, and the counter.           *)

Count(in) ==
  IF in \ old # {} \/ (flags + 1) % Nib = RepeatAt
  THEN flags - (flags % Nib) ELSE flags + 1
Repeats(in) == in \subseteq old /\ (flags + 1) % Nib = RepeatAt
News(in) == IF Repeats(in) THEN in ELSE in \ old
GetInput(in) == old' = in /\ flags' = Count(in)

-----------------------------------------------------------------------------
(* mode_main.  The screen first: which words of a row are looked at.       *)

\* get_safety_mask, as the set of the words that may be read.  The test of
\* FM comes after FM has been masked away and changes nothing.
Words == 0..Row \div 2 - 1
FirstHalf == 0..Row \div 4 - 1
SafetyMask(row) ==
  CASE Region[row] \in {"memory", "vdp"} -> Words
    [] Region[row] = "tmss"     -> FirstHalf
    [] Region[row] = "bank"     -> {0}
    [] Region[row] = "vdpData"  -> Words \ FirstHalf
    [] Region[row] = "mars"     -> IF Mars # "none" THEN Words ELSE {}
    [] Region[row] = "marsVdp"  -> IF Mars = "on" THEN Words ELSE {}
    [] Region[row] \in {"psg", "empty"} -> {}

WordsDrawn(row) == IF NoDtack THEN Words ELSE SafetyMask(row)
\* A row of partially safe words shows the cursor without reading it.
CursorRow == (cur.page + cur.offs - (cur.offs % Row)) % Space
Fault == width = 2 /\ cur.offs % 2 = 1 /\ WordsDrawn(CursorRow) = Words

\* a6 is one number: an offset below zero borrows from the page.
Move(c, page, offs) ==
  LET o == c.offs + offs
      borrow == IF o < 0 THEN -1 ELSE IF o >= OffMod THEN 1 ELSE 0 IN
  [page |-> (c.page + page + borrow) % Space, offs |-> o - borrow * OffMod]

\* The macros do_dpad: the first direction that matches.
First(buttons) ==
  IF "u0" \in buttons THEN "u0" ELSE IF "d0" \in buttons THEN "d0"
  ELSE IF "l" \in buttons THEN "l" ELSE IF "r" \in buttons THEN "r" ELSE "none"
ScrollBy == [u0 |-> -Row, d0 |-> Row, l |-> -Page, r |-> Page, none |-> 0]
StepBy == [u0 |-> -Row, d0 |-> Row, l |-> -width, r |-> width, none |-> 0]
Moved(in) ==
  IF "a" \in in /\ First(in) # "none"
  THEN Move(cur, ScrollBy[First(in)], 0) ELSE Move(cur, 0, StepBy[First(News(in))])

\* CursorOnScreen: the last row of the screen counts as below it.
Turned_Bug(c) ==
  IF c.offs >= Under THEN Move(c, -Page, Page)
  ELSE IF c.offs > Page THEN Move(c, Page, -Page) ELSE c
\* An offset that has left the screen turns the page.
Turned(c) ==
  IF c.offs >= Under THEN Move(c, -Page, Page)
  ELSE IF c.offs >= Page THEN Move(c, Page, -Page) ELSE c

\* CursorTracks: the page is made even, not the offset.
Even_Bug(c) == [c EXCEPT !.page = @ - (@ % 2)]
Even(c) == [c EXCEPT !.offs = @ - (@ % 2)]

ModeMain(in) ==
  LET news == News(in) IN
  /\ mode = "main" /\ ~Fault
  /\ GetInput(in)
  /\ cur' = IF "b" \in news THEN Even(Turned(Moved(in))) ELSE Turned(Moved(in))
  /\ width' = IF "b" \in news THEN 3 - width ELSE width
  /\ d5' = IF "s" \in news THEN Choice(0) ELSE LeftOver
  /\ IF "s" \in news THEN ChangeMode("start_menu", "main")
     ELSE IF "c" \in news THEN ChangeMode("edit_val", "main")
     ELSE UNCHANGED <<mode, back>>
  /\ did' = Nothing
  /\ UNCHANGED <<done, save, asked>>

-----------------------------------------------------------------------------
(* The other modes.                                                        *)

\* ConfirmedOnly: the confirmation is kept.
ReturnToMain_Bug == ChangeMode("main", "main") /\ asked' = Nothing /\ UNCHANGED done
ReturnToMain == ChangeMode("main", "main") /\ done' = FALSE /\ asked' = Nothing

\* The value that is read is any.
ModeEditVal ==
  /\ mode = "edit_val" /\ ~done
  /\ width = 1 \/ Address % 2 = 0
  /\ \E v \in 0..Base ^ (2 * width) - 1 : d5' = Field(v, width)
  /\ ChangeMode("val_input", "edit_val")
  /\ did' = Nothing
  /\ UNCHANGED <<cur, width, old, flags, done, save, asked>>
ModeHeditFinish ==
  /\ mode = "edit_val" /\ done
  /\ width = 1 \/ Address % 2 = 0
  /\ did' = [what |-> "edit_val", at |-> Address, bytes |-> width, val |-> d5.val]
  /\ ReturnToMain
  /\ UNCHANGED <<cur, width, old, d5, flags, save>>

ModeGoto ==
  /\ mode = "goto" /\ ~done
  /\ d5' = Field(save * Base ^ 2, AddrBytes)
  /\ ChangeMode("val_input", "goto")
  /\ did' = Nothing
  /\ UNCHANGED <<cur, width, old, flags, done, save, asked>>
GotoFinish(addr) ==
  /\ cur' = [page |-> addr - (addr % Row), offs |-> addr % Row]
  /\ save' = addr \div Base ^ 2
  /\ did' = [what |-> "goto", at |-> Address, bytes |-> AddrBytes, val |-> addr]
  /\ ReturnToMain
  /\ UNCHANGED <<width, d5>>
ModeGotoFinish ==
  /\ mode = "goto" /\ done
  /\ GotoFinish(d5.val)
  /\ UNCHANGED <<old, flags>>

ModeJmpAddr ==
  /\ mode = "jmp_addr" /\ ~done
  /\ d5' = Field(0, AddrBytes)
  /\ ChangeMode("val_input", "jmp_addr")
  /\ did' = Nothing
  /\ UNCHANGED <<cur, width, old, flags, done, save, asked>>
ModeJmpFinish ==
  /\ mode = "jmp_addr" /\ done
  /\ mode' = "left"
  /\ did' = [what |-> "jmp_addr", at |-> Address, bytes |-> AddrBytes, val |-> d5.val]
  /\ UNCHANGED <<cur, width, back, old, d5, flags, done, save, asked>>

\* The digit at the cursor counts up or down without a carry.
Weight == Base ^ (2 * d5.bytes - 1 - d5.pos)
Counted(by) == LET digit == (d5.val \div Weight) % Base IN
               [d5 EXCEPT !.val = @ + (((digit + by) % Base) - digit) * Weight]
NextDigit(by) == [d5 EXCEPT !.pos = (@ + by) % (2 * d5.bytes)]

InputDigit(in) ==
  LET news == News(in) IN
  /\ mode = "val_input" /\ news \cap {"u1", "d1", "l", "r"} # {}
  /\ GetInput(in)
  /\ d5' = IF news \cap {"u0", "d0"} # {}
           THEN Counted(IF "u1" \in news THEN 1 ELSE -1)
           ELSE NextDigit(IF "l" \in news THEN -1 ELSE 1)
  /\ did' = Nothing
  /\ UNCHANGED <<cur, width, mode, back, done, save, asked>>
InputCancel(in) ==
  LET news == News(in) IN
  /\ mode = "val_input" /\ news \cap {"u1", "d1", "l", "r"} = {} /\ news \cap {"b", "s"} # {}
  /\ GetInput(in) /\ ReturnToMain
  /\ did' = Nothing
  /\ UNCHANGED <<cur, width, d5, save>>
InputConfirm(in) ==
  LET news == News(in) IN
  /\ mode = "val_input" /\ news \cap {"u1", "d1", "l", "r", "b", "s"} = {}
  /\ GetInput(in)
  /\ IF "a" \in news
     THEN /\ done' = TRUE /\ mode' = back
          /\ asked' = [what |-> back, at |-> Address, bytes |-> d5.bytes, val |-> d5.val]
     ELSE UNCHANGED <<done, mode, asked>>
  /\ did' = Nothing
  /\ UNCHANGED <<cur, width, back, d5, save>>

MenuEntries == <<"goto", "goto_predef", "jmp_addr", "pc">>
Chosen(news, n) == Choice((d5.val + (IF "u0" \in news THEN -1 ELSE 1)) % n)

MenuMove(in, which, n) ==
  /\ mode = which /\ News(in) \cap {"u0", "d0"} # {}
  /\ GetInput(in) /\ d5' = Chosen(News(in), n)
  /\ did' = Nothing
  /\ UNCHANGED <<cur, width, mode, back, done, save, asked>>
MenuLeave(in) ==
  /\ mode \in {"start_menu", "goto_predef"} /\ News(in) \cap {"u0", "d0", "a"} = {}
  /\ GetInput(in)
  /\ IF News(in) \cap {"b", "c"} # {} THEN ReturnToMain
     ELSE UNCHANGED <<mode, back, done, asked>>
  /\ did' = Nothing
  /\ UNCHANGED <<cur, width, d5, save>>
MenuEnter(in) ==
  /\ mode = "start_menu" /\ News(in) \cap {"u0", "d0"} = {} /\ "a" \in News(in)
  /\ d5.val # 4
  /\ GetInput(in) /\ ChangeMode(MenuEntries[d5.val + 1], "main")
  /\ d5' = IF d5.val = 1 THEN Choice(0) ELSE d5
  /\ did' = Nothing
  /\ UNCHANGED <<cur, width, done, save, asked>>
\* bchg: the flag only, whatever the counter is.
MenuDtack(in) ==
  /\ mode = "start_menu" /\ News(in) \cap {"u0", "d0"} = {} /\ "a" \in News(in)
  /\ d5.val = 4
  /\ old' = in /\ flags' = Count(in) + (IF NoDtack THEN -Nib ELSE Nib)
  /\ did' = Nothing
  /\ UNCHANGED <<cur, width, mode, back, d5, done, save, asked>>
PredefGo(in) ==
  /\ mode = "goto_predef" /\ News(in) \cap {"u0", "d0"} = {} /\ "a" \in News(in)
  /\ GetInput(in) /\ GotoFinish(Predef[d5.val + 1])

\* The transfer itself is HexedTransfer's; afterwards the editor goes on.
\* VBL enters it from any mode when the PC pulls TH of port 2 low.
ModeTransfer ==
  /\ mode # "left" /\ ReturnToMain
  /\ did' = Nothing
  /\ UNCHANGED <<cur, width, old, d5, flags, save>>

-----------------------------------------------------------------------------
EditorInit ==
  /\ cur = [page |-> 0, offs |-> 0] /\ width = 2
  /\ mode = "main" /\ back = "main" /\ old = {}
  /\ d5 = LeftOver /\ flags = 0 /\ done = FALSE /\ save = 0
  /\ asked = Nothing /\ did = Nothing

InputFrame(in) ==
  \/ ModeMain(in)
  \/ InputDigit(in) \/ InputCancel(in) \/ InputConfirm(in)
  \/ MenuMove(in, "start_menu", 5) \/ MenuMove(in, "goto_predef", Len(Predef))
  \/ MenuLeave(in) \/ MenuEnter(in) \/ MenuDtack(in) \/ PredefGo(in)
EditorNext ==
  \/ \E in \in Inputs : InputFrame(in)
  \/ ModeEditVal \/ ModeHeditFinish \/ ModeGoto \/ ModeGotoFinish
  \/ ModeJmpAddr \/ ModeJmpFinish \/ ModeTransfer
EditorSpec == EditorInit /\ [][EditorNext]_vars
-----------------------------------------------------------------------------
Modes == {"main", "val_input", "edit_val", "goto", "start_menu", "goto_predef",
          "jmp_addr", "pc"}

(***************************************************************************)
(* The registers' fields, and whatever shares d5: the input box has a      *)
(* value of its width and a digit inside it, a menu has one of its lines.  *)
(***************************************************************************)
EditorTypeOK ==
  /\ cur.page \in 0..Space - 1 /\ width \in {1, 2}
  /\ mode \in Modes \cup {"left"} /\ back \in Modes /\ old \in Inputs \cup {{}}
  /\ flags \in 0..2 * Nib - 1 /\ done \in BOOLEAN
  /\ save \in 0..(Space - 1) \div Base ^ 2
  /\ mode = "val_input" =>
       /\ d5.bytes \in {1, 2, AddrBytes} /\ d5.pos \in 0..2 * d5.bytes - 1
       /\ d5.val \in 0..Base ^ (2 * d5.bytes) - 1
  /\ mode = "start_menu" => d5.val \in 0..4
  /\ mode = "goto_predef" => d5.val \in 0..Len(Predef) - 1

(***************************************************************************)
(* After every frame the cursor is in one of the rows on the screen, so    *)
(* that draw_row meets it, and an offset never leaks into the page.        *)
(***************************************************************************)
CursorOnScreen == cur.offs \in 0..Page - 1

(***************************************************************************)
(* The address under the cursor moves by what a held direction button      *)
(* stands for, whatever pages are turned on the way and round the end of   *)
(* the address space; a change of width makes it even; nothing but these   *)
(* and a goto moves it.                                                    *)
(***************************************************************************)
Distance(b, scroll) == CASE b = "u0" -> -Row [] b = "d0" -> Row
                         [] b = "l" -> IF scroll THEN -Page ELSE -width
                         [] b = "r" -> IF scroll THEN Page ELSE width
MovedBy(d) == LET to == (Address + d) % Space IN
              Address' = IF width' # width THEN to - (to % 2) ELSE to
CursorTracks ==
  [][IF did'.what = "goto" THEN Address' = did'.val
     ELSE \/ MovedBy(0)
          \/ /\ mode = "main"
             /\ \E b \in old' \cap {"u0", "d0", "l", "r"} : MovedBy(Distance(b, "a" \in old'))]_vars

(***************************************************************************)
(* Memory is written, the program is left and the cursor sent elsewhere    *)
(* only with what the input box showed when A confirmed it, for the        *)
(* purpose it was opened for, and where the cursor stood (or with a line   *)
(* of the menu of addresses).  A box that was cancelled, or that the PC    *)
(* interrupted, leaves nothing behind that a later frame would act on.     *)
(***************************************************************************)
ConfirmedOnly ==
  [][did'.what # "nothing" =>
       \/ did' = asked
       \/ /\ mode = "goto_predef" /\ did'.what = "goto"
          /\ \E i \in DOMAIN Predef : did'.val = Predef[i]]_vars

(***************************************************************************)
(* Why CursorOnScreen and ConfirmedOnly hold, as an inductive invariant:   *)
(* what asked remembers is what the registers hold as long as done is set, *)
(* and done is set only in a mode that acts on it at once; the box has the *)
(* width of its purpose.                                                   *)
(***************************************************************************)
Purposes == {"edit_val", "goto", "jmp_addr"}
BytesFor(purpose) == IF purpose = "edit_val" THEN width ELSE AddrBytes
AskedInv ==
  /\ done => /\ mode \in Purposes \cup {"left"}
             /\ mode # "left" => asked = [what |-> mode, at |-> Address,
                                         bytes |-> d5.bytes, val |-> d5.val]
  /\ ~done => asked = Nothing /\ mode # "left"
BoxInv ==
  mode = "val_input" => /\ ~done /\ back \in Purposes
                        /\ d5.bytes = BytesFor(back) /\ d5.pos \in 0..2 * d5.bytes - 1
ConfirmedBytes == done /\ mode # "left" => d5.bytes = BytesFor(mode)
ChoiceInv == /\ mode = "start_menu" => d5.val \in 0..4
             /\ mode = "goto_predef" => d5.val \in 0..Len(Predef) - 1
EditorInv ==
  /\ cur \in [page : Int, offs : 0..Page - 1] /\ width \in {1, 2}
  /\ d5 \in [val : Int, pos : Int, bytes : Int] /\ save \in Int
  /\ BoxInv /\ AskedInv /\ ConfirmedBytes /\ ChoiceInv

(***************************************************************************)
(* Why CursorTracks and DtackByMenu hold: a page starts at an even address *)
(* of the address space, what can be gone to is an address (also what save *)
(* completes to one), and the counter starts again before it would count   *)
(* into the flag.                                                          *)
(***************************************************************************)
PageInv == cur.page \in 0..Space - 1 /\ cur.page % 2 = 0
BoxFits == mode = "val_input" => d5.val \in 0..Base ^ (2 * d5.bytes) - 1
GotoFits ==
  /\ save \in Nat /\ save * Base ^ 2 < Space
  /\ done /\ mode = "goto" => d5.val \in 0..Space - 1
FlagsInv == flags \in 0..2 * Nib - 1 /\ flags % Nib < RepeatAt
TrackInv == PageInv /\ BoxFits /\ GotoFits /\ FlagsInv

(***************************************************************************)
(* DTACK safety is switched by its line in the menu only, never by the     *)
(* autorepeat counter that is kept in the four bits below it.              *)
(***************************************************************************)
DtackByMenu ==
  [][NoDtack' # NoDtack => mode = "start_menu" /\ d5.val = 4 /\ "a" \in old']_vars

(***************************************************************************)
(* "doing byte reads on security reg hangs": while DTACK safety is on, the *)
(* row with that register is drawn by words.                               *)
(***************************************************************************)
SecurityByWords ==
  mode = "main" /\ ~NoDtack =>
    \A row \in 0..Rows - 1 :
      LET at == (cur.page + row * Row) % Space IN
      Region[at] = "tmss" /\ WordsDrawn(at) # {} => width = 2
=============================================================================
