------------------------- MODULE HexedEditorProofs --------------------------
(***************************************************************************)
(* For editors of any size, with any joypad: the cursor stays on the       *)
(* screen and moves as asked, the editor acts on what A has confirmed      *)
(* only, and the autorepeat counter stays out of the flag above it.        *)
(*                                                                         *)
(* EditorInv is inductive.  CursorOnScreen is one of its parts; each step  *)
(* that has an effect starts in a state where done is set, and there       *)
(* AskedInv says what the effect is.  TrackInv is inductive with it: an    *)
(* address is a page and an offset, which may lend to each other, and the  *)
(* lemmas on quotients and remainders say that nothing is lost.            *)
(***************************************************************************)
EXTENDS HexedEditor, TLAPS

Cursors == [page : Int, offs : 0..Page - 1]

\* What the constants are, for the provers.
LEMMA Sizes ==
  /\ Base \in Nat \ {0}
  /\ Row \in Nat /\ Row > 1 /\ Page \in Nat /\ Space \in Nat \ {0}
  /\ Under \in Nat /\ OffMod \in Nat
  /\ Row <= Page /\ Page + Row <= Under /\ Under + Row <= OffMod
  /\ AddrBytes \in Nat \ {0}
  BY SizesAssumption
LEMMA PredefAddresses == Predef \in Seq(Int) /\ Len(Predef) \in Nat \ {0}
  BY Sizes, DataAssumption

\* The powers of Base that the code uses are positive numbers.
LEMMA ByteWeight == Base ^ 2 \in Nat \ {0}
  BY Sizes, PowerAssumption DEF Places
LEMMA DigitWeight ==
  ASSUME NEW bytes \in 1..AddrBytes + 1, NEW pos \in 0..2 * bytes - 1
  PROVE  Base ^ (2 * bytes - 1 - pos) \in Nat \ {0}
  <1>1. 2 * bytes - 1 - pos \in 0..2 * (AddrBytes + 1)
    BY Sizes
  <1> QED
    BY <1>1, PowerAssumption DEF Places

-----------------------------------------------------------------------------
(* The cursor.                                                             *)

\* A move on the screen ends on it or less than a row away from it, where
\* an offset below zero is a large one.
LEMMA MoveOffs ==
  ASSUME NEW c \in Cursors, NEW page \in Int, NEW by \in -Row..Row
  PROVE  LET m == Move(c, page, by) IN
         /\ m \in [page : Int, offs : Int]
         /\ m.offs \in 0..Page + Row - 1 \/ m.offs \in OffMod - Row..OffMod - 1
  <1>1. c.page \in Int /\ c.offs \in 0..Page - 1
    BY DEF Cursors
  <1> QED
    BY <1>1, Sizes DEF Move

\* Turning the page brings such an offset back on the screen.
LEMMA TurnedOnScreen ==
  ASSUME NEW c \in [page : Int, offs : Int],
         c.offs \in 0..Page + Row - 1 \/ c.offs \in OffMod - Row..OffMod - 1
  PROVE  Turned(c) \in Cursors
  <1>1. CASE c.offs >= Under
    <2>1. c.offs \in OffMod - Row..OffMod - 1
      BY <1>1, Sizes
    <2> QED
      BY <1>1, <2>1, Sizes DEF Turned, Move, Cursors
  <1>2. CASE ~(c.offs >= Under)
    <2>1. c.offs \in 0..Page + Row - 1
      BY <1>2, Sizes
    <2> QED
      BY <1>2, <2>1, Sizes DEF Turned, Move, Cursors
  <1> QED
    BY <1>1, <1>2

\* Making the offset even keeps it on the screen.
LEMMA EvenOnScreen == ASSUME NEW c \in Cursors PROVE Even(c) \in Cursors
  <1>1. c.offs \in 0..Page - 1 /\ c.offs - (c.offs % 2) \in 0..Page - 1
    BY Sizes DEF Cursors
  <1> QED
    BY <1>1 DEF Even, Cursors

\* Whatever is pressed moves the cursor by at most a row, or by pages.
LEMMA MovedNear ==
  ASSUME cur \in Cursors, width \in {1, 2}, NEW in
  PROVE  /\ Moved(in) \in [page : Int, offs : Int]
         /\ \/ Moved(in).offs \in 0..Page + Row - 1
            \/ Moved(in).offs \in OffMod - Row..OffMod - 1
  <1> DEFINE Near(m) == /\ m \in [page : Int, offs : Int]
                        /\ m.offs \in 0..Page + Row - 1 \/ m.offs \in OffMod - Row..OffMod - 1
  <1>1. ASSUME NEW page \in Int, NEW by \in -Row..Row PROVE Near(Move(cur, page, by))
    BY <1>1, MoveOffs
  <1>2. /\ \A b : ScrollBy[First(b)] \in Int
        /\ \A b : StepBy[First(b)] \in -Row..Row
    BY Sizes DEF ScrollBy, StepBy, First
  <1>3. 0 \in Int /\ 0 \in -Row..Row
    BY Sizes
  <1> HIDE DEF Near
  <1>4. Near(Move(cur, ScrollBy[First(in)], 0))
    BY <1>1, <1>2, <1>3
  <1>5. Near(Move(cur, 0, StepBy[First(News(in))]))
    BY <1>1, <1>2, <1>3
  <1>6. Near(Moved(in))
    BY <1>4, <1>5 DEF Moved
  <1> QED
    BY <1>6 DEF Near

\* A goto puts the cursor in the first row.
LEMMA GotoOnScreen ==
  ASSUME NEW addr \in Int
  PROVE  /\ [page |-> addr - (addr % Row), offs |-> addr % Row] \in Cursors
         /\ addr \div Base ^ 2 \in Int
  <1>1. addr % Row \in 0..Row - 1
    BY Sizes
  <1>2. addr \div Base ^ 2 \in Int
    BY ByteWeight
  <1> QED
    BY <1>1, <1>2, Sizes DEF Cursors

-----------------------------------------------------------------------------
(* The invariant.                                                          *)

\* What the invariant says of the numbers alone.
Numbers == /\ cur \in Cursors /\ width \in {1, 2}
           /\ d5 \in [val : Int, pos : Int, bytes : Int] /\ save \in Int

LEMMA InitInv == EditorInit => EditorInv
  BY Sizes DEF EditorInit, EditorInv, BoxInv, AskedInv, ConfirmedBytes, ChoiceInv, LeftOver, Nothing

\* In the main view nothing is confirmed, and nothing becomes so.
LEMMA MainInv ==
  ASSUME EditorInv, NEW in, ModeMain(in)
  PROVE  EditorInv'
  <1>1. cur' \in Cursors
    <2>1. Turned(Moved(in)) \in Cursors
      BY MovedNear, TurnedOnScreen DEF EditorInv, Cursors
    <2> QED
      BY <2>1, EvenOnScreen DEF ModeMain
  <1>2. width' \in {1, 2}
    BY DEF ModeMain, EditorInv
  <1>3. d5' \in [val : Int, pos : Int, bytes : Int]
    BY DEF ModeMain, Choice, LeftOver
  <1>4. ~done /\ asked = Nothing /\ done' = done /\ asked' = asked /\ save' = save
    BY DEF ModeMain, EditorInv, AskedInv, Purposes
  <1>5. /\ mode' \in {"main", "start_menu", "edit_val"}
        /\ mode' = "start_menu" => d5'.val = 0
    BY DEF ModeMain, ChangeMode, Choice
  <1> QED
    BY <1>1, <1>2, <1>3, <1>4, <1>5
    DEF EditorInv, BoxInv, AskedInv, ConfirmedBytes, ChoiceInv, Cursors, Nothing

\* The three openings of the box give it the width of its purpose.
LEMMA OpenInv ==
  ASSUME EditorInv, ModeEditVal \/ ModeGoto \/ ModeJmpAddr
  PROVE  EditorInv'
  <1>1. /\ ~done /\ asked = Nothing /\ done' = done /\ asked' = asked
        /\ cur' = cur /\ width' = width /\ save' = save /\ mode' = "val_input"
    BY DEF EditorInv, AskedInv, ModeEditVal, ModeGoto, ModeJmpAddr, ChangeMode
  <1>2. /\ back' \in Purposes /\ d5'.bytes = BytesFor(back') /\ d5'.pos = 0
        /\ d5' \in [val : Int, pos : Int, bytes : Int]
    <2>1. CASE ModeEditVal
      BY <2>1 DEF EditorInv, ModeEditVal, ChangeMode, Purposes, BytesFor, Field
    <2>2. CASE ModeGoto
      <3>1. save * Base ^ 2 \in Int
        BY ByteWeight DEF EditorInv
      <3> QED
        BY <2>2, <3>1, Sizes DEF ModeGoto, ChangeMode, Purposes, BytesFor, Field
    <2>3. CASE ModeJmpAddr
      BY <2>3, Sizes DEF ModeJmpAddr, ChangeMode, Purposes, BytesFor, Field
    <2> QED
      BY <2>1, <2>2, <2>3
  <1>3. 0 \in 0..2 * BytesFor(back') - 1
    BY <1>2, Sizes DEF EditorInv, BytesFor
  <1> QED
    BY <1>1, <1>2, <1>3
    DEF EditorInv, BoxInv, AskedInv, ConfirmedBytes, ChoiceInv, BytesFor, Nothing

\* What the way back to the main view leaves.
LEMMA ReturnInv ==
  ASSUME Numbers', ReturnToMain
  PROVE  EditorInv'
  BY DEF Numbers, ReturnToMain, ChangeMode, EditorInv, BoxInv, AskedInv, ConfirmedBytes, ChoiceInv,
         Cursors, Nothing

LEMMA GotoInv ==
  ASSUME EditorInv, NEW addr \in Int, GotoFinish(addr)
  PROVE  EditorInv'
  <1>1. Numbers'
    BY GotoOnScreen DEF GotoFinish, Numbers, EditorInv
  <1> QED
    BY <1>1, ReturnInv DEF GotoFinish

\* A digit is changed or the next one chosen: the box stays what it is.
LEMMA DigitInv ==
  ASSUME EditorInv, NEW in, InputDigit(in)
  PROVE  EditorInv'
  <1>1. /\ d5 \in [val : Int, pos : Int, bytes : Int] /\ d5.bytes \in 1..AddrBytes + 1
        /\ d5.pos \in 0..2 * d5.bytes - 1 /\ d5.bytes = BytesFor(back) /\ ~done /\ back \in Purposes
    BY Sizes DEF EditorInv, BoxInv, BytesFor, InputDigit
  <1>2. ASSUME NEW by \in {-1, 1}
        PROVE  /\ Counted(by) \in [val : Int, pos : Int, bytes : Int]
               /\ Counted(by).bytes = d5.bytes /\ Counted(by).pos = d5.pos
    <2>1. Weight \in Nat \ {0} /\ Base \in Nat \ {0}
      BY <1>1, DigitWeight, Sizes DEF Weight
    <2>2. ((d5.val \div Weight) % Base) \in Int
      BY <1>1, <2>1
    <2> DEFINE digit == (d5.val \div Weight) % Base
    <2> HIDE DEF digit
    <2>3. (((digit + by) % Base) - digit) \in Int
      BY <2>1, <2>2 DEF digit
    <2> DEFINE change == ((digit + by) % Base) - digit
    <2> HIDE DEF change
    <2>4. d5.val + change * Weight \in Int
      BY <1>1, <2>1, <2>3 DEF change
    <2>5. Counted(by) = [d5 EXCEPT !.val = d5.val + change * Weight]
      BY DEF Counted, change, digit
    <2> QED
      BY <1>1, <2>4, <2>5
  <1>3. ASSUME NEW by \in {-1, 1}
        PROVE  /\ NextDigit(by) \in [val : Int, pos : Int, bytes : Int]
               /\ NextDigit(by).bytes = d5.bytes /\ NextDigit(by).pos \in 0..2 * d5.bytes - 1
    <2>1. d5.pos + by \in Int /\ 2 * d5.bytes \in Nat \ {0}
      BY <1>1, Sizes
    <2>2. (d5.pos + by) % (2 * d5.bytes) \in 0..2 * d5.bytes - 1
      BY <2>1
    <2> QED
      BY <1>1, <2>2 DEF NextDigit
  <1>4. /\ d5' \in [val : Int, pos : Int, bytes : Int] /\ d5'.bytes = d5.bytes
        /\ d5'.pos \in 0..2 * d5'.bytes - 1
    BY <1>1, <1>2, <1>3 DEF InputDigit
  <1>5. /\ UNCHANGED <<cur, width, mode, back, done, save, asked>> /\ mode = "val_input"
    BY DEF InputDigit
  <1> QED
    BY <1>1, <1>4, <1>5 DEF EditorInv, BoxInv, AskedInv, ConfirmedBytes, ChoiceInv, BytesFor

\* A confirmation is remembered as it is.
LEMMA ConfirmInv ==
  ASSUME EditorInv, NEW in, InputConfirm(in)
  PROVE  EditorInv'
  <1>1. /\ ~done /\ back \in Purposes /\ d5.bytes = BytesFor(back)
        /\ UNCHANGED <<cur, width, back, d5, save>>
    BY DEF EditorInv, BoxInv, InputConfirm
  <1>2. CASE "a" \in News(in)
    <2>1. /\ done' /\ mode' = back
          /\ back \notin {"val_input", "left", "start_menu", "goto_predef"}
          /\ asked' = [what |-> back, at |-> Address, bytes |-> d5.bytes, val |-> d5.val]
      BY <1>1, <1>2 DEF InputConfirm, Purposes
    <2> QED
      BY <1>1, <2>1 DEF EditorInv, BoxInv, AskedInv, ConfirmedBytes, ChoiceInv, BytesFor, Address
  <1>3. CASE "a" \notin News(in)
    BY <1>1, <1>3 DEF InputConfirm, EditorInv, BoxInv, AskedInv, ConfirmedBytes, ChoiceInv, BytesFor
  <1> QED
    BY <1>2, <1>3

\* In the menus nothing is confirmed, and no entry is the input box itself.
LEMMA MenuMoveInv ==
  ASSUME EditorInv, NEW in,
         MenuMove(in, "start_menu", 5) \/ MenuMove(in, "goto_predef", Len(Predef))
  PROVE  EditorInv'
  <1>1. /\ mode \in {"start_menu", "goto_predef"} /\ ~done
        /\ UNCHANGED <<cur, width, mode, back, done, save, asked>>
    BY DEF MenuMove, EditorInv, AskedInv, Purposes
  <1>2. ASSUME NEW n \in Nat \ {0}, NEW news
        PROVE  /\ Chosen(news, n) \in [val : Int, pos : Int, bytes : Int]
               /\ Chosen(news, n).val \in 0..n - 1
    <2>1. d5.val + (IF "u0" \in news THEN -1 ELSE 1) \in Int
      BY DEF EditorInv
    <2>2. (d5.val + (IF "u0" \in news THEN -1 ELSE 1)) % n \in 0..n - 1
      BY <2>1
    <2> QED
      BY <2>2 DEF Chosen, Choice
  <1>3. Len(Predef) \in Nat \ {0}
    BY PredefAddresses
  <1>4. d5' \in [val : Int, pos : Int, bytes : Int] /\ ChoiceInv'
    BY <1>1, <1>2, <1>3 DEF MenuMove, ChoiceInv
  <1> QED
    BY <1>1, <1>4 DEF EditorInv, BoxInv, AskedInv, ConfirmedBytes

LEMMA MenuEnterInv ==
  ASSUME EditorInv, NEW in, MenuEnter(in)
  PROVE  EditorInv'
  <1>1. /\ d5.val \in 0..3 /\ ~done /\ asked = Nothing
        /\ UNCHANGED <<cur, width, done, save, asked>>
    BY DEF MenuEnter, EditorInv, AskedInv, ChoiceInv, Purposes
  <1>2. mode' \in {"goto", "goto_predef", "jmp_addr", "pc"} /\ (mode' = "goto_predef" => d5.val = 1)
    BY <1>1 DEF MenuEnter, ChangeMode, MenuEntries
  <1>3. /\ d5' \in [val : Int, pos : Int, bytes : Int]
        /\ mode' = "goto_predef" => d5'.val = 0
    BY <1>2 DEF MenuEnter, EditorInv, Choice
  <1>4. 0 \in 0..Len(Predef) - 1
    BY PredefAddresses
  <1> QED
    BY <1>1, <1>2, <1>3, <1>4
    DEF EditorInv, BoxInv, AskedInv, ConfirmedBytes, ChoiceInv, Nothing

LEMMA FrameInv ==
  ASSUME EditorInv, NEW in, InputFrame(in)
  PROVE  EditorInv'
  <1>1. Numbers
    BY DEF EditorInv, Numbers, Cursors
  <1>2. CASE ModeMain(in)
    BY <1>2, MainInv
  <1>3. CASE InputDigit(in)
    BY <1>3, DigitInv
  <1>4. CASE InputCancel(in)
    <2>1. Numbers' /\ ReturnToMain
      BY <1>1, <1>4 DEF InputCancel, Numbers
    <2> QED
      BY <2>1, ReturnInv
  <1>5. CASE InputConfirm(in)
    BY <1>5, ConfirmInv
  <1>6. CASE MenuMove(in, "start_menu", 5) \/ MenuMove(in, "goto_predef", Len(Predef))
    BY <1>6, MenuMoveInv
  <1>7. CASE MenuLeave(in)
    <2>1. CASE ReturnToMain
      <3>1. Numbers'
        BY <1>1, <1>7 DEF MenuLeave, Numbers
      <3> QED
        BY <2>1, <3>1, ReturnInv
    <2>2. CASE UNCHANGED <<mode, back, done, asked>>
      BY <1>7, <2>2 DEF MenuLeave, EditorInv, BoxInv, AskedInv, ConfirmedBytes, ChoiceInv,
                        BytesFor, Address
    <2> QED
      BY <1>7, <2>1, <2>2 DEF MenuLeave
  <1>8. CASE MenuEnter(in)
    BY <1>8, MenuEnterInv
  <1>9. CASE MenuDtack(in)
    BY <1>9 DEF MenuDtack, EditorInv, BoxInv, AskedInv, ConfirmedBytes, ChoiceInv, BytesFor, Address
  <1>10. CASE PredefGo(in)
    <2>1. Predef[d5.val + 1] \in Int
      <3>1. d5.val + 1 \in 1..Len(Predef)
        BY <1>10, PredefAddresses DEF PredefGo, EditorInv, ChoiceInv
      <3> QED
        BY <3>1, PredefAddresses
    <2> QED
      BY <1>10, <2>1, GotoInv DEF PredefGo
  <1> QED
    BY <1>2, <1>3, <1>4, <1>5, <1>6, <1>7, <1>8, <1>9, <1>10 DEF InputFrame

\* Every step keeps the invariant.
LEMMA StepInv == EditorInv /\ [EditorNext]_vars => EditorInv'
  <1> SUFFICES ASSUME EditorInv, [EditorNext]_vars PROVE EditorInv'
    OBVIOUS
  <1>1. Numbers
    BY DEF EditorInv, Numbers, Cursors
  <1>2. ASSUME NEW in \in Inputs, InputFrame(in) PROVE EditorInv'
    BY <1>2, FrameInv
  <1>3. CASE ModeEditVal \/ ModeGoto \/ ModeJmpAddr
    BY <1>3, OpenInv
  <1>4. CASE ModeHeditFinish
    <2>1. Numbers' /\ ReturnToMain
      BY <1>1, <1>4 DEF ModeHeditFinish, Numbers
    <2> QED
      BY <2>1, ReturnInv
  <1>5. CASE ModeGotoFinish
    BY <1>5, GotoInv DEF ModeGotoFinish, EditorInv
  <1>6. CASE ModeJmpFinish
    BY <1>6 DEF ModeJmpFinish, EditorInv, BoxInv, AskedInv, ConfirmedBytes, ChoiceInv
  <1>7. CASE ModeTransfer
    <2>1. Numbers' /\ ReturnToMain
      BY <1>1, <1>7 DEF ModeTransfer, Numbers
    <2> QED
      BY <2>1, ReturnInv
  <1>8. CASE UNCHANGED vars
    BY <1>8 DEF vars, EditorInv, BoxInv, AskedInv, ConfirmedBytes, ChoiceInv, BytesFor, Address
  <1> QED
    BY <1>2, <1>3, <1>4, <1>5, <1>6, <1>7, <1>8 DEF EditorNext

\* The registers' contents of every editor at every frame: EditorInv.
THEOREM EditorInvariant == EditorSpec => []EditorInv
  BY InitInv, StepInv, PTL DEF EditorSpec

\* The cursor never leaves the rows that are drawn (dpad_end in hexed.s),
\* whatever the sizes of rows, screen, offset and address space.
THEOREM CursorStaysOnScreen == EditorSpec => []CursorOnScreen
  <1>1. EditorInv => CursorOnScreen
    BY DEF EditorInv, CursorOnScreen
  <1> QED
    BY <1>1, EditorInvariant, PTL

\* The three finishing frames and the menu of addresses are the only ones
\* with an effect, and it is the confirmed one.
LEMMA EffectConfirmed ==
  ASSUME EditorInv, [EditorNext]_vars
  PROVE  [did'.what # "nothing" =>
       \/ did' = asked
       \/ /\ mode = "goto_predef" /\ did'.what = "goto"
          /\ \E i \in DOMAIN Predef : did'.val = Predef[i]]_vars
  <1> DEFINE Confirmed ==
         did'.what # "nothing" =>
           \/ did' = asked
           \/ /\ mode = "goto_predef" /\ did'.what = "goto"
              /\ \E i \in DOMAIN Predef : did'.val = Predef[i]
  <1>1. CASE did' = Nothing
    BY <1>1 DEF Nothing
  <1>2. CASE ModeHeditFinish \/ ModeJmpFinish \/ ModeGotoFinish
    <2>1. done /\ mode # "left" /\ asked = [what |-> mode, at |-> Address,
                                         bytes |-> BytesFor(mode), val |-> d5.val]
      BY <1>2 DEF ModeHeditFinish, ModeJmpFinish, ModeGotoFinish, EditorInv, AskedInv, ConfirmedBytes
    <2> QED
      BY <1>2, <2>1 DEF ModeHeditFinish, ModeJmpFinish, ModeGotoFinish, GotoFinish, BytesFor
  <1>3. ASSUME NEW in, PredefGo(in) PROVE Confirmed
    <2>1. d5.val + 1 \in DOMAIN Predef
      BY <1>3, PredefAddresses DEF PredefGo, EditorInv, ChoiceInv
    <2> QED
      BY <1>3, <2>1 DEF PredefGo, GotoFinish
  <1>4. CASE UNCHANGED vars
    BY <1>4
  <1>5. EditorNext => \/ did' = Nothing \/ ModeHeditFinish \/ ModeJmpFinish \/ ModeGotoFinish
                     \/ \E in : PredefGo(in)
    BY DEF EditorNext, InputFrame, ModeMain, InputDigit, InputCancel, InputConfirm, MenuMove,
           MenuLeave, MenuEnter, MenuDtack, ModeEditVal, ModeGoto, ModeJmpAddr, ModeTransfer
  <1> QED
    BY <1>1, <1>2, <1>3, <1>4, <1>5

\* The editor writes, goes and jumps only as A has confirmed.
THEOREM OnlyConfirmed == EditorSpec => ConfirmedOnly
  BY EditorInvariant, EffectConfirmed, PTL DEF EditorSpec, ConfirmedOnly
-----------------------------------------------------------------------------
(* Arithmetic on addresses and digits: division by any positive number.    *)

LEMMA DivMod ==
  ASSUME NEW n \in Int, NEW d \in Nat \ {0}
  PROVE  /\ n \div d \in Int /\ n % d \in 0..d - 1
         /\ n = d * (n \div d) + (n % d)
  OBVIOUS

LEMMA ProductOfDifference ==
  ASSUME NEW d \in Nat \ {0}, NEW p \in Int, NEW q \in Int, p < q
  PROVE  d * p + d <= d * q
  <1>1. d * (q - p - 1) >= 0
    OBVIOUS
  <1>2. d * (q - p - 1) = d * q - d * p - d
    OBVIOUS
  <1> QED
    BY <1>1, <1>2

\* Quotient and remainder are the only ones.
LEMMA Quotient ==
  ASSUME NEW d \in Nat \ {0}, NEW q \in Int, NEW r \in 0..d - 1, NEW n \in Int, n = d * q + r
  PROVE  n % d = r /\ n \div d = q
  <1> DEFINE p == n \div d
             s == n % d
  <1>1. p \in Int /\ s \in 0..d - 1 /\ n = d * p + s
    BY DivMod
  <1> HIDE DEF p, s
  <1>2. CASE p < q
    BY <1>1, <1>2, ProductOfDifference
  <1>3. CASE q < p
    BY <1>1, <1>3, ProductOfDifference
  <1>4. CASE p = q
    BY <1>1, <1>4 DEF p, s
  <1> QED
    BY <1>1, <1>2, <1>3, <1>4

\* Any number of turns round the address space changes nothing.
LEMMA Turns ==
  ASSUME NEW d \in Nat \ {0}, NEW x \in Int, NEW k \in Int
  PROVE  (x + d * k) % d = x % d
  <1>1. x \div d \in Int /\ x % d \in 0..d - 1 /\ x = d * (x \div d) + (x % d)
    BY DivMod
  <1> DEFINE q == x \div d
             r == x % d
  <1> HIDE DEF q, r
  <1>2. q \in Int /\ r \in 0..d - 1 /\ x = d * q + r
    BY <1>1 DEF q, r
  <1>3. x + d * k = d * (q + k) + r
    BY <1>2
  <1>4. q + k \in Int /\ x + d * k \in Int
    BY <1>2
  <1>5. (x + d * k) % d = r
    BY <1>2, <1>3, <1>4, Quotient
  <1> QED
    BY <1>5 DEF r

LEMMA ModPlus ==
  ASSUME NEW d \in Nat \ {0}, NEW x \in Int, NEW y \in Int
  PROVE  ((x % d) + y) % d = (x + y) % d
  <1> DEFINE q == x \div d
             r == x % d
  <1>1. q \in Int /\ r \in Int /\ x = d * q + r
    BY DivMod
  <1> HIDE DEF q, r
  <1>2. r + y \in Int /\ x + y = (r + y) + d * q
    BY <1>1
  <1>3. (x + y) % d = (r + y) % d
    BY <1>1, <1>2, Turns
  <1> QED
    BY <1>3 DEF r

LEMMA Small ==
  ASSUME NEW d \in Nat \ {0}, NEW x \in 0..d - 1
  PROVE  x % d = x
  <1>1. 0 \in Int /\ x \in Int /\ x = d * 0 + x
    OBVIOUS
  <1> QED
    BY <1>1, Quotient

\* Even numbers.
LEMMA EvenTwice == ASSUME NEW n \in Int PROVE /\ n % 2 = 0 <=> n = 2 * (n \div 2)
                                            /\ n \div 2 \in Int
  OBVIOUS
LEMMA EvenSum ==
  ASSUME NEW x \in Int, NEW y \in Int, y % 2 = 0
  PROVE  (x + y) % 2 = x % 2
  OBVIOUS
LEMMA EvenProduct ==
  ASSUME NEW x \in Int, NEW y \in Int, x % 2 = 0
  PROVE  (x * y) % 2 = 0
  <1> DEFINE h == x \div 2
  <1>1. h \in Int /\ x = 2 * h
    BY EvenTwice
  <1> HIDE DEF h
  <1>2. x * y = 2 * (h * y) /\ h * y \in Int
    BY <1>1
  <1>3. (2 * (h * y)) % 2 = 0
    BY <1>2
  <1> QED
    BY <1>2, <1>3
LEMMA EvenRest ==
  ASSUME NEW d \in Nat \ {0}, d % 2 = 0, NEW x \in Int
  PROVE  (x % d) % 2 = x % 2
  <1> DEFINE q == x \div d
             r == x % d
  <1>1. q \in Int /\ r \in Int /\ x = d * q + r
    BY DivMod
  <1> HIDE DEF q, r
  <1>2. d \in Int /\ d * q \in Int
    BY <1>1
  <1> HIDE DEF q
  <1>5. (d * q) % 2 = 0
    BY <1>1, <1>2, EvenProduct
  <1>3. (r + d * q) % 2 = r % 2
    BY <1>1, <1>2, <1>5, EvenSum
  <1>4. x = r + d * q
    BY <1>1
  <1> QED
    BY <1>3, <1>4 DEF r

-----------------------------------------------------------------------------
(* Where the cursor points: the address under it.                          *)

UnderIt(c) == (c.page + c.offs) % Space

LEMMA PageIsEven == Page \in Nat /\ Page % 2 = 0 /\ Row % 2 = 0 /\ Space % 2 = 0
  <1>1. Row \in Int /\ Rows \in Int /\ Row % 2 = 0
    BY SizesAssumption
  <1>2. (Row * Rows) % 2 = 0
    BY <1>1, EvenProduct
  <1> QED
    BY <1>2, SizesAssumption DEF Page

LEMMA InSpace ==
  ASSUME NEW x \in Int
  PROVE  /\ x % Space \in 0..Space - 1 /\ x % Space \in Int
         /\ x \div Space \in Int /\ x = Space * (x \div Space) + (x % Space)
  <1>1. Space \in Nat \ {0}
    BY Sizes
  <1>2. x % Space \in 0..Space - 1 /\ x \div Space \in Int /\ x = Space * (x \div Space) + (x % Space)
    BY <1>1, DivMod
  <1> QED
    BY <1>1, <1>2

\* A move to another page, the offset being what it must be for by.
LEMMA Relocated ==
  ASSUME NEW c \in Cursors, c.page % 2 = 0, NEW by \in Int, NEW d \in Int, d % 2 = 0,
         NEW t, t = [page |-> (c.page + d) % Space, offs |-> c.offs + by - d]
  PROVE  /\ t.page \in 0..Space - 1 /\ t.page % 2 = 0
         /\ UnderIt(t) = (UnderIt(c) + by) % Space
  <1>1. c.page \in Int /\ c.offs \in Int /\ Space \in Nat \ {0} /\ Space % 2 = 0
    BY Sizes, PageIsEven DEF Cursors
  <1>2. t.page = (c.page + d) % Space /\ t.offs = c.offs + by - d
    OBVIOUS
  <1>3. (c.page + d) % Space \in 0..Space - 1 /\ c.page + d \in Int
    <2>1. c.page + d \in Int
      BY <1>1
    <2> QED
      BY <2>1, InSpace
  <1>4. ((c.page + d) % Space) % 2 = 0
    <2>1. (c.page + d) % 2 = 0
      BY <1>1, EvenSum
    <2> QED
      BY <1>1, <1>3, <2>1, EvenRest
  <1>5. UnderIt(t) = (c.page + c.offs + by) % Space
    <2> DEFINE p == c.page
               o == c.offs
    <2>3. p \in Int /\ o \in Int /\ by \in Int /\ d \in Int
      BY <1>1
    <2> HIDE DEF p, o
    <2>4. o + by - d \in Int /\ (p + d) + (o + by - d) = p + o + by
      BY <2>3
    <2>1. c.offs + by - d \in Int /\ (c.page + d) + (c.offs + by - d) = c.page + c.offs + by
      BY <2>4 DEF p, o
    <2>2. (((c.page + d) % Space) + (c.offs + by - d)) % Space
            = ((c.page + d) + (c.offs + by - d)) % Space
      BY <1>1, <1>3, <2>1, ModPlus
    <2> QED
      BY <1>2, <2>1, <2>2 DEF UnderIt
  <1>6. (UnderIt(c) + by) % Space = (c.page + c.offs + by) % Space
    <2>1. c.page + c.offs \in Int
      BY <1>1
    <2> QED
      BY <1>1, <2>1, ModPlus DEF UnderIt
  <1> QED
    BY <1>2, <1>3, <1>4, <1>5, <1>6

Tracked(c, t, by) == /\ t.page \in 0..Space - 1 /\ t.page % 2 = 0
                     /\ UnderIt(t) = (UnderIt(c) + by) % Space

LEMMA Carries ==
  ASSUME NEW c, NEW page, NEW offs, c.offs + offs \in Int, c.offs + offs >= OffMod
  PROVE  Move(c, page, offs) = [page |-> (c.page + page + 1) % Space,
                                offs |-> (c.offs + offs) - 1 * OffMod]
  <1> DEFINE o == c.offs + offs
             borrow == IF o < 0 THEN -1 ELSE IF o >= OffMod THEN 1 ELSE 0
  <1>1. Move(c, page, offs)
          = [page |-> (c.page + page + borrow) % Space, offs |-> o - borrow * OffMod]
    BY Zenon DEF Move
  <1>2. borrow = 1
    BY Sizes
  <1> HIDE DEF borrow
  <1> QED
    BY <1>1, <1>2

\* A step of the cursor turns the page by one at most, and a borrow that the
\* offset took from the page is given back.
LEMMA StepTracked ==
  ASSUME NEW c \in Cursors, c.page % 2 = 0, NEW by \in -Row..Row
  PROVE  Tracked(c, Turned(Move(c, 0, by)), by)
  <1> DEFINE m == Move(c, 0, by)
             t == Turned(m)
  <1>1. c.page \in Int /\ c.offs \in 0..Page - 1 /\ by \in Int /\ -by <= Row /\ by <= Row
    BY Sizes DEF Cursors
  <1>2. \E d \in {-Page, 0, Page} :
          t = [page |-> (c.page + d) % Space, offs |-> c.offs + by - d]
    <2>1. CASE c.offs + by < 0
      <3>1. m = [page |-> (c.page + -1) % Space, offs |-> c.offs + by + OffMod]
        BY <1>1, <2>1, Sizes DEF Move
      <3>2. m.offs >= Under /\ m.offs + Page >= OffMod /\ m.offs + Page \in Int
        BY <1>1, <2>1, <3>1, Sizes
      <3>3. t = [page |-> (m.page + -Page + 1) % Space, offs |-> (m.offs + Page) - OffMod]
        <4> HIDE DEF m
        <4>1. t = Move(m, -Page, Page)
          BY <3>2 DEF Turned
        <4>2. Move(m, -Page, Page)
                = [page |-> (m.page + -Page + 1) % Space, offs |-> (m.offs + Page) - 1 * OffMod]
          BY <3>2, Carries
        <4>3. 1 * OffMod = OffMod
          BY Sizes
        <4> QED
          BY <4>1, <4>2, <4>3
      <3>4. (((c.page + -1) % Space) + (-Page + 1)) % Space = (c.page + -Page) % Space
        <4>1. c.page + -1 \in Int /\ -Page + 1 \in Int
              /\ (c.page + -1) + (-Page + 1) = c.page + -Page
          BY <1>1, Sizes
        <4>2. Space \in Nat \ {0}
          BY Sizes
        <4> QED
          BY <4>1, <4>2, ModPlus
      <3>5. m.page \in Int /\ m.page = (c.page + -1) % Space
        <4>1. c.page + -1 \in Int
          BY <1>1
        <4>2. m.page = (c.page + -1) % Space
          BY <3>1
        <4> QED
          BY <4>1, <4>2, InSpace
      <3>6. (m.page + -Page + 1) % Space = (c.page + -Page) % Space
        <4>1. m.page + -Page + 1 = m.page + (-Page + 1)
          BY <3>5, Sizes
        <4> QED
          BY <3>4, <3>5, <4>1
      <3>7. (m.offs + Page) - OffMod = c.offs + by - (-Page)
        BY <1>1, <3>1, Sizes
      <3> QED
        BY <3>3, <3>6, <3>7
    <2>2. CASE c.offs + by \in 0..Page - 1
      <3>1. m = [page |-> c.page % Space, offs |-> c.offs + by]
        BY <1>1, <2>2, Sizes DEF Move
      <3>2. t = m /\ c.page + 0 = c.page /\ c.offs + by - 0 = c.offs + by
        BY <1>1, <2>2, <3>1, Sizes DEF Turned
      <3> QED
        BY <3>1, <3>2
    <2>3. CASE c.offs + by >= Page
      <3>1. m = [page |-> c.page % Space, offs |-> c.offs + by]
        BY <1>1, <2>3, Sizes DEF Move
      <3>2. m.offs >= Page /\ m.offs < Under /\ m.offs - Page \in 0..OffMod - 1
        BY <1>1, <2>3, <3>1, Sizes
      <3>3. t = [page |-> (m.page + Page) % Space, offs |-> m.offs + -Page]
        <4>1. m.page = c.page % Space /\ c.page \in Int
          BY <1>1, <3>1
        <4>2. m.page \in Int
          BY <4>1, InSpace
        <4>3. m.offs + -Page \in 0..OffMod - 1
          BY <1>1, <3>1, <3>2, Sizes
        <4>4. m.offs \in Int /\ Page \in Int
          BY <1>1, <3>1, Sizes
        <4> HIDE DEF m
        <4>5. t = Move(m, Page, -Page)
          BY <3>2, <4>4, Sizes DEF Turned
        <4>6. Move(m, Page, -Page) = [page |-> (m.page + Page) % Space, offs |-> m.offs + -Page]
          BY <4>2, <4>3, <4>4, Sizes DEF Move
        <4> QED
          BY <4>5, <4>6
      <3>4. (m.page + Page) % Space = (c.page + Page) % Space
        <4>1. m.page = c.page % Space /\ c.page \in Int /\ Page \in Int /\ Space \in Nat \ {0}
          BY <1>1, <3>1, Sizes
        <4>2. ((c.page % Space) + Page) % Space = (c.page + Page) % Space
          BY <4>1, ModPlus
        <4> QED
          BY <4>1, <4>2
      <3>5. m.offs + -Page = c.offs + by - Page
        BY <1>1, <3>1, Sizes
      <3> QED
        BY <3>3, <3>4, <3>5
    <2> QED
      BY <1>1, <2>1, <2>2, <2>3, Sizes
  <1>3. PICK d \in {-Page, 0, Page} :
          t = [page |-> (c.page + d) % Space, offs |-> c.offs + by - d]
    BY <1>2
  <1>4. d \in Int /\ d % 2 = 0
    <2>1. (-Page) % 2 = 0
      BY PageIsEven
    <2> QED
      BY <2>1, PageIsEven
  <1> HIDE DEF t
  <1> QED
    BY <1>1, <1>3, <1>4, Relocated DEF t, m, Tracked

\* Scrolling moves the page and keeps the offset.
LEMMA ScrollTracked ==
  ASSUME NEW c \in Cursors, c.page % 2 = 0, NEW d \in Int, d % 2 = 0
  PROVE  Tracked(c, Turned(Move(c, d, 0)), d)
  <1> DEFINE m == Move(c, d, 0)
  <1>1. c.page \in Int /\ c.offs \in 0..Page - 1
    BY Sizes DEF Cursors
  <1>2. m = [page |-> (c.page + d) % Space, offs |-> c.offs]
    BY <1>1, Sizes DEF Move
  <1>3. Turned(m) = m
    BY <1>1, <1>2, Sizes DEF Turned
  <1>4. c.offs + d - d = c.offs
    BY <1>1
  <1> HIDE DEF m
  <1> QED
    BY <1>2, <1>3, <1>4, Relocated DEF Tracked, m

\* Making the offset even makes the address even.
LEMMA EvenTracked ==
  ASSUME NEW c \in Cursors, c.page % 2 = 0
  PROVE  /\ Even(c).page = c.page
         /\ UnderIt(Even(c)) = UnderIt(c) - (UnderIt(c) % 2)
  <1> DEFINE x == c.page + c.offs
             q == x \div Space
             f == x % Space
  <1>1. c.page \in Int /\ c.offs \in Int /\ Space \in Nat \ {0} /\ Space % 2 = 0
    BY Sizes, PageIsEven DEF Cursors
  <1>2. Even(c) = [page |-> c.page, offs |-> c.offs - (c.offs % 2)]
    BY DEF Even, Cursors
  <1>3. x \in Int /\ q \in Int /\ f \in 0..Space - 1 /\ x = Space * q + f
    <2>1. x \in Int
      BY <1>1
    <2> HIDE DEF x
    <2> QED
      BY <2>1, InSpace
  <1>4. c.offs % 2 = x % 2
    BY <1>1
  <1>5. f % 2 = x % 2
    BY <1>1, <1>3, EvenRest
  <1> HIDE DEF q, f
  <1>6. f - (f % 2) \in 0..Space - 1
    BY <1>1, <1>3
  <1>7. c.page + (c.offs - (c.offs % 2)) = Space * q + (f - (f % 2))
    <2>1. c.page + (c.offs - (c.offs % 2)) = x - (f % 2)
      BY <1>1, <1>3, <1>4, <1>5
    <2> HIDE DEF x
    <2> QED
      BY <1>1, <1>3, <2>1
  <1>8. (Space * q + (f - (f % 2))) % Space = f - (f % 2)
    <2> DEFINE g == f - (f % 2)
               n == Space * q + g
    <2>1. g \in 0..Space - 1
      BY <1>6
    <2> HIDE DEF g
    <2>2. n \in Int /\ n = Space * q + g
      BY <1>1, <1>3, <2>1
    <2> HIDE DEF n
    <2>3. n % Space = g
      <3>1. (g + Space * q) % Space = g % Space
        <4>1. g \in Int
          BY <1>1, <2>1
        <4> QED
          BY <1>1, <1>3, <4>1, Turns
      <3>3. g % Space = g
        BY <1>1, <2>1, Small
      <3>2. n = g + Space * q
        BY <1>1, <1>3, <2>1, <2>2
      <3> QED
        BY <3>1, <3>2, <3>3
    <2> QED
      BY <2>3 DEF g, n
  <1> QED
    BY <1>2, <1>7, <1>8 DEF UnderIt, f

-----------------------------------------------------------------------------
(* The invariant behind CursorTracks and DtackByMenu, a part at a time.    *)

\* What a step has to do with the cursor (the body of CursorTracks).
Follows ==
  IF did'.what = "goto" THEN Address' = did'.val
  ELSE \/ MovedBy(0)
       \/ /\ mode = "main"
          /\ \E b \in old' \cap {"u0", "d0", "l", "r"} : MovedBy(Distance(b, "a" \in old'))

LEMMA AddressIs == Address = UnderIt(cur)
  BY DEF Address, UnderIt
LEMMA AddressAfter == Address' = UnderIt(cur')
  BY DEF Address, UnderIt

LEMMA StaysPut ==
  ASSUME EditorInv, PageInv, UNCHANGED <<cur, width>>, did'.what # "goto"
  PROVE  PageInv' /\ Follows
  <1>1. cur.page + cur.offs \in Int
    BY Sizes DEF EditorInv
  <1>2. Address \in 0..Space - 1 /\ Address \in Int /\ Address' = Address
    BY <1>1, InSpace DEF Address
  <1>3. (Address + 0) % Space = Address
    BY <1>2, Sizes, Small
  <1> QED
    BY <1>2, <1>3 DEF PageInv, Follows, MovedBy

\* The cursor of the main view before the width is switched.
LEMMA MovedTracked ==
  ASSUME EditorInv, PageInv, NEW in
  PROVE  /\ Turned(Moved(in)) \in Cursors
         /\ \/ Tracked(cur, Turned(Moved(in)), 0)
            \/ \E b \in in \cap {"u0", "d0", "l", "r"} :
                  Tracked(cur, Turned(Moved(in)), Distance(b, "a" \in in))
  <1> DEFINE Dirs == {"u0", "d0", "l", "r"}
             by == StepBy[First(News(in))]
  <1>1. Turned(Moved(in)) \in Cursors /\ cur \in Cursors /\ cur.page % 2 = 0 /\ width \in {1, 2}
    BY MovedNear, TurnedOnScreen DEF EditorInv, PageInv, Cursors
  <1>2. News(in) \subseteq in
    BY DEF News
  <1>3. ASSUME NEW buttons, First(buttons) # "none"
        PROVE  First(buttons) \in buttons \cap Dirs
    BY <1>3 DEF First
  <1>4. CASE "a" \in in /\ First(in) # "none"
    <2> DEFINE b == First(in)
               d == ScrollBy[b]
    <2>1. Moved(in) = Move(cur, d, 0)
      BY <1>4 DEF Moved
    <2>2. b \in in \cap Dirs
      BY <1>3, <1>4
    <2>3. d = Distance(b, "a" \in in)
      BY <1>4, <2>2 DEF ScrollBy, Distance
    <2>4. d \in Int /\ d % 2 = 0
      <3>1. /\ Row \in Int /\ Row % 2 = 0 /\ (-Row) % 2 = 0
            /\ Page \in Int /\ Page % 2 = 0 /\ (-Page) % 2 = 0
        BY Sizes, PageIsEven
      <3> QED
        BY <2>2, <3>1 DEF ScrollBy
    <2> HIDE DEF b, d
    <2>5. Tracked(cur, Turned(Moved(in)), Distance(b, "a" \in in))
      BY <1>1, <2>1, <2>3, <2>4, ScrollTracked
    <2> QED
      BY <1>1, <2>2, <2>5
  <1>5. CASE ~("a" \in in /\ First(in) # "none")
    <2>1. Moved(in) = Move(cur, 0, by)
      BY <1>5 DEF Moved
    <2>2. by \in -Row..Row
      BY <1>1, Sizes DEF StepBy, First
    <2>3. Tracked(cur, Turned(Moved(in)), by)
      BY <1>1, <2>1, <2>2, StepTracked
    <2>4. CASE First(News(in)) = "none"
      BY <1>1, <2>3, <2>4 DEF StepBy
    <2>5. CASE First(News(in)) # "none"
      <3>1. First(News(in)) \in in \cap Dirs
        BY <1>2, <1>3, <2>5
      <3>2. First(in) # "none"
        BY <3>1 DEF First
      <3>3. "a" \notin in
        BY <1>5, <3>2
      <3>4. by = Distance(First(News(in)), "a" \in in)
        BY <3>1, <3>3 DEF StepBy, Distance
      <3> HIDE DEF by
      <3> QED
        BY <1>1, <2>3, <3>1, <3>4
    <2> QED
      BY <2>4, <2>5
  <1> QED
    BY <1>4, <1>5

LEMMA MainTracks ==
  ASSUME EditorInv, PageInv, NEW in, ModeMain(in)
  PROVE  PageInv' /\ Follows
  <1> DEFINE t == Turned(Moved(in))
  <1>1. t \in Cursors /\ old' = in /\ mode = "main" /\ did'.what # "goto" /\ width \in {1, 2}
    BY MovedTracked DEF ModeMain, GetInput, Nothing, EditorInv
  <1>2. ASSUME NEW d, Tracked(cur, t, d)
        PROVE  PageInv' /\ MovedBy(d)
    <2> HIDE DEF t
    <2>1. t.page \in 0..Space - 1 /\ t.page % 2 = 0 /\ UnderIt(t) = (Address + d) % Space
      BY <1>2, AddressIs DEF Tracked
    <2>2. CASE "b" \in News(in)
      <3>1. cur' = Even(t) /\ width' # width
        BY <1>1, <2>2 DEF ModeMain, t
      <3>2. Even(t).page = t.page /\ UnderIt(Even(t)) = UnderIt(t) - (UnderIt(t) % 2)
        BY <1>1, <2>1, EvenTracked
      <3> QED
        BY <2>1, <3>1, <3>2, AddressAfter DEF PageInv, MovedBy
    <2>3. CASE "b" \notin News(in)
      <3>1. cur' = t /\ width' = width
        BY <2>3 DEF ModeMain, t
      <3> QED
        BY <2>1, <3>1, AddressAfter DEF PageInv, MovedBy
    <2> QED
      BY <2>2, <2>3
  <1>3. \/ Tracked(cur, t, 0)
        \/ \E b \in in \cap {"u0", "d0", "l", "r"} : Tracked(cur, t, Distance(b, "a" \in in))
    BY MovedTracked
  <1> HIDE DEF t
  <1> QED
    BY <1>1, <1>2, <1>3 DEF Follows

\* A goto reaches the address asked for, and remembers a part of it that
\* completes to an address again.
LEMMA GotoReaches ==
  ASSUME EditorInv, NEW addr \in 0..Space - 1, GotoFinish(addr)
  PROVE  PageInv' /\ Follows /\ BoxFits' /\ GotoFits'
  <1>1. addr \in Int /\ Row \in Nat \ {0} /\ Space \in Nat \ {0}
    BY Sizes
  <1> DEFINE q == addr \div Row
             r == addr % Row
  <1>2. q \in Int /\ r \in 0..Row - 1 /\ addr = Row * q + r
    BY <1>1, DivMod
  <1>3. cur' = [page |-> addr - r, offs |-> r] /\ did'.what = "goto" /\ did'.val = addr
    BY DEF GotoFinish
  <1>4. r <= addr
    <2> HIDE DEF q, r
    <2>1. CASE q >= 0
      BY <1>1, <1>2, <2>1
    <2>2. CASE q < 0
      BY <1>1, <1>2, <2>2, ProductOfDifference
    <2> QED
      BY <1>2, <2>1, <2>2
  <1>5. (Row * q) % 2 = 0
    <2> HIDE DEF q
    <2>1. Row \in Int /\ Row % 2 = 0
      BY <1>1, PageIsEven
    <2> QED
      BY <1>2, <2>1, EvenProduct
  <1> HIDE DEF q, r
  <1>6. addr - r \in 0..Space - 1 /\ addr - r = Row * q /\ (addr - r) + r = addr
    BY <1>1, <1>2, <1>4
  <1>7. PageInv' /\ Follows
    <2>1. addr % Space = addr
      BY <1>1, Small
    <2> QED
      BY <1>3, <1>5, <1>6, <2>1 DEF PageInv, Follows, Address
  <1>8. mode' = "main" /\ save' = addr \div Base ^ 2
    BY DEF GotoFinish, ReturnToMain, ChangeMode
  <1>9. save' \in Nat /\ save' * Base ^ 2 < Space
    <2> DEFINE w == Base ^ 2
               s == addr \div w
               u == addr % w
    <2>1. w \in Nat \ {0}
      BY ByteWeight
    <2> HIDE DEF w
    <2>2. s \in Int /\ u \in 0..w - 1 /\ addr = w * s + u
      BY <1>1, <2>1, DivMod
    <2> HIDE DEF s, u
    <2>3. s >= 0
      <3>1. CASE s < 0
        <4>1. w * s + w <= w * 0
          BY <2>1, <2>2, <3>1, ProductOfDifference
        <4> QED
          BY <1>1, <2>1, <2>2, <4>1
      <3> QED
        BY <2>2, <3>1
    <2>4. s * w = w * s /\ w * s < Space
      BY <1>1, <2>1, <2>2
    <2>5. save' = s
      BY <1>8 DEF s, w
    <2> QED
      BY <2>2, <2>3, <2>4, <2>5 DEF w
  <1> QED
    BY <1>7, <1>8, <1>9 DEF BoxFits, GotoFits

-----------------------------------------------------------------------------
(* The input box holds no more than its digits do.                         *)

\* A digit that is replaced by another one: the digits above it, and the
\* ones below it, stay.
LEMMA DigitReplaced ==
  ASSUME NEW base \in Nat \ {0}, NEW w \in Nat \ {0}, NEW above \in Nat \ {0},
         NEW val \in 0..(above * base) * w - 1, NEW new \in 0..base - 1
  PROVE  val + (new - ((val \div w) % base)) * w \in 0..(above * base) * w - 1
  <1> DEFINE q == val \div w
             r == val % w
             high == q \div base
             digit == q % base
  <1>1. val \in Int /\ q \in Int /\ r \in 0..w - 1 /\ val = w * q + r
    <2>1. (above * base) * w \in Int
      OBVIOUS
    <2>2. val \in Int
      BY <2>1
    <2> QED
      BY <2>2, DivMod
  <1>2. val >= 0 /\ val < (above * base) * w
    OBVIOUS
  <1> HIDE DEF r, q
  <1>3. high \in Int /\ digit \in 0..base - 1 /\ q = base * high + digit
    BY <1>1, DivMod
  <1> HIDE DEF high, digit
  <1>4. q < above * base /\ q >= 0
    <2>1. above * base \in Int /\ (above * base) * w = w * (above * base)
      OBVIOUS
    <2>2. CASE above * base <= q
      <3>1. CASE above * base = q
        BY <1>1, <1>2, <2>1, <3>1
      <3>2. CASE above * base < q
        <4> DEFINE n == above * base
        <4>1. n \in Int /\ n < q /\ val < w * n
          BY <1>2, <2>1, <3>2
        <4> HIDE DEF n
        <4>2. w * n + w <= w * q
          BY <1>1, <4>1, ProductOfDifference
        <4>3. w * n \in Int /\ w * q \in Int /\ w \in Int
          BY <1>1, <4>1
        <4> QED
          BY <1>1, <4>1, <4>2, <4>3
      <3> QED
        BY <1>1, <2>1, <2>2, <3>1, <3>2
    <2>3. CASE q < 0
      <3>1. w * q + w <= w * 0
        BY <1>1, <2>3, ProductOfDifference
      <3> QED
        BY <1>1, <1>2, <3>1
    <2> QED
      BY <1>1, <2>1, <2>2, <2>3
  <1>5. high < above /\ high >= 0
    <2>1. above * base = base * above /\ base * above \in Int
      OBVIOUS
    <2>2. CASE above <= high
      <3>1. CASE above = high
        BY <1>3, <1>4, <2>1, <3>1
      <3>2. CASE above < high
        <4>1. base * above + base <= base * high
          BY <1>3, <3>2, ProductOfDifference
        <4> QED
          BY <1>3, <1>4, <2>1, <4>1
      <3> QED
        BY <1>3, <2>2, <3>1, <3>2
    <2>3. CASE high < 0
      <3>1. base * high + base <= base * 0
        BY <1>3, <2>3, ProductOfDifference
      <3> QED
        BY <1>3, <1>4, <3>1
    <2> QED
      BY <1>3, <2>2, <2>3
  <1> DEFINE p == base * high + new
  <1>6. p \in Int /\ p >= 0 /\ p < above * base
    <2>1. base * high + base <= base * above
      BY <1>3, <1>5, ProductOfDifference
    <2>2. base * high \in Int /\ base * high >= 0 /\ base * above = above * base
      BY <1>3, <1>5
    <2> QED
      BY <2>1, <2>2
  <1>7. val + (new - digit) * w = w * p + r
    <2>1. w * q = w * (base * high) + w * digit
      <3> DEFINE b == base * high
      <3>1. b \in Int /\ q = b + digit
        BY <1>3
      <3> HIDE DEF b
      <3>2. w * (b + digit) = w * b + w * digit
        BY <1>3, <3>1
      <3> QED
        BY <3>1, <3>2 DEF b
    <2>2. w * p = w * (base * high) + w * new
      <3> DEFINE b == base * high
      <3>1. b \in Int
        BY <1>3
      <3> HIDE DEF b
      <3>2. w * (b + new) = w * b + w * new
        BY <3>1
      <3> QED
        BY <3>2 DEF b
    <2>3. (new - digit) * w = w * new - w * digit
      BY <1>3
    <2>4. w * (base * high) \in Int /\ w * digit \in Int /\ w * new \in Int
      BY <1>3
    <2> HIDE DEF p
    <2> DEFINE x == w * (base * high)
               y == w * digit
               z == w * new
    <2>5. x \in Int /\ y \in Int /\ z \in Int /\ val = (x + y) + r /\ w * p = x + z
          /\ (new - digit) * w = z - y
      BY <1>1, <2>1, <2>2, <2>3, <2>4
    <2> HIDE DEF x, y, z
    <2>6. val + (z - y) = (x + z) + r
      BY <1>1, <2>5
    <2> QED
      BY <2>5, <2>6
  <1> HIDE DEF p
  <1>8. w * p + r \in 0..(above * base) * w - 1
    <2> DEFINE n == above * base
    <2>1. n \in Int /\ n * w = w * n /\ p < n
      BY <1>6
    <2> HIDE DEF n
    <2>2. w * p + w <= w * n
      BY <1>6, <2>1, ProductOfDifference
    <2>3. w * p \in Int /\ w * p >= 0 /\ w * n \in Int
      BY <1>6, <2>1
    <2>4. w * p + r \in 0..n * w - 1
      BY <1>1, <2>1, <2>2, <2>3
    <2> QED
      BY <2>4 DEF n
  <1> QED
    BY <1>7, <1>8 DEF digit, q

\* Counting a digit up or down stays within the digits of the box.
LEMMA CountedFits ==
  ASSUME EditorInv, BoxFits, mode = "val_input", NEW by \in {-1, 1}
  PROVE  Counted(by).val \in 0..Base ^ (2 * d5.bytes) - 1
  <1> DEFINE k == 2 * d5.bytes - 1 - d5.pos
             high == d5.pos + 1
  <1>1. /\ d5.bytes \in 1..AddrBytes + 1 /\ d5.pos \in 0..2 * d5.bytes - 1
        /\ d5.val \in 0..Base ^ (2 * d5.bytes) - 1 /\ d5.val \in Int
    BY Sizes DEF EditorInv, BoxInv, BoxFits, BytesFor
  <1>2. /\ k \in Places /\ high \in Places /\ d5.pos \in Places /\ 1 \in Places
        /\ high + k = 2 * d5.bytes /\ high + k \in Places /\ d5.pos + 1 \in Places
    BY <1>1, Sizes DEF Places
  <1>3. Base ^ (2 * d5.bytes) = Base ^ high * Base ^ k /\ Base ^ high = Base ^ d5.pos * Base
    <2>1. Base ^ (high + k) = Base ^ high * Base ^ k
      BY <1>2, PowerAssumption
    <2>2. Base ^ (d5.pos + 1) = Base ^ d5.pos * Base ^ 1 /\ Base ^ 1 = Base
      BY <1>2, PowerAssumption
    <2> QED
      BY <1>2, <2>1, <2>2
  <1>4. Base \in Nat \ {0} /\ Base ^ k \in Nat \ {0} /\ Base ^ d5.pos \in Nat \ {0}
    BY <1>2, Sizes, PowerAssumption
  <1> DEFINE above == Base ^ d5.pos
             w == Base ^ k
             digit == (d5.val \div w) % Base
             new == (digit + by) % Base
  <1>5. Counted(by).val = d5.val + (new - digit) * w
    BY DEF Counted, Weight, EditorInv
  <1>6. d5.val \in 0..(above * Base) * w - 1 /\ above \in Nat \ {0} /\ w \in Nat \ {0}
    BY <1>1, <1>3, <1>4
  <1> HIDE DEF above, w, k, high
  <1>7. digit \in 0..Base - 1
    <2>1. d5.val \div w \in Int
      BY <1>1, <1>6, DivMod
    <2> QED
      BY <1>4, <2>1, DivMod
  <1> HIDE DEF digit
  <1>8. new \in 0..Base - 1
    <2>1. digit + by \in Int
      BY <1>4, <1>7
    <2> QED
      BY <1>4, <2>1, DivMod
  <1> HIDE DEF new
  <1>9. d5.val + (new - digit) * w \in 0..(above * Base) * w - 1
    BY <1>4, <1>6, <1>8, DigitReplaced DEF digit
  <1>10. Base ^ (2 * d5.bytes) = (above * Base) * w
    BY <1>3 DEF above, w
  <1> QED
    BY <1>5, <1>9, <1>10

\* The bytes of a box that was opened for a goto are an address.
LEMMA AddressFits == Base ^ (2 * AddrBytes) = Space
  BY DEF Space

-----------------------------------------------------------------------------
(* The autorepeat counter and the flag above it.                           *)

Counter(f) == f \in 0..2 * Nib - 1 /\ f % Nib < RepeatAt
Flag(f) == (f \div Nib) % 2 = 1

LEMMA FlagParts ==
  ASSUME NEW c \in 0..Nib - 1, NEW f \in {0, 1}
  PROVE  LET n == Nib * f + c IN
         /\ n \in 0..2 * Nib - 1 /\ n % Nib = c /\ n \div Nib = f /\ (Flag(n) <=> f = 1)
  <1> DEFINE n == Nib * f + c
  <1>1. Nib \in Nat \ {0}
    BY SizesAssumption
  <1>2. n \in 0..2 * Nib - 1 /\ n \in Int /\ n = Nib * f + c
    BY <1>1
  <1> HIDE DEF n
  <1>3. n % Nib = c /\ n \div Nib = f
    BY <1>1, <1>2, Quotient
  <1>4. Flag(n) <=> f = 1
    BY <1>3 DEF Flag
  <1> QED
    BY <1>2, <1>3, <1>4 DEF n

LEMMA FlagSplit ==
  ASSUME NEW n, Counter(n)
  PROVE  /\ n \div Nib \in {0, 1} /\ n % Nib \in 0..RepeatAt - 1
         /\ n = Nib * (n \div Nib) + (n % Nib)
  <1>1. n \in Int /\ n \in 0..2 * Nib - 1 /\ Nib \in Nat \ {0} /\ RepeatAt \in Nat
    BY SizesAssumption DEF Counter
  <1>2. n \div Nib \in Int /\ n % Nib \in 0..Nib - 1 /\ n = Nib * (n \div Nib) + (n % Nib)
    BY <1>1, DivMod
  <1> DEFINE q == n \div Nib
  <1> HIDE DEF q
  <1>3. q \in {0, 1}
    <2>1. q \in Int /\ Nib * q <= n /\ n < Nib * q + Nib
      BY <1>1, <1>2 DEF q
    <2>2. CASE 1 < q
      <3>1. Nib * 1 + Nib <= Nib * q
        BY <1>1, <2>1, <2>2, ProductOfDifference
      <3> QED
        BY <1>1, <2>1, <3>1
    <2>3. CASE q < 0
      <3>1. Nib * q + Nib <= Nib * 0
        BY <1>1, <2>1, <2>3, ProductOfDifference
      <3> QED
        BY <1>1, <2>1, <3>1
    <2> QED
      BY <2>1, <2>2, <2>3
  <1> QED
    BY <1>1, <1>2, <1>3 DEF Counter, q

\* get_input counts in the lower field only.
LEMMA CountKeeps ==
  ASSUME FlagsInv, NEW in
  PROVE  Counter(Count(in)) /\ (Flag(Count(in)) <=> NoDtack)
  <1> DEFINE c == flags % Nib
             f == flags \div Nib
  <1>1. /\ Nib \in Nat \ {0} /\ RepeatAt \in Nat \ {0} /\ RepeatAt < Nib
        /\ f \in {0, 1} /\ c \in 0..RepeatAt - 1 /\ flags = Nib * f + c
    BY SizesAssumption, FlagSplit DEF FlagsInv, Counter
  <1>2. NoDtack <=> f = 1
    BY <1>1 DEF NoDtack
  <1> HIDE DEF c, f
  <1>3. (flags + 1) % Nib = c + 1
    <2>1. c + 1 \in 0..Nib - 1 /\ flags + 1 = Nib * f + (c + 1)
      BY <1>1
    <2> QED
      BY <1>1, <2>1, FlagParts
  <1>4. CASE in \ old # {} \/ c + 1 = RepeatAt
    <2>1. Count(in) = Nib * f + 0
      <3>1. Count(in) = flags - c
        BY <1>3, <1>4 DEF Count, c
      <3> QED
        BY <1>1, <3>1
    <2>2. 0 \in 0..Nib - 1
      BY <1>1
    <2> QED
      BY <1>1, <1>2, <2>1, <2>2, FlagParts DEF Counter
  <1>5. CASE ~(in \ old # {} \/ c + 1 = RepeatAt)
    <2>1. Count(in) = flags + 1
      BY <1>3, <1>5 DEF Count
    <2>2. Count(in) = Nib * f + (c + 1)
      BY <1>1, <2>1
    <2>3. c + 1 \in 0..Nib - 1 /\ c + 1 < RepeatAt
      BY <1>1, <1>5
    <2> QED
      BY <1>1, <1>2, <2>2, <2>3, FlagParts DEF Counter
  <1> QED
    BY <1>4, <1>5

\* The menu's line toggles the flag only.
LEMMA ToggleKeeps ==
  ASSUME NEW n, Counter(n)
  PROVE  Counter(n + (IF Flag(n) THEN -Nib ELSE Nib))
  <1> DEFINE c == n % Nib
             f == n \div Nib
  <1>1. /\ Nib \in Nat \ {0} /\ RepeatAt \in Nat \ {0} /\ RepeatAt < Nib
        /\ f \in {0, 1} /\ c \in 0..RepeatAt - 1 /\ n = Nib * f + c
    BY SizesAssumption, FlagSplit
  <1>2. Flag(n) <=> f = 1
    BY <1>1 DEF Flag
  <1> HIDE DEF c, f
  <1>3. n + (IF Flag(n) THEN -Nib ELSE Nib) = Nib * (1 - f) + c
    BY <1>1, <1>2
  <1>4. 1 - f \in {0, 1} /\ c \in 0..Nib - 1 /\ c < RepeatAt
    BY <1>1
  <1> QED
    BY <1>3, <1>4, FlagParts DEF Counter

-----------------------------------------------------------------------------
(* The steps.                                                              *)

LEMMA InitTrack == EditorInit => TrackInv
  <1> SUFFICES ASSUME EditorInit PROVE TrackInv
    OBVIOUS
  <1>1. PageInv /\ BoxFits
    BY Sizes DEF EditorInit, PageInv, BoxFits
  <1>2. GotoFits
    <2>1. 0 * Base ^ 2 = 0
      BY ByteWeight
    <2> QED
      BY <2>1, Sizes DEF EditorInit, GotoFits
  <1>3. FlagsInv
    <2>1. Nib \in Nat \ {0} /\ RepeatAt \in Nat \ {0} /\ 0 \in 0..Nib - 1
      BY SizesAssumption
    <2>2. 0 % Nib = 0
      BY <2>1, Small
    <2> QED
      BY <2>1, <2>2 DEF EditorInit, FlagsInv
  <1> QED
    BY <1>1, <1>2, <1>3 DEF TrackInv

\* Where the cursor points after a step, and what can be gone to from there.
LEMMA PredefInSpace ==
  ASSUME EditorInv, mode = "goto_predef"
  PROVE  Predef[d5.val + 1] \in 0..Space - 1
  <1>1. d5.val \in 0..Len(Predef) - 1 /\ Len(Predef) \in Nat /\ Predef \in Seq(0..Space - 1)
    BY PredefAddresses, DataAssumption DEF EditorInv, ChoiceInv
  <1>2. d5.val + 1 \in 1..Len(Predef)
    BY <1>1
  <1> DEFINE addresses == 0..Space - 1
  <1>3. Predef \in Seq(addresses)
    BY <1>1
  <1> HIDE DEF addresses
  <1>4. Predef[d5.val + 1] \in addresses
    BY <1>2, <1>3
  <1> QED
    BY <1>4 DEF addresses

LEMMA PageStep ==
  ASSUME EditorInv, TrackInv, EditorNext
  PROVE  PageInv' /\ Follows
  <1>1. PageInv
    BY DEF TrackInv
  <1>2. ASSUME NEW in, ModeMain(in) PROVE PageInv' /\ Follows
    BY <1>1, <1>2, MainTracks
  <1>3. ASSUME NEW in, PredefGo(in) PROVE PageInv' /\ Follows
    BY <1>3, PredefInSpace, GotoReaches DEF PredefGo
  <1>4. CASE ModeGotoFinish
    <2>1. d5.val \in 0..Space - 1
      BY <1>4 DEF ModeGotoFinish, TrackInv, GotoFits
    <2> QED
      BY <1>4, <2>1, GotoReaches DEF ModeGotoFinish
  <1>5. CASE UNCHANGED <<cur, width>> /\ did'.what # "goto"
    BY <1>1, <1>5, StaysPut
  <1>6. CASE ModeHeditFinish \/ ModeJmpFinish
    BY <1>5, <1>6 DEF ModeHeditFinish, ModeJmpFinish
  <1>7. ASSUME NEW in, \/ InputDigit(in) \/ InputCancel(in) \/ InputConfirm(in)
                       \/ MenuMove(in, "start_menu", 5) \/ MenuMove(in, "goto_predef", Len(Predef))
                       \/ MenuLeave(in) \/ MenuEnter(in) \/ MenuDtack(in)
        PROVE  PageInv' /\ Follows
    BY <1>5, <1>7 DEF InputDigit, InputCancel, InputConfirm, MenuMove, MenuLeave, MenuEnter,
                      MenuDtack, Nothing
  <1>8. CASE ModeEditVal \/ ModeGoto \/ ModeJmpAddr \/ ModeTransfer
    BY <1>5, <1>8 DEF ModeEditVal, ModeGoto, ModeJmpAddr, ModeTransfer, Nothing
  <1> QED
    BY <1>2, <1>3, <1>4, <1>6, <1>7, <1>8 DEF EditorNext, InputFrame

\* What is in the box after a step.
LEMMA BoxStep ==
  ASSUME EditorInv, TrackInv, EditorNext
  PROVE  BoxFits'
  <1>1. BoxFits
    BY DEF TrackInv
  <1>2. CASE mode' # "val_input"
    BY <1>2 DEF BoxFits
  <1>3. CASE UNCHANGED <<mode, d5>>
    BY <1>1, <1>3 DEF BoxFits
  <1>4. CASE ModeEditVal
    <2>1. PICK v \in 0..Base ^ (2 * width) - 1 : d5' = Field(v, width)
      BY <1>4 DEF ModeEditVal
    <2> QED
      BY <2>1 DEF BoxFits, Field
  <1>5. CASE ModeGoto
    <2> DEFINE w == Base ^ 2
    <2>1. w \in Nat \ {0} /\ save \in Nat /\ save * w < Space
      BY ByteWeight DEF TrackInv, GotoFits
    <2>3. d5' = Field(save * w, AddrBytes)
      BY <1>5 DEF ModeGoto
    <2> HIDE DEF w
    <2>2. save * w \in 0..Space - 1
      BY <2>1, Sizes
    <2> QED
      BY <2>2, <2>3, AddressFits DEF BoxFits, Field
  <1>6. CASE ModeJmpAddr
    <2>1. d5' = Field(0, AddrBytes) /\ 0 \in 0..Space - 1
      BY <1>6, Sizes DEF ModeJmpAddr
    <2> QED
      BY <2>1, AddressFits DEF BoxFits, Field
  <1>7. ASSUME NEW in, InputDigit(in) PROVE BoxFits'
    <2>1. mode = "val_input"
      BY <1>7 DEF InputDigit
    <2>2. \/ \E by \in {-1, 1} : d5' = Counted(by)
          \/ \E by \in {-1, 1} : d5' = NextDigit(by)
      BY <1>7 DEF InputDigit
    <2>3. ASSUME NEW by \in {-1, 1}, d5' = Counted(by) PROVE BoxFits'
      <3>1. Counted(by).val \in 0..Base ^ (2 * d5.bytes) - 1
        BY <1>1, <2>1, CountedFits
      <3>2. Counted(by).bytes = d5.bytes
        BY DEF Counted, EditorInv
      <3> QED
        BY <2>3, <3>1, <3>2 DEF BoxFits
    <2>4. ASSUME NEW by \in {-1, 1}, d5' = NextDigit(by) PROVE BoxFits'
      <3>1. d5'.val = d5.val /\ d5'.bytes = d5.bytes
        BY <2>4 DEF NextDigit, EditorInv
      <3> QED
        BY <1>1, <2>1, <3>1 DEF BoxFits
    <2> QED
      BY <2>2, <2>3, <2>4
  <1>8. CASE ModeHeditFinish \/ ModeGotoFinish \/ ModeJmpFinish \/ ModeTransfer
    BY <1>2, <1>8 DEF ModeHeditFinish, ModeGotoFinish, GotoFinish, ModeJmpFinish, ModeTransfer,
                      ReturnToMain, ChangeMode
  <1>9. ASSUME NEW in, \/ InputCancel(in) \/ MenuMove(in, "start_menu", 5)
                       \/ MenuMove(in, "goto_predef", Len(Predef)) \/ MenuDtack(in) \/ PredefGo(in)
                       \/ MenuLeave(in)
        PROVE  BoxFits'
    BY <1>2, <1>9 DEF InputCancel, MenuMove, MenuDtack, PredefGo, GotoFinish, MenuLeave,
                      ReturnToMain, ChangeMode
  <1>10. ASSUME NEW in, ModeMain(in) PROVE BoxFits'
    BY <1>2, <1>10 DEF ModeMain, ChangeMode
  <1>11. ASSUME NEW in, MenuEnter(in) PROVE BoxFits'
    <2>1. d5.val \in 0..3
      BY <1>11 DEF MenuEnter, EditorInv, ChoiceInv
    <2>2. mode' # "val_input"
      BY <1>11, <2>1 DEF MenuEnter, ChangeMode, MenuEntries
    <2> QED
      BY <1>2, <2>2
  <1>12. ASSUME NEW in, InputConfirm(in) PROVE BoxFits'
    <2>1. back # "val_input" /\ d5' = d5 /\ mode' \in {mode, back}
      BY <1>12 DEF InputConfirm, EditorInv, BoxInv, Purposes
    <2> QED
      BY <1>2, <1>3, <2>1
  <1> QED
    BY <1>4, <1>5, <1>6, <1>7, <1>8, <1>9, <1>10, <1>11, <1>12 DEF EditorNext, InputFrame

LEMMA GotoStep ==
  ASSUME EditorInv, TrackInv, EditorNext
  PROVE  GotoFits'
  <1>1. GotoFits /\ BoxFits
    BY DEF TrackInv
  <1>2. CASE save' = save /\ (~done' \/ mode' # "goto")
    BY <1>1, <1>2 DEF GotoFits
  <1>3. CASE UNCHANGED <<save, done, mode, d5>>
    BY <1>1, <1>3 DEF GotoFits
  <1>4. ASSUME NEW in, PredefGo(in) PROVE GotoFits'
    BY <1>4, PredefInSpace, GotoReaches DEF PredefGo
  <1>5. CASE ModeGotoFinish
    <2>1. d5.val \in 0..Space - 1
      BY <1>1, <1>5 DEF ModeGotoFinish, GotoFits
    <2> QED
      BY <1>5, <2>1, GotoReaches DEF ModeGotoFinish
  <1>6. ASSUME NEW in, InputConfirm(in) PROVE GotoFits'
    <2>1. /\ save' = save /\ d5' = d5 /\ ~done
          /\ \/ done' /\ mode' = back
             \/ UNCHANGED <<done, mode>>
      BY <1>6 DEF InputConfirm, EditorInv, BoxInv
    <2>2. CASE back = "goto"
      <3>1. d5.bytes = AddrBytes /\ d5.val \in 0..Base ^ (2 * d5.bytes) - 1
        BY <1>1, <1>6, <2>2 DEF InputConfirm, EditorInv, BoxInv, BytesFor, BoxFits
      <3>2. d5.val \in 0..Space - 1
        BY <3>1, AddressFits
      <3> QED
        BY <1>1, <2>1, <3>2 DEF GotoFits
    <2>3. CASE back # "goto"
      BY <1>2, <2>1, <2>3
    <2> QED
      BY <2>2, <2>3
  <1>7. CASE ModeHeditFinish \/ ModeTransfer
    BY <1>2, <1>7 DEF ModeHeditFinish, ModeTransfer, ReturnToMain, ChangeMode
  <1>8. CASE ModeJmpFinish
    BY <1>2, <1>8 DEF ModeJmpFinish
  <1>9. CASE ModeEditVal \/ ModeGoto \/ ModeJmpAddr
    BY <1>2, <1>9 DEF ModeEditVal, ModeGoto, ModeJmpAddr, ChangeMode
  <1>10. ASSUME NEW in, \/ ModeMain(in) \/ InputDigit(in) \/ MenuMove(in, "start_menu", 5)
                        \/ MenuMove(in, "goto_predef", Len(Predef)) \/ MenuEnter(in) \/ MenuDtack(in)
         PROVE  GotoFits'
    <2>1. ~done /\ UNCHANGED <<done, save>>
      BY <1>10 DEF ModeMain, InputDigit, MenuMove, MenuEnter, MenuDtack, EditorInv, AskedInv, Purposes
    <2> QED
      BY <1>2, <2>1
  <1>11. ASSUME NEW in, InputCancel(in) \/ MenuLeave(in) PROVE GotoFits'
    BY <1>2, <1>3, <1>11 DEF InputCancel, MenuLeave, ReturnToMain, ChangeMode
  <1> QED
    BY <1>4, <1>5, <1>6, <1>7, <1>8, <1>9, <1>10, <1>11 DEF EditorNext, InputFrame

\* The counter, and the only step that toggles the flag (DtackByMenu's body).
DtackChosen == NoDtack' # NoDtack => mode = "start_menu" /\ d5.val = 4 /\ "a" \in old'

LEMMA FlagStep ==
  ASSUME TrackInv, EditorNext
  PROVE  FlagsInv' /\ DtackChosen
  <1>1. FlagsInv
    BY DEF TrackInv
  <1>2. ASSUME NEW in, flags' = Count(in) PROVE FlagsInv' /\ DtackChosen
    <2>1. Counter(Count(in)) /\ (Flag(Count(in)) <=> NoDtack)
      BY <1>1, CountKeeps
    <2>2. FlagsInv' /\ (NoDtack' <=> NoDtack)
      BY <1>2, <2>1 DEF FlagsInv, Counter, NoDtack, Flag
    <2>3. NoDtack \in BOOLEAN /\ NoDtack' \in BOOLEAN
      BY DEF NoDtack
    <2> QED
      BY <2>2, <2>3 DEF DtackChosen
  <1>3. CASE flags' = flags
    BY <1>1, <1>3 DEF FlagsInv, DtackChosen, NoDtack
  <1>4. ASSUME NEW in, MenuDtack(in) PROVE FlagsInv' /\ DtackChosen
    <2>1. Counter(Count(in)) /\ (Flag(Count(in)) <=> NoDtack)
      BY <1>1, CountKeeps
    <2>2. Counter(Count(in) + (IF Flag(Count(in)) THEN -Nib ELSE Nib))
      BY <2>1, ToggleKeeps
    <2>3. flags' = Count(in) + (IF Flag(Count(in)) THEN -Nib ELSE Nib)
      BY <1>4, <2>1 DEF MenuDtack
    <2>4. mode = "start_menu" /\ d5.val = 4 /\ "a" \in old'
      BY <1>4 DEF MenuDtack, News
    <2> QED
      BY <2>2, <2>3, <2>4 DEF FlagsInv, Counter, DtackChosen
  <1>5. ASSUME NEW in, InputFrame(in), ~MenuDtack(in) PROVE flags' = Count(in)
    BY <1>5 DEF InputFrame, ModeMain, InputDigit, InputCancel, InputConfirm, MenuMove, MenuLeave,
                MenuEnter, PredefGo, GetInput
  <1>6. CASE \/ ModeEditVal \/ ModeHeditFinish \/ ModeGoto \/ ModeGotoFinish
             \/ ModeJmpAddr \/ ModeJmpFinish \/ ModeTransfer
    BY <1>3, <1>6 DEF ModeEditVal, ModeHeditFinish, ModeGoto, ModeGotoFinish, ModeJmpAddr,
                      ModeJmpFinish, ModeTransfer
  <1> QED
    BY <1>2, <1>4, <1>5, <1>6 DEF EditorNext

LEMMA TrackStep ==
  ASSUME EditorInv, TrackInv, [EditorNext]_vars
  PROVE  TrackInv' /\ [Follows]_vars /\ [DtackChosen]_vars
  <1>1. CASE EditorNext
    BY <1>1, PageStep, BoxStep, GotoStep, FlagStep DEF TrackInv
  <1>2. CASE UNCHANGED vars
    BY <1>2 DEF vars, TrackInv, PageInv, BoxFits, GotoFits, FlagsInv
  <1> QED
    BY <1>1, <1>2

\* Pages are even, boxes hold their digits, and counters stay below the flag.
THEOREM TrackInvariant == EditorSpec => []TrackInv
  <1>1. EditorInv /\ TrackInv /\ [EditorNext]_vars => TrackInv'
    BY TrackStep
  <1> QED
    BY <1>1, InitTrack, EditorInvariant, PTL DEF EditorSpec

\* The address under the cursor moves by what a held button stands for, by
\* nothing, or to the address of a goto (do_dpad and dpad_end in hexed.s).
THEOREM CursorFollows == EditorSpec => CursorTracks
  <1>1. EditorInv /\ TrackInv /\ [EditorNext]_vars => [Follows]_vars
    BY TrackStep
  <1> QED
    BY <1>1, EditorInvariant, TrackInvariant, PTL DEF EditorSpec, CursorTracks, Follows

\* The counter of get_input never reaches no_dtack_detect above it.
THEOREM DtackOnlyByMenu == EditorSpec => DtackByMenu
  <1>1. EditorInv /\ TrackInv /\ [EditorNext]_vars => [DtackChosen]_vars
    BY TrackStep
  <1> QED
    BY <1>1, EditorInvariant, TrackInvariant, PTL DEF EditorSpec, DtackByMenu, DtackChosen

\* The fields of the registers in which neither invariant is interested.
FieldsInv == mode \in Modes \cup {"left"} /\ back \in Modes /\ old \in Inputs \cup {{}}
             /\ done \in BOOLEAN

LEMMA FieldsStep ==
  ASSUME EditorInv, FieldsInv, [EditorNext]_vars
  PROVE  FieldsInv'
  <1>1. ASSUME NEW in \in Inputs, InputFrame(in) PROVE FieldsInv'
    <2>1. old' = in /\ back' \in Modes /\ done' \in BOOLEAN
      BY <1>1 DEF InputFrame, ModeMain, InputDigit, InputCancel, InputConfirm, MenuMove, MenuLeave,
                  MenuEnter, MenuDtack, PredefGo, GotoFinish, GetInput, ReturnToMain, ChangeMode,
                  FieldsInv, Modes
    <2>2. CASE MenuEnter(in)
      <3>1. d5.val \in 0..3
        BY <2>2 DEF MenuEnter, EditorInv, ChoiceInv
      <3>2. mode' \in Modes
        BY <2>2, <3>1 DEF MenuEnter, ChangeMode, MenuEntries, Modes
      <3> QED
        BY <2>1, <3>2 DEF FieldsInv
    <2>3. CASE ~MenuEnter(in)
      <3>1. mode' \in Modes \cup {"left"}
        BY <1>1, <2>3 DEF InputFrame, ModeMain, InputDigit, InputCancel, InputConfirm, MenuMove,
                    MenuLeave, MenuDtack, PredefGo, GotoFinish, ReturnToMain, ChangeMode,
                    FieldsInv, Modes
      <3> QED
        BY <2>1, <3>1 DEF FieldsInv
    <2> QED
      BY <2>2, <2>3
  <1>2. CASE \/ ModeEditVal \/ ModeHeditFinish \/ ModeGoto \/ ModeGotoFinish
             \/ ModeJmpAddr \/ ModeJmpFinish \/ ModeTransfer
    BY <1>2 DEF ModeEditVal, ModeHeditFinish, ModeGoto, ModeGotoFinish, GotoFinish, ModeJmpAddr,
                ModeJmpFinish, ModeTransfer, ReturnToMain, ChangeMode, FieldsInv, Modes
  <1>3. CASE UNCHANGED vars
    BY <1>3 DEF vars, FieldsInv
  <1> QED
    BY <1>1, <1>2, <1>3 DEF EditorNext

\* A part of an address is saved that the box of a goto has room for.
LEMMA SaveFits ==
  ASSUME GotoFits
  PROVE  save \in 0..(Space - 1) \div Base ^ 2
  <1> DEFINE w == Base ^ 2
             q == (Space - 1) \div w
             r == (Space - 1) % w
  <1>1. w \in Nat \ {0} /\ save \in Nat /\ save * w < Space /\ Space - 1 \in Int /\ Space \in Int
    BY ByteWeight, Sizes DEF GotoFits
  <1> HIDE DEF w
  <1>2. q \in Int /\ r \in 0..w - 1 /\ Space - 1 = w * q + r
    BY <1>1, DivMod
  <1> HIDE DEF q, r
  <1>3. CASE q < save
    <2>1. w * q + w <= w * save
      BY <1>1, <1>2, <1>3, ProductOfDifference
    <2>2. w * save = save * w /\ save * w \in Int /\ w * q \in Int
      BY <1>1, <1>2
    <2> QED
      BY <1>1, <1>2, <2>1, <2>2
  <1>4. CASE save <= q
    BY <1>1, <1>2, <1>4 DEF q, w
  <1> QED
    BY <1>1, <1>2, <1>3, <1>4

\* Registers hold what their fields have room for, and d5 what its reader
\* expects, in every mode.
THEOREM EditorTypes == EditorSpec => []EditorTypeOK
  <1>1. EditorInit => FieldsInv
    BY DEF EditorInit, FieldsInv, Modes
  <1>2. EditorInv /\ FieldsInv /\ [EditorNext]_vars => FieldsInv'
    BY FieldsStep
  <1>3. EditorSpec => []FieldsInv
    BY <1>1, <1>2, EditorInvariant, PTL DEF EditorSpec
  <1>4. EditorInv /\ TrackInv /\ FieldsInv => EditorTypeOK
    <2> SUFFICES ASSUME EditorInv, TrackInv, FieldsInv PROVE EditorTypeOK
      OBVIOUS
    <2>1. cur.page \in 0..Space - 1 /\ flags \in 0..2 * Nib - 1
          /\ save \in 0..(Space - 1) \div Base ^ 2
      BY SaveFits DEF TrackInv, PageInv, FlagsInv
    <2>2. mode = "val_input" =>
            /\ d5.bytes \in {1, 2, AddrBytes} /\ d5.pos \in 0..2 * d5.bytes - 1
            /\ d5.val \in 0..Base ^ (2 * d5.bytes) - 1
      BY DEF EditorInv, BoxInv, BytesFor, TrackInv, BoxFits
    <2> QED
      BY <2>1, <2>2 DEF EditorTypeOK, EditorInv, ChoiceInv, FieldsInv
  <1> QED
    BY <1>3, <1>4, EditorInvariant, TrackInvariant, PTL
=============================================================================
