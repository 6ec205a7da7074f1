-------------------------- MODULE X32MailboxProofs --------------------------
(***************************************************************************)
(* For any calls, any torn reads of the command word and any timing of the *)
(* three processors: a command of testpico's mailbox is executed at most   *)
(* once, by the SH2 it is for, as it was asked; and what x32_cmd reports   *)
(* of it is true.                                                          *)
(***************************************************************************)
EXTENDS X32Mailbox, SequenceTheorems, TLAPS

Ops == {"echo", "read", "write", "getsr", "setsr", "bad"}
Kind(op, i) == Program[op][i][1]
Off(op, i) == Program[op][i][2]
Steps(op) == 1..Len(Program[op])
Words == CmdWords \cup Garbage
Call == m68k.call
For == Target(m68k.call)

X32Points == {"idle", "arg", "cmd", "poll", "clear", "err", "clearErr", "ret"}
M68k == [at : X32Points, call : Calls, v : Words, err : Nat, next : 1..5]
Sh2 == [at : {"top", "again", "exec", "dead"}, cmd : Words, torn : BOOLEAN, step : Nat,
        x : [{2} \cup Offsets -> Word16]]
Shapes ==
  /\ cmd \in Words /\ err \in Nat /\ reg \in [Offsets -> Word16] /\ cell \in Pair
  /\ torn \subseteq {"68k"} \cup SH2
  /\ m68k \in M68k
  /\ (m68k.at = "arg" => m68k.next < 5) /\ (m68k.at = "cmd" => m68k.next = 5)
  /\ sh \in [SH2 -> Sh2]
  /\ irq \in [SH2 -> [pend : BOOLEAN, unmasked : BOOLEAN, enabled : BOOLEAN]]

-----------------------------------------------------------------------------
(* What a call has come to, as the invariant of its phase.                 *)

\* The registers hold the arguments before the one that is written next.
ArgsBefore(n) == \A i \in 1..4 : i < n => reg[2 + 2 * i] = ArgWords(Call)[i]
Ran == Len(ran) = 1 /\ ran[1].by = For /\ Asked(ran[1], Call)
Counted == IF Call.op = "bad" THEN 1 ELSE 0

Untouched == cmd = Word(Call) /\ ran = <<>> /\ err = 0 /\ ArgsBefore(5)
\* The SH2 is in its exception handler, from this command or an earlier one.
Lost == err = 0 /\ (ran = <<>> \/ (Ran /\ Call.op # "bad"))
Finished == Ran /\ Answered(Call)

\* What the call has changed.
Effected ==
  /\ Call.op = "write" /\ Call.a0 = Cell => cell = Call.a1
  /\ Call.op = "write" /\ Call.a0 = MaskReg => irq[For].unmasked = (Call.a1[2] = 8)
  /\ Call.op = "setsr" => irq[For].enabled = (Call.a0[2] < 240)
\* The answers that its SH2 has in its registers.
Holds(x) ==
  /\ Call.op = "echo" => x[6] = Echo(Call)
  /\ Call.op = "read" /\ Call.a0 = Cell => <<x[4], x[6]>> = cell
  /\ Call.op = "getsr" => <<x[4], x[6]>> = SrOf(For)
  /\ Effected
  /\ Call.op = "bad" => x[2] = 1

\* Before the command is carried out its arguments are being loaded ...
Loading(x, n) ==
  /\ ran = <<>> /\ err = 0 /\ ArgsBefore(5)
  /\ \A i \in Steps(Call.op) : i < n =>
       /\ Kind(Call.op, i) = "ld"
       /\ x[Off(Call.op, i)] = IF Off(Call.op, i) = 2 THEN 0 ELSE ArgWords(Call)[Off(Call.op, i) \div 2 - 1]
\* ... and after it the answers are being stored.
Storing(x, n) ==
  /\ Ran /\ Holds(x)
  /\ \A i \in Steps(Call.op) : i >= n => Kind(Call.op, i) \in {"st", "clear"}
  /\ \A i \in Steps(Call.op) : i < n /\ Kind(Call.op, i) = "st" =>
       IF Off(Call.op, i) = 2 THEN err = 1 ELSE reg[Off(Call.op, i)] = x[Off(Call.op, i)]
  /\ Call.op # "bad" => err = 0

Executing(p) ==
  /\ m68k.at = "poll" /\ cmd = Word(Call) /\ p = For /\ sh[p].cmd = cmd
  /\ sh[p].step \in Steps(Call.op)
  /\ Loading(sh[p].x, sh[p].step) \/ Storing(sh[p].x, sh[p].step)
Reads(p) ==
  sh[p].torn \/ sh[p].cmd.op = "none" \/ sh[p].cmd.slave # Slave[p] \/ (m68k.at = "poll" /\ cmd = sh[p].cmd)

Sh2Inv ==
  \A p \in SH2 : /\ sh[p].at = "exec" => Executing(p)
                 /\ sh[p].at = "again" => Reads(p)
M68kInv ==
  /\ m68k.at \notin {"poll", "clear"} => cmd = Empty
  /\ m68k.at = "idle" => err = 0 /\ OnceAsAsked
  /\ m68k.at \in {"arg", "cmd"} => ran = <<>> /\ err = 0 /\ ArgsBefore(m68k.next)
  /\ m68k.at = "poll" => \/ Untouched \/ sh[For].at = "exec"
                         \/ cmd = Word(Call) /\ sh[For].at = "dead" /\ Lost
                         \/ cmd = Empty /\ Finished /\ err = Counted
  /\ m68k.at = "clear" => \/ cmd = Word(Call) /\ m68k.v = cmd /\ sh[For].at = "dead" /\ Lost
                          \/ cmd = Empty /\ Finished /\ err = Counted
  /\ m68k.at = "err" => \/ m68k.v # Empty /\ Lost
                        \/ Finished /\ err = Counted
  /\ m68k.at = "clearErr" => Finished /\ m68k.err = Counted
  /\ m68k.at = "ret" => /\ err = 0
                        /\ \/ m68k.v # Empty /\ m68k.err = 0 /\ Lost
                           \/ Finished /\ m68k.err = Counted

\* A call is made only if its SH2 does not retake its interrupt for ever.
VintInv == m68k.at # "idle" /\ hin = Noack => ~irq[For].enabled /\ Call.op # "setsr"
\* Only the end of a command disturbs x32_cmd's reading.
TornInv == "68k" \in torn => m68k.at \in {"poll", "clear"} /\ cmd = Empty

MailboxInv == Shapes /\ Sh2Inv /\ M68kInv /\ VintInv /\ TornInv

-----------------------------------------------------------------------------
(* The operators.                                                          *)

LEMMA Sides == SH2 = {"master", "slave"} /\ \A p \in SH2 : Slave[p] \in {0, 1}
BY DEF SH2, Slave

LEMMA ForWhom ==
  ASSUME NEW c, c.slave \in {0, 1}
  PROVE  /\ Target(c) \in SH2 /\ Slave[Target(c)] = c.slave
         /\ \A p \in SH2 : Slave[p] = c.slave => p = Target(c)
<1>1. \E p \in SH2 : Slave[p] = c.slave
  BY DEF SH2, Slave
<1>2. \A p, q \in SH2 : Slave[p] = Slave[q] => p = q
  BY DEF SH2, Slave
<1>. QED
  BY <1>1, <1>2 DEF Target

LEMMA CallShape ==
  ASSUME NEW c \in Calls
  PROVE  /\ c.op \in Ops /\ c.slave \in {0, 1} /\ c.a0 \in Pair /\ c.a1 \in Pair
         /\ Word(c) \in Words /\ Word(c) # Empty
         /\ Word(c).op = c.op /\ Word(c).slave = c.slave
BY MailboxAssumption DEF Ops, Word, Words, CmdWords, Empty

LEMMA EmptyShape == Empty \in Words /\ Empty.op = "none"
BY DEF Words, CmdWords, Empty

LEMMA PairWords ==
  ASSUME NEW u \in Pair
  PROVE  u \in Seq(Word16) /\ Len(u) = 2 /\ u[1] \in Word16 /\ u[2] \in Word16 /\ u = <<u[1], u[2]>>
<1>1. u = <<u[1], u[2]>> /\ u[1] \in Word16 /\ u[2] \in Word16
  BY DEF Pair
<1>2. ASSUME NEW a \in Word16, NEW b \in Word16 PROVE <<a, b>> \in Seq(Word16) /\ Len(<<a, b>>) = 2
  OBVIOUS
<1>3. <<u[1], u[2]>> \in Seq(Word16) /\ Len(<<u[1], u[2]>>) = 2
  BY <1>1, <1>2
<1>. QED
  BY <1>1, <1>3, Zenon

LEMMA WordsAreNat == ASSUME NEW w \in Word16 PROVE w \in Nat /\ w + 1 \in Nat
BY DEF Word16

LEMMA Wraps == ASSUME NEW k \in Nat PROVE k % 65536 \in Word16 /\ k % 256 \in Word16
<1>1. PICK a, b : a = k % 65536 /\ b = k % 256
  OBVIOUS
<1>2. a \in 0..65535 /\ b \in 0..255
  BY <1>1
<1>3. a \in Word16 /\ b \in Word16
  BY <1>2 DEF Word16
<1>. QED
  BY <1>1, <1>3

LEMMA SmallPairs == \A k \in 0..255 : <<0, k>> \in Pair
<1>1. ASSUME NEW a \in Word16, NEW b \in Word16 PROVE <<a, b>> \in Pair
  BY DEF Pair
<1>2. \A k \in 0..255 : k \in Word16
  BY DEF Word16
<1>3. 0 \in 0..255
  OBVIOUS
<1>. QED
  BY <1>1, <1>2, <1>3

LEMMA ArgWordsAre ==
  ASSUME NEW c \in Calls
  PROVE  /\ \A i \in 1..4 : ArgWords(c)[i] \in Word16
         /\ ArgWords(c)[1] = c.a0[1] /\ ArgWords(c)[2] = c.a0[2]
         /\ ArgWords(c)[3] = c.a1[1] /\ ArgWords(c)[4] = c.a1[2]
<1>1. ASSUME NEW u \in Seq(Word16), NEW v \in Seq(Word16), Len(u) = 2, Len(v) = 2
      PROVE  (u \o v)[1] = u[1] /\ (u \o v)[2] = u[2] /\ (u \o v)[3] = v[1] /\ (u \o v)[4] = v[2]
  BY <1>1, ConcatProperties
<1>2. c.a0 \in Pair /\ c.a1 \in Pair
  BY CallShape
<1>3. /\ ArgWords(c)[1] = c.a0[1] /\ ArgWords(c)[2] = c.a0[2]
      /\ ArgWords(c)[3] = c.a1[1] /\ ArgWords(c)[4] = c.a1[2]
  BY <1>1, <1>2, PairWords DEF ArgWords
<1>. QED
  BY <1>2, <1>3, PairWords

LEMMA ProgramLength == \A op \in Ops : Len(Program[op]) \in 3..6
<1> USE DEF Program, Ops
<1>1. Len(Program["echo"]) = 4
  OBVIOUS
<1>2. Len(Program["read"]) = 6
  OBVIOUS
<1>3. Len(Program["write"]) = 6
  OBVIOUS
<1>4. Len(Program["getsr"]) = 4
  OBVIOUS
<1>5. Len(Program["setsr"]) = 4
  OBVIOUS
<1>6. Len(Program["bad"]) = 4
  OBVIOUS
<1>. QED
  BY <1>1, <1>2, <1>3, <1>4, <1>5, <1>6

LEMMA ProgramDomain == \A op \in Ops : DOMAIN Program[op] = Steps(op)
<1>1. ASSUME NEW a, NEW b, NEW c, NEW d, NEW e, NEW f
      PROVE  /\ DOMAIN <<a, b, c, d>> = 1..Len(<<a, b, c, d>>)
             /\ DOMAIN <<a, b, c, d, e, f>> = 1..Len(<<a, b, c, d, e, f>>)
  OBVIOUS
<1>. QED
  BY <1>1 DEF Steps, Program, Ops

\* The programs load, carry out, store and clear, in this order.
LEMMA ProgramShape ==
  ASSUME NEW op \in Ops, NEW i \in Steps(op)
  PROVE  /\ Kind(op, i) \in {"ld", "do", "st", "clear"}
         /\ Kind(op, i) = "clear" <=> i = Len(Program[op])
         /\ Kind(op, i) \in {"ld", "do"} => \A j \in Steps(op) : j < i => Kind(op, j) = "ld"
         /\ Kind(op, i) \in {"do", "st"} => \A j \in Steps(op) : j > i => Kind(op, j) \in {"st", "clear"}
         /\ Kind(op, i) \in {"st", "clear"} => \E j \in Steps(op) : j < i /\ Kind(op, j) = "do"
         /\ Kind(op, i) \in {"ld", "st"} => Off(op, i) \in {2} \cup Offsets
         /\ Kind(op, i) \in {"ld", "st"} => (Off(op, i) = 2 <=> op = "bad")
<1> USE DEF Kind, Off, Steps, Program, Ld, St, Do, Clear, Offsets
<1>1. CASE op = "echo"
  BY <1>1
<1>2. CASE op = "read"
  BY <1>2
<1>3. CASE op = "write"
  BY <1>3
<1>4. CASE op = "getsr"
  BY <1>4
<1>5. CASE op = "setsr"
  BY <1>5
<1>6. CASE op = "bad"
  BY <1>6
<1>. QED
  BY <1>1, <1>2, <1>3, <1>4, <1>5, <1>6 DEF Ops

-----------------------------------------------------------------------------
(* What the phases say is kept when the state they speak of is.            *)

LEMMA WordSides ==
  ASSUME Shapes
  PROVE  /\ Call \in Calls /\ For \in SH2 /\ Slave[For] = Call.slave
         /\ \A p \in SH2 : Slave[p] = Call.slave => p = For
<1>1. Call \in Calls /\ Call.slave \in {0, 1}
  BY CallShape DEF Shapes, M68k, Call
<1>. QED
  BY <1>1, ForWhom DEF For, Call

\* What neither the call, its answer nor its count is about.
Kept == /\ UNCHANGED <<cmd, err, reg, ran, cell>> /\ m68k'.call = m68k.call
        /\ \A p \in SH2 : irq'[p].unmasked = irq[p].unmasked /\ irq'[p].enabled = irq[p].enabled

LEMMA KeptFor ==
  ASSUME Shapes, Kept
  PROVE  /\ Call' = Call /\ For' = For
         /\ (Untouched' <=> Untouched) /\ (Lost' <=> Lost) /\ (Finished' <=> Finished)
         /\ Counted' = Counted /\ (OnceAsAsked /\ m68k'.at \notin {"arg", "cmd"} => OnceAsAsked')
         /\ \A n : ArgsBefore(n)' <=> ArgsBefore(n)
<1>1. Call' = Call /\ For' = For /\ For \in SH2
  BY WordSides DEF Kept, Call, For
<1>2. \A n : ArgsBefore(n)' <=> ArgsBefore(n)
  BY <1>1 DEF Kept, ArgsBefore
<1>3. Ran' <=> Ran
  BY <1>1 DEF Kept, Ran
<1>4. Answered(Call)' <=> Answered(Call)
  BY <1>1 DEF Kept, Answered, SrOf, For, Call
<1>5. OnceAsAsked /\ m68k'.at \notin {"arg", "cmd"} => OnceAsAsked'
  BY <1>1 DEF Kept, OnceAsAsked, Call
<1>. QED
  BY <1>1, <1>2, <1>3, <1>4, <1>5 DEF Kept, Untouched, Lost, Finished, Counted

LEMMA KeptExecuting ==
  ASSUME Shapes, Kept, NEW p \in SH2, Executing(p), sh'[p] = sh[p], m68k'.at = "poll"
  PROVE  Executing(p)'
<1>1. Call' = Call /\ For' = For /\ For \in SH2 /\ \A n : ArgsBefore(n)' <=> ArgsBefore(n)
  BY KeptFor, WordSides
<1>2. Ran' <=> Ran
  BY <1>1 DEF Kept, Ran
<1>3. Loading(sh[p].x, sh[p].step) => Loading(sh[p].x, sh[p].step)'
  BY <1>1 DEF Kept, Loading
<1>4. Storing(sh[p].x, sh[p].step) => Storing(sh[p].x, sh[p].step)'
  BY <1>1, <1>2 DEF Kept, Storing, Holds, Effected, SrOf
<1>. QED
  BY <1>1, <1>3, <1>4 DEF Kept, Executing

-----------------------------------------------------------------------------
(* The steps of the 68000.                                                 *)

LEMMA InitMailbox == MailboxInit => MailboxInv
<1>1. SUFFICES ASSUME MailboxInit PROVE MailboxInv
  OBVIOUS
<1>2. Shapes
  <2>1. m68k.call \in Calls
    BY <1>1, MailboxAssumption DEF MailboxInit
  <2>2. 0 \in Word16
    BY DEF Word16
  <2>3. Fresh \in Sh2
    BY <2>2, EmptyShape DEF Fresh, Sh2
  <2>4. <<0, 0>> \in Pair
    BY <2>2 DEF Pair
  <2>5. m68k \in M68k /\ m68k.at = "idle"
    BY <1>1, <2>1, EmptyShape DEF MailboxInit, M68k, X32Points
  <2>6. /\ sh \in [SH2 -> Sh2] /\ reg \in [Offsets -> Word16]
        /\ irq \in [SH2 -> [pend : BOOLEAN, unmasked : BOOLEAN, enabled : BOOLEAN]]
    BY <1>1, <2>2, <2>3 DEF MailboxInit
  <2>. QED
    BY <1>1, <2>4, <2>5, <2>6, EmptyShape DEF MailboxInit, Shapes
<1>3. Sh2Inv
  BY <1>1 DEF MailboxInit, Sh2Inv, Fresh
<1>4. M68kInv /\ VintInv /\ TornInv
  BY <1>1 DEF MailboxInit, M68kInv, VintInv, TornInv, OnceAsAsked
<1>. QED
  BY <1>2, <1>3, <1>4 DEF MailboxInv

\* Outside "poll" no SH2 is executing a command.
LEMMA Resting ==
  ASSUME MailboxInv, m68k.at # "poll", NEW p \in SH2
  PROVE  sh[p].at # "exec" /\ (sh[p].at = "again" => sh[p].torn \/ sh[p].cmd.op = "none" \/ sh[p].cmd.slave # Slave[p])
BY DEF MailboxInv, Sh2Inv, Executing, Reads

LEMMA RestingStays ==
  ASSUME MailboxInv, m68k.at # "poll", sh' = sh
  PROVE  Sh2Inv'
BY Resting DEF Sh2Inv, Reads

LEMMA CmdStep ==
  ASSUME MailboxInv, NEW c \in Calls, X32Cmd(c)
  PROVE  MailboxInv'
<1>1. /\ m68k.at = "idle" /\ MayCall(c) /\ m68k' = [at |-> "arg", call |-> c, v |-> Empty, err |-> 0, next |-> 1]
      /\ ran' = <<>> /\ UNCHANGED <<cmd, err, reg, torn, hin, sh, exc, cell, irq>>
  BY DEF X32Cmd
<1>2. Shapes'
  <2>1. m68k' \in M68k
    BY <1>1, EmptyShape DEF M68k, X32Points
  <2>. QED
    BY <1>1, <2>1 DEF MailboxInv, Shapes
<1>3. Sh2Inv'
  BY <1>1, RestingStays
<1>4. M68kInv'
  BY <1>1 DEF MailboxInv, M68kInv, ArgsBefore
<1>5. VintInv' /\ TornInv'
  BY <1>1 DEF MailboxInv, VintInv, TornInv, MayCall, For, Call
<1>. QED
  BY <1>2, <1>3, <1>4, <1>5 DEF MailboxInv

LEMMA WriteArgStep ==
  ASSUME MailboxInv, X32WriteArg
  PROVE  MailboxInv'
<1> DEFINE n == m68k.next
<1>1. /\ m68k.at = "arg" /\ n \in 1..4 /\ reg' = [reg EXCEPT ![2 + 2 * n] = ArgWords(Call)[n]]
      /\ m68k' = [m68k EXCEPT !.next = @ + 1, !.at = IF m68k.next = 4 THEN "cmd" ELSE "arg"]
      /\ UNCHANGED <<cmd, err, torn, hin, sh, exc, cell, irq, ran>>
  BY DEF X32WriteArg, Keep68k, shHas, MailboxInv, Shapes, M68k, Call
<1>2. /\ m68k'.at = IF n = 4 THEN "cmd" ELSE "arg"
      /\ m68k'.next = n + 1 /\ Call' = Call /\ For' = For /\ Call \in Calls
  BY <1>1 DEF MailboxInv, Shapes, M68k, Call, For
<1>3. Shapes'
  <2>1. 2 + 2 * n \in Offsets /\ ArgWords(Call)[n] \in Word16
    BY <1>1, <1>2, ArgWordsAre DEF Offsets
  <2>2. reg' \in [Offsets -> Word16]
    BY <1>1, <2>1 DEF MailboxInv, Shapes
  <2>3. m68k' \in M68k
    <3>1. ASSUME NEW r \in M68k, NEW a \in X32Points, NEW k \in 1..5
          PROVE  [r EXCEPT !.next = k, !.at = a] \in M68k
      BY DEF M68k
    <3>2. m68k' = [m68k EXCEPT !.next = n + 1, !.at = IF n = 4 THEN "cmd" ELSE "arg"]
      BY <1>1
    <3>3. n + 1 \in 1..5 /\ (IF n = 4 THEN "cmd" ELSE "arg") \in X32Points
      BY <1>1 DEF X32Points
    <3>. QED
      BY <3>1, <3>2, <3>3 DEF MailboxInv, Shapes
  <2>. QED
    BY <1>1, <1>2, <2>2, <2>3 DEF MailboxInv, Shapes
<1>4. Sh2Inv'
  BY <1>1, RestingStays
<1>5. M68kInv'
  <2>1. cmd = Empty /\ ran = <<>> /\ err = 0 /\ ArgsBefore(n)
    BY <1>1 DEF MailboxInv, M68kInv
  <2>2. ASSUME NEW i \in 1..4, i < n + 1 PROVE reg'[2 + 2 * i] = ArgWords(Call)[i]
    <3>1. CASE i = n
      BY <1>1, <3>1 DEF MailboxInv, Shapes, Offsets
    <3>2. CASE i < n
      BY <1>1, <2>1, <3>2 DEF MailboxInv, Shapes, Offsets, ArgsBefore
    <3>. QED
      BY <1>1, <2>2, <3>1, <3>2
  <2>3. ArgsBefore(m68k.next)'
    BY <1>2, <2>2 DEF ArgsBefore
  <2>. QED
    BY <1>1, <1>2, <2>1, <2>3 DEF M68kInv
<1>6. VintInv' /\ TornInv'
  BY <1>1, <1>2 DEF MailboxInv, VintInv, TornInv
<1>. QED
  BY <1>3, <1>4, <1>5, <1>6 DEF MailboxInv

LEMMA WriteCmdStep ==
  ASSUME MailboxInv, X32WriteCmd
  PROVE  MailboxInv'
<1>1. /\ m68k.at = "cmd" /\ cmd' = Word(Call) /\ torn' = SH2
      /\ m68k' = [m68k EXCEPT !.at = "poll"]
      /\ UNCHANGED <<err, reg, hin, sh, exc, cell, irq, ran>>
  BY DEF X32WriteCmd, Keep68k, shHas, Call
<1>2. /\ m68k'.at = "poll" /\ m68k.next = 5 /\ Call' = Call /\ For' = For /\ Call \in Calls
      /\ m68k' \in M68k
  BY <1>1 DEF MailboxInv, Shapes, Call, For, M68k, X32Points
<1>3. Shapes'
  BY <1>1, <1>2, CallShape DEF MailboxInv, Shapes
<1>4. Sh2Inv'
  BY <1>1, RestingStays
<1>5. M68kInv'
  <2>1. ran = <<>> /\ err = 0 /\ ArgsBefore(5)
    BY <1>1, <1>2 DEF MailboxInv, M68kInv
  <2>2. Untouched'
    BY <1>1, <1>2, <2>1 DEF Untouched, ArgsBefore
  <2>. QED
    BY <1>2, <2>2 DEF M68kInv
<1>6. VintInv' /\ TornInv'
  BY <1>1, <1>2, Sides DEF MailboxInv, VintInv, TornInv
<1>. QED
  BY <1>3, <1>4, <1>5, <1>6 DEF MailboxInv

\* A step of x32_cmd after the command has been written.
LEMMA X32Frame ==
  ASSUME MailboxInv, m68k.at \in {"poll", "clear", "err", "clearErr", "ret"},
         m68k' \in M68k, m68k'.call = m68k.call, m68k'.at \notin {"arg", "cmd"},
         cmd' \in Words, torn' \subseteq {"68k"} \cup SH2, err' \in Nat, UNCHANGED <<reg, shHas>>,
         m68k'.at = "idle" \/ hin' = hin \/ hin' = 0
  PROVE  Shapes' /\ VintInv' /\ Call' = Call /\ For' = For
<1>1. Call' = Call /\ For' = For
  BY DEF Call, For
<1>2. Shapes'
  BY DEF MailboxInv, Shapes, shHas
<1>3. VintInv'
  BY <1>1 DEF MailboxInv, VintInv, shHas, Noack
<1>. QED
  BY <1>1, <1>2, <1>3

LEMMA PollStep ==
  ASSUME MailboxInv, X32Poll
  PROVE  MailboxInv'
<1>1. PICK v \in IF "68k" \in torn THEN {cmd} \cup Garbage ELSE {cmd} :
        m68k' = [m68k EXCEPT !.v = v,
                   !.at = IF v = Word(Call) THEN "poll" ELSE IF v = Empty THEN "err" ELSE "clear"]
  BY DEF X32Poll, Call
<1>2. /\ m68k.at = "poll" /\ torn' = torn \ {"68k"} /\ UNCHANGED <<cmd, err, reg, hin, shHas>>
      /\ Shapes /\ M68kInv /\ Sh2Inv /\ VintInv /\ TornInv
  BY DEF X32Poll, Keep68k, MailboxInv
<1>3. v \in Words
  BY <1>2 DEF Shapes, Words
<1>4. /\ m68k' \in M68k /\ m68k'.call = m68k.call /\ m68k'.v = v
      /\ m68k'.at = IF v = Word(Call) THEN "poll" ELSE IF v = Empty THEN "err" ELSE "clear"
  BY <1>1, <1>2, <1>3 DEF Shapes, M68k, X32Points
<1>5. Shapes' /\ VintInv' /\ Call' = Call /\ For' = For
  BY <1>2, <1>4, X32Frame DEF Shapes
<1>6. Kept
  BY <1>2, <1>4 DEF Kept, shHas
<1>7. Call \in Calls /\ Word(Call) # Empty
  BY <1>2, WordSides, CallShape
<1>8. CASE cmd = Word(Call)
  <2>1. m68k'.at = "poll"
    BY <1>2, <1>4, <1>7, <1>8 DEF TornInv
  <2>2. Sh2Inv'
    <3>1. ASSUME NEW p \in SH2, sh[p].at = "exec" PROVE Executing(p)'
      BY <1>2, <1>6, <2>1, <3>1, KeptExecuting DEF Sh2Inv, shHas
    <3>2. ASSUME NEW p \in SH2, sh[p].at = "again" PROVE Reads(p)'
      BY <1>2, <2>1, <3>2 DEF Sh2Inv, Reads, shHas
    <3>. QED
      BY <1>2, <3>1, <3>2 DEF Sh2Inv, shHas
  <2>3. M68kInv'
    BY <1>2, <1>5, <1>6, <2>1, KeptFor DEF M68kInv, shHas
  <2>4. TornInv'
    BY <1>2 DEF TornInv
  <2>. QED
    BY <1>5, <2>2, <2>3, <2>4 DEF MailboxInv
<1>9. CASE cmd # Word(Call)
  <2>1. cmd = Empty /\ Finished /\ err = Counted
    BY <1>2, <1>9, WordSides DEF M68kInv, Untouched, Sh2Inv, Executing
  <2>2. Finished' /\ err' = Counted' /\ cmd' = Empty
    BY <1>2, <1>6, <2>1, KeptFor
  <2>3. Sh2Inv'
    <3>1. ASSUME NEW p \in SH2 PROVE sh[p].at # "exec" /\ (sh[p].at = "again" => Reads(p)')
      BY <1>2, <1>7, <2>1, EmptyShape DEF Sh2Inv, Executing, Reads, shHas
    <3>. QED
      BY <1>2, <3>1 DEF Sh2Inv, shHas
  <2>4. M68kInv'
    BY <1>4, <2>2 DEF M68kInv
  <2>5. TornInv'
    BY <1>2 DEF TornInv
  <2>. QED
    BY <1>5, <2>3, <2>4, <2>5 DEF MailboxInv
<1>. QED
  BY <1>8, <1>9

\* Only an SH2 in its exception handler lets the time run out.
LEMMA TimeoutStep ==
  ASSUME MailboxInv, X32Timeout
  PROVE  MailboxInv'
<1>1. /\ m68k.at = "poll" /\ Stuck(For) /\ m68k' = [m68k EXCEPT !.at = "clear", !.v = cmd]
      /\ UNCHANGED <<cmd, err, reg, torn, hin, shHas>>
      /\ Shapes /\ M68kInv /\ Sh2Inv /\ VintInv /\ TornInv
  BY DEF X32Timeout, Keep68k, MailboxInv, For, Call
<1>2. sh[For].at = "dead"
  BY <1>1 DEF Stuck, Taken, VintInv
<1>3. /\ m68k' \in M68k /\ m68k'.call = m68k.call /\ m68k'.at = "clear" /\ m68k'.v = cmd
  BY <1>1 DEF Shapes, M68k, X32Points
<1>4. Shapes' /\ VintInv' /\ Call' = Call /\ For' = For
  BY <1>1, <1>3, X32Frame DEF Shapes
<1>5. Kept
  BY <1>1, <1>3 DEF Kept, shHas
<1>6. M68kInv'
  <2>1. \/ cmd = Word(Call) /\ Lost
        \/ cmd = Empty /\ Finished /\ err = Counted
    BY <1>1, <1>2 DEF M68kInv, Untouched, Lost
  <2>. QED
    BY <1>1, <1>2, <1>3, <1>4, <1>5, <2>1, KeptFor DEF M68kInv, shHas
<1>7. Sh2Inv'
  <2>1. ASSUME NEW p \in SH2, sh[p].at = "again" PROVE Reads(p)'
    <3>1. cmd \in {Empty, Word(Call)} /\ (cmd = Word(Call) => p = For \/ cmd.slave # Slave[p])
      BY <1>1, WordSides, CallShape DEF M68kInv, Untouched, Sh2Inv, Executing
    <3>2. sh[p].torn \/ sh[p].cmd.op = "none" \/ sh[p].cmd.slave # Slave[p]
      BY <1>1, <1>2, <2>1, <3>1, EmptyShape DEF Sh2Inv, Reads
    <3>. QED
      BY <1>1, <3>2 DEF Reads, shHas
  <2>2. ASSUME NEW p \in SH2 PROVE sh[p].at # "exec"
    BY <1>1, <1>2 DEF Sh2Inv, Executing
  <2>. QED
    BY <1>1, <2>1, <2>2 DEF Sh2Inv, shHas
<1>8. TornInv'
  BY <1>1, <1>3 DEF TornInv
<1>. QED
  BY <1>4, <1>6, <1>7, <1>8 DEF MailboxInv

LEMMA ClearStep ==
  ASSUME MailboxInv, X32Clear
  PROVE  MailboxInv'
<1>1. /\ m68k.at = "clear" /\ cmd' = Empty /\ torn' = SH2 /\ m68k' = [m68k EXCEPT !.at = "err"]
      /\ UNCHANGED <<err, reg, hin, shHas>> /\ Shapes /\ M68kInv
  BY DEF X32Clear, Keep68k, MailboxInv
<1>2. m68k' \in M68k /\ m68k'.call = m68k.call /\ m68k'.at = "err" /\ m68k'.v = m68k.v
  BY <1>1 DEF Shapes, M68k, X32Points
<1>3. Shapes' /\ VintInv' /\ Call' = Call /\ For' = For
  BY <1>1, <1>2, EmptyShape, X32Frame DEF Shapes
<1>4. (Finished' <=> Finished) /\ (Lost' <=> Lost) /\ Counted' = Counted
  BY <1>1, <1>3 DEF shHas, Finished, Ran, Answered, SrOf, Lost, Counted
<1>5. M68kInv'
  <2>1. (m68k.v # Empty /\ Lost) \/ (Finished /\ err = Counted)
    BY <1>1, WordSides, CallShape DEF M68kInv
  <2>. QED
    BY <1>1, <1>2, <1>4, <2>1 DEF M68kInv
<1>6. Sh2Inv' /\ TornInv'
  BY <1>1, RestingStays, Sides DEF TornInv, shHas
<1>. QED
  BY <1>3, <1>5, <1>6 DEF MailboxInv

LEMMA ReadErrStep ==
  ASSUME MailboxInv, X32ReadErr
  PROVE  MailboxInv'
<1>1. /\ m68k.at = "err" /\ m68k' = [m68k EXCEPT !.at = IF err = 0 THEN "ret" ELSE "clearErr", !.err = err]
      /\ UNCHANGED <<cmd, err, reg, torn, hin, shHas>> /\ Shapes /\ M68kInv /\ TornInv
  BY DEF X32ReadErr, Keep68k, MailboxInv
<1>2. /\ m68k' \in M68k /\ m68k'.call = m68k.call /\ m68k'.v = m68k.v /\ m68k'.err = err
      /\ m68k'.at = IF err = 0 THEN "ret" ELSE "clearErr"
  BY <1>1 DEF Shapes, M68k, X32Points
<1>3. Shapes' /\ VintInv' /\ Call' = Call /\ For' = For
  BY <1>1, <1>2, X32Frame DEF Shapes
<1>4. Kept
  BY <1>1, <1>2 DEF Kept, shHas
<1>5. M68kInv'
  <2>1. cmd = Empty /\ ((m68k.v # Empty /\ Lost) \/ (Finished /\ err = Counted))
    BY <1>1 DEF M68kInv
  <2>2. (Lost' <=> Lost) /\ (Finished' <=> Finished) /\ Counted' = Counted
    BY <1>1, <1>4, KeptFor
  <2>3. CASE err = 0
    BY <1>1, <1>2, <2>1, <2>2, <2>3 DEF M68kInv
  <2>4. CASE err # 0
    <3>1. Finished /\ err = Counted
      BY <2>1, <2>4 DEF Lost
    <3>. QED
      BY <1>1, <1>2, <2>1, <2>2, <2>4, <3>1 DEF M68kInv
  <2>. QED
    BY <2>3, <2>4
<1>6. Sh2Inv' /\ TornInv'
  BY <1>1, RestingStays DEF TornInv, shHas
<1>. QED
  BY <1>3, <1>5, <1>6 DEF MailboxInv

LEMMA ClearErrStep ==
  ASSUME MailboxInv, X32ClearErr
  PROVE  MailboxInv'
<1>1. /\ m68k.at = "clearErr" /\ err' = 0 /\ hin' = 0 /\ m68k' = [m68k EXCEPT !.at = "ret"]
      /\ UNCHANGED <<cmd, reg, torn, shHas>> /\ Shapes /\ M68kInv /\ TornInv
  BY DEF X32ClearErr, MailboxInv
<1>2. m68k' \in M68k /\ m68k'.call = m68k.call /\ m68k'.err = m68k.err /\ m68k'.at = "ret"
  BY <1>1 DEF Shapes, M68k, X32Points
<1>3. Shapes' /\ VintInv' /\ Call' = Call /\ For' = For
  BY <1>1, <1>2, X32Frame DEF Shapes
<1>4. (Finished' <=> Finished) /\ Counted' = Counted
  BY <1>1, <1>3 DEF shHas, Finished, Ran, Answered, SrOf, Counted
<1>5. M68kInv'
  BY <1>1, <1>2, <1>4 DEF M68kInv
<1>6. Sh2Inv' /\ TornInv'
  BY <1>1, RestingStays DEF TornInv, shHas
<1>. QED
  BY <1>3, <1>5, <1>6 DEF MailboxInv

LEMMA ReturnStep ==
  ASSUME MailboxInv, X32Return
  PROVE  MailboxInv'
<1>1. /\ m68k.at = "ret" /\ m68k' = [m68k EXCEPT !.at = "idle"]
      /\ UNCHANGED <<cmd, err, reg, torn, hin, shHas>> /\ Shapes /\ M68kInv /\ TornInv
  BY DEF X32Return, Keep68k, MailboxInv
<1>2. m68k' \in M68k /\ m68k'.call = m68k.call /\ m68k'.at = "idle"
  BY <1>1 DEF Shapes, M68k, X32Points
<1>3. Shapes' /\ VintInv' /\ Call' = Call /\ For' = For
  BY <1>1, <1>2, X32Frame DEF Shapes
<1>4. M68kInv'
  <2>1. cmd = Empty /\ err = 0 /\ (ran = <<>> \/ Ran)
    BY <1>1 DEF M68kInv, Lost, Finished
  <2>2. OnceAsAsked'
    BY <1>1, <1>2, <1>3, <2>1 DEF OnceAsAsked, Ran, shHas, Call
  <2>. QED
    BY <1>1, <1>2, <2>1, <2>2 DEF M68kInv
<1>5. Sh2Inv' /\ TornInv'
  BY <1>1, RestingStays DEF TornInv, shHas
<1>. QED
  BY <1>3, <1>4, <1>5 DEF MailboxInv

LEMMA HandlerInputStep ==
  ASSUME MailboxInv, SetHandlerInput
  PROVE  MailboxInv'
<1>1. m68k.at = "idle" /\ UNCHANGED <<cmd, err, reg, torn, m68k, sh, exc, cell, irq, ran>>
  BY DEF SetHandlerInput, shHas
<1>2. Kept
  BY <1>1 DEF Kept
<1>3. Shapes' /\ Sh2Inv' /\ VintInv' /\ TornInv'
  BY <1>1, RestingStays DEF MailboxInv, Shapes, VintInv, TornInv
<1>4. M68kInv'
  BY <1>1, <1>2, KeptFor DEF MailboxInv, M68kInv
<1>. QED
  BY <1>3, <1>4 DEF MailboxInv

-----------------------------------------------------------------------------
(* The steps of an SH2, and of the VDP.                                    *)

LEMMA M68kKept ==
  ASSUME MailboxInv, Kept, m68k' = m68k, sh[For].at \in {"exec", "dead"} => sh'[For].at = sh[For].at
  PROVE  M68kInv'
<1>1. /\ Call' = Call /\ For' = For
      /\ (Untouched' <=> Untouched) /\ (Lost' <=> Lost) /\ (Finished' <=> Finished)
      /\ Counted' = Counted /\ (OnceAsAsked /\ m68k'.at \notin {"arg", "cmd"} => OnceAsAsked')
      /\ \A n : ArgsBefore(n)' <=> ArgsBefore(n)
  BY KeptFor DEF MailboxInv
<1>. QED
  BY <1>1 DEF MailboxInv, M68kInv, Kept

\* A step of p that reads the command word, or none of p.
LEMMA Sh2Aside ==
  ASSUME MailboxInv, Kept, UNCHANGED <<m68k, hin>>, Shapes', torn' \subseteq torn,
         NEW p \in SH2,
         \A q \in SH2 \ {p} : sh'[q] = sh[q],
         sh'[p] = sh[p] \/ /\ sh[p].at \in {"top", "again"}
                           /\ sh'[p].at = "exec" => Executing(p)'
                           /\ sh'[p].at = "again" => Reads(p)'
  PROVE  MailboxInv'
<1>1. Sh2Inv'
  <2>1. ASSUME NEW q \in SH2, sh'[q] = sh[q]
        PROVE  (sh[q].at = "exec" => Executing(q)') /\ (sh[q].at = "again" => Reads(q)')
    <3>1. sh[q].at = "exec" => Executing(q)'
      BY <2>1, KeptExecuting DEF MailboxInv, Sh2Inv, Executing
    <3>2. sh[q].at = "again" => Reads(q)'
      BY <2>1 DEF MailboxInv, Sh2Inv, Reads, Kept
    <3>. QED
      BY <3>1, <3>2
  <2>. QED
    BY <2>1 DEF Sh2Inv
<1>2. M68kInv'
  BY M68kKept, WordSides DEF MailboxInv
<1>3. VintInv' /\ TornInv'
  BY KeptFor, WordSides DEF MailboxInv, VintInv, TornInv, Kept
<1>. QED
  BY <1>1, <1>2, <1>3 DEF MailboxInv

LEMMA CmdValues ==
  ASSUME MailboxInv
  PROVE  cmd \in {Empty, Word(Call)} /\ (cmd = Word(Call) /\ m68k.at # "poll" => sh[For].at = "dead")
BY WordSides, CallShape DEF MailboxInv, M68kInv, Sh2Inv, Untouched, Executing

LEMMA MainReadStep ==
  ASSUME MailboxInv, NEW p \in SH2, MainRead(p)
  PROVE  MailboxInv'
<1>1. PICK v \in IF p \in torn THEN {cmd} \cup Garbage ELSE {cmd} :
        sh' = [sh EXCEPT ![p].at = "again", ![p].cmd = v, ![p].torn = p \in torn]
  BY DEF MainRead
<1>2. /\ sh[p].at = "top" /\ torn' = torn \ {p} /\ UNCHANGED <<cmd, err, reg, cell, irq, ran, m68k, hin>>
      /\ Shapes
  BY DEF MainRead, MainOnly, KeepSH2, m68kHas, MailboxInv
<1>3. /\ v \in Words /\ sh' \in [SH2 -> Sh2] /\ sh'[p].at = "again" /\ sh'[p].cmd = v
      /\ sh'[p].torn = (p \in torn) /\ \A q \in SH2 \ {p} : sh'[q] = sh[q]
  <2>1. v \in Words
    BY <1>1, <1>2 DEF Shapes, Words
  <2>2. ASSUME NEW b \in BOOLEAN, sh' = [sh EXCEPT ![p].at = "again", ![p].cmd = v, ![p].torn = b]
        PROVE  /\ sh' \in [SH2 -> Sh2] /\ sh'[p].at = "again" /\ sh'[p].cmd = v /\ sh'[p].torn = b
               /\ \A q \in SH2 \ {p} : sh'[q] = sh[q]
    BY <1>2, <2>1, <2>2 DEF Shapes, Sh2
  <2>3. CASE p \in torn
    <3>1. (p \in torn) = TRUE
      BY <2>3
    <3>2. sh' = [sh EXCEPT ![p].at = "again", ![p].cmd = v, ![p].torn = TRUE]
      BY <1>1, <3>1, Zenon
    <3>3. sh'[p].torn = TRUE
      BY <2>2, <3>2
    <3>4. sh'[p].torn = (p \in torn)
      BY <3>1, <3>3, Zenon
    <3>. QED
      BY <2>1, <2>2, <3>2, <3>4
  <2>4. CASE p \notin torn
    <3>1. (p \in torn) = FALSE
      BY <2>4
    <3>2. sh' = [sh EXCEPT ![p].at = "again", ![p].cmd = v, ![p].torn = FALSE]
      BY <1>1, <3>1, Zenon
    <3>3. sh'[p].torn = FALSE
      BY <2>2, <3>2
    <3>4. sh'[p].torn = (p \in torn)
      BY <3>1, <3>3, Zenon
    <3>. QED
      BY <2>1, <2>2, <3>2, <3>4
  <2>. QED
    BY <2>3, <2>4
<1>4. Kept /\ Shapes'
  BY <1>2, <1>3 DEF Kept, Shapes
<1>5. Reads(p)'
  <2>1. CASE p \in torn
    BY <1>3, <2>1 DEF Reads
  <2>2. CASE p \notin torn
    <3>1. v = cmd
      BY <1>1, <2>2
    <3>2. cmd = Word(Call) => m68k.at = "poll" \/ cmd.slave # Slave[p]
      BY <1>2, CmdValues, WordSides, CallShape
    <3>. QED
      BY <1>2, <1>3, <3>1, <3>2, CmdValues, EmptyShape DEF Reads
  <2>. QED
    BY <2>1, <2>2
<1>. QED
  BY <1>2, <1>3, <1>4, <1>5, Sh2Aside

LEMMA MainRereadStep ==
  ASSUME MailboxInv, NEW p \in SH2, MainReread(p)
  PROVE  MailboxInv'
<1> DEFINE Go(v) == IF sh[p].cmd.op # "none" /\ v = sh[p].cmd /\ sh[p].cmd.slave = Slave[p]
                    THEN "exec" ELSE "top"
<1>1. PICK v \in Reread(p) : sh' = [sh EXCEPT ![p].at = Go(v), ![p].step = 1]
  BY DEF MainReread
<1>2. /\ sh[p].at = "again" /\ torn' = torn \ {p} /\ UNCHANGED <<cmd, err, reg, cell, irq, ran, m68k, hin>>
      /\ Shapes
  BY DEF MainReread, MainOnly, KeepSH2, m68kHas, MailboxInv
<1>3. /\ sh' \in [SH2 -> Sh2] /\ sh'[p].at = Go(v) /\ sh'[p].step = 1 /\ sh'[p].cmd = sh[p].cmd
      /\ sh'[p].x = sh[p].x /\ \A q \in SH2 \ {p} : sh'[q] = sh[q]
  <2>1. /\ sh \in [SH2 -> Sh2] /\ Go(v) \in {"exec", "top"}
    BY <1>2 DEF Shapes
  <2> HIDE DEF Go
  <2>2. sh[p] \in Sh2
    BY <2>1
  <2>3. [sh[p] EXCEPT !.at = Go(v), !.step = 1] \in Sh2
    BY <2>1, <2>2 DEF Sh2
  <2>4. sh' = [sh EXCEPT ![p] = [sh[p] EXCEPT !.at = Go(v), !.step = 1]]
    BY <1>1, <2>1
  <2>5. sh' \in [SH2 -> Sh2] /\ \A q \in SH2 \ {p} : sh'[q] = sh[q]
    BY <2>1, <2>3, <2>4
  <2>6. sh'[p] = [sh[p] EXCEPT !.at = Go(v), !.step = 1]
    BY <2>1, <2>4
  <2>7. QED
    BY <2>2, <2>5, <2>6 DEF Sh2
<1>4. Kept /\ Shapes'
  BY <1>2, <1>3 DEF Kept, Shapes
<1>5. ASSUME Go(v) = "exec" PROVE Executing(p)'
  <2>1. sh[p].cmd.op # "none" /\ v = sh[p].cmd /\ sh[p].cmd.slave = Slave[p]
    BY <1>5
  <2>2. sh[p].cmd = cmd
    BY <1>2, <2>1 DEF Reread, MailboxInv, Sh2Inv, Reads
  <2>3. cmd = Word(Call) /\ p = For
    BY <2>1, <2>2, CmdValues, WordSides, CallShape, EmptyShape DEF MailboxInv
  <2>4. m68k.at = "poll" /\ Untouched
    BY <1>2, <2>3, CmdValues, WordSides, CallShape DEF MailboxInv, M68kInv
  <2>5. Call.op \in Ops /\ 1 \in Steps(Call.op)
    <3>1. Call.op \in Ops /\ Call.op \in {"echo", "read", "write", "getsr", "setsr", "bad"}
      BY WordSides, CallShape DEF MailboxInv, Ops
    <3>2. Len(Program[Call.op]) \in 3..6
      BY <3>1, ProgramLength
    <3>3. 1 \in 1..Len(Program[Call.op])
      BY <3>2
    <3>4. 1 \in Steps(Call.op)
      BY <3>3 DEF Steps
    <3>. QED
      BY <3>1, <3>4
  <2>6. Loading(sh[p].x, 1)
    BY <2>4, <2>5 DEF Untouched, Loading, Steps
  <2>7. Executing(p)' <=> /\ m68k.at = "poll" /\ cmd = Word(Call) /\ p = For /\ sh[p].cmd = cmd
                          /\ 1 \in Steps(Call.op)
                          /\ Loading(sh[p].x, 1) \/ Storing(sh[p].x, 1)
    BY <1>2, <1>3 DEF Executing, Loading, Storing, Call, For, ArgsBefore, Ran, Holds, Effected, SrOf
  <2>. QED
    BY <2>2, <2>3, <2>4, <2>5, <2>6, <2>7
<1>. QED
  BY <1>2, <1>3, <1>4, <1>5, Sh2Aside

\* Interrupts only come, are taken and end.
LEMMA InterruptStep ==
  ASSUME MailboxInv, Vsync \/ VblankEnd \/ (\E p \in SH2 : HandleVint(p)) \/ UNCHANGED vars
  PROVE  MailboxInv'
<1>1. UNCHANGED <<cmd, err, reg, torn, m68k, hin, sh, exc, cell, ran>>
  BY DEF Vsync, VblankEnd, HandleVint, KeepSH2, m68kHas, vars, shHas
<1>2. /\ irq' \in [SH2 -> [pend : BOOLEAN, unmasked : BOOLEAN, enabled : BOOLEAN]]
      /\ \A q \in SH2 : irq'[q].unmasked = irq[q].unmasked /\ irq'[q].enabled = irq[q].enabled
  <2>1. irq \in [SH2 -> [pend : BOOLEAN, unmasked : BOOLEAN, enabled : BOOLEAN]]
    BY DEF MailboxInv, Shapes
  <2>2. CASE Vsync
    BY <2>1, <2>2 DEF Vsync
  <2>3. CASE VblankEnd
    BY <2>1, <2>3 DEF VblankEnd
  <2>4. ASSUME NEW p \in SH2, HandleVint(p)
        PROVE  /\ irq' \in [SH2 -> [pend : BOOLEAN, unmasked : BOOLEAN, enabled : BOOLEAN]]
               /\ \A q \in SH2 : irq'[q].unmasked = irq[q].unmasked /\ irq'[q].enabled = irq[q].enabled
    BY <2>1, <2>4 DEF HandleVint
  <2>5. CASE UNCHANGED vars
    BY <2>1, <2>5 DEF vars, shHas
  <2>. QED
    BY <2>2, <2>3, <2>4, <2>5
<1>3. Kept /\ Shapes'
  BY <1>1, <1>2 DEF Kept, MailboxInv, Shapes
<1>. QED
  BY <1>1, <1>3, Sh2Aside, Sides

-----------------------------------------------------------------------------
(* A command is carried out.                                               *)

\* What holds when p makes an access of the command's program.
LEMMA AtAccess ==
  ASSUME MailboxInv, NEW p \in SH2, NEW kind, AtStep(p, kind)
  PROVE  /\ sh[p].at = "exec" /\ Executing(p) /\ p = For /\ sh[p].cmd.op = Call.op
         /\ m68k.at = "poll" /\ Call \in Calls /\ Call.op \in Ops
         /\ sh[p].step \in Steps(Call.op) /\ kind = Kind(Call.op, sh[p].step)
         /\ Offset(p) = Off(Call.op, sh[p].step) /\ sh[p] \in Sh2
         /\ Slave[p] = Call.slave
<1>1. sh[p].at = "exec" /\ Executing(p)
  BY DEF AtStep, MailboxInv, Sh2Inv
<1>2. Call \in Calls /\ Call.op \in Ops /\ sh[p].cmd.op = Call.op /\ p = For
  BY <1>1, WordSides, CallShape DEF Executing, MailboxInv
<1>. QED
  BY <1>1, <1>2, WordSides DEF Executing, AtStep, Kind, Off, Offset, MailboxInv, Shapes

\* On to the next access, with new registers.
LEMMA Advances ==
  ASSUME MailboxInv, NEW p \in SH2, NEW x \in [{2} \cup Offsets -> Word16], sh[p].at = "exec",
         Executing(p), Kind(Call.op, sh[p].step) # "clear", sh' = Advance(p, x)
  PROVE  /\ sh' \in [SH2 -> Sh2] /\ sh'[p].at = "exec" /\ sh'[p].cmd = sh[p].cmd
         /\ sh'[p].step = sh[p].step + 1 /\ sh'[p].x = x /\ sh[p].step + 1 \in Steps(Call.op)
         /\ \A q \in SH2 \ {p} : sh'[q] = sh[q]
<1>1. /\ Call.op \in Ops /\ sh[p].cmd.op = Call.op /\ sh[p].step \in Steps(Call.op)
      /\ sh \in [SH2 -> Sh2]
  BY WordSides, CallShape DEF Executing, MailboxInv, Shapes
<1>2. sh[p].step # Len(Program[Call.op]) /\ Len(Program[Call.op]) \in Nat
  BY <1>1, ProgramShape, ProgramLength
<1>3. sh[p].step + 1 \in Steps(Call.op) /\ sh[p].step \in Nat
  BY <1>1, <1>2 DEF Steps
<1>4. sh' = [sh EXCEPT ![p].step = @ + 1, ![p].x = x]
  BY <1>1, <1>2 DEF Advance
<1>5. sh' = [sh EXCEPT ![p] = [sh[p] EXCEPT !.step = sh[p].step + 1, !.x = x]]
  BY <1>1, <1>4
<1>6. sh[p] \in Sh2
  BY <1>1
<1>7. PICK k, old, r : k = sh[p].step + 1 /\ old = sh[p] /\ r = [old EXCEPT !.step = k, !.x = x]
  OBVIOUS
<1>8. r \in Sh2 /\ r.at = old.at /\ r.cmd = old.cmd /\ r.step = k /\ r.x = x
  <2>1. k \in Nat /\ old \in Sh2
    BY <1>3, <1>6, <1>7
  <2>. QED
    BY <1>7, <2>1 DEF Sh2
<1>9. /\ r \in Sh2 /\ r.at = "exec" /\ r.cmd = sh[p].cmd
      /\ r.step = sh[p].step + 1 /\ r.x = x
  BY <1>7, <1>8
<1>10. sh' = [sh EXCEPT ![p] = r]
  BY <1>5, <1>7
<1>. QED
  BY <1>1, <1>3, <1>9, <1>10

\* While one SH2 executes the command, the other does nothing with it.
LEMMA OtherSide ==
  ASSUME MailboxInv, NEW p \in SH2, Executing(p), NEW q \in SH2 \ {p}
  PROVE  /\ sh[q].at # "exec"
         /\ sh[q].at = "again" => sh[q].torn \/ sh[q].cmd.op = "none" \/ sh[q].cmd.slave # Slave[q]
<1>1. p = For /\ q # For /\ cmd = Word(Call)
  BY DEF Executing
<1>2. cmd.slave # Slave[q]
  BY <1>1, WordSides, CallShape DEF MailboxInv
<1>. QED
  BY <1>1, <1>2 DEF MailboxInv, Sh2Inv, Executing, Reads

\* An access that leaves the command executing.
LEMMA Progresses ==
  ASSUME MailboxInv, NEW p \in SH2, NEW x \in [{2} \cup Offsets -> Word16], sh[p].at = "exec",
         Executing(p), Kind(Call.op, sh[p].step) # "clear", sh' = Advance(p, x),
         NEW n, n = sh[p].step, UNCHANGED <<cmd, torn, m68k, hin>>, Shapes',
         \A q \in SH2 : irq'[q].enabled = irq[q].enabled \/ Call.op = "setsr",
         (Loading(x, n + 1) \/ Storing(x, n + 1))'
  PROVE  MailboxInv'
<1>1. /\ sh'[p].at = "exec" /\ sh'[p].cmd = sh[p].cmd /\ sh'[p].x = x
      /\ sh'[p].step = sh[p].step + 1 /\ sh[p].step + 1 \in Steps(Call.op)
      /\ \A q \in SH2 \ {p} : sh'[q] = sh[q]
  BY Advances
<1>2. /\ p = For /\ Call' = Call /\ For' = For /\ m68k.at = "poll" /\ cmd = Word(Call) /\ For \in SH2
      /\ sh[p].cmd = cmd
  BY WordSides DEF Executing, Call, For, MailboxInv
<1>3. Executing(p)'
  BY <1>1, <1>2 DEF Executing
<1>4. Sh2Inv'
  BY <1>1, <1>3, OtherSide DEF Sh2Inv, Reads
<1>5. M68kInv'
  BY <1>1, <1>2 DEF M68kInv
<1>6. VintInv' /\ TornInv'
  BY <1>2 DEF MailboxInv, VintInv, TornInv
<1>. QED
  BY <1>4, <1>5, <1>6 DEF MailboxInv

LEMMA LoadStep ==
  ASSUME MailboxInv, NEW p \in SH2, CmdLoad(p)
  PROVE  MailboxInv'
<1>0. PICK n, off, value, x :
        /\ n = sh[p].step /\ off = Off(Call.op, n)
        /\ value = IF off = 2 THEN err ELSE reg[off]
        /\ x = [sh[p].x EXCEPT ![off] = value]
  OBVIOUS
<1>1. /\ sh[p].at = "exec" /\ Executing(p) /\ Call \in Calls /\ Call.op \in Ops /\ n \in Steps(Call.op)
      /\ Kind(Call.op, n) = "ld" /\ Offset(p) = off /\ sh[p] \in Sh2
  BY <1>0, AtAccess DEF CmdLoad
<1>2. /\ sh' = Advance(p, x)
      /\ UNCHANGED <<cmd, err, reg, torn, cell, irq, ran, m68k, hin>>
  BY <1>0, <1>1 DEF CmdLoad, KeepSH2, m68kHas
<1>3. Loading(sh[p].x, n)
  <2>1. ~Storing(sh[p].x, n)
    BY <1>1 DEF Storing, Steps
  <2>. QED
    BY <1>0, <1>1, <2>1 DEF Executing
<1>4. /\ off \in {2} \cup Offsets
      /\ value = IF off = 2 THEN 0 ELSE ArgWords(Call)[off \div 2 - 1]
      /\ value \in Word16
  <2>1. off \in {2} \cup Offsets
    BY <1>0, <1>1, ProgramShape
  <2>2. CASE off = 2
    BY <1>0, <1>3, <2>2 DEF Loading, Word16
  <2>3. CASE off # 2
    <3>1. off \in {4, 6, 8, 10}
      BY <2>1, <2>3 DEF Offsets
    <3>2. off \div 2 - 1 \in 1..4 /\ 2 + 2 * (off \div 2 - 1) = off
      BY <3>1
    <3>3. reg[off] = ArgWords(Call)[off \div 2 - 1]
      BY <1>3, <3>2 DEF Loading, ArgsBefore
    <3>. QED
      BY <1>0, <1>1, <2>1, <2>3, <3>2, <3>3, ArgWordsAre
  <2>. QED
    BY <2>1, <2>2, <2>3
<1>5. x \in [{2} \cup Offsets -> Word16]
  BY <1>0, <1>1, <1>4 DEF Sh2
<1>6. Loading(x, n + 1)
  <2>1. ASSUME NEW i \in Steps(Call.op), i < n + 1
        PROVE  /\ Kind(Call.op, i) = "ld"
               /\ x[Off(Call.op, i)] = IF Off(Call.op, i) = 2 THEN 0
                                       ELSE ArgWords(Call)[Off(Call.op, i) \div 2 - 1]
    <3>0. sh[p].x \in [{2} \cup Offsets -> Word16]
      BY <1>1 DEF Sh2
    <3>1. CASE i = n
      BY <1>0, <1>1, <1>4, <3>0, <3>1
    <3>2. CASE i # n
      <4>1. i < n
        BY <1>1, <2>1, <3>2 DEF Steps
      <4>2. Off(Call.op, i) \in {2} \cup Offsets
        BY <1>1, <1>3, <4>1, ProgramShape DEF Loading
      <4>. QED
        BY <1>0, <1>3, <1>4, <3>0, <4>1, <4>2 DEF Loading
    <3>. QED
      BY <3>1, <3>2
  <2>. QED
    BY <1>3, <2>1 DEF Loading
<1>7. Loading(x, n + 1)'
  BY <1>2, <1>6 DEF Loading, ArgsBefore, Call
<1>8. Shapes'
  BY <1>0, <1>1, <1>2, <1>5, Advances DEF MailboxInv, Shapes
<1>. QED
  BY <1>0, <1>1, <1>2, <1>5, <1>7, <1>8, Progresses

\* What has been loaded when the command is carried out: its arguments.
LEMMA Loaded ==
  ASSUME Call \in Calls, NEW x \in [{2} \cup Offsets -> Word16], NEW n \in Steps(Call.op),
         Kind(Call.op, n) = "do", Loading(x, n)
  PROVE  /\ Call.op = "echo" => x[4] = Call.a0[1]
         /\ Call.op \in {"read", "write"} => <<x[4], x[6]>> = Call.a0
         /\ Call.op = "write" => <<x[8], x[10]>> = Call.a1
         /\ Call.op = "setsr" => x[6] = Call.a0[2]
         /\ Call.op = "bad" => x[2] = 0
<1>1. /\ Call.op \in Ops
      /\ ArgWords(Call)[1] = Call.a0[1] /\ ArgWords(Call)[2] = Call.a0[2]
      /\ ArgWords(Call)[3] = Call.a1[1] /\ ArgWords(Call)[4] = Call.a1[2]
      /\ Call.a0 = <<Call.a0[1], Call.a0[2]>> /\ Call.a1 = <<Call.a1[1], Call.a1[2]>>
  BY CallShape, ArgWordsAre, PairWords
<1>2. ASSUME NEW i \in Steps(Call.op), i < n
      PROVE  x[Off(Call.op, i)] = IF Off(Call.op, i) = 2 THEN 0 ELSE ArgWords(Call)[Off(Call.op, i) \div 2 - 1]
  BY <1>2 DEF Loading
<1> USE DEF Kind, Off, Steps, Program, Ld, St, Do, Clear
<1>3. CASE Call.op = "echo"
  <2>1. n = 2
    BY <1>3
  <2>2. x[4] = ArgWords(Call)[1]
    BY <1>2, <1>3, <2>1
  <2>. QED
    BY <1>1, <1>3, <2>2
<1>4. CASE Call.op = "read"
  <2>1. n = 3
    BY <1>4
  <2>2. x[4] = ArgWords(Call)[1] /\ x[6] = ArgWords(Call)[2]
    BY <1>2, <1>4, <2>1
  <2>. QED
    BY <1>1, <1>4, <2>2
<1>5. CASE Call.op = "write"
  <2>1. n = 5
    BY <1>5
  <2>2. /\ x[4] = ArgWords(Call)[1] /\ x[6] = ArgWords(Call)[2]
        /\ x[8] = ArgWords(Call)[3] /\ x[10] = ArgWords(Call)[4]
    BY <1>2, <1>5, <2>1
  <2>. QED
    BY <1>1, <1>5, <2>2
<1>6. CASE Call.op = "setsr"
  <2>1. n = 3
    BY <1>6
  <2>2. x[6] = ArgWords(Call)[2]
    BY <1>2, <1>6, <2>1
  <2>. QED
    BY <1>1, <1>6, <2>2
<1>7. CASE Call.op = "bad"
  <2>1. n = 2
    BY <1>7
  <2>2. x[2] = 0
    BY <1>2, <1>7, <2>1
  <2>. QED
    BY <1>7, <2>2
<1>. QED
  BY <1>1, <1>3, <1>4, <1>5, <1>6, <1>7 DEF Ops

\* What has been stored when the command is cleared: its answer.
LEMMA Stored ==
  ASSUME Call \in Calls, For \in SH2, NEW x \in [{2} \cup Offsets -> Word16], NEW n \in Steps(Call.op),
         Kind(Call.op, n) = "clear", Storing(x, n)
  PROVE  Finished /\ err = Counted
<1>1. Call.op \in Ops /\ Holds(x) /\ Ran /\ (Call.op # "bad" => err = 0)
  BY CallShape DEF Storing
<1>2. ASSUME NEW i \in Steps(Call.op), i < n, Kind(Call.op, i) = "st"
      PROVE  IF Off(Call.op, i) = 2 THEN err = 1 ELSE reg[Off(Call.op, i)] = x[Off(Call.op, i)]
  BY <1>2 DEF Storing
<1>3. /\ Call.op = "echo" => reg[6] = x[6]
      /\ Call.op \in {"read", "getsr"} => reg[4] = x[4] /\ reg[6] = x[6]
      /\ Call.op = "bad" => err = 1
  <2> USE DEF Kind, Off, Steps, Program, Ld, St, Do, Clear
  <2>1. CASE Call.op = "echo"
    <3>1. n = 4
      BY <2>1
    <3>. QED
      BY <1>2, <2>1, <3>1
  <2>2. CASE Call.op = "read"
    <3>1. n = 6
      BY <2>2
    <3>. QED
      BY <1>2, <2>2, <3>1
  <2>3. CASE Call.op = "getsr"
    <3>1. n = 4
      BY <2>3
    <3>. QED
      BY <1>2, <2>3, <3>1
  <2>4. CASE Call.op = "bad"
    <3>1. n = 4
      BY <2>4
    <3>. QED
      BY <1>2, <2>4, <3>1
  <2>. QED
    BY <2>1, <2>2, <2>3, <2>4
<1>4. Answered(Call)
  <2>1. Call.op = "echo" => reg[6] = Echo(Call)
    BY <1>1, <1>3 DEF Holds
  <2>2. Call.op = "read" /\ Call.a0 = Cell => <<reg[4], reg[6]>> = cell
    BY <1>1, <1>3 DEF Holds
  <2>3. Call.op = "getsr" => <<reg[4], reg[6]>> = SrOf(For)
    BY <1>1, <1>3 DEF Holds
  <2>4. Effected /\ For = Target(Call)
    BY <1>1 DEF Holds, For, Call
  <2>. QED
    BY <2>1, <2>2, <2>3, <2>4, Zenon DEF Effected, Answered
<1>. QED
  BY <1>1, <1>3, <1>4 DEF Finished, Counted

LEMMA StoreStep ==
  ASSUME MailboxInv, NEW p \in SH2, CmdStore(p)
  PROVE  MailboxInv'
<1>0. PICK n, off, x : n = sh[p].step /\ off = Off(Call.op, n) /\ x = sh[p].x
  OBVIOUS
<1>1. /\ sh[p].at = "exec" /\ Executing(p) /\ p = For /\ Call \in Calls /\ Call.op \in Ops
      /\ n \in Steps(Call.op) /\ Kind(Call.op, n) = "st" /\ Offset(p) = off /\ sh[p] \in Sh2
  BY <1>0, AtAccess DEF CmdStore
<1>2. /\ sh' = Advance(p, x)
      /\ IF off = 2 THEN err' = x[2] /\ UNCHANGED reg
         ELSE reg' = [reg EXCEPT ![off] = x[off]] /\ UNCHANGED err
      /\ UNCHANGED <<cmd, torn, cell, irq, ran, m68k, hin>>
  BY <1>0, <1>1 DEF CmdStore, KeepSH2, m68kHas
<1>3. Storing(x, n)
  <2>1. ~Loading(x, n)
    <3>1. PICK j \in Steps(Call.op) : j < n /\ Kind(Call.op, j) = "do"
      BY <1>1, ProgramShape
    <3>. QED
      BY <3>1 DEF Loading
  <2>. QED
    BY <1>0, <1>1, <2>1 DEF Executing
<1>4. x \in [{2} \cup Offsets -> Word16] /\ off \in {2} \cup Offsets /\ (off = 2 <=> Call.op = "bad")
  BY <1>0, <1>1, ProgramShape DEF Sh2
<1>5. reg \in [Offsets -> Word16]
  BY DEF MailboxInv, Shapes
<1>6. IF off = 2 THEN err' = 1 /\ reg' = reg
      ELSE err' = err /\ reg'[off] = x[off] /\ \A o \in Offsets : o # off => reg'[o] = reg[o]
  BY <1>2, <1>3, <1>4, <1>5 DEF Storing, Holds
<1>7. Storing(x, n + 1)'
  <2>1. Ran' /\ Holds(x)'
    BY <1>2, <1>3 DEF Storing, Ran, Holds, Effected, Call, For, SrOf
  <2>2. \A i \in Steps(Call.op) : i >= n + 1 => Kind(Call.op, i) \in {"st", "clear"}
    BY <1>1, <1>3 DEF Storing, Steps
  <2>3. ASSUME NEW i \in Steps(Call.op), i < n + 1, Kind(Call.op, i) = "st"
        PROVE  IF Off(Call.op, i) = 2 THEN err' = 1 ELSE reg'[Off(Call.op, i)] = x[Off(Call.op, i)]
    <3>1. Off(Call.op, i) \in {2} \cup Offsets /\ (Off(Call.op, i) = 2 <=> Call.op = "bad")
      BY <1>1, <2>3, ProgramShape
    <3>2. CASE i = n
      BY <1>0, <1>6, <3>2
    <3>3. CASE i # n
      <4>1. i < n
        BY <1>1, <2>3, <3>3 DEF Steps
      <4>2. IF Off(Call.op, i) = 2 THEN err = 1 ELSE reg[Off(Call.op, i)] = x[Off(Call.op, i)]
        BY <1>3, <2>3, <4>1 DEF Storing
      <4>. QED
        BY <1>4, <1>6, <3>1, <4>2
    <3>. QED
      BY <3>2, <3>3
  <2>4. Call.op # "bad" => err' = 0
    BY <1>3, <1>4, <1>6 DEF Storing
  <2>5. Call' = Call
    BY <1>2 DEF Call
  <2>. QED
    BY <2>1, <2>2, <2>3, <2>4, <2>5 DEF Storing
<1>8. Shapes'
  <2>1. sh' \in [SH2 -> Sh2]
    BY <1>0, <1>1, <1>2, <1>4, Advances
  <2>2. reg' \in [Offsets -> Word16] /\ err' \in Nat
    BY <1>2, <1>4, <1>5, <1>6 DEF MailboxInv, Shapes
  <2>. QED
    BY <1>2, <2>1, <2>2 DEF MailboxInv, Shapes
<1>. QED
  BY <1>0, <1>1, <1>2, <1>4, <1>7, <1>8, Progresses

LEMMA DoStep ==
  ASSUME MailboxInv, NEW p \in SH2, CmdDo(p)
  PROVE  MailboxInv'
<1>0. PICK n, x, y, a :
        n = sh[p].step /\ x = sh[p].x /\ y = Carried(p) /\ a = <<x[4], x[6]>>
  OBVIOUS
<1> DEFINE op == Call.op
           fault == op \in {"read", "write"} /\ a \notin {Cell, MaskReg}
<1>1. /\ sh[p].at = "exec" /\ Executing(p) /\ p = For /\ Call \in Calls /\ op \in Ops /\ sh[p].cmd.op = op
      /\ n \in Steps(op) /\ Kind(op, n) = "do" /\ sh[p] \in Sh2 /\ Slave[p] = Call.slave
      /\ m68k.at = "poll" /\ cmd = Word(Call)
  BY <1>0, AtAccess DEF CmdDo, Executing
<1>2. /\ sh' = IF fault THEN [sh EXCEPT ![p].at = "dead"] ELSE Advance(p, y)
      /\ cell' = IF op = "write" /\ a = Cell THEN <<x[8], x[10]>> ELSE cell
      /\ irq' = [irq EXCEPT
           ![p].unmasked = IF op = "write" /\ a = MaskReg THEN x[10] = 8 ELSE @,
           ![p].enabled = IF op = "setsr" THEN x[6] < 240 ELSE @]
      /\ ran' = IF Len(ran) < 2 THEN Append(ran, [by |-> p, op |-> op, x |-> x]) ELSE ran
      /\ UNCHANGED <<cmd, err, reg, torn, m68k, hin>>
  BY <1>0, <1>1 DEF CmdDo, KeepSH2, m68kHas
<1>3. Loading(x, n) /\ ran = <<>> /\ err = 0
  <2>1. ~Storing(x, n)
    BY <1>1 DEF Storing, Steps
  <2>. QED
    BY <1>0, <1>1, <2>1 DEF Executing, Loading
<1>4. x \in [{2} \cup Offsets -> Word16] /\ irq[p].enabled \in BOOLEAN /\ cell \in Pair
  BY <1>0, <1>1 DEF Sh2, MailboxInv, Shapes
<1>5. /\ op = "echo" => x[4] = Call.a0[1]
      /\ op \in {"read", "write"} => a = Call.a0
      /\ op = "write" => <<x[8], x[10]>> = Call.a1
      /\ op = "setsr" => x[6] = Call.a0[2]
      /\ op = "bad" => x[2] = 0
  BY <1>0, <1>1, <1>3, <1>4, Loaded
<1>6. ran' = <<[by |-> p, op |-> op, x |-> x]>>
  BY <1>2, <1>3
<1>7. Call' = Call /\ For' = For
  BY <1>2 DEF Call, For
<1>8. Ran'
  <2>1. ASSUME NEW i \in Steps(op), Kind(op, i) = "ld", Off(op, i) \in Offsets
        PROVE  x[Off(op, i)] = ArgWords(Call)[Off(op, i) \div 2 - 1]
    <3>1. i < n
      BY <1>1, <2>1, ProgramShape DEF Steps
    <3>2. Off(op, i) # 2
      BY <2>1 DEF Offsets
    <3>. QED
      BY <1>3, <3>1, <3>2 DEF Loading
  <2>2. Asked([by |-> p, op |-> op, x |-> x], Call)
    BY <1>1, <2>1, ProgramDomain DEF Asked, For, Call, Kind, Off
  <2>. QED
    BY <1>1, <1>6, <1>7, <2>2 DEF Ran
<1>9. PICK u, e : /\ u = IF op = "write" /\ a = MaskReg THEN x[10] = 8 ELSE irq[p].unmasked
                  /\ e = IF op = "setsr" THEN x[6] < 240 ELSE irq[p].enabled
  OBVIOUS
<1>10. /\ irq' \in [SH2 -> [pend : BOOLEAN, unmasked : BOOLEAN, enabled : BOOLEAN]]
       /\ irq'[p].unmasked = u /\ irq'[p].enabled = e
       /\ \A q \in SH2 \ {p} : irq'[q] = irq[q]
  <2>1. irq \in [SH2 -> [pend : BOOLEAN, unmasked : BOOLEAN, enabled : BOOLEAN]]
    BY DEF MailboxInv, Shapes
  <2>2. irq' = [irq EXCEPT ![p].unmasked = u, ![p].enabled = e]
    BY <1>2, <1>9, Zenon
  <2>3. u \in BOOLEAN /\ e \in BOOLEAN
    <3>1. irq[p].unmasked \in BOOLEAN /\ irq[p].enabled \in BOOLEAN
      BY <2>1
    <3>2. (x[10] = 8) \in BOOLEAN /\ (x[6] < 240) \in BOOLEAN
      OBVIOUS
    <3>. QED
      BY <1>9, <3>1, <3>2, Zenon
  <2>. QED
    BY <2>1, <2>2, <2>3
<1>11. CASE fault
  <2>1. /\ sh' = [sh EXCEPT ![p].at = "dead"] /\ cell' = cell
        /\ u = irq[p].unmasked /\ e = irq[p].enabled
    BY <1>2, <1>9, <1>11
  <2>2. sh' \in [SH2 -> Sh2] /\ sh'[p].at = "dead" /\ \A q \in SH2 \ {p} : sh'[q] = sh[q]
    BY <2>1 DEF MailboxInv, Shapes, Sh2
  <2>3. Shapes'
    BY <1>2, <1>10, <2>1, <2>2 DEF MailboxInv, Shapes
  <2>4. Lost' /\ cmd' = Word(Call)' /\ sh'[For'].at = "dead"
    BY <1>1, <1>2, <1>3, <1>7, <1>8, <1>11, <2>2 DEF Lost
  <2>5. M68kInv'
    BY <1>1, <1>2, <2>4 DEF M68kInv
  <2>6. Sh2Inv'
    BY <1>1, <2>2, OtherSide DEF Sh2Inv, Reads
  <2>7. VintInv' /\ TornInv'
    BY <1>1, <1>2, <1>7, <1>10, <2>1 DEF MailboxInv, VintInv, TornInv
  <2>. QED
    BY <2>3, <2>5, <2>6, <2>7 DEF MailboxInv
<1>12. CASE ~fault
  <2>1. sh' = Advance(p, y) /\ Kind(op, n) # "clear"
    BY <1>1, <1>2, <1>12
  <2>2. y \in [{2} \cup Offsets -> Word16]
    <3>1. CASE op = "echo"
      <4>1. Flip(x[4], p) \in Word16
        <5>1. x[4] \in Nat /\ Slave[p] \in Nat
          <6>1. x[4] \in Word16 /\ Slave[p] \in {0, 1}
            BY <1>1, <1>4, Sides DEF Offsets
          <6>. QED
            BY <6>1, WordsAreNat
        <5>2. x[4] + 32768 * Slave[p] \in Nat
          BY <5>1
        <5>. QED
          BY <5>2, Wraps DEF Flip
      <4>. QED
        BY <1>0, <1>1, <1>4, <3>1, <4>1 DEF Carried, Offsets
    <3>2. ASSUME NEW w \in Pair PROVE Put2(x, w) \in [{2} \cup Offsets -> Word16]
      BY <1>4, <3>2, PairWords DEF Put2, Offsets
    <3>3. CASE op = "read"
      <4>1. <<0, IF irq[p].unmasked THEN 8 ELSE 0>> \in Pair
        <5>1. (IF irq[p].unmasked THEN 8 ELSE 0) \in 0..255
          OBVIOUS
        <5>. QED
          BY <5>1, SmallPairs
      <4>. QED
        BY <1>0, <1>1, <1>4, <3>2, <3>3, <4>1 DEF Carried
    <3>4. CASE op = "getsr"
      <4>1. SrOf(p) \in Pair
        BY SmallPairs DEF SrOf
      <4>. QED
        BY <1>0, <1>1, <3>2, <3>4, <4>1 DEF Carried
    <3>5. CASE op = "bad"
      <4>1. (x[2] + 1) % 256 \in Word16
        <5>1. x[2] + 1 \in Nat
          <6>1. x[2] \in Word16
            BY <1>4
          <6>. QED
            BY <6>1, WordsAreNat
        <5>. QED
          BY <5>1, Wraps
      <4>. QED
        BY <1>0, <1>1, <1>4, <3>5, <4>1 DEF Carried
    <3>6. CASE op \notin {"echo", "read", "getsr", "bad"}
      BY <1>0, <1>1, <1>4, <3>6 DEF Carried
    <3>. QED
      BY <3>1, <3>3, <3>4, <3>5, <3>6
  <2>3. cell' \in Pair
    <3>1. <<x[8], x[10]>> \in Pair
      BY <1>4 DEF Pair, Offsets
    <3>. QED
      BY <1>2, <1>4, <3>1
  <2>4. Shapes'
    BY <1>0, <1>1, <1>2, <1>10, <2>1, <2>2, <2>3, Advances DEF MailboxInv, Shapes
  <2>5. Effected'
    <3>1. op = "write" /\ Call.a0 = Cell => cell' = Call.a1
      BY <1>2, <1>5
    <3>2. op = "write" => x[10] = Call.a1[2]
      BY <1>1, <1>5, CallShape, PairWords
    <3>3. op = "write" /\ Call.a0 = MaskReg => u = (Call.a1[2] = 8)
      BY <1>5, <1>9, <3>2, Zenon
    <3>4. op = "setsr" => e = (Call.a0[2] < 240)
      BY <1>5, <1>9, Zenon
    <3>5. /\ op = "write" /\ Call.a0 = MaskReg => irq'[For].unmasked = (Call.a1[2] = 8)
          /\ op = "setsr" => irq'[For].enabled = (Call.a0[2] < 240)
      BY <1>1, <1>10, <3>3, <3>4, Zenon
    <3>. QED
      BY <1>7, <3>1, <3>5, Zenon DEF Effected
  <2>6. Holds(y)'
    <3>1. op = "echo" => y[6] = Echo(Call)
      BY <1>0, <1>1, <1>4, <1>5 DEF Carried, Flip, Echo, Offsets
    <3>2. ASSUME NEW w \in Pair PROVE <<Put2(x, w)[4], Put2(x, w)[6]>> = w
      BY <1>4, <3>2, PairWords DEF Put2, Offsets
    <3>3. op = "read" /\ Call.a0 = Cell => <<y[4], y[6]>> = cell'
      BY <1>0, <1>1, <1>2, <1>4, <1>5, <3>2 DEF Carried
    <3>4. op = "getsr" => <<y[4], y[6]>> = SrOf(p)'
      <4>1. SrOf(p) \in Pair
        BY SmallPairs DEF SrOf
      <4>2. op = "getsr" => SrOf(p)' = SrOf(p)
        BY <1>9, <1>10 DEF SrOf
      <4>. QED
        BY <1>0, <1>1, <3>2, <4>1, <4>2 DEF Carried
    <3>5. op = "bad" => y[2] = 1
      BY <1>0, <1>1, <1>4, <1>5 DEF Carried, Offsets
    <3>. QED
      BY <1>1, <1>7, <2>5, <3>1, <3>3, <3>4, <3>5 DEF Holds, Echo
  <2>7. Storing(y, n + 1)'
    <3>1. ASSUME NEW i \in Steps(op) PROVE /\ i >= n + 1 => Kind(op, i) \in {"st", "clear"}
                                           /\ i < n + 1 => Kind(op, i) # "st"
      BY <1>1, ProgramShape DEF Steps
    <3>. QED
      BY <1>2, <1>3, <1>7, <1>8, <2>6, <3>1 DEF Storing
  <2>8. \A q \in SH2 : irq'[q].enabled = irq[q].enabled \/ Call.op = "setsr"
    <3>1. op # "setsr" => e = irq[p].enabled
      BY <1>9
    <3>. QED
      BY <1>10, <3>1
  <2>. QED
    BY <1>0, <1>1, <1>2, <2>1, <2>2, <2>4, <2>7, <2>8, Progresses
<1>. QED
  BY <1>11, <1>12

LEMMA ClearCmdStep ==
  ASSUME MailboxInv, NEW p \in SH2, CmdClear(p)
  PROVE  MailboxInv'
<1>0. PICK n, x : n = sh[p].step /\ x = sh[p].x
  OBVIOUS
<1>1. /\ sh[p].at = "exec" /\ Executing(p) /\ p = For /\ Call \in Calls /\ Call.op \in Ops
      /\ n \in Steps(Call.op) /\ Kind(Call.op, n) = "clear" /\ sh[p] \in Sh2 /\ m68k.at = "poll"
      /\ sh[p].cmd.op = Call.op
  BY <1>0, AtAccess DEF CmdClear
<1>2. /\ cmd' = Empty /\ torn' = ({"68k"} \cup SH2) \ {p} /\ sh' = Advance(p, x)
      /\ UNCHANGED <<err, reg, cell, irq, ran, m68k, hin>>
  BY <1>0 DEF CmdClear, KeepSH2, m68kHas
<1>3. x \in [{2} \cup Offsets -> Word16]
  BY <1>0, <1>1 DEF Sh2
<1>4. Storing(x, n)
  <2>1. PICK j \in Steps(Call.op) : j < n /\ Kind(Call.op, j) = "do"
    BY <1>1, ProgramShape
  <2>2. ~Loading(x, n)
    BY <2>1 DEF Loading
  <2>. QED
    BY <1>0, <1>1, <2>2 DEF Executing
<1>5. Finished /\ err = Counted
  BY <1>1, <1>3, <1>4, Stored
<1>6. Call' = Call /\ For' = For /\ Finished' /\ err' = Counted'
  BY <1>2, <1>5 DEF Call, For, Finished, Ran, Answered, SrOf, Counted
<1>7. sh' = [sh EXCEPT ![p] = Fresh]
  BY <1>0, <1>1, <1>2, ProgramShape DEF Advance
<1>8. sh' \in [SH2 -> Sh2] /\ sh'[p].at = "top" /\ \A q \in SH2 \ {p} : sh'[q] = sh[q]
  <2>1. 0 \in Word16
    BY DEF Word16
  <2>2. Fresh \in Sh2 /\ Fresh.at = "top"
    BY <2>1, EmptyShape DEF Fresh, Sh2
  <2>. QED
    BY <1>7, <2>2 DEF MailboxInv, Shapes
<1>9. Shapes'
  BY <1>2, <1>8, EmptyShape DEF MailboxInv, Shapes
<1>10. Sh2Inv'
  BY <1>1, <1>8, OtherSide DEF Sh2Inv, Reads
<1>11. M68kInv'
  BY <1>1, <1>2, <1>6 DEF M68kInv
<1>12. VintInv' /\ TornInv'
  BY <1>1, <1>2, <1>6 DEF MailboxInv, VintInv, TornInv
<1>. QED
  BY <1>9, <1>10, <1>11, <1>12 DEF MailboxInv

-----------------------------------------------------------------------------
(* The theorems.                                                           *)

LEMMA MailboxStep == MailboxInv /\ [MailboxNext]_vars => MailboxInv'
<1>1. SUFFICES ASSUME MailboxInv, [MailboxNext]_vars PROVE MailboxInv'
  OBVIOUS
<1>2. ASSUME NEW c \in Calls, X32Cmd(c) PROVE MailboxInv'
  BY <1>1, <1>2, CmdStep
<1>3. CASE X32
  BY <1>1, <1>3, WriteArgStep, WriteCmdStep, PollStep, TimeoutStep, ClearStep, ReadErrStep,
     ClearErrStep, ReturnStep DEF X32
<1>4. CASE SetHandlerInput
  BY <1>1, <1>4, HandlerInputStep
<1>5. ASSUME NEW p \in SH2, Main(p) PROVE MailboxInv'
  <2>1. CASE HandleVint(p)
    BY <1>1, <2>1, InterruptStep
  <2>. QED
    BY <1>1, <1>5, <2>1, MainReadStep, MainRereadStep, LoadStep, StoreStep, DoStep, ClearCmdStep DEF Main
<1>6. CASE Vsync \/ VblankEnd \/ UNCHANGED vars
  BY <1>1, <1>6, InterruptStep
<1>. QED
  BY <1>1, <1>2, <1>3, <1>4, <1>5, <1>6 DEF MailboxNext

\* What x32_cmd is doing tells whether its command has been executed.
LEMMA OnceAsAskedHolds == MailboxInv => OnceAsAsked
<1>1. SUFFICES ASSUME MailboxInv PROVE OnceAsAsked
  OBVIOUS
<1>2. Ran /\ m68k.at \notin {"arg", "cmd"} => OnceAsAsked
  BY DEF Ran, OnceAsAsked, Call
<1>3. CASE m68k.at = "poll"
  <2>1. sh[For].at = "exec" => ran = <<>> \/ Ran
    BY <1>1, WordSides DEF MailboxInv, Sh2Inv, Executing, Loading, Storing
  <2>2. ran = <<>> \/ Ran
    BY <1>1, <1>3, <2>1 DEF MailboxInv, M68kInv, Untouched, Lost, Finished
  <2>. QED
    BY <1>2, <1>3, <2>2 DEF OnceAsAsked
<1>4. CASE m68k.at # "poll"
  <2>1. OnceAsAsked \/ ran = <<>> \/ (Ran /\ m68k.at \notin {"arg", "cmd"})
    BY <1>1, <1>4 DEF MailboxInv, M68kInv, Lost, Finished, Shapes, M68k, X32Points
  <2>. QED
    BY <1>2, <2>1 DEF OnceAsAsked
<1>. QED
  BY <1>3, <1>4

LEMMA ReturnIsTrueHolds == MailboxInv => ReturnIsTrue
<1>1. SUFFICES ASSUME MailboxInv, m68k.at = "ret"
      PROVE  /\ m68k.v = Empty /\ m68k.err = 0 => Len(ran) = 1 /\ Answered(Call)
             /\ m68k.err = IF Call.op = "bad" /\ Len(ran) = 1 THEN 1 ELSE 0
  BY DEF ReturnIsTrue, Call
<1>2. \/ m68k.v # Empty /\ m68k.err = 0 /\ Lost
      \/ Finished /\ m68k.err = Counted
  BY <1>1 DEF MailboxInv, M68kInv
<1>. QED
  BY <1>2 DEF Lost, Finished, Ran, Counted

THEOREM MailboxInvariant == MailboxSpec => []MailboxInv
BY InitMailbox, MailboxStep, PTL DEF MailboxSpec

(***************************************************************************)
(* For any calls of x32_cmd, any words that a read of the command register *)
(* may return while another processor writes it, and any timing: the       *)
(* command is executed at most once before x32_cmd returns, by the SH2 it  *)
(* is for and with the arguments of the call (main_c, do_cmd).             *)
(***************************************************************************)
THEOREM MailboxOnceAsAsked == MailboxSpec => []OnceAsAsked
BY MailboxInvariant, OnceAsAskedHolds, PTL

(***************************************************************************)
(* If x32_cmd prints nothing, the command has been carried out and all of  *)
(* its answer is in the registers; an error is counted for the call whose  *)
(* command is unknown and for no other, also after an SH2 has stopped in   *)
(* its exception handler.                                                  *)
(***************************************************************************)
THEOREM MailboxReturnIsTrue == MailboxSpec => []ReturnIsTrue
BY MailboxInvariant, ReturnIsTrueHolds, PTL
-----------------------------------------------------------------------------
(* The types of what MailboxInv does not look at.                          *)

Bytes == 0..255
Widths ==
  /\ cmd \in CmdWords /\ err \in Bytes /\ hin \in Bytes
  /\ exc \in [SH2 -> BOOLEAN] /\ Len(ran) < 3
  /\ \A p \in SH2 : sh[p].x[2] \in Bytes

LEMMA WidthsOfX32 ==
  ASSUME Shapes, Widths, X32 \/ SetHandlerInput \/ \E c \in Calls : X32Cmd(c)
  PROVE  Widths'
<1>1. UNCHANGED <<sh, exc>>
  BY DEF X32, X32WriteArg, X32WriteCmd, X32Poll, X32Timeout, X32Clear, X32ReadErr, X32ClearErr,
         X32Return, SetHandlerInput, X32Cmd, Keep68k, shHas
<1>2. Len(ran') < 3
  <2>1. \A c : X32Cmd(c) => Len(ran') = 0
    BY DEF X32Cmd
  <2>2. X32 \/ SetHandlerInput => ran' = ran
    BY DEF X32, X32WriteArg, X32WriteCmd, X32Poll, X32Timeout, X32Clear, X32ReadErr, X32ClearErr,
           X32Return, SetHandlerInput, Keep68k, shHas
  <2>. QED
    BY <2>1, <2>2 DEF Widths
<1>3. cmd' \in CmdWords
  <2>1. Word(m68k.call) \in CmdWords /\ Empty \in CmdWords
    BY DEF Shapes, M68k, CmdWords
  <2>2. cmd' \in {cmd, Word(m68k.call), Empty}
    BY DEF X32, X32WriteArg, X32WriteCmd, X32Poll, X32Timeout, X32Clear, X32ReadErr, X32ClearErr,
           X32Return, SetHandlerInput, X32Cmd
  <2>. QED
    BY <2>1, <2>2 DEF Widths
<1>4. err' \in {err, 0} /\ hin' \in {hin, 0, Noack}
  BY DEF X32, X32WriteArg, X32WriteCmd, X32Poll, X32Timeout, X32Clear, X32ReadErr, X32ClearErr,
         X32Return, SetHandlerInput, X32Cmd, Keep68k
<1>. QED
  BY <1>1, <1>2, <1>3, <1>4 DEF Widths, Bytes, Noack

\* An SH2 that goes on to its next access, with x in its registers.
LEMMA AdvanceBytes ==
  ASSUME Shapes, Widths, NEW p \in SH2, NEW x, x[2] \in Bytes, sh' = Advance(p, x)
  PROVE  \A q \in SH2 : sh'[q].x[2] \in Bytes
<1>1. Fresh.x[2] \in Bytes
  BY DEF Fresh, Bytes
<1>2. sh'[p].x \in {Fresh.x, x} /\ \A q \in SH2 : q # p => sh'[q] = sh[q]
  BY DEF Advance, Shapes, Sh2, Fresh
<1>. QED
  BY <1>1, <1>2 DEF Widths

LEMMA WidthsOfCommand ==
  ASSUME Shapes, Widths, NEW p \in SH2, CmdLoad(p) \/ CmdStore(p) \/ CmdDo(p) \/ CmdClear(p)
  PROVE  Widths'
<1>1. sh[p].x \in [{2} \cup Offsets -> Word16] /\ sh[p].x[2] \in Bytes /\ sh[p].x[2] \in Nat
  <2>1. sh[p] \in Sh2
    BY DEF Shapes
  <2>2. sh[p].x \in [{2} \cup Offsets -> Word16]
    BY <2>1 DEF Sh2
  <2>3. sh[p].x[2] \in Bytes
    BY DEF Widths
  <2>4. \A b \in Bytes : b \in Nat
    BY DEF Bytes
  <2>. QED
    BY <2>2, <2>3, <2>4
<1>2. Empty \in CmdWords
  BY DEF CmdWords
<1>3. CASE CmdLoad(p)
  <2> DEFINE x == [sh[p].x EXCEPT ![Offset(p)] = IF Offset(p) = 2 THEN err ELSE reg[Offset(p)]]
  <2>1. x[2] \in Bytes
    BY <1>1 DEF Widths
  <2>2. sh' = Advance(p, x) /\ UNCHANGED <<cmd, err, hin, exc, ran>>
    BY <1>3 DEF CmdLoad, KeepSH2, m68kHas
  <2> HIDE DEF x
  <2>. QED
    BY <2>1, <2>2, AdvanceBytes DEF Widths
<1>4. CASE CmdStore(p)
  <2>1. sh' = Advance(p, sh[p].x) /\ UNCHANGED <<cmd, hin, exc, ran>> /\ err' \in {err, sh[p].x[2]}
    BY <1>4 DEF CmdStore, KeepSH2, m68kHas
  <2>. QED
    BY <1>1, <2>1, AdvanceBytes DEF Widths
<1>5. CASE CmdDo(p)
  <2>1. UNCHANGED <<cmd, err, hin>>
    BY <1>5 DEF CmdDo, KeepSH2, m68kHas
  <2>2. exc' \in [SH2 -> BOOLEAN]
    <3>1. PICK fault \in BOOLEAN : exc' = [exc EXCEPT ![p] = exc[p] \/ fault]
      BY <1>5 DEF CmdDo
    <3>. QED
      BY <3>1, Zenon DEF Widths
  <2>3. Len(ran') < 3
    <3>1. \E e : ran' = IF Len(ran) < 2 THEN Append(ran, e) ELSE ran
      BY <1>5 DEF CmdDo
    <3>. QED
      BY <3>1 DEF Widths
  <2>4. Carried(p)[2] \in Bytes
    <3>1. (sh[p].x[2] + 1) % 256 \in Bytes
      BY <1>1 DEF Bytes
    <3>2. ASSUME NEW words PROVE Put2(sh[p].x, words)[2] = sh[p].x[2]
      BY <1>1 DEF Put2, Offsets
    <3>3. Carried(p)[2] \in {sh[p].x[2], (sh[p].x[2] + 1) % 256}
      BY <1>1, <3>2 DEF Carried, Offsets
    <3>. QED
      BY <1>1, <3>1, <3>3
  <2>5. CASE sh' = Advance(p, Carried(p))
    BY <2>1, <2>2, <2>3, <2>4, <2>5, AdvanceBytes DEF Widths
  <2>6. CASE sh' = [sh EXCEPT ![p].at = "dead"]
    <3>1. \A q \in SH2 : sh'[q].x = sh[q].x
      BY <2>6 DEF Shapes, Sh2
    <3>. QED
      BY <2>1, <2>2, <2>3, <3>1 DEF Widths
  <2>. QED
    BY <1>5, <2>5, <2>6 DEF CmdDo
<1>6. CASE CmdClear(p)
  <2>1. sh' = Advance(p, sh[p].x) /\ cmd' = Empty /\ UNCHANGED <<err, hin, exc, ran>>
    BY <1>6 DEF CmdClear, KeepSH2, m68kHas
  <2>. QED
    BY <1>1, <1>2, <2>1, AdvanceBytes DEF Widths
<1>. QED
  BY <1>3, <1>4, <1>5, <1>6

LEMMA WidthsStep ==
  ASSUME Shapes, Widths, [MailboxNext]_vars
  PROVE  Widths'
<1>1. CASE UNCHANGED <<cmd, err, hin, exc, ran>> /\ \A p \in SH2 : sh'[p].x = sh[p].x
  BY <1>1 DEF Widths
<1>2. ASSUME NEW p \in SH2, MainRead(p) \/ MainReread(p) \/ HandleVint(p)
      PROVE  Widths'
  <2>1. UNCHANGED <<cmd, err, hin, exc, ran>>
    BY <1>2 DEF MainRead, MainReread, HandleVint, MainOnly, KeepSH2, m68kHas
  <2>2. \A q \in SH2 : sh'[q].x = sh[q].x
    <3>1. CASE sh' = sh
      BY <3>1
    <3>2. ASSUME NEW at, sh' = [sh EXCEPT ![p].at = at, ![p].step = 1]
          PROVE  \A q \in SH2 : sh'[q].x = sh[q].x
      BY <3>2 DEF Shapes, Sh2
    <3>3. CASE MainRead(p)
      <4>1. PICK v : sh' = [sh EXCEPT ![p].at = "again", ![p].cmd = v, ![p].torn = p \in torn]
        BY <3>3 DEF MainRead
      <4>. QED
        BY <4>1 DEF Shapes, Sh2
    <3>4. CASE MainReread(p)
      BY <3>2, <3>4 DEF MainReread
    <3>. QED
      BY <1>2, <3>1, <3>3, <3>4 DEF HandleVint
  <2>. QED
    BY <1>1, <2>1, <2>2
<1>3. CASE Vsync \/ VblankEnd \/ UNCHANGED vars
  BY <1>1, <1>3 DEF Vsync, VblankEnd, vars, m68kHas, shHas
<1>4. CASE X32 \/ SetHandlerInput \/ \E c \in Calls : X32Cmd(c)
  BY <1>4, WidthsOfX32
<1>5. ASSUME NEW p \in SH2, Main(p) PROVE Widths'
  BY <1>2, <1>5, WidthsOfCommand DEF Main
<1>. QED
  BY <1>3, <1>4, <1>5 DEF MailboxNext

(***************************************************************************)
(* Words stay words and the error counter a byte, through every read of a  *)
(* word that is being written, and the history keeps what it can compare.  *)
(***************************************************************************)
THEOREM MailboxTypes == MailboxSpec => []MailboxTypeOK
<1>1. MailboxInit => Widths
  BY DEF MailboxInit, Widths, Bytes, Fresh, CmdWords
<1>2. MailboxInv => Shapes
  BY DEF MailboxInv
<1>3. Shapes /\ Widths /\ [MailboxNext]_vars => Widths'
  BY WidthsStep
<1>4. MailboxInv /\ Widths => MailboxTypeOK
  BY DEF MailboxInv, Shapes, M68k, Sh2, X32Points, Words, Widths, Bytes, MailboxTypeOK
<1>. QED
  BY <1>1, <1>2, <1>3, <1>4, MailboxInvariant, PTL DEF MailboxSpec
=============================================================================
