----------------------------- MODULE X32Mailbox -----------------------------
(***************************************************************************)
(* The mailbox of testpico's 32X tests: x32_cmd on the 68000 (main.c) puts *)
(* a command in the communication registers, main_c and do_cmd of the two  *)
(* SH2s (sh2_main.c) poll for it, execute it and clear it, and sh2_test.sh2 *)
(* has their interrupt and exception handlers.                             *)
(*                                                                         *)
(* The registers are 16 bits wide and every step is one access to one of   *)
(* them; a 32 bit access is two.  A read that coincides with a write of    *)
(* the command word by another processor may return anything, which is     *)
(* why the SH2s read it twice.  What the command reads, writes and returns *)
(* is kept; the widths of READ8/16/32 and WRITE8/16/32 are not told apart. *)
(*                                                                         *)
(* An operator named ..._Bug is the definition after it with a mistake.    *)
(***************************************************************************)
EXTENDS Integers, Sequences

CONSTANTS
  Calls,      \* the arguments that x32_cmd is called with
  Garbage,    \* what a read that coincides with a write may return
  Cell,       \* an SH2 address that can be read and written, <<high, low>>
  MaxCalls,   \* bound: calls of x32_cmd
  MaxVsyncs   \* bound: vertical interrupts

Word16 == 0..65535
Pair == Word16 \X Word16
MaskReg == <<8192, 16385>>      \* 0x20004001

ASSUME MailboxAssumption ==
  /\ {MaxCalls, MaxVsyncs} \subseteq Nat
  /\ Calls # {}
  /\ Calls \subseteq [op : {"echo", "read", "write", "getsr", "setsr", "bad"},
                      slave : {0, 1}, a0 : Pair, a1 : Pair]
  /\ Cell \in Pair \ {MaskReg}
  /\ Garbage \subseteq [op : STRING, slave : {0, 1}]

VARIABLES
  cmd,      \* 0x20: the command word
  err, hin, \* 0x22: error counter, 0x23: handler input
  reg,      \* 0x24..0x2a: arg0/response and arg1
  exc,      \* 0x2e, 0x2f: an exception_index has been stored, of each SH2
  torn,     \* whose next read of cmd may coincide with its last write
  m68k,     \* at, the call, v and the report of x32_cmd
  sh,       \* main_c of each SH2: at, cmd, whether that was torn, regs
  cell,     \* what Cell holds
  irq,      \* each SH2's vint: pending, unmasked in its 32X register, enabled in SR
  ran,      \* history: what has been executed since x32_cmd was entered
  used      \* calls and vsyncs so far

m68kHas == <<m68k, hin, used>>
shHas == <<sh, exc, cell, irq, ran>>
vars == <<cmd, err, reg, torn, m68kHas, shHas>>

Slave == [master |-> 0, slave |-> 1]
SH2 == DOMAIN Slave
Noack == 90                     \* 0x5a in handler input
Empty == [op |-> "none", slave |-> 0]
Word(c) == [op |-> c.op, slave |-> c.slave]
CmdWords == {Empty} \cup {Word(c) : c \in Calls}
Offsets == {4, 6, 8, 10}

\* main_c cannot get on while its vint is taken again and again.
Taken(p) == irq[p].pend /\ irq[p].unmasked /\ irq[p].enabled
Runs(p) == ~Taken(p) /\ sh[p].at # "dead"
Stuck(p) == sh[p].at = "dead" \/ (Taken(p) /\ hin = Noack)
Target(c) == CHOOSE p \in SH2 : Slave[p] = c.slave

-----------------------------------------------------------------------------
(* The 68000.                                                              *)

\* The tests do not address a processor that "can't accept commands as it
\* keeps retaking the irq" (main.c), nor make it do so with a command.
MayCall(c) ==
  hin = Noack => ~irq[Target(c)].enabled /\ c.op # "setsr"

X32Cmd(c) ==
  /\ m68k.at = "idle" /\ used.calls < MaxCalls /\ MayCall(c)
  /\ m68k' = [at |-> "arg", call |-> c, v |-> Empty, err |-> 0, next |-> 1]
  /\ ran' = <<>>
  /\ used' = [used EXCEPT !.calls = @ + 1]
  /\ UNCHANGED <<cmd, err, reg, torn, hin, sh, exc, cell, irq>>

Keep68k == UNCHANGED <<hin, used, shHas>>
ArgWords(c) == c.a0 \o c.a1
X32WriteArg ==
  LET off == 2 + 2 * m68k.next IN
  /\ m68k.at = "arg"
  /\ reg' = [reg EXCEPT ![off] = ArgWords(m68k.call)[m68k.next]]
  /\ m68k' = [m68k EXCEPT !.next = @ + 1, !.at = IF m68k.next = 4 THEN "cmd" ELSE "arg"]
  /\ UNCHANGED <<cmd, err, torn>> /\ Keep68k

X32WriteCmd ==
  /\ m68k.at = "cmd"
  /\ cmd' = Word(m68k.call) /\ torn' = SH2
  /\ m68k' = [m68k EXCEPT !.at = "poll"]
  /\ UNCHANGED <<err, reg>> /\ Keep68k

X32Poll ==
  /\ m68k.at = "poll"
  /\ \E v \in IF "68k" \in torn THEN {cmd} \cup Garbage ELSE {cmd} :
       m68k' = [m68k EXCEPT !.v = v,
                  !.at = IF v = Word(m68k.call) THEN "poll" ELSE IF v = Empty THEN "err" ELSE "clear"]
  /\ torn' = torn \ {"68k"}
  /\ UNCHANGED <<cmd, err, reg>> /\ Keep68k

\* CallsEnd: the loop has no limit.
X32Timeout_Bug == FALSE /\ UNCHANGED vars
\* 10000 rounds are far longer than a command takes: the loop runs out only
\* if the processor cannot run.
X32Timeout ==
  /\ m68k.at = "poll" /\ Stuck(Target(m68k.call))
  /\ m68k' = [m68k EXCEPT !.at = "clear", !.v = cmd]
  /\ UNCHANGED <<cmd, err, reg, torn>> /\ Keep68k

X32Clear ==
  /\ m68k.at = "clear"
  /\ cmd' = Empty /\ torn' = SH2
  /\ m68k' = [m68k EXCEPT !.at = "err"]
  /\ UNCHANGED <<err, reg>> /\ Keep68k

X32ReadErr ==
  /\ m68k.at = "err"
  /\ m68k' = [m68k EXCEPT !.at = IF err = 0 THEN "ret" ELSE "clearErr", !.err = err]
  /\ UNCHANGED <<cmd, err, reg, torn>> /\ Keep68k

\* ReturnIsTrue: the counter is left as it is.
X32ClearErr_Bug ==
  /\ m68k.at = "clearErr"
  /\ m68k' = [m68k EXCEPT !.at = "ret"]
  /\ UNCHANGED <<cmd, err, reg, torn, hin, used, shHas>>
\* The word write clears handler input as well.
X32ClearErr ==
  /\ m68k.at = "clearErr"
  /\ err' = 0 /\ hin' = 0
  /\ m68k' = [m68k EXCEPT !.at = "ret"]
  /\ UNCHANGED <<cmd, reg, torn, used, shHas>>

\* The caller looks at the answer and goes on.
X32Return ==
  /\ m68k.at = "ret"
  /\ m68k' = [m68k EXCEPT !.at = "idle"]
  /\ UNCHANGED <<cmd, err, reg, torn>> /\ Keep68k

\* t_32x_irq_vint, between two calls.
SetHandlerInput ==
  /\ m68k.at = "idle" /\ hin' \in {0, Noack} \ {hin}
  /\ used.calls < MaxCalls
  /\ UNCHANGED <<cmd, err, reg, torn, m68k, used, shHas>>

X32 == \/ X32WriteArg \/ X32WriteCmd \/ X32Poll \/ X32Timeout \/ X32Clear
       \/ X32ReadErr \/ X32ClearErr \/ X32Return

-----------------------------------------------------------------------------
(* The SH2s.                                                               *)

KeepSH2 == UNCHANGED m68kHas
MainOnly == UNCHANGED <<cmd, err, reg, exc, cell, irq, ran>>

MainRead(p) ==
  /\ sh[p].at = "top" /\ Runs(p)
  /\ \E v \in IF p \in torn THEN {cmd} \cup Garbage ELSE {cmd} :
       sh' = [sh EXCEPT ![p].at = "again", ![p].cmd = v, ![p].torn = p \in torn]
  /\ torn' = torn \ {p}
  /\ MainOnly /\ KeepSH2

\* Two reads in a row do not both coincide with a write.
Reread(p) == IF p \in torn /\ ~sh[p].torn THEN {cmd} \cup Garbage ELSE {cmd}
\* OnceAsAsked: the first word read is believed.
MainReread_Bug(p) ==
  /\ sh[p].at = "again" /\ Runs(p)
  /\ sh' = [sh EXCEPT ![p].at = IF sh[p].cmd.op # "none" /\ sh[p].cmd.slave = Slave[p]
                                 THEN "exec" ELSE "top", ![p].step = 1]
  /\ torn' = torn \ {p}
  /\ MainOnly /\ KeepSH2
MainReread(p) ==
  /\ sh[p].at = "again" /\ Runs(p)
  /\ \E v \in Reread(p) :
       sh' = [sh EXCEPT ![p].at = IF /\ sh[p].cmd.op # "none" /\ v = sh[p].cmd
                                     /\ sh[p].cmd.slave = Slave[p]
                                  THEN "exec" ELSE "top", ![p].step = 1]
  /\ torn' = torn \ {p}
  /\ MainOnly /\ KeepSH2

\* do_cmd, then the write that clears cmd, as sequences of accesses: load or
\* store a register, carry the command out, count an error, clear.
Ld(off) == <<"ld", off>>
St(off) == <<"st", off>>
Do == <<"do", 0>>
Clear == <<"clear", 0>>
\* ReturnIsTrue: the word is cleared before the response is stored.
Program_Bug ==
  [echo  |-> <<Ld(4), Do, Clear, St(6)>>,
   read  |-> <<Ld(4), Ld(6), Do, Clear, St(4), St(6)>>,
   write |-> <<Ld(4), Ld(6), Ld(8), Ld(10), Do, Clear>>,
   getsr |-> <<Do, Clear, St(4), St(6)>>,
   setsr |-> <<Ld(4), Ld(6), Do, Clear>>,
   bad   |-> <<Ld(2), Do, St(2), Clear>>]
Program ==
  [echo  |-> <<Ld(4), Do, St(6), Clear>>,
   read  |-> <<Ld(4), Ld(6), Do, St(4), St(6), Clear>>,
   write |-> <<Ld(4), Ld(6), Ld(8), Ld(10), Do, Clear>>,
   getsr |-> <<Do, St(4), St(6), Clear>>,
   setsr |-> <<Ld(4), Ld(6), Do, Clear>>,
   bad   |-> <<Ld(2), Do, St(2), Clear>>]

\* The access that p is about to make.
AtStep(p, kind) ==
  /\ sh[p].at = "exec" /\ Runs(p)
  /\ Program[sh[p].cmd.op][sh[p].step][1] = kind
Offset(p) == Program[sh[p].cmd.op][sh[p].step][2]
Fresh == [at |-> "top", cmd |-> Empty, torn |-> FALSE, step |-> 1,
          x |-> [o \in {2} \cup Offsets |-> 0]]
\* On to the next access, or back to the top of main_c's loop.
Advance(p, x) ==
  IF sh[p].step = Len(Program[sh[p].cmd.op]) THEN [sh EXCEPT ![p] = Fresh]
  ELSE [sh EXCEPT ![p].step = @ + 1, ![p].x = x]

CmdLoad(p) ==
  /\ AtStep(p, "ld")
  /\ sh' = Advance(p, [sh[p].x EXCEPT ![Offset(p)] = IF Offset(p) = 2 THEN err ELSE reg[Offset(p)]])
  /\ UNCHANGED <<cmd, err, reg, torn, exc, cell, irq, ran>> /\ KeepSH2

CmdStore(p) ==
  /\ AtStep(p, "st")
  /\ sh' = Advance(p, sh[p].x)
  /\ IF Offset(p) = 2 THEN err' = sh[p].x[2] /\ UNCHANGED reg
     ELSE reg' = [reg EXCEPT ![Offset(p)] = sh[p].x[Offset(p)]] /\ UNCHANGED err
  /\ UNCHANGED <<cmd, torn, exc, cell, irq, ran>> /\ KeepSH2

SrOf(p) == IF irq[p].enabled THEN <<0, 16>> ELSE <<0, 240>>
Flip(w, p) == (w + 32768 * Slave[p]) % 65536
Put2(x, words) == [x EXCEPT ![4] = words[1], ![6] = words[2]]

\* The registers after a command that p carries out.
Carried(p) ==
  LET x == sh[p].x IN
  CASE sh[p].cmd.op = "echo"  -> [x EXCEPT ![6] = Flip(x[4], p)]
    [] sh[p].cmd.op = "read"  -> Put2(x, IF <<x[4], x[6]>> = Cell THEN cell ELSE
                                         <<0, IF irq[p].unmasked THEN 8 ELSE 0>>)
    [] sh[p].cmd.op = "getsr" -> Put2(x, SrOf(p))
    [] sh[p].cmd.op = "bad"   -> [x EXCEPT ![2] = (@ + 1) % 256]
    [] OTHER -> x

CmdDo(p) ==
  LET op == sh[p].cmd.op
      x == sh[p].x
      a == <<x[4], x[6]>>
      fault == op \in {"read", "write"} /\ a \notin {Cell, MaskReg} IN
  /\ AtStep(p, "do")
  /\ sh' = IF fault THEN [sh EXCEPT ![p].at = "dead"] ELSE Advance(p, Carried(p))
  /\ exc' = [exc EXCEPT ![p] = @ \/ fault]
  /\ cell' = IF op = "write" /\ a = Cell THEN <<x[8], x[10]>> ELSE cell
  /\ irq' = [irq EXCEPT
       ![p].unmasked = IF op = "write" /\ a = MaskReg THEN x[10] = 8 ELSE @,
       ![p].enabled = IF op = "setsr" THEN x[6] < 240 ELSE @]
  /\ ran' = IF Len(ran) < 2 THEN Append(ran, [by |-> p, op |-> op, x |-> x]) ELSE ran
  /\ UNCHANGED <<cmd, err, reg, torn>> /\ KeepSH2

CmdClear(p) ==
  /\ AtStep(p, "clear")
  /\ cmd' = Empty /\ torn' = ({"68k"} \cup SH2) \ {p}
  /\ sh' = Advance(p, sh[p].x)
  /\ UNCHANGED <<err, reg, exc, cell, irq, ran>> /\ KeepSH2

\* do_irq_cmn for level 12: it clears its source unless told not to.
HandleVint(p) ==
  /\ Taken(p) /\ sh[p].at # "dead" /\ hin # Noack
  /\ irq' = [irq EXCEPT ![p].pend = FALSE]
  /\ UNCHANGED <<cmd, err, reg, torn, sh, exc, cell, ran>> /\ KeepSH2

Main(p) == \/ MainRead(p) \/ MainReread(p) \/ CmdLoad(p) \/ CmdStore(p)
           \/ CmdDo(p) \/ CmdClear(p) \/ HandleVint(p)

\* The VDP: vertical blanking sets the source of both, and ends.
Vsync ==
  /\ used.vsyncs < MaxVsyncs
  /\ irq' = [p \in SH2 |-> [irq[p] EXCEPT !.pend = TRUE]]
  /\ used' = [used EXCEPT !.vsyncs = @ + 1]
  /\ UNCHANGED <<cmd, err, reg, torn, m68k, hin, sh, exc, cell, ran>>
VblankEnd ==
  /\ \E p \in SH2 : irq[p].pend
  /\ irq' = [p \in SH2 |-> [irq[p] EXCEPT !.pend = FALSE]]
  /\ UNCHANGED <<cmd, err, reg, torn, m68kHas, sh, exc, cell, ran>>

-----------------------------------------------------------------------------
MailboxInit ==
  /\ cmd = Empty /\ err = 0 /\ hin = 0 /\ reg = [o \in Offsets |-> 0]
  /\ exc = [p \in SH2 |-> FALSE] /\ torn = {}
  /\ m68k = [at |-> "idle", call |-> CHOOSE c \in Calls : TRUE, v |-> Empty, err |-> 0, next |-> 1]
  /\ sh = [p \in SH2 |-> Fresh]
  /\ cell = <<0, 0>>
  /\ irq = [p \in SH2 |-> [pend |-> FALSE, unmasked |-> FALSE, enabled |-> TRUE]]
  /\ ran = <<>> /\ used = [calls |-> 0, vsyncs |-> 0]

MailboxNext ==
  \/ \E c \in Calls : X32Cmd(c)
  \/ X32 \/ SetHandlerInput
  \/ \E p \in SH2 : Main(p)
  \/ Vsync \/ VblankEnd

MailboxSpec == MailboxInit /\ [][MailboxNext]_vars
\* Every processor keeps executing, and vertical blanking is finite.
FairMailboxSpec == /\ MailboxSpec /\ WF_vars(X32) /\ WF_vars(VblankEnd)
                   /\ \A p \in SH2 : WF_vars(Main(p))

-----------------------------------------------------------------------------
(***************************************************************************)
(* The communication registers hold words, the error counter a byte, and   *)
(* the three processors are at points of x32_cmd and main_c.               *)
(***************************************************************************)
MailboxTypeOK ==
  /\ cmd \in CmdWords /\ err \in 0..255 /\ hin \in 0..255
  /\ reg \in [Offsets -> Word16] /\ cell \in Pair
  /\ torn \subseteq {"68k"} \cup SH2
  /\ m68k.at \in {"idle", "arg", "cmd", "poll", "clear", "err", "clearErr", "ret"}
  /\ \A p \in SH2 : /\ sh[p].at \in {"top", "again", "exec", "dead"}
                    /\ sh[p].cmd \in CmdWords \cup Garbage /\ sh[p].x \in [{2} \cup Offsets -> Word16]
  /\ exc \in [SH2 -> BOOLEAN] /\ Len(ran) < 3

\* The call's arguments, as the processor that it is for sees them.
Asked(e, c) ==
  /\ e.by = Target(c) /\ e.op = c.op
  /\ \A i \in DOMAIN Program[c.op] :
       LET s == Program[c.op][i] IN
       s[1] = "ld" /\ s[2] \in Offsets => e.x[s[2]] = ArgWords(c)[s[2] \div 2 - 1]

(***************************************************************************)
(* Only the processor a command is for executes it, with the arguments of  *)
(* that call, and at most once before x32_cmd returns.                     *)
(***************************************************************************)
OnceAsAsked ==
  \/ ran = <<>>
  \/ Len(ran) = 1 /\ m68k.at \notin {"arg", "cmd"} /\ Asked(ran[1], m68k.call)

\* The first argument, marked by the slave.
Echo(c) == (c.a0[1] + 32768 * c.slave) % 65536
\* What the registers must hold after c, given what p read when it ran.
Answered(c) ==
  LET p == Target(c) IN
  /\ c.op = "echo" => reg[6] = Echo(c)
  /\ c.op = "read" /\ c.a0 = Cell => <<reg[4], reg[6]>> = cell
  /\ c.op = "getsr" => <<reg[4], reg[6]>> = SrOf(p)
  /\ c.op = "write" /\ c.a0 = Cell => cell = c.a1
  /\ c.op = "write" /\ c.a0 = MaskReg => irq[p].unmasked = (c.a1[2] = 8)
  /\ c.op = "setsr" => irq[p].enabled = (c.a0[2] < 240)

(***************************************************************************)
(* What x32_cmd tells its caller is true.  If it prints nothing, the       *)
(* command has been executed, and the answer the caller is about to look   *)
(* at is complete; it prints "cmd err" for the call whose command is       *)
(* unknown and for no other, and counts one error.                         *)
(***************************************************************************)
ReturnIsTrue ==
  m68k.at = "ret" =>
    /\ m68k.v = Empty /\ m68k.err = 0 => Len(ran) = 1 /\ Answered(m68k.call)
    /\ m68k.err = IF m68k.call.op = "bad" /\ Len(ran) = 1 THEN 1 ELSE 0

(***************************************************************************)
(* An SH2 in its exception handler spins for good, without clearing the    *)
(* command; still every call of x32_cmd returns, and the mailbox is empty. *)
(***************************************************************************)
CallsEnd == m68k.at = "arg" ~> m68k.at = "ret" /\ cmd = Empty
=============================================================================
