----------------------------- MODULE MegaUsbPro -----------------------------
(***************************************************************************)
(* mega-usb-pro.c on the PC and the Mega Everdrive Pro it talks to.  The   *)
(* cartridge's own processor carries out commands (memory, reset line of   *)
(* the console); what is written to its FIFO is read by the menu that runs *)
(* on the console, when it runs.  Both answer on the same line, which has  *)
(* no reset: the next run meets what an interrupted one has left.          *)
(*                                                                         *)
(* What one write sends is one chunk; file contents are a few of them.     *)
(*                                                                         *)
(* An operator named ..._Bug is the definition after it with a mistake.    *)
(***************************************************************************)
EXTENDS Integers, Sequences, SequencesExt

CONSTANTS
  ProLines,   \* the argument lists mega-usb-pro is started with
  ProFile,    \* the contents of files, by name
  Memory,     \* addresses below ADDR_CFG
  MaxRuns,    \* bound: runs
  MaxAborts   \* bound: runs that are interrupted

ASSUME ProAssumption == {MaxRuns, MaxAborts} \subseteq Nat /\ Memory \subseteq 0..999

VARIABLES
  pc,      \* the run: at, argv left, steps left of what it is doing, got, prev
           \* (prev_type), quiet (no_exit_t_check), did, end, met
  toCart, toPc,
  cart,    \* its processor: left (chunks it still takes as data), to, from, give
  con,     \* the console: what runs on it, what the menu has of a command
  fifo, cell, used

vars == <<pc, toCart, toPc, cart, con, fifo, cell, used>>

AddrFifo == 1000     \* not in Memory
Off == 0
Soft == 1
Unknown == -2
Odd(type) == type % 2 = 1

-----------------------------------------------------------------------------
(* mega-usb-pro.c: what each function sends and waits for.                 *)

Send(chunk) == <<[do |-> "send", chunk |-> chunk]>>
Expect(byte) == <<[do |-> "expect", byte |-> byte]>>
\* RunsInStep: the answer is not read.
ResetSteps_Bug(type, prev) ==
  IF type = prev THEN <<>> ELSE Send([cmd |-> "rst", type |-> type])
\* send_reset_cmd
ResetSteps(type, prev) ==
  IF type = prev THEN <<>>
  ELSE Send([cmd |-> "rst", type |-> type])
       \o IF ~Odd(type) /\ Odd(prev) THEN Expect("r") ELSE <<>>

\* Landed: the size of one byte less is announced.
MemWrite_Bug(addr, data, prev) ==
  ResetSteps(Soft, prev) \o Send([cmd |-> "wr", to |-> addr, n |-> Len(data) - 1])
  \o FlattenSeq([i \in DOMAIN data |-> Send([cmd |-> "data", byte |-> data[i]])])
\* mem_write, mem_read: with the console in reset, except for the FIFO.
MemWrite(addr, data, prev) ==
  ResetSteps(Soft, prev) \o Send([cmd |-> "wr", to |-> addr, n |-> Len(data)])
  \o FlattenSeq([i \in DOMAIN data |-> Send([cmd |-> "data", byte |-> data[i]])])
\* RunsEnd: the size of one byte less is asked for.
MemRead_Bug(addr, n, prev) ==
  ResetSteps(Soft, prev) \o Send([cmd |-> "rd", from |-> addr, n |-> n - 1])
  \o <<[do |-> "read", n |-> n]>>
MemRead(addr, n, prev) ==
  ResetSteps(Soft, prev) \o Send([cmd |-> "rd", from |-> addr, n |-> n])
  \o <<[do |-> "read", n |-> n]>>
Fifo(text) == Send([cmd |-> "wr", to |-> AddrFifo, n |-> 1]) \o Send([cmd |-> "data", byte |-> text])
Check == Fifo("*t") \o Expect("k")
\* send_run_game
RunGame(data, prev) ==
  MemWrite(0, data, prev) \o ResetSteps(Off, Soft) \o Check
  \o Fifo("*g") \o Fifo("size") \o Fifo("len") \o Fifo("name") \o Expect("0")

-----------------------------------------------------------------------------
(* main.                                                                   *)

PcOnly == UNCHANGED <<cart, con, fifo, cell, used>>
LineKeep == UNCHANGED <<toCart, toPc>>
Ends(how) == pc' = [pc EXCEPT !.at = "off", !.end = how, !.steps = <<>>, !.got = <<>>]
Busy(n) == n.at = "talk" /\ n.steps # <<>>

\* Nothing is on its way: no answer either, until somebody sends something.
CartQuiet == toCart = <<>> /\ cart.give = 0 /\ (con.at = "menu" => fifo = <<>>)
Idle == CartQuiet /\ cart.left = 0 /\ con.at # "boot"
\* The operands that an option needs (without the file that -r writes).
Required(op) == CASE op \in {"-w", "-r"} -> 2 [] op \in {"-rst", "-l"} -> 1
\* The first argument puts the console into reset.
Resets(argv) ==
  Len(argv) > 1 /\ IF argv[1] = "-rst" THEN Odd(argv[2]) ELSE Len(argv) > Required(argv[1])
\* What has arrived is read and thrown away.
FlushInput == toPc' = <<>>
\* flush_input, then the tolerant '*t'.
PcOpen(argv) ==
  /\ pc.at = "off" /\ used.runs < MaxRuns
  /\ pc' = [at |-> "hello", argv |-> argv, steps |-> Fifo("*t"), got |-> <<>>,
            prev |-> Unknown, quiet |-> FALSE, did |-> <<>>, end |-> "running",
            resets |-> Resets(argv),
            met |-> [end |-> pc.end, idle |-> Idle, game |-> con.at = "game"]]
  /\ FlushInput
  /\ used' = [used EXCEPT !.runs = @ + 1]
  /\ UNCHANGED <<toCart, cart, con, fifo, cell>>

PcSend ==
  /\ pc.at \in {"hello", "talk", "last"} /\ pc.steps # <<>> /\ Head(pc.steps).do = "send"
  /\ toCart' = Append(toCart, Head(pc.steps).chunk)
  /\ pc' = [pc EXCEPT !.steps = Tail(@)]
  /\ UNCHANGED toPc /\ PcOnly

\* run_t_check_initial
PcHello ==
  /\ pc.at = "hello" /\ pc.steps = <<>> /\ toPc # <<>>
  /\ toPc' = Tail(toPc)
  /\ pc' = [pc EXCEPT !.at = "arg"]
  /\ UNCHANGED toCart /\ PcOnly
PcHelloTimeout ==
  /\ pc.at = "hello" /\ pc.steps = <<>> /\ toPc = <<>> /\ CartQuiet
  /\ pc' = [pc EXCEPT !.at = "arg"]
  /\ LineKeep /\ PcOnly

\* serial_read_expect_byte
Expecting == pc.at \in {"talk", "last"} /\ pc.steps # <<>> /\ Head(pc.steps).do = "expect"
PcExpect ==
  /\ Expecting /\ toPc # <<>>
  /\ IF Head(toPc) = Head(pc.steps).byte THEN pc' = [pc EXCEPT !.steps = Tail(@)] ELSE Ends("failed")
  /\ toPc' = Tail(toPc)
  /\ UNCHANGED toCart /\ PcOnly
\* 5 seconds: the console starts in less.
PcTimeout ==
  /\ Expecting /\ toPc = <<>> /\ CartQuiet /\ con.at # "boot"
  /\ Ends("failed") /\ LineKeep /\ PcOnly
PcRead ==
  /\ pc.at = "talk" /\ pc.steps # <<>> /\ Head(pc.steps).do = "read"
  /\ IF Len(pc.got) = Head(pc.steps).n THEN pc' = [pc EXCEPT !.steps = Tail(@)] /\ UNCHANGED toPc
     ELSE toPc # <<>> /\ pc' = [pc EXCEPT !.got = Append(@, Head(toPc))] /\ toPc' = Tail(toPc)
  /\ UNCHANGED toCart /\ PcOnly

\* The loop over the arguments.
Does(n, steps, prev, did) ==
  pc' = [pc EXCEPT !.at = "talk", !.argv = SubSeq(@, n + 1, Len(@)), !.steps = steps,
                   !.prev = prev, !.did = did, !.got = <<>>]
Arg(op) == pc.at = "arg" /\ Len(pc.argv) > Required(op) /\ pc.argv[1] = op
\* getarg, invarg: a command line that ends too early is noticed only here,
\* after what precedes it has been done, and the console is not let go.
PcInvArg ==
  /\ pc.at = "arg" /\ pc.argv # <<>> /\ Len(pc.argv) <= Required(pc.argv[1])
  /\ Ends("failed") /\ LineKeep /\ PcOnly
PcRst ==
  /\ Arg("-rst") /\ Does(2, ResetSteps(pc.argv[2], pc.prev), pc.argv[2], <<>>)
  /\ LineKeep /\ PcOnly
PcLoad ==
  /\ Arg("-l")
  /\ IF pc.argv[2] \notin DOMAIN ProFile THEN Ends("failed")
     ELSE pc' = [pc EXCEPT !.at = "talk", !.argv = SubSeq(@, 3, Len(@)), !.quiet = TRUE,
                    !.steps = RunGame(ProFile[pc.argv[2]], pc.prev), !.prev = Off,
                    !.did = <<"load">>, !.got = <<>>]
  /\ LineKeep /\ PcOnly
PcWriteFile ==
  /\ Arg("-w")
  /\ IF pc.argv[2] \notin DOMAIN ProFile THEN Ends("failed")
     ELSE Does(3, MemWrite(pc.argv[3], ProFile[pc.argv[2]], pc.prev), Soft,
               <<"write", pc.argv[2], pc.argv[3]>>)
  /\ LineKeep /\ PcOnly
PcReadFile ==
  /\ Arg("-r") /\ Does(3, MemRead(pc.argv[2], pc.argv[3], pc.prev), Soft, <<"read", pc.argv[2]>>)
  /\ LineKeep /\ PcOnly
PcDone ==
  /\ pc.at = "talk" /\ pc.steps = <<>>
  /\ pc' = [pc EXCEPT !.at = "arg"]
  /\ LineKeep /\ PcOnly

\* Landed: the reset is left to the check, which a game must be spared.
PcLast_Bug ==
  /\ pc.at = "arg" /\ pc.argv = <<>>
  /\ pc' = [pc EXCEPT !.at = "last", !.prev = Off, !.did = <<>>,
              !.steps = IF pc.quiet THEN <<>> ELSE ResetSteps(Off, pc.prev) \o Check]
  /\ LineKeep /\ PcOnly
\* The console is let go, and the menu answers unless a game was started.
PcLast ==
  /\ pc.at = "arg" /\ pc.argv = <<>>
  /\ pc' = [pc EXCEPT !.at = "last", !.prev = Off, !.did = <<>>,
              !.steps = ResetSteps(Off, pc.prev) \o IF pc.quiet THEN <<>> ELSE Check]
  /\ LineKeep /\ PcOnly
PcExit == pc.at = "last" /\ pc.steps = <<>> /\ Ends("ok") /\ LineKeep /\ PcOnly

PcAbort ==
  /\ pc.at # "off" /\ used.aborts < MaxAborts
  /\ Ends("aborted")
  /\ used' = [used EXCEPT !.aborts = @ + 1]
  /\ LineKeep /\ UNCHANGED <<cart, con, fifo, cell>>

PcRuns ==
  \/ PcSend \/ PcHello \/ PcHelloTimeout \/ PcExpect \/ PcTimeout \/ PcRead
  \/ PcInvArg \/ PcRst \/ PcLoad \/ PcWriteFile \/ PcReadFile \/ PcDone \/ PcLast \/ PcExit

-----------------------------------------------------------------------------
(* The cartridge and the menu, as mega-usb-pro.c uses them.                *)

Answer(byte) == toPc' = Append(toPc, byte)
Takes == toCart # <<>> /\ toCart' = Tail(toCart)

CartCommand ==
  /\ cart.left = 0 /\ cart.give = 0 /\ Takes
  /\ LET c == Head(toCart) IN
     CASE c.cmd = "rst" ->
            /\ con' = IF Odd(c.type) THEN [at |-> "held", need |-> 0]
                      ELSE IF con.at = "held" THEN [con EXCEPT !.at = "boot"] ELSE con
            /\ UNCHANGED cart
       [] c.cmd = "wr" -> cart' = [cart EXCEPT !.left = c.n, !.to = c.to] /\ UNCHANGED con
       [] c.cmd = "rd" -> cart' = [cart EXCEPT !.give = c.n, !.from = c.from] /\ UNCHANGED con
       [] c.cmd = "data" -> UNCHANGED <<cart, con>>
  /\ UNCHANGED <<pc, toPc, fifo, cell, used>>
\* Whatever arrives is data now.
CartData ==
  /\ cart.left > 0 /\ Takes
  /\ LET c == Head(toCart)
         byte == IF c.cmd = "data" THEN c.byte ELSE "junk" IN
     IF cart.to = AddrFifo THEN fifo' = Append(fifo, byte) /\ UNCHANGED cell
     ELSE cell' = [cell EXCEPT ![cart.to] = byte] /\ UNCHANGED fifo
  /\ cart' = [cart EXCEPT !.left = @ - 1, !.to = IF @ = AddrFifo THEN @ ELSE @ + 1]
  /\ UNCHANGED <<pc, toPc, con, used>>
CartGive ==
  /\ cart.give > 0
  /\ Answer(cell[cart.from])
  /\ cart' = [cart EXCEPT !.give = @ - 1, !.from = @ + 1]
  /\ UNCHANGED <<pc, toCart, con, fifo, cell, used>>

\* The menu starts with an empty FIFO: a '*t' a game did not read is not answered.
ConBoots ==
  /\ con.at = "boot"
  /\ con' = [con EXCEPT !.at = "menu"] /\ fifo' = <<>>
  /\ Answer("r")
  /\ UNCHANGED <<pc, toCart, cart, cell, used>>
MenuReads ==
  /\ con.at = "menu" /\ fifo # <<>>
  /\ fifo' = Tail(fifo)
  /\ con' = CASE con.need > 1 -> [con EXCEPT !.need = @ - 1]
              [] con.need = 1 -> [at |-> "game", need |-> 0]
              [] OTHER -> IF Head(fifo) = "*g" THEN [con EXCEPT !.need = 3] ELSE con
  /\ IF con.need = 1 THEN Answer("0")
     ELSE IF con.need = 0 /\ Head(fifo) = "*t" THEN Answer("k") ELSE UNCHANGED toPc
  /\ UNCHANGED <<pc, toCart, cart, cell, used>>

CartRuns == CartCommand \/ CartData \/ CartGive \/ ConBoots \/ MenuReads

-----------------------------------------------------------------------------
ProInit ==
  /\ pc = [at |-> "off", argv |-> <<>>, steps |-> <<>>, got |-> <<>>, prev |-> Unknown,
           quiet |-> FALSE, did |-> <<>>, end |-> "ok",
           resets |-> FALSE,
           met |-> [end |-> "ok", idle |-> TRUE, game |-> FALSE]]
  /\ toCart = <<>> /\ toPc = <<>> /\ fifo = <<>>
  /\ cart = [left |-> 0, to |-> 0, from |-> 0, give |-> 0]
  /\ con = [at |-> "menu", need |-> 0]
  /\ cell = [a \in Memory |-> "rom"]
  /\ used = [runs |-> 0, aborts |-> 0]
ProNext == (\E argv \in ProLines : PcOpen(argv)) \/ PcRuns \/ PcAbort \/ CartRuns
ProSpec == ProInit /\ [][ProNext]_vars
\* Both programs go on; nobody has to start or to interrupt anything.
FairProSpec == ProSpec /\ WF_vars(PcRuns) /\ WF_vars(CartRuns)

-----------------------------------------------------------------------------
(***************************************************************************)
(* A run that met the cartridge idle does what it was asked.  When it goes *)
(* on after -w or -r, the file is in the cartridge's memory, all of it, or *)
(* what was received is what is there; and if it ends well the cartridge   *)
(* is idle again, and the console out of reset, in the menu or the game.   *)
(* (If something was on its way, a late 'k' may end the run before the     *)
(* cartridge has even seen its commands, and the run after it, too.)       *)
(***************************************************************************)
Landed ==
  /\ pc.at = "arg" /\ pc.did # <<>> /\ toCart = <<>> /\ pc.met.idle =>
    CASE pc.did[1] = "write" ->
           \A i \in DOMAIN ProFile[pc.did[2]] : cell[pc.did[3] + i - 1] = ProFile[pc.did[2]][i]
      [] pc.did[1] = "read" -> \A i \in DOMAIN pc.got : pc.got[i] = cell[pc.did[2] + i - 1]
      [] OTHER -> TRUE
  /\ pc.at = "off" /\ pc.end = "ok" /\ pc.met.idle =>
    con.at \in {"menu", "game"} /\ toPc = <<>> /\ Idle

(***************************************************************************)
(* A run that met the cartridge idle never loses step with it, that is, it *)
(* fails only for a file that is not there, if it begins with a reset or a *)
(* memory access (run_t_check_initial shrugs at what it hears), or if the  *)
(* run before ended well and has not started a game.                       *)
(***************************************************************************)
RunsInStep ==
  [][pc'.end = "failed" /\ pc.at \in {"talk", "last"} /\ pc.met.idle =>
       ~pc.resets /\ (pc.met.end # "ok" \/ pc.met.game)]_vars

(***************************************************************************)
(* A run that met the cartridge idle comes to an end.  (One that did not   *)
(* can read for ever: what it asks for is swallowed as the rest of an      *)
(* interrupted -w, and serial_read has no timeout.)                        *)
(***************************************************************************)
RunsEnd == pc.at = "hello" /\ pc.met.idle ~> pc.at = "off"
=============================================================================
