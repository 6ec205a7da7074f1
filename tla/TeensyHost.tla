----------------------------- MODULE TeensyHost -----------------------------
(***************************************************************************)
(* The PC side of teensytp (host/main.c): one select loop over the         *)
(* terminal, the input devices and the URBs of the Teensy's usbfs node,    *)
(* with the kernel's view of those URBs and what the firmware's do_usb     *)
(* (main.c) makes of the packets.  Keys and mode switches come at any      *)
(* moment, transfers complete or fail, and the Teensy is unplugged and     *)
(* plugged in again; so are the input devices, for good.                   *)
(*                                                                         *)
(* An operator named ..._Bug is the definition after it with a mistake.    *)
(***************************************************************************)
EXTENDS Integers, Sequences, FiniteSets, SequencesExt

CONSTANTS
  Args,     \* the -e arguments: player, binds (first key code, buttons), and
            \* what the device has: its keys, its axes (min, max)
  Places,   \* where a stick may be
  Modes,    \* the modes that can be selected
  Budgets   \* bound: how many keys (input events), selects (modes), prints
            \* (debug texts of the firmware), fails (transfers that end with an
            \* error), unplugs (of the Teensy), detaches (of input devices)

Devs == DOMAIN Args
Players == {Args[d].player : d \in Devs}
ASSUME HostAssumption ==
  /\ Args \in Seq([player : 0..3, binds : Seq([first : Nat, btns : Seq(STRING)]),
                    keys : SUBSET Nat, axes : SUBSET {0, 1}, min : Int, max : Int])
  /\ \A d \in Devs : Args[d].min <= Args[d].max
  /\ Places \subseteq Int /\ Modes \subseteq {"3btn", "6btn", "tp"}
  /\ Budgets \subseteq
       [{"keys", "selects", "prints", "fails", "unplugs", "detaches"} -> Nat]

VARIABLES
  at,       \* where main's loop is
  open,     \* dev.fd # -1
  urbs,     \* pending_urbs
  timeout,  \* select's timeout is finite
  ready,    \* what select returned: [stdin, keys, usb]
  state, dirty,         \* players[]; a state is a set of buttons
  fds,      \* the input devices that are open: numbers from 1, in main's order
  fd,       \* dev.fd as it was opened last, counted like these
  mode, mode_changed,
  pkt,      \* pkt_out
  g_exit,
  kernel,   \* per URB: "none", "busy", "done", "failed"
  plugged,  \* a Teensy is on the bus
  alive,    \* ... and dev.fd is its, not that of one unplugged since
  held,     \* per device, the keys that are down and where the sticks are
  keys,     \* per device, input events that are not read yet
  stdin,    \* mode selections that are not read yet
  rx,       \* packets the Teensy's USB buffers hold
  pads,     \* the firmware: [mode, btn]
  excused,  \* history: players whose last report was lost or wiped
  strayed,  \* history: the last mode packet, or the mode itself, was lost
  left      \* what is left of the budget

input == <<held, keys, stdin>>
host == <<at, open, urbs, timeout, ready, state, dirty, fd, fds, mode, mode_changed, pkt>>
world == <<plugged, alive, input, rx, pads, left>>
history == <<excused, strayed>>
vars == <<host, g_exit, kernel, world, history>>

Urbs == {"in", "out", "dbg"}
NoPkt == [type |-> "none"]
Nothing == [p \in Players |-> {}]
Fresh == [mode |-> "3btn", btn |-> Nothing]
Completed(u) == kernel[u] \in {"done", "failed"}
PlayersOf(p) == IF p.type = "btns" THEN DOMAIN p.btns ELSE {}
Go(to) == at' = to

-----------------------------------------------------------------------------
(* open_evdev: what the keys and sticks of a device stand for.  A button is *)
(* the letter that binds it, "0" unbinds.                                  *)

Letters == {"u", "d", "l", "r", "a", "b", "c", "s", "x", "y", "z", "m", "0"}
BindToMask(b) == IF b = "0" THEN {} ELSE {b}

\* bind: consecutive keys; one that is not a button is passed over.
Bind(map, b) ==
  [kc \in DOMAIN map |->
     IF kc - b.first + 1 \in DOMAIN b.btns /\ b.btns[kc - b.first + 1] \in Letters
     THEN BindToMask(b.btns[kc - b.first + 1]) ELSE map[kc]]

\* evdev_md_default_map: Home to Page Down, Z X C, A S D F, Enter, the
\* joystick, the gamepad, Alt.
From(kc, btns) == [first |-> kc, btns |-> btns]
DefaultMap ==
  <<From(102, <<"a", "u", "0", "l", "r", "c", "d", "b">>), From(44, <<"a", "b", "c">>),
    From(30, <<"x", "y", "z", "m">>), From(28, <<"s">>),
    From(288, <<"x", "c", "b", "a", "y", "z", "s", "m", "0", "s">>),
    From(304, <<"a", "b", "c", "x", "y", "z", "s", "m", "0", "s">>), From(56, <<"s">>)>>
KcMap ==
  [d \in Devs |-> FoldLeft(Bind, [kc \in Args[d].keys |-> {}], DefaultMap \o Args[d].binds)]

Zone(d) == (Args[d].max - Args[d].min) \div 3
Toward(axis) == IF axis = 0 THEN <<"l", "r">> ELSE <<"u", "d">>
Pair(axis) == Range(Toward(axis))

-----------------------------------------------------------------------------
(* main's loop.                                                            *)

HostTop ==
  /\ at = "top"
  /\ Go(IF g_exit /\ "out" \notin urbs THEN "cleanup" ELSE IF open THEN "submit" ELSE "find")
  /\ UNCHANGED <<open, urbs, timeout, ready, state, dirty, fd, fds, mode, mode_changed, pkt,
                 g_exit, kernel, world, history>>

\* find_device opens the first device that is a Teensy, below two
\* directories; without one, a quarter of a second of sleep.
Free == (1..(Len(Args) + 3)) \ fds
ThirdFree == CHOOSE n \in Free : Cardinality({m \in Free : m < n}) = 2
HostFind ==
  /\ at = "find"
  /\ IF plugged
     THEN alive' = TRUE /\ fd' = ThirdFree /\ Go("walk")
     ELSE Go("top") /\ UNCHANGED <<alive, fd>>
  /\ UNCHANGED <<open, urbs, timeout, ready, state, dirty, fds, mode, mode_changed, pkt,
                 g_exit, kernel, plugged, input, rx, pads, left, history>>

\* It reads the descriptors and claims both interfaces; when they cannot be
\* read any more an endpoint is missing, which ends the program.
HostWalk ==
  /\ at = "walk"
  /\ IF alive
     THEN open' = TRUE /\ urbs' = {} /\ timeout' = TRUE /\ Go("submit")
     ELSE Go("cleanup") /\ UNCHANGED <<open, urbs, timeout>>
  /\ UNCHANGED <<ready, state, dirty, fd, fds, mode, mode_changed, pkt, g_exit, kernel,
                 world, history>>

\* The two IN URBs; an error ends the program.
HostSubmit ==
  /\ at = "submit"
  /\ LET want == {"in", "dbg"} \ urbs IN
     IF want = {} \/ alive
     THEN /\ urbs' = urbs \cup want /\ Go("select")
          /\ kernel' = [u \in Urbs |-> IF u \in want THEN "busy" ELSE kernel[u]]
     ELSE Go("cleanup") /\ UNCHANGED <<urbs, kernel>>
  /\ UNCHANGED <<open, timeout, ready, state, dirty, fd, fds, mode, mode_changed, pkt,
                 g_exit, world, history>>

\* Descriptors above dev.fd are not looked at.
Readable == {d \in fds : d < fd /\ keys[d] # <<>>}
UsbReady == ~alive \/ \E u \in Urbs : Completed(u)
HostSelect ==
  /\ at = "select"
  /\ timeout \/ stdin # <<>> \/ UsbReady \/ Readable # {}
  /\ ready' = [stdin |-> stdin # <<>>, usb |-> UsbReady, keys |-> Readable]
  /\ timeout' = FALSE /\ Go("input")
  /\ UNCHANGED <<open, urbs, state, dirty, fd, fds, mode, mode_changed, pkt, g_exit, kernel,
                 world, history>>

\* do_evdev_input of one device: what an event says of the buttons.
Low(d) == Args[d].min + Zone(d)
High(d) == Args[d].max - Zone(d)
Clears(d, ev) ==
  CASE ev.type = "abs" -> Pair(ev.code)
    [] ev.type = "key" /\ ev.value = 0 -> KcMap[d][ev.code]
    [] OTHER -> {}
Sets(d, ev) ==
  CASE ev.type = "abs" /\ ev.value < Low(d) -> {Toward(ev.code)[1]}
    [] ev.type = "abs" /\ ev.value > High(d) -> {Toward(ev.code)[2]}
    [] ev.type = "key" /\ ev.value = 1 -> KcMap[d][ev.code]
    [] OTHER -> {}

\* InSync: a change is forgotten when the next event changes nothing.
Dirtied_Bug(was, old, new) == old # new
Dirtied(was, old, new) == was \/ old # new

\* A device that cannot be read is closed, and its buttons stay as they are;
\* a key that repeats says nothing.
DoEvdevInput(d) ==
  LET ev == Head(keys[d])
      p == Args[d].player
      new == (state[p] \ Clears(d, ev)) \cup Sets(d, ev) IN
  /\ keys' = [keys EXCEPT ![d] = Tail(@)]
  /\ fds' = IF ev.type = "gone" THEN fds \ {d} ELSE fds
  /\ IF ev.type = "gone" \/ (ev.type = "key" /\ ev.value = 2)
     THEN UNCHANGED <<state, dirty>>
     ELSE /\ state' = [state EXCEPT ![p] = new]
          /\ dirty' = [dirty EXCEPT ![p] = Dirtied(@, state[p], new)]

\* ChangeIsSent: select is not told to return at once after input.
Collect_Bug == FALSE
Collect == ready.keys # {}

\* do_stdin_input; USB waits until the devices have no more events.
HostInput ==
  /\ at = "input"
  /\ IF ready.stdin
     THEN mode' = Head(stdin) /\ mode_changed' = TRUE /\ stdin' = Tail(stdin)
     ELSE UNCHANGED <<mode, mode_changed, stdin>>
  /\ timeout' = Collect
  /\ Go(IF ready.keys # {} THEN "evdev" ELSE IF ready.usb THEN "reap" ELSE "send")
  /\ UNCHANGED <<open, urbs, ready, state, dirty, fd, fds, pkt, g_exit, kernel, plugged, alive,
                 held, keys, rx, pads, left, history>>
\* One event of each readable device, in the order of the arguments.
HostEvdev ==
  /\ at = "evdev"
  /\ \E d \in ready.keys :
       /\ \A e \in ready.keys : d <= e
       /\ DoEvdevInput(d)
       /\ ready' = [ready EXCEPT !.keys = @ \ {d}]
       /\ Go(IF ready.keys = {d} THEN "top" ELSE "evdev")
  /\ UNCHANGED <<open, fd, urbs, timeout, mode, mode_changed, pkt, g_exit, kernel, plugged,
                 alive, held, stdin, rx, pads, left, history>>

\* dev_close: the kernel drops whatever is in flight.
Close ==
  /\ open' = FALSE /\ Go("top")
  /\ kernel' = [u \in Urbs |-> "none"]
  /\ excused' = IF "out" \in urbs THEN excused \cup PlayersOf(pkt) ELSE excused
  /\ strayed' = (strayed \/ ("out" \in urbs /\ pkt.type = "mode"))

\* USBDEVFS_REAPURB on a device that is gone: ENODEV, from kernels that do
\* not let the URBs be reaped any more.
HostReapGone ==
  /\ at = "reap" /\ ~alive
  /\ Close
  /\ UNCHANGED <<urbs, timeout, ready, state, dirty, fd, fds, mode, mode_changed, pkt, g_exit, world>>

\* A URB is reaped.  EILSEQ closes the device, any other error is reported
\* and forgotten; after debug text the loop first asks for more of it.
\* PendingTruth: the URB's bit is not cleared.
HostReap_Bug ==
  /\ at = "reap"
  /\ \E u \in {v \in Urbs : Completed(v)} :
       /\ kernel' = [kernel EXCEPT ![u] = "none"] /\ UNCHANGED <<urbs, open, history>>
       /\ timeout' = (u = "dbg")
       /\ Go(IF u = "dbg" THEN "top" ELSE "send")
  /\ UNCHANGED <<ready, state, dirty, fd, fds, mode, mode_changed, pkt, g_exit, world>>
HostReap ==
  /\ at = "reap"
  /\ \E u \in {v \in Urbs : Completed(v)} :
       /\ urbs' = urbs \ {u}
       /\ \/ /\ kernel[u] = "failed" /\ Close /\ UNCHANGED timeout
          \/ /\ kernel' = [kernel EXCEPT ![u] = "none"] /\ UNCHANGED <<open, history>>
             /\ timeout' = (kernel[u] = "done" /\ u = "dbg")
             /\ Go(IF timeout' THEN "top" ELSE "send")
  /\ UNCHANGED <<ready, state, dirty, fd, fds, mode, mode_changed, pkt, g_exit, world>>

Idle == "out" \notin urbs
Changed == {p \in Players : dirty[p]}
HostWait ==
  /\ at = "send" /\ ~Idle /\ Go("top")
  /\ UNCHANGED <<open, urbs, timeout, ready, state, dirty, fd, fds, mode, mode_changed, pkt,
                 g_exit, kernel, world, history>>

\* The mode goes first; if it cannot be submitted it stays to be sent.
HostSendMode ==
  /\ at = "send" /\ Idle /\ mode_changed
  /\ pkt' = [type |-> "mode", mode |-> mode]
  /\ IF alive
     THEN /\ urbs' = urbs \cup {"out"} /\ kernel' = [kernel EXCEPT !["out"] = "busy"]
          /\ mode_changed' = FALSE /\ strayed' = FALSE
     ELSE UNCHANGED <<urbs, kernel, mode_changed, strayed>>
  /\ Go("top")
  /\ UNCHANGED <<open, timeout, ready, state, dirty, fd, fds, mode, g_exit, world, excused>>

\* The buttons of every player that changed; the flags are cleared first.
\* PacketStable: the packet is filled in before asking whether it may be.
HostSendButtons_Bug ==
  /\ at = "send" /\ ~mode_changed
  /\ dirty' = [p \in Players |-> FALSE]
  /\ pkt' = IF Changed = {} THEN NoPkt
            ELSE [type |-> "btns", btns |-> [p \in Changed |-> state[p]]]
  /\ IF Changed # {} /\ alive
     THEN /\ urbs' = urbs \cup {"out"} /\ kernel' = [kernel EXCEPT !["out"] = "busy"]
          /\ excused' = excused \ Changed
     ELSE UNCHANGED <<urbs, kernel, excused>>
  /\ Go(IF Changed # {} /\ ~alive THEN "cleanup" ELSE "top")
  /\ UNCHANGED <<open, timeout, ready, state, fd, fds, mode, mode_changed, g_exit, world, strayed>>
HostSendButtons ==
  /\ at = "send" /\ Idle /\ ~mode_changed
  /\ dirty' = [p \in Players |-> FALSE]
  /\ pkt' = IF Changed = {} THEN NoPkt
            ELSE [type |-> "btns", btns |-> [p \in Changed |-> state[p]]]
  /\ IF Changed # {} /\ alive
     THEN /\ urbs' = urbs \cup {"out"} /\ kernel' = [kernel EXCEPT !["out"] = "busy"]
          /\ excused' = excused \ Changed
     ELSE UNCHANGED <<urbs, kernel, excused>>
  /\ Go(IF Changed # {} /\ ~alive THEN "cleanup" ELSE "top")
  /\ UNCHANGED <<open, timeout, ready, state, fd, fds, mode, mode_changed, g_exit, world, strayed>>

\* After the loop: the IN URBs are discarded, an OUT URB is waited for.
HostCleanup ==
  /\ at = "cleanup"
  /\ open => kernel["out"] # "busy"
  /\ Go("exited") /\ open' = FALSE /\ kernel' = [u \in Urbs |-> "none"]
  /\ UNCHANGED <<urbs, timeout, ready, state, dirty, fd, fds, mode, mode_changed, pkt,
                 g_exit, world, history>>

Host == \/ HostTop \/ HostFind \/ HostWalk \/ HostSubmit \/ HostSelect \/ HostInput
        \/ HostEvdev \/ HostReapGone \/ HostReap \/ HostWait \/ HostSendMode \/ HostSendButtons
        \/ HostCleanup

\* SIGINT: the handler sets the flag, and select is interrupted.
Interrupt ==
  /\ ~g_exit /\ at # "exited" /\ g_exit' = TRUE
  /\ at' = IF at = "select" THEN "cleanup" ELSE at
  /\ UNCHANGED <<open, urbs, timeout, ready, state, dirty, fd, fds, mode, mode_changed, pkt,
                 kernel, world, history>>

-----------------------------------------------------------------------------
(* The kernel, the firmware and the user.                                  *)

WorldKeep == UNCHANGED <<host, g_exit>>
Count(what) == left[what] > 0 /\ left' = [left EXCEPT ![what] = @ - 1]

OutDone ==
  /\ kernel["out"] = "busy" /\ alive /\ Len(rx) < 2
  /\ kernel' = [kernel EXCEPT !["out"] = "done"]
  /\ rx' = Append(rx, pkt)
  /\ WorldKeep /\ UNCHANGED <<plugged, alive, input, pads, left, history>>
OutFails ==
  /\ kernel["out"] = "busy" /\ alive /\ Count("fails")
  /\ kernel' = [kernel EXCEPT !["out"] = "failed"]
  /\ excused' = excused \cup PlayersOf(pkt)
  /\ strayed' = (strayed \/ pkt.type = "mode")
  /\ WorldKeep /\ UNCHANGED <<plugged, alive, input, rx, pads>>
DebugText ==
  /\ kernel["dbg"] = "busy" /\ alive /\ Count("prints")
  /\ kernel' = [kernel EXCEPT !["dbg"] = "done"]
  /\ WorldKeep /\ UNCHANGED <<plugged, alive, input, rx, pads, history>>

\* do_usb: a mode packet also releases every button (clear_state); the
\* button modes have two players.
Underway ==  \* players that a later packet is about
  UNION {PlayersOf(p) : p \in {rx[i] : i \in 2..Len(rx)}
                          \cup (IF kernel["out"] = "busy" THEN {pkt} ELSE {})}
Served(m) == IF m = "tp" THEN Players ELSE Players \cap {0, 1}
DoUsb ==
  /\ rx # <<>> /\ rx' = Tail(rx)
  /\ LET p == Head(rx) IN
     IF p.type = "mode"
     THEN /\ pads' = [mode |-> p.mode, btn |-> Nothing]
          /\ excused' = excused \cup ({q \in Players : pads.btn[q] # {}} \ Underway)
     ELSE LET who == DOMAIN p.btns \cap Served(pads.mode) IN
          /\ pads' = [pads EXCEPT !.btn = [q \in Players |-> IF q \in who THEN p.btns[q] ELSE @[q]]]
          /\ excused' = excused \cup ((DOMAIN p.btns \ who) \ Underway)
  /\ WorldKeep /\ UNCHANGED <<kernel, plugged, alive, input, left, strayed>>

\* The firmware starts anew: three buttons, nothing pressed.
Unplug ==
  /\ plugged /\ Count("unplugs")
  /\ plugged' = FALSE /\ alive' = FALSE /\ rx' = <<>> /\ pads' = Fresh
  /\ kernel' = [u \in Urbs |-> IF kernel[u] = "busy" THEN "failed" ELSE kernel[u]]
  /\ excused' = Players /\ strayed' = TRUE
  /\ WorldKeep /\ UNCHANGED input
Plug ==
  /\ ~plugged /\ plugged' = TRUE
  /\ WorldKeep /\ UNCHANGED <<kernel, alive, input, rx, pads, left, history>>

AtRest(d) ==
  [down |-> {}, stick |-> [a \in Args[d].axes |-> (Args[d].min + Args[d].max) \div 2]]

\* A key goes down, is held or goes up, a stick moves, a device is removed
\* (what it had reported is gone with it).
Attached(d) == \A i \in DOMAIN keys[d] : keys[d][i].type # "gone"
Report(d, ev) == keys' = [keys EXCEPT ![d] = Append(@, ev)]
Press ==
  /\ Count("keys")
  /\ \E d \in {e \in fds : Attached(e)}, v \in 0..2 : \E kc \in Args[d].keys :
       /\ (kc \in held[d].down) = (v # 1)
       /\ held' = [held EXCEPT ![d].down = IF v = 0 THEN @ \ {kc} ELSE @ \cup {kc}]
       /\ Report(d, [type |-> "key", code |-> kc, value |-> v])
  /\ WorldKeep /\ UNCHANGED <<kernel, plugged, alive, stdin, rx, pads, history>>
Tilt ==
  /\ Count("keys")
  /\ \E d \in {e \in fds : Attached(e)}, v \in Places : \E a \in Args[d].axes :
       /\ held[d].stick[a] # v
       /\ held' = [held EXCEPT ![d].stick[a] = v]
       /\ Report(d, [type |-> "abs", code |-> a, value |-> v])
  /\ WorldKeep /\ UNCHANGED <<kernel, plugged, alive, stdin, rx, pads, history>>
Detach ==
  /\ Count("detaches")
  /\ \E d \in {e \in fds : Attached(e)} :
       /\ keys' = [keys EXCEPT ![d] = <<[type |-> "gone"]>>]
       /\ held' = [held EXCEPT ![d] = AtRest(d)]
  /\ WorldKeep /\ UNCHANGED <<kernel, plugged, alive, stdin, rx, pads, history>>
SelectMode ==
  /\ Count("selects")
  /\ \E m \in Modes : stdin' = Append(stdin, m)
  /\ WorldKeep /\ UNCHANGED <<kernel, plugged, alive, held, keys, rx, pads, history>>

Usb == OutDone \/ DoUsb
World == Usb \/ OutFails \/ DebugText \/ Unplug \/ Plug \/ Press \/ Tilt \/ Detach \/ SelectMode

HostInit ==
  /\ at = "top" /\ open = FALSE /\ urbs = {} /\ timeout = FALSE
  /\ ready = [stdin |-> FALSE, usb |-> FALSE, keys |-> {}]
  /\ state = Nothing /\ dirty = [p \in Players |-> FALSE]
  /\ pkt = NoPkt /\ g_exit = FALSE /\ fds = Devs /\ fd = 0
  /\ \E b \in Budgets :
       \/ mode = "3btn" /\ mode_changed = FALSE /\ left = b
       \/ /\ mode \in Modes /\ mode_changed = TRUE    \* -m
          /\ b["selects"] > 0 /\ left = [b EXCEPT !["selects"] = @ - 1]
  /\ kernel = [u \in Urbs |-> "none"] /\ plugged = TRUE /\ alive = FALSE
  /\ held = [d \in Devs |-> AtRest(d)]
  /\ keys = [d \in Devs |-> <<>>] /\ stdin = <<>> /\ rx = <<>>
  /\ pads = Fresh /\ excused = {} /\ strayed = FALSE

HostNext == Host \/ Interrupt \/ World
HostSpec == HostInit /\ [][HostNext]_vars

\* The program and the firmware keep running and the bus keeps delivering;
\* the user, the unplugging and the failures are under no obligation.
FairHostSpec == HostSpec /\ WF_vars(Host) /\ WF_vars(OutDone) /\ WF_vars(DoUsb)

-----------------------------------------------------------------------------
(***************************************************************************)
(* main's variables, the URBs, the packets on their way and the firmware's *)
(* answer for every player have the values the code can give them.         *)
(***************************************************************************)
HostTypeOK ==
  /\ at \in {"top", "find", "walk", "submit", "select", "input", "evdev", "reap", "send",
            "cleanup", "exited"}
  /\ {open, timeout, mode_changed, g_exit, plugged, alive, strayed} \subseteq BOOLEAN
  /\ urbs \subseteq Urbs /\ kernel \in [Urbs -> {"none", "busy", "done", "failed"}]
  /\ state \in [Players -> SUBSET Letters] /\ fds \subseteq Devs /\ fd \in Nat
  /\ dirty \in [Players -> BOOLEAN]
  /\ {mode, pads.mode} \subseteq {"3btn", "6btn", "tp"} /\ pads.btn \in [Players -> SUBSET Letters]
  /\ excused \subseteq Players /\ Len(rx) <= 2

(***************************************************************************)
(* pending_urbs is what the kernel holds: no URB is submitted twice and    *)
(* none is forgotten, through errors, unplugging and reconnecting.         *)
(***************************************************************************)
PendingTruth == open => \A u \in Urbs : u \in urbs <=> kernel[u] # "none"

(***************************************************************************)
(* pkt_out is not touched while the kernel is sending it.                  *)
(***************************************************************************)
PacketStable == [][kernel["out"] = "busy" /\ kernel'["out"] = "busy" => pkt' = pkt]_vars

Settled ==
  /\ open /\ alive /\ at = "select" /\ ~timeout
  /\ stdin = <<>> /\ rx = <<>> /\ kernel["out"] = "none"
  /\ ~mode_changed /\ (\A d \in fds : keys[d] = <<>>) /\ \A p \in Players : ~dirty[p]

\* What a player's hands do, by the devices alone: the inputs of a button,
\* and the buttons with an input that is held.  A stick leans when it is
\* a whole unit inside an outer third of its range.
Inputs(p, b) ==
  UNION {{<<d, "key", kc>> : kc \in {k \in Args[d].keys : b \in KcMap[d][k]}}
         \cup {<<d, "axis", a>> : a \in {x \in Args[d].axes : b \in Pair(x)}} :
         d \in {e \in Devs : Args[e].player = p}}
Leaning(d, a) ==
  LET low == held[d].stick[a] - Args[d].min
      high == Args[d].max - held[d].stick[a]
      range == Args[d].max - Args[d].min IN
  (IF 3 * (low + 1) <= range THEN {Toward(a)[1]} ELSE {})
    \cup (IF 3 * (high + 1) <= range THEN {Toward(a)[2]} ELSE {})
Pressed(p) ==
  UNION {(UNION {KcMap[d][k] : k \in held[d].down})
           \cup (UNION {Leaning(d, a) : a \in Args[d].axes}) :
         d \in {e \in Devs : Args[e].player = p}}
Sole == [p \in Players |-> {b \in Letters : \E i \in Inputs(p, b) : Inputs(p, b) = {i}}]
Whole(p) == \A d \in Devs : Args[d].player = p => d \in fds

(***************************************************************************)
(* When there is nothing left to do the pads show what the players hold,   *)
(* in the mode the host is in, except where a report was wiped by a mode   *)
(* packet, refused by the mode, or lost with a transfer or the device.     *)
(* What the players hold is what their hands do: nothing that no key or    *)
(* stick holds, and everything that one holds for which there is no other. *)
(* (Of two keys for a button, the first that is let go releases it; the    *)
(* buttons of a device that was removed stay as they were.)                *)
(***************************************************************************)
InSync == Settled =>
  /\ mode = pads.mode \/ strayed
  /\ \A p \in Players \ excused : pads.btn[p] = state[p]
  /\ \A p \in Players : Whole(p) =>
       state[p] \subseteq Pressed(p) /\ Pressed(p) \cap Sole[p] \subseteq state[p]

(***************************************************************************)
(* Nothing stays pressed that nobody holds (do_evdev_input closes a device *)
(* that cannot be read, and leaves the player's buttons as they are).      *)
(***************************************************************************)
NoneStuck == Settled => \A p \in Players : state[p] \subseteq Pressed(p)

(***************************************************************************)
(* A change is sent, and its transfer ends, unless the program has ended   *)
(* or there is no device to send it to.                                    *)
(***************************************************************************)
ChangeIsSent == \A p \in Players :
  dirty[p] ~> (~dirty[p] /\ kernel["out"] # "busy") \/ at = "exited" \/ ~alive

(***************************************************************************)
(* "we wait first, then send commands": a Teensy that has been opened and  *)
(* waited for is in the mode that the host is in.                          *)
(***************************************************************************)
CommandsSent == Settled => pads.mode = mode
=============================================================================
