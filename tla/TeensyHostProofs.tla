-------------------------- MODULE TeensyHostProofs --------------------------
(***************************************************************************)
(* For any input devices, modes and bounds: teensytp's host always knows   *)
(* which URBs the kernel has, leaves the packet alone that it sends, and   *)
(* in the end has the pads show what the players hold.                     *)
(***************************************************************************)
EXTENDS TeensyHost, TLAPS

(***************************************************************************)
(* With a device the bits are the kernel's; without one, which is known    *)
(* from where the loop is, the kernel has nothing.                         *)
(***************************************************************************)
WithDevice == {"submit", "select", "input", "evdev", "reap", "send"}
WithoutDevice == {"find", "walk", "exited"}
KernelInv ==
  /\ at \in WithDevice \cup WithoutDevice \cup {"top", "cleanup"}
  /\ at \in WithDevice => open
  /\ at \in WithoutDevice => ~open
  /\ urbs \subseteq Urbs
  /\ kernel = [u \in Urbs |-> kernel[u]]
  /\ PendingTruth
  /\ ~open => \A u \in Urbs : kernel[u] = "none"

LEMMA KernelInitially == HostInit => KernelInv
BY DEF HostInit, KernelInv, WithDevice, WithoutDevice, PendingTruth, Urbs

LEMMA KernelClosed ==
  ASSUME KernelInv, Close, urbs' \subseteq urbs PROVE KernelInv'
BY DEF KernelInv, Close, Go, WithDevice, WithoutDevice, PendingTruth

\* The loop without USB transfers: only where it is changes.
LEMMA KernelAside ==
  ASSUME KernelInv,
         HostTop \/ HostFind \/ HostSelect \/ HostInput \/ HostEvdev \/ HostWait \/ Interrupt
  PROVE  KernelInv'
<1> USE DEF KernelInv, WithDevice, WithoutDevice, PendingTruth, Go, history
<1>1. CASE HostTop
  BY <1>1 DEF HostTop
<1>2. CASE HostFind
  BY <1>2 DEF HostFind
<1>3. CASE HostSelect
  BY <1>3 DEF HostSelect
<1>4. CASE HostInput
  BY <1>4 DEF HostInput
<1>5. CASE HostWait
  BY <1>5 DEF HostWait
<1>6. CASE Interrupt
  BY <1>6 DEF Interrupt
<1>7. CASE HostEvdev
  <2>1. at' \in {"top", "evdev"} /\ at = "evdev" /\ UNCHANGED <<open, urbs, kernel>>
    BY <1>7 DEF HostEvdev
  <2>. QED
    BY <2>1
<1>. QED
  BY <1>1, <1>2, <1>3, <1>4, <1>5, <1>6, <1>7

\* What the loop submits and reaps.
LEMMA KernelTransfers ==
  ASSUME KernelInv,
         \/ HostWalk \/ HostSubmit \/ HostReapGone \/ HostReap
         \/ HostSendMode \/ HostSendButtons \/ HostCleanup
  PROVE  KernelInv'
<1> USE DEF WithDevice, WithoutDevice, PendingTruth, Go, Urbs
<1>1. CASE HostWalk
  BY <1>1 DEF HostWalk, KernelInv
<1>2. CASE HostSubmit
  BY <1>2 DEF HostSubmit, KernelInv
<1>3. CASE HostReapGone
  BY <1>3, KernelClosed DEF HostReapGone
<1>4. CASE HostReap
  <2>1. PICK u \in Urbs :
          /\ Completed(u) /\ urbs' = urbs \ {u}
          /\ \/ Close
             \/ /\ kernel' = [kernel EXCEPT ![u] = "none"] /\ UNCHANGED open
                /\ at' \in {"top", "send"}
    BY <1>4 DEF HostReap
  <2>2. CASE Close
    BY <2>1, <2>2, KernelClosed
  <2>3. CASE ~Close
    <3>1. at = "reap"
      BY <1>4 DEF HostReap
    <3>2. /\ urbs' = urbs \ {u} /\ kernel' = [kernel EXCEPT ![u] = "none"]
          /\ open' = open /\ at' \in {"top", "send"}
      BY <2>1, <2>3
    <3>3. open /\ PendingTruth
      BY <3>1 DEF KernelInv
    <3>4. kernel' = [v \in Urbs |-> IF v = u THEN "none" ELSE kernel[v]]
      BY <3>2 DEF KernelInv
    <3>. QED
      BY <3>2, <3>3, <3>4 DEF KernelInv
  <2>. QED
    BY <2>2, <2>3
<1>5. CASE HostSendMode
  BY <1>5 DEF HostSendMode, KernelInv
<1>6. CASE HostSendButtons
  BY <1>6 DEF HostSendButtons, KernelInv
<1>7. CASE HostCleanup
  BY <1>7 DEF HostCleanup, KernelInv
<1>. QED
  BY <1>1, <1>2, <1>3, <1>4, <1>5, <1>6, <1>7

\* The kernel ends transfers that it has, the rest of the world has none.
LEMMA KernelWorld == ASSUME KernelInv, World PROVE KernelInv'
<1> USE DEF WithDevice, WithoutDevice, PendingTruth, WorldKeep, host, KernelInv, Urbs
<1>1. CASE OutDone \/ OutFails \/ DebugText
  BY <1>1 DEF OutDone, OutFails, DebugText
<1>2. CASE Unplug
  BY <1>2 DEF Unplug
<1>3. CASE DoUsb \/ Plug \/ Press \/ Tilt \/ Detach \/ SelectMode
  BY <1>3 DEF DoUsb, Plug, Press, Tilt, Detach, SelectMode
<1>. QED
  BY <1>1, <1>2, <1>3 DEF World, Usb

LEMMA KernelStep == KernelInv /\ [HostNext]_vars => KernelInv'
<1>1. ASSUME KernelInv, UNCHANGED vars PROVE KernelInv'
  BY <1>1 DEF KernelInv, PendingTruth, vars, host
<1>. QED
  BY <1>1, KernelAside, KernelTransfers, KernelWorld DEF HostNext, Host

(***************************************************************************)
(* pending_urbs is what the kernel holds (main.c:753-773, 812-866).        *)
(***************************************************************************)
THEOREM HostKnowsPending == HostSpec => []PendingTruth
<1>1. KernelInv => PendingTruth
  BY DEF KernelInv
<1>. QED
  BY <1>1, KernelInitially, KernelStep, PTL DEF HostSpec

(***************************************************************************)
(* pkt_out is filled in only when no OUT URB is pending (main.c:869).      *)
(***************************************************************************)
THEOREM HostLeavesPacket == HostSpec => PacketStable
<1>1. ASSUME KernelInv, [HostNext]_vars, kernel["out"] = "busy", kernel'["out"] = "busy"
      PROVE  pkt' = pkt
  <2>1. ~(at = "send" /\ Idle)
    BY <1>1 DEF KernelInv, WithDevice, PendingTruth, Idle, Urbs
  <2>2. CASE World \/ UNCHANGED vars
    BY <2>2 DEF World, Usb, OutDone, OutFails, DebugText, DoUsb, Unplug, Plug, Press, Tilt,
                Detach, SelectMode, WorldKeep, host, vars
  <2>3. CASE Host \/ Interrupt
    BY <2>1, <2>3 DEF Host, HostTop, HostFind, HostWalk, HostSubmit, HostSelect, HostInput, HostEvdev,
       HostReapGone, HostReap, HostWait, HostSendMode, HostSendButtons, HostCleanup, Interrupt
  <2>. QED
    BY <1>1, <2>2, <2>3 DEF HostNext
<1>2. KernelInv /\ [HostNext]_vars
        => [kernel["out"] = "busy" /\ kernel'["out"] = "busy" => pkt' = pkt]_vars
  BY <1>1
<1>. QED
  BY <1>2, KernelInitially, KernelStep, PTL DEF HostSpec, PacketStable
-----------------------------------------------------------------------------
(***************************************************************************)
(* What the pads show is what the players hold.  On the way from the hands *)
(* to the pads a change is in a device's queue, in players[], in the       *)
(* packet that is being sent, or in the Teensy's buffers.                  *)
(***************************************************************************)
Masks ==
  {"l", "r", "u", "d"} \cup UNION {UNION {KcMap[d][kc] : kc \in Args[d].keys} : d \in Devs}
Packets ==
  [type : {"mode"}, mode : Modes \cup {"3btn"}]
    \cup UNION {[type : {"btns"}, btns : [who -> SUBSET Masks]] : who \in SUBSET Players}
Events(d) ==
  [type : {"key"}, code : Args[d].keys, value : 0..2]
    \cup [type : {"abs"}, code : Args[d].axes, value : Int] \cup {[type |-> "gone"]}
Hands(d) == [down : SUBSET Args[d].keys, stick : [Args[d].axes -> Int]]

LoopTypes ==
  /\ state \in [Players -> SUBSET Masks] /\ dirty \in [Players -> BOOLEAN]
  /\ pkt \in {NoPkt} \cup Packets /\ rx \in Seq(Packets)
  /\ kernel["out"] = "busy" => pkt \in Packets
  /\ mode \in Modes \cup {"3btn"} /\ stdin \in Seq(Modes)
  /\ pads = [mode |-> pads.mode, btn |-> pads.btn] /\ pads.btn \in [Players -> SUBSET Masks]
  /\ ready = [stdin |-> ready.stdin, usb |-> ready.usb, keys |-> ready.keys]
  /\ fds \subseteq Devs /\ ready.keys \subseteq Devs
  /\ {mode_changed, strayed} \subseteq BOOLEAN
HandTypes ==
  /\ keys = [d \in Devs |-> keys[d]] /\ held = [d \in Devs |-> held[d]]
  /\ \A d \in Devs : keys[d] \in Seq(Events(d)) /\ held[d] \in Hands(d)
\* What select found is still there.
StillReady ==
  /\ at = "input" /\ ready.stdin => stdin # <<>>
  /\ at \in {"input", "evdev"} => \A d \in ready.keys : keys[d] # <<>>

(***************************************************************************)
(* The packets: what was sent last is what the host has.                   *)
(***************************************************************************)
Flying(p) == kernel["out"] = "busy" /\ p \in PlayersOf(pkt)
About(p, i) == p \in PlayersOf(rx[i])
BtnsKnown(p) ==
  /\ Flying(p) => pkt.btns[p] = state[p]
  /\ ~Flying(p) =>
       /\ \A i \in DOMAIN rx :
            About(p, i) /\ (\A j \in DOMAIN rx : j > i => ~About(p, j)) => rx[i].btns[p] = state[p]
       /\ (\A i \in DOMAIN rx : ~About(p, i)) => pads.btn[p] = state[p]
FlyingMode == kernel["out"] = "busy" /\ pkt.type = "mode"
IsMode(i) == rx[i].type = "mode"
ModeKnown ==
  /\ FlyingMode => pkt.mode = mode
  /\ ~FlyingMode =>
       /\ \A i \in DOMAIN rx :
            IsMode(i) /\ (\A j \in DOMAIN rx : j > i => ~IsMode(j)) => rx[i].mode = mode
       /\ (\A i \in DOMAIN rx : ~IsMode(i)) => pads.mode = mode
PipeInv ==
  /\ \A p \in Players \ excused : dirty[p] = FALSE => BtnsKnown(p)
  /\ strayed = FALSE /\ mode_changed = FALSE => ModeKnown
  /\ open /\ ~alive => strayed = TRUE /\ \A p \in Players : p \in excused

(***************************************************************************)
(* The hands: a key's events tell where it was before, the last of them,   *)
(* or of a stick's, where it is now.                                       *)
(***************************************************************************)
KeyAt(q, i, kc) == q[i].type = "key" /\ q[i].code = kc
\* After the first n events, the key was down.
DownFrom(q, n, kc, down) ==
  \/ \E j \in DOMAIN q : j > n /\ KeyAt(q, j, kc) /\ q[j].value # 1
                         /\ \A m \in DOMAIN q : n < m /\ m < j => ~KeyAt(q, m, kc)
  \/ kc \in down /\ \A j \in DOMAIN q : j > n => ~KeyAt(q, j, kc)
KeysTell(q, down) ==
  \A i \in DOMAIN q : q[i].type = "key" =>
    (DownFrom(q, i, q[i].code, down) <=> q[i].value # 0)
AbsAt(q, i, a) == q[i].type = "abs" /\ q[i].code = a
SticksTell(q, stick) ==
  \A i \in DOMAIN q :
    q[i].type = "abs" /\ (\A j \in DOMAIN q : j > i => ~AbsAt(q, j, q[i].code)) =>
      stick[q[i].code] = q[i].value
Moving(q, a) == \E i \in DOMAIN q : AbsAt(q, i, a)

Live(p) ==
  \A d \in Devs : Args[d].player = p =>
    d \in fds /\ \A i \in DOMAIN keys[d] : keys[d][i].type # "gone"
KeyHolds(d, kc, b) == b \in KcMap[d][kc] /\ DownFrom(keys[d], 0, kc, held[d].down)
StickHolds(d, a, b) == b \in Leaning(d, a) /\ ~Moving(keys[d], a)
StickMay(d, a, b) == b \in Pair(a) /\ (Moving(keys[d], a) \/ b \in Leaning(d, a))
NoneExtra(p) ==
  \A b \in state[p] : \E d \in Devs :
    /\ Args[d].player = p
    /\ \/ \E kc \in Args[d].keys : KeyHolds(d, kc, b)
       \/ \E a \in Args[d].axes : StickMay(d, a, b)
NoneMissing(p) ==
  \A b \in Sole[p] : \A d \in Devs : Args[d].player = p =>
    /\ \A kc \in Args[d].keys : KeyHolds(d, kc, b) => b \in state[p]
    /\ \A a \in Args[d].axes : StickHolds(d, a, b) => b \in state[p]
HandsInv ==
  /\ \A d \in Devs : KeysTell(keys[d], held[d].down) /\ SticksTell(keys[d], held[d].stick)
  /\ \A p \in Players : Live(p) => NoneExtra(p) /\ NoneMissing(p)

SyncInv == KernelInv /\ LoopTypes /\ HandTypes /\ StillReady /\ PipeInv /\ HandsInv

-----------------------------------------------------------------------------
(* A device's queue.                                                       *)

\* An event that is added is the last one, the others stay.
LEMMA Appended ==
  ASSUME NEW S, NEW q \in Seq(S), NEW e \in S, NEW r, r = Append(q, e)
  PROVE  /\ r \in Seq(S) /\ Len(q) \in Nat /\ DOMAIN q = 1..Len(q) /\ DOMAIN r = 1..(Len(q) + 1)
         /\ r[Len(q) + 1] = e /\ \A i \in 1..Len(q) : r[i] = q[i]
OBVIOUS

\* The events that are left when the first has been read.
LEMMA ReadOne ==
  ASSUME NEW S, NEW q \in Seq(S), q # <<>>, NEW r, r = Tail(q)
  PROVE  /\ r \in Seq(S) /\ Len(q) \in Nat /\ Len(q) > 0 /\ DOMAIN q = 1..Len(q)
         /\ DOMAIN r = 1..(Len(q) - 1) /\ \A i \in 1..(Len(q) - 1) : r[i] = q[i + 1]
         /\ Head(q) = q[1] /\ Head(q) \in S
OBVIOUS

\* A new event on a key says where the key was before; what the others say
\* does not change.
KeyTold(q, r, down, now) ==
  KeysTell(r, now) /\ \A kc : DownFrom(r, 0, kc, now) <=> DownFrom(q, 0, kc, down)
LEMMA NewKeyEvent ==
  ASSUME NEW S, NEW q \in Seq(S), NEW e \in S, NEW r, r = Append(q, e),
         e.type = "key", e.value \in 0..2,
         NEW down, (e.code \in down) = (e.value # 1),
         NEW now, now = IF e.value = 0 THEN down \ {e.code} ELSE down \cup {e.code},
         KeysTell(q, down)
  PROVE  KeyTold(q, r, down, now)
<1>1. /\ Len(q) \in Nat /\ DOMAIN q = 1..Len(q) /\ DOMAIN r = 1..(Len(q) + 1)
      /\ r[Len(q) + 1] = e /\ \A i \in 1..Len(q) : r[i] = q[i]
  BY Appended
<1> DEFINE last == Len(q) + 1
<1>2. \A kc : DownFrom(r, last, kc, now) <=> kc \in now
  BY <1>1 DEF DownFrom
<1>3. ASSUME NEW n \in 0..Len(q), NEW kc, kc # e.code
      PROVE  DownFrom(r, n, kc, now) <=> DownFrom(q, n, kc, down)
  <2>1. ~KeyAt(r, last, kc) /\ \A i \in 1..Len(q) : KeyAt(r, i, kc) <=> KeyAt(q, i, kc)
    BY <1>1, <1>3 DEF KeyAt
  <2>2. kc \in now <=> kc \in down
    BY <1>3
  <2>3. DownFrom(r, n, kc, now) => DownFrom(q, n, kc, down)
    BY <1>1, <2>1, <2>2 DEF DownFrom
  <2>4. DownFrom(q, n, kc, down) => DownFrom(r, n, kc, now)
    BY <1>1, <2>1, <2>2 DEF DownFrom
  <2>. QED
    BY <2>3, <2>4
<1>4. ASSUME NEW n \in 0..Len(q)
      PROVE  DownFrom(r, n, e.code, now) <=> DownFrom(q, n, e.code, down)
  <2>1. KeyAt(r, last, e.code) /\ \A i \in 1..Len(q) : KeyAt(r, i, e.code) <=> KeyAt(q, i, e.code)
    BY <1>1 DEF KeyAt
  <2>2. CASE \E j \in 1..Len(q) : j > n /\ KeyAt(q, j, e.code)
    <3>1. ~\A j \in DOMAIN r : j > n => ~KeyAt(r, j, e.code)
      BY <1>1, <2>1, <2>2
    <3>2. ~\A j \in DOMAIN q : j > n => ~KeyAt(q, j, e.code)
      BY <1>1, <2>2
    <3>3. DownFrom(r, n, e.code, now) => DownFrom(q, n, e.code, down)
      BY <1>1, <2>1, <2>2, <3>1 DEF DownFrom
    <3>4. DownFrom(q, n, e.code, down) => DownFrom(r, n, e.code, now)
      BY <1>1, <2>1, <3>2 DEF DownFrom
    <3>. QED
      BY <3>3, <3>4
  <2>3. CASE ~\E j \in 1..Len(q) : j > n /\ KeyAt(q, j, e.code)
    <3>1. DownFrom(q, n, e.code, down) <=> e.code \in down
      BY <1>1, <2>3 DEF DownFrom
    <3>2. DownFrom(r, n, e.code, now) <=> e.value # 1
      BY <1>1, <2>1, <2>3 DEF DownFrom
    <3>. QED
      BY <3>1, <3>2
  <2>. QED
    BY <2>2, <2>3
<1>5. ASSUME NEW n \in 0..Len(q), NEW kc
      PROVE  DownFrom(r, n, kc, now) <=> DownFrom(q, n, kc, down)
  BY <1>3, <1>4
<1>6. KeysTell(r, now)
  <2>1. SUFFICES ASSUME NEW i \in DOMAIN r, r[i].type = "key"
                 PROVE  DownFrom(r, i, r[i].code, now) <=> r[i].value # 0
    BY DEF KeysTell
  <2>2. CASE i = last
    <3>1. DownFrom(r, i, e.code, now) <=> e.code \in now
      BY <1>2, <2>2
    <3>2. e.code \in now <=> e.value # 0
      OBVIOUS
    <3>. QED
      BY <1>1, <2>2, <3>1, <3>2
  <2>3. CASE i \in 1..Len(q)
    <3>1. r[i] = q[i] /\ (DownFrom(q, i, q[i].code, down) <=> q[i].value # 0)
      BY <1>1, <2>1, <2>3 DEF KeysTell
    <3>2. i \in 0..Len(q)
      BY <1>1, <2>3
    <3>3. DownFrom(r, i, q[i].code, now) <=> DownFrom(q, i, q[i].code, down)
      BY <1>5, <3>2
    <3>. QED
      BY <3>1, <3>3
  <2>. QED
    BY <1>1, <2>2, <2>3
<1>7. \A kc : DownFrom(r, 0, kc, now) <=> DownFrom(q, 0, kc, down)
  <2>1. 0 \in 0..Len(q)
    BY <1>1
  <2>. QED
    BY <1>5, <2>1
<1>. QED
  BY <1>6, <1>7 DEF KeyTold

\* What the keys' events say does not change with a stick's.
LEMMA NewStickEvent ==
  ASSUME NEW S, NEW q \in Seq(S), NEW e \in S, NEW r, r = Append(q, e),
         e.type = "abs", NEW down
  PROVE  /\ KeysTell(q, down) => KeysTell(r, down)
         /\ \A kc : DownFrom(r, 0, kc, down) <=> DownFrom(q, 0, kc, down)
<1>1. /\ Len(q) \in Nat /\ DOMAIN q = 1..Len(q) /\ DOMAIN r = 1..(Len(q) + 1)
      /\ r[Len(q) + 1] = e /\ \A i \in 1..Len(q) : r[i] = q[i]
  BY Appended
<1>2. \A kc : /\ ~KeyAt(r, Len(q) + 1, kc)
              /\ \A i \in 1..Len(q) : KeyAt(r, i, kc) <=> KeyAt(q, i, kc)
  BY <1>1 DEF KeyAt
<1>3. ASSUME NEW n \in 0..Len(q), NEW kc
      PROVE  DownFrom(r, n, kc, down) <=> DownFrom(q, n, kc, down)
  <2>0. ~KeyAt(r, Len(q) + 1, kc) /\ \A i \in 1..Len(q) : KeyAt(r, i, kc) <=> KeyAt(q, i, kc)
    BY <1>2
  <2>1. DownFrom(r, n, kc, down) => DownFrom(q, n, kc, down)
    BY <1>1, <2>0 DEF DownFrom
  <2>2. ASSUME NEW j \in DOMAIN q, j > n, KeyAt(q, j, kc), q[j].value # 1,
               \A m \in DOMAIN q : n < m /\ m < j => ~KeyAt(q, m, kc)
        PROVE  DownFrom(r, n, kc, down)
    <3>1. j \in DOMAIN r /\ j > n /\ KeyAt(r, j, kc) /\ r[j].value # 1
      BY <1>1, <2>0, <2>2
    <3>2. \A m \in DOMAIN r : n < m /\ m < j => ~KeyAt(r, m, kc)
      BY <1>1, <2>0, <2>2
    <3>. QED
      BY <3>1, <3>2 DEF DownFrom
  <2>3. (\A j \in DOMAIN q : j > n => ~KeyAt(q, j, kc))
          => \A j \in DOMAIN r : j > n => ~KeyAt(r, j, kc)
    BY <1>1, <2>0
  <2>4. DownFrom(q, n, kc, down) => DownFrom(r, n, kc, down)
    BY <2>2, <2>3 DEF DownFrom
  <2>. QED
    BY <2>1, <2>4
<1>4. KeysTell(q, down) => KeysTell(r, down)
  <2>1. SUFFICES ASSUME KeysTell(q, down), NEW i \in DOMAIN r, r[i].type = "key"
                 PROVE  DownFrom(r, i, r[i].code, down) <=> r[i].value # 0
    BY DEF KeysTell
  <2>2. i \in 1..Len(q) /\ i \in 0..Len(q)
    BY <1>1, <2>1
  <2>3. r[i] = q[i] /\ (DownFrom(q, i, q[i].code, down) <=> q[i].value # 0)
    BY <1>1, <2>1, <2>2 DEF KeysTell
  <2>4. DownFrom(r, i, q[i].code, down) <=> DownFrom(q, i, q[i].code, down)
    BY <1>3, <2>2
  <2>. QED
    BY <2>3, <2>4
<1>5. \A kc : DownFrom(r, 0, kc, down) <=> DownFrom(q, 0, kc, down)
  <2>1. 0 \in 0..Len(q)
    BY <1>1
  <2>. QED
    BY <1>3, <2>1
<1>. QED
  BY <1>4, <1>5

\* Once an event has been read, its key is where the event said.
LEMMA KeyEventRead ==
  ASSUME NEW S, NEW q \in Seq(S), q # <<>>, NEW r, r = Tail(q), NEW down, KeysTell(q, down)
  PROVE  /\ KeysTell(r, down)
         /\ \A kc : ~KeyAt(q, 1, kc) => (DownFrom(r, 0, kc, down) <=> DownFrom(q, 0, kc, down))
         /\ q[1].type = "key" =>
              /\ DownFrom(q, 0, q[1].code, down) <=> q[1].value # 1
              /\ DownFrom(r, 0, q[1].code, down) <=> q[1].value # 0
<1>1. /\ Len(q) \in Nat /\ Len(q) > 0 /\ DOMAIN q = 1..Len(q)
      /\ DOMAIN r = 1..(Len(q) - 1) /\ \A i \in 1..(Len(q) - 1) : r[i] = q[i + 1]
  BY ReadOne
<1>2. \A kc : \A i \in 1..(Len(q) - 1) : KeyAt(r, i, kc) <=> KeyAt(q, i + 1, kc)
  BY <1>1 DEF KeyAt
<1>3. ASSUME NEW n \in 0..(Len(q) - 1), NEW kc
      PROVE  DownFrom(r, n, kc, down) <=> DownFrom(q, n + 1, kc, down)
  <2>1. \A i \in 2..Len(q) : i - 1 \in 1..(Len(q) - 1) /\ (i - 1) + 1 = i
                             /\ r[i - 1] = q[i] /\ (KeyAt(r, i - 1, kc) <=> KeyAt(q, i, kc))
    BY <1>1, <1>2
  <2>2. \A i \in 1..(Len(q) - 1) : i + 1 \in 2..Len(q)
    BY <1>1
  <2>3. (\A j \in DOMAIN r : j > n => ~KeyAt(r, j, kc))
          <=> (\A j \in DOMAIN q : j > n + 1 => ~KeyAt(q, j, kc))
    BY <1>1, <1>2, <2>1, <2>2
  <2>4. ASSUME NEW j \in DOMAIN r, j > n, KeyAt(r, j, kc), r[j].value # 1,
               \A m \in DOMAIN r : n < m /\ m < j => ~KeyAt(r, m, kc)
        PROVE  DownFrom(q, n + 1, kc, down)
    <3>1. j + 1 \in DOMAIN q /\ j + 1 > n + 1 /\ KeyAt(q, j + 1, kc) /\ q[j + 1].value # 1
      BY <1>1, <1>2, <2>4
    <3>2. \A m \in DOMAIN q : n + 1 < m /\ m < j + 1 => ~KeyAt(q, m, kc)
      BY <1>1, <2>1, <2>4
    <3>. QED
      BY <3>1, <3>2 DEF DownFrom
  <2>5. ASSUME NEW j \in DOMAIN q, j > n + 1, KeyAt(q, j, kc), q[j].value # 1,
               \A m \in DOMAIN q : n + 1 < m /\ m < j => ~KeyAt(q, m, kc)
        PROVE  DownFrom(r, n, kc, down)
    <3>1. j - 1 \in DOMAIN r /\ j - 1 > n /\ KeyAt(r, j - 1, kc) /\ r[j - 1].value # 1
      BY <1>1, <2>1, <2>5
    <3>2. \A m \in DOMAIN r : n < m /\ m < j - 1 => ~KeyAt(r, m, kc)
      BY <1>1, <1>2, <2>2, <2>5
    <3>. QED
      BY <3>1, <3>2 DEF DownFrom
  <2>6. DownFrom(r, n, kc, down) => DownFrom(q, n + 1, kc, down)
    BY <2>3, <2>4 DEF DownFrom
  <2>7. DownFrom(q, n + 1, kc, down) => DownFrom(r, n, kc, down)
    BY <2>3, <2>5 DEF DownFrom
  <2>. QED
    BY <2>6, <2>7
<1>4. KeysTell(r, down)
  <2>1. SUFFICES ASSUME NEW i \in DOMAIN r, r[i].type = "key"
                 PROVE  DownFrom(r, i, r[i].code, down) <=> r[i].value # 0
    BY DEF KeysTell
  <2>2. i \in 0..(Len(q) - 1) /\ i + 1 \in DOMAIN q /\ r[i] = q[i + 1]
    BY <1>1, <2>1
  <2>3. DownFrom(q, i + 1, q[i + 1].code, down) <=> q[i + 1].value # 0
    BY <2>1, <2>2 DEF KeysTell
  <2>4. DownFrom(r, i, r[i].code, down) <=> DownFrom(q, i + 1, r[i].code, down)
    BY <1>3, <2>2
  <2>. QED
    BY <2>2, <2>3, <2>4
<1>5. 0 \in 0..(Len(q) - 1) /\ 0 + 1 = 1 /\ 1 \in DOMAIN q
  BY <1>1
<1>6. \A kc : DownFrom(r, 0, kc, down) <=> DownFrom(q, 1, kc, down)
  <2>1. ASSUME NEW kc PROVE DownFrom(r, 0, kc, down) <=> DownFrom(q, 0 + 1, kc, down)
    BY <1>3, <1>5
  <2>. QED
    BY <2>1, <1>5
<1>7. ASSUME NEW kc, ~KeyAt(q, 1, kc)
      PROVE  DownFrom(q, 0, kc, down) <=> DownFrom(q, 1, kc, down)
  <2>1. DownFrom(q, 0, kc, down) => DownFrom(q, 1, kc, down)
    BY <1>1, <1>7 DEF DownFrom
  <2>2. DownFrom(q, 1, kc, down) => DownFrom(q, 0, kc, down)
    BY <1>1, <1>7 DEF DownFrom
  <2>. QED
    BY <2>1, <2>2
<1>8. ASSUME q[1].type = "key"
      PROVE  /\ DownFrom(q, 0, q[1].code, down) <=> q[1].value # 1
             /\ DownFrom(q, 1, q[1].code, down) <=> q[1].value # 0
  <2>1. KeyAt(q, 1, q[1].code)
    BY <1>8 DEF KeyAt
  <2>2. DownFrom(q, 0, q[1].code, down) => q[1].value # 1
    BY <1>1, <2>1 DEF DownFrom
  <2>3. q[1].value # 1 => DownFrom(q, 0, q[1].code, down)
    BY <1>1, <2>1 DEF DownFrom
  <2>4. DownFrom(q, 1, q[1].code, down) <=> q[1].value # 0
    BY <1>5, <1>8 DEF KeysTell
  <2>. QED
    BY <2>2, <2>3, <2>4
<1>. QED
  BY <1>4, <1>6, <1>7, <1>8

\* The last event of a stick is where it is.
LEMMA StickEvents ==
  ASSUME NEW S, NEW q \in Seq(S), NEW e \in S, NEW r, r = Append(q, e),
         NEW stick, NEW now, SticksTell(q, stick),
         e.type = "abs" => now[e.code] = e.value,
         \A a : (e.type = "abs" => a # e.code) => now[a] = stick[a]
  PROVE  SticksTell(r, now)
<1>1. /\ Len(q) \in Nat /\ DOMAIN q = 1..Len(q) /\ DOMAIN r = 1..(Len(q) + 1)
      /\ r[Len(q) + 1] = e /\ \A i \in 1..Len(q) : r[i] = q[i]
  BY Appended
<1>2. SUFFICES ASSUME NEW i \in DOMAIN r, r[i].type = "abs",
                      \A j \in DOMAIN r : j > i => ~AbsAt(r, j, r[i].code)
               PROVE  now[r[i].code] = r[i].value
  BY DEF SticksTell
<1>3. CASE i = Len(q) + 1
  BY <1>1, <1>2, <1>3
<1>4. CASE i \in 1..Len(q)
  <2>1. r[i] = q[i]
    BY <1>1, <1>4
  <2>2. Len(q) + 1 \in DOMAIN r /\ Len(q) + 1 > i
    BY <1>1, <1>4
  <2>3. ~AbsAt(r, Len(q) + 1, q[i].code)
    BY <1>2, <2>1, <2>2
  <2>4. e.type = "abs" => q[i].code # e.code
    BY <1>1, <2>3 DEF AbsAt
  <2>5. \A j \in DOMAIN q : j > i => ~AbsAt(q, j, q[i].code)
    BY <1>1, <1>2, <2>1 DEF AbsAt
  <2>6. stick[q[i].code] = q[i].value
    BY <1>1, <1>2, <1>4, <2>1, <2>5 DEF SticksTell
  <2>. QED
    BY <2>1, <2>4, <2>6
<1>. QED
  BY <1>1, <1>2, <1>3, <1>4

\* When the last of a stick's events has been read, it is where that said.
LEMMA StickEventRead ==
  ASSUME NEW S, NEW q \in Seq(S), q # <<>>, NEW r, r = Tail(q), NEW stick, SticksTell(q, stick)
  PROVE  /\ SticksTell(r, stick)
         /\ \A a : ~AbsAt(q, 1, a) => (Moving(r, a) <=> Moving(q, a))
         /\ q[1].type = "abs" /\ ~Moving(r, q[1].code) => stick[q[1].code] = q[1].value
<1>1. /\ Len(q) \in Nat /\ Len(q) > 0 /\ DOMAIN q = 1..Len(q)
      /\ DOMAIN r = 1..(Len(q) - 1) /\ \A i \in 1..(Len(q) - 1) : r[i] = q[i + 1]
  BY ReadOne
<1>2. \A i \in 1..(Len(q) - 1) : i + 1 \in DOMAIN q /\ \A a : AbsAt(r, i, a) <=> AbsAt(q, i + 1, a)
  BY <1>1 DEF AbsAt
<1>3. \A i \in DOMAIN q : i = 1 \/ (i - 1 \in DOMAIN r /\ (i - 1) + 1 = i
                                    /\ \A a : AbsAt(r, i - 1, a) <=> AbsAt(q, i, a))
  BY <1>1 DEF AbsAt
<1>4. SticksTell(r, stick)
  <2>1. SUFFICES ASSUME NEW i \in DOMAIN r, r[i].type = "abs",
                        \A j \in DOMAIN r : j > i => ~AbsAt(r, j, r[i].code)
                 PROVE  stick[r[i].code] = r[i].value
    BY DEF SticksTell
  <2>2. i + 1 \in DOMAIN q /\ r[i] = q[i + 1] /\ i \in Nat /\ i > 0
    BY <1>1, <2>1
  <2>3. \A j \in DOMAIN q : j > i + 1 => ~AbsAt(q, j, r[i].code)
    BY <1>1, <1>3, <2>1, <2>2
  <2>. QED
    BY <2>1, <2>2, <2>3 DEF SticksTell
<1>5. ASSUME NEW a, ~AbsAt(q, 1, a) PROVE Moving(r, a) <=> Moving(q, a)
  <2>1. Moving(r, a) => Moving(q, a)
    BY <1>1, <1>2 DEF Moving
  <2>2. Moving(q, a) => Moving(r, a)
    BY <1>1, <1>3, <1>5 DEF Moving
  <2>. QED
    BY <2>1, <2>2
<1>6. ASSUME q[1].type = "abs", ~Moving(r, q[1].code) PROVE stick[q[1].code] = q[1].value
  <2>1. \A j \in DOMAIN q : j > 1 => ~AbsAt(q, j, q[1].code)
    BY <1>1, <1>3, <1>6 DEF Moving
  <2>2. 1 \in DOMAIN q
    BY <1>1
  <2>. QED
    BY <1>6, <2>1, <2>2 DEF SticksTell
<1>. QED
  BY <1>4, <1>5, <1>6

-----------------------------------------------------------------------------
(* What the players do.                                                    *)

\* Nothing is held or let go as the host knows it.
LEMMA HoldsAside ==
  ASSUME HandsInv, state' = state,
         \A p \in Players : Live(p)' => Live(p),
         \A d \in Devs : \A kc \in Args[d].keys : \A b : KeyHolds(d, kc, b)' <=> KeyHolds(d, kc, b),
         \A d \in Devs : \A a \in Args[d].axes : \A b :
           (StickMay(d, a, b) => StickMay(d, a, b)') /\ (StickHolds(d, a, b)' => StickHolds(d, a, b))
  PROVE  \A p \in Players : Live(p)' => NoneExtra(p)' /\ NoneMissing(p)'
<1>1. SUFFICES ASSUME NEW p \in Players, Live(p)' PROVE NoneExtra(p)' /\ NoneMissing(p)'
  OBVIOUS
<1>2. NoneExtra(p) /\ NoneMissing(p)
  BY <1>1 DEF HandsInv
<1>3. NoneExtra(p)'
  BY <1>2 DEF NoneExtra
<1>4. NoneMissing(p)'
  BY <1>2 DEF NoneMissing
<1>. QED
  BY <1>3, <1>4

LEMMA HandsSame ==
  ASSUME HandsInv, UNCHANGED <<keys, held, fds, state>> PROVE HandsInv'
BY DEF HandsInv, Live, NoneExtra, NoneMissing, KeyHolds, StickHolds, StickMay, Leaning

\* One device's report.
Reported(d, e, h) ==
  /\ keys' = [keys EXCEPT ![d] = Append(@, e)]
  /\ held' = [held EXCEPT ![d] = h]
  /\ UNCHANGED <<fds, state>>
LEMMA ReportFields ==
  ASSUME HandTypes, NEW d \in Devs, NEW e \in Events(d), NEW h \in Hands(d), Reported(d, e, h)
  PROVE  /\ keys'[d] = Append(keys[d], e) /\ held'[d] = h /\ HandTypes'
         /\ \A x \in Devs : x # d => keys'[x] = keys[x] /\ held'[x] = held[x]
<1>1. keys'[d] = Append(keys[d], e) /\ held'[d] = h
  BY DEF HandTypes, Reported
<1>2. \A x \in Devs : x # d => keys'[x] = keys[x] /\ held'[x] = held[x]
  BY DEF HandTypes, Reported
<1>3. keys'[d] \in Seq(Events(d))
  BY <1>1 DEF HandTypes
<1>4. keys' = [x \in Devs |-> keys'[x]] /\ held' = [x \in Devs |-> held'[x]]
  BY DEF HandTypes, Reported
<1>5. HandTypes'
  BY <1>1, <1>2, <1>3, <1>4 DEF HandTypes, Events, Hands
<1>. QED
  BY <1>1, <1>2, <1>5

\* A report that leaves what the host knows of the keys, and of the sticks
\* that do not move.
LEMMA ReportKeeps ==
  ASSUME HandTypes, HandsInv, NEW d \in Devs, NEW e \in Events(d), NEW h \in Hands(d),
         Reported(d, e, h),
         KeysTell(keys'[d], h.down), SticksTell(keys'[d], h.stick),
         \A kc : DownFrom(keys'[d], 0, kc, h.down) <=> DownFrom(keys[d], 0, kc, held[d].down),
         \A a : (e.type = "abs" => a # e.code) => h.stick[a] = held[d].stick[a]
  PROVE  HandsInv'
<1>1. /\ keys'[d] = Append(keys[d], e) /\ held'[d] = h /\ keys[d] \in Seq(Events(d))
      /\ \A x \in Devs : x # d => keys'[x] = keys[x] /\ held'[x] = held[x]
  BY ReportFields DEF HandTypes
<1>2. /\ Len(keys[d]) \in Nat /\ DOMAIN keys[d] = 1..Len(keys[d])
      /\ DOMAIN keys'[d] = 1..(Len(keys[d]) + 1) /\ keys'[d][Len(keys[d]) + 1] = e
      /\ \A i \in 1..Len(keys[d]) : keys'[d][i] = keys[d][i]
  BY <1>1, Appended
<1>3. \A x \in Devs : KeysTell(keys'[x], held'[x].down) /\ SticksTell(keys'[x], held'[x].stick)
  BY <1>1 DEF HandsInv
<1>4. \A p \in Players : Live(p)' => Live(p)
  <2>1. SUFFICES ASSUME NEW p \in Players, Live(p)', NEW x \in Devs, Args[x].player = p
                 PROVE  x \in fds /\ \A i \in DOMAIN keys[x] : keys[x][i].type # "gone"
    BY DEF Live
  <2>2. x \in fds /\ \A i \in DOMAIN keys'[x] : keys'[x][i].type # "gone"
    BY <2>1 DEF Live, Reported
  <2>. QED
    BY <1>1, <1>2, <2>2
<1>5. ASSUME NEW x \in Devs, NEW kc \in Args[x].keys, NEW b
      PROVE  KeyHolds(x, kc, b)' <=> KeyHolds(x, kc, b)
  <2>1. DownFrom(keys'[x], 0, kc, held'[x].down) <=> DownFrom(keys[x], 0, kc, held[x].down)
    BY <1>1
  <2>. QED
    BY <2>1 DEF KeyHolds
<1>6. ASSUME NEW x \in Devs, NEW a \in Args[x].axes
      PROVE  \/ Moving(keys'[x], a)
             \/ /\ Moving(keys'[x], a) <=> Moving(keys[x], a)
                /\ held'[x].stick[a] = held[x].stick[a]
  <2>1. CASE x # d
    BY <1>1, <2>1
  <2>2. CASE x = d /\ e.type = "abs" /\ a = e.code
    <3>1. Len(keys[d]) + 1 \in DOMAIN keys'[x] /\ AbsAt(keys'[x], Len(keys[d]) + 1, a)
      BY <1>2, <2>2 DEF AbsAt
    <3>. QED
      BY <3>1 DEF Moving
  <2>3. CASE x = d /\ ~(e.type = "abs" /\ a = e.code)
    <3>1. Moving(keys'[x], a) <=> Moving(keys[x], a)
      BY <1>2, <2>3 DEF AbsAt, Moving
    <3>2. held'[x].stick[a] = held[x].stick[a]
      BY <1>1, <2>3
    <3>. QED
      BY <3>1, <3>2
  <2>. QED
    BY <2>1, <2>2, <2>3
<1>7. ASSUME NEW x \in Devs, NEW a \in Args[x].axes, NEW b
      PROVE  (StickMay(x, a, b) => StickMay(x, a, b)') /\ (StickHolds(x, a, b)' => StickHolds(x, a, b))
  <2>1. CASE Moving(keys'[x], a)
    BY <2>1 DEF StickMay, StickHolds
  <2>2. CASE (Moving(keys'[x], a) <=> Moving(keys[x], a)) /\ held'[x].stick[a] = held[x].stick[a]
    <3>1. Leaning(x, a)' = Leaning(x, a)
      BY <2>2 DEF Leaning
    <3>. QED
      BY <2>2, <3>1 DEF StickMay, StickHolds
  <2>. QED
    BY <1>6, <2>1, <2>2
<1>8. \A p \in Players : Live(p)' => NoneExtra(p)' /\ NoneMissing(p)'
  <2>1. state' = state
    BY DEF Reported
  <2>. QED
    BY <1>4, <1>5, <1>7, <2>1, HoldsAside
<1>. QED
  BY <1>3, <1>8 DEF HandsInv

\* The -e arguments.
LEMMA ArgTypes ==
  ASSUME NEW d \in Devs
  PROVE  /\ Args[d].min \in Int /\ Args[d].max \in Int /\ Args[d].min <= Args[d].max
         /\ Args[d].player \in Players /\ Args[d].axes \subseteq {0, 1}
<1>1. PICK R : /\ R = [player : 0..3, binds : Seq([first : Nat, btns : Seq(STRING)]),
                       keys : SUBSET Nat, axes : SUBSET {0, 1}, min : Int, max : Int]
               /\ Args \in Seq(R)
  BY HostAssumption
<1>2. Args[d] \in R
  <2>1. d \in 1..Len(Args)
    BY <1>1 DEF Devs
  <2>2. Args \in Seq(R)
    BY <1>1
  <2>. QED
    BY <2>1, <2>2
<1>3. Args[d].min \in Int /\ Args[d].max \in Int /\ Args[d].axes \subseteq {0, 1}
  BY <1>1, <1>2
<1>. QED
  BY <1>3, HostAssumption DEF Players

LEMMA HandsPress ==
  ASSUME HandTypes, HandsInv, LoopTypes, Press PROVE HandTypes' /\ HandsInv'
<1>0. PICK d \in fds, v \in 0..2 : \E kc \in Args[d].keys :
        /\ (kc \in held[d].down) = (v # 1)
        /\ held' = [held EXCEPT ![d].down = IF v = 0 THEN @ \ {kc} ELSE @ \cup {kc}]
        /\ Report(d, [type |-> "key", code |-> kc, value |-> v])
  BY DEF Press
<1>1. PICK kc \in Args[d].keys :
        /\ (kc \in held[d].down) = (v # 1)
        /\ held' = [held EXCEPT ![d].down = IF v = 0 THEN @ \ {kc} ELSE @ \cup {kc}]
        /\ Report(d, [type |-> "key", code |-> kc, value |-> v])
  BY <1>0
<1>2. PICK e : e = [type |-> "key", code |-> kc, value |-> v]
  OBVIOUS
<1>3. PICK now : now = IF v = 0 THEN held[d].down \ {kc} ELSE held[d].down \cup {kc}
  OBVIOUS
<1>4. PICK h : h = [down |-> now, stick |-> held[d].stick]
  OBVIOUS
<1>5. d \in Devs /\ keys[d] \in Seq(Events(d)) /\ held[d] \in Hands(d)
  BY DEF LoopTypes, HandTypes
<1>6. e \in Events(d) /\ e.type = "key" /\ e.code = kc /\ e.value = v
  BY <1>2 DEF Events
<1>7. h \in Hands(d) /\ h.down = now /\ h.stick = held[d].stick
  BY <1>3, <1>4, <1>5 DEF Hands
<1>8. Reported(d, e, h)
  <2>1. held' = [held EXCEPT ![d] = h]
    <3>1. held[d] = [down |-> held[d].down, stick |-> held[d].stick]
      BY <1>5 DEF Hands
    <3>2. [held[d] EXCEPT !.down = now] = h
      BY <1>4, <3>1
    <3>3. held' = [held EXCEPT ![d] = [held[d] EXCEPT !.down = now]]
      BY <1>1, <1>3, <1>5 DEF HandTypes
    <3>. QED
      BY <3>2, <3>3
  <2>. QED
    BY <1>1, <1>2, <2>1 DEF Reported, Report, Press, WorldKeep, host
<1>9. keys'[d] = Append(keys[d], e) /\ HandTypes'
  BY <1>5, <1>6, <1>7, <1>8, ReportFields
<1>10. /\ KeysTell(keys'[d], now)
       /\ \A k : DownFrom(keys'[d], 0, k, now) <=> DownFrom(keys[d], 0, k, held[d].down)
  <2>1. KeysTell(keys[d], held[d].down)
    BY <1>5 DEF HandsInv
  <2>2. (e.code \in held[d].down) = (e.value # 1) /\ e.value \in 0..2
    BY <1>1, <1>6
  <2>3. now = IF e.value = 0 THEN held[d].down \ {e.code} ELSE held[d].down \cup {e.code}
    BY <1>3, <1>6
  <2>4. PICK q, r, down : q = keys[d] /\ r = keys'[d] /\ down = held[d].down
    OBVIOUS
  <2>5. /\ q \in Seq(Events(d)) /\ r = Append(q, e) /\ KeysTell(q, down)
        /\ (e.code \in down) = (e.value # 1)
        /\ now = IF e.value = 0 THEN down \ {e.code} ELSE down \cup {e.code}
    BY <1>5, <1>9, <2>1, <2>2, <2>3, <2>4
  <2>6. KeyTold(q, r, down, now)
    BY <1>6, <2>2, <2>5, NewKeyEvent
  <2>. QED
    BY <2>4, <2>6 DEF KeyTold
<1>11. SticksTell(keys'[d], h.stick)
  <2>1. e.type # "abs" /\ SticksTell(keys[d], h.stick)
    BY <1>5, <1>6, <1>7 DEF HandsInv
  <2>. QED
    BY <1>5, <1>6, <1>9, <2>1, StickEvents
<1>. QED
  BY <1>5, <1>6, <1>7, <1>8, <1>9, <1>10, <1>11, ReportKeeps

LEMMA HandsTilt ==
  ASSUME HandTypes, HandsInv, LoopTypes, Tilt PROVE HandTypes' /\ HandsInv'
<1>0. PICK d \in fds, v \in Places : \E a \in Args[d].axes :
        /\ held' = [held EXCEPT ![d].stick[a] = v]
        /\ Report(d, [type |-> "abs", code |-> a, value |-> v])
  BY DEF Tilt
<1>1. PICK a \in Args[d].axes :
        /\ held' = [held EXCEPT ![d].stick[a] = v]
        /\ Report(d, [type |-> "abs", code |-> a, value |-> v])
  BY <1>0
<1>2. PICK e : e = [type |-> "abs", code |-> a, value |-> v]
  OBVIOUS
<1>3. PICK now : now = [held[d].stick EXCEPT ![a] = v]
  OBVIOUS
<1>4. PICK h : h = [down |-> held[d].down, stick |-> now]
  OBVIOUS
<1>5. d \in Devs /\ keys[d] \in Seq(Events(d)) /\ held[d] \in Hands(d) /\ v \in Int
  BY HostAssumption DEF LoopTypes, HandTypes
<1>6. e \in Events(d) /\ e.type = "abs" /\ e.code = a /\ e.value = v
  BY <1>2, <1>5 DEF Events
<1>7. h \in Hands(d) /\ h.down = held[d].down /\ h.stick = now
  BY <1>3, <1>4, <1>5 DEF Hands
<1>8. Reported(d, e, h)
  <2>1. held' = [held EXCEPT ![d] = h]
    <3>1. held[d] = [down |-> held[d].down, stick |-> held[d].stick]
      BY <1>5 DEF Hands
    <3>2. [held[d] EXCEPT !.stick = now] = h
      BY <1>4, <3>1
    <3>3. held' = [held EXCEPT ![d] = [held[d] EXCEPT !.stick = now]]
      BY <1>1, <1>3, <1>5 DEF HandTypes
    <3>. QED
      BY <3>2, <3>3
  <2>. QED
    BY <1>1, <1>2, <2>1 DEF Reported, Report, Tilt, WorldKeep, host
<1>9. keys'[d] = Append(keys[d], e) /\ HandTypes'
  BY <1>5, <1>6, <1>7, <1>8, ReportFields
<1>10. /\ KeysTell(keys'[d], h.down)
       /\ \A k : DownFrom(keys'[d], 0, k, h.down) <=> DownFrom(keys[d], 0, k, held[d].down)
  BY <1>5, <1>6, <1>7, <1>9, NewStickEvent DEF HandsInv
<1>11. now[a] = v /\ \A x : x # a => now[x] = held[d].stick[x]
  BY <1>3, <1>5 DEF Hands
<1>12. SticksTell(keys'[d], h.stick)
  <2>1. SticksTell(keys[d], held[d].stick)
    BY <1>5 DEF HandsInv
  <2>2. PICK q, r, stick : q = keys[d] /\ r = keys'[d] /\ stick = held[d].stick
    OBVIOUS
  <2>3. /\ q \in Seq(Events(d)) /\ r = Append(q, e) /\ SticksTell(q, stick)
        /\ now[e.code] = e.value /\ \A x : x # e.code => now[x] = stick[x]
    BY <1>5, <1>6, <1>9, <1>11, <2>1, <2>2
  <2>4. SticksTell(r, now)
    BY <1>6, <2>3, StickEvents
  <2>. QED
    BY <1>7, <2>2, <2>4
<1>. QED
  BY <1>5, <1>6, <1>7, <1>8, <1>9, <1>10, <1>11, <1>12, ReportKeeps

\* A device that is removed says nothing more, and its player's buttons do
\* not count.
LEMMA HandsDetach ==
  ASSUME HandTypes, HandsInv, LoopTypes, Detach PROVE HandTypes' /\ HandsInv'
<1>1. PICK d \in fds :
        keys' = [keys EXCEPT ![d] = <<[type |-> "gone"]>>] /\ held' = [held EXCEPT ![d] = AtRest(d)]
  BY DEF Detach
<1>2. d \in Devs /\ state' = state /\ fds' = fds
  BY DEF LoopTypes, Detach, WorldKeep, host
<1>3. PICK e : e = [type |-> "gone"]
  OBVIOUS
<1>4. /\ keys'[d] = <<e>> /\ held'[d] = AtRest(d)
      /\ \A x \in Devs : x # d => keys'[x] = keys[x] /\ held'[x] = held[x]
  BY <1>1, <1>2, <1>3 DEF HandTypes
<1>5. e \in Events(d) /\ e.type = "gone" /\ e.type # "key" /\ e.type # "abs"
  BY <1>3 DEF Events
<1>6. /\ DOMAIN keys'[d] = {1} /\ keys'[d][1] = e
  BY <1>4
<1>7. AtRest(d) \in Hands(d)
  <2>1. Args[d].min \in Int /\ Args[d].max \in Int
    BY <1>2, ArgTypes
  <2>2. (Args[d].min + Args[d].max) \div 2 \in Int
    BY <2>1
  <2>. QED
    BY <2>2 DEF AtRest, Hands
<1>8. HandTypes'
  <2>1. keys'[d] \in Seq(Events(d))
    BY <1>4, <1>5
  <2>2. keys' = [x \in Devs |-> keys'[x]] /\ held' = [x \in Devs |-> held'[x]]
    BY <1>1, <1>2 DEF HandTypes
  <2>. QED
    BY <1>4, <1>7, <2>1, <2>2 DEF HandTypes, Events, Hands
<1>9. KeysTell(keys'[d], held'[d].down) /\ SticksTell(keys'[d], held'[d].stick)
  BY <1>5, <1>6 DEF KeysTell, SticksTell
<1>10. \A x \in Devs : KeysTell(keys'[x], held'[x].down) /\ SticksTell(keys'[x], held'[x].stick)
  BY <1>4, <1>9 DEF HandsInv
<1>11. ASSUME NEW p \in Players, Live(p)' PROVE NoneExtra(p)' /\ NoneMissing(p)'
  <2>1. Args[d].player # p
    BY <1>2, <1>5, <1>6, <1>11 DEF Live
  <2>2. \A x \in Devs : Args[x].player = p => keys'[x] = keys[x] /\ held'[x] = held[x]
    BY <1>4, <2>1
  <2>3. Live(p)
    BY <1>2, <1>11, <2>2 DEF Live
  <2>4. NoneExtra(p) /\ NoneMissing(p)
    BY <2>3 DEF HandsInv
  <2>5. ASSUME NEW x \in Devs, Args[x].player = p
        PROVE  /\ \A kc \in Args[x].keys : \A b : KeyHolds(x, kc, b)' <=> KeyHolds(x, kc, b)
               /\ \A a \in Args[x].axes : \A b : StickMay(x, a, b)' <=> StickMay(x, a, b)
               /\ \A a \in Args[x].axes : \A b : StickHolds(x, a, b)' <=> StickHolds(x, a, b)
    BY <2>2, <2>5 DEF KeyHolds, StickMay, StickHolds, Leaning
  <2>6. NoneExtra(p)'
    BY <1>2, <2>4, <2>5 DEF NoneExtra
  <2>7. NoneMissing(p)'
    BY <1>2, <2>4, <2>5 DEF NoneMissing
  <2>. QED
    BY <2>6, <2>7
<1>. QED
  BY <1>8, <1>10, <1>11 DEF HandsInv

-----------------------------------------------------------------------------
(* What do_evdev_input makes of an event.                                  *)

\* A button with one input has no other.
KeyInput(p, d, kc, b) == d \in Devs /\ Args[d].player = p /\ kc \in Args[d].keys /\ b \in KcMap[d][kc]
AxisInput(p, d, a, b) == d \in Devs /\ Args[d].player = p /\ a \in Args[d].axes /\ b \in Pair(a)
LEMMA SoleInput ==
  ASSUME NEW p \in Players, NEW b \in Sole[p]
  PROVE  /\ \A d, x, k, c : KeyInput(p, d, k, b) /\ KeyInput(p, x, c, b) => d = x /\ k = c
         /\ \A d, x, k, a : ~(KeyInput(p, d, k, b) /\ AxisInput(p, x, a, b))
         /\ \A d, x, k, a : AxisInput(p, d, k, b) /\ AxisInput(p, x, a, b) => d = x /\ k = a
<1>1. PICK i : Inputs(p, b) = {i}
  BY DEF Sole
<1>2. ASSUME NEW d, NEW k, KeyInput(p, d, k, b) PROVE <<d, "key", k>> = i
  <2>1. <<d, "key", k>> \in Inputs(p, b)
    BY <1>2 DEF Inputs, KeyInput
  <2>. QED
    BY <1>1, <2>1
<1>3. ASSUME NEW d, NEW a, AxisInput(p, d, a, b) PROVE <<d, "axis", a>> = i
  <2>1. <<d, "axis", a>> \in Inputs(p, b)
    BY <1>3 DEF Inputs, AxisInput
  <2>. QED
    BY <1>1, <2>1
<1>4. \A d, x, k, c : KeyInput(p, d, k, b) /\ KeyInput(p, x, c, b) => d = x /\ k = c
  <2>1. SUFFICES ASSUME NEW d, NEW x, NEW k, NEW c, KeyInput(p, d, k, b), KeyInput(p, x, c, b)
                 PROVE  d = x /\ k = c
    OBVIOUS
  <2>2. <<d, "key", k>> = <<x, "key", c>>
    BY <1>2, <2>1
  <2>. QED
    BY <2>2
<1>5. \A d, x, k, a : ~(KeyInput(p, d, k, b) /\ AxisInput(p, x, a, b))
  <2>1. SUFFICES ASSUME NEW d, NEW x, NEW k, NEW a, KeyInput(p, d, k, b), AxisInput(p, x, a, b)
                 PROVE  FALSE
    OBVIOUS
  <2>2. <<d, "key", k>> = <<x, "axis", a>>
    BY <1>2, <1>3, <2>1
  <2>. QED
    BY <2>2
<1>6. \A d, x, k, a : AxisInput(p, d, k, b) /\ AxisInput(p, x, a, b) => d = x /\ k = a
  <2>1. SUFFICES ASSUME NEW d, NEW x, NEW k, NEW a, AxisInput(p, d, k, b), AxisInput(p, x, a, b)
                 PROVE  d = x /\ k = a
    OBVIOUS
  <2>2. <<d, "axis", k>> = <<x, "axis", a>>
    BY <1>3, <2>1
  <2>. QED
    BY <2>2
<1>. QED
  BY <1>4, <1>5, <1>6

\* The event is taken off its queue, and only its player's buttons change.
NewButtons(d, ev) == (state[Args[d].player] \ Clears(d, ev)) \cup Sets(d, ev)
Silent(ev) == ev.type = "gone" \/ (ev.type = "key" /\ ev.value = 2)
LEMMA EventFields ==
  ASSUME LoopTypes, HandTypes, HandsInv, NEW d \in Devs, keys[d] # <<>>, DoEvdevInput(d), held' = held
  PROVE  /\ keys[d][1] \in Events(d) /\ keys'[d] = Tail(keys[d]) /\ keys[d] \in Seq(Events(d))
         /\ Args[d].player \in Players
         /\ \A x \in Devs : x # d => keys'[x] = keys[x]
         /\ \A p \in Players : p # Args[d].player => state'[p] = state[p] /\ dirty'[p] = dirty[p]
         /\ fds' = IF keys[d][1].type = "gone" THEN fds \ {d} ELSE fds
         /\ Silent(keys[d][1]) => UNCHANGED <<state, dirty>>
         /\ ~Silent(keys[d][1]) =>
              /\ state'[Args[d].player] = NewButtons(d, keys[d][1])
              /\ dirty'[Args[d].player] =
                   Dirtied(dirty[Args[d].player], state[Args[d].player], NewButtons(d, keys[d][1]))
         /\ state' = [p \in Players |-> state'[p]] /\ dirty' = [p \in Players |-> dirty'[p]]
<1>1. keys[d] \in Seq(Events(d)) /\ Args[d].player \in Players
  BY ArgTypes DEF HandTypes
<1>2. keys[d][1] \in Events(d) /\ Head(keys[d]) = keys[d][1]
  BY <1>1, ReadOne
<1>3. keys' = [keys EXCEPT ![d] = Tail(keys[d])] /\ keys = [x \in Devs |-> keys[x]]
  BY DEF DoEvdevInput, HandTypes
<1>4. keys'[d] = Tail(keys[d]) /\ \A x \in Devs : x # d => keys'[x] = keys[x]
  BY <1>3
<1>5. fds' = IF keys[d][1].type = "gone" THEN fds \ {d} ELSE fds
  BY <1>2 DEF DoEvdevInput
<1>6. state = [p \in Players |-> state[p]] /\ dirty = [p \in Players |-> dirty[p]]
  BY DEF LoopTypes
<1>7. CASE Silent(keys[d][1])
  BY <1>1, <1>2, <1>4, <1>5, <1>6, <1>7 DEF DoEvdevInput, Silent
<1>8. CASE ~Silent(keys[d][1])
  <2>1. PICK new : new = NewButtons(d, keys[d][1])
    OBVIOUS
  <2>2. /\ state' = [state EXCEPT ![Args[d].player] = new]
        /\ dirty' = [dirty EXCEPT ![Args[d].player] =
                       Dirtied(dirty[Args[d].player], state[Args[d].player], new)]
    BY <1>2, <1>8, <2>1 DEF DoEvdevInput, Silent, NewButtons
  <2>. QED
    BY <1>1, <1>2, <1>4, <1>5, <1>6, <1>8, <2>1, <2>2
<1>. QED
  BY <1>7, <1>8

LEMMA EventTypes ==
  ASSUME LoopTypes, HandTypes, HandsInv, NEW d \in Devs, keys[d] # <<>>, DoEvdevInput(d), held' = held
  PROVE  /\ HandTypes'
         /\ \A x \in Devs : KeysTell(keys'[x], held'[x].down) /\ SticksTell(keys'[x], held'[x].stick)
<1>1. /\ keys[d] \in Seq(Events(d)) /\ keys'[d] = Tail(keys[d])
      /\ \A x \in Devs : x # d => keys'[x] = keys[x]
  BY EventFields
<1>2. keys'[d] \in Seq(Events(d))
  BY <1>1, ReadOne
<1>3. keys' = [x \in Devs |-> keys'[x]]
  BY DEF DoEvdevInput, HandTypes
<1>4. HandTypes'
  BY <1>1, <1>2, <1>3 DEF HandTypes, Events, Hands
<1>5. KeysTell(keys'[d], held[d].down)
  <2>1. KeysTell(keys[d], held[d].down)
    BY DEF HandsInv
  <2>. QED
    BY <1>1, <2>1, KeyEventRead
<1>6. SticksTell(keys'[d], held[d].stick)
  <2>1. SticksTell(keys[d], held[d].stick)
    BY DEF HandsInv
  <2>. QED
    BY <1>1, <2>1, StickEventRead
<1>7. \A x \in Devs : KeysTell(keys'[x], held'[x].down) /\ SticksTell(keys'[x], held'[x].stick)
  BY <1>1, <1>5, <1>6 DEF HandsInv
<1>. QED
  BY <1>4, <1>7

\* A player none of whose devices said anything.
LEMMA HandsElsewhere ==
  ASSUME HandsInv, NEW p \in Players, state'[p] = state[p], fds' \subseteq fds, held' = held,
         \A x \in Devs : Args[x].player = p => keys'[x] = keys[x]
  PROVE  Live(p)' => NoneExtra(p)' /\ NoneMissing(p)'
<1>1. SUFFICES ASSUME Live(p)' PROVE NoneExtra(p)' /\ NoneMissing(p)'
  OBVIOUS
<1>2. Live(p)
  BY <1>1 DEF Live
<1>3. NoneExtra(p) /\ NoneMissing(p)
  BY <1>2 DEF HandsInv
<1>4. ASSUME NEW x \in Devs, Args[x].player = p
      PROVE  /\ \A kc \in Args[x].keys : \A b : KeyHolds(x, kc, b)' <=> KeyHolds(x, kc, b)
             /\ \A a \in Args[x].axes : \A b : StickMay(x, a, b)' <=> StickMay(x, a, b)
             /\ \A a \in Args[x].axes : \A b : StickHolds(x, a, b)' <=> StickHolds(x, a, b)
  BY <1>4 DEF KeyHolds, StickMay, StickHolds, Leaning
<1>5. NoneExtra(p)'
  BY <1>3, <1>4 DEF NoneExtra
<1>6. NoneMissing(p)'
  BY <1>3, <1>4 DEF NoneMissing
<1>. QED
  BY <1>5, <1>6

\* The player of a device that said something is as live as before, unless
\* the device is gone.
LEMMA StillLive ==
  ASSUME LoopTypes, HandTypes, HandsInv, NEW d \in Devs, keys[d] # <<>>, DoEvdevInput(d),
         held' = held, Live(Args[d].player)'
  PROVE  keys[d][1].type # "gone" /\ Live(Args[d].player)
<1>1. /\ keys[d] \in Seq(Events(d)) /\ keys'[d] = Tail(keys[d])
      /\ \A x \in Devs : x # d => keys'[x] = keys[x]
      /\ fds' = IF keys[d][1].type = "gone" THEN fds \ {d} ELSE fds
  BY EventFields
<1>2. d \in fds'
  BY DEF Live
<1>3. keys[d][1].type # "gone" /\ fds' = fds
  BY <1>1, <1>2
<1>4. /\ Len(keys[d]) \in Nat /\ DOMAIN keys[d] = 1..Len(keys[d])
      /\ DOMAIN keys'[d] = 1..(Len(keys[d]) - 1)
      /\ \A i \in 1..(Len(keys[d]) - 1) : keys'[d][i] = keys[d][i + 1]
  BY <1>1, ReadOne
<1>5. ASSUME NEW i \in DOMAIN keys[d] PROVE keys[d][i].type # "gone"
  <2>1. CASE i = 1
    BY <1>3, <2>1
  <2>2. CASE i # 1
    <3>1. i - 1 \in DOMAIN keys'[d] /\ keys'[d][i - 1] = keys[d][i]
      BY <1>4, <2>2
    <3>. QED
      BY <3>1 DEF Live
  <2>. QED
    BY <2>1, <2>2
<1>6. ASSUME NEW x \in Devs, Args[x].player = Args[d].player, x # d
      PROVE  x \in fds /\ \A i \in DOMAIN keys[x] : keys[x][i].type # "gone"
  BY <1>1, <1>3, <1>6 DEF Live
<1>7. d \in fds
  BY <1>2, <1>3
<1>. QED
  BY <1>3, <1>5, <1>6, <1>7 DEF Live

\* What is held by the inputs that the event is not of.
LEMMA OthersHold ==
  ASSUME LoopTypes, HandTypes, HandsInv, NEW d \in Devs, keys[d] # <<>>, DoEvdevInput(d), held' = held
  PROVE  /\ \A x \in Devs : \A kc \in Args[x].keys : \A b :
              ~(x = d /\ KeyAt(keys[d], 1, kc)) => (KeyHolds(x, kc, b)' <=> KeyHolds(x, kc, b))
         /\ \A x \in Devs : \A a \in Args[x].axes : \A b :
              ~(x = d /\ AbsAt(keys[d], 1, a)) =>
                 (StickMay(x, a, b)' <=> StickMay(x, a, b))
                 /\ (StickHolds(x, a, b)' <=> StickHolds(x, a, b))
<1>1. /\ keys[d] \in Seq(Events(d)) /\ keys'[d] = Tail(keys[d])
      /\ \A x \in Devs : x # d => keys'[x] = keys[x]
  BY EventFields
<1>2. KeysTell(keys[d], held[d].down) /\ SticksTell(keys[d], held[d].stick)
  BY DEF HandsInv
<1>3. \A kc : ~KeyAt(keys[d], 1, kc) =>
        (DownFrom(keys'[d], 0, kc, held[d].down) <=> DownFrom(keys[d], 0, kc, held[d].down))
  BY <1>1, <1>2, KeyEventRead
<1>4. \A a : ~AbsAt(keys[d], 1, a) => (Moving(keys'[d], a) <=> Moving(keys[d], a))
  BY <1>1, <1>2, StickEventRead
<1>5. ASSUME NEW x \in Devs, NEW kc \in Args[x].keys, NEW b, ~(x = d /\ KeyAt(keys[d], 1, kc))
      PROVE  KeyHolds(x, kc, b)' <=> KeyHolds(x, kc, b)
  <2>1. DownFrom(keys'[x], 0, kc, held'[x].down) <=> DownFrom(keys[x], 0, kc, held[x].down)
    BY <1>1, <1>3, <1>5
  <2>. QED
    BY <2>1 DEF KeyHolds
<1>6. ASSUME NEW x \in Devs, NEW a \in Args[x].axes, NEW b, ~(x = d /\ AbsAt(keys[d], 1, a))
      PROVE  /\ StickMay(x, a, b)' <=> StickMay(x, a, b)
             /\ StickHolds(x, a, b)' <=> StickHolds(x, a, b)
  <2>1. Moving(keys'[x], a) <=> Moving(keys[x], a)
    BY <1>1, <1>4, <1>6
  <2>2. Leaning(x, a)' = Leaning(x, a)
    BY DEF Leaning
  <2>. QED
    BY <2>1, <2>2 DEF StickMay, StickHolds
<1>. QED
  BY <1>5, <1>6

\* A key that the event is of.
LEMMA KeyHeld ==
  ASSUME LoopTypes, HandTypes, HandsInv, NEW d \in Devs, keys[d] # <<>>, DoEvdevInput(d),
         held' = held, NEW kc, KeyAt(keys[d], 1, kc)
  PROVE  /\ kc \in Args[d].keys /\ keys[d][1].value \in 0..2
         /\ \A b : KeyHolds(d, kc, b) <=> b \in KcMap[d][kc] /\ keys[d][1].value # 1
         /\ \A b : KeyHolds(d, kc, b)' <=> b \in KcMap[d][kc] /\ keys[d][1].value # 0
<1>1. keys[d][1] \in Events(d) /\ keys[d] \in Seq(Events(d)) /\ keys'[d] = Tail(keys[d])
  BY EventFields
<1>2. keys[d][1].type = "key" /\ keys[d][1].code = kc
  BY DEF KeyAt
<1>3. kc \in Args[d].keys /\ keys[d][1].value \in 0..2
  BY <1>1, <1>2 DEF Events
<1>4. KeysTell(keys[d], held[d].down)
  BY DEF HandsInv
<1>5. /\ DownFrom(keys[d], 0, kc, held[d].down) <=> keys[d][1].value # 1
      /\ DownFrom(keys'[d], 0, kc, held[d].down) <=> keys[d][1].value # 0
  BY <1>1, <1>2, <1>4, KeyEventRead
<1>6. \A b : KeyHolds(d, kc, b) <=> b \in KcMap[d][kc] /\ keys[d][1].value # 1
  BY <1>5 DEF KeyHolds
<1>7. \A b : KeyHolds(d, kc, b)' <=> b \in KcMap[d][kc] /\ keys[d][1].value # 0
  BY <1>5 DEF KeyHolds
<1>. QED
  BY <1>3, <1>6, <1>7

\* The arithmetic of the outer thirds.
LEMMA Thirds ==
  ASSUME NEW min \in Int, NEW max \in Int, min <= max, NEW v \in Int,
         NEW zone, zone = (max - min) \div 3
  PROVE  /\ v < min + zone <=> 3 * ((v - min) + 1) <= max - min
         /\ v > max - zone <=> 3 * ((max - v) + 1) <= max - min
         /\ ~(v < min + zone /\ v > max - zone)
<1>1. zone \in Int /\ 3 * zone <= max - min /\ max - min < 3 * zone + 3 /\ zone >= 0
  OBVIOUS
<1>. QED
  BY <1>1

\* A stick that the event is of.
LEMMA StickHeld ==
  ASSUME LoopTypes, HandTypes, HandsInv, NEW d \in Devs, keys[d] # <<>>, DoEvdevInput(d),
         held' = held, NEW a, AbsAt(keys[d], 1, a)
  PROVE  /\ a \in Args[d].axes
         /\ Clears(d, keys[d][1]) = Pair(a) /\ Sets(d, keys[d][1]) \subseteq Pair(a)
         /\ Moving(keys[d], a)
         /\ ~Moving(keys'[d], a) => Leaning(d, a)' = Sets(d, keys[d][1])
<1>1. keys[d][1] \in Events(d) /\ keys[d] \in Seq(Events(d)) /\ keys'[d] = Tail(keys[d])
  BY EventFields
<1>2. PICK ev : ev = keys[d][1]
  OBVIOUS
<1>3. ev.type = "abs" /\ ev.code = a
  BY <1>2 DEF AbsAt
<1>4. a \in Args[d].axes /\ ev.value \in Int
  BY <1>1, <1>2, <1>3 DEF Events
<1>5. Clears(d, ev) = Pair(a)
  BY <1>3 DEF Clears
<1>6. PICK min, max, v, zone, one, other :
        /\ min = Args[d].min /\ max = Args[d].max /\ v = ev.value /\ zone = Zone(d)
        /\ one = {Toward(a)[1]} /\ other = {Toward(a)[2]}
  OBVIOUS
<1>7. one \subseteq Pair(a) /\ other \subseteq Pair(a)
  <2>1. a \in {0, 1}
    BY <1>4, ArgTypes
  <2>. QED
    BY <1>6, <2>1 DEF Toward, Pair, Range
<1>8. Low(d) = min + zone /\ High(d) = max - zone
  BY <1>6 DEF Low, High
<1>9. /\ v < min + zone <=> 3 * ((v - min) + 1) <= max - min
      /\ v > max - zone <=> 3 * ((max - v) + 1) <= max - min
      /\ ~(v < min + zone /\ v > max - zone)
  <2>1. min \in Int /\ max \in Int /\ min <= max /\ v \in Int /\ zone = (max - min) \div 3
    BY <1>4, <1>6, ArgTypes DEF Zone
  <2>. QED
    BY <2>1, Thirds
<1>10. Sets(d, ev) = IF v < Low(d) THEN one ELSE IF v > High(d) THEN other ELSE {}
  <2>1. CASE v < Low(d)
    BY <1>3, <1>6, <1>8, <1>9, <2>1 DEF Sets
  <2>2. CASE ~(v < Low(d)) /\ v > High(d)
    BY <1>3, <1>6, <2>2 DEF Sets
  <2>3. CASE ~(v < Low(d)) /\ ~(v > High(d))
    BY <1>3, <1>6, <2>3 DEF Sets
  <2>. QED
    BY <2>1, <2>2, <2>3
<1>11. Moving(keys[d], a)
  <2>1. 1 \in DOMAIN keys[d]
    BY <1>1, ReadOne
  <2>. QED
    BY <2>1 DEF Moving
<1>12. ASSUME ~Moving(keys'[d], a) PROVE Leaning(d, a)' = Sets(d, ev)
  <2>1. SticksTell(keys[d], held[d].stick)
    BY DEF HandsInv
  <2>2. held[d].stick[a] = v
    BY <1>1, <1>2, <1>3, <1>6, <1>12, <2>1, StickEventRead
  <2>3. Leaning(d, a)' =
          (IF 3 * ((held'[d].stick[a] - min) + 1) <= max - min THEN one ELSE {})
            \cup (IF 3 * ((max - held'[d].stick[a]) + 1) <= max - min THEN other ELSE {})
    BY <1>6 DEF Leaning
  <2>. QED
    BY <1>8, <1>9, <1>10, <2>2, <2>3
<1>. QED
  BY <1>2, <1>4, <1>5, <1>7, <1>10, <1>11, <1>12

\* The player of the device, by the kind of event.
LEMMA HandsRepeat ==
  ASSUME LoopTypes, HandTypes, HandsInv, NEW d \in Devs, keys[d] # <<>>, DoEvdevInput(d),
         held' = held, Silent(keys[d][1]), NEW p \in Players, p = Args[d].player, Live(p)'
  PROVE  NoneExtra(p)' /\ NoneMissing(p)'
<1>1. keys[d][1].type = "key" /\ keys[d][1].value = 2 /\ Live(p)
  BY StillLive DEF Silent
<1>2. NoneExtra(p) /\ NoneMissing(p) /\ state' = state
  BY <1>1, EventFields DEF HandsInv
<1>3. ASSUME NEW x \in Devs, NEW kc \in Args[x].keys, NEW b
      PROVE  KeyHolds(x, kc, b)' <=> KeyHolds(x, kc, b)
  <2>1. CASE x = d /\ KeyAt(keys[d], 1, kc)
    BY <1>1, <2>1, KeyHeld
  <2>2. CASE ~(x = d /\ KeyAt(keys[d], 1, kc))
    BY <2>2, OthersHold
  <2>. QED
    BY <2>1, <2>2
<1>4. ASSUME NEW x \in Devs, NEW a \in Args[x].axes, NEW b
      PROVE  (StickMay(x, a, b)' <=> StickMay(x, a, b)) /\ (StickHolds(x, a, b)' <=> StickHolds(x, a, b))
  <2>1. ~AbsAt(keys[d], 1, a)
    BY <1>1 DEF AbsAt
  <2>. QED
    BY <2>1, OthersHold
<1>5. NoneExtra(p)'
  BY <1>2, <1>3, <1>4 DEF NoneExtra
<1>6. NoneMissing(p)'
  BY <1>2, <1>3, <1>4 DEF NoneMissing
<1>. QED
  BY <1>5, <1>6

LEMMA HandsKey ==
  ASSUME LoopTypes, HandTypes, HandsInv, NEW d \in Devs, keys[d] # <<>>, DoEvdevInput(d),
         held' = held, keys[d][1].type = "key", keys[d][1].value # 2,
         NEW p \in Players, p = Args[d].player, Live(p)'
  PROVE  NoneExtra(p)' /\ NoneMissing(p)'
<1>1. PICK c : c = keys[d][1].code
  OBVIOUS
<1>2. PICK v : v = keys[d][1].value
  OBVIOUS
<1>3. KeyAt(keys[d], 1, c) /\ \A k : KeyAt(keys[d], 1, k) => k = c
  BY <1>1 DEF KeyAt
<1>4. /\ c \in Args[d].keys /\ v \in {0, 1}
      /\ \A b : KeyHolds(d, c, b) <=> b \in KcMap[d][c] /\ v # 1
      /\ \A b : KeyHolds(d, c, b)' <=> b \in KcMap[d][c] /\ v # 0
  BY <1>2, <1>3, KeyHeld
<1>5. NoneExtra(p) /\ NoneMissing(p)
  BY StillLive DEF HandsInv
<1>6. state'[p] = IF v = 0 THEN state[p] \ KcMap[d][c] ELSE state[p] \cup KcMap[d][c]
  <2>1. state'[p] = (state[p] \ Clears(d, keys[d][1])) \cup Sets(d, keys[d][1])
    BY EventFields DEF Silent, NewButtons
  <2>2. /\ Clears(d, keys[d][1]) = IF v = 0 THEN KcMap[d][c] ELSE {}
        /\ Sets(d, keys[d][1]) = IF v = 1 THEN KcMap[d][c] ELSE {}
    BY <1>1, <1>2 DEF Clears, Sets
  <2>. QED
    BY <1>4, <2>1, <2>2
<1>7. \A x \in Devs : \A kc \in Args[x].keys : \A b :
        ~(x = d /\ kc = c) => (KeyHolds(x, kc, b)' <=> KeyHolds(x, kc, b))
  BY <1>3, OthersHold
<1>8. \A x \in Devs : \A a \in Args[x].axes : \A b :
        (StickMay(x, a, b)' <=> StickMay(x, a, b)) /\ (StickHolds(x, a, b)' <=> StickHolds(x, a, b))
  <2>1. \A a : ~AbsAt(keys[d], 1, a)
    BY DEF AbsAt
  <2>. QED
    BY <2>1, OthersHold
<1>9. NoneExtra(p)'
  <2>1. SUFFICES ASSUME NEW b \in state'[p]
                 PROVE  \E x \in Devs :
                          /\ Args[x].player = p
                          /\ \/ \E kc \in Args[x].keys : KeyHolds(x, kc, b)'
                             \/ \E a \in Args[x].axes : StickMay(x, a, b)'
    BY DEF NoneExtra
  <2>2. CASE v = 1 /\ b \in KcMap[d][c]
    BY <1>4, <2>2
  <2>3. CASE ~(v = 1 /\ b \in KcMap[d][c])
    <3>1. b \in state[p] /\ (v = 0 => b \notin KcMap[d][c])
      BY <1>4, <1>6, <2>1, <2>3
    <3>2. PICK x \in Devs :
            /\ Args[x].player = p
            /\ \/ \E kc \in Args[x].keys : KeyHolds(x, kc, b)
               \/ \E a \in Args[x].axes : StickMay(x, a, b)
      BY <1>5, <3>1 DEF NoneExtra
    <3>3. ~KeyHolds(d, c, b)
      BY <1>4, <2>3, <3>1
    <3>. QED
      BY <1>7, <1>8, <3>2, <3>3
  <2>. QED
    BY <2>2, <2>3
<1>10. ASSUME NEW b \in Sole[p], NEW x \in Devs, Args[x].player = p, NEW kc \in Args[x].keys,
              KeyHolds(x, kc, b)'
       PROVE  b \in state'[p]
  <2>1. KeyInput(p, x, kc, b)
    BY <1>10 DEF KeyInput, KeyHolds
  <2>2. CASE x = d /\ kc = c
    BY <1>4, <1>6, <1>10, <2>2
  <2>3. CASE ~(x = d /\ kc = c)
    <3>1. b \in state[p]
      BY <1>5, <1>7, <1>10, <2>3 DEF NoneMissing
    <3>2. ~KeyInput(p, d, c, b)
      BY <2>1, <2>3, SoleInput
    <3>3. b \notin KcMap[d][c]
      BY <1>4, <3>2 DEF KeyInput
    <3>. QED
      BY <1>6, <3>1, <3>3
  <2>. QED
    BY <2>2, <2>3
<1>11. ASSUME NEW b \in Sole[p], NEW x \in Devs, Args[x].player = p, NEW a \in Args[x].axes,
              StickHolds(x, a, b)'
       PROVE  b \in state'[p]
  <2>1. StickHolds(x, a, b)
    BY <1>8, <1>11
  <2>2. b \in state[p]
    BY <1>5, <1>11, <2>1 DEF NoneMissing
  <2>3. AxisInput(p, x, a, b)
    <3>1. a \in {0, 1}
      BY ArgTypes
    <3>. QED
      BY <1>11, <2>1, <3>1 DEF AxisInput, StickHolds, Leaning, Pair, Toward, Range
  <2>4. b \notin KcMap[d][c]
    BY <1>4, <2>3, SoleInput DEF KeyInput
  <2>. QED
    BY <1>6, <2>2, <2>4
<1>12. NoneMissing(p)'
  BY <1>10, <1>11 DEF NoneMissing
<1>. QED
  BY <1>9, <1>12

LEMMA HandsAxis ==
  ASSUME LoopTypes, HandTypes, HandsInv, NEW d \in Devs, keys[d] # <<>>, DoEvdevInput(d),
         held' = held, keys[d][1].type = "abs",
         NEW p \in Players, p = Args[d].player, Live(p)'
  PROVE  NoneExtra(p)' /\ NoneMissing(p)'
<1>1. PICK c : c = keys[d][1].code
  OBVIOUS
<1>2. PICK sets : sets = Sets(d, keys[d][1])
  OBVIOUS
<1>3. AbsAt(keys[d], 1, c) /\ \A a : AbsAt(keys[d], 1, a) => a = c
  BY <1>1 DEF AbsAt
<1>4. /\ c \in Args[d].axes /\ Clears(d, keys[d][1]) = Pair(c) /\ sets \subseteq Pair(c)
      /\ Moving(keys[d], c) /\ (~Moving(keys'[d], c) => Leaning(d, c)' = sets)
  <2>1. /\ c \in Args[d].axes
        /\ Clears(d, keys[d][1]) = Pair(c) /\ Sets(d, keys[d][1]) \subseteq Pair(c)
        /\ Moving(keys[d], c)
        /\ ~Moving(keys'[d], c) => Leaning(d, c)' = Sets(d, keys[d][1])
    BY <1>3, StickHeld
  <2>. QED
    BY <1>2, <2>1
<1>5. NoneExtra(p) /\ NoneMissing(p)
  BY StillLive DEF HandsInv
<1>6. state'[p] = (state[p] \ Pair(c)) \cup sets
  BY <1>2, <1>4, EventFields DEF Silent, NewButtons
<1>7. \A x \in Devs : \A kc \in Args[x].keys : \A b : KeyHolds(x, kc, b)' <=> KeyHolds(x, kc, b)
  <2>1. \A kc : ~KeyAt(keys[d], 1, kc)
    BY DEF KeyAt
  <2>. QED
    BY <2>1, OthersHold
<1>8. \A x \in Devs : \A a \in Args[x].axes : \A b : ~(x = d /\ a = c) =>
        (StickMay(x, a, b)' <=> StickMay(x, a, b)) /\ (StickHolds(x, a, b)' <=> StickHolds(x, a, b))
  BY <1>3, OthersHold
<1>9. NoneExtra(p)'
  <2>1. SUFFICES ASSUME NEW b \in state'[p]
                 PROVE  \E x \in Devs :
                          /\ Args[x].player = p
                          /\ \/ \E kc \in Args[x].keys : KeyHolds(x, kc, b)'
                             \/ \E a \in Args[x].axes : StickMay(x, a, b)'
    BY DEF NoneExtra
  <2>2. CASE b \in sets
    <3>1. StickMay(d, c, b)'
      BY <1>4, <2>2 DEF StickMay
    <3>. QED
      BY <1>4, <3>1
  <2>3. CASE b \notin sets
    <3>1. b \in state[p] /\ b \notin Pair(c)
      BY <1>6, <2>1, <2>3
    <3>2. PICK x \in Devs :
            /\ Args[x].player = p
            /\ \/ \E kc \in Args[x].keys : KeyHolds(x, kc, b)
               \/ \E a \in Args[x].axes : StickMay(x, a, b)
      BY <1>5, <3>1 DEF NoneExtra
    <3>3. ~StickMay(d, c, b)
      BY <3>1 DEF StickMay
    <3>. QED
      BY <1>7, <1>8, <3>2, <3>3
  <2>. QED
    BY <2>2, <2>3
<1>10. ASSUME NEW b \in Sole[p], NEW x \in Devs, Args[x].player = p, NEW kc \in Args[x].keys,
              KeyHolds(x, kc, b)'
       PROVE  b \in state'[p]
  <2>1. KeyInput(p, x, kc, b)
    BY <1>10 DEF KeyInput, KeyHolds
  <2>2. b \in state[p]
    BY <1>5, <1>7, <1>10 DEF NoneMissing
  <2>3. b \notin Pair(c)
    BY <1>4, <2>1, SoleInput DEF AxisInput
  <2>. QED
    BY <1>6, <2>2, <2>3
<1>11. ASSUME NEW b \in Sole[p], NEW x \in Devs, Args[x].player = p, NEW a \in Args[x].axes,
              StickHolds(x, a, b)'
       PROVE  b \in state'[p]
  <2>1. CASE x = d /\ a = c
    BY <1>4, <1>6, <1>11, <2>1 DEF StickHolds
  <2>2. CASE ~(x = d /\ a = c)
    <3>1. StickHolds(x, a, b)
      BY <1>8, <1>11, <2>2
    <3>2. b \in state[p]
      BY <1>5, <1>11, <3>1 DEF NoneMissing
    <3>3. AxisInput(p, x, a, b)
      <4>1. a \in {0, 1}
        BY ArgTypes
      <4>. QED
        BY <1>11, <3>1, <4>1 DEF AxisInput, StickHolds, Leaning, Pair, Toward, Range
    <3>4. b \notin Pair(c)
      BY <1>4, <2>2, <3>3, SoleInput DEF AxisInput
    <3>. QED
      BY <1>6, <3>2, <3>4
  <2>. QED
    BY <2>1, <2>2
<1>12. NoneMissing(p)'
  BY <1>10, <1>11 DEF NoneMissing
<1>. QED
  BY <1>9, <1>12

LEMMA HandsEvent ==
  ASSUME LoopTypes, HandTypes, HandsInv, NEW d \in Devs, keys[d] # <<>>, DoEvdevInput(d), held' = held
  PROVE  HandTypes' /\ HandsInv'
<1>1. HandTypes' /\ \A x \in Devs : KeysTell(keys'[x], held'[x].down) /\ SticksTell(keys'[x], held'[x].stick)
  BY EventTypes
<1>2. ASSUME NEW p \in Players, Live(p)' PROVE NoneExtra(p)' /\ NoneMissing(p)'
  <2>1. CASE p # Args[d].player
    <3>1. /\ state'[p] = state[p] /\ fds' \subseteq fds
          /\ \A x \in Devs : Args[x].player = p => keys'[x] = keys[x]
      BY <2>1, EventFields
    <3>. QED
      BY <1>2, <3>1, HandsElsewhere
  <2>2. CASE p = Args[d].player
    <3>1. keys[d][1] \in Events(d) /\ keys[d][1].type # "gone"
      BY <1>2, <2>2, EventFields, StillLive
    <3>2. keys[d][1].type \in {"key", "abs"}
      BY <3>1 DEF Events
    <3>3. CASE Silent(keys[d][1])
      BY <1>2, <2>2, <3>3, HandsRepeat
    <3>4. CASE keys[d][1].type = "key" /\ keys[d][1].value # 2
      BY <1>2, <2>2, <3>4, HandsKey
    <3>5. CASE keys[d][1].type = "abs"
      BY <1>2, <2>2, <3>5, HandsAxis
    <3>. QED
      BY <3>2, <3>3, <3>4, <3>5 DEF Silent
  <2>. QED
    BY <2>1, <2>2
<1>. QED
  BY <1>1, <1>2 DEF HandsInv

-----------------------------------------------------------------------------
(* What the loop's variables hold.                                         *)

\* Only the kernel's transfers, what select found and what was lost change.
LEMMA TypesAside ==
  ASSUME LoopTypes, UNCHANGED <<state, dirty, pkt, rx, mode, stdin, pads, fds, mode_changed>>,
         kernel'["out"] = "busy" => kernel["out"] = "busy",
         strayed' \in BOOLEAN,
         ready' = [stdin |-> ready'.stdin, usb |-> ready'.usb, keys |-> ready'.keys],
         ready'.keys \subseteq Devs
  PROVE  LoopTypes'
BY DEF LoopTypes, Packets

LEMMA TypesQuiet ==
  ASSUME KernelInv, LoopTypes,
         \/ HostTop \/ HostFind \/ HostWalk \/ HostSubmit \/ HostSelect \/ HostReapGone \/ HostReap
         \/ HostWait \/ HostCleanup \/ Interrupt
         \/ OutFails \/ DebugText \/ Plug \/ Press \/ Tilt \/ Detach \/ UNCHANGED vars
  PROVE  LoopTypes'
<1>1. UNCHANGED <<state, dirty, pkt, rx, mode, stdin, pads, fds, mode_changed>>
  BY DEF HostTop, HostFind, HostWalk, HostSubmit, HostSelect, HostReapGone, HostReap, HostWait,
         HostCleanup, Interrupt, OutFails, DebugText, Plug, Press, Tilt, Detach,
         WorldKeep, host, world, input, vars
<1>2. kernel'["out"] = "busy" => kernel["out"] = "busy"
  <2>1. CASE HostSubmit \/ HostReapGone \/ HostCleanup \/ OutFails \/ DebugText
    BY <2>1 DEF KernelInv, HostSubmit, HostReapGone, HostCleanup, OutFails, DebugText, Close, Urbs
  <2>2. CASE HostReap
    <3>1. PICK u \in Urbs : Close \/ kernel' = [kernel EXCEPT ![u] = "none"]
      BY <2>2 DEF HostReap
    <3>2. CASE Close
      BY <3>2 DEF Close, Urbs
    <3>3. CASE kernel' = [kernel EXCEPT ![u] = "none"]
      BY <3>3 DEF KernelInv, Urbs
    <3>. QED
      BY <3>1, <3>2, <3>3
  <2>3. CASE \/ HostTop \/ HostFind \/ HostWalk \/ HostSelect \/ HostWait \/ Interrupt
             \/ Plug \/ Press \/ Tilt \/ Detach \/ UNCHANGED vars
    BY <2>3 DEF HostTop, HostFind, HostWalk, HostSelect, HostWait, Interrupt, Plug, Press, Tilt,
                Detach, vars
  <2>. QED
    BY <2>1, <2>2, <2>3
<1>3. strayed \in BOOLEAN
  BY DEF LoopTypes
<1>4. strayed' \in BOOLEAN
  <2>1. CASE HostReapGone \/ HostReap
    BY <1>3, <2>1 DEF HostReapGone, HostReap, Close, history
  <2>2. CASE OutFails
    BY <2>2 DEF OutFails
  <2>3. CASE ~(HostReapGone \/ HostReap \/ OutFails)
    BY <1>3, <2>3 DEF HostTop, HostFind, HostWalk, HostSubmit, HostSelect, HostWait, HostCleanup,
                      Interrupt, DebugText, Plug, Press, Tilt, Detach, history, vars
  <2>. QED
    BY <2>1, <2>2, <2>3
<1>5. CASE HostSelect
  <2>1. ready' = [stdin |-> stdin # <<>>, usb |-> UsbReady, keys |-> Readable]
    BY <1>5 DEF HostSelect
  <2>2. Readable \subseteq Devs
    BY DEF LoopTypes, Readable
  <2>3. ready' = [stdin |-> ready'.stdin, usb |-> ready'.usb, keys |-> ready'.keys]
        /\ ready'.keys \subseteq Devs
    BY <2>1, <2>2
  <2>. QED
    BY <1>1, <1>2, <1>4, <2>3, TypesAside
<1>6. CASE ~HostSelect
  <2>1. ready' = ready
    BY <1>6 DEF HostTop, HostFind, HostWalk, HostSubmit, HostReapGone, HostReap, HostWait,
                HostCleanup, Interrupt, OutFails, DebugText, Plug, Press, Tilt, Detach,
                WorldKeep, host, vars
  <2>2. ready = [stdin |-> ready.stdin, usb |-> ready.usb, keys |-> ready.keys]
        /\ ready.keys \subseteq Devs
    BY DEF LoopTypes
  <2>. QED
    BY <1>1, <1>2, <1>4, <2>1, <2>2, TypesAside
<1>. QED
  BY <1>5, <1>6

LEMMA TypesInput ==
  ASSUME LoopTypes, StillReady, HostInput \/ SelectMode PROVE LoopTypes'
<1>1. CASE HostInput
  <2>1. UNCHANGED <<state, dirty, pkt, rx, pads, fds, ready, kernel, strayed>>
    BY <1>1 DEF HostInput, history
  <2>2. ready.stdin => stdin # <<>>
    BY <1>1 DEF HostInput, StillReady
  <2>3. stdin \in Seq(Modes) /\ mode \in Modes \cup {"3btn"} /\ mode_changed \in BOOLEAN
    BY DEF LoopTypes
  <2>4. stdin' \in Seq(Modes) /\ mode' \in Modes \cup {"3btn"} /\ mode_changed' \in BOOLEAN
    <3>1. CASE ready.stdin
      <4>1. mode' = Head(stdin) /\ mode_changed' = TRUE /\ stdin' = Tail(stdin)
        BY <1>1, <3>1 DEF HostInput
      <4>2. Head(stdin) \in Modes /\ Tail(stdin) \in Seq(Modes)
        BY <2>2, <2>3, <3>1
      <4>. QED
        BY <4>1, <4>2
    <3>2. CASE ~ready.stdin
      BY <1>1, <2>3, <3>2 DEF HostInput
    <3>. QED
      BY <3>1, <3>2
  <2>. QED
    BY <2>1, <2>4 DEF LoopTypes, Packets
<1>2. CASE SelectMode
  <2>1. UNCHANGED <<state, dirty, pkt, rx, pads, fds, ready, kernel, strayed, mode, mode_changed>>
    BY <1>2 DEF SelectMode, WorldKeep, host, history
  <2>2. stdin' \in Seq(Modes)
    BY <1>2 DEF SelectMode, LoopTypes
  <2>. QED
    BY <2>1, <2>2 DEF LoopTypes, Packets
<1>. QED
  BY <1>1, <1>2

LEMMA MaskTypes ==
  ASSUME LoopTypes, HandTypes, HandsInv, NEW d \in Devs, keys[d] # <<>>, DoEvdevInput(d), held' = held
  PROVE  state' \in [Players -> SUBSET Masks] /\ dirty' \in [Players -> BOOLEAN]
<1>1. PICK p, ev : p = Args[d].player /\ ev = keys[d][1]
  OBVIOUS
<1>2. /\ p \in Players /\ ev \in Events(d)
      /\ \A q \in Players : q # p => state'[q] = state[q] /\ dirty'[q] = dirty[q]
      /\ Silent(ev) => UNCHANGED <<state, dirty>>
      /\ ~Silent(ev) => state'[p] = (state[p] \ Clears(d, ev)) \cup Sets(d, ev)
                        /\ dirty'[p] = Dirtied(dirty[p], state[p], NewButtons(d, ev))
      /\ state' = [q \in Players |-> state'[q]] /\ dirty' = [q \in Players |-> dirty'[q]]
  BY <1>1, EventFields DEF NewButtons
<1>3. state \in [Players -> SUBSET Masks] /\ dirty \in [Players -> BOOLEAN]
  BY DEF LoopTypes
<1>4. ASSUME ~Silent(ev) PROVE Sets(d, ev) \subseteq Masks
  <2>1. CASE ev.type = "key"
    <3>1. Sets(d, ev) \subseteq KcMap[d][ev.code] /\ ev.code \in Args[d].keys
      BY <1>2, <2>1 DEF Sets, Events
    <3>. QED
      BY <3>1 DEF Masks
  <2>2. CASE ev.type = "abs"
    <3>1. AbsAt(keys[d], 1, ev.code)
      BY <1>1, <2>2 DEF AbsAt
    <3>2. ev.code \in {0, 1} /\ Sets(d, ev) \subseteq Pair(ev.code)
      BY <1>1, <3>1, StickHeld, ArgTypes
    <3>. QED
      BY <3>2 DEF Masks, Pair, Toward, Range
  <2>. QED
    BY <1>2, <1>4, <2>1, <2>2 DEF Events, Silent
<1>5. state'[p] \subseteq Masks
  BY <1>2, <1>3, <1>4
<1>6. dirty'[p] \in BOOLEAN
  BY <1>2, <1>3 DEF Dirtied
<1>. QED
  BY <1>2, <1>3, <1>5, <1>6

LEMMA TypesEvdev ==
  ASSUME LoopTypes, HandTypes, HandsInv, StillReady, HostEvdev PROVE LoopTypes'
<1>1. PICK d \in ready.keys : DoEvdevInput(d) /\ ready' = [ready EXCEPT !.keys = ready.keys \ {d}]
  BY DEF HostEvdev
<1>2. d \in Devs /\ keys[d] # <<>> /\ held' = held
  BY <1>1 DEF HostEvdev, StillReady, LoopTypes
<1>3. state' \in [Players -> SUBSET Masks] /\ dirty' \in [Players -> BOOLEAN]
  BY <1>1, <1>2, MaskTypes
<1>4. UNCHANGED <<pkt, rx, pads, kernel, strayed, mode, mode_changed, stdin>>
  BY DEF HostEvdev, history
<1>5. fds' \subseteq fds
  BY <1>1 DEF DoEvdevInput
<1>6. ready' = [stdin |-> ready'.stdin, usb |-> ready'.usb, keys |-> ready'.keys]
      /\ ready'.keys \subseteq Devs
  BY <1>1 DEF LoopTypes
<1>. QED
  BY <1>3, <1>4, <1>5, <1>6 DEF LoopTypes, Packets

LEMMA TypesSend ==
  ASSUME KernelInv, LoopTypes, HostSendMode \/ HostSendButtons PROVE LoopTypes'
<1>1. UNCHANGED <<state, rx, pads, fds, ready, mode, stdin>>
  BY DEF HostSendMode, HostSendButtons, world, input
<1>2. CASE HostSendMode
  <2>1. dirty' = dirty /\ pkt' = [type |-> "mode", mode |-> mode]
    BY <1>2 DEF HostSendMode
  <2>2. pkt' \in Packets
    BY <2>1 DEF LoopTypes, Packets
  <2>3. {mode_changed', strayed'} \subseteq BOOLEAN
    BY <1>2 DEF HostSendMode, LoopTypes
  <2>. QED
    BY <1>1, <2>1, <2>2, <2>3 DEF LoopTypes
<1>3. CASE HostSendButtons
  <2>1. dirty' \in [Players -> BOOLEAN] /\ UNCHANGED <<mode_changed, strayed>>
    BY <1>3 DEF HostSendButtons
  <2>2. CASE Changed = {}
    <3>1. pkt' = NoPkt /\ kernel' = kernel
      BY <1>3, <2>2 DEF HostSendButtons
    <3>2. kernel'["out"] = "busy" => pkt' \in Packets
      <4>1. ~(kernel["out"] = "busy")
        BY <1>3 DEF KernelInv, WithDevice, PendingTruth, HostSendButtons, Idle, Urbs
      <4>. QED
        BY <3>1, <4>1
    <3>. QED
      BY <1>1, <2>1, <3>1, <3>2 DEF LoopTypes
  <2>3. CASE Changed # {}
    <3>1. PICK btns : btns = [p \in Changed |-> state[p]]
      OBVIOUS
    <3>2. pkt' = [type |-> "btns", btns |-> btns]
      BY <1>3, <2>3, <3>1 DEF HostSendButtons
    <3>3. Changed \subseteq Players /\ btns \in [Changed -> SUBSET Masks]
      BY <3>1 DEF Changed, LoopTypes
    <3>4. pkt' \in Packets
      BY <3>2, <3>3 DEF Packets
    <3>. QED
      BY <1>1, <2>1, <3>4 DEF LoopTypes
  <2>. QED
    BY <2>2, <2>3
<1>. QED
  BY <1>2, <1>3

LEMMA TypesTeensy == ASSUME LoopTypes, OutDone \/ DoUsb \/ Unplug PROVE LoopTypes'
<1>1. UNCHANGED <<state, dirty, pkt, mode, mode_changed, stdin, fds, ready>>
  BY DEF OutDone, DoUsb, Unplug, WorldKeep, host, input
<1>2. CASE OutDone
  <2>1. UNCHANGED <<pads, strayed>> /\ rx' = Append(rx, pkt) /\ kernel["out"] = "busy"
        /\ kernel' = [kernel EXCEPT !["out"] = "done"]
    BY <1>2 DEF OutDone, history
  <2>2. rx' \in Seq(Packets)
    BY <2>1 DEF LoopTypes
  <2>. QED
    BY <1>1, <2>1, <2>2 DEF LoopTypes, Packets
<1>3. CASE Unplug
  <2>1. rx' = <<>> /\ pads' = Fresh /\ strayed' = TRUE /\ (kernel'["out"] = "busy" => kernel["out"] = "busy")
    BY <1>3 DEF Unplug, Urbs
  <2>2. pads' = [mode |-> pads'.mode, btn |-> pads'.btn] /\ pads'.btn \in [Players -> SUBSET Masks]
    BY <2>1 DEF Fresh, Nothing
  <2>. QED
    BY <1>1, <2>1, <2>2 DEF LoopTypes, Packets
<1>4. CASE DoUsb
  <2>1. UNCHANGED <<kernel, strayed>> /\ rx # <<>> /\ rx' = Tail(rx)
    BY <1>4 DEF DoUsb
  <2>2. rx' \in Seq(Packets) /\ Head(rx) \in Packets
    BY <2>1 DEF LoopTypes
  <2>3. pads' = [mode |-> pads'.mode, btn |-> pads'.btn] /\ pads'.btn \in [Players -> SUBSET Masks]
    <3>1. PICK p : p = Head(rx)
      OBVIOUS
    <3>2. CASE p.type = "mode"
      <4>1. pads' = [mode |-> p.mode, btn |-> Nothing]
        BY <1>4, <3>1, <3>2 DEF DoUsb
      <4>. QED
        BY <4>1 DEF Nothing
    <3>3. CASE p.type # "mode"
      <4>1. PICK btn : btn = [q \in Players |-> IF q \in DOMAIN p.btns \cap Served(pads.mode)
                                               THEN p.btns[q] ELSE pads.btn[q]]
        OBVIOUS
      <4>2. pads' = [pads EXCEPT !.btn = btn]
        BY <1>4, <3>1, <3>3, <4>1 DEF DoUsb
      <4>3. PICK who \in SUBSET Players : p.btns \in [who -> SUBSET Masks]
        BY <2>2, <3>1, <3>3 DEF Packets
      <4>4. btn \in [Players -> SUBSET Masks]
        BY <4>1, <4>3 DEF LoopTypes
      <4>. QED
        BY <4>2, <4>4 DEF LoopTypes
    <3>. QED
      BY <3>2, <3>3
  <2>. QED
    BY <1>1, <2>1, <2>2, <2>3 DEF LoopTypes, Packets
<1>. QED
  BY <1>2, <1>3, <1>4

-----------------------------------------------------------------------------
(* What select found stays there until it is read.                         *)
LEMMA ReadyStep ==
  ASSUME LoopTypes, HandTypes, StillReady, HandTypes', [HostNext]_vars PROVE StillReady'
<1>1. CASE HostSelect
  <2>1. /\ ready' = [stdin |-> stdin # <<>>, usb |-> UsbReady, keys |-> Readable]
        /\ UNCHANGED <<stdin, keys>>
    BY <1>1 DEF HostSelect, world, input
  <2>2. \A d \in Readable : keys[d] # <<>>
    BY DEF Readable
  <2>. QED
    BY <2>1, <2>2 DEF StillReady
<1>2. CASE HostInput
  <2>1. at = "input" /\ at' # "input" /\ UNCHANGED <<ready, keys>>
    BY <1>2 DEF HostInput, Go
  <2>. QED
    BY <2>1 DEF StillReady
<1>3. CASE HostEvdev
  <2>1. PICK d \in ready.keys : DoEvdevInput(d) /\ ready' = [ready EXCEPT !.keys = ready.keys \ {d}]
    BY <1>3 DEF HostEvdev
  <2>2. ready'.keys = ready.keys \ {d} /\ d \in Devs /\ ready.keys \subseteq Devs
    BY <2>1 DEF LoopTypes
  <2>3. at = "evdev" /\ at' # "input"
    BY <1>3 DEF HostEvdev, Go
  <2>4. \A x \in Devs : x # d => keys'[x] = keys[x]
    BY <2>1, <2>2 DEF DoEvdevInput, HandTypes
  <2>. QED
    BY <2>2, <2>3, <2>4 DEF StillReady
<1>4. CASE Press \/ Tilt \/ Detach
  <2>1. PICK d \in fds : \/ \E e : keys' = [keys EXCEPT ![d] = Append(keys[d], e)]
                         \/ keys' = [keys EXCEPT ![d] = <<[type |-> "gone"]>>]
    <3>1. CASE Press
      BY <3>1 DEF Press, Report
    <3>2. CASE Tilt
      BY <3>2 DEF Tilt, Report
    <3>3. CASE Detach
      BY <3>3 DEF Detach
    <3>. QED
      BY <1>4, <3>1, <3>2, <3>3
  <2>2. UNCHANGED <<at, ready, stdin>> /\ d \in Devs /\ ready.keys \subseteq Devs
    BY <1>4 DEF Press, Tilt, Detach, WorldKeep, host, input, LoopTypes
  <2>3. keys'[d] # <<>>
    <3>1. CASE keys' = [keys EXCEPT ![d] = <<[type |-> "gone"]>>]
      BY <2>2, <3>1 DEF HandTypes
    <3>2. CASE \E e : keys' = [keys EXCEPT ![d] = Append(keys[d], e)]
      <4>1. PICK e : keys' = [keys EXCEPT ![d] = Append(keys[d], e)]
        BY <3>2
      <4>2. keys'[d] = Append(keys[d], e)
        BY <2>2, <4>1 DEF HandTypes
      <4>3. PICK q : q = keys[d]
        OBVIOUS
      <4>4. q \in Seq(Events(d))
        BY <2>2, <4>3 DEF HandTypes
      <4>5. Len(Append(q, e)) = Len(q) + 1 /\ Len(q) \in Nat
        BY <4>4
      <4>6. Append(q, e) # <<>>
        BY <4>5
      <4>. QED
        BY <4>2, <4>3, <4>6
    <3>. QED
      BY <2>1, <3>1, <3>2
  <2>4. \A x \in Devs : x # d => keys'[x] = keys[x]
    BY <2>1, <2>2 DEF HandTypes
  <2>. QED
    BY <2>2, <2>3, <2>4 DEF StillReady
<1>5. CASE SelectMode
  <2>1. UNCHANGED <<at, ready, keys>> /\ \E m \in Modes : stdin' = Append(stdin, m)
    BY <1>5 DEF SelectMode, WorldKeep, host
  <2>2. stdin \in Seq(Modes)
    BY DEF LoopTypes
  <2>3. stdin' # <<>>
    BY <2>1, <2>2
  <2>. QED
    BY <2>1, <2>3 DEF StillReady
<1>6. CASE Interrupt
  <2>1. UNCHANGED <<ready, stdin, keys>> /\ (at' = at \/ at' = "cleanup")
    BY <1>6 DEF Interrupt, host, world, input
  <2>. QED
    BY <2>1 DEF StillReady
<1>7. CASE \/ HostTop \/ HostFind \/ HostWalk \/ HostSubmit \/ HostReapGone \/ HostReap \/ HostWait
           \/ HostSendMode \/ HostSendButtons \/ HostCleanup
  <2>1. at' \notin {"input", "evdev"}
    BY <1>7 DEF HostTop, HostFind, HostWalk, HostSubmit, HostReapGone, HostReap, HostWait,
       HostSendMode, HostSendButtons, HostCleanup, Close, Go
  <2>. QED
    BY <2>1 DEF StillReady
<1>8. CASE Usb \/ OutFails \/ DebugText \/ Unplug \/ Plug \/ UNCHANGED vars
  <2>1. UNCHANGED <<at, ready, stdin, keys>>
    BY <1>8 DEF Usb, OutDone, DoUsb, OutFails, DebugText, Unplug, Plug, WorldKeep, host, input, world,
       vars
  <2>. QED
    BY <2>1 DEF StillReady
<1>. QED
  BY <1>1, <1>2, <1>3, <1>4, <1>5, <1>6, <1>7, <1>8 DEF HostNext, Host, World

-----------------------------------------------------------------------------
(* The way to the pads.                                                    *)

\* Nothing on the way changes; what is changed is dirty.
LEMMA PipeAside ==
  ASSUME LoopTypes, PipeInv, UNCHANGED <<pkt, rx, pads>>,
         kernel'["out"] = "busy" <=> kernel["out"] = "busy",
         \A p \in Players : p \notin excused' => p \notin excused,
         \A p \in Players : dirty'[p] = FALSE => dirty[p] = FALSE /\ state'[p] = state[p],
         strayed' = strayed,
         mode_changed' = FALSE => mode_changed = FALSE /\ mode' = mode,
         open' /\ ~alive' => open /\ ~alive /\ excused' = excused
  PROVE  PipeInv'
<1>1. ASSUME NEW p \in Players \ excused', dirty'[p] = FALSE PROVE BtnsKnown(p)'
  <2>1. BtnsKnown(p) /\ state'[p] = state[p]
    BY <1>1 DEF PipeInv
  <2>. QED
    BY <2>1 DEF BtnsKnown, Flying, About, PlayersOf
<1>2. ASSUME strayed' = FALSE, mode_changed' = FALSE PROVE ModeKnown'
  <2>1. ModeKnown /\ mode' = mode
    BY <1>2 DEF PipeInv
  <2>. QED
    BY <2>1 DEF ModeKnown, FlyingMode, IsMode
<1>3. ASSUME open', ~alive' PROVE strayed' = TRUE /\ \A p \in Players : p \in excused'
  BY <1>3 DEF PipeInv
<1>. QED
  BY <1>1, <1>2, <1>3 DEF PipeInv

\* The packet that is being sent is lost.
LEMMA PipeDrops ==
  ASSUME LoopTypes, PipeInv,
         UNCHANGED <<pkt, rx, pads, state, dirty, mode, mode_changed>>,
         kernel'["out"] # "busy",
         \A p \in Players : p \notin excused' => p \notin excused /\ ~Flying(p),
         strayed' = FALSE => strayed = FALSE /\ ~FlyingMode,
         open' /\ ~alive' => strayed' = TRUE /\ \A p \in Players : p \in excused'
  PROVE  PipeInv'
<1>1. ASSUME NEW p \in Players \ excused', dirty'[p] = FALSE PROVE BtnsKnown(p)'
  <2>1. BtnsKnown(p) /\ ~Flying(p)
    BY <1>1 DEF PipeInv
  <2>. QED
    BY <2>1 DEF BtnsKnown, Flying, About, PlayersOf
<1>2. ASSUME strayed' = FALSE, mode_changed' = FALSE PROVE ModeKnown'
  <2>1. ModeKnown /\ ~FlyingMode
    BY <1>2 DEF PipeInv
  <2>. QED
    BY <2>1 DEF ModeKnown, FlyingMode, IsMode
<1>. QED
  BY <1>1, <1>2 DEF PipeInv

LEMMA PipeQuiet ==
  ASSUME KernelInv, LoopTypes, PipeInv,
         \/ HostTop \/ HostFind \/ HostWalk \/ HostSubmit \/ HostSelect \/ HostInput \/ HostWait
         \/ HostCleanup \/ Interrupt \/ DebugText \/ Plug \/ Press \/ Tilt \/ Detach \/ SelectMode
         \/ UNCHANGED vars
  PROVE  PipeInv'
<1>1. UNCHANGED <<pkt, rx, pads, dirty, state, excused, strayed>>
  BY DEF HostTop, HostFind, HostWalk, HostSubmit, HostSelect, HostInput, HostWait, HostCleanup,
         Interrupt, DebugText, Plug, Press, Tilt, Detach, SelectMode, WorldKeep, host, world, input,
         history, vars
<1>2. kernel'["out"] = "busy" <=> kernel["out"] = "busy"
  <2>1. CASE HostSubmit \/ DebugText
    BY <2>1 DEF KernelInv, HostSubmit, DebugText, Urbs
  <2>2. CASE HostCleanup
    <3>1. kernel["out"] # "busy"
      BY <2>2 DEF HostCleanup, KernelInv, Urbs
    <3>. QED
      BY <2>2, <3>1 DEF HostCleanup, Urbs
  <2>3. CASE ~(HostSubmit \/ DebugText \/ HostCleanup)
    BY <2>3 DEF HostTop, HostFind, HostWalk, HostSelect, HostInput, HostWait, Interrupt, Plug, Press,
       Tilt, Detach, SelectMode, vars
  <2>. QED
    BY <2>1, <2>2, <2>3
<1>3. mode_changed' = FALSE => mode_changed = FALSE /\ mode' = mode
  <2>1. CASE HostInput
    BY <2>1 DEF HostInput
  <2>2. CASE ~HostInput
    BY <2>2 DEF HostTop, HostFind, HostWalk, HostSubmit, HostSelect, HostWait, HostCleanup,
       Interrupt, DebugText, Plug, Press, Tilt, Detach, SelectMode, WorldKeep, host, vars
  <2>. QED
    BY <2>1, <2>2
<1>4. open' /\ ~alive' => open /\ ~alive
  <2>1. CASE HostFind
    <3>1. ~open
      BY <2>1 DEF HostFind, KernelInv, WithoutDevice
    <3>. QED
      BY <2>1, <3>1 DEF HostFind
  <2>2. CASE HostWalk \/ HostCleanup
    BY <2>2 DEF HostWalk, HostCleanup, world
  <2>3. CASE ~(HostFind \/ HostWalk \/ HostCleanup)
    BY <2>3 DEF HostTop, HostSubmit, HostSelect, HostInput, HostWait, Interrupt, DebugText, Plug,
       Press, Tilt, Detach, SelectMode, WorldKeep, host, world, vars
  <2>. QED
    BY <2>1, <2>2, <2>3
<1>. QED
  BY <1>1, <1>2, <1>3, <1>4, PipeAside

\* An event that changes the buttons leaves them to be sent.
LEMMA PipeEvdev ==
  ASSUME LoopTypes, HandTypes, HandsInv, StillReady, PipeInv, HostEvdev PROVE PipeInv'
<1>1. PICK d \in ready.keys : DoEvdevInput(d)
  BY DEF HostEvdev
<1>2. d \in Devs /\ keys[d] # <<>> /\ held' = held
  BY <1>1 DEF HostEvdev, StillReady, LoopTypes
<1>3. UNCHANGED <<pkt, rx, pads, kernel, excused, strayed, mode, mode_changed, open, alive>>
  BY DEF HostEvdev, history
<1>4. ASSUME NEW p \in Players, dirty'[p] = FALSE PROVE dirty[p] = FALSE /\ state'[p] = state[p]
  <2>1. CASE p # Args[d].player \/ Silent(keys[d][1])
    BY <1>1, <1>2, <1>4, <2>1, EventFields
  <2>2. CASE p = Args[d].player /\ ~Silent(keys[d][1])
    <3>1. PICK new : new = NewButtons(d, keys[d][1])
      OBVIOUS
    <3>2. state'[p] = new /\ dirty'[p] = Dirtied(dirty[p], state[p], new)
      BY <1>1, <1>2, <2>2, <3>1, EventFields
    <3>3. dirty[p] \in BOOLEAN
      BY DEF LoopTypes
    <3>. QED
      BY <1>4, <3>2, <3>3 DEF Dirtied
  <2>. QED
    BY <2>1, <2>2
<1>. QED
  BY <1>3, <1>4, PipeAside

LEMMA PipeReap ==
  ASSUME KernelInv, LoopTypes, PipeInv, HostReap \/ HostReapGone PROVE PipeInv'
<1>1. UNCHANGED <<pkt, rx, pads, state, dirty, mode, mode_changed, alive>> /\ at = "reap"
  BY DEF HostReap, HostReapGone, world
<1>2. CASE Close
  <2>1. open' = FALSE /\ kernel'["out"] = "none"
    BY <1>2 DEF Close, Urbs
  <2>2. kernel["out"] = "busy" => "out" \in urbs
    BY <1>1 DEF KernelInv, WithDevice, PendingTruth, Urbs
  <2>3. \A p \in Players : p \notin excused' => p \notin excused /\ ~Flying(p)
    BY <1>2, <2>2 DEF Close, Flying
  <2>4. strayed' = FALSE => strayed = FALSE /\ ~FlyingMode
    BY <1>2, <2>2 DEF Close, FlyingMode, LoopTypes
  <2>. QED
    BY <1>1, <2>1, <2>3, <2>4, PipeDrops
<1>3. CASE ~Close
  <2>1. PICK u \in Urbs : Completed(u) /\ kernel' = [kernel EXCEPT ![u] = "none"]
                          /\ UNCHANGED <<open, excused, strayed>>
    BY <1>3 DEF HostReap, HostReapGone, history
  <2>2. kernel'["out"] = "busy" <=> kernel["out"] = "busy"
    BY <2>1 DEF KernelInv, Urbs, Completed
  <2>. QED
    BY <1>1, <2>1, <2>2, PipeAside
<1>. QED
  BY <1>2, <1>3

LEMMA PipeFails == ASSUME KernelInv, LoopTypes, PipeInv, OutFails \/ Unplug PROVE PipeInv'
<1>1. UNCHANGED <<pkt, state, dirty, mode, mode_changed, open>>
  BY DEF OutFails, Unplug, WorldKeep, host
<1>2. CASE OutFails
  <2>1. UNCHANGED <<rx, pads, alive>> /\ alive /\ kernel["out"] = "busy"
        /\ kernel' = [kernel EXCEPT !["out"] = "failed"]
        /\ excused' = excused \cup PlayersOf(pkt) /\ strayed' = (strayed \/ pkt.type = "mode")
    BY <1>2 DEF OutFails
  <2>2. kernel'["out"] # "busy"
    BY <2>1 DEF KernelInv, Urbs
  <2>3. \A p \in Players : p \notin excused' => p \notin excused /\ ~Flying(p)
    BY <2>1 DEF Flying
  <2>4. strayed' = FALSE => strayed = FALSE /\ ~FlyingMode
    BY <2>1 DEF FlyingMode, LoopTypes
  <2>. QED
    BY <1>1, <2>1, <2>2, <2>3, <2>4, PipeDrops
<1>3. CASE Unplug
  BY <1>3 DEF Unplug, PipeInv
<1>. QED
  BY <1>2, <1>3

LEMMA PipeSendMode == ASSUME KernelInv, LoopTypes, PipeInv, HostSendMode PROVE PipeInv'
<1>1. UNCHANGED <<state, dirty, mode, rx, pads, open, alive, excused>>
      /\ pkt' = [type |-> "mode", mode |-> mode] /\ at = "send" /\ Idle
  BY DEF HostSendMode, world
<1>2. kernel["out"] # "busy"
  BY <1>1 DEF KernelInv, WithDevice, PendingTruth, Idle, Urbs
<1>3. PlayersOf(pkt') = {}
  BY <1>1 DEF PlayersOf
<1>4. CASE alive
  <2>1. mode_changed' = FALSE /\ strayed' = FALSE /\ kernel'["out"] = "busy"
    BY <1>4 DEF HostSendMode, KernelInv, Urbs
  <2>2. ASSUME NEW p \in Players \ excused', dirty'[p] = FALSE PROVE BtnsKnown(p)'
    <3>1. BtnsKnown(p) /\ ~Flying(p) /\ ~Flying(p)'
      BY <1>1, <1>2, <1>3, <2>2 DEF PipeInv, Flying
    <3>. QED
      BY <1>1, <3>1 DEF BtnsKnown, About, PlayersOf
  <2>3. ModeKnown'
    BY <1>1, <2>1 DEF ModeKnown, FlyingMode
  <2>. QED
    BY <1>1, <1>4, <2>2, <2>3 DEF PipeInv
<1>5. CASE ~alive
  <2>1. UNCHANGED <<kernel, mode_changed, strayed>>
    BY <1>5 DEF HostSendMode
  <2>2. strayed = TRUE /\ \A p \in Players : p \in excused
    <3>1. open
      BY <1>1 DEF KernelInv, WithDevice
    <3>. QED
      BY <1>5, <3>1 DEF PipeInv
  <2>. QED
    BY <1>1, <2>1, <2>2 DEF PipeInv
<1>. QED
  BY <1>4, <1>5

LEMMA PipeSendButtons == ASSUME KernelInv, LoopTypes, PipeInv, HostSendButtons PROVE PipeInv'
<1>1. UNCHANGED <<state, mode, mode_changed, strayed, rx, pads, open, alive>>
      /\ dirty' = [p \in Players |-> FALSE] /\ at = "send" /\ Idle
  BY DEF HostSendButtons, world
<1>2. kernel["out"] # "busy" /\ open
  BY <1>1 DEF KernelInv, WithDevice, PendingTruth, Idle, Urbs
<1>3. \A p \in Players : ~Flying(p)
  BY <1>2 DEF Flying
<1>4. CASE Changed = {}
  <2>1. UNCHANGED <<kernel, excused>>
    BY <1>4 DEF HostSendButtons
  <2>2. ASSUME NEW p \in Players \ excused', dirty'[p] = FALSE PROVE BtnsKnown(p)'
    <3>1. dirty[p] = FALSE
      BY <1>4 DEF Changed, LoopTypes
    <3>2. BtnsKnown(p) /\ ~Flying(p) /\ ~Flying(p)'
      BY <1>2, <2>1, <2>2, <3>1 DEF PipeInv, Flying
    <3>. QED
      BY <1>1, <3>2 DEF BtnsKnown, About, PlayersOf
  <2>3. ASSUME strayed' = FALSE, mode_changed' = FALSE PROVE ModeKnown'
    <3>1. ModeKnown /\ ~FlyingMode /\ ~FlyingMode'
      BY <1>1, <1>2, <2>1, <2>3 DEF PipeInv, FlyingMode
    <3>. QED
      BY <1>1, <3>1 DEF ModeKnown, IsMode
  <2>. QED
    BY <1>1, <2>1, <2>2, <2>3 DEF PipeInv
<1>5. CASE Changed # {} /\ alive
  <2>1. PICK btns : btns = [p \in Changed |-> state[p]]
    OBVIOUS
  <2>2. pkt' = [type |-> "btns", btns |-> btns] /\ excused' = excused \ Changed
        /\ kernel' = [kernel EXCEPT !["out"] = "busy"]
    BY <1>5, <2>1 DEF HostSendButtons
  <2>3. kernel'["out"] = "busy" /\ PlayersOf(pkt') = Changed
    BY <2>1, <2>2 DEF KernelInv, Urbs, PlayersOf
  <2>4. ASSUME NEW p \in Players \ excused', dirty'[p] = FALSE PROVE BtnsKnown(p)'
    <3>1. CASE p \in Changed
      <4>1. Flying(p)' /\ pkt'.btns[p] = state'[p]
        BY <1>1, <2>1, <2>2, <2>3, <3>1 DEF Flying
      <4>. QED
        BY <4>1 DEF BtnsKnown
    <3>2. CASE p \notin Changed
      <4>1. p \notin excused /\ dirty[p] = FALSE
        BY <2>2, <2>4, <3>2 DEF Changed, LoopTypes
      <4>2. BtnsKnown(p) /\ ~Flying(p) /\ ~Flying(p)'
        BY <1>3, <2>3, <3>2, <4>1 DEF PipeInv, Flying
      <4>. QED
        BY <1>1, <4>2 DEF BtnsKnown, About, PlayersOf
    <3>. QED
      BY <3>1, <3>2
  <2>5. ASSUME strayed' = FALSE, mode_changed' = FALSE PROVE ModeKnown'
    <3>1. ModeKnown /\ ~FlyingMode /\ ~FlyingMode'
      BY <1>1, <1>2, <2>2, <2>5 DEF PipeInv, FlyingMode
    <3>. QED
      BY <1>1, <3>1 DEF ModeKnown, IsMode
  <2>. QED
    BY <1>1, <1>5, <2>4, <2>5 DEF PipeInv
<1>6. CASE Changed # {} /\ ~alive
  <2>1. excused' = excused /\ strayed = TRUE /\ \A p \in Players : p \in excused
    BY <1>2, <1>6 DEF HostSendButtons, PipeInv
  <2>. QED
    BY <1>1, <2>1 DEF PipeInv
<1>. QED
  BY <1>4, <1>5, <1>6

\* The packet arrives behind those that are in the Teensy's buffers.
LEMMA PipeArrives == ASSUME KernelInv, LoopTypes, PipeInv, OutDone PROVE PipeInv'
<1>1. /\ UNCHANGED <<state, dirty, mode, mode_changed, pkt, pads, excused, strayed, open, alive>>
      /\ alive /\ kernel["out"] = "busy" /\ rx' = Append(rx, pkt)
  BY DEF OutDone, WorldKeep, host, history
<1>2. kernel'["out"] = "done"
  BY DEF OutDone, KernelInv, Urbs
<1>3. PICK n : n = Len(rx)
  OBVIOUS
<1>4. /\ n \in Nat /\ DOMAIN rx = 1..n /\ DOMAIN rx' = 1..(n + 1)
      /\ rx'[n + 1] = pkt /\ \A i \in 1..n : rx'[i] = rx[i]
  BY <1>1, <1>3, Appended DEF LoopTypes
<1>5. ASSUME NEW p \in Players \ excused', dirty'[p] = FALSE PROVE BtnsKnown(p)'
  <2>1. BtnsKnown(p) /\ ~Flying(p)' /\ state'[p] = state[p]
    BY <1>1, <1>2, <1>5 DEF PipeInv, Flying
  <2>2. About(p, n + 1)' <=> Flying(p)
    BY <1>1, <1>4 DEF About, Flying
  <2>3. \A i \in 1..n : About(p, i)' <=> About(p, i)
    BY <1>4 DEF About
  <2>4. ASSUME NEW i \in 1..(n + 1), About(p, i)', \A j \in 1..(n + 1) : j > i => ~About(p, j)'
        PROVE  rx'[i].btns[p] = state[p]
    <3>1. CASE i = n + 1
      BY <1>4, <2>1, <2>2, <2>4, <3>1 DEF BtnsKnown
    <3>2. CASE i \in 1..n
      <4>1. ~Flying(p)
        BY <1>4, <2>2, <2>4, <3>2
      <4>2. About(p, i) /\ \A j \in 1..n : j > i => ~About(p, j)
        BY <1>4, <2>3, <2>4, <3>2
      <4>3. rx[i].btns[p] = state[p]
        BY <1>4, <2>1, <3>2, <4>1, <4>2 DEF BtnsKnown
      <4>. QED
        BY <1>4, <3>2, <4>3
    <3>. QED
      BY <1>4, <2>4, <3>1, <3>2
  <2>5. ASSUME \A i \in 1..(n + 1) : ~About(p, i)' PROVE pads.btn[p] = state[p]
    <3>1. ~Flying(p) /\ \A i \in 1..n : ~About(p, i)
      BY <1>4, <2>2, <2>3, <2>5
    <3>. QED
      BY <1>4, <2>1, <3>1 DEF BtnsKnown
  <2>. QED
    BY <1>1, <1>4, <2>1, <2>4, <2>5 DEF BtnsKnown
<1>6. ASSUME strayed' = FALSE, mode_changed' = FALSE PROVE ModeKnown'
  <2>1. ModeKnown /\ ~FlyingMode'
    BY <1>1, <1>2, <1>6 DEF PipeInv, FlyingMode
  <2>2. IsMode(n + 1)' <=> FlyingMode
    BY <1>1, <1>4 DEF IsMode, FlyingMode
  <2>3. \A i \in 1..n : IsMode(i)' <=> IsMode(i)
    BY <1>4 DEF IsMode
  <2>4. ASSUME NEW i \in 1..(n + 1), IsMode(i)', \A j \in 1..(n + 1) : j > i => ~IsMode(j)'
        PROVE  rx'[i].mode = mode
    <3>1. CASE i = n + 1
      BY <1>4, <2>1, <2>2, <2>4, <3>1 DEF ModeKnown
    <3>2. CASE i \in 1..n
      <4>1. ~FlyingMode
        BY <1>4, <2>2, <2>4, <3>2
      <4>2. IsMode(i) /\ \A j \in 1..n : j > i => ~IsMode(j)
        BY <1>4, <2>3, <2>4, <3>2
      <4>3. rx[i].mode = mode
        BY <1>4, <2>1, <3>2, <4>1, <4>2 DEF ModeKnown
      <4>. QED
        BY <1>4, <3>2, <4>3
    <3>. QED
      BY <1>4, <2>4, <3>1, <3>2
  <2>5. ASSUME \A i \in 1..(n + 1) : ~IsMode(i)' PROVE pads.mode = mode
    <3>1. ~FlyingMode /\ \A i \in 1..n : ~IsMode(i)
      BY <1>4, <2>2, <2>3, <2>5
    <3>. QED
      BY <1>4, <2>1, <3>1 DEF ModeKnown
  <2>. QED
    BY <1>1, <1>4, <2>1, <2>4, <2>5 DEF ModeKnown
<1>. QED
  BY <1>1, <1>5, <1>6 DEF PipeInv

\* The firmware takes the first packet.
LEMMA PipeTaken == ASSUME KernelInv, LoopTypes, PipeInv, DoUsb PROVE PipeInv'
<1>1. /\ UNCHANGED <<state, dirty, mode, mode_changed, pkt, strayed, open, alive, kernel>>
      /\ rx # <<>> /\ rx' = Tail(rx)
  BY DEF DoUsb, WorldKeep, host
<1>2. PICK n, one : n = Len(rx) /\ one = rx[1]
  OBVIOUS
<1>3. /\ n \in Nat /\ n > 0 /\ DOMAIN rx = 1..n /\ DOMAIN rx' = 1..(n - 1)
      /\ \A i \in 1..(n - 1) : rx'[i] = rx[i + 1]
      /\ Head(rx) = one /\ one \in Packets
  BY <1>1, <1>2, ReadOne DEF LoopTypes
<1>4. /\ \A p : \A i \in 1..(n - 1) : About(p, i)' <=> About(p, i + 1)
      /\ \A i \in 1..(n - 1) : IsMode(i)' <=> IsMode(i + 1)
      /\ \A i \in 2..n : i - 1 \in 1..(n - 1) /\ (i - 1) + 1 = i
      /\ \A i \in 1..(n - 1) : i + 1 \in 2..n
  BY <1>3 DEF About, IsMode
<1>5. ASSUME NEW p, ~Flying(p), \A i \in 1..(n - 1) : ~About(p, i)' PROVE p \notin Underway
  <2>1. \A i \in 2..n : ~About(p, i)
    BY <1>4, <1>5
  <2>2. \A i \in 2..Len(rx) : p \notin PlayersOf(rx[i])
    BY <1>2, <2>1 DEF About
  <2>. QED
    BY <1>5, <2>2 DEF Underway, Flying
<1>6. /\ pads'.mode = IF one.type = "mode" THEN one.mode ELSE pads.mode
      /\ \A p \in Players : p \in excused => p \in excused'
      /\ \A p \in Players : p \notin excused' /\ p \notin Underway =>
           pads'.btn[p] = IF one.type = "mode" THEN pads.btn[p]
                          ELSE IF p \in PlayersOf(one) THEN one.btns[p] ELSE pads.btn[p]
  <2>1. CASE one.type = "mode"
    <3>1. pads' = [mode |-> one.mode, btn |-> Nothing]
          /\ excused' = excused \cup ({q \in Players : pads.btn[q] # {}} \ Underway)
      BY <1>3, <2>1 DEF DoUsb
    <3>. QED
      BY <2>1, <3>1 DEF Nothing
  <2>2. CASE one.type # "mode"
    <3>1. one.type = "btns" /\ PlayersOf(one) = DOMAIN one.btns
      BY <1>3, <2>2 DEF Packets, PlayersOf
    <3>2. PICK who, btn :
            /\ who = DOMAIN one.btns \cap Served(pads.mode)
            /\ btn = [q \in Players |-> IF q \in who THEN one.btns[q] ELSE pads.btn[q]]
      OBVIOUS
    <3>3. pads' = [pads EXCEPT !.btn = btn] /\ excused' = excused \cup ((DOMAIN one.btns \ who) \ Underway)
      BY <1>3, <2>2, <3>2 DEF DoUsb
    <3>4. pads'.mode = pads.mode /\ pads'.btn = btn
      BY <3>3 DEF LoopTypes
    <3>. QED
      BY <2>2, <3>1, <3>2, <3>3, <3>4
  <2>. QED
    BY <2>1, <2>2
<1>7. ASSUME NEW p \in Players \ excused', dirty'[p] = FALSE PROVE BtnsKnown(p)'
  <2>1. BtnsKnown(p) /\ state'[p] = state[p] /\ (Flying(p)' <=> Flying(p))
    BY <1>1, <1>6, <1>7 DEF PipeInv, Flying
  <2>2. ASSUME Flying(p) PROVE BtnsKnown(p)'
    BY <1>1, <2>1, <2>2 DEF BtnsKnown
  <2>3. ASSUME ~Flying(p) PROVE BtnsKnown(p)'
    <3>1. ASSUME NEW i \in 1..(n - 1), About(p, i)', \A j \in 1..(n - 1) : j > i => ~About(p, j)'
          PROVE  rx'[i].btns[p] = state[p]
      <4>1. i + 1 \in 1..n /\ About(p, i + 1) /\ rx'[i] = rx[i + 1]
        BY <1>3, <1>4, <3>1
      <4>2. \A j \in 1..n : j > i + 1 => ~About(p, j)
        <5>1. SUFFICES ASSUME NEW j \in 1..n, j > i + 1 PROVE ~About(p, j)
          OBVIOUS
        <5>2. j \in 2..n /\ j - 1 > i
          BY <1>3, <5>1
        <5>. QED
          BY <1>4, <3>1, <5>2
      <4>. QED
        BY <1>3, <2>1, <2>3, <4>1, <4>2 DEF BtnsKnown
    <3>2. ASSUME \A i \in 1..(n - 1) : ~About(p, i)' PROVE pads'.btn[p] = state[p]
      <4>1. p \notin Underway
        BY <1>5, <2>3, <3>2
      <4>2. pads'.btn[p] = IF one.type = "mode" THEN pads.btn[p]
                           ELSE IF p \in PlayersOf(one) THEN one.btns[p] ELSE pads.btn[p]
        BY <1>6, <1>7, <4>1
      <4>3. \A i \in 2..n : ~About(p, i)
        BY <1>4, <3>2
      <4>4. 1 \in 1..n /\ (About(p, 1) <=> p \in PlayersOf(one))
        BY <1>2, <1>3 DEF About
      <4>5. CASE p \in PlayersOf(one)
        <5>1. one.type # "mode"
          BY <4>5 DEF PlayersOf
        <5>2. \A j \in 1..n : j > 1 => ~About(p, j)
          BY <1>3, <4>3
        <5>3. rx[1].btns[p] = state[p]
          BY <1>3, <2>1, <2>3, <4>4, <4>5, <5>2 DEF BtnsKnown
        <5>. QED
          BY <1>2, <4>2, <4>5, <5>1, <5>3
      <4>6. CASE p \notin PlayersOf(one)
        <5>1. \A j \in 1..n : ~About(p, j)
          <6>1. \A j \in 1..n : j = 1 \/ j \in 2..n
            BY <1>3
          <6>. QED
            BY <4>3, <4>4, <4>6, <6>1
        <5>2. pads.btn[p] = state[p]
          BY <1>3, <2>1, <2>3, <5>1 DEF BtnsKnown
        <5>. QED
          BY <4>2, <4>6, <5>2
      <4>. QED
        BY <4>5, <4>6
    <3>. QED
      BY <1>3, <2>1, <2>3, <3>1, <3>2 DEF BtnsKnown
  <2>. QED
    BY <2>2, <2>3
<1>8. ASSUME strayed' = FALSE, mode_changed' = FALSE PROVE ModeKnown'
  <2>1. ModeKnown /\ (FlyingMode' <=> FlyingMode)
    BY <1>1, <1>8 DEF PipeInv, FlyingMode
  <2>2. ASSUME FlyingMode PROVE ModeKnown'
    BY <1>1, <2>1, <2>2 DEF ModeKnown
  <2>3. ASSUME ~FlyingMode PROVE ModeKnown'
    <3>1. ASSUME NEW i \in 1..(n - 1), IsMode(i)', \A j \in 1..(n - 1) : j > i => ~IsMode(j)'
          PROVE  rx'[i].mode = mode
      <4>1. i + 1 \in 1..n /\ IsMode(i + 1) /\ rx'[i] = rx[i + 1]
        BY <1>3, <1>4, <3>1
      <4>2. \A j \in 1..n : j > i + 1 => ~IsMode(j)
        <5>1. SUFFICES ASSUME NEW j \in 1..n, j > i + 1 PROVE ~IsMode(j)
          OBVIOUS
        <5>2. j \in 2..n /\ j - 1 > i
          BY <1>3, <5>1
        <5>. QED
          BY <1>4, <3>1, <5>2
      <4>. QED
        BY <1>3, <2>1, <2>3, <4>1, <4>2 DEF ModeKnown
    <3>2. ASSUME \A i \in 1..(n - 1) : ~IsMode(i)' PROVE pads'.mode = mode
      <4>1. \A i \in 2..n : ~IsMode(i)
        BY <1>4, <3>2
      <4>2. 1 \in 1..n /\ (IsMode(1) <=> one.type = "mode")
        BY <1>2, <1>3 DEF IsMode
      <4>3. CASE one.type = "mode"
        <5>1. \A j \in 1..n : j > 1 => ~IsMode(j)
          BY <1>3, <4>1
        <5>2. rx[1].mode = mode
          BY <1>3, <2>1, <2>3, <4>2, <4>3, <5>1 DEF ModeKnown
        <5>. QED
          BY <1>2, <1>6, <4>3, <5>2
      <4>4. CASE one.type # "mode"
        <5>1. \A j \in 1..n : ~IsMode(j)
          <6>1. \A j \in 1..n : j = 1 \/ j \in 2..n
            BY <1>3
          <6>. QED
            BY <4>1, <4>2, <4>4, <6>1
        <5>2. pads.mode = mode
          BY <1>3, <2>1, <2>3, <5>1 DEF ModeKnown
        <5>. QED
          BY <1>6, <4>4, <5>2
      <4>. QED
        BY <4>3, <4>4
    <3>. QED
      BY <1>1, <1>3, <2>1, <2>3, <3>1, <3>2 DEF ModeKnown
  <2>. QED
    BY <2>2, <2>3
<1>9. ASSUME open', ~alive' PROVE strayed' = TRUE /\ \A p \in Players : p \in excused'
  BY <1>1, <1>6, <1>9 DEF PipeInv
<1>. QED
  BY <1>7, <1>8, <1>9 DEF PipeInv

-----------------------------------------------------------------------------
\* A stick at rest does not lean.
LEMMA Middle ==
  ASSUME NEW min \in Int, NEW max \in Int, min <= max, NEW v, v = (min + max) \div 2
  PROVE  ~(3 * ((v - min) + 1) <= max - min) /\ ~(3 * ((max - v) + 1) <= max - min)
<1>1. v \in Int /\ 2 * v <= min + max /\ min + max < 2 * v + 2
  OBVIOUS
<1>. QED
  BY <1>1

LEMMA SyncInitially == HostInit => SyncInv
<1>1. SUFFICES ASSUME HostInit PROVE SyncInv
  OBVIOUS
<1>2. KernelInv
  BY <1>1, KernelInitially
<1>3. /\ state = Nothing /\ dirty = [p \in Players |-> FALSE] /\ pkt = NoPkt /\ rx = <<>> /\ stdin = <<>>
      /\ pads = Fresh /\ excused = {} /\ strayed = FALSE /\ fds = Devs /\ at = "top" /\ open = FALSE
      /\ kernel = [u \in Urbs |-> "none"] /\ ready = [stdin |-> FALSE, usb |-> FALSE, keys |-> {}]
      /\ held = [d \in Devs |-> AtRest(d)] /\ keys = [d \in Devs |-> <<>>]
  BY <1>1 DEF HostInit
<1>4. mode \in Modes \cup {"3btn"} /\ mode_changed \in BOOLEAN /\ (mode_changed = FALSE => mode = "3btn")
  BY <1>1 DEF HostInit
<1>5. kernel["out"] = "none"
  BY <1>3 DEF Urbs
<1>6. LoopTypes
  <2>1. state \in [Players -> SUBSET Masks] /\ pads.btn \in [Players -> SUBSET Masks]
        /\ dirty \in [Players -> BOOLEAN] /\ pads = [mode |-> pads.mode, btn |-> pads.btn]
    BY <1>3 DEF Nothing, Fresh
  <2>2. rx \in Seq(Packets) /\ stdin \in Seq(Modes) /\ pkt \in {NoPkt} \cup Packets
    BY <1>3
  <2>3. ready = [stdin |-> ready.stdin, usb |-> ready.usb, keys |-> ready.keys]
        /\ ready.keys \subseteq Devs /\ fds \subseteq Devs
    BY <1>3
  <2>. QED
    BY <1>3, <1>4, <1>5, <2>1, <2>2, <2>3 DEF LoopTypes
<1>7. \A d \in Devs : AtRest(d) \in Hands(d)
  <2>1. SUFFICES ASSUME NEW d \in Devs PROVE AtRest(d) \in Hands(d)
    OBVIOUS
  <2>2. (Args[d].min + Args[d].max) \div 2 \in Int
    BY ArgTypes
  <2>. QED
    BY <2>2 DEF AtRest, Hands
<1>8. HandTypes
  BY <1>3, <1>7 DEF HandTypes
<1>9. StillReady
  BY <1>3 DEF StillReady
<1>10. PipeInv
  BY <1>3, <1>4, <1>5 DEF PipeInv, BtnsKnown, ModeKnown, Flying, FlyingMode, Fresh, Nothing
<1>11. HandsInv
  <2>1. \A d \in Devs : DOMAIN keys[d] = {} /\ held[d].down = {}
                       /\ held[d].stick = [a \in Args[d].axes |-> (Args[d].min + Args[d].max) \div 2]
    BY <1>3 DEF AtRest
  <2>2. ASSUME NEW d \in Devs
        PROVE  KeysTell(keys[d], held[d].down) /\ SticksTell(keys[d], held[d].stick)
    BY <2>1 DEF KeysTell, SticksTell
  <2>3. \A d \in Devs : \A kc \in Args[d].keys : \A b : ~KeyHolds(d, kc, b)
    BY <2>1 DEF KeyHolds, DownFrom
  <2>4. ASSUME NEW d \in Devs, NEW a \in Args[d].axes PROVE Leaning(d, a) = {}
    <3>1. PICK min, max, v : min = Args[d].min /\ max = Args[d].max /\ v = held[d].stick[a]
      OBVIOUS
    <3>2. min \in Int /\ max \in Int /\ min <= max /\ v = (min + max) \div 2
      BY <2>1, <3>1, ArgTypes
    <3>3. ~(3 * ((v - min) + 1) <= max - min) /\ ~(3 * ((max - v) + 1) <= max - min)
      BY <3>2, Middle
    <3>. QED
      BY <3>1, <3>3 DEF Leaning
  <2>5. ASSUME NEW p \in Players PROVE NoneExtra(p) /\ NoneMissing(p)
    <3>1. NoneExtra(p)
      BY <1>3 DEF NoneExtra, Nothing
    <3>2. NoneMissing(p)
      BY <2>3, <2>4 DEF NoneMissing, StickHolds
    <3>. QED
      BY <3>1, <3>2
  <2>. QED
    BY <2>2, <2>5 DEF HandsInv
<1>. QED
  BY <1>2, <1>6, <1>8, <1>9, <1>10, <1>11 DEF SyncInv

LEMMA SyncStep == SyncInv /\ [HostNext]_vars => SyncInv'
<1>1. SUFFICES ASSUME SyncInv, [HostNext]_vars PROVE SyncInv'
  OBVIOUS
<1>2. KernelInv /\ LoopTypes /\ HandTypes /\ StillReady /\ PipeInv /\ HandsInv
  BY <1>1 DEF SyncInv
<1>3. KernelInv'
  BY <1>1, <1>2, KernelStep
<1>4. HandTypes' /\ HandsInv'
  <2>1. CASE Press
    BY <1>2, <2>1, HandsPress
  <2>2. CASE Tilt
    BY <1>2, <2>2, HandsTilt
  <2>3. CASE Detach
    BY <1>2, <2>3, HandsDetach
  <2>4. CASE HostEvdev
    <3>1. PICK d \in ready.keys : DoEvdevInput(d)
      BY <2>4 DEF HostEvdev
    <3>2. d \in Devs /\ keys[d] # <<>> /\ held' = held
      BY <1>2, <2>4, <3>1 DEF HostEvdev, StillReady, LoopTypes
    <3>. QED
      BY <1>2, <3>1, <3>2, HandsEvent
  <2>5. CASE UNCHANGED <<keys, held, fds, state>>
    BY <1>2, <2>5, HandsSame DEF HandTypes, Events, Hands
  <2>6. Press \/ Tilt \/ Detach \/ HostEvdev \/ UNCHANGED <<keys, held, fds, state>>
    <3>1. CASE Host \/ Interrupt
      BY <3>1 DEF Host, HostTop, HostFind, HostWalk, HostSubmit, HostSelect, HostInput,
         HostReapGone, HostReap, HostWait, HostSendMode, HostSendButtons, HostCleanup, Interrupt,
         world, input
    <3>2. CASE World \/ UNCHANGED vars
      BY <3>2 DEF World, Usb, OutDone, OutFails, DebugText, DoUsb, Unplug, Plug, SelectMode,
         WorldKeep, host, world, input, vars
    <3>. QED
      BY <1>1, <3>1, <3>2 DEF HostNext
  <2>. QED
    BY <2>1, <2>2, <2>3, <2>4, <2>5, <2>6
<1>5. LoopTypes'
  BY <1>1, <1>2, TypesQuiet, TypesInput, TypesEvdev, TypesSend, TypesTeensy
     DEF HostNext, Host, World, Usb
<1>6. StillReady'
  BY <1>1, <1>2, <1>4, ReadyStep
<1>7. PipeInv'
  BY <1>1, <1>2, PipeQuiet, PipeEvdev, PipeReap, PipeFails, PipeSendMode, PipeSendButtons,
     PipeArrives, PipeTaken DEF HostNext, Host, World, Usb
<1>. QED
  BY <1>3, <1>4, <1>5, <1>6, <1>7 DEF SyncInv

LEMMA SyncMeans == SyncInv => InSync
<1>1. SUFFICES ASSUME SyncInv, Settled
               PROVE  /\ mode = pads.mode \/ strayed
                      /\ \A p \in Players \ excused : pads.btn[p] = state[p]
                      /\ \A p \in Players : Whole(p) =>
                           state[p] \subseteq Pressed(p) /\ Pressed(p) \cap Sole[p] \subseteq state[p]
  BY DEF InSync
<1>2. KernelInv /\ LoopTypes /\ HandTypes /\ PipeInv /\ HandsInv
  BY <1>1 DEF SyncInv
<1>3. /\ rx = <<>> /\ kernel["out"] = "none" /\ mode_changed = FALSE
      /\ \A d \in fds : keys[d] = <<>> /\ \A p \in Players : dirty[p] = FALSE
  BY <1>1, <1>2 DEF Settled, LoopTypes
<1>4. mode = pads.mode \/ strayed
  <2>1. strayed \in BOOLEAN
    BY <1>2 DEF LoopTypes
  <2>2. ASSUME strayed = FALSE PROVE pads.mode = mode
    BY <1>2, <1>3, <2>2 DEF PipeInv, ModeKnown, FlyingMode
  <2>. QED
    BY <2>1, <2>2
<1>5. ASSUME NEW p \in Players \ excused PROVE pads.btn[p] = state[p]
  <2>1. \A x \in Players : dirty[x] = FALSE
    BY <1>1, <1>2 DEF Settled, LoopTypes
  <2>2. BtnsKnown(p)
    BY <1>2, <1>5, <2>1 DEF PipeInv
  <2>. QED
    BY <1>3, <2>2 DEF BtnsKnown, Flying
<1>6. ASSUME NEW p \in Players, Whole(p)
      PROVE  state[p] \subseteq Pressed(p) /\ Pressed(p) \cap Sole[p] \subseteq state[p]
  <2>1. \A d \in Devs : Args[d].player = p => d \in fds /\ keys[d] = <<>>
    BY <1>3, <1>6 DEF Whole
  <2>2. Live(p)
    BY <2>1 DEF Live
  <2>3. NoneExtra(p) /\ NoneMissing(p)
    BY <1>2, <2>2 DEF HandsInv
  <2>4. ASSUME NEW d \in Devs, Args[d].player = p
        PROVE  /\ \A kc \in Args[d].keys : \A b :
                    KeyHolds(d, kc, b) <=> b \in KcMap[d][kc] /\ kc \in held[d].down
               /\ \A a \in Args[d].axes : \A b : StickMay(d, a, b) => b \in Leaning(d, a)
               /\ \A a \in Args[d].axes : \A b : b \in Leaning(d, a) => StickHolds(d, a, b)
    <3>1. DOMAIN keys[d] = {}
      BY <2>1, <2>4
    <3>. QED
      BY <3>1 DEF KeyHolds, StickMay, StickHolds, Moving, DownFrom
  <2>5. ASSUME NEW b \in state[p] PROVE b \in Pressed(p)
    <3>1. PICK d \in Devs :
            /\ Args[d].player = p
            /\ \/ \E kc \in Args[d].keys : KeyHolds(d, kc, b)
               \/ \E a \in Args[d].axes : StickMay(d, a, b)
      BY <2>3, <2>5 DEF NoneExtra
    <3>2. \/ \E kc \in held[d].down : b \in KcMap[d][kc]
          \/ \E a \in Args[d].axes : b \in Leaning(d, a)
      BY <2>4, <3>1
    <3>. QED
      BY <3>1, <3>2 DEF Pressed
  <2>6. ASSUME NEW b \in Pressed(p), b \in Sole[p] PROVE b \in state[p]
    <3>1. PICK d \in Devs :
            /\ Args[d].player = p
            /\ \/ \E kc \in held[d].down : b \in KcMap[d][kc]
               \/ \E a \in Args[d].axes : b \in Leaning(d, a)
      BY <2>6 DEF Pressed
    <3>2. held[d].down \subseteq Args[d].keys
      BY <1>2 DEF HandTypes, Hands
    <3>. QED
      BY <2>3, <2>4, <2>6, <3>1, <3>2 DEF NoneMissing
  <2>. QED
    BY <2>5, <2>6
<1>. QED
  BY <1>4, <1>5, <1>6

(***************************************************************************)
(* Once everything has arrived, the pads show what the players hold, in    *)
(* the mode that was selected (main.c:782-880 of the host, do_usb of the   *)
(* firmware): no change is forgotten between do_evdev_input, the dirty     *)
(* flags, the URB and the firmware's buffers, whatever fails in between.   *)
(***************************************************************************)
THEOREM HostInSync == HostSpec => []InSync
<1>. QED
  BY SyncInitially, SyncStep, SyncMeans, PTL DEF HostSpec
=============================================================================
