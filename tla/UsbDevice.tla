----------------------------- MODULE UsbDevice ------------------------------
(***************************************************************************)
(* The Teensy's USB device as the joypad firmware uses it: usb_isr and the *)
(* firmware's main loop share a pool of packet buffers (usb_mem.c), the    *)
(* buffer descriptor table and the packet queues (usb_dev.c).  The loop    *)
(* receives raw HID packets and prints over the emulated serial port.      *)
(*                                                                         *)
(* The interrupt is one step, and so is what the loop does with it masked. *)
(* Endpoint 0's transfers other than SET_CONFIGURATION are left out.  One  *)
(* endpoint transmits, the serial port's, and the raw HID one receives:    *)
(* the firmware calls neither usb_rawhid_send nor usb_seremu_getchar, and  *)
(* nothing is sent to the port.  Which data bank is next is the            *)
(* controller's business, hw; a buffer's contents are its packet's number. *)
(***************************************************************************)
EXTENDS Integers, Sequences, FiniteSets, FiniteSetsExt, SequencesExt

CONSTANTS
  Buffers,    \* NUM_USB_BUFFERS of them
  RxEps,      \* receiving endpoints 1..RxEps in table order; the last is raw HID
  PacketSize, \* SEREMU_TX_SIZE
  TxLimit,    \* TX_PACKET_LIMIT
  MaxOut, MaxWrites, MaxPrint, MaxResets \* bounds: packets in, prints, bytes of one, bus resets

NoBuf == 0
ASSUME UsbAssumption ==
  /\ Buffers \subseteq Nat \ {NoBuf} /\ IsFiniteSet(Buffers)
  /\ {RxEps, PacketSize} \subseteq Nat \ {0}
  /\ {TxLimit, MaxOut, MaxWrites, MaxPrint, MaxResets} \subseteq Nat

VARIABLES
  conf,  \* usb_configuration, and whether the host has sent one since the last reset
  mem,   \* rx: the receive banks (even, odd of each endpoint); needed; avail
  rxq,   \* rx_first..rx_last of the raw HID endpoint
  tx,    \* state, bank, queue: tx_state and the two banks, tx_first..tx_last
  hw,    \* the controller: which bank it uses next, rx and tx
  buf,   \* the packet number in each buffer
  main,  \* the loop: at, the packet it holds, what it has received, printing left
  ser,   \* tx_packet, its index, tx_noautoflush, timer running, previous timeout
  used   \* packets in and out, prints and resets so far, taken: the last one sent

vars == <<conf, mem, rxq, tx, hw, buf, main, ser, used>>
Slots == 1..(2 * RxEps)
RawHid == 2 * RxEps - 1      \* its even bank; the odd one follows
Configured == conf.device

-----------------------------------------------------------------------------
(* usb_mem.c and usb_rx_memory, as what they do to mem.                    *)

Empties(m) == {s \in Slots : m.rx[s] = NoBuf}
ToPool(m, b) == [m EXCEPT !.avail = @ \cup {b}]
NoneNeeded(m) == [m EXCEPT !.needed = 0]
Give(m, b) == [m EXCEPT !.rx[Min(Empties(m))] = b, !.needed = (@ - 1) % 256]

\* usb_rx_memory, then, without the interrupt coming in between.
Feed(m, b) ==
  IF Empties(m) # {} THEN Give(m, b) ELSE ToPool(NoneNeeded(m), b)
\* usb_free in a configured device.  OneOwner: to the pool as well.
Freed_Bug(m, b) == IF m.needed > 0 THEN ToPool(Feed(m, b), b) ELSE ToPool(m, b)
Freed(m, b) == IF m.needed > 0 THEN Feed(m, b) ELSE ToPool(m, b)
IsrFree(m, b) == IF Configured THEN Freed(m, b) ELSE ToPool(m, b)

\* usb_malloc hands out a buffer that is free; which one does not matter.
Free(m) == m.avail \cap Buffers
Malloc(m) == CHOOSE b \in Free(m) : TRUE
\* A new buffer for bank s of an endpoint, or none.
Rearm(m, s) ==
  IF Free(m) = {} THEN [m EXCEPT !.rx[s] = NoBuf, !.needed = (@ + 1) % 256]
  ELSE [m EXCEPT !.rx[s] = Malloc(m), !.avail = @ \ {Malloc(m)}]

-----------------------------------------------------------------------------
(* Transmission: tx_state says which banks are free and which is first.    *)

Fills == [bothEven |-> 0, bothOdd |-> 1, evenFree |-> 0, oddFree |-> 1]
Filled == [bothEven |-> "oddFree", bothOdd |-> "evenFree",
           evenFree |-> "noneOdd", oddFree |-> "noneEven"]
\* BanksAgree: "both free" does not remember which one is first.
Drained_Bug(state, k) ==
  CASE state \in {"evenFree", "oddFree"} -> "bothEven"
    [] state \in {"noneEven", "noneOdd"} -> IF k = 1 THEN "oddFree" ELSE "evenFree"
    [] OTHER -> state
Drained(state, k) ==
  CASE state = "evenFree" -> "bothEven" [] state = "oddFree" -> "bothOdd"
    [] state \in {"noneEven", "noneOdd"} -> IF k = 1 THEN "oddFree" ELSE "evenFree"
    [] OTHER -> state
Refilled(state) == IF state \in DOMAIN Filled THEN Filled[state] ELSE state
Reset == [bothEven |-> "bothEven", evenFree |-> "bothEven", noneEven |-> "bothEven",
          bothOdd |-> "bothOdd", oddFree |-> "bothOdd", noneOdd |-> "bothOdd"]

\* usb_tx
Sent(t, b) ==
  IF t.state \in DOMAIN Fills
  THEN [t EXCEPT !.bank[Fills[t.state]] = b, !.state = Filled[t.state]]
  ELSE [t EXCEPT !.queue = Append(@, b)]

-----------------------------------------------------------------------------
(* usb_isr.                                                                *)

CanSend == used.out + used.empty < MaxOut
\* Received: rx_last is not moved on when a packet is appended.
Receive_Bug ==
  LET s == RawHid + hw.rx
      b == mem.rx[s] IN
  /\ conf.host /\ CanSend /\ b # NoBuf
  /\ buf' = [buf EXCEPT ![b] = used.out + 1]
  /\ rxq' = IF rxq = <<>> THEN <<b>> ELSE <<Head(rxq), b>>
  /\ mem' = Rearm(mem, s)
  /\ hw' = [hw EXCEPT !.rx = 1 - @]
  /\ used' = [used EXCEPT !.out = @ + 1]
  /\ UNCHANGED <<conf, tx, main, ser>>
\* The host sends a packet to raw HID; the handler queues it and gives the
\* bank another buffer.  A bank without a buffer makes the controller NAK.
Receive ==
  LET s == RawHid + hw.rx
      b == mem.rx[s] IN
  /\ conf.host /\ CanSend /\ b # NoBuf
  /\ buf' = [buf EXCEPT ![b] = used.out + 1]
  /\ rxq' = Append(rxq, b)
  /\ mem' = Rearm(mem, s)
  /\ hw' = [hw EXCEPT !.rx = 1 - @]
  /\ used' = [used EXCEPT !.out = @ + 1]
  /\ UNCHANGED <<conf, tx, main, ser>>

\* A packet without data is not queued: its bank is offered again.
ReceiveEmpty ==
  /\ conf.host /\ CanSend /\ mem.rx[RawHid + hw.rx] # NoBuf
  /\ hw' = [hw EXCEPT !.rx = 1 - @]
  /\ used' = [used EXCEPT !.empty = @ + 1]
  /\ UNCHANGED <<conf, mem, rxq, tx, buf, main, ser>>

\* The host takes a packet; the handler refills the bank from the queue.
Transmit ==
  LET k == hw.tx
      b == tx.bank[k] IN
  /\ conf.host /\ b # NoBuf
  /\ mem' = IsrFree(mem, b)
  /\ tx' = IF tx.queue # <<>>
           THEN [tx EXCEPT !.bank[k] = Head(tx.queue), !.queue = Tail(@), !.state = Refilled(@)]
           ELSE [tx EXCEPT !.bank[k] = NoBuf, !.state = Drained(@, k)]
  /\ hw' = [hw EXCEPT !.tx = 1 - @]
  /\ used' = [used EXCEPT !.taken = buf[b]]
  /\ UNCHANGED <<conf, rxq, buf, main, ser>>

\* FlushHasPacket: the callback does not look at tx_noautoflush.
SofFlush_Bug ==
  /\ Configured /\ ser.timer
  /\ ser' = [ser EXCEPT !.timer = FALSE, !.pkt = NoBuf]
  /\ tx' = Sent(tx, ser.pkt)
  /\ UNCHANGED <<conf, mem, rxq, hw, buf, main, used>>
\* TRANSMIT_FLUSH_TIMEOUT start-of-frame interrupts after the last print.
SofFlush ==
  /\ Configured /\ ser.timer
  /\ IF ser.noauto THEN ser' = [ser EXCEPT !.timer = FALSE] /\ UNCHANGED tx
     ELSE ser' = [ser EXCEPT !.timer = FALSE, !.pkt = NoBuf] /\ tx' = Sent(tx, ser.pkt)
  /\ UNCHANGED <<conf, mem, rxq, hw, buf, main, used>>

\* The configuration is kept, and so are the banks and queues, until the
\* host sends SET_CONFIGURATION.
BusReset ==
  /\ used.resets < MaxResets
  /\ hw' = [rx |-> 0, tx |-> 0]
  /\ conf' = [conf EXCEPT !.host = FALSE]
  /\ used' = [used EXCEPT !.resets = @ + 1]
  /\ UNCHANGED <<mem, rxq, tx, buf, main, ser>>

\* Buffers that are in a bank, queued, free, or in the loop's hands.
Held == ({main.pkt, ser.pkt} \cup {tx.bank[k] : k \in {0, 1}} \cup Range(tx.queue)
         \cup Range(rxq) \cup Range(mem.rx) \cup mem.avail) \ {NoBuf}

\* usb_configuration is set first.  Then every bank that has a buffer gives
\* it back, in the order of the table, where serial transmission comes first;
\* a bank that is starving is fed with it, before or after its turn.
FreeOwned(m, b) == IF b = NoBuf THEN m ELSE Freed(m, b)
FreeSlot(m, s) == FreeOwned(m, m.rx[s])
FreeBanks[s \in 0..(2 * RxEps)] ==
  IF s = 0 THEN FreeOwned(FreeOwned(mem, tx.bank[0]), tx.bank[1])
  ELSE FreeSlot(FreeBanks[s - 1], s)
\* The queued packets are next, the serial port's before the raw HID ones.
Unqueued == tx.queue \o rxq
FreeQueues[i \in 0..Len(Unqueued)] ==
  IF i = 0 THEN FreeBanks[2 * RxEps] ELSE Freed(FreeQueues[i - 1], Unqueued[i])
\* At last every receive bank gets a new buffer.
Refill[s \in 0..(2 * RxEps)] ==
  IF s = 0 THEN NoneNeeded(FreeQueues[Len(Unqueued)])
  ELSE Rearm(Refill[s - 1], s)
\* Once after a reset, and with a configuration that is not 0.
SetConfiguration ==
  /\ ~conf.host /\ conf' = [device |-> TRUE, host |-> TRUE]
  /\ mem' = Refill[2 * RxEps]
  /\ rxq' = <<>>
  /\ tx' = [state |-> Reset[tx.state], bank |-> [k \in {0, 1} |-> NoBuf], queue |-> <<>>]
  /\ UNCHANGED <<hw, buf, main, ser, used>>

-----------------------------------------------------------------------------
(* The main loop: usb_rawhid_recv with usb_free, usb_seremu_write.         *)

Idle == main.at = "loop"
KeepIsr == UNCHANGED <<conf, tx, hw, ser>>

RecvTake ==
  /\ Idle /\ Configured /\ rxq # <<>>
  /\ main' = [main EXCEPT !.at = "copy", !.pkt = Head(rxq)]
  /\ rxq' = Tail(rxq)
  /\ UNCHANGED <<mem, buf, used>> /\ KeepIsr

RecvCopy ==
  /\ main.at = "copy"
  /\ main' = [main EXCEPT !.at = "check", !.got = buf[main.pkt]]
  /\ UNCHANGED <<mem, rxq, buf, used>> /\ KeepIsr

\* usb_free looks whether an endpoint is starving, and only then masks the
\* interrupt, in usb_rx_memory.
FreeCheck ==
  /\ main.at = "check"
  /\ main' = [main EXCEPT !.at = IF mem.needed > 0 /\ Configured THEN "feed" ELSE "pool"]
  /\ UNCHANGED <<mem, rxq, buf, used>> /\ KeepIsr

Dropped == [main EXCEPT !.at = "loop", !.pkt = NoBuf]
FreeFeed ==
  /\ main.at = "feed"
  /\ IF Empties(mem) # {} THEN mem' = Give(mem, main.pkt) /\ main' = Dropped
     ELSE main' = [main EXCEPT !.at = "zero"] /\ UNCHANGED mem
  /\ UNCHANGED <<rxq, buf, used>> /\ KeepIsr

\* With the interrupt unmasked again.
FreeZero ==
  /\ main.at = "zero"
  /\ mem' = NoneNeeded(mem) /\ main' = [main EXCEPT !.at = "check"]
  /\ UNCHANGED <<rxq, buf, used>> /\ KeepIsr

\* BuffersKept: the buffer is not given back.
FreePool_Bug ==
  /\ main.at = "pool"
  /\ main' = Dropped
  /\ UNCHANGED <<mem, rxq, buf, used, conf, tx, hw, ser>>
FreePool ==
  /\ main.at = "pool"
  /\ mem' = ToPool(mem, main.pkt) /\ main' = Dropped
  /\ UNCHANGED <<rxq, buf, used>> /\ KeepIsr

KeepRx == UNCHANGED <<conf, rxq, hw>>
WriteStart ==
  /\ Idle /\ used.writes < MaxWrites
  /\ \E n \in 1..MaxPrint : main' = [main EXCEPT !.at = "write", !.left = n]
  /\ ser' = [ser EXCEPT !.noauto = TRUE]
  /\ used' = [used EXCEPT !.writes = @ + 1]
  /\ UNCHANGED <<mem, tx, buf>> /\ KeepRx

WriteEnds == /\ main' = [main EXCEPT !.at = "loop", !.left = 0]
             /\ UNCHANGED <<mem, tx, buf, used>> /\ KeepRx

\* A packet to fill: one that was begun, or a new one.
WriteOld ==
  /\ main.at = "write" /\ ser.pkt # NoBuf
  /\ main' = [main EXCEPT !.at = "fill"]
  /\ UNCHANGED <<mem, tx, buf, ser, used>> /\ KeepRx
CanAllocate == Len(tx.queue) < TxLimit /\ Free(mem) # {}
WriteNew ==
  LET b == Malloc(mem) IN
  /\ main.at = "write" /\ ser.pkt = NoBuf /\ Configured /\ CanAllocate
  /\ mem' = [mem EXCEPT !.avail = @ \ {b}]
  /\ ser' = [ser EXCEPT !.pkt = b, !.index = 0]
  /\ buf' = [buf EXCEPT ![b] = used.in + 1]
  /\ used' = [used EXCEPT !.in = @ + 1]
  /\ main' = [main EXCEPT !.at = "fill"]
  /\ UNCHANGED tx /\ KeepRx
WriteWait ==
  /\ \/ /\ main.at = "write" /\ ser.pkt = NoBuf /\ Configured /\ ~CanAllocate
        /\ ~ser.gaveUp
        /\ main' = [main EXCEPT !.at = "wait"] /\ ser' = [ser EXCEPT !.noauto = FALSE]
     \/ /\ main.at = "wait"
        /\ main' = [main EXCEPT !.at = "write"] /\ ser' = [ser EXCEPT !.noauto = TRUE]
  /\ UNCHANGED <<mem, tx, buf, used>> /\ KeepRx
\* Not configured, or timed out now or in an earlier print.
WriteGivesUp ==
  /\ main.at = "write" /\ ser.pkt = NoBuf /\ ~(Configured /\ CanAllocate)
  /\ ser' = [ser EXCEPT !.noauto = FALSE, !.gaveUp = @ \/ Configured]
  /\ WriteEnds

Room == PacketSize - ser.index
\* Flushed: the timer is started when the packet is, not when it is left.
WriteFill_Bug ==
  /\ main.at = "fill"
  /\ main.left < Room
  /\ ser' = [ser EXCEPT !.index = @ + main.left, !.gaveUp = FALSE, !.noauto = FALSE]
  /\ WriteEnds
\* The rest of a print ends the call with the timer started.
WriteFill ==
  /\ main.at = "fill" /\ main.left < Room
  /\ ser' = [ser EXCEPT !.index = @ + main.left, !.gaveUp = FALSE,
               !.timer = TRUE, !.noauto = FALSE]
  /\ WriteEnds
WriteSend ==
  /\ main.at = "fill" /\ main.left >= Room
  /\ tx' = Sent(tx, ser.pkt)
  /\ ser' = [ser EXCEPT !.gaveUp = FALSE, !.timer = FALSE, !.pkt = NoBuf,
               !.noauto = main.left # Room]
  /\ main' = [main EXCEPT !.left = @ - Room, !.at = IF main.left = Room THEN "loop" ELSE "write"]
  /\ UNCHANGED <<mem, buf, used>> /\ KeepRx

Main == \/ RecvTake \/ RecvCopy \/ FreeCheck \/ FreeFeed \/ FreeZero \/ FreePool
        \/ WriteOld \/ WriteNew \/ WriteWait \/ WriteGivesUp \/ WriteFill \/ WriteSend
Isr == Receive \/ ReceiveEmpty \/ Transmit \/ SofFlush \/ BusReset \/ SetConfiguration

UsbInit ==
  /\ conf = [device |-> FALSE, host |-> FALSE]
  /\ mem = [rx |-> [s \in Slots |-> NoBuf], needed |-> 0, avail |-> Buffers]
  /\ rxq = <<>> /\ hw = [rx |-> 0, tx |-> 0] /\ buf = [b \in Buffers |-> 0]
  /\ tx = [state |-> "bothEven", bank |-> [k \in {0, 1} |-> NoBuf], queue |-> <<>>]
  /\ main = [at |-> "loop", pkt |-> NoBuf, got |-> 0, left |-> 0]
  /\ ser = [pkt |-> NoBuf, index |-> 0, noauto |-> FALSE, timer |-> FALSE, gaveUp |-> FALSE]
  /\ used = [out |-> 0, empty |-> 0, in |-> 0, writes |-> 0, resets |-> 0, taken |-> 0]

UsbNext == Main \/ WriteStart \/ Isr
UsbSpec == UsbInit /\ [][UsbNext]_vars
\* The loop runs and start-of-frame interrupts come.
FairUsbSpec == UsbSpec /\ WF_vars(Main) /\ WF_vars(SofFlush)

-----------------------------------------------------------------------------
\* Where a buffer can be; a bank of mem.rx is one place, and so on.
Places ==
  {<<"rx", s>> : s \in Slots} \cup {<<"tx", k>> : k \in {0, 1}}
  \cup {<<"rxq", i>> : i \in DOMAIN rxq} \cup {<<"txq", i>> : i \in DOMAIN tx.queue}
  \cup {<<"main", 0>>, <<"ser", 0>>}
At(p) ==
  CASE p[1] = "rx" -> mem.rx[p[2]]  [] p[1] = "tx" -> tx.bank[p[2]]
    [] p[1] = "rxq" -> rxq[p[2]]    [] p[1] = "txq" -> tx.queue[p[2]]
    [] p[1] = "main" -> main.pkt    [] p[1] = "ser" -> ser.pkt
(***************************************************************************)
(* A packet buffer is in one place: in one bank, in one queue, free, or in *)
(* the loop's hands, whatever the interrupt does between two of its steps. *)
(***************************************************************************)
OneOwner ==
  /\ \A p \in Places : At(p) \in Buffers \cup {NoBuf} /\ At(p) \notin mem.avail
  /\ \A p, q \in Places : p # q /\ At(p) # NoBuf => At(p) # At(q)

(***************************************************************************)
(* The buffer that is printed into, and the one the flush timer will send, *)
(* is there: usb_seremu_write and usb_seremu_flush_callback do not meet.   *)
(***************************************************************************)
FlushHasPacket ==
  /\ main.at = "fill" => ser.pkt # NoBuf
  /\ ser.timer => ser.pkt # NoBuf

(***************************************************************************)
(* Until the bus is reset, usb_tx fills the bank from which the controller *)
(* sends next, so that packets leave in the order they were printed.       *)
(***************************************************************************)
BanksAgree ==
  used.resets = 0 =>
    /\ tx.state \in {"bothEven", "bothOdd"} => Fills[tx.state] = hw.tx
    /\ tx.state \in {"evenFree", "oddFree"} => Fills[tx.state] # hw.tx

(***************************************************************************)
(* Buffers are lost only when the host configures the device again.        *)
(***************************************************************************)
BuffersKept == [][SetConfiguration \/ Held \subseteq Held']_vars

(***************************************************************************)
(* Raw HID packets reach do_usb as UsbPipe says: in order, once, complete, *)
(* however the interrupt and usb_rawhid_recv interleave.                   *)
(***************************************************************************)
InHand == IF main.at = "copy" THEN <<buf[main.pkt]>> ELSE <<>>
RxPipe == INSTANCE UsbPipe WITH sent <- used.out, taken <- main.got,
                                queue <- InHand \o [i \in DOMAIN rxq |-> buf[rxq[i]]]
Received == RxPipe!PipeSpec

(***************************************************************************)
(* What has been printed does not stay in the buffer: the rest of a packet *)
(* is sent by the timer, also when it expires during another print.        *)
(***************************************************************************)
Flushed == ser.pkt # NoBuf ~> ser.pkt = NoBuf

(***************************************************************************)
(* usb_free gives a buffer "immediately" to an endpoint that is starving   *)
(* for memory (usb_mem.c): a bank without a buffer is known to it.         *)
(***************************************************************************)
StarvingIsCounted ==
  Configured /\ Empties(mem) # {} => mem.needed > 0
=============================================================================
