--------------------------- MODULE UsbDeviceProofs --------------------------
(***************************************************************************)
(* For every number of buffers, endpoints and packets: printing and the    *)
(* flush timer do not meet in the middle of a packet; until the bus is     *)
(* reset, usb_tx and the controller agree about the next bank; a packet    *)
(* buffer is in one place and is not lost; and what the host sends to raw  *)
(* HID comes out in order.  They hold of the device alone, hence of the    *)
(* device with its control endpoint, which takes no step of its own in the *)
(* rest of the device.  For every set of requests and descriptors and      *)
(* every packet size, the control endpoint answers in step with the host.  *)
(***************************************************************************)
EXTENDS UsbControl, SequenceTheorems, FiniteSetTheorems, TLAPS

LEMMA MallocBuffer ==
  ASSUME NEW m, Free(m) # {} PROVE Malloc(m) \in Buffers /\ Malloc(m) # NoBuf
BY UsbAssumption DEF Malloc, Free, NoBuf

-----------------------------------------------------------------------------
(* Printing and the flush timer.                                           *)

Points == {"loop", "copy", "check", "feed", "zero", "pool", "write", "wait", "fill"}
FlushInv ==
  /\ main = [at |-> main.at, pkt |-> main.pkt, got |-> main.got, left |-> main.left]
  /\ ser = [pkt |-> ser.pkt, index |-> ser.index, noauto |-> ser.noauto,
            timer |-> ser.timer, gaveUp |-> ser.gaveUp]
  /\ main.at \in Points
  /\ main.at \in {"write", "fill"} => ser.noauto
  /\ FlushHasPacket

LEMMA FlushInitially == UsbInit => FlushInv
BY DEF UsbInit, FlushInv, FlushHasPacket, Points

\* The loop's steps outside of a print leave the serial port alone.
LEMMA FlushReceiving ==
  ASSUME FlushInv, RecvTake \/ RecvCopy \/ FreeCheck \/ FreeFeed \/ FreeZero \/ FreePool
  PROVE  FlushInv'
<1> USE DEF FlushInv, FlushHasPacket, Points, KeepIsr, Idle, Dropped
<1>1. CASE RecvTake
  BY <1>1 DEF RecvTake
<1>2. CASE RecvCopy
  BY <1>2 DEF RecvCopy
<1>3. CASE FreeCheck
  BY <1>3 DEF FreeCheck
<1>4. CASE FreeFeed
  BY <1>4 DEF FreeFeed
<1>5. CASE FreeZero
  BY <1>5 DEF FreeZero
<1>6. CASE FreePool
  BY <1>6 DEF FreePool
<1>. QED
  BY <1>1, <1>2, <1>3, <1>4, <1>5, <1>6

\* A print.
LEMMA FlushPrinting ==
  ASSUME FlushInv,
         WriteStart \/ WriteOld \/ WriteNew \/ WriteWait \/ WriteGivesUp \/ WriteFill \/ WriteSend
  PROVE  FlushInv'
<1> USE DEF FlushInv, FlushHasPacket, Points, Idle
<1>1. CASE WriteStart
  BY <1>1 DEF WriteStart
<1>2. CASE WriteOld
  BY <1>2 DEF WriteOld
<1>3. CASE WriteNew
  BY <1>3, MallocBuffer DEF WriteNew, CanAllocate
<1>4. CASE WriteWait
  BY <1>4 DEF WriteWait
<1>5. CASE WriteGivesUp
  BY <1>5 DEF WriteGivesUp, WriteEnds
<1>6. CASE WriteFill
  BY <1>6 DEF WriteFill, WriteEnds
<1>7. CASE WriteSend
  BY <1>7 DEF WriteSend
<1>. QED
  BY <1>1, <1>2, <1>3, <1>4, <1>5, <1>6, <1>7

\* The interrupt.
LEMMA FlushInterrupt ==
  ASSUME FlushInv, Isr PROVE FlushInv'
<1> USE DEF FlushInv, FlushHasPacket, Points
<1>1. CASE Receive
  BY <1>1 DEF Receive
<1>2. CASE Transmit
  BY <1>2 DEF Transmit
<1>3. CASE SofFlush
  BY <1>3 DEF SofFlush
<1>4. CASE BusReset
  BY <1>4 DEF BusReset
<1>5. CASE SetConfiguration
  BY <1>5 DEF SetConfiguration
<1>6. CASE ReceiveEmpty
  BY <1>6 DEF ReceiveEmpty
<1>. QED
  BY <1>1, <1>2, <1>3, <1>4, <1>5, <1>6 DEF Isr

(***************************************************************************)
(* usb_seremu_write never fills a packet that the flush callback has sent, *)
(* and the callback never sends one that is not there.                     *)
(***************************************************************************)
THEOREM FlushFindsPacket == UsbSpec => []FlushHasPacket
<1>1. UsbInit => FlushInv
  BY FlushInitially
<1>2. FlushInv /\ [UsbNext]_vars => FlushInv'
  <2>1. ASSUME FlushInv, UsbNext PROVE FlushInv'
    BY <2>1, FlushReceiving, FlushPrinting, FlushInterrupt DEF UsbNext, Main
  <2>2. ASSUME FlushInv, UNCHANGED vars PROVE FlushInv'
    BY <2>2 DEF FlushInv, FlushHasPacket, vars
  <2>. QED
    BY <2>1, <2>2
<1>3. FlushInv => FlushHasPacket
  BY DEF FlushInv
<1>. QED
  BY <1>1, <1>2, <1>3, PTL DEF UsbSpec

-----------------------------------------------------------------------------
(* The banks of the transmitting endpoint.                                 *)

States == {"bothEven", "bothOdd", "evenFree", "oddFree", "noneEven", "noneOdd"}
TxShape ==
  /\ tx = [state |-> tx.state, bank |-> tx.bank, queue |-> tx.queue]
  /\ tx.state \in States
  /\ tx.bank \in [{0, 1} -> Buffers \cup {NoBuf}]
  /\ tx.queue \in Seq(Buffers)
  /\ ser.pkt \in Buffers \cup {NoBuf}
  /\ hw = [rx |-> hw.rx, tx |-> hw.tx] /\ hw.tx \in {0, 1}
  /\ conf = [device |-> conf.device, host |-> conf.host]
  /\ used = [out |-> used.out, empty |-> used.empty, in |-> used.in, writes |-> used.writes,
             resets |-> used.resets, taken |-> used.taken]
  /\ used.resets \in Nat

\* What each state says of the banks and the queue.
BanksFilled ==
  /\ tx.state \in {"bothEven", "bothOdd"} =>
       tx.queue = <<>> /\ tx.bank[0] = NoBuf /\ tx.bank[1] = NoBuf
  /\ tx.state \in {"evenFree", "oddFree"} =>
       LET k == Fills[tx.state] IN
       tx.queue = <<>> /\ tx.bank[k] = NoBuf /\ tx.bank[1 - k] # NoBuf
  /\ tx.state \in {"noneEven", "noneOdd"} => tx.bank[0] # NoBuf /\ tx.bank[1] # NoBuf
\* And, before a reset, of the controller; in "none", either bank may be next.
NextAgrees ==
  /\ tx.state \in {"bothEven", "bothOdd"} => Fills[tx.state] = hw.tx
  /\ tx.state \in {"evenFree", "oddFree"} => hw.tx = 1 - Fills[tx.state]

\* Nothing is printed before the host has configured the device.
Quiet == conf.device = FALSE => ser.pkt = NoBuf
Untouched ==
  conf.host = FALSE => conf.device = FALSE /\ tx.state = "bothEven" /\ hw.tx = 0

BanksInv ==
  /\ FlushInv /\ TxShape /\ Quiet /\ BanksFilled
  /\ used.resets = 0 => NextAgrees /\ Untouched

LEMMA BanksInitially == UsbInit => BanksInv
<1>1. UsbInit => FlushInv
  BY FlushInitially
<1>2. UsbInit => TxShape
  BY DEF UsbInit, TxShape, States
<1>3. UsbInit => Quiet /\ BanksFilled /\ NextAgrees /\ Untouched
  BY DEF UsbInit, Quiet, BanksFilled, NextAgrees, Untouched, Fills
<1>. QED
  BY <1>1, <1>2, <1>3 DEF BanksInv

\* Steps that concern neither the banks nor the packet being printed.
LEMMA BanksAside ==
  ASSUME BanksInv, FlushInv', UNCHANGED <<conf, tx, hw, ser>>,
         used' = [used EXCEPT !.out = used'.out] \/ UNCHANGED used
  PROVE  BanksInv'
<1>1. TxShape' /\ used'.resets = used.resets
  BY DEF BanksInv, TxShape
<1>. QED
  BY <1>1 DEF BanksInv, BanksFilled, NextAgrees, Untouched, Quiet

\* usb_tx fills the bank that is next, or queues.
LEMMA SentFills ==
  ASSUME BanksInv, FlushInv', ser.pkt # NoBuf, conf.device,
         tx' = Sent(tx, ser.pkt), UNCHANGED <<conf, hw, used>>,
         ser'.pkt = NoBuf
  PROVE  BanksInv'
<1> USE DEF NoBuf
<1>1. ser.pkt \in Buffers /\ ser.pkt # NoBuf
  BY DEF BanksInv, TxShape
<1>2. TxShape'
  <2>1. CASE tx.state \in {"noneEven", "noneOdd"}
    <3>1. tx' = [state |-> tx.state, bank |-> tx.bank, queue |-> Append(tx.queue, ser.pkt)]
      BY <2>1 DEF BanksInv, TxShape, Sent, Fills
    <3>2. Append(tx.queue, ser.pkt) \in Seq(Buffers)
      BY <1>1 DEF BanksInv, TxShape
    <3>. QED
      BY <2>1, <3>1, <3>2 DEF BanksInv, TxShape
  <2>2. ASSUME tx.state \in DOMAIN Fills PROVE TxShape'
    <3>1. Fills[tx.state] \in {0, 1} /\ Filled[tx.state] \in States
      BY <2>2 DEF Fills, Filled, States
    <3>2. tx' = [state |-> Filled[tx.state], bank |-> [tx.bank EXCEPT ![Fills[tx.state]] = ser.pkt],
                 queue |-> tx.queue]
      BY <2>2 DEF BanksInv, TxShape, Sent
    <3>3. [tx.bank EXCEPT ![Fills[tx.state]] = ser.pkt] \in [{0, 1} -> Buffers \cup {NoBuf}]
      BY <1>1, <3>1 DEF BanksInv, TxShape
    <3>. QED
      BY <3>1, <3>2, <3>3 DEF BanksInv, TxShape
  <2>. QED
    BY <2>1, <2>2 DEF BanksInv, TxShape, States, Fills
<1>3. BanksFilled' /\ (used.resets = 0 => NextAgrees')
  <2>1. CASE tx.state \in {"bothEven", "bothOdd"}
    BY <1>1, <2>1 DEF BanksInv, TxShape, BanksFilled, NextAgrees, Sent, Filled, Fills
  <2>2. CASE tx.state \in {"evenFree", "oddFree"}
    BY <1>1, <2>2 DEF BanksInv, TxShape, BanksFilled, NextAgrees, Sent, Filled, Fills
  <2>3. CASE tx.state \in {"noneEven", "noneOdd"}
    BY <1>1, <2>3 DEF BanksInv, TxShape, BanksFilled, NextAgrees, Sent, Filled, Fills
  <2>. QED
    BY <2>1, <2>2, <2>3 DEF BanksInv, TxShape, States
<1>4. Quiet' /\ (used.resets = 0 => Untouched')
  BY DEF BanksInv, Quiet, Untouched
<1>. QED
  BY <1>2, <1>3, <1>4 DEF BanksInv

LEMMA TransmitKeeps ==
  ASSUME BanksInv, Transmit PROVE BanksInv'
<1> USE DEF NoBuf
<1>1. FlushInv'
  BY FlushInterrupt DEF BanksInv, Isr
<1>2. TxShape'
  <2>. DEFINE Rest == /\ ser' = ser /\ conf' = conf /\ used'.resets = used.resets
                     /\ used' = [out |-> used.out, empty |-> used.empty, in |-> used.in,
                                 writes |-> used.writes, resets |-> used.resets, taken |-> buf[tx.bank[hw.tx]]]
                     /\ hw' = [rx |-> hw.rx, tx |-> 1 - hw.tx] /\ 1 - hw.tx \in {0, 1}
  <2>. HIDE DEF Rest
  <2>0. Rest
    BY DEF BanksInv, TxShape, Transmit, Rest
  <2>1. CASE tx.queue = <<>>
    <3>1. tx' = [state |-> Drained(tx.state, hw.tx), bank |-> [tx.bank EXCEPT ![hw.tx] = NoBuf],
                 queue |-> tx.queue]
      BY <2>1 DEF BanksInv, TxShape, Transmit
    <3>2. Drained(tx.state, hw.tx) \in States
      BY DEF BanksInv, TxShape, Drained, States
    <3>3. [tx.bank EXCEPT ![hw.tx] = NoBuf] \in [{0, 1} -> Buffers \cup {NoBuf}]
      BY DEF BanksInv, TxShape
    <3>. QED
      BY <2>0, <3>1, <3>2, <3>3 DEF BanksInv, TxShape, Rest
  <2>2. CASE tx.queue # <<>>
    <3>0. Refilled(tx.state) \in States
      BY DEF BanksInv, TxShape, Refilled, Filled, States
    <3>1. tx' = [state |-> Refilled(tx.state), bank |-> [tx.bank EXCEPT ![hw.tx] = Head(tx.queue)],
                 queue |-> Tail(tx.queue)]
      BY <2>2 DEF BanksInv, TxShape, Transmit
    <3>2. Head(tx.queue) \in Buffers /\ Tail(tx.queue) \in Seq(Buffers)
      BY <2>2 DEF BanksInv, TxShape
    <3>3. [tx.bank EXCEPT ![hw.tx] = Head(tx.queue)] \in [{0, 1} -> Buffers \cup {NoBuf}]
      BY <3>2 DEF BanksInv, TxShape
    <3>. QED
      BY <2>0, <3>0, <3>1, <3>2, <3>3 DEF BanksInv, TxShape, Rest
  <2>. QED
    BY <2>1, <2>2
<1>3. BanksFilled' /\ (used.resets = 0 => NextAgrees')
  <2>1. CASE tx.queue # <<>>
    <3>1. tx.state \in {"noneEven", "noneOdd"}
      BY <2>1 DEF BanksInv, TxShape, BanksFilled, States
    <3>2. Head(tx.queue) \in Buffers /\ Head(tx.queue) # NoBuf
      BY <2>1, UsbAssumption DEF BanksInv, TxShape
    <3>3. Refilled(tx.state) = tx.state
      BY <3>1 DEF Refilled, Filled
    <3>. QED
      BY <2>1, <3>1, <3>2, <3>3 DEF BanksInv, TxShape, BanksFilled, NextAgrees, Transmit
  <2>2. CASE tx.queue = <<>> /\ tx.state \in {"noneEven", "noneOdd"}
    BY <2>2 DEF BanksInv, TxShape, BanksFilled, NextAgrees, Transmit, Drained, Fills
  <2>3. CASE tx.queue = <<>> /\ tx.state \in {"evenFree", "oddFree"}
    BY <2>3 DEF BanksInv, TxShape, BanksFilled, NextAgrees, Transmit, Drained, Fills
  <2>4. CASE tx.state \in {"bothEven", "bothOdd"}
    BY <2>4 DEF BanksInv, TxShape, BanksFilled, Transmit, Fills
  <2>. QED
    BY <2>1, <2>2, <2>3, <2>4 DEF BanksInv, TxShape, States
<1>4. Quiet' /\ used'.resets = used.resets /\ Untouched'
  BY DEF BanksInv, TxShape, Quiet, Untouched, Transmit
<1>. QED
  BY <1>1, <1>2, <1>3, <1>4 DEF BanksInv

LEMMA BanksInterrupt ==
  ASSUME BanksInv, Isr PROVE BanksInv'
<1>1. FlushInv'
  BY FlushInterrupt DEF BanksInv
<1>2. CASE Receive
  <2>1. TxShape' /\ used'.resets = used.resets
    BY <1>2 DEF BanksInv, TxShape, Receive
  <2>2. hw'.tx = hw.tx
    BY <1>2 DEF BanksInv, TxShape, Receive
  <2>. QED
    BY <1>1, <1>2, <2>1, <2>2 DEF BanksInv, BanksFilled, NextAgrees, Untouched, Quiet, Receive
<1>3. CASE Transmit
  BY <1>3, TransmitKeeps
<1>4. CASE SofFlush
  <2>1. ser.pkt # NoBuf
    BY <1>4 DEF BanksInv, FlushInv, FlushHasPacket, SofFlush
  <2>2. CASE ser.noauto
    BY <1>1, <1>4, <2>2 DEF BanksInv, FlushInv, TxShape, BanksFilled, NextAgrees, Untouched, Quiet, SofFlush
  <2>3. CASE ~ser.noauto
    BY <1>1, <1>4, <2>1, <2>3, SentFills DEF SofFlush, Configured, BanksInv, FlushInv
  <2>. QED
    BY <2>2, <2>3
<1>5. CASE BusReset
  <2>1. used' = [out |-> used.out, empty |-> used.empty, in |-> used.in, writes |-> used.writes,
                 resets |-> used.resets + 1, taken |-> used.taken]
    BY <1>5 DEF BanksInv, TxShape, BusReset
  <2>2. hw'.tx = 0 /\ hw' = [rx |-> 0, tx |-> 0]
    BY <1>5 DEF BusReset
  <2>3. conf' = [device |-> conf.device, host |-> FALSE]
    BY <1>5 DEF BanksInv, TxShape, BusReset
  <2>4. UNCHANGED <<tx, ser>>
    BY <1>5 DEF BusReset
  <2>5. used'.resets = used.resets + 1 /\ used.resets \in Nat
    BY <2>1 DEF BanksInv, TxShape
  <2>6. TxShape'
    BY <2>1, <2>2, <2>3, <2>4, <2>5 DEF BanksInv, TxShape
  <2>7. Quiet'
    BY <2>3, <2>4 DEF BanksInv, Quiet
  <2>8. BanksFilled'
    BY <2>4 DEF BanksInv, BanksFilled
  <2>. QED
    BY <1>1, <2>5, <2>6, <2>7, <2>8 DEF BanksInv
<1>6. CASE SetConfiguration
  <2>1. TxShape' /\ Quiet'
    BY <1>6 DEF BanksInv, TxShape, Quiet, SetConfiguration, Reset, States
  <2>3. BanksFilled'
    BY <1>6 DEF BanksInv, TxShape, BanksFilled, SetConfiguration, Reset, States, NoBuf
  <2>2. ASSUME used.resets = 0 PROVE NextAgrees' /\ Untouched'
    <3>1. tx.state = "bothEven" /\ hw.tx = 0
      BY <1>6, <2>2 DEF BanksInv, TxShape, Untouched, SetConfiguration
    <3>. QED
      BY <1>6, <2>2, <3>1
      DEF BanksFilled, NextAgrees, Untouched, SetConfiguration, Reset, Fills, NoBuf
  <2>. QED
    BY <1>1, <1>6, <2>1, <2>2, <2>3 DEF BanksInv, SetConfiguration
<1>7. CASE ReceiveEmpty
  <2>1. TxShape' /\ used'.resets = used.resets /\ hw'.tx = hw.tx
    BY <1>7 DEF BanksInv, TxShape, ReceiveEmpty
  <2>. QED
    BY <1>1, <1>7, <2>1 DEF BanksInv, BanksFilled, NextAgrees, Untouched, Quiet, ReceiveEmpty
<1>. QED
  BY <1>2, <1>3, <1>4, <1>5, <1>6, <1>7 DEF Isr

LEMMA BanksPrinting ==
  ASSUME BanksInv,
         WriteStart \/ WriteOld \/ WriteNew \/ WriteWait \/ WriteGivesUp \/ WriteFill \/ WriteSend
  PROVE  BanksInv'
<1>1. FlushInv'
  BY FlushPrinting DEF BanksInv
<1>2. CASE WriteSend
  <2>1. ser.pkt # NoBuf
    BY <1>2 DEF BanksInv, FlushInv, FlushHasPacket, WriteSend
  <2>2. conf.device /\ ser'.pkt = NoBuf
    BY <1>2, <2>1 DEF BanksInv, FlushInv, Quiet, WriteSend, TxShape
  <2>. QED
    BY <1>1, <1>2, <2>1, <2>2, SentFills DEF WriteSend, KeepRx
<1>3. CASE WriteNew
  <2>1. ser'.pkt \in Buffers /\ conf.device
    BY <1>3, MallocBuffer DEF WriteNew, CanAllocate, Configured, BanksInv, FlushInv
  <2>2. TxShape' /\ used'.resets = used.resets
    BY <1>3, <2>1 DEF BanksInv, TxShape, WriteNew, KeepRx
  <2>. QED
    BY <1>1, <1>3, <2>1, <2>2 DEF BanksInv, BanksFilled, NextAgrees, Untouched, Quiet, WriteNew, KeepRx
<1>4. ASSUME WriteStart \/ WriteOld \/ WriteWait \/ WriteGivesUp \/ WriteFill
      PROVE  BanksInv'
  <2>1. ser'.pkt = ser.pkt /\ UNCHANGED <<conf, tx, hw>> /\ used'.resets = used.resets
    BY <1>4
    DEF BanksInv, FlushInv, TxShape, WriteStart, WriteOld, WriteWait, WriteGivesUp, WriteFill,
        WriteEnds, KeepRx
  <2>2. TxShape'
    BY <1>4, <2>1
    DEF BanksInv, TxShape, WriteStart, WriteOld, WriteWait, WriteGivesUp, WriteFill,
        WriteEnds
  <2>. QED
    BY <1>1, <2>1, <2>2 DEF BanksInv, BanksFilled, NextAgrees, Untouched, Quiet
<1>. QED
  BY <1>2, <1>3, <1>4

LEMMA BanksStep ==
  ASSUME BanksInv, [UsbNext]_vars PROVE BanksInv'
<1>1. ASSUME RecvTake \/ RecvCopy \/ FreeCheck \/ FreeFeed \/ FreeZero \/ FreePool
      PROVE  BanksInv'
  <2>1. FlushInv' /\ UNCHANGED <<conf, tx, hw, ser, used>>
    BY <1>1, FlushReceiving
    DEF BanksInv, RecvTake, RecvCopy, FreeCheck, FreeFeed, FreeZero, FreePool, KeepIsr
  <2>. QED
    BY <2>1, BanksAside
<1>2. ASSUME UNCHANGED vars PROVE BanksInv'
  <2>1. FlushInv'
    BY <1>2 DEF BanksInv, FlushInv, FlushHasPacket, vars
  <2>. QED
    BY <1>2, <2>1, BanksAside DEF vars
<1>. QED
  BY <1>1, <1>2, BanksPrinting, BanksInterrupt DEF UsbNext, Main

(***************************************************************************)
(* Before a bus reset, usb_tx and the controller agree which of the two    *)
(* banks is next, so that packets leave in the order they were printed.    *)
(***************************************************************************)
THEOREM PacketsLeaveInOrder == UsbSpec => []BanksAgree
<1>1. UsbInit => BanksInv
  BY BanksInitially
<1>2. BanksInv /\ [UsbNext]_vars => BanksInv'
  BY BanksStep
<1>3. BanksInv => BanksAgree
  BY DEF BanksInv, BanksAgree, NextAgrees, Fills
<1>. QED
  BY <1>1, <1>2, <1>3, PTL DEF UsbSpec

-----------------------------------------------------------------------------
(* Counting, for what SET_CONFIGURATION does bank by bank.                 *)

\* A set with 0 and every successor has every number: the successors of its
\* numbers up to one that is missing would not fit into them without 0.
LEMMA NatSets ==
  ASSUME NEW T, 0 \in T, \A n \in Nat : n \in T => n + 1 \in T
  PROVE  \A n \in Nat : n \in T
<1>1. SUFFICES ASSUME NEW n \in Nat, n \notin T PROVE FALSE
  OBVIOUS
<1> DEFINE S == {i \in 0..n : i \in T}
           up == [i \in S |-> i + 1]
<1>2. IsFiniteSet(S)
  <2>1. IsFiniteSet(0..n)
    BY FS_Interval
  <2>. QED
    BY <2>1, FS_Subset
<1>3. IsFiniteSet(S \ {0}) /\ Cardinality(S \ {0}) < Cardinality(S)
  <2>1. 0 \in S
    OBVIOUS
  <2>2. Cardinality(S) \in Nat
    BY <1>2, FS_CardinalityType
  <2> HIDE DEF S
  <2>3. IsFiniteSet(S \ {0}) /\ Cardinality(S \ {0}) = Cardinality(S) - 1
    BY <1>2, <2>1, FS_RemoveElement
  <2>. QED
    BY <2>2, <2>3
<1>4. up \in [S -> S \ {0}]
  BY <1>1
<1>5. \A x, y \in S : up[x] = up[y] => x = y
  OBVIOUS
<1> HIDE DEF S, up
<1>. QED
  BY <1>2, <1>3, <1>4, <1>5, FS_PigeonHole

\* The first of some slots.
LEMMA MinSlot ==
  ASSUME NEW S, S \subseteq Nat, S # {} PROVE Min(S) \in S
<1> DEFINE T == {n \in Nat : (\E x \in S : x <= n) => \E x \in S : \A y \in S : x <= y}
<1>1. 0 \in T
  OBVIOUS
<1>2. ASSUME NEW n \in Nat, n \in T PROVE n + 1 \in T
  <2>1. CASE \E x \in S : x <= n
    BY <1>2, <2>1
  <2>2. CASE ~\E x \in S : x <= n
    BY <2>2
  <2>. QED
    BY <2>1, <2>2
<1>3. \A n \in Nat : n \in T
  <2> HIDE DEF T
  <2>. QED
    BY <1>1, <1>2, NatSets
<1>4. \E x \in S : \A y \in S : x =< y
  <2>1. PICK n \in S : n \in Nat
    OBVIOUS
  <2>2. n \in T /\ n <= n
    BY <1>3, <2>1
  <2>. QED
    BY <2>1, <2>2
<1>. QED
  BY <1>4 DEF Min

\* FreeBanks is what it says.
LEMMA FreeBanksSteps ==
  /\ FreeBanks[0] = FreeOwned(FreeOwned(mem, tx.bank[0]), tx.bank[1])
  /\ \A s \in Slots : FreeBanks[s] = FreeSlot(FreeBanks[s - 1], s)
<1> DEFINE Body(f, s) == IF s = 0 THEN FreeOwned(FreeOwned(mem, tx.bank[0]), tx.bank[1])
                         ELSE FreeSlot(f[s - 1], s)
           N == 2 * RxEps
           T == {n \in Nat : n <= N => \E f : f = [s \in 0..n |-> Body(f, s)]}
<1>0. N \in Nat
  BY UsbAssumption
<1> HIDE DEF N
<1>1. 0 \in T
  <2>1. PICK f : f = [s \in 0..0 |-> FreeOwned(FreeOwned(mem, tx.bank[0]), tx.bank[1])]
    OBVIOUS
  <2>2. f = [s \in 0..0 |-> Body(f, s)]
    BY <2>1
  <2>. QED
    BY <2>2
<1>2. ASSUME NEW n \in Nat, n \in T PROVE n + 1 \in T
  <2>1. SUFFICES ASSUME n + 1 <= N PROVE \E g : g = [s \in 0..(n + 1) |-> Body(g, s)]
    OBVIOUS
  <2>2. PICK f : f = [s \in 0..n |-> Body(f, s)]
    BY <1>2, <2>1, <1>0
  <2>3. PICK g : g = [s \in 0..(n + 1) |-> Body(f, s)]
    OBVIOUS
  <2>4. \A s \in 0..n : g[s] = f[s]
    <3>1. \A s \in 0..n : f[s] = Body(f, s)
      BY <2>2
    <3>. QED
      BY <2>3, <3>1
  <2>5. \A s \in 0..(n + 1) : Body(f, s) = Body(g, s)
    BY <2>4
  <2>6. g = [s \in 0..(n + 1) |-> Body(g, s)]
    BY <2>3, <2>5
  <2>. QED
    BY <2>6
<1>3. N \in T
  <2> HIDE DEF T
  <2>. QED
    BY <1>0, <1>1, <1>2, NatSets
<1>4. \E f : f = [s \in 0..N |-> Body(f, s)]
  BY <1>0, <1>3
<1>5. FreeBanks = [s \in 0..N |-> Body(FreeBanks, s)]
  BY <1>4 DEF FreeBanks, N
<1>6. \A s \in 0..N : FreeBanks[s] = Body(FreeBanks, s)
  BY <1>5
<1>. QED
  BY <1>0, <1>6 DEF Slots, N

LEMMA FreeQueuesSteps ==
  ASSUME Len(Unqueued) \in Nat
  PROVE  /\ FreeQueues[0] = FreeBanks[2 * RxEps]
         /\ \A i \in 1..Len(Unqueued) : FreeQueues[i] = Freed(FreeQueues[i - 1], Unqueued[i])
<1> DEFINE N == Len(Unqueued)
           Body(f, i) == IF i = 0 THEN FreeBanks[2 * RxEps] ELSE Freed(f[i - 1], Unqueued[i])
           T == {n \in Nat : n <= N => \E f : f = [i \in 0..n |-> Body(f, i)]}
<1>0. N \in Nat
  OBVIOUS
<1> HIDE DEF N
<1>1. 0 \in T
  <2>1. PICK f : f = [i \in 0..0 |-> FreeBanks[2 * RxEps]]
    OBVIOUS
  <2>2. f = [i \in 0..0 |-> Body(f, i)]
    BY <2>1
  <2>. QED
    BY <2>2
<1>2. ASSUME NEW n \in Nat, n \in T PROVE n + 1 \in T
  <2>1. SUFFICES ASSUME n + 1 <= N PROVE \E g : g = [i \in 0..(n + 1) |-> Body(g, i)]
    OBVIOUS
  <2>2. PICK f : f = [i \in 0..n |-> Body(f, i)]
    BY <1>2, <2>1, <1>0
  <2>3. PICK g : g = [i \in 0..(n + 1) |-> Body(f, i)]
    OBVIOUS
  <2>4. \A i \in 0..n : g[i] = f[i]
    <3>1. \A i \in 0..n : f[i] = Body(f, i)
      BY <2>2
    <3>. QED
      BY <2>3, <3>1
  <2>5. \A i \in 0..(n + 1) : Body(f, i) = Body(g, i)
    BY <2>4
  <2>6. g = [i \in 0..(n + 1) |-> Body(g, i)]
    BY <2>3, <2>5
  <2>. QED
    BY <2>6
<1>3. N \in T
  <2> HIDE DEF T
  <2>. QED
    BY <1>0, <1>1, <1>2, NatSets
<1>4. \E f : f = [i \in 0..N |-> Body(f, i)]
  BY <1>0, <1>3
<1>5. FreeQueues = [i \in 0..N |-> Body(FreeQueues, i)]
  BY <1>4 DEF FreeQueues, N
<1>6. \A i \in 0..N : FreeQueues[i] = Body(FreeQueues, i)
  BY <1>5
<1>. QED
  BY <1>0, <1>6 DEF N

LEMMA RefillSteps ==
  /\ Refill[0] = NoneNeeded(FreeQueues[Len(Unqueued)])
  /\ \A s \in Slots : Refill[s] = Rearm(Refill[s - 1], s)
<1> DEFINE N == 2 * RxEps
           Body(f, s) == IF s = 0 THEN NoneNeeded(FreeQueues[Len(Unqueued)])
                         ELSE Rearm(f[s - 1], s)
           T == {n \in Nat : n <= N => \E f : f = [s \in 0..n |-> Body(f, s)]}
<1>0. N \in Nat
  BY UsbAssumption
<1> HIDE DEF N
<1>1. 0 \in T
  <2>1. PICK m : m = NoneNeeded(FreeQueues[Len(Unqueued)])
    OBVIOUS
  <2>2. PICK f : f = [s \in 0..0 |-> m]
    OBVIOUS
  <2>3. f = [s \in 0..0 |-> Body(f, s)]
    BY <2>1, <2>2
  <2>. QED
    BY <2>3
<1>2. ASSUME NEW n \in Nat, n \in T PROVE n + 1 \in T
  <2>1. SUFFICES ASSUME n + 1 <= N PROVE \E g : g = [s \in 0..(n + 1) |-> Body(g, s)]
    OBVIOUS
  <2>2. PICK f : f = [s \in 0..n |-> Body(f, s)]
    BY <1>2, <2>1, <1>0
  <2>3. PICK g : g = [s \in 0..(n + 1) |-> Body(f, s)]
    OBVIOUS
  <2>4. \A s \in 0..n : g[s] = f[s]
    <3>1. \A s \in 0..n : f[s] = Body(f, s)
      BY <2>2
    <3>. QED
      BY <2>3, <3>1
  <2>5. \A s \in 0..(n + 1) : Body(f, s) = Body(g, s)
    BY <2>4
  <2>6. g = [s \in 0..(n + 1) |-> Body(g, s)]
    BY <2>3, <2>5
  <2>. QED
    BY <2>6
<1>3. N \in T
  <2> HIDE DEF T
  <2>. QED
    BY <1>0, <1>1, <1>2, NatSets
<1>4. \E f : f = [s \in 0..N |-> Body(f, s)]
  BY <1>0, <1>3
<1>5. Refill = [s \in 0..N |-> Body(Refill, s)]
  BY <1>4 DEF Refill, N
<1>6. \A s \in 0..N : Refill[s] = Body(Refill, s)
  BY <1>5
<1>. QED
  BY <1>0, <1>6 DEF Slots, N

-----------------------------------------------------------------------------
(* Where the buffers are.                                                  *)

\* The places of OneOwner: what is in each bank and queue, with the printing
\* and the receiving loop, and the pool.
Placements ==
  [rx: [Slots -> Buffers \cup {NoBuf}], avail: SUBSET Buffers,
   bank: [{0, 1} -> Buffers \cup {NoBuf}], txq: Seq(Buffers), rxq: Seq(Buffers),
   main: Buffers \cup {NoBuf}, ser: Buffers \cup {NoBuf}]
Placement == [rx |-> mem.rx, avail |-> mem.avail, bank |-> tx.bank, txq |-> tx.queue,
              rxq |-> rxq, main |-> main.pkt, ser |-> ser.pkt]

\* A receive bank is numbered by its slot, the other places below 1.
InPool == 0
InBank(k) == -1 - k
InTxq == -3
InRxq == -4
InMain == -5
InSer == -6
Nowhere == -7

\* own says for every buffer in which place it is.
Owned(own, w) ==
  /\ w \in Placements /\ own \in [Buffers -> Int]
  /\ \A s \in Slots : w.rx[s] # NoBuf => own[w.rx[s]] = s
  /\ \A b \in w.avail : own[b] = InPool
  /\ \A k \in {0, 1} : w.bank[k] # NoBuf => own[w.bank[k]] = InBank(k)
  /\ \A i \in 1..Len(w.txq) : own[w.txq[i]] = InTxq
  /\ \A i \in 1..Len(w.rxq) : own[w.rxq[i]] = InRxq
  /\ w.main # NoBuf => own[w.main] = InMain
  /\ w.ser # NoBuf => own[w.ser] = InSer
  /\ \A i, j \in 1..Len(w.txq) : w.txq[i] = w.txq[j] => i = j
  /\ \A i, j \in 1..Len(w.rxq) : w.rxq[i] = w.rxq[j] => i = j

\* The buffers that are somewhere.
SomewhereIn(w, b) ==
  \/ b \in w.avail \/ b = w.main \/ b = w.ser \/ b = w.bank[0] \/ b = w.bank[1]
  \/ \E s \in Slots : b = w.rx[s]
  \/ \E i \in 1..Len(w.txq) : b = w.txq[i]
  \/ \E i \in 1..Len(w.rxq) : b = w.rxq[i]

\* To take a buffer from its place, and to put one that is nowhere into one:
\* nothing else is moved, and nothing is overwritten.
Took(own, w, b, p, v) ==
  /\ b \in Buffers /\ Owned(p, v) /\ p[b] = Nowhere
  /\ \A c \in Buffers \ {b} : SomewhereIn(w, c) => SomewhereIn(v, c)
Put(w, b, p, v) ==
  /\ Owned(p, v)
  /\ \A c \in Buffers : SomewhereIn(w, c) \/ c = b => SomewhereIn(v, c)

LEMMA SlotNumbers == \A s \in Slots : s \in Nat /\ s > 0
BY UsbAssumption DEF Slots
LEMMA BufferNumbers == NoBuf \notin Buffers
BY UsbAssumption DEF NoBuf

AtSlot(w, s, b) ==
  [rx |-> [w.rx EXCEPT ![s] = b], avail |-> w.avail, bank |-> w.bank, txq |-> w.txq,
   rxq |-> w.rxq, main |-> w.main, ser |-> w.ser]
WithPool(w, a) ==
  [rx |-> w.rx, avail |-> a, bank |-> w.bank, txq |-> w.txq,
   rxq |-> w.rxq, main |-> w.main, ser |-> w.ser]
AtBank(w, k, b) ==
  [rx |-> w.rx, avail |-> w.avail, bank |-> [w.bank EXCEPT ![k] = b], txq |-> w.txq,
   rxq |-> w.rxq, main |-> w.main, ser |-> w.ser]
WithTxq(w, q) ==
  [rx |-> w.rx, avail |-> w.avail, bank |-> w.bank, txq |-> q,
   rxq |-> w.rxq, main |-> w.main, ser |-> w.ser]
WithRxq(w, q) ==
  [rx |-> w.rx, avail |-> w.avail, bank |-> w.bank, txq |-> w.txq,
   rxq |-> q, main |-> w.main, ser |-> w.ser]
AtMain(w, b) ==
  [rx |-> w.rx, avail |-> w.avail, bank |-> w.bank, txq |-> w.txq,
   rxq |-> w.rxq, main |-> b, ser |-> w.ser]
AtSer(w, b) ==
  [rx |-> w.rx, avail |-> w.avail, bank |-> w.bank, txq |-> w.txq,
   rxq |-> w.rxq, main |-> w.main, ser |-> b]

LEMMA TakeSlot ==
  ASSUME NEW own, NEW w, Owned(own, w), NEW s \in Slots, w.rx[s] # NoBuf,
         NEW p, p = [own EXCEPT ![w.rx[s]] = Nowhere], NEW v, v = AtSlot(w, s, NoBuf)
  PROVE  Took(own, w, w.rx[s], p, v)
<1> USE SlotNumbers, BufferNumbers
    DEF Owned, Placements, InPool, InBank, InTxq, InRxq, InMain, InSer, Nowhere, AtSlot
<1>1. w.rx[s] \in Buffers /\ v \in Placements /\ p \in [Buffers -> Int]
  OBVIOUS
<1>2. Owned(p, v)
  BY <1>1
<1>3. p[w.rx[s]] = Nowhere
  BY <1>1
<1>4. \A c \in Buffers \ {w.rx[s]} : SomewhereIn(w, c) => SomewhereIn(v, c)
  BY DEF SomewhereIn
<1>. QED
  BY <1>1, <1>2, <1>3, <1>4 DEF Took

LEMMA PutSlot ==
  ASSUME NEW own, NEW w, Owned(own, w), NEW b \in Buffers, own[b] = Nowhere, NEW s \in Slots, w.rx[s] = NoBuf,
         NEW p, p = [own EXCEPT ![b] = s], NEW v, v = AtSlot(w, s, b)
  PROVE  Put(w, b, p, v)
<1> USE SlotNumbers, BufferNumbers
    DEF Owned, Placements, InPool, InBank, InTxq, InRxq, InMain, InSer, Nowhere, AtSlot
<1>1. v \in Placements /\ p \in [Buffers -> Int]
  OBVIOUS
<1>2. Owned(p, v)
  BY <1>1
<1>3. \A c \in Buffers : SomewhereIn(w, c) \/ c = b => SomewhereIn(v, c)
  BY DEF SomewhereIn
<1>. QED
  BY <1>2, <1>3 DEF Put

LEMMA TakeFree ==
  ASSUME NEW own, NEW w, Owned(own, w), NEW b \in w.avail,
         NEW p, p = [own EXCEPT ![b] = Nowhere], NEW v, v = WithPool(w, w.avail \ {b})
  PROVE  Took(own, w, b, p, v)
<1> USE SlotNumbers, BufferNumbers
    DEF Owned, Placements, InPool, InBank, InTxq, InRxq, InMain, InSer, Nowhere, WithPool
<1>1. b \in Buffers /\ v \in Placements /\ p \in [Buffers -> Int]
  OBVIOUS
<1>2. Owned(p, v)
  BY <1>1
<1>3. p[b] = Nowhere
  BY <1>1
<1>4. \A c \in Buffers \ {b} : SomewhereIn(w, c) => SomewhereIn(v, c)
  BY DEF SomewhereIn
<1>. QED
  BY <1>1, <1>2, <1>3, <1>4 DEF Took

LEMMA PutFree ==
  ASSUME NEW own, NEW w, Owned(own, w), NEW b \in Buffers, own[b] = Nowhere,
         NEW p, p = [own EXCEPT ![b] = InPool], NEW v, v = WithPool(w, w.avail \cup {b})
  PROVE  Put(w, b, p, v)
<1> USE SlotNumbers, BufferNumbers
    DEF Owned, Placements, InPool, InBank, InTxq, InRxq, InMain, InSer, Nowhere, WithPool
<1>1. v \in Placements /\ p \in [Buffers -> Int]
  OBVIOUS
<1>2. Owned(p, v)
  BY <1>1
<1>3. \A c \in Buffers : SomewhereIn(w, c) \/ c = b => SomewhereIn(v, c)
  BY DEF SomewhereIn
<1>. QED
  BY <1>2, <1>3 DEF Put

LEMMA TakeBank ==
  ASSUME NEW own, NEW w, Owned(own, w), NEW k \in {0, 1}, w.bank[k] # NoBuf,
         NEW p, p = [own EXCEPT ![w.bank[k]] = Nowhere], NEW v, v = AtBank(w, k, NoBuf)
  PROVE  Took(own, w, w.bank[k], p, v)
<1> USE SlotNumbers, BufferNumbers
    DEF Owned, Placements, InPool, InBank, InTxq, InRxq, InMain, InSer, Nowhere, AtBank
<1>1. w.bank[k] \in Buffers /\ v \in Placements /\ p \in [Buffers -> Int]
  OBVIOUS
<1>2. Owned(p, v)
  BY <1>1
<1>3. p[w.bank[k]] = Nowhere
  BY <1>1
<1>4. \A c \in Buffers \ {w.bank[k]} : SomewhereIn(w, c) => SomewhereIn(v, c)
  BY DEF SomewhereIn
<1>. QED
  BY <1>1, <1>2, <1>3, <1>4 DEF Took

LEMMA PutBank ==
  ASSUME NEW own, NEW w, Owned(own, w), NEW b \in Buffers, own[b] = Nowhere, NEW k \in {0, 1}, w.bank[k] = NoBuf,
         NEW p, p = [own EXCEPT ![b] = InBank(k)], NEW v, v = AtBank(w, k, b)
  PROVE  Put(w, b, p, v)
<1> USE SlotNumbers, BufferNumbers
    DEF Owned, Placements, InPool, InBank, InTxq, InRxq, InMain, InSer, Nowhere, AtBank
<1>1. v \in Placements /\ p \in [Buffers -> Int]
  OBVIOUS
<1>2. Owned(p, v)
  BY <1>1
<1>3. \A c \in Buffers : SomewhereIn(w, c) \/ c = b => SomewhereIn(v, c)
  BY DEF SomewhereIn
<1>. QED
  BY <1>2, <1>3 DEF Put

LEMMA TailHas ==
  ASSUME NEW q \in Seq(Buffers), q # <<>>, NEW i \in 1..Len(q), q[i] # Head(q)
  PROVE  \E j \in 1..Len(Tail(q)) : q[i] = Tail(q)[j]
<1>1. i - 1 \in 1..Len(Tail(q)) /\ q[i] = Tail(q)[i - 1]
  OBVIOUS
<1>. QED
  BY <1>1

LEMMA TakeTxq ==
  ASSUME NEW own, NEW w, Owned(own, w), w.txq # <<>>,
         NEW p, p = [own EXCEPT ![Head(w.txq)] = Nowhere], NEW v, v = WithTxq(w, Tail(w.txq))
  PROVE  Took(own, w, Head(w.txq), p, v)
<1> USE SlotNumbers, BufferNumbers
    DEF Owned, Placements, InPool, InBank, InTxq, InRxq, InMain, InSer, Nowhere, WithTxq
<1>1. Head(w.txq) \in Buffers /\ v \in Placements /\ p \in [Buffers -> Int]
  OBVIOUS
<1>2. Owned(p, v)
  BY <1>1
<1>3. p[Head(w.txq)] = Nowhere
  BY <1>1
<1>4. \A c \in Buffers \ {Head(w.txq)} : SomewhereIn(w, c) => SomewhereIn(v, c)
  <2> SUFFICES ASSUME NEW c \in Buffers \ {Head(w.txq)}, SomewhereIn(w, c)
               PROVE  SomewhereIn(v, c)
    OBVIOUS
  <2>1. CASE \E i \in 1..Len(w.txq) : c = w.txq[i]
    BY <2>1, TailHas DEF SomewhereIn
  <2>2. CASE ~\E i \in 1..Len(w.txq) : c = w.txq[i]
    BY <2>2 DEF SomewhereIn
  <2>. QED
    BY <2>1, <2>2
<1>. QED
  BY <1>1, <1>2, <1>3, <1>4 DEF Took

LEMMA PutTxq ==
  ASSUME NEW own, NEW w, Owned(own, w), NEW b \in Buffers, own[b] = Nowhere,
         NEW p, p = [own EXCEPT ![b] = InTxq], NEW v, v = WithTxq(w, Append(w.txq, b))
  PROVE  Put(w, b, p, v)
<1> USE SlotNumbers, BufferNumbers
    DEF Owned, Placements, InPool, InBank, InTxq, InRxq, InMain, InSer, Nowhere, WithTxq
<1>1. v \in Placements /\ p \in [Buffers -> Int]
  OBVIOUS
<1>2. Owned(p, v)
  BY <1>1
<1>3. \A c \in Buffers : SomewhereIn(w, c) \/ c = b => SomewhereIn(v, c)
  BY DEF SomewhereIn
<1>. QED
  BY <1>2, <1>3 DEF Put

LEMMA TakeRxq ==
  ASSUME NEW own, NEW w, Owned(own, w), w.rxq # <<>>,
         NEW p, p = [own EXCEPT ![Head(w.rxq)] = Nowhere], NEW v, v = WithRxq(w, Tail(w.rxq))
  PROVE  Took(own, w, Head(w.rxq), p, v)
<1> USE SlotNumbers, BufferNumbers
    DEF Owned, Placements, InPool, InBank, InTxq, InRxq, InMain, InSer, Nowhere, WithRxq
<1>1. Head(w.rxq) \in Buffers /\ v \in Placements /\ p \in [Buffers -> Int]
  OBVIOUS
<1>2. Owned(p, v)
  BY <1>1
<1>3. p[Head(w.rxq)] = Nowhere
  BY <1>1
<1>4. \A c \in Buffers \ {Head(w.rxq)} : SomewhereIn(w, c) => SomewhereIn(v, c)
  <2> SUFFICES ASSUME NEW c \in Buffers \ {Head(w.rxq)}, SomewhereIn(w, c)
               PROVE  SomewhereIn(v, c)
    OBVIOUS
  <2>1. CASE \E i \in 1..Len(w.rxq) : c = w.rxq[i]
    BY <2>1, TailHas DEF SomewhereIn
  <2>2. CASE ~\E i \in 1..Len(w.rxq) : c = w.rxq[i]
    BY <2>2 DEF SomewhereIn
  <2>. QED
    BY <2>1, <2>2
<1>. QED
  BY <1>1, <1>2, <1>3, <1>4 DEF Took

LEMMA PutRxq ==
  ASSUME NEW own, NEW w, Owned(own, w), NEW b \in Buffers, own[b] = Nowhere,
         NEW p, p = [own EXCEPT ![b] = InRxq], NEW v, v = WithRxq(w, Append(w.rxq, b))
  PROVE  Put(w, b, p, v)
<1> USE SlotNumbers, BufferNumbers
    DEF Owned, Placements, InPool, InBank, InTxq, InRxq, InMain, InSer, Nowhere, WithRxq
<1>1. v \in Placements /\ p \in [Buffers -> Int]
  OBVIOUS
<1>2. Owned(p, v)
  BY <1>1
<1>3. \A c \in Buffers : SomewhereIn(w, c) \/ c = b => SomewhereIn(v, c)
  BY DEF SomewhereIn
<1>. QED
  BY <1>2, <1>3 DEF Put

LEMMA TakeMain ==
  ASSUME NEW own, NEW w, Owned(own, w), w.main # NoBuf,
         NEW p, p = [own EXCEPT ![w.main] = Nowhere], NEW v, v = AtMain(w, NoBuf)
  PROVE  Took(own, w, w.main, p, v)
<1> USE SlotNumbers, BufferNumbers
    DEF Owned, Placements, InPool, InBank, InTxq, InRxq, InMain, InSer, Nowhere, AtMain
<1>1. w.main \in Buffers /\ v \in Placements /\ p \in [Buffers -> Int]
  OBVIOUS
<1>2. Owned(p, v)
  BY <1>1
<1>3. p[w.main] = Nowhere
  BY <1>1
<1>4. \A c \in Buffers \ {w.main} : SomewhereIn(w, c) => SomewhereIn(v, c)
  BY DEF SomewhereIn
<1>. QED
  BY <1>1, <1>2, <1>3, <1>4 DEF Took

LEMMA PutMain ==
  ASSUME NEW own, NEW w, Owned(own, w), NEW b \in Buffers, own[b] = Nowhere, w.main = NoBuf,
         NEW p, p = [own EXCEPT ![b] = InMain], NEW v, v = AtMain(w, b)
  PROVE  Put(w, b, p, v)
<1> USE SlotNumbers, BufferNumbers
    DEF Owned, Placements, InPool, InBank, InTxq, InRxq, InMain, InSer, Nowhere, AtMain
<1>1. v \in Placements /\ p \in [Buffers -> Int]
  OBVIOUS
<1>2. Owned(p, v)
  BY <1>1
<1>3. \A c \in Buffers : SomewhereIn(w, c) \/ c = b => SomewhereIn(v, c)
  BY DEF SomewhereIn
<1>. QED
  BY <1>2, <1>3 DEF Put

LEMMA TakeSer ==
  ASSUME NEW own, NEW w, Owned(own, w), w.ser # NoBuf,
         NEW p, p = [own EXCEPT ![w.ser] = Nowhere], NEW v, v = AtSer(w, NoBuf)
  PROVE  Took(own, w, w.ser, p, v)
<1> USE SlotNumbers, BufferNumbers
    DEF Owned, Placements, InPool, InBank, InTxq, InRxq, InMain, InSer, Nowhere, AtSer
<1>1. w.ser \in Buffers /\ v \in Placements /\ p \in [Buffers -> Int]
  OBVIOUS
<1>2. Owned(p, v)
  BY <1>1
<1>3. p[w.ser] = Nowhere
  BY <1>1
<1>4. \A c \in Buffers \ {w.ser} : SomewhereIn(w, c) => SomewhereIn(v, c)
  BY DEF SomewhereIn
<1>. QED
  BY <1>1, <1>2, <1>3, <1>4 DEF Took

LEMMA PutSer ==
  ASSUME NEW own, NEW w, Owned(own, w), NEW b \in Buffers, own[b] = Nowhere, w.ser = NoBuf,
         NEW p, p = [own EXCEPT ![b] = InSer], NEW v, v = AtSer(w, b)
  PROVE  Put(w, b, p, v)
<1> USE SlotNumbers, BufferNumbers
    DEF Owned, Placements, InPool, InBank, InTxq, InRxq, InMain, InSer, Nowhere, AtSer
<1>1. v \in Placements /\ p \in [Buffers -> Int]
  OBVIOUS
<1>2. Owned(p, v)
  BY <1>1
<1>3. \A c \in Buffers : SomewhereIn(w, c) \/ c = b => SomewhereIn(v, c)
  BY DEF SomewhereIn
<1>. QED
  BY <1>2, <1>3 DEF Put

\* What moves: no buffer loses its place or shares one.
NoneLost(w, v) == \A c \in Buffers : SomewhereIn(w, c) => SomewhereIn(v, c)
Rearranged(w, v) == (\E own : Owned(own, v)) /\ NoneLost(w, v)

LEMMA TakeAndPut ==
  ASSUME NEW own, NEW w, NEW b, NEW p, NEW u, Took(own, w, b, p, u), NEW q, NEW v, Put(u, b, q, v)
  PROVE  Rearranged(w, v)
BY DEF Took, Put, Rearranged, NoneLost

LEMMA Transitive ==
  ASSUME NEW u, NEW v, NEW w, Rearranged(u, v), Rearranged(v, w) PROVE Rearranged(u, w)
BY DEF Rearranged, NoneLost

\* What usb_free and usb_malloc do to mem.
MemShape(m) == m = [rx |-> m.rx, needed |-> m.needed, avail |-> m.avail]
WithMem(w, m) == [rx |-> m.rx, avail |-> m.avail, bank |-> w.bank, txq |-> w.txq,
                  rxq |-> w.rxq, main |-> w.main, ser |-> w.ser]
MemOf(m, w) == MemShape(m) /\ m.rx = w.rx /\ m.avail = w.avail

LEMMA FreedPuts ==
  ASSUME NEW own, NEW w, Owned(own, w), NEW b \in Buffers, own[b] = Nowhere,
         NEW m, MemOf(m, w),
         NEW n, n = Freed(m, b) \/ n = ToPool(m, b) \/ (n = Give(m, b) /\ Empties(m) # {})
  PROVE  MemShape(n) /\ \E p : Put(w, b, p, WithMem(w, n))
<1>0. m = [rx |-> m.rx, needed |-> m.needed, avail |-> m.avail] /\ m.rx = w.rx /\ m.avail = w.avail
  BY DEF MemOf, MemShape
<1>1. ASSUME n = Give(m, b), Empties(m) # {} PROVE MemShape(n) /\ \E p : Put(w, b, p, WithMem(w, n))
  <2>1. PICK s : s = Min(Empties(m))
    OBVIOUS
  <2>2. s \in Slots /\ w.rx[s] = NoBuf
    <3>1. Empties(m) \subseteq Nat
      BY SlotNumbers DEF Empties
    <3>2. s \in Empties(m)
      BY <1>1, <2>1, <3>1, MinSlot
    <3>. QED
      BY <1>0, <3>2 DEF Empties
  <2>3. n = [rx |-> [w.rx EXCEPT ![s] = b], needed |-> (m.needed - 1) % 256, avail |-> w.avail]
    BY <1>0, <1>1, <2>1 DEF Give
  <2>4. WithMem(w, n) = AtSlot(w, s, b)
    BY <2>3 DEF WithMem, AtSlot
  <2>5. Put(w, b, [own EXCEPT ![b] = s], AtSlot(w, s, b))
    BY <2>2, PutSlot
  <2>. QED
    BY <2>3, <2>4, <2>5 DEF MemShape
<1>2. ASSUME NEW k, n = ToPool(k, b), k = m \/ k = NoneNeeded(m)
      PROVE  MemShape(n) /\ \E p : Put(w, b, p, WithMem(w, n))
  <2>1. \E x : k = [rx |-> w.rx, needed |-> x, avail |-> w.avail]
    BY <1>0, <1>2 DEF NoneNeeded
  <2>2. PICK x : k = [rx |-> w.rx, needed |-> x, avail |-> w.avail]
    BY <2>1
  <2>3. n = [rx |-> w.rx, needed |-> x, avail |-> w.avail \cup {b}]
    BY <1>2, <2>2 DEF ToPool
  <2>4. WithMem(w, n) = WithPool(w, w.avail \cup {b})
    BY <2>3 DEF WithMem, WithPool
  <2>5. Put(w, b, [own EXCEPT ![b] = InPool], WithPool(w, w.avail \cup {b}))
    BY PutFree
  <2>. QED
    BY <2>3, <2>4, <2>5 DEF MemShape
<1>3. CASE n = Freed(m, b)
  <2>1. \/ n = ToPool(m, b) \/ n = ToPool(NoneNeeded(m), b) \/ (n = Give(m, b) /\ Empties(m) # {})
    BY <1>3 DEF Freed, Feed
  <2>. QED
    BY <1>1, <1>2, <2>1
<1>. QED
  BY <1>1, <1>2, <1>3

LEMMA RearmPuts ==
  ASSUME NEW own, NEW w, Owned(own, w), NEW m, MemShape(m), m.avail = w.avail,
         NEW s \in Slots, m.rx \in [Slots -> Buffers \cup {NoBuf}],
         w.rx = [m.rx EXCEPT ![s] = NoBuf], NEW n, n = Rearm(m, s)
  PROVE  MemShape(n) /\ Rearranged(w, WithMem(w, n))
<1>0. m = [rx |-> m.rx, needed |-> m.needed, avail |-> w.avail]
  BY DEF MemShape
<1>1. CASE Free(m) = {}
  <2>1. n = [rx |-> w.rx, needed |-> (m.needed + 1) % 256, avail |-> w.avail]
    BY <1>0, <1>1 DEF Rearm
  <2>2. WithMem(w, n) = w
    BY <2>1 DEF WithMem, Owned, Placements
  <2>. QED
    BY <2>1, <2>2 DEF MemShape, Rearranged, NoneLost
<1>2. CASE Free(m) # {}
  <2>1. PICK b : b = Malloc(m)
    OBVIOUS
  <2>2. b \in Buffers /\ b \in w.avail
    BY <1>0, <1>2, <2>1 DEF Malloc, Free
  <2>3. n = [rx |-> [m.rx EXCEPT ![s] = b], needed |-> m.needed, avail |-> w.avail \ {b}]
    BY <1>0, <1>2, <2>1 DEF Rearm
  <2>4. PICK u : u = WithPool(w, w.avail \ {b})
    OBVIOUS
  <2>5. PICK p : Took(own, w, b, p, u)
    BY <2>2, <2>4, TakeFree
  <2>6. Owned(p, u) /\ p[b] = Nowhere /\ u.rx = w.rx
    BY <2>4, <2>5 DEF Took, WithPool
  <2>7. u.rx[s] = NoBuf
    BY <2>6
  <2>8. PICK q : Put(u, b, q, AtSlot(u, s, b))
    BY <2>2, <2>6, <2>7, PutSlot
  <2>9. AtSlot(u, s, b) = WithMem(w, n)
    <3>1. [w.rx EXCEPT ![s] = b] = [m.rx EXCEPT ![s] = b]
      OBVIOUS
    <3>. QED
      BY <2>3, <2>4, <3>1 DEF AtSlot, WithMem, WithPool
  <2>10. Rearranged(w, WithMem(w, n))
    BY <2>5, <2>8, <2>9, TakeAndPut
  <2>. QED
    BY <2>3, <2>10 DEF MemShape
<1>. QED
  BY <1>1, <1>2

-----------------------------------------------------------------------------
(* The invariant: every buffer has its place, and the loop holds one while *)
(* it receives.                                                            *)
Holding == {"copy", "check", "feed", "zero", "pool"}
BufShape ==
  /\ MemShape(mem) /\ hw.rx \in {0, 1} /\ buf \in [Buffers -> Nat]
  /\ used.out \in Nat /\ used.in \in Nat
  /\ main.pkt # NoBuf <=> main.at \in Holding

OwnInv == BanksInv /\ BufShape /\ \E own : Owned(own, Placement)

LEMMA OwnInitially == UsbInit => OwnInv
<1> SUFFICES ASSUME UsbInit PROVE OwnInv
  OBVIOUS
<1>1. BanksInv
  BY BanksInitially
<1>2. BufShape
  BY DEF UsbInit, BufShape, MemShape, Holding
<1>3. Placement \in Placements
  BY DEF UsbInit, Placement, Placements
<1>4. PICK own : own = [b \in Buffers |-> InPool]
  OBVIOUS
<1>5. Owned(own, Placement)
  <2>1. own \in [Buffers -> Int]
    BY <1>4 DEF InPool
  <2>. QED
    BY <1>3, <1>4, <2>1 DEF Owned, UsbInit, Placement
<1>. QED
  BY <1>1, <1>2, <1>5 DEF OwnInv

\* What OwnInv says of the variables.
Shape ==
  /\ Placement \in Placements /\ MemShape(mem)
  /\ mem.rx \in [Slots -> Buffers \cup {NoBuf}] /\ mem.avail \in SUBSET Buffers
  /\ tx.bank \in [{0, 1} -> Buffers \cup {NoBuf}] /\ tx.queue \in Seq(Buffers)
  /\ rxq \in Seq(Buffers)
  /\ main.pkt \in Buffers \cup {NoBuf} /\ ser.pkt \in Buffers \cup {NoBuf}
  /\ main = [at |-> main.at, pkt |-> main.pkt, got |-> main.got, left |-> main.left]
  /\ ser = [pkt |-> ser.pkt, index |-> ser.index, noauto |-> ser.noauto,
            timer |-> ser.timer, gaveUp |-> ser.gaveUp]
  /\ tx = [state |-> tx.state, bank |-> tx.bank, queue |-> tx.queue]
  /\ main.pkt # NoBuf <=> main.at \in Holding
  /\ FlushHasPacket
LEMMA Shapes == OwnInv => Shape
<1> SUFFICES ASSUME OwnInv PROVE Shape
  OBVIOUS
<1>1. Placement \in Placements
  BY DEF OwnInv, Owned
<1>2. /\ Placement.rx = mem.rx /\ Placement.avail = mem.avail /\ Placement.bank = tx.bank
      /\ Placement.txq = tx.queue /\ Placement.rxq = rxq /\ Placement.main = main.pkt
      /\ Placement.ser = ser.pkt
  BY DEF Placement
<1>3. /\ mem.rx \in [Slots -> Buffers \cup {NoBuf}] /\ mem.avail \in SUBSET Buffers
      /\ tx.bank \in [{0, 1} -> Buffers \cup {NoBuf}] /\ tx.queue \in Seq(Buffers)
      /\ rxq \in Seq(Buffers)
      /\ main.pkt \in Buffers \cup {NoBuf} /\ ser.pkt \in Buffers \cup {NoBuf}
  BY <1>1, <1>2 DEF Placements
<1>. QED
  BY <1>1, <1>3 DEF Shape, OwnInv, BanksInv, BufShape, FlushInv, TxShape

\* Steps that move nothing.
LEMMA StaysInPlace ==
  ASSUME OwnInv, Placement' = Placement PROVE Rearranged(Placement, Placement')
BY DEF OwnInv, Rearranged, NoneLost

LEMMA ReceivingMoves ==
  ASSUME OwnInv, RecvTake \/ RecvCopy \/ FreeCheck \/ FreeFeed \/ FreeZero \/ FreePool
  PROVE  BufShape' /\ Rearranged(Placement, Placement')
<1>s. Shape
  BY Shapes
<1> USE <1>s DEF Shape
<1>0. PICK own, w : Owned(own, w) /\ w = Placement
  BY DEF OwnInv
<1>1. BufShape'
  <2>1. CASE RecvTake
    <3>1. Head(rxq) \in Buffers
      BY <2>1 DEF RecvTake
    <3>. QED
      BY <2>1, <3>1, BufferNumbers DEF OwnInv, BufShape, Holding, RecvTake, KeepIsr, MemShape
  <2>2. CASE RecvCopy \/ FreeCheck \/ FreeZero
    <3>1. MemShape(mem') /\ UNCHANGED <<hw, buf, used>>
      BY <2>2 DEF RecvCopy, FreeCheck, FreeZero, KeepIsr, MemShape, NoneNeeded
    <3>2. main'.pkt # NoBuf <=> main'.at \in Holding
      BY <2>2 DEF RecvCopy, FreeCheck, FreeZero, Holding
    <3>. QED
      BY <3>1, <3>2 DEF OwnInv, BufShape
  <2>3. CASE FreeFeed \/ FreePool
    <3>1. MemShape(mem')
      BY <2>3 DEF FreeFeed, FreePool, MemShape, Give, ToPool
    <3>2. main'.pkt # NoBuf <=> main'.at \in Holding
      BY <2>3 DEF FreeFeed, FreePool, Holding, Dropped
    <3>. QED
      BY <2>3, <3>1, <3>2 DEF OwnInv, BufShape, FreeFeed, FreePool, KeepIsr
  <2>. QED
    BY <2>1, <2>2, <2>3
<1>2. CASE RecvTake
  <2>1. PICK b, u : b = Head(rxq) /\ u = WithRxq(w, Tail(rxq))
    OBVIOUS
  <2>2. rxq # <<>> /\ w.rxq = rxq /\ main.pkt = NoBuf
    BY <1>0, <1>2 DEF RecvTake, Idle, Placement, Holding
  <2>3. PICK p : Took(own, w, b, p, u)
    BY <1>0, <2>1, <2>2, TakeRxq
  <2>4. b \in Buffers /\ Owned(p, u) /\ p[b] = Nowhere /\ u.main = NoBuf
    BY <1>0, <2>1, <2>2, <2>3 DEF Took, WithRxq, Placement
  <2>5. PICK q : Put(u, b, q, AtMain(u, b))
    BY <2>4, PutMain
  <2>6. Placement' = AtMain(u, b)
    BY <1>0, <1>2, <2>1 DEF RecvTake, KeepIsr, Placement, AtMain, WithRxq
  <2>. QED
    BY <1>0, <1>1, <2>3, <2>5, <2>6, TakeAndPut
<1>3. CASE RecvCopy \/ FreeCheck \/ FreeZero
  <2>1. Placement' = Placement
    BY <1>3 DEF RecvCopy, FreeCheck, FreeZero, KeepIsr, Placement, MemShape, NoneNeeded
  <2>. QED
    BY <1>1, <2>1, StaysInPlace
<1>4. CASE FreeFeed \/ FreePool
  <2>1. CASE FreeFeed /\ Empties(mem) = {}
    <3>1. Placement' = Placement
      BY <2>1 DEF FreeFeed, KeepIsr, Placement
    <3>. QED
      BY <1>1, <3>1, StaysInPlace
  <2>2. CASE FreePool \/ Empties(mem) # {}
    <3>1. PICK b, u : b = main.pkt /\ u = AtMain(w, NoBuf)
      OBVIOUS
    <3>2. w.main = b /\ b # NoBuf
      BY <1>0, <1>4, <3>1 DEF Placement, Holding, FreeFeed, FreePool
    <3>a. \E p : Took(own, w, w.main, p, u)
      BY <1>0, <3>1, <3>2, TakeMain
    <3>3. PICK p : Took(own, w, b, p, u)
      BY <3>2, <3>a
    <3>4. b \in Buffers /\ Owned(p, u) /\ p[b] = Nowhere
      BY <3>3 DEF Took
    <3>5. MemOf(mem, u)
      BY <1>0, <3>1 DEF MemOf, AtMain, Placement
    <3>6. PICK n : n = mem'
      OBVIOUS
    <3>7. n = ToPool(mem, b) \/ (n = Give(mem, b) /\ Empties(mem) # {})
      BY <1>4, <2>2, <3>1, <3>6 DEF FreeFeed, FreePool
    <3>8. PICK q : Put(u, b, q, WithMem(u, n))
      BY <3>4, <3>5, <3>7, FreedPuts
    <3>9. main'.pkt = NoBuf /\ UNCHANGED <<tx, rxq, ser>>
      BY <1>4, <2>2 DEF FreeFeed, FreePool, KeepIsr, Dropped
    <3>10. Placement' = WithMem(u, n)
      BY <1>0, <3>1, <3>6, <3>9 DEF Placement, WithMem, AtMain
    <3>. QED
      BY <1>0, <1>1, <3>3, <3>8, <3>10, TakeAndPut
  <2>. QED
    BY <1>4, <2>1, <2>2
<1>. QED
  BY <1>2, <1>3, <1>4

\* usb_tx: the bank it fills is free.
LEMMA SendingMoves ==
  ASSUME OwnInv, ser.pkt # NoBuf, tx' = Sent(tx, ser.pkt), ser'.pkt = NoBuf,
         UNCHANGED <<mem, rxq>>, main'.pkt = main.pkt
  PROVE  Rearranged(Placement, Placement')
<1>s. Shape
  BY Shapes
<1> USE <1>s DEF Shape
<1>0. PICK own, w : Owned(own, w) /\ w = Placement
  BY DEF OwnInv
<1>1. PICK b, u : b = ser.pkt /\ u = AtSer(w, NoBuf)
  OBVIOUS
<1>2. w.ser = b /\ b # NoBuf
  BY <1>0, <1>1 DEF Placement
<1>a. \E p : Took(own, w, w.ser, p, u)
  BY <1>0, <1>1, <1>2, TakeSer
<1>3. PICK p : Took(own, w, b, p, u)
  BY <1>2, <1>a
<1>4. b \in Buffers /\ Owned(p, u) /\ p[b] = Nowhere
  BY <1>3 DEF Took
<1>5. CASE tx.state \in DOMAIN Fills
  <2>1. PICK k : k = Fills[tx.state]
    OBVIOUS
  <2>2. k \in {0, 1} /\ u.bank[k] = NoBuf
    BY <1>0, <1>1, <1>5, <2>1 DEF OwnInv, BanksInv, BanksFilled, Fills, AtSer, Placement
  <2>3. PICK q : Put(u, b, q, AtBank(u, k, b))
    BY <1>4, <2>2, PutBank
  <2>4. tx' = [state |-> Filled[tx.state], bank |-> [tx.bank EXCEPT ![k] = b], queue |-> tx.queue]
    BY <1>1, <1>5, <2>1 DEF Sent
  <2>5. Placement' = AtBank(u, k, b)
    BY <1>0, <1>1, <2>4 DEF Placement, AtBank, AtSer
  <2>. QED
    BY <1>0, <1>3, <2>3, <2>5, TakeAndPut
<1>6. CASE tx.state \notin DOMAIN Fills
  <2>1. PICK q : Put(u, b, q, WithTxq(u, Append(u.txq, b)))
    BY <1>4, PutTxq
  <2>2. tx' = [state |-> tx.state, bank |-> tx.bank, queue |-> Append(tx.queue, b)]
    BY <1>1, <1>6 DEF Sent
  <2>3. Placement' = WithTxq(u, Append(u.txq, b))
    BY <1>0, <1>1, <2>2 DEF Placement, WithTxq, AtSer
  <2>. QED
    BY <1>0, <1>3, <2>1, <2>3, TakeAndPut
<1>. QED
  BY <1>5, <1>6

LEMMA PrintingMoves ==
  ASSUME OwnInv,
         WriteStart \/ WriteOld \/ WriteNew \/ WriteWait \/ WriteGivesUp \/ WriteFill \/ WriteSend
  PROVE  BufShape' /\ Rearranged(Placement, Placement')
<1>s. Shape
  BY Shapes
<1> USE <1>s DEF Shape
<1>0. PICK own, w : Owned(own, w) /\ w = Placement
  BY DEF OwnInv
<1>1. CASE WriteNew
  <2>1. PICK b, u : b = Malloc(mem) /\ u = WithPool(w, mem.avail \ {b})
    OBVIOUS
  <2>2. b \in Buffers /\ b \in w.avail /\ w.avail = mem.avail
    BY <1>0, <1>1, <2>1 DEF WriteNew, CanAllocate, Malloc, Free, Placement
  <2>3. PICK p : Took(own, w, b, p, u)
    BY <1>0, <2>1, <2>2, TakeFree
  <2>4. Owned(p, u) /\ p[b] = Nowhere /\ u.ser = NoBuf
    BY <1>0, <1>1, <2>1, <2>3 DEF Took, WithPool, Placement, WriteNew
  <2>5. PICK q : Put(u, b, q, AtSer(u, b))
    BY <2>2, <2>4, PutSer
  <2>6. mem' = [rx |-> mem.rx, needed |-> mem.needed, avail |-> mem.avail \ {b}]
    BY <1>1, <2>1 DEF WriteNew, MemShape
  <2>7. Placement' = AtSer(u, b)
    BY <1>0, <1>1, <2>1, <2>6 DEF WriteNew, KeepRx, Placement, AtSer, WithPool
  <2>8. BufShape'
    <3>1. MemShape(mem') /\ hw' = hw
      BY <1>1, <2>6 DEF MemShape, WriteNew, KeepRx
    <3>2. used' = [out |-> used.out, empty |-> used.empty, in |-> used.in + 1,
                   writes |-> used.writes, resets |-> used.resets, taken |-> used.taken]
      BY <1>1 DEF OwnInv, BanksInv, TxShape, WriteNew
    <3>3. used'.out \in Nat /\ used'.in \in Nat
      BY <3>2 DEF OwnInv, BufShape
    <3>4. buf' = [buf EXCEPT ![b] = used.in + 1] /\ used.in + 1 \in Nat
      BY <1>1, <2>1 DEF OwnInv, BufShape, WriteNew
    <3>5. buf' \in [Buffers -> Nat]
      BY <2>2, <3>4 DEF OwnInv, BufShape
    <3>6. main' = [at |-> "fill", pkt |-> main.pkt, got |-> main.got, left |-> main.left]
      BY <1>1 DEF WriteNew
    <3>7. main'.pkt # NoBuf <=> main'.at \in Holding
      BY <1>1, <3>6 DEF WriteNew, Holding
    <3>. QED
      BY <3>1, <3>3, <3>5, <3>7 DEF OwnInv, BufShape
  <2>. QED
    BY <1>0, <2>3, <2>5, <2>7, <2>8, TakeAndPut
<1>2. CASE WriteSend
  <2>1. ser.pkt # NoBuf /\ ser'.pkt = NoBuf /\ main'.pkt = main.pkt
    BY <1>2 DEF WriteSend, FlushHasPacket
  <2>2. BufShape'
    BY <1>2 DEF OwnInv, BufShape, MemShape, Holding, WriteSend, KeepRx
  <2>. QED
    BY <1>2, <2>1, <2>2, SendingMoves DEF WriteSend, KeepRx
<1>3. ASSUME WriteStart \/ WriteOld \/ WriteWait \/ WriteGivesUp \/ WriteFill
      PROVE  BufShape' /\ Rearranged(Placement, Placement')
  <2>1. Placement' = Placement
    BY <1>3 DEF Placement, WriteStart, WriteOld, WriteWait, WriteGivesUp, WriteFill, WriteEnds, KeepRx
  <2>2. BufShape'
    <3>1. UNCHANGED <<mem, hw, buf>> /\ used'.out = used.out /\ used'.in = used.in
      BY <1>3 DEF OwnInv, BanksInv, TxShape, WriteStart, WriteOld, WriteWait, WriteGivesUp,
                  WriteFill, WriteEnds, KeepRx
    <3>2. main'.pkt # NoBuf <=> main'.at \in Holding
      BY <1>3 DEF Holding, Idle, WriteStart, WriteOld, WriteWait, WriteGivesUp, WriteFill, WriteEnds
    <3>. QED
      BY <3>1, <3>2 DEF OwnInv, BufShape
  <2>. QED
    BY <2>1, <2>2, StaysInPlace
<1>. QED
  BY <1>1, <1>2, <1>3

\* The interrupt's steps.
LEMMA ReceiveMoves ==
  ASSUME OwnInv, Receive PROVE BufShape' /\ Rearranged(Placement, Placement')
<1>s. Shape
  BY Shapes
<1> USE <1>s DEF Shape
<1>0. PICK own, w : Owned(own, w) /\ w = Placement
  BY DEF OwnInv
<1>1. PICK s, b, u : s = RawHid + hw.rx /\ b = mem.rx[s] /\ u = AtSlot(w, s, NoBuf)
  OBVIOUS
<1>2. s \in Slots /\ b # NoBuf /\ w.rx[s] = b /\ b \in Buffers
  <2>1. s \in Slots
    <3>1. RxEps \in Nat \ {0}
      BY UsbAssumption
    <3>2. hw.rx = 0 \/ hw.rx = 1
      BY DEF OwnInv, BufShape
    <3>. QED
      BY <1>1, <3>1, <3>2 DEF RawHid, Slots
  <2>. QED
    BY <1>0, <1>1, <2>1 DEF Receive, Placement
<1>a. \E p : Took(own, w, w.rx[s], p, u)
  BY <1>0, <1>1, <1>2, TakeSlot
<1>3. PICK p : Took(own, w, b, p, u)
  BY <1>2, <1>a
<1>4. Owned(p, u) /\ p[b] = Nowhere
  BY <1>3 DEF Took
<1>5. PICK x : x = WithRxq(u, Append(u.rxq, b))
  OBVIOUS
<1>6. PICK q : Put(u, b, q, x)
  BY <1>2, <1>4, <1>5, PutRxq
<1>7. Rearranged(w, x)
  BY <1>3, <1>6, TakeAndPut
<1>8. PICK n : n = mem'
  OBVIOUS
<1>9. n = Rearm(mem, s)
  BY <1>1, <1>8 DEF Receive
<1>10. Owned(q, x) /\ x.avail = mem.avail /\ x.rx = [mem.rx EXCEPT ![s] = NoBuf]
  BY <1>0, <1>1, <1>5, <1>6 DEF Put, WithRxq, AtSlot, Placement
<1>11. MemShape(n) /\ Rearranged(x, WithMem(x, n))
  BY <1>2, <1>9, <1>10, RearmPuts
<1>12. rxq' = Append(rxq, b) /\ UNCHANGED <<tx, main, ser>>
  BY <1>1 DEF Receive
<1>13. Placement' = WithMem(x, n)
  BY <1>0, <1>1, <1>5, <1>8, <1>12 DEF Placement, WithMem, WithRxq, AtSlot
<1>14. Rearranged(w, WithMem(x, n))
  BY <1>7, <1>11, Transitive
<1>15. BufShape'
  <2>1. MemShape(mem')
    BY <1>8, <1>11
  <2>2. hw' = [rx |-> 1 - hw.rx, tx |-> hw.tx]
    BY DEF OwnInv, BanksInv, TxShape, Receive
  <2>3. hw'.rx \in {0, 1}
    BY <2>2 DEF OwnInv, BufShape
  <2>4. used' = [out |-> used.out + 1, empty |-> used.empty, in |-> used.in,
                 writes |-> used.writes, resets |-> used.resets, taken |-> used.taken]
    BY DEF OwnInv, BanksInv, TxShape, Receive
  <2>5. used'.out \in Nat /\ used'.in \in Nat
    BY <2>4 DEF OwnInv, BufShape
  <2>6. buf' = [buf EXCEPT ![b] = used.out + 1] /\ used.out + 1 \in Nat
    BY <1>1 DEF OwnInv, BufShape, Receive
  <2>7. buf' \in [Buffers -> Nat]
    BY <2>6 DEF OwnInv, BufShape
  <2>. QED
    BY <1>12, <2>1, <2>3, <2>5, <2>7 DEF OwnInv, BufShape
<1>. QED
  BY <1>0, <1>13, <1>14, <1>15

LEMMA TransmitMoves ==
  ASSUME OwnInv, Transmit PROVE BufShape' /\ Rearranged(Placement, Placement')
<1>s. Shape
  BY Shapes
<1> USE <1>s DEF Shape
<1>0. PICK own, w : Owned(own, w) /\ w = Placement
  BY DEF OwnInv
<1>1. PICK k, b, u : k = hw.tx /\ b = tx.bank[k] /\ u = AtBank(w, k, NoBuf)
  OBVIOUS
<1>2. k \in {0, 1} /\ b # NoBuf /\ w.bank[k] = b /\ b \in Buffers
  BY <1>0, <1>1 DEF Transmit, Placement, OwnInv, BanksInv, TxShape
<1>a. \E p : Took(own, w, w.bank[k], p, u)
  BY <1>0, <1>1, <1>2, TakeBank
<1>3. PICK p : Took(own, w, b, p, u)
  BY <1>2, <1>a
<1>4. Owned(p, u) /\ p[b] = Nowhere
  BY <1>3 DEF Took
<1>5. MemOf(mem, u)
  BY <1>0, <1>1 DEF MemOf, AtBank, Placement
<1>6. PICK n : n = mem'
  OBVIOUS
<1>7. n = Freed(mem, b) \/ n = ToPool(mem, b)
  BY <1>1, <1>6 DEF Transmit, IsrFree
<1>8. MemShape(n) /\ \E q : Put(u, b, q, WithMem(u, n))
  BY <1>2, <1>4, <1>5, <1>7, FreedPuts
<1>9. PICK q, x : Put(u, b, q, x) /\ x = WithMem(u, n)
  BY <1>8
<1>10. Rearranged(w, x) /\ Owned(q, x)
  BY <1>3, <1>9, TakeAndPut DEF Put
<1>11. BufShape'
  <2>1. hw' = [rx |-> hw.rx, tx |-> 1 - hw.tx] /\ UNCHANGED <<buf, main>>
    BY DEF OwnInv, BanksInv, TxShape, Transmit
  <2>2. used'.out = used.out /\ used'.in = used.in
    BY DEF OwnInv, BanksInv, TxShape, Transmit
  <2>. QED
    BY <1>6, <1>8, <2>1, <2>2 DEF OwnInv, BufShape
<1>12. CASE tx.queue = <<>>
  <2>1. tx' = [state |-> Drained(tx.state, k), bank |-> [tx.bank EXCEPT ![k] = NoBuf],
               queue |-> tx.queue]
    BY <1>1, <1>12 DEF Transmit
  <2>2. UNCHANGED <<rxq, main, ser>>
    BY DEF Transmit
  <2>3. Placement' = x
    BY <1>0, <1>1, <1>6, <1>9, <2>1, <2>2 DEF Placement, WithMem, AtBank
  <2>. QED
    BY <1>0, <1>10, <1>11, <2>3
<1>13. CASE tx.queue # <<>>
  <2>1. x.txq = tx.queue /\ x.bank = [tx.bank EXCEPT ![k] = NoBuf]
    BY <1>0, <1>1, <1>9 DEF Placement, WithMem, AtBank
  <2>2. PICK c, y : c = Head(x.txq) /\ y = WithTxq(x, Tail(x.txq))
    OBVIOUS
  <2>3. PICK r : Took(q, x, c, r, y)
    BY <1>10, <1>13, <2>1, <2>2, TakeTxq
  <2>4. c \in Buffers /\ Owned(r, y) /\ r[c] = Nowhere /\ y.bank[k] = NoBuf
    BY <1>2, <2>1, <2>2, <2>3 DEF Took, WithTxq
  <2>5. PICK t : Put(y, c, t, AtBank(y, k, c))
    BY <1>2, <2>4, PutBank
  <2>6. Rearranged(x, AtBank(y, k, c))
    BY <2>3, <2>5, TakeAndPut
  <2>7. Rearranged(w, AtBank(y, k, c))
    BY <1>10, <2>6, Transitive
  <2>8. tx' = [state |-> Refilled(tx.state), bank |-> [tx.bank EXCEPT ![k] = c],
               queue |-> Tail(tx.queue)]
    BY <1>1, <1>13, <2>1, <2>2 DEF Transmit
  <2>9. UNCHANGED <<rxq, main, ser>>
    BY DEF Transmit
  <2>a. [[tx.bank EXCEPT ![k] = NoBuf] EXCEPT ![k] = c] = [tx.bank EXCEPT ![k] = c]
    OBVIOUS
  <2>10. Placement' = AtBank(y, k, c)
    BY <1>0, <1>1, <1>6, <1>9, <2>a, <2>1, <2>2, <2>8, <2>9 DEF Placement, WithMem, AtBank, WithTxq
  <2>. QED
    BY <1>0, <1>11, <2>7, <2>10
<1>. QED
  BY <1>12, <1>13

LEMMA OthersMove ==
  ASSUME OwnInv, ReceiveEmpty \/ SofFlush \/ BusReset
  PROVE  BufShape' /\ Rearranged(Placement, Placement')
<1>s. Shape
  BY Shapes
<1> USE <1>s DEF Shape
<1>1. CASE ReceiveEmpty \/ BusReset
  <2>1. Placement' = Placement /\ UNCHANGED <<mem, buf, main>>
    BY <1>1 DEF Placement, ReceiveEmpty, BusReset
  <2>2. hw'.rx \in {0, 1} /\ used'.out = used.out /\ used'.in = used.in
    <3>1. CASE ReceiveEmpty
      BY <3>1 DEF OwnInv, BanksInv, TxShape, BufShape, ReceiveEmpty
    <3>2. CASE BusReset
      BY <3>2 DEF OwnInv, BanksInv, TxShape, BufShape, BusReset
    <3>. QED
      BY <1>1, <3>1, <3>2
  <2>3. BufShape'
    BY <2>1, <2>2 DEF OwnInv, BufShape
  <2>. QED
    BY <2>1, <2>3, StaysInPlace
<1>2. CASE SofFlush
  <2>1. BufShape'
    BY <1>2 DEF OwnInv, BufShape, SofFlush
  <2>2. CASE ser.noauto
    <3>1. Placement' = Placement
      BY <1>2, <2>2 DEF Placement, SofFlush
    <3>. QED
      BY <2>1, <3>1, StaysInPlace
  <2>3. CASE ~ser.noauto
    <3>1. ser.pkt # NoBuf /\ ser'.pkt = NoBuf /\ tx' = Sent(tx, ser.pkt)
      BY <1>2, <2>3 DEF SofFlush, FlushHasPacket
    <3>2. UNCHANGED <<mem, rxq>> /\ main'.pkt = main.pkt
      BY <1>2 DEF SofFlush
    <3>. QED
      BY <2>1, <3>1, <3>2, SendingMoves
  <2>. QED
    BY <2>2, <2>3
<1>. QED
  BY <1>1, <1>2

-----------------------------------------------------------------------------
(* SET_CONFIGURATION: whatever becomes of the buffers while the banks are  *)
(* emptied, those of the loop stay out of it, and a bank that is refilled  *)
(* gets a buffer that is nowhere else.                                     *)

\* What is kept of mem while the device is configured: it has the right
\* shape, and the buffers of the main loop are not in it.
Pool == Buffers \ {main.pkt, ser.pkt}
FreeInv(m) ==
  /\ MemShape(m) /\ m.avail \in SUBSET Pool /\ m.rx \in [Slots -> Pool \cup {NoBuf}]

LEMMA FreedKeeps ==
  ASSUME NEW m, FreeInv(m), NEW b \in Pool PROVE FreeInv(Freed(m, b))
<1>0. m = [rx |-> m.rx, needed |-> m.needed, avail |-> m.avail]
  BY DEF FreeInv, MemShape
<1>1. \/ Freed(m, b) = ToPool(m, b) \/ Freed(m, b) = ToPool(NoneNeeded(m), b)
      \/ (Freed(m, b) = Give(m, b) /\ Empties(m) # {})
  BY DEF Freed, Feed
<1>2. FreeInv(ToPool(m, b))
  BY <1>0 DEF FreeInv, MemShape, ToPool
<1>3. FreeInv(ToPool(NoneNeeded(m), b))
  <2>1. PICK k : k = NoneNeeded(m)
    OBVIOUS
  <2>2. k = [rx |-> m.rx, needed |-> 0, avail |-> m.avail]
    BY <1>0, <2>1 DEF NoneNeeded
  <2>3. ToPool(k, b) = [rx |-> m.rx, needed |-> 0, avail |-> m.avail \cup {b}]
    BY <2>2 DEF ToPool
  <2>. QED
    BY <2>1, <2>3 DEF FreeInv, MemShape
<1>4. FreeInv(Give(m, b))
  <2>1. PICK s : s = Min(Empties(m))
    OBVIOUS
  <2>a. PICK f, d, a : f = m.rx /\ d = m.needed /\ a = m.avail /\ m = [rx |-> f, needed |-> d, avail |-> a]
    BY <1>0
  <2>b. PICK n : n = Give(m, b)
    OBVIOUS
  <2>c. n = [m EXCEPT !.rx = [f EXCEPT ![s] = b], !.needed = (d - 1) % 256]
    BY <2>a, <2>b, <2>1 DEF Give
  <2>2. n = [rx |-> [f EXCEPT ![s] = b], needed |-> (d - 1) % 256, avail |-> a]
    BY <2>a, <2>c
  <2>3. [m.rx EXCEPT ![s] = b] \in [Slots -> Pool \cup {NoBuf}]
    BY DEF FreeInv
  <2>. QED
    BY <2>a, <2>b, <2>2, <2>3 DEF FreeInv, MemShape
<1>. QED
  BY <1>1, <1>2, <1>3, <1>4

LEMMA FreeOwnedKeeps ==
  ASSUME NEW m, FreeInv(m), NEW b \in Pool \cup {NoBuf} PROVE FreeInv(FreeOwned(m, b))
<1>1. CASE b = NoBuf
  BY <1>1 DEF FreeOwned
<1>2. CASE b \in Pool /\ b # NoBuf
  <2>1. FreeInv(Freed(m, b))
    BY <1>2, FreedKeeps
  <2>. QED
    BY <1>2, <2>1 DEF FreeOwned
<1>. QED
  BY <1>1, <1>2

\* What is in a bank or queue is not in the main loop's hands.
LEMMA OwnedApart ==
  ASSUME OwnInv
  PROVE  /\ FreeInv(mem) /\ \A k \in {0, 1} : tx.bank[k] \in Pool \cup {NoBuf}
         /\ Unqueued \in Seq(Pool)
<1>s. Shape
  BY Shapes
<1>0. PICK own, w : Owned(own, w) /\ w = Placement
  BY DEF OwnInv
<1>w. /\ w.rx = mem.rx /\ w.avail = mem.avail /\ w.bank = tx.bank /\ w.txq = tx.queue
      /\ w.rxq = rxq /\ w.main = main.pkt /\ w.ser = ser.pkt
  BY <1>0 DEF Placement
<1> USE <1>0, <1>w, SlotNumbers, BufferNumbers
<1>1. \A s \in Slots : mem.rx[s] \in Pool \cup {NoBuf}
  BY <1>s DEF Shape, Owned, Pool, InMain, InSer
<1>2. mem.avail \in SUBSET Pool
  BY <1>s DEF Shape, Owned, Pool, InMain, InSer, InPool
<1>3. \A k \in {0, 1} : tx.bank[k] \in Pool \cup {NoBuf}
  BY <1>s DEF Shape, Owned, Pool, InMain, InSer, InBank
<1>4. \A i \in 1..Len(tx.queue) : tx.queue[i] \in Pool
  BY <1>s DEF Shape, Owned, Pool, InMain, InSer, InTxq
<1>5. \A i \in 1..Len(rxq) : rxq[i] \in Pool
  BY <1>s DEF Shape, Owned, Pool, InMain, InSer, InRxq
<1>6. tx.queue \in Seq(Pool) /\ rxq \in Seq(Pool)
  <2>1. ASSUME NEW q \in Seq(Buffers), \A i \in 1..Len(q) : q[i] \in Pool PROVE q \in Seq(Pool)
    <3>1. Len(q) \in Nat /\ q = [i \in 1..Len(q) |-> q[i]]
      OBVIOUS
    <3>2. q \in [1..Len(q) -> Pool]
      BY <2>1, <3>1
    <3>. QED
      BY <3>1, <3>2
  <2>. QED
    BY <1>s, <1>4, <1>5, <2>1 DEF Shape
<1>7. Unqueued \in Seq(Pool)
  BY <1>6 DEF Unqueued
<1>8. FreeInv(mem)
  BY <1>s, <1>1, <1>2 DEF Shape, FreeInv
<1>. QED
  BY <1>3, <1>7, <1>8

LEMMA FreeBanksKeeps ==
  ASSUME OwnInv PROVE FreeInv(FreeBanks[2 * RxEps])
<1> DEFINE T == {n \in Nat : n <= 2 * RxEps => FreeInv(FreeBanks[n])}
<1>0. 2 * RxEps \in Nat /\ Slots = 1..(2 * RxEps)
  BY UsbAssumption DEF Slots
<1>1. 0 \in T
  <2>1. PICK m : m = FreeOwned(mem, tx.bank[0])
    OBVIOUS
  <2>2. FreeInv(m)
    BY <2>1, OwnedApart, FreeOwnedKeeps
  <2>3. FreeInv(FreeOwned(m, tx.bank[1]))
    BY <2>2, OwnedApart, FreeOwnedKeeps
  <2>4. FreeInv(FreeBanks[0])
    BY <2>1, <2>3, FreeBanksSteps
  <2>. QED
    BY <2>4
<1>2. ASSUME NEW n \in Nat, n \in T PROVE n + 1 \in T
  <2>1. SUFFICES ASSUME n + 1 <= 2 * RxEps PROVE FreeInv(FreeBanks[n + 1])
    OBVIOUS
  <2>2. PICK m : m = FreeBanks[n]
    OBVIOUS
  <2>3. FreeInv(m)
    BY <1>0, <1>2, <2>1, <2>2
  <2>4. n + 1 \in Slots
    BY <1>0, <2>1
  <2>5. FreeBanks[n + 1] = FreeOwned(m, m.rx[n + 1])
    BY <2>2, <2>4, FreeBanksSteps DEF FreeSlot
  <2>6. m.rx[n + 1] \in Pool \cup {NoBuf}
    BY <2>3, <2>4 DEF FreeInv
  <2>. QED
    BY <2>3, <2>5, <2>6, FreeOwnedKeeps
<1>3. \A n \in Nat : n \in T
  <2> HIDE DEF T
  <2>. QED
    BY <1>1, <1>2, NatSets
<1>. QED
  BY <1>0, <1>3

LEMMA FreeQueuesKeeps ==
  ASSUME OwnInv PROVE FreeInv(FreeQueues[Len(Unqueued)])
<1> DEFINE T == {n \in Nat : n <= Len(Unqueued) => FreeInv(FreeQueues[n])}
<1>0. Len(Unqueued) \in Nat /\ \A i \in 1..Len(Unqueued) : Unqueued[i] \in Pool
  BY OwnedApart
<1>1. 0 \in T
  BY <1>0, FreeBanksKeeps, FreeQueuesSteps
<1>2. ASSUME NEW n \in Nat, n \in T PROVE n + 1 \in T
  <2>1. SUFFICES ASSUME n + 1 <= Len(Unqueued) PROVE FreeInv(FreeQueues[n + 1])
    OBVIOUS
  <2>2. PICK m : m = FreeQueues[n]
    OBVIOUS
  <2>3. FreeInv(m)
    BY <1>0, <1>2, <2>1, <2>2
  <2>4. n + 1 \in 1..Len(Unqueued)
    BY <1>0, <2>1
  <2>5. FreeQueues[n + 1] = Freed(m, Unqueued[n + 1])
    BY <1>0, <2>2, <2>4, FreeQueuesSteps
  <2>6. Unqueued[n + 1] \in Pool
    BY <1>0, <2>4
  <2>. QED
    BY <2>3, <2>5, <2>6, FreedKeeps
<1>3. \A n \in Nat : n \in T
  <2> HIDE DEF T
  <2>. QED
    BY <1>1, <1>2, NatSets
<1>. QED
  BY <1>0, <1>3

\* The banks have been refilled up to some slot: the others keep theirs until
\* their turn, when they are overwritten.
UpTo(f, n) == [s \in Slots |-> IF s <= n THEN f[s] ELSE NoBuf]
Refilling(m, n) ==
  [rx |-> UpTo(m.rx, n), avail |-> m.avail, bank |-> [k \in {0, 1} |-> NoBuf],
   txq |-> <<>>, rxq |-> <<>>, main |-> main.pkt, ser |-> ser.pkt]
RefillInv(m, n) ==
  /\ MemShape(m) /\ m.rx \in [Slots -> Buffers \cup {NoBuf}]
  /\ \E own : Owned(own, Refilling(m, n))

LEMMA RefillStarts ==
  ASSUME OwnInv, NEW k, FreeInv(k), NEW m, m = NoneNeeded(k) PROVE RefillInv(m, 0)
<1>s. Shape
  BY Shapes
<1>1. m = [rx |-> k.rx, needed |-> 0, avail |-> k.avail]
  BY DEF FreeInv, MemShape, NoneNeeded
<1>2. MemShape(m) /\ m.rx \in [Slots -> Buffers \cup {NoBuf}] /\ m.avail \in SUBSET Pool
  BY <1>1 DEF MemShape, FreeInv, Pool
<1>3. PICK f : f = UpTo(m.rx, 0)
  OBVIOUS
<1>4. f \in [Slots -> Buffers \cup {NoBuf}] /\ \A s \in Slots : f[s] = NoBuf
  BY <1>3, SlotNumbers DEF UpTo
<1>5. PICK w : w = Refilling(m, 0)
  OBVIOUS
<1>6. /\ w.rx = f /\ w.avail = m.avail /\ w.txq = <<>> /\ w.rxq = <<>>
      /\ w.main = main.pkt /\ w.ser = ser.pkt /\ \A i \in {0, 1} : w.bank[i] = NoBuf
  BY <1>3, <1>5 DEF Refilling
<1>7. w \in Placements
  <2>1. PICK g : g = [i \in {0, 1} |-> NoBuf]
    OBVIOUS
  <2>2. g \in [{0, 1} -> Buffers \cup {NoBuf}]
    BY <2>1
  <2>3. w = [rx |-> f, avail |-> m.avail, bank |-> g, txq |-> <<>>, rxq |-> <<>>,
             main |-> main.pkt, ser |-> ser.pkt]
    BY <1>3, <1>5, <2>1 DEF Refilling
  <2>4. m.avail \in SUBSET Buffers
    BY <1>2 DEF Pool
  <2>. QED
    BY <1>s, <1>4, <2>2, <2>3, <2>4 DEF Shape, Placements
<1>8. main.pkt # NoBuf => main.pkt # ser.pkt
  <2>1. PICK own, v : Owned(own, v) /\ v = Placement
    BY DEF OwnInv
  <2>2. v.main = main.pkt /\ v.ser = ser.pkt
    BY <2>1 DEF Placement
  <2>. QED
    BY <2>1, <2>2 DEF Owned, InMain, InSer
<1>9. PICK own : own = [b \in Buffers |-> IF b = main.pkt THEN InMain
                                          ELSE IF b = ser.pkt THEN InSer ELSE InPool]
  OBVIOUS
<1>10. own \in [Buffers -> Int]
  BY <1>9 DEF InMain, InSer, InPool
<1>11. \A b \in w.avail : own[b] = InPool
  BY <1>2, <1>6, <1>9 DEF Pool
<1>12. /\ w.main # NoBuf => own[w.main] = InMain
       /\ w.ser # NoBuf => own[w.ser] = InSer
  BY <1>s, <1>6, <1>8, <1>9 DEF Shape
<1>13. Owned(own, w)
  BY <1>4, <1>6, <1>7, <1>10, <1>11, <1>12 DEF Owned
<1>. QED
  BY <1>2, <1>5, <1>13 DEF RefillInv

LEMMA RefillGoesOn ==
  ASSUME OwnInv, NEW n \in Nat, n + 1 \in Slots, NEW m, RefillInv(m, n), NEW k, k = Rearm(m, n + 1)
  PROVE  RefillInv(k, n + 1)
<1>0. /\ MemShape(m) /\ m.rx \in [Slots -> Buffers \cup {NoBuf}]
  BY DEF RefillInv
<1>1. PICK own, w : Owned(own, w) /\ w = Refilling(m, n)
  BY DEF RefillInv
<1>2. PICK s : s = n + 1 /\ s \in Slots
  OBVIOUS
<1>3. PICK j : j = [m EXCEPT !.rx = w.rx]
  OBVIOUS
<1>4. /\ j = [rx |-> w.rx, needed |-> m.needed, avail |-> m.avail] /\ MemShape(j)
      /\ w.rx = UpTo(m.rx, n) /\ w.avail = m.avail
  BY <1>0, <1>1, <1>3 DEF MemShape, Refilling
<1>5. w.rx \in [Slots -> Buffers \cup {NoBuf}] /\ w.rx[s] = NoBuf
  BY <1>1, <1>2, <1>4 DEF Owned, Placements, UpTo
<1>6. w.rx = [j.rx EXCEPT ![s] = NoBuf]
  BY <1>4, <1>5
<1>7. PICK i : i = Rearm(j, s)
  OBVIOUS
<1>8. MemShape(i) /\ Rearranged(w, WithMem(w, i))
  BY <1>1, <1>2, <1>4, <1>5, <1>6, <1>7, RearmPuts
<1>9. k.avail = i.avail /\ i.rx = UpTo(k.rx, s) /\ MemShape(k) /\ k.rx \in [Slots -> Buffers \cup {NoBuf}]
  <2>0. m = [rx |-> m.rx, needed |-> m.needed, avail |-> m.avail] /\ Free(j) = Free(m)
        /\ Malloc(j) = Malloc(m)
    BY <1>0, <1>4 DEF MemShape, Free, Malloc
  <2>1. ASSUME NEW c \in Buffers \cup {NoBuf}, NEW f, f = [m.rx EXCEPT ![s] = c], NEW g, g = [w.rx EXCEPT ![s] = c]
        PROVE  g = UpTo(f, s) /\ f \in [Slots -> Buffers \cup {NoBuf}]
    <3>1. /\ f \in [Slots -> Buffers \cup {NoBuf}] /\ g \in [Slots -> Buffers \cup {NoBuf}]
          /\ f[s] = c /\ g[s] = c
      BY <1>0, <1>2, <1>5, <2>1
    <3>2. ASSUME NEW t \in Slots PROVE g[t] = IF t <= s THEN f[t] ELSE NoBuf
      <4>1. CASE t = s
        BY <1>2, <3>1, <4>1, SlotNumbers
      <4>2. CASE t # s
        <5>1. g[t] = w.rx[t] /\ f[t] = m.rx[t]
          BY <1>0, <1>5, <2>1, <4>2
        <5>2. w.rx[t] = IF t <= n THEN m.rx[t] ELSE NoBuf
          BY <1>4 DEF UpTo
        <5>3. t <= n <=> t <= s
          BY <1>2, <4>2, SlotNumbers
        <5>. QED
          BY <5>1, <5>2, <5>3
      <4>. QED
        BY <4>1, <4>2
    <3>. QED
      BY <3>1, <3>2 DEF UpTo
  <2>2. CASE Free(m) = {}
    <3>1. k = [rx |-> [m.rx EXCEPT ![s] = NoBuf], needed |-> (m.needed + 1) % 256, avail |-> m.avail]
      BY <1>2, <2>0, <2>2 DEF Rearm
    <3>2. i = [rx |-> [w.rx EXCEPT ![s] = NoBuf], needed |-> (m.needed + 1) % 256, avail |-> m.avail]
      BY <1>4, <1>7, <2>0, <2>2 DEF Rearm
    <3>3. k.avail = i.avail /\ k.rx = [m.rx EXCEPT ![s] = NoBuf] /\ i.rx = [w.rx EXCEPT ![s] = NoBuf]
      BY <3>1, <3>2
    <3>4. MemShape(k)
      BY <3>1 DEF MemShape
    <3>. QED
      BY <2>1, <3>3, <3>4
  <2>3. CASE Free(m) # {}
    <3>0. PICK c : c = Malloc(m)
      OBVIOUS
    <3>a. c \in Buffers
      BY <2>3, <3>0 DEF Malloc, Free
    <3>1. k = [rx |-> [m.rx EXCEPT ![s] = c], needed |-> m.needed, avail |-> m.avail \ {c}]
      BY <1>2, <2>0, <2>3, <3>0 DEF Rearm
    <3>2. i = [rx |-> [w.rx EXCEPT ![s] = c], needed |-> m.needed, avail |-> m.avail \ {c}]
      BY <1>4, <1>7, <2>0, <2>3, <3>0 DEF Rearm
    <3>3. k.avail = i.avail /\ k.rx = [m.rx EXCEPT ![s] = c] /\ i.rx = [w.rx EXCEPT ![s] = c]
      BY <3>1, <3>2
    <3>4. MemShape(k)
      BY <3>1 DEF MemShape
    <3>. QED
      BY <2>1, <3>a, <3>3, <3>4
  <2>. QED
    BY <2>2, <2>3
<1>10. WithMem(w, i) = Refilling(k, s)
  BY <1>1, <1>9 DEF WithMem, Refilling
<1>. QED
  BY <1>2, <1>8, <1>9, <1>10 DEF RefillInv, Rearranged

LEMMA RefillFinds ==
  ASSUME OwnInv PROVE RefillInv(Refill[2 * RxEps], 2 * RxEps)
<1> DEFINE T == {n \in Nat : n <= 2 * RxEps => RefillInv(Refill[n], n)}
<1>0. 2 * RxEps \in Nat /\ Slots = 1..(2 * RxEps)
  BY UsbAssumption DEF Slots
<1>1. 0 \in T
  <2>1. FreeInv(FreeQueues[Len(Unqueued)]) /\ Refill[0] = NoneNeeded(FreeQueues[Len(Unqueued)])
    BY FreeQueuesKeeps, RefillSteps
  <2>2. RefillInv(Refill[0], 0)
    BY <2>1, RefillStarts
  <2>. QED
    BY <2>2
<1>2. ASSUME NEW n \in Nat, n \in T PROVE n + 1 \in T
  <2>1. SUFFICES ASSUME n + 1 <= 2 * RxEps PROVE RefillInv(Refill[n + 1], n + 1)
    OBVIOUS
  <2>2. PICK m : m = Refill[n]
    OBVIOUS
  <2>3. RefillInv(m, n)
    BY <1>0, <1>2, <2>1, <2>2
  <2>4. n + 1 \in Slots
    BY <1>0, <2>1
  <2>5. Refill[n + 1] = Rearm(m, n + 1)
    BY <2>2, <2>4, RefillSteps
  <2>. QED
    BY <2>3, <2>4, <2>5, RefillGoesOn
<1>3. \A n \in Nat : n \in T
  <2> HIDE DEF T
  <2>. QED
    BY <1>1, <1>2, NatSets
<1>. QED
  BY <1>0, <1>3

LEMMA Reconfigured ==
  ASSUME OwnInv, SetConfiguration PROVE BufShape' /\ \E own : Owned(own, Placement')
<1>1. PICK m : m = mem'
  OBVIOUS
<1>2. RefillInv(m, 2 * RxEps)
  BY <1>1, RefillFinds DEF SetConfiguration
<1>3. PICK own : Owned(own, Refilling(m, 2 * RxEps))
  BY <1>2 DEF RefillInv
<1>4. MemShape(m) /\ UpTo(m.rx, 2 * RxEps) = m.rx
  BY <1>2, UsbAssumption DEF RefillInv, UpTo, Slots
<1>5. rxq' = <<>> /\ UNCHANGED <<hw, buf, main, ser, used>>
  BY DEF SetConfiguration
<1>6. tx'.bank = [k \in {0, 1} |-> NoBuf] /\ tx'.queue = <<>>
  BY DEF SetConfiguration
<1>7. Placement' = Refilling(m, 2 * RxEps)
  BY <1>1, <1>4, <1>5, <1>6 DEF Placement, Refilling
<1>8. BufShape'
  BY <1>1, <1>4, <1>5 DEF OwnInv, BufShape
<1>. QED
  BY <1>3, <1>7, <1>8

-----------------------------------------------------------------------------
(* The theorems.                                                           *)

LEMMA OwnStep ==
  ASSUME OwnInv, UsbNext
  PROVE  OwnInv' /\ (SetConfiguration \/ Rearranged(Placement, Placement'))
<1>1. BanksInv'
  BY BanksStep DEF OwnInv
<1>2. \/ SetConfiguration /\ BufShape' /\ \E own : Owned(own, Placement')
      \/ BufShape' /\ Rearranged(Placement, Placement')
  <2>1. CASE Main \/ WriteStart
    BY <2>1, ReceivingMoves, PrintingMoves DEF Main
  <2>2. CASE Isr
    BY <2>2, ReceiveMoves, TransmitMoves, OthersMove, Reconfigured DEF Isr
  <2>. QED
    BY <2>1, <2>2 DEF UsbNext
<1>3. (\E own : Owned(own, Placement'))
  BY <1>2 DEF Rearranged
<1>4. (\E own : Owned(own, Placement))'
  BY <1>3
<1>. QED
  BY <1>1, <1>2, <1>4 DEF OwnInv

LEMMA OwnStays == OwnInv /\ UNCHANGED vars => OwnInv'
<1> SUFFICES ASSUME OwnInv, UNCHANGED vars PROVE OwnInv'
  OBVIOUS
<1>1. UNCHANGED <<conf, mem, rxq, tx, hw, buf, main, ser, used>>
  BY DEF vars
<1>2. BanksInv'
  BY BanksStep DEF OwnInv
<1>3. BufShape'
  BY <1>1 DEF OwnInv, BufShape
<1>4. Placement' = Placement
  BY <1>1 DEF Placement
<1>5. (\E own : Owned(own, Placement))'
  BY <1>4 DEF OwnInv
<1>. QED
  BY <1>2, <1>3, <1>5 DEF OwnInv

\* A place is known by its number and, in a queue, its index.
Code(p) ==
  CASE p[1] = "rx" -> p[2] [] p[1] = "tx" -> InBank(p[2]) [] p[1] = "txq" -> InTxq
    [] p[1] = "rxq" -> InRxq [] p[1] = "main" -> InMain [] p[1] = "ser" -> InSer
LEMMA PlaceCode ==
  ASSUME NEW own, NEW w, Owned(own, w), w = Placement, NEW p \in Places
  PROVE  At(p) \in Buffers \cup {NoBuf} /\ (At(p) # NoBuf => own[At(p)] = Code(p) /\ At(p) \notin mem.avail)
<1>w. /\ w.rx = mem.rx /\ w.avail = mem.avail /\ w.bank = tx.bank /\ w.txq = tx.queue
      /\ w.rxq = rxq /\ w.main = main.pkt /\ w.ser = ser.pkt
  BY DEF Placement
<1>v. w \in Placements
  BY DEF Owned
<1> USE <1>w, <1>v, SlotNumbers, BufferNumbers
    DEF Owned, Placements, At, Code, InPool, InBank, InTxq, InRxq, InMain, InSer
<1>1. CASE \E s \in Slots : p = <<"rx", s>>
  <2>1. PICK s \in Slots : p = <<"rx", s>>
    BY <1>1
  <2>2. At(p) = w.rx[s] /\ Code(p) = s
    BY <2>1
  <2> HIDE DEF At, Code
  <2>. QED
    BY <2>2
<1>2. CASE \E k \in {0, 1} : p = <<"tx", k>>
  BY <1>2
<1>3. CASE \E i \in DOMAIN rxq : p = <<"rxq", i>>
  <2>1. PICK i \in 1..Len(w.rxq) : p = <<"rxq", i>>
    BY <1>3
  <2>2. At(p) = w.rxq[i] /\ Code(p) = InRxq
    BY <2>1
  <2> HIDE DEF At, Code
  <2>. QED
    BY <2>2
<1>4. CASE \E i \in DOMAIN tx.queue : p = <<"txq", i>>
  <2>1. PICK i \in 1..Len(w.txq) : p = <<"txq", i>>
    BY <1>4
  <2>2. At(p) = w.txq[i] /\ Code(p) = InTxq
    BY <2>1
  <2> HIDE DEF At, Code
  <2>. QED
    BY <2>2
<1>5. CASE p = <<"main", 0>>
  BY <1>5
<1>6. CASE p = <<"ser", 0>>
  BY <1>6
<1>. QED
  BY <1>1, <1>2, <1>3, <1>4, <1>5, <1>6 DEF Places

LEMMA PlacesDiffer ==
  ASSUME NEW own, NEW w, Owned(own, w), w = Placement, NEW p \in Places, NEW q \in Places, p # q,
         At(p) # NoBuf, At(p) = At(q)
  PROVE  FALSE
<1>1. Code(p) = Code(q)
  BY PlaceCode
<1>w. /\ w.rx = mem.rx /\ w.bank = tx.bank /\ w.txq = tx.queue /\ w.rxq = rxq
  BY DEF Placement
<1>v. w.txq \in Seq(Buffers) /\ w.rxq \in Seq(Buffers)
  BY DEF Owned, Placements
<1>q. /\ \A x \in Places : x[1] = "txq" => \E i \in DOMAIN tx.queue : x = <<"txq", i>>
      /\ \A x \in Places : x[1] = "rxq" => \E i \in DOMAIN rxq : x = <<"rxq", i>>
  <2> SUFFICES ASSUME NEW x \in Places
               PROVE  /\ x[1] = "txq" => \E i \in DOMAIN tx.queue : x = <<"txq", i>>
                      /\ x[1] = "rxq" => \E i \in DOMAIN rxq : x = <<"rxq", i>>
    OBVIOUS
  <2>1. \/ \E s \in Slots : x = <<"rx", s>>
        \/ \E k \in {0, 1} : x = <<"tx", k>>
        \/ \E i \in DOMAIN rxq : x = <<"rxq", i>>
        \/ \E i \in DOMAIN tx.queue : x = <<"txq", i>>
        \/ x = <<"main", 0>>
        \/ x = <<"ser", 0>>
    BY DEF Places
  <2>. QED
    BY <2>1
<1> USE SlotNumbers DEF Code, InBank, InTxq, InRxq, InMain, InSer
<1>2. p[1] = q[1]
  BY <1>1 DEF Places
<1>3. p[1] \in {"rx", "tx", "main", "ser"} => p = q
  BY <1>1, <1>2 DEF Places
<1>4. CASE p[1] = "txq"
  <2>1. PICK i, j \in 1..Len(w.txq) : p = <<"txq", i>> /\ q = <<"txq", j>>
    <3>1. (\E i \in DOMAIN tx.queue : p = <<"txq", i>>) /\ \E j \in DOMAIN tx.queue : q = <<"txq", j>>
      BY <1>2, <1>4, <1>q
    <3>. QED
      BY <3>1, <1>w, <1>v
  <2>2. w.txq[i] = w.txq[j]
    BY <1>w, <2>1 DEF At
  <2>. QED
    BY <2>1, <2>2 DEF Owned
<1>5. CASE p[1] = "rxq"
  <2>1. PICK i, j \in 1..Len(w.rxq) : p = <<"rxq", i>> /\ q = <<"rxq", j>>
    <3>1. (\E i \in DOMAIN rxq : p = <<"rxq", i>>) /\ \E j \in DOMAIN rxq : q = <<"rxq", j>>
      BY <1>2, <1>5, <1>q
    <3>. QED
      BY <3>1, <1>w, <1>v
  <2>2. w.rxq[i] = w.rxq[j]
    BY <1>w, <2>1 DEF At
  <2>. QED
    BY <2>1, <2>2 DEF Owned
<1>. QED
  BY <1>3, <1>4, <1>5 DEF Places

LEMMA OwnOne == OwnInv => OneOwner
<1> SUFFICES ASSUME OwnInv PROVE OneOwner
  OBVIOUS
<1>1. PICK own, w : Owned(own, w) /\ w = Placement
  BY DEF OwnInv
<1>2. mem.avail \subseteq Buffers
  BY Shapes DEF Shape
<1>. QED
  BY <1>1, <1>2, PlaceCode, PlacesDiffer, BufferNumbers DEF OneOwner

HeldAreSomewhere == \A c : c \in Held <=> c \in Buffers /\ SomewhereIn(Placement, c)
LEMMA HeldIs == OwnInv => HeldAreSomewhere
<1> SUFFICES ASSUME OwnInv, NEW c PROVE c \in Held <=> c \in Buffers /\ SomewhereIn(Placement, c)
  BY DEF HeldAreSomewhere
<1>s. Shape
  BY Shapes
<1>1. /\ c \in Range(tx.queue) <=> \E i \in 1..Len(tx.queue) : c = tx.queue[i]
      /\ c \in Range(rxq) <=> \E i \in 1..Len(rxq) : c = rxq[i]
      /\ c \in Range(mem.rx) <=> \E s \in Slots : c = mem.rx[s]
  <2>1. DOMAIN tx.queue = 1..Len(tx.queue) /\ DOMAIN rxq = 1..Len(rxq) /\ DOMAIN mem.rx = Slots
    BY <1>s DEF Shape
  <2>2. \A f : c \in Range(f) <=> \E x \in DOMAIN f : c = f[x]
    BY DEF Range
  <2>. QED
    BY <2>1, <2>2
<1>2. SomewhereIn(Placement, c) <=>
        \/ c \in mem.avail \/ c = main.pkt \/ c = ser.pkt \/ c = tx.bank[0] \/ c = tx.bank[1]
        \/ c \in Range(mem.rx) \/ c \in Range(tx.queue) \/ c \in Range(rxq)
  BY <1>1 DEF SomewhereIn, Placement
<1>3. c \in Held <=> c # NoBuf /\ SomewhereIn(Placement, c)
  BY <1>2 DEF Held
<1>4. SomewhereIn(Placement, c) => c \in Buffers \cup {NoBuf}
  BY <1>s, <1>1, <1>2 DEF Shape
<1>. QED
  BY <1>3, <1>4, BufferNumbers

LEMMA NoneAreLost ==
  ASSUME OwnInv, OwnInv', Rearranged(Placement, Placement') PROVE Held \subseteq Held'
<1>1. ASSUME NEW c \in Held PROVE c \in Held'
  <2>1. c \in Buffers /\ SomewhereIn(Placement, c)
    BY HeldIs DEF HeldAreSomewhere
  <2>2. SomewhereIn(Placement', c)
    BY <2>1 DEF Rearranged, NoneLost
  <2>3. HeldAreSomewhere'
    BY HeldIs, PTL
  <2>. QED
    BY <2>1, <2>2, <2>3 DEF HeldAreSomewhere
<1>. QED
  BY <1>1

(***************************************************************************)
(* A packet buffer is in one place, whatever the interrupt does between two *)
(* steps of the loop, and whatever SET_CONFIGURATION finds and hands out   *)
(* again, in the order of the tables.                                      *)
(***************************************************************************)
THEOREM BuffersHaveOneOwner == UsbSpec => []OneOwner
<1>1. UsbInit => OwnInv
  BY OwnInitially
<1>2. OwnInv /\ [UsbNext]_vars => OwnInv'
  BY OwnStep, OwnStays
<1>. QED
  BY <1>1, <1>2, OwnOne, PTL DEF UsbSpec

(***************************************************************************)
(* A buffer that is somewhere stays somewhere: only SET_CONFIGURATION can  *)
(* lose buffers.                                                           *)
(***************************************************************************)
THEOREM BuffersAreKept == UsbSpec => BuffersKept
<1>1. UsbInit => OwnInv
  BY OwnInitially
<1>2. OwnInv /\ [UsbNext]_vars => OwnInv'
  BY OwnStep, OwnStays
<1>3. OwnInv /\ OwnInv' /\ [UsbNext]_vars => [SetConfiguration \/ Held \subseteq Held']_vars
  BY OwnStep, NoneAreLost
<1>. QED
  BY <1>1, <1>2, <1>3, PTL DEF UsbSpec, BuffersKept

-----------------------------------------------------------------------------
(* The pipe.                                                               *)

\* What is in some buffers.
Contents(q, f) == [i \in DOMAIN q |-> f[q[i]]]
LEMMA ContentsSeq ==
  ASSUME NEW q \in Seq(Buffers), NEW f \in [Buffers -> Nat]
  PROVE  Contents(q, f) \in Seq(Nat) /\ Len(Contents(q, f)) = Len(q)
<1>1. PICK c : c = Contents(q, f)
  OBVIOUS
<1>2. c \in [1..Len(q) -> Nat] /\ Len(q) \in Nat
  BY <1>1 DEF Contents
<1>3. c \in Seq(Nat) /\ Len(c) = Len(q)
  BY <1>2
<1>. QED
  BY <1>1, <1>3

\* A packet that comes in.
Grown(q, f, b, n, g) ==
  Contents(Append(q, b), g) = Append(Contents(q, f), n) /\ Contents(q, g) = Contents(q, f)
Without(q, b) == \A i \in 1..Len(q) : q[i] # b
LEMMA ContentsGrow ==
  ASSUME NEW q \in Seq(Buffers), NEW f \in [Buffers -> Nat], NEW b \in Buffers, NEW n \in Nat,
         Without(q, b), NEW g, g = [f EXCEPT ![b] = n]
  PROVE  Grown(q, f, b, n, g)
<1>1. g \in [Buffers -> Nat]
  OBVIOUS
<1>2. Append(q, b) \in Seq(Buffers) /\ Len(Append(q, b)) = Len(q) + 1 /\ Len(q) \in Nat
  OBVIOUS
<1>3. PICK c, d, e : /\ c = Contents(q, f) /\ d = Contents(Append(q, b), g) /\ e = Contents(q, g)
  OBVIOUS
<1>4. /\ c \in Seq(Nat) /\ Len(c) = Len(q) /\ d \in Seq(Nat) /\ Len(d) = Len(q) + 1
      /\ e \in Seq(Nat) /\ Len(e) = Len(q)
  BY <1>1, <1>2, <1>3, ContentsSeq
<1>5. \A i \in 1..Len(q) : q[i] \in Buffers
  OBVIOUS
<1>6. \A i \in 1..Len(q) : d[i] = c[i] /\ e[i] = c[i]
  <2>1. ASSUME NEW i \in 1..Len(q) PROVE d[i] = c[i] /\ e[i] = c[i]
    <3>1. Append(q, b)[i] = q[i] /\ g[q[i]] = f[q[i]]
      BY <1>5, <2>1 DEF Without
    <3>2. i \in DOMAIN q /\ i \in DOMAIN Append(q, b)
      BY <1>2, <2>1
    <3>. QED
      BY <1>3, <3>1, <3>2 DEF Contents
  <2>. QED
    BY <2>1
<1>7. d[Len(q) + 1] = n
  <2>1. Append(q, b)[Len(q) + 1] = b /\ Len(q) + 1 \in DOMAIN Append(q, b) /\ g[b] = n
    BY <1>2
  <2>. QED
    BY <1>3, <2>1 DEF Contents
<1>8. d = Append(c, n)
  BY <1>4, <1>6, <1>7
<1>9. e = c
  BY <1>4, <1>6, SeqEqual
<1>. QED
  BY <1>3, <1>8, <1>9 DEF Grown

\* A packet that is taken.
LEMMA ContentsTail ==
  ASSUME NEW q \in Seq(Buffers), q # <<>>, NEW f \in [Buffers -> Nat]
  PROVE  /\ <<f[Head(q)]>> \o Contents(Tail(q), f) = Contents(q, f)
         /\ f[Head(q)] \in Nat
<1>1. Tail(q) \in Seq(Buffers) /\ Len(Tail(q)) = Len(q) - 1 /\ Len(q) \in Nat \ {0} /\ Head(q) \in Buffers
  OBVIOUS
<1>2. PICK c, d, h : c = Contents(q, f) /\ d = Contents(Tail(q), f) /\ h = f[Head(q)]
  OBVIOUS
<1>3. /\ c \in Seq(Nat) /\ Len(c) = Len(q) /\ d \in Seq(Nat) /\ Len(d) = Len(q) - 1 /\ h \in Nat
  BY <1>1, <1>2, ContentsSeq
<1>4. c[1] = h
  BY <1>1, <1>2 DEF Contents
<1>5. \A i \in 1..Len(d) : d[i] = c[i + 1]
  <2>1. ASSUME NEW i \in 1..Len(d) PROVE d[i] = c[i + 1]
    <3>1. i \in DOMAIN Tail(q) /\ i + 1 \in DOMAIN q /\ Tail(q)[i] = q[i + 1]
      BY <1>1, <1>3
    <3>. QED
      BY <1>2, <3>1 DEF Contents
  <2>. QED
    BY <2>1
<1>6. <<h>> \o d = c
  <2>1. PICK e : e = <<h>> \o d
    OBVIOUS
  <2>a. <<h>> \in Seq(Nat) /\ Len(<<h>>) = 1 /\ <<h>>[1] = h
    BY <1>3
  <2>b. PICK x : x = <<h>> /\ x \in Seq(Nat) /\ Len(x) = 1 /\ x[1] = h
    BY <2>a
  <2>c. e = x \o d /\ e \in Seq(Nat) /\ Len(e) = 1 + Len(d)
    BY <1>3, <2>1, <2>b, ConcatProperties
  <2>d. \A i \in 1..Len(e) : e[i] = IF i <= 1 THEN x[i] ELSE d[i - 1]
    BY <1>3, <2>b, <2>c, ConcatProperties
  <2>2. e \in Seq(Nat) /\ Len(e) = Len(c) /\ e[1] = h /\ \A i \in 1..Len(d) : e[i + 1] = d[i]
    <3>1. Len(d) \in Nat /\ \A i \in 1..Len(d) : 1 + i = i + 1
      BY <1>3
    <3>2. e[1] = h
      BY <2>b, <2>c, <2>d, <3>1
    <3>3. ASSUME NEW i \in 1..Len(d) PROVE e[i + 1] = d[i]
      <4>1. PICK k : k = i + 1 /\ k \in 1..Len(e) /\ k - 1 = i /\ ~(k <= 1)
        BY <2>c, <3>1, <3>3
      <4>2. e[k] = d[k - 1]
        BY <2>d, <4>1
      <4>3. e[k] = d[i]
        BY <4>1, <4>2
      <4>. QED
        BY <4>1, <4>3
    <3>4. \A i \in 1..Len(d) : e[i + 1] = d[i]
      BY <3>3
    <3>5. Len(e) = Len(c)
      BY <1>1, <1>3, <2>c
    <3>. QED
      BY <2>c, <3>2, <3>4, <3>5
  <2>3. \A i \in 1..Len(c) : e[i] = c[i]
    <3>1. ASSUME NEW i \in 1..Len(c), i # 1 PROVE e[i] = c[i]
      <4>1. i - 1 \in 1..Len(d) /\ (i - 1) + 1 = i
        BY <1>1, <1>3, <3>1
      <4>. QED
        BY <1>5, <2>2, <4>1
    <3>. QED
      BY <1>4, <2>2, <3>1
  <2>4. e = c
    BY <1>3, <2>2, <2>3, SeqEqual
  <2>. QED
    BY <2>1, <2>4
<1>. QED
  BY <1>2, <1>3, <1>6

Queue == InHand \o [i \in DOMAIN rxq |-> buf[rxq[i]]]
LEMMA QueueIs ==
  OwnInv => /\ Queue = InHand \o Contents(rxq, buf)
            /\ InHand \in Seq(Nat) /\ Contents(rxq, buf) \in Seq(Nat)
            /\ Len(Contents(rxq, buf)) = Len(rxq) /\ rxq \in Seq(Buffers) /\ buf \in [Buffers -> Nat]
<1> SUFFICES ASSUME OwnInv
             PROVE  /\ Queue = InHand \o Contents(rxq, buf)
                    /\ InHand \in Seq(Nat) /\ Contents(rxq, buf) \in Seq(Nat)
                    /\ Len(Contents(rxq, buf)) = Len(rxq) /\ rxq \in Seq(Buffers) /\ buf \in [Buffers -> Nat]
  OBVIOUS
<1>1. Shape /\ buf \in [Buffers -> Nat]
  BY Shapes DEF OwnInv, BufShape
<1>2. Queue = InHand \o Contents(rxq, buf)
  BY DEF Queue, Contents
<1>3. InHand \in Seq(Nat)
  <2>1. CASE main.at = "copy"
    <3>1. buf[main.pkt] \in Nat
      BY <1>1, <2>1 DEF Shape, Holding
    <3>. QED
      BY <2>1, <3>1 DEF InHand
  <2>2. CASE main.at # "copy"
    BY <2>2 DEF InHand
  <2>. QED
    BY <2>1, <2>2
<1>. QED
  BY <1>1, <1>2, <1>3, ContentsSeq DEF Shape

\* A buffer that is in a bank or free is not among those of the pipe.
LEMMA NotInPipe ==
  ASSUME OwnInv, NEW b \in Buffers, b \in mem.avail \/ \E s \in Slots : b = mem.rx[s]
  PROVE  b # main.pkt /\ \A i \in 1..Len(rxq) : rxq[i] # b
<1>1. PICK own, w : Owned(own, w) /\ w = Placement
  BY DEF OwnInv
<1>2. /\ w.rx = mem.rx /\ w.avail = mem.avail /\ w.rxq = rxq /\ w.main = main.pkt
  BY <1>1 DEF Placement
<1>3. own[b] = InPool \/ own[b] \in Slots
  BY <1>1, <1>2, BufferNumbers DEF Owned
<1>4. own[b] # InMain /\ own[b] # InRxq
  BY <1>3, SlotNumbers DEF InMain, InRxq, InPool
<1>. QED
  BY <1>1, <1>2, <1>4, BufferNumbers DEF Owned

Pipe(n) ==
  \/ used'.out = used.out + 1 /\ n = Append(Queue, used'.out) /\ main'.got = main.got
  \/ Queue # <<>> /\ main'.got = Head(Queue) /\ n = Tail(Queue) /\ used'.out = used.out
  \/ (\E i \in 0..Len(Queue) : n = SubSeq(Queue, 1, i)) /\ used'.out = used.out /\ main'.got = main.got
  \/ n = Queue /\ used'.out = used.out /\ main'.got = main.got

LEMMA ReceivePipe == ASSUME OwnInv, Receive PROVE Pipe(Queue')
<1>s. Shape /\ used.out \in Nat /\ hw.rx \in {0, 1}
  BY Shapes DEF OwnInv, BufShape
<1>1. PICK s, b : s = RawHid + hw.rx /\ b = mem.rx[s]
  OBVIOUS
<1>2. s \in Slots /\ b \in Buffers
  <2>1. RxEps \in Nat \ {0} /\ (hw.rx = 0 \/ hw.rx = 1)
    BY <1>s, UsbAssumption
  <2>2. s \in Slots
    BY <1>1, <2>1 DEF RawHid, Slots
  <2>. QED
    BY <1>s, <1>1, <2>2 DEF Shape, Receive
<1>3. b # main.pkt /\ \A i \in 1..Len(rxq) : rxq[i] # b
  BY <1>1, <1>2, NotInPipe
<1>4. PICK g, n : g = [buf EXCEPT ![b] = n] /\ n = used.out + 1
  OBVIOUS
<1>5. buf' = g /\ rxq' = Append(rxq, b) /\ main' = main /\ used'.out = n /\ n \in Nat
  <2>1. used' = [out |-> used.out + 1, empty |-> used.empty, in |-> used.in,
                 writes |-> used.writes, resets |-> used.resets, taken |-> used.taken]
    BY DEF OwnInv, BanksInv, TxShape, Receive
  <2>. QED
    BY <1>s, <1>1, <1>4, <2>1 DEF Receive
<1>6. InHand' = InHand
  BY <1>s, <1>3, <1>4, <1>5 DEF InHand, Shape, Holding, OwnInv, BufShape
<1>7. Contents(rxq', g) = Append(Contents(rxq, buf), n)
  <2>1. PICK q, f : q = rxq /\ f = buf /\ q \in Seq(Buffers) /\ f \in [Buffers -> Nat]
    BY QueueIs
  <2>2. g = [f EXCEPT ![b] = n] /\ Without(q, b)
    BY <1>3, <1>4, <2>1 DEF Without
  <2>3. Grown(q, f, b, n, g)
    BY <1>2, <1>5, <2>1, <2>2, ContentsGrow
  <2>. QED
    BY <1>5, <2>1, <2>3 DEF Grown
<1>8. Queue' = InHand \o Append(Contents(rxq, buf), n)
  BY <1>5, <1>6, <1>7 DEF Queue, Contents
<1>9. ASSUME NEW h \in Seq(Nat), NEW c \in Seq(Nat), NEW x \in Nat PROVE h \o Append(c, x) = Append(h \o c, x)
  OBVIOUS
<1>10. Queue' = Append(Queue, n)
  BY <1>5, <1>8, <1>9, QueueIs
<1>. QED
  BY <1>4, <1>5, <1>10 DEF Pipe

LEMMA TakePipe == ASSUME OwnInv, RecvTake \/ RecvCopy PROVE Pipe(Queue')
<1>s. Shape
  BY Shapes
<1>1. CASE RecvTake
  <2>1. PICK f : f = buf
    OBVIOUS
  <2>2. <<f[Head(rxq)]>> \o Contents(Tail(rxq), f) = Contents(rxq, f)
    BY <1>1, <2>1, QueueIs, ContentsTail DEF RecvTake
  <2>3. Queue = Contents(rxq, f)
    <3>1. InHand = <<>>
      BY <1>1 DEF InHand, RecvTake, Idle
    <3>. QED
      BY <2>1, <3>1, QueueIs
  <2>4. main' = [at |-> "copy", pkt |-> Head(rxq), got |-> main.got, left |-> main.left]
    BY <1>s, <1>1 DEF Shape, RecvTake
  <2>5. InHand' = <<f[Head(rxq)]>> /\ rxq' = Tail(rxq) /\ buf' = f
    BY <1>1, <2>1, <2>4 DEF InHand, RecvTake
  <2>6. Queue' = Contents(rxq, f)
    BY <2>2, <2>5 DEF Queue, Contents
  <2>. QED
    BY <1>1, <2>3, <2>4, <2>6 DEF Pipe, RecvTake
<1>2. CASE RecvCopy
  <2>1. PICK c, x : c = Contents(rxq, buf) /\ x = buf[main.pkt]
    OBVIOUS
  <2>2. Queue = <<x>> \o c /\ c \in Seq(Nat) /\ x \in Nat
    <3>1. main.pkt \in Buffers /\ InHand = <<x>>
      BY <1>s, <1>2, <2>1 DEF InHand, RecvCopy, Shape, Holding
    <3>. QED
      BY <2>1, <3>1, QueueIs
  <2>3. main' = [at |-> "check", pkt |-> main.pkt, got |-> x, left |-> main.left]
    BY <1>s, <1>2, <2>1 DEF Shape, RecvCopy
  <2>4. InHand' = <<>> /\ rxq' = rxq /\ buf' = buf /\ used' = used
    BY <1>2, <2>3 DEF InHand, RecvCopy
  <2>5. Queue' = <<>> \o c
    BY <2>1, <2>4 DEF Queue, Contents
  <2>6. Queue # <<>> /\ Head(Queue) = x /\ Tail(Queue) = c /\ <<>> \o c = c
    BY <2>2
  <2>. QED
    BY <2>3, <2>4, <2>5, <2>6 DEF Pipe
<1>. QED
  BY <1>1, <1>2

\* The other steps leave the pipe as it is.
LEMMA StillPipe ==
  ASSUME rxq' = rxq, buf' = buf, main'.at # "copy", main.at # "copy", main'.got = main.got,
         used'.out = used.out
  PROVE  Pipe(Queue')
<1>1. InHand' = <<>> /\ InHand = <<>>
  BY DEF InHand
<1>2. Queue' = Queue
  BY <1>1 DEF Queue
<1>. QED
  BY <1>2 DEF Pipe

LEMMA SamePipe ==
  ASSUME rxq' = rxq, buf' = buf, main' = main, used'.out = used.out PROVE Pipe(Queue')
<1>1. InHand' = InHand
  BY DEF InHand
<1>2. Queue' = Queue
  BY <1>1 DEF Queue
<1>. QED
  BY <1>2 DEF Pipe

LEMMA PrintPipe == ASSUME OwnInv, WriteNew PROVE Pipe(Queue')
<1>s. Shape
  BY Shapes
<1>1. PICK b, n : b = Malloc(mem) /\ n = used.in + 1
  OBVIOUS
<1>2. b \in Buffers /\ b \in mem.avail
  BY <1>1 DEF WriteNew, CanAllocate, Malloc, Free
<1>3. \A i \in 1..Len(rxq) : rxq[i] # b
  BY <1>2, NotInPipe
<1>4. PICK g : g = [buf EXCEPT ![b] = n]
  OBVIOUS
<1>5. n \in Nat /\ buf' = g /\ rxq' = rxq
  BY <1>1, <1>4 DEF OwnInv, BufShape, WriteNew, KeepRx
<1>6. Contents(rxq, g) = Contents(rxq, buf)
  <2>1. PICK q, f : q = rxq /\ f = buf /\ q \in Seq(Buffers) /\ f \in [Buffers -> Nat]
    BY QueueIs
  <2>2. g = [f EXCEPT ![b] = n] /\ Without(q, b)
    BY <1>3, <1>4, <2>1 DEF Without
  <2>3. Grown(q, f, b, n, g)
    BY <1>2, <1>5, <2>1, <2>2, ContentsGrow
  <2>. QED
    BY <2>1, <2>3 DEF Grown
<1>7. main' = [at |-> "fill", pkt |-> main.pkt, got |-> main.got, left |-> main.left] /\ main.at = "write"
  BY <1>s DEF Shape, WriteNew
<1>8. InHand' = <<>> /\ InHand = <<>>
  BY <1>7 DEF InHand
<1>9. Queue' = Queue
  BY <1>5, <1>6, <1>8 DEF Queue, Contents
<1>10. used'.out = used.out
  BY DEF OwnInv, BanksInv, TxShape, WriteNew
<1>. QED
  BY <1>7, <1>9, <1>10 DEF Pipe

LEMMA ConfigurePipe == ASSUME OwnInv, SetConfiguration PROVE Pipe(Queue')
<1>1. rxq' = <<>> /\ UNCHANGED <<buf, main, used>>
  BY DEF SetConfiguration
<1>2. PICK h, c : h = InHand /\ c = Contents(rxq, buf)
  OBVIOUS
<1>3. Queue = h \o c /\ h \in Seq(Nat) /\ c \in Seq(Nat)
  BY <1>2, QueueIs
<1>4. InHand' = h
  BY <1>1, <1>2 DEF InHand
<1>5. Queue' = h
  <2>1. [i \in DOMAIN rxq' |-> buf'[rxq'[i]]] = <<>>
    BY <1>1
  <2>2. Queue' = h \o <<>>
    BY <1>4, <2>1 DEF Queue
  <2>. QED
    BY <1>3, <2>2
<1>6. SubSeq(Queue, 1, Len(h)) = h /\ Len(h) \in 0..Len(Queue)
  BY <1>3
<1>. QED
  BY <1>1, <1>5, <1>6 DEF Pipe

LEMMA PipeSteps == ASSUME OwnInv, [UsbNext]_vars PROVE Pipe(Queue')
<1>s. Shape
  BY Shapes
<1>u. used = [out |-> used.out, empty |-> used.empty, in |-> used.in, writes |-> used.writes,
              resets |-> used.resets, taken |-> used.taken]
  BY DEF OwnInv, BanksInv, TxShape
<1>1. CASE FreeCheck \/ FreeFeed \/ FreeZero \/ FreePool
  <2>1. rxq' = rxq /\ buf' = buf /\ used' = used /\ main.at # "copy"
    BY <1>1 DEF FreeCheck, FreeFeed, FreeZero, FreePool, KeepIsr
  <2>2. main'.at # "copy" /\ main'.got = main.got
    BY <1>s, <1>1 DEF Shape, FreeCheck, FreeFeed, FreeZero, FreePool, Dropped
  <2>. QED
    BY <2>1, <2>2, StillPipe
<1>2. CASE WriteStart \/ WriteOld \/ WriteWait \/ WriteGivesUp \/ WriteFill \/ WriteSend
  <2>1. rxq' = rxq /\ buf' = buf
    BY <1>2
    DEF WriteStart, WriteOld, WriteWait, WriteGivesUp, WriteFill, WriteSend, WriteEnds, KeepRx
  <2>2. used'.out = used.out /\ main.at # "copy"
    BY <1>2, <1>u
    DEF WriteStart, WriteOld, WriteWait, WriteGivesUp, WriteFill, WriteSend, WriteEnds, Idle
  <2>3. main'.at # "copy" /\ main'.got = main.got
    BY <1>s, <1>2
    DEF Shape, WriteStart, WriteOld, WriteWait, WriteGivesUp, WriteFill, WriteSend, WriteEnds
  <2>. QED
    BY <2>1, <2>2, <2>3, StillPipe
<1>3. CASE ReceiveEmpty \/ Transmit \/ SofFlush \/ BusReset \/ UNCHANGED vars
  <2>1. rxq' = rxq /\ buf' = buf /\ main' = main
    BY <1>3 DEF ReceiveEmpty, Transmit, SofFlush, BusReset, vars
  <2>2. used'.out = used.out
    BY <1>3, <1>u DEF ReceiveEmpty, Transmit, SofFlush, BusReset, vars
  <2>. QED
    BY <2>1, <2>2, SamePipe
<1>. QED
  BY <1>1, <1>2, <1>3, ReceivePipe, TakePipe, PrintPipe, ConfigurePipe DEF UsbNext, Main, Isr

(***************************************************************************)
(* The raw HID endpoint is the pipe of UsbPipe: what the host sends comes  *)
(* out of usb_rawhid_recv in order, once, and as it was sent, and only     *)
(* SET_CONFIGURATION discards packets, those that are still queued.        *)
(***************************************************************************)
THEOREM ReceivedInOrder == UsbSpec => Received
<1>1. UsbInit => OwnInv
  BY OwnInitially
<1>2. OwnInv /\ [UsbNext]_vars => OwnInv'
  BY OwnStep, OwnStays
<1>3. UsbInit => RxPipe!PipeInit
  <2> SUFFICES ASSUME UsbInit PROVE RxPipe!PipeInit
    OBVIOUS
  <2>1. InHand = <<>> /\ rxq = <<>> /\ used.out = 0 /\ main.got = 0
    BY DEF UsbInit, InHand
  <2>2. Queue = <<>>
    <3>1. [i \in DOMAIN rxq |-> buf[rxq[i]]] = <<>>
      BY <2>1
    <3>. QED
      BY <2>1, <3>1 DEF Queue
  <2>. QED
    BY <2>1, <2>2 DEF RxPipe!PipeInit, Queue
<1>4. OwnInv /\ [UsbNext]_vars =>
        [RxPipe!Accept \/ RxPipe!Take \/ RxPipe!Discard]_<<used.out, Queue, main.got>>
  <2> SUFFICES ASSUME OwnInv, [UsbNext]_vars
      PROVE [RxPipe!Accept \/ RxPipe!Take \/ RxPipe!Discard]_<<used.out, Queue, main.got>>
    OBVIOUS
  <2>1. Pipe(Queue')
    BY PipeSteps
  <2>. QED
    BY <2>1 DEF Pipe, RxPipe!Accept, RxPipe!Take, RxPipe!Discard, Queue
<1>5. [][RxPipe!Accept \/ RxPipe!Take \/ RxPipe!Discard]_<<used.out, Queue, main.got>> /\ RxPipe!PipeInit
        => Received
  BY DEF Received, RxPipe!PipeSpec, Queue
<1>. QED
  BY <1>1, <1>2, <1>3, <1>4, <1>5, PTL DEF UsbSpec

-----------------------------------------------------------------------------
(* The control endpoint and the rest of the device.                        *)

(***************************************************************************)
(* With its control endpoint the device is still the device: what the host *)
(* asks for changes the rest of it only by SET_CONFIGURATION and resets.   *)
(***************************************************************************)
THEOREM ControlImplementsDevice == ControlSpec => UsbSpec
<1>1. ControlInit => UsbInit
  BY DEF ControlInit
<1>2. [ControlNext]_<<vars, ctl>> => [UsbNext]_vars
  <2>1. ASSUME NEW r \in Requests, HostSetup(r) PROVE [UsbNext]_vars
    BY <2>1 DEF HostSetup, UsbNext, Isr
  <2>2. ASSUME HostStalled \/ HostIn \/ HostOut PROVE [UsbNext]_vars
    BY <2>2 DEF HostStalled, HostIn, HostOut, vars
  <2>3. ASSUME Loop \/ Endpoints \/ ResetControl PROVE [UsbNext]_vars
    BY <2>3 DEF Loop, Endpoints, ResetControl, UsbNext, Isr
  <2>. QED
    BY <2>1, <2>2, <2>3 DEF ControlNext, Transfers
<1>. QED
  BY <1>1, <1>2, PTL DEF ControlSpec, UsbSpec

(***************************************************************************)
(* Hence what is proved of the device alone holds of the device with its   *)
(* control endpoint, as the host sees it.                                  *)
(***************************************************************************)
COROLLARY ControlledDevice ==
  ControlSpec => [](FlushHasPacket /\ BanksAgree /\ OneOwner) /\ BuffersKept /\ Received
BY ControlImplementsDevice, FlushFindsPacket, PacketsLeaveInOrder, BuffersHaveOneOwner,
   BuffersAreKept, ReceivedInOrder, PTL

-----------------------------------------------------------------------------
(* The packets of endpoint 0.                                              *)

PacketState == [full: BOOLEAN, data1: BOOLEAN, bytes: Seq(Nat)]
Setups == Requests \cup {None} \cup {[r EXCEPT !.type = "done"] : r \in Requests \cup {None}}
Ep0State == [addr: Nat, setup: Setups, rest: Seq(Nat), more: BOOLEAN, bank: {0, 1},
             data1: BOOLEAN, tx: [{0, 1} -> PacketState], hw: {0, 1}, stall: BOOLEAN,
             halted: SUBSET Nat, left: BOOLEAN]
HostState == [at: {"idle", "in", "out", "statusIn", "statusOut"}, request: Requests \cup {None},
              want: Seq(Nat), got: Seq(Nat), data1: BOOLEAN, addr: Nat, left: Int]

\* The packet the controller sends next, and the one after it.
Now(e) == e.tx[e.hw]
Then(e) == e.tx[1 - e.hw]
Unsent(e) ==
  Now(e).bytes \o ((IF Then(e).full = TRUE THEN Then(e).bytes ELSE <<>>)
                     \o (IF e.more = TRUE THEN e.rest ELSE <<>>))

\* A reply on its way, with d as the toggle of its next packet: all packets
\* but the last are full, and there is a next one as long as one was full.
Other(d) == IF d = TRUE THEN FALSE ELSE TRUE
Sending(e, d) ==
  /\ Now(e).full = TRUE /\ Now(e).data1 = d /\ Len(Now(e).bytes) <= EP0Size
  /\ Then(e).full = TRUE <=> Len(Now(e).bytes) = EP0Size
  /\ Then(e).full = TRUE => Then(e).data1 = Other(d) /\ Len(Then(e).bytes) <= EP0Size
  /\ e.more = TRUE <=> Then(e).full = TRUE /\ Len(Then(e).bytes) = EP0Size
  /\ e.data1 = IF Then(e).full = TRUE THEN d ELSE Other(d)

\* The bank that endpoint0_transmit fills is the one that is sent after
\* those that are full.
NextBank(e) ==
  /\ Then(e).full = TRUE => Now(e).full = TRUE
  /\ e.bank = IF Now(e).full = TRUE /\ Then(e).full = FALSE THEN 1 - e.hw ELSE e.hw

\* Of two numbers, Min is the smaller one.
LEMMA MinOfTwo ==
  ASSUME NEW a \in Nat, NEW b \in Nat PROVE Min({a, b}) = IF a <= b THEN a ELSE b
<1> DEFINE m == IF a <= b THEN a ELSE b
<1>1. m \in {a, b} /\ \A y \in {a, b} : m =< y
  OBVIOUS
<1>2. \A x \in {a, b} : (\A y \in {a, b} : x =< y) => x = m
  OBVIOUS
<1>3. QED
  BY <1>1, <1>2 DEF Min

\* What Cut leaves of a sequence.
LEMMA CutLength ==
  ASSUME NEW b \in Seq(Nat), NEW n \in Nat
  PROVE  /\ Cut(b, n) \in Seq(Nat)
         /\ Len(Cut(b, n)) = IF n <= Len(b) THEN n ELSE Len(b)
         /\ Len(b) <= n => Cut(b, n) = b
<1>1. Cut(b, n) = SubSeq(b, 1, IF n <= Len(b) THEN n ELSE Len(b))
  BY MinOfTwo, LenProperties DEF Cut
<1>2. QED
  BY <1>1, SubSeqFull, SubSeqProperties, LenProperties

\* A packet and what remains are the whole.
LEMMA PacketAndRest ==
  ASSUME NEW b \in Seq(Nat)
  PROVE  /\ Packet(b) \in Seq(Nat) /\ Remaining(b) \in Seq(Nat)
         /\ Len(Packet(b)) <= EP0Size
         /\ Len(Packet(b)) = EP0Size <=> Len(b) >= EP0Size
         /\ b = Packet(b) \o Remaining(b)
         /\ Len(b) >= EP0Size => Len(Remaining(b)) = Len(b) - EP0Size
         /\ Len(b) < EP0Size => Packet(b) = b /\ Remaining(b) = <<>>
<1>a. EP0Size \in Nat /\ EP0Size > 0 /\ Len(b) \in Nat
  BY ControlAssumption
<1>1. /\ Packet(b) \in Seq(Nat)
      /\ Len(Packet(b)) = IF EP0Size <= Len(b) THEN EP0Size ELSE Len(b)
      /\ Len(b) <= EP0Size => Packet(b) = b
  BY <1>a, CutLength DEF Packet
<1>2. CASE Len(b) < EP0Size
  <2>1. Remaining(b) = <<>>
    BY <1>2, <1>a, SubSeqEmpty DEF Remaining
  <2>2. QED
    BY <1>1, <1>2, <2>1, <1>a, ConcatEmptySeq
<1>3. CASE Len(b) >= EP0Size
  <2>1. Packet(b) = SubSeq(b, 1, EP0Size)
    BY <1>3, <1>a, MinOfTwo DEF Packet, Cut
  <2>2. SubSeq(b, 1, EP0Size) \o SubSeq(b, EP0Size + 1, Len(b)) = SubSeq(b, 1, Len(b))
    <3>1. /\ 1 \in 1 .. Len(b) + 1 /\ EP0Size \in 1 - 1 .. Len(b)
          /\ Len(b) \in EP0Size .. Len(b)
      BY <1>3, <1>a
    <3>2. QED
      BY <3>1, ConcatAdjacentSubSeq
  <2>3. b = Packet(b) \o Remaining(b)
    BY <2>1, <2>2, SubSeqFull DEF Remaining
  <2>4. /\ Remaining(b) \in Seq(Nat)
        /\ Len(Remaining(b)) = Len(b) - EP0Size
    <3>1. \A i \in EP0Size + 1 .. Len(b) : b[i] \in Nat
      BY <1>a
    <3>2. QED
      BY <3>1, <1>3, <1>a, SubSeqProperties DEF Remaining
  <2>5. QED
    BY <1>1, <1>3, <1>a, <2>3, <2>4
<1>4. QED
  BY <1>a, <1>2, <1>3

\* What three assignments to the state of endpoint 0 leave alone.
LEMMA Ep0Except ==
  ASSUME NEW e \in Ep0State, NEW t, NEW d, NEW k, NEW f,
         f = [e EXCEPT !.tx = t, !.data1 = d, !.bank = k]
  PROVE  f = [addr |-> e.addr, setup |-> e.setup, rest |-> e.rest, more |-> e.more, bank |-> k,
              data1 |-> d, tx |-> t, hw |-> e.hw, stall |-> e.stall, halted |-> e.halted,
              left |-> e.left]
BY DEF Ep0State

\* endpoint0_transmit fills a bank and moves on to the other one.
Filled0(e, b, f) ==
  /\ f \in Ep0State /\ f.hw = e.hw /\ f.more = e.more /\ f.rest = e.rest
  /\ f.left = e.left /\ f.addr = e.addr /\ f.setup = e.setup /\ f.stall = e.stall
  /\ f.tx[e.bank].full = TRUE /\ f.tx[e.bank].data1 = e.data1
  /\ f.tx[e.bank].bytes = Packet(b) /\ f.tx[1 - e.bank] = e.tx[1 - e.bank]
  /\ f.data1 = Other(e.data1) /\ f.bank = 1 - e.bank
LEMMA Transmit0Fills ==
  ASSUME NEW e \in Ep0State, NEW b \in Seq(Nat), NEW f, f = Transmit0(e, b)
  PROVE  Filled0(e, b, f)
<1> DEFINE p == [full |-> TRUE, data1 |-> e.data1, bytes |-> Packet(b)]
           t == [e.tx EXCEPT ![e.bank] = p]
           d == ~e.data1
           k == 1 - e.bank
<1>1. p \in PacketState
  BY PacketAndRest DEF PacketState, Ep0State
<1>2. t \in [{0, 1} -> PacketState] /\ d \in BOOLEAN /\ k \in {0, 1}
  BY <1>1 DEF Ep0State
<1>3. t[e.bank] = p /\ t[1 - e.bank] = e.tx[1 - e.bank]
  BY DEF Ep0State
<1>4. d = Other(e.data1)
  BY DEF Ep0State, Other
<1>5. f = [e EXCEPT !.tx = t, !.data1 = d, !.bank = k]
  BY Zenon DEF Transmit0
<1>6. p.full = TRUE /\ p.data1 = e.data1 /\ p.bytes = Packet(b)
  OBVIOUS
<1> HIDE DEF p, t, d, k
<1>7. f = [addr |-> e.addr, setup |-> e.setup, rest |-> e.rest, more |-> e.more, bank |-> k,
           data1 |-> d, tx |-> t, hw |-> e.hw, stall |-> e.stall, halted |-> e.halted,
           left |-> e.left]
  BY <1>5, Ep0Except
<1>8. f \in Ep0State
  BY <1>2, <1>7 DEF Ep0State
<1>9. f.tx = t /\ f.data1 = d /\ f.bank = k
  BY <1>7
<1>10. QED
  BY <1>3, <1>4, <1>6, <1>7, <1>8, <1>9 DEF k, Filled0

\* What the assignments after endpoint0_transmit leave alone.
LEMMA Ep0Rest ==
  ASSUME NEW e \in Ep0State, NEW m \in BOOLEAN, NEW b \in Seq(Nat), NEW f,
         \/ f = [e EXCEPT !.more = m, !.rest = b]
         \/ f = [e EXCEPT !.rest = b, !.more = m]
  PROVE  f = [addr |-> e.addr, setup |-> e.setup, rest |-> b, more |-> m, bank |-> e.bank,
              data1 |-> e.data1, tx |-> e.tx, hw |-> e.hw, stall |-> e.stall, halted |-> e.halted,
              left |-> e.left]
BY DEF Ep0State

\* One packet, when both banks are empty.
LEMMA OnePacket ==
  ASSUME NEW e \in Ep0State, NEW b \in Seq(Nat), Len(b) < EP0Size,
         NEW f, f = Transmit0(e, b), e.bank = e.hw,
         e.tx[0].full = FALSE, e.tx[1].full = FALSE, e.data1 = TRUE, e.more = FALSE
  PROVE  Sending(f, TRUE) /\ Unsent(f) = b /\ NextBank(f)
<1>a. EP0Size \in Nat /\ EP0Size > 0 /\ Len(b) \in Nat /\ e.hw \in {0, 1}
  BY ControlAssumption DEF Ep0State
<1>b. Packet(b) = b
  BY PacketAndRest
<1>c. Other(e.data1) = FALSE /\ Other(TRUE) = FALSE
  BY DEF Other
<1>d. e.tx[1 - e.hw].full = FALSE
  BY <1>a
<1>1. Filled0(e, b, f)
  BY Transmit0Fills
<1>2. /\ f.hw = e.hw /\ f.more = FALSE /\ f.bank = 1 - e.hw /\ f.data1 = FALSE
      /\ Now(f).full = TRUE /\ Now(f).data1 = TRUE /\ Now(f).bytes = b
      /\ Then(f).full = FALSE
  BY <1>1, <1>b, <1>c, <1>d DEF Now, Then, Filled0
<1>3. Sending(f, TRUE)
  <2>1. Len(Now(f).bytes) <= EP0Size /\ Len(Now(f).bytes) # EP0Size
    BY <1>2, <1>a
  <2>2. /\ ~(Then(f).full = TRUE) /\ ~(f.more = TRUE)
    BY <1>2
  <2>3. QED
    BY <1>2, <1>c, <2>1, <2>2, Zenon DEF Sending
<1>4. NextBank(f)
  BY <1>2, <1>a DEF NextBank
<1>5. Unsent(f) = b \o (<<>> \o <<>>)
  BY <1>2 DEF Unsent
<1>6. b \o (<<>> \o <<>>) = b
  OBVIOUS
<1>7. QED
  BY <1>3, <1>4, <1>5, <1>6

Kept(e, f) ==
  /\ f.hw = e.hw /\ f.left = e.left /\ f.addr = e.addr
  /\ f.setup = e.setup /\ f.stall = e.stall
Filled0Twice(e, b, r, f) ==
  /\ f \in Ep0State /\ Kept(e, f) /\ f.more = FALSE /\ f.bank = e.bank /\ f.data1 = TRUE
  /\ f.tx[e.bank].full = TRUE /\ f.tx[e.bank].data1 = TRUE /\ f.tx[e.bank].bytes = Packet(b)
  /\ f.tx[1 - e.bank].full = TRUE /\ f.tx[1 - e.bank].data1 = FALSE
  /\ f.tx[1 - e.bank].bytes = Packet(r)

\* Two packets, the first with the toggle of the one before.
LEMMA TwoPackets ==
  ASSUME NEW e \in Ep0State, NEW b \in Seq(Nat), NEW r \in Seq(Nat),
         NEW one, one = Transmit0(e, b), NEW f, f = Transmit0(one, r),
         e.data1 = TRUE, e.more = FALSE
  PROVE  Filled0Twice(e, b, r, f)
<1>a. e.bank \in {0, 1} /\ Other(TRUE) = FALSE /\ Other(FALSE) = TRUE
  BY DEF Ep0State, Other
<1>1. Filled0(e, b, one)
  BY Transmit0Fills
<1>2. one \in Ep0State
  BY <1>1 DEF Filled0
<1>3. Filled0(one, r, f)
  BY <1>2, Transmit0Fills
<1>4. 1 - e.bank \in {0, 1} /\ 1 - (1 - e.bank) = e.bank /\ one.bank = 1 - e.bank
  BY <1>1, <1>a DEF Filled0
<1>5. f \in Ep0State /\ Kept(e, f) /\ f.more = FALSE
  BY <1>1, <1>3 DEF Filled0, Kept
<1>6. f.bank = e.bank /\ one.data1 = FALSE /\ f.data1 = TRUE
  <2>1. one.data1 = Other(e.data1) /\ f.data1 = Other(one.data1) /\ f.bank = 1 - one.bank
    BY <1>1, <1>3 DEF Filled0
  <2>2. QED
    BY <2>1, <1>4, <1>a
<1>7. /\ f.tx[1 - e.bank].full = TRUE /\ f.tx[1 - e.bank].data1 = FALSE
      /\ f.tx[1 - e.bank].bytes = Packet(r)
  BY <1>3, <1>4, <1>6 DEF Filled0
<1>8. /\ f.tx[e.bank].full = TRUE /\ f.tx[e.bank].data1 = TRUE /\ f.tx[e.bank].bytes = Packet(b)
  BY <1>1, <1>3, <1>4 DEF Filled0
<1>9. QED
  BY <1>5, <1>6, <1>7, <1>8 DEF Filled0Twice

\* The three cases of Reply.
ThreeReplies(e, b, one, r, two) ==
  /\ Len(b) < EP0Size => Reply(e, b) = one
  /\ Len(b) >= EP0Size /\ Len(b) < 2 * EP0Size => Reply(e, b) = two
  /\ Len(b) >= 2 * EP0Size => Reply(e, b) = [two EXCEPT !.more = TRUE, !.rest = Remaining(r)]
LEMMA ReplyCases ==
  ASSUME NEW e, NEW b \in Seq(Nat), NEW one, one = Transmit0(e, b),
         NEW r, r = Remaining(b), NEW two, two = Transmit0(one, r)
  PROVE  ThreeReplies(e, b, one, r, two)
<1>1. EP0Size \in Nat /\ EP0Size > 0 /\ Len(b) \in Nat
  BY ControlAssumption
<1>2. QED
  BY <1>1 DEF Reply, ThreeReplies

\* What Reply, the end of usb_setup, does: with both banks empty and the bank
\* at hand, the whole reply is under way, its first packet with DATA1.
Replied(e, b, f) ==
  /\ f \in Ep0State /\ Kept(e, f)
  /\ Len(b) < EP0Size => \A k \in {0, 1} : f.tx[k].full = TRUE => f.tx[k].data1 = TRUE
  /\ e.bank = e.hw => Sending(f, TRUE) /\ Unsent(f) = b /\ NextBank(f)
LEMMA ReplySends ==
  ASSUME NEW e \in Ep0State, NEW b \in Seq(Nat), NEW f, f = Reply(e, b),
         e.tx[0].full = FALSE, e.tx[1].full = FALSE, e.data1 = TRUE, e.more = FALSE
  PROVE  Replied(e, b, f)
<1>a. EP0Size \in Nat /\ EP0Size > 0 /\ Len(b) \in Nat /\ e.bank \in {0, 1} /\ e.hw \in {0, 1}
  BY ControlAssumption DEF Ep0State
<1>o. Other(TRUE) = FALSE /\ Other(FALSE) = TRUE /\ ~(FALSE = TRUE)
  BY DEF Other
<1> SUFFICES ASSUME NEW one, one = Transmit0(e, b), NEW r, r = Remaining(b),
                    NEW two, two = Transmit0(one, r)
             PROVE  Replied(e, b, f)
  OBVIOUS
<1>b. r \in Seq(Nat) /\ Len(r) \in Nat /\ Remaining(r) \in Seq(Nat)
  BY PacketAndRest
<1>c. Packet(b) \in Seq(Nat) /\ Packet(r) \in Seq(Nat)
  BY <1>b, PacketAndRest
<1>d. Len(Packet(b)) = EP0Size <=> Len(b) >= EP0Size
  BY PacketAndRest
<1>e. Len(b) >= EP0Size => Len(r) = Len(b) - EP0Size
  BY PacketAndRest
<1>f. b = Packet(b) \o r
  BY PacketAndRest
<1>g. /\ Len(Packet(r)) <= EP0Size /\ Len(Packet(r)) = EP0Size <=> Len(r) >= EP0Size
      /\ r = Packet(r) \o Remaining(r)
  BY <1>b, PacketAndRest
<1>h. Len(r) < EP0Size => Packet(r) = r
  BY <1>b, PacketAndRest
<1>t. Filled0Twice(e, b, r, two)
  BY <1>b, TwoPackets
<1>u. ThreeReplies(e, b, one, r, two)
  BY ReplyCases
<1>3. CASE Len(b) < EP0Size
  <2>1. f = one
    BY <1>3, <1>u DEF ThreeReplies
  <2>2. Filled0(e, b, f)
    BY <2>1, Transmit0Fills
  <2>3. f \in Ep0State /\ Kept(e, f) /\ f.tx[e.bank].data1 = TRUE /\ f.tx[1 - e.bank] = e.tx[1 - e.bank]
    BY <2>2 DEF Filled0, Kept
  <2>4. \A k \in {0, 1} : f.tx[k].full = TRUE => f.tx[k].data1 = TRUE
    BY <2>3, <1>a
  <2>5. e.bank = e.hw => Sending(f, TRUE) /\ Unsent(f) = b /\ NextBank(f)
    BY <2>1, <1>3, OnePacket
  <2>6. QED
    BY <2>3, <2>4, <2>5 DEF Replied
<1>4. CASE Len(b) >= EP0Size /\ Len(b) < 2 * EP0Size
  <2>1. f = two
    BY <1>4, <1>u, <1>a DEF ThreeReplies
  <2>2. /\ Len(Packet(b)) = EP0Size /\ Len(r) < EP0Size /\ Packet(r) = r /\ Len(b) >= EP0Size
    BY <1>4, <1>a, <1>b, <1>d, <1>e, <1>h
  <2>3. /\ f \in Ep0State /\ Kept(e, f) /\ f.more = FALSE /\ f.data1 = TRUE /\ f.bank = e.bank
        /\ f.hw = e.hw
    BY <2>1, <1>t DEF Filled0Twice, Kept
  <2>4. ASSUME e.bank = e.hw PROVE Sending(f, TRUE) /\ Unsent(f) = b /\ NextBank(f)
    <3>1. /\ Now(f).full = TRUE /\ Now(f).data1 = TRUE /\ Now(f).bytes = Packet(b)
          /\ Then(f).full = TRUE /\ Then(f).data1 = FALSE /\ Then(f).bytes = r
      BY <2>1, <2>2, <2>3, <2>4, <1>t DEF Filled0Twice, Now, Then
    <3>2. Len(Now(f).bytes) = EP0Size /\ Len(Now(f).bytes) <= EP0Size
          /\ Len(Then(f).bytes) <= EP0Size /\ Len(Then(f).bytes) # EP0Size
      BY <2>2, <3>1, <1>a, <1>b
    <3>3. Sending(f, TRUE)
      BY <2>3, <3>1, <3>2, <1>o, Zenon DEF Sending
    <3>4. NextBank(f)
      BY <2>3, <2>4, <3>1, <1>o DEF NextBank
    <3>5. Unsent(f) = Packet(b) \o (r \o <<>>)
      BY <2>3, <3>1, <1>o DEF Unsent
    <3>6. r \o <<>> = r
      BY <1>b
    <3>7. QED
      BY <1>f, <3>3, <3>4, <3>5, <3>6
  <2>5. ~(Len(b) < EP0Size)
    BY <2>2, <1>a
  <2>6. QED
    BY <2>3, <2>4, <2>5 DEF Replied
<1>5. CASE Len(b) >= 2 * EP0Size
  <2>1. f = [two EXCEPT !.more = TRUE, !.rest = Remaining(r)]
    BY <1>5, <1>u, <1>a DEF ThreeReplies
  <2>2. Len(Packet(b)) = EP0Size /\ Len(Packet(r)) = EP0Size /\ Len(b) >= EP0Size
    BY <1>5, <1>a, <1>b, <1>d, <1>e, <1>g
  <2>3. two \in Ep0State
    BY <1>t DEF Filled0Twice
  <2>4. f = [addr |-> two.addr, setup |-> two.setup, rest |-> Remaining(r), more |-> TRUE,
             bank |-> two.bank, data1 |-> two.data1, tx |-> two.tx, hw |-> two.hw,
             stall |-> two.stall, halted |-> two.halted, left |-> two.left]
    BY <2>1, <2>3, <1>b, Ep0Rest
  <2>5. f \in Ep0State
    BY <2>3, <2>4, <1>b DEF Ep0State
  <2>6. /\ Kept(e, f) /\ f.more = TRUE /\ f.rest = Remaining(r) /\ f.data1 = TRUE
        /\ f.bank = e.bank /\ f.tx = two.tx /\ f.hw = e.hw
    BY <2>4, <1>t DEF Filled0Twice, Kept
  <2>7. ASSUME e.bank = e.hw PROVE Sending(f, TRUE) /\ Unsent(f) = b /\ NextBank(f)
    <3>1. /\ Now(f).full = TRUE /\ Now(f).data1 = TRUE /\ Now(f).bytes = Packet(b)
          /\ Then(f).full = TRUE /\ Then(f).data1 = FALSE /\ Then(f).bytes = Packet(r)
      BY <2>6, <2>7, <1>t DEF Filled0Twice, Now, Then
    <3>2. Len(Now(f).bytes) = EP0Size /\ Len(Now(f).bytes) <= EP0Size
          /\ Len(Then(f).bytes) <= EP0Size /\ Len(Then(f).bytes) = EP0Size
      BY <2>2, <3>1, <1>a
    <3>3. Sending(f, TRUE)
      BY <2>6, <3>1, <3>2, <1>o, Zenon DEF Sending
    <3>4. NextBank(f)
      BY <2>6, <2>7, <3>1, <1>o DEF NextBank
    <3>5. Unsent(f) = Packet(b) \o (Packet(r) \o Remaining(r))
      BY <2>6, <3>1 DEF Unsent
    <3>6. QED
      BY <1>f, <1>g, <3>3, <3>4, <3>5
  <2>8. ~(Len(b) < EP0Size)
    BY <2>2, <1>a
  <2>9. QED
    BY <2>5, <2>6, <2>7, <2>8 DEF Replied
<1>6. QED
  BY <1>3, <1>4, <1>5, <1>a

\* The packet in the bank has been taken.
Taken0(e, t) ==
  /\ t \in Ep0State /\ t.hw = 1 - e.hw /\ t.tx[e.hw].full = FALSE
  /\ t.tx[1 - e.hw] = e.tx[1 - e.hw] /\ t.bank = e.bank /\ t.more = e.more
  /\ t.rest = e.rest /\ t.data1 = e.data1 /\ t.left = e.left /\ t.addr = e.addr
  /\ t.setup = e.setup /\ t.stall = e.stall
LEMMA TakenPacket ==
  ASSUME NEW e \in Ep0State, NEW x, x = [e.tx EXCEPT ![e.hw] = NoPacket],
         NEW t, t = [e EXCEPT !.tx = x, !.hw = 1 - e.hw]
  PROVE  Taken0(e, t)
<1>1. e.hw \in {0, 1} /\ 1 - e.hw \in {0, 1} /\ e.hw # 1 - e.hw
  BY DEF Ep0State
<1>2. NoPacket \in PacketState
  BY DEF NoPacket, PacketState
<1>3. x \in [{0, 1} -> PacketState] /\ x[e.hw] = NoPacket /\ x[1 - e.hw] = e.tx[1 - e.hw]
  BY <1>1, <1>2 DEF Ep0State
<1>4. t = [addr |-> e.addr, setup |-> e.setup, rest |-> e.rest, more |-> e.more, bank |-> e.bank,
           data1 |-> e.data1, tx |-> x, hw |-> 1 - e.hw, stall |-> e.stall, halted |-> e.halted,
           left |-> e.left]
  BY DEF Ep0State
<1>5. t \in Ep0State
  BY <1>1, <1>3, <1>4 DEF Ep0State
<1>6. NoPacket.full = FALSE
  BY DEF NoPacket
<1>7. x[e.hw].full = FALSE /\ x[1 - e.hw] = e.tx[1 - e.hw]
  BY <1>3, <1>6
<1>8. /\ t.hw = 1 - e.hw /\ t.tx = x /\ t.bank = e.bank /\ t.more = e.more /\ t.rest = e.rest
      /\ t.data1 = e.data1 /\ t.left = e.left /\ t.addr = e.addr /\ t.setup = e.setup
      /\ t.stall = e.stall
  BY <1>4
<1>9. QED
  BY <1>5, <1>7, <1>8, Zenon DEF Taken0

RestSet(e, m, b, f) ==
  /\ f \in Ep0State /\ Kept(e, f) /\ f.bank = e.bank /\ f.data1 = e.data1 /\ f.tx = e.tx
  /\ f.rest = b /\ f.more = m
LEMMA RestFields ==
  ASSUME NEW e \in Ep0State, NEW m \in BOOLEAN, NEW b \in Seq(Nat), NEW f,
         f = [e EXCEPT !.rest = b, !.more = m]
  PROVE  RestSet(e, m, b, f)
<1>1. f = [addr |-> e.addr, setup |-> e.setup, rest |-> b, more |-> m, bank |-> e.bank,
           data1 |-> e.data1, tx |-> e.tx, hw |-> e.hw, stall |-> e.stall, halted |-> e.halted,
           left |-> e.left]
  BY DEF Ep0State
<1>2. f \in Ep0State
  BY <1>1 DEF Ep0State
<1>3. QED
  BY <1>1, <1>2 DEF RestSet, Kept

\* usb_control's IN, step by step.
Taken(e, x, t, q, n) ==
  /\ x = [e.tx EXCEPT ![e.hw] = NoPacket]
  /\ t = [e EXCEPT !.tx = x, !.hw = 1 - e.hw]
  /\ q = Transmit0(t, t.rest)
  /\ n = IF t.more = FALSE THEN t
         ELSE [q EXCEPT !.rest = Remaining(t.rest), !.more = Len(t.rest) >= EP0Size]

\* What usb_control's IN does with the banks: the packet after the next one
\* takes the place of the one that has been sent.
Advanced(e, n) ==
  /\ n \in Ep0State /\ n.left = e.left /\ n.addr = e.addr /\ n.setup = e.setup
  /\ n.stall = e.stall
  /\ NextBank(e) /\ Now(e).full = TRUE => NextBank(n)
  /\ \A d \in BOOLEAN : NextBank(e) /\ Sending(e, d) /\ Then(e).full = TRUE =>
       Sending(n, Other(d)) /\ Unsent(e) = Now(e).bytes \o Unsent(n)
  /\ \A d \in BOOLEAN : Sending(e, d) /\ Then(e).full = FALSE =>
       Len(Now(e).bytes) < EP0Size /\ Unsent(e) = Now(e).bytes
LEMMA NextUp ==
  ASSUME NEW e \in Ep0State, NEW x, NEW t, NEW q, NEW n, Taken(e, x, t, q, n)
  PROVE  Advanced(e, n)
<1> SUFFICES ASSUME x = [e.tx EXCEPT ![e.hw] = NoPacket],
                    t = [e EXCEPT !.tx = x, !.hw = 1 - e.hw],
                    q = Transmit0(t, t.rest),
                    n = IF t.more = FALSE THEN t
                        ELSE [q EXCEPT !.rest = Remaining(t.rest), !.more = Len(t.rest) >= EP0Size]
             PROVE  Advanced(e, n)
  BY Zenon DEF Taken
<1>a. EP0Size \in Nat /\ EP0Size > 0 /\ e.bank \in {0, 1} /\ e.hw \in {0, 1} /\ 1 - e.hw \in {0, 1}
  BY ControlAssumption DEF Ep0State
<1>h. 1 - (1 - e.hw) = e.hw /\ e.hw # 1 - e.hw
  BY <1>a
<1>o. Other(TRUE) = FALSE /\ Other(FALSE) = TRUE /\ ~(FALSE = TRUE)
  BY DEF Other
<1>p. /\ e.tx[e.hw] \in PacketState /\ e.tx[1 - e.hw] \in PacketState /\ e.more \in BOOLEAN
      /\ e.rest \in Seq(Nat) /\ e.data1 \in BOOLEAN
  BY <1>a DEF Ep0State
<1>q. /\ Now(e).bytes \in Seq(Nat) /\ Then(e).bytes \in Seq(Nat)
      /\ Now(e).full \in BOOLEAN /\ Then(e).full \in BOOLEAN /\ Then(e).data1 \in BOOLEAN
  BY <1>p DEF Now, Then, PacketState
<1>1. /\ t \in Ep0State /\ t.hw = 1 - e.hw /\ t.tx[e.hw].full = FALSE
      /\ t.tx[1 - e.hw] = e.tx[1 - e.hw] /\ t.bank = e.bank /\ t.more = e.more
      /\ t.rest = e.rest /\ t.data1 = e.data1 /\ t.left = e.left /\ t.addr = e.addr
      /\ t.setup = e.setup /\ t.stall = e.stall
  <2>1. Taken0(e, t)
    BY TakenPacket, Zenon
  <2>2. QED
    BY <2>1 DEF Taken0
<1>2. Filled0(t, e.rest, q)
  BY <1>1, <1>p, Transmit0Fills
<1>s. \A d \in BOOLEAN : Sending(e, d) /\ Then(e).full = FALSE =>
       Len(Now(e).bytes) < EP0Size /\ Unsent(e) = Now(e).bytes
  <2> SUFFICES ASSUME NEW d \in BOOLEAN, Sending(e, d), Then(e).full = FALSE
               PROVE  Len(Now(e).bytes) < EP0Size /\ Unsent(e) = Now(e).bytes
    OBVIOUS
  <2>1. Len(Now(e).bytes) <= EP0Size /\ Len(Now(e).bytes) # EP0Size /\ ~(e.more = TRUE)
    BY <1>o, Zenon DEF Sending
  <2>2. Unsent(e) = Now(e).bytes \o (<<>> \o <<>>)
    BY <2>1, <1>o DEF Unsent
  <2>3. Now(e).bytes \o (<<>> \o <<>>) = Now(e).bytes
    BY <1>q
  <2>4. QED
    BY <1>a, <1>q, <2>1, <2>2, <2>3
<1>3. CASE e.more = FALSE
  <2>1. n = t
    BY <1>1, <1>3
  <2>2. /\ Now(n) = Then(e) /\ Then(n).full = FALSE /\ n.bank = e.bank /\ n.hw = 1 - e.hw
        /\ n.more = FALSE /\ n.data1 = e.data1
    BY <1>1, <1>3, <1>h, <2>1 DEF Now, Then
  <2>3. NextBank(e) /\ Now(e).full = TRUE => NextBank(n)
    BY <2>2, <1>a, <1>o, <1>q DEF NextBank
  <2>4. ASSUME NEW d \in BOOLEAN, NextBank(e), Sending(e, d), Then(e).full = TRUE
        PROVE  Sending(n, Other(d)) /\ Unsent(e) = Now(e).bytes \o Unsent(n)
    <3>1. /\ Then(e).data1 = Other(d) /\ Len(Then(e).bytes) <= EP0Size /\ e.data1 = d
          /\ Len(Then(e).bytes) # EP0Size
      BY <2>4, <1>3, <1>o, Zenon DEF Sending
    <3>2. Other(Other(d)) = d
      BY DEF Other
    <3>3. /\ Now(n).full = TRUE /\ Now(n).data1 = Other(d) /\ Len(Now(n).bytes) <= EP0Size
          /\ Len(Now(n).bytes) # EP0Size /\ n.data1 = d
          /\ ~(Then(n).full = TRUE) /\ ~(n.more = TRUE)
      BY <2>2, <2>4, <3>1, <1>o
    <3>4. Sending(n, Other(d))
      BY <3>2, <3>3, Zenon DEF Sending
    <3>5. Unsent(e) = Now(e).bytes \o (Then(e).bytes \o <<>>)
      BY <2>4, <1>3, <1>o DEF Unsent
    <3>6. Unsent(n) = Then(e).bytes \o (<<>> \o <<>>)
      BY <2>2, <1>o DEF Unsent
    <3>7. Then(e).bytes \o (<<>> \o <<>>) = Then(e).bytes \o <<>>
      BY <1>q
    <3>8. QED
      BY <3>4, <3>5, <3>6, <3>7
  <2>5. n \in Ep0State /\ n.left = e.left /\ n.addr = e.addr /\ n.setup = e.setup /\ n.stall = e.stall
    BY <1>1, <2>1
  <2>6. QED
    BY <1>s, <2>3, <2>4, <2>5 DEF Advanced
<1>4. CASE e.more = TRUE
  <2>m. (Len(t.rest) >= EP0Size) \in BOOLEAN
    OBVIOUS
  <2>1. n = [q EXCEPT !.rest = Remaining(t.rest), !.more = Len(t.rest) >= EP0Size]
    BY <1>1, <1>4, <1>o
  <2>2. q \in Ep0State /\ Remaining(t.rest) \in Seq(Nat) /\ Remaining(e.rest) \in Seq(Nat)
    BY <1>1, <1>2, <1>p, PacketAndRest DEF Filled0
  <2> DEFINE m == Len(t.rest) >= EP0Size
  <2> HIDE DEF m
  <2>n. n = [q EXCEPT !.rest = Remaining(t.rest), !.more = m] /\ m \in BOOLEAN
    BY <2>1, <2>m DEF m
  <2>3. RestSet(q, m, Remaining(t.rest), n)
    BY <2>n, <2>2, RestFields, Zenon
  <2>4. n \in Ep0State
    BY <2>3 DEF RestSet
  <2>5. /\ n.left = e.left /\ n.addr = e.addr /\ n.setup = e.setup /\ n.stall = e.stall
        /\ n.hw = 1 - e.hw /\ n.bank = 1 - e.bank /\ n.data1 = Other(e.data1) /\ n.tx = q.tx
        /\ n.rest = Remaining(e.rest) /\ n.more = m
    <3>1. /\ q.left = t.left /\ q.addr = t.addr /\ q.setup = t.setup /\ q.stall = t.stall
          /\ q.hw = t.hw /\ q.bank = 1 - t.bank /\ q.data1 = Other(t.data1)
      BY <1>2 DEF Filled0
    <3>2. /\ n.left = q.left /\ n.addr = q.addr /\ n.setup = q.setup /\ n.stall = q.stall
          /\ n.hw = q.hw /\ n.bank = q.bank /\ n.data1 = q.data1 /\ n.tx = q.tx
          /\ n.rest = Remaining(t.rest) /\ n.more = m
      BY <2>3 DEF RestSet, Kept
    <3>3. QED
      BY <1>1, <3>1, <3>2
  <2>6. m = TRUE <=> Len(e.rest) >= EP0Size
    BY <1>1 DEF m
  <2>7. /\ n.tx[e.bank].full = TRUE /\ n.tx[e.bank].data1 = e.data1
        /\ n.tx[e.bank].bytes = Packet(e.rest) /\ n.tx[1 - e.bank] = t.tx[1 - e.bank]
    BY <1>1, <1>2, <2>5 DEF Filled0
  <2>8. CASE e.bank = e.hw
    <3>1. /\ Now(n) = Then(e) /\ Then(n).full = TRUE /\ Then(n).data1 = e.data1
          /\ Then(n).bytes = Packet(e.rest) /\ n.bank = n.hw
      BY <1>1, <1>h, <2>5, <2>7, <2>8 DEF Now, Then
    <3>2. NextBank(e) /\ Now(e).full = TRUE => NextBank(n)
      BY <3>1, <2>8, <1>a, <1>o, <1>q DEF NextBank
    <3>3. ASSUME NEW d \in BOOLEAN, NextBank(e), Sending(e, d), Then(e).full = TRUE
          PROVE  Sending(n, Other(d)) /\ Unsent(e) = Now(e).bytes \o Unsent(n)
      <4>1. /\ Then(e).data1 = Other(d) /\ Len(Then(e).bytes) = EP0Size /\ e.data1 = d
        BY <3>3, <1>4, Zenon DEF Sending
      <4>2. Other(Other(d)) = d
        BY DEF Other
      <4>3. /\ Len(Packet(e.rest)) <= EP0Size /\ Len(Packet(e.rest)) = EP0Size <=> Len(e.rest) >= EP0Size
            /\ e.rest = Packet(e.rest) \o Remaining(e.rest) /\ Packet(e.rest) \in Seq(Nat)
            /\ Len(e.rest) < EP0Size => Packet(e.rest) = e.rest
        BY <1>p, PacketAndRest
      <4>4. /\ Now(n).full = TRUE /\ Now(n).data1 = Other(d) /\ Len(Now(n).bytes) = EP0Size
            /\ Len(Now(n).bytes) <= EP0Size /\ n.data1 = Other(d)
            /\ Then(n).full = TRUE /\ Then(n).data1 = d /\ Len(Then(n).bytes) <= EP0Size
        BY <3>1, <3>3, <4>1, <4>3, <2>5, <1>a
      <4>5. n.more = TRUE <=> Len(Then(n).bytes) = EP0Size
        BY <3>1, <4>3, <2>5, <2>6
      <4>6. Sending(n, Other(d))
        BY <4>2, <4>4, <4>5, Zenon DEF Sending
      <4>7. Unsent(e) = Now(e).bytes \o (Then(e).bytes \o e.rest)
        BY <3>3, <1>4 DEF Unsent
      <4>8. Unsent(n) = Then(e).bytes \o (Packet(e.rest) \o (IF n.more = TRUE THEN n.rest ELSE <<>>))
        BY <3>1 DEF Unsent
      <4>9. Packet(e.rest) \o (IF n.more = TRUE THEN n.rest ELSE <<>>) = e.rest
        <5>1. CASE n.more = TRUE
          BY <5>1, <4>3, <2>5
        <5>2. CASE ~(n.more = TRUE)
          <6>1. Len(e.rest) < EP0Size
            BY <5>2, <2>5, <2>6, <1>a, <1>p
          <6>2. Packet(e.rest) = e.rest /\ e.rest \o <<>> = e.rest
            BY <6>1, <4>3, <1>p
          <6>3. QED
            BY <5>2, <6>2
        <5>3. QED
          BY <5>1, <5>2
      <4>10. QED
        BY <4>6, <4>7, <4>8, <4>9
    <3>4. QED
      BY <1>s, <2>4, <2>5, <3>2, <3>3 DEF Advanced
  <2>9. CASE e.bank # e.hw
    <3>1. /\ Now(n).full = TRUE /\ Then(n).full = FALSE /\ n.bank = 1 - n.hw /\ e.bank = 1 - e.hw
      BY <1>1, <1>a, <1>h, <2>5, <2>7, <2>9 DEF Now, Then
    <3>2. NextBank(n)
      BY <3>1, <1>o DEF NextBank
    <3>3. NextBank(e) => Then(e).full = FALSE
      BY <2>9, <1>a, <1>o, <1>q DEF NextBank
    <3>4. QED
      BY <1>o, <1>s, <2>4, <2>5, <3>2, <3>3 DEF Advanced
  <2>10. QED
    BY <2>8, <2>9
<1>5. QED
  BY <1>3, <1>4, <1>p

-----------------------------------------------------------------------------
(***************************************************************************)
(* The invariant of endpoint 0 and the host's transfer.                    *)
(***************************************************************************)
BothEmpty(e) == e.tx[0].full = FALSE /\ e.tx[1].full = FALSE

\* The transfer is that of the last SETUP, and the device takes a new address
\* with the packet with which the host takes it.
Addresses(e, h) ==
  /\ h.addr = e.addr
  /\ h.at \in {"in", "out", "statusIn"} => h.request = e.setup /\ h.request \in Requests
  /\ h.at = "in" => h.request.length > 0 /\ h.request.type # "setReport"
  /\ h.at = "out" => h.request.type = "setReport"
  /\ h.at \in {"out", "statusIn"} => h.data1 = TRUE
  /\ h.at = "statusIn" /\ h.request.type = "setAddress" =>
       \A k \in {0, 1} : e.tx[k].full = TRUE => e.tx[k].data1 = TRUE

\* Unless a packet was lost, what is in the banks is what the host still wants.
Waits(h) == h.at \in {"in", "statusIn"} /\ h.request.type # "setReport"
Flow(e, h) ==
  /\ e.left = FALSE /\ Waits(h) /\ e.stall = FALSE =>
       Sending(e, h.data1) /\ h.want = h.got \o Unsent(e) /\ Len(h.want) <= h.request.length
  /\ e.left = FALSE /\ h.at = "statusOut" => h.got = h.want
\* The device does not answer SET_REPORT.
Silent(e, h) ==
  e.left = FALSE /\ h.at \in {"out", "statusIn"} /\ h.request.type = "setReport" => BothEmpty(e)

InStep(e, h) ==
  /\ e \in Ep0State /\ h \in HostState
  /\ Addresses(e, h) /\ Flow(e, h) /\ Silent(e, h)
  /\ e.left = FALSE => NextBank(e)

\* What the host asks for is a record with these fields.
LEMMA RequestFields ==
  ASSUME NEW r \in Requests
  PROVE  /\ r = [type |-> r.type, index |-> r.index, length |-> r.length]
         /\ r.index \in Nat /\ r.length \in Nat /\ (r.type = "setAddress" => r.length = 0)
BY RequestsAssumption

\* usb_setup's answers.
LEMMA AnswerShape ==
  ASSUME NEW r \in Requests
  PROVE  /\ Answer(r).stall \in BOOLEAN /\ Answer(r).wait \in BOOLEAN
         /\ Answer(r).bytes \in Seq(Nat)
         /\ (r.type = "setReport" <=> Answer(r).wait = TRUE)
         /\ (Answer(r).wait = TRUE => Answer(r).stall = FALSE)
<1> DEFINE Good(a) == /\ a.stall \in BOOLEAN /\ a.wait = FALSE /\ a.bytes \in Seq(Nat)
<1>1. Good(Nothing) /\ Good(Stall) /\ \A b \in Seq(Nat) : Good(Bytes(b))
  BY DEF Nothing, Stall, Bytes
<1>2. /\ <<IF Configured THEN 1 ELSE 0>> \in Seq(Nat) /\ <<0, 0>> \in Seq(Nat)
      /\ <<IF r.index \in ep0.halted THEN 1 ELSE 0, 0>> \in Seq(Nat)
  OBVIOUS
<1>3. r.index \in DOMAIN Descriptors => Descriptors[r.index] \in Seq(Nat)
  BY RequestsAssumption
<1>4. CASE r.type = "setReport"
  <2>1. Answer(r) = [Nothing EXCEPT !.wait = TRUE]
    BY <1>4 DEF Answer
  <2>2. <<>> \in Seq(Nat)
    OBVIOUS
  <2>3. QED
    BY <1>4, <2>1, <2>2 DEF Nothing
<1>5. CASE r.type # "setReport"
  <2>1. Good(Answer(r))
    <3> HIDE DEF Good
    <3>1. CASE r.type \in {"setAddress", "setConfiguration", "setIdle"}
      BY <1>1, <3>1 DEF Answer
    <3>2. CASE r.type = "getConfiguration"
      BY <1>1, <1>2, <3>2 DEF Answer
    <3>3. CASE r.type = "getStatus"
      BY <1>1, <1>2, <3>3 DEF Answer
    <3>4. CASE r.type = "endpointStatus"
      BY <1>1, <1>2, <3>4 DEF Answer
    <3>5. CASE r.type \in {"clearFeature", "setFeature"}
      BY <1>1, <3>5 DEF Answer
    <3>6. CASE r.type = "getDescriptor"
      BY <1>1, <1>3, <3>6 DEF Answer
    <3>7. CASE r.type \notin {"setAddress", "setConfiguration", "setIdle", "getConfiguration",
                              "getStatus", "endpointStatus", "clearFeature", "setFeature",
                              "getDescriptor"}
      BY <1>1, <1>5, <3>7 DEF Answer
    <3>8. QED
      BY <3>1, <3>2, <3>3, <3>4, <3>5, <3>6, <3>7
  <2>2. QED
    BY <1>5, <2>1
<1>6. QED
  BY <1>4, <1>5

\* The fields of the host that its steps change.
HostIs(g, at, r, w, o, d, x) ==
  /\ g \in HostState /\ g.at = at /\ g.request = r /\ g.want = w /\ g.got = o
  /\ g.data1 = d /\ g.addr = x
LEMMA HostRests ==
  ASSUME NEW h \in HostState, NEW x \in Nat, NEW g,
         g = [h EXCEPT !.at = "idle", !.request = None, !.want = <<>>, !.got = <<>>,
                !.data1 = TRUE, !.addr = x]
  PROVE  HostIs(g, "idle", None, <<>>, <<>>, TRUE, x)
<1>1. g = [at |-> "idle", request |-> None, want |-> <<>>, got |-> <<>>, data1 |-> TRUE,
           addr |-> x, left |-> h.left]
  BY DEF HostState
<1>2. <<>> \in Seq(Nat) /\ h.left \in Int
  BY DEF HostState
<1>3. g \in HostState
  BY <1>1, <1>2 DEF HostState
<1>4. QED
  BY <1>1, <1>3 DEF HostIs

LEMMA HostAsks ==
  ASSUME NEW h \in HostState, NEW at \in {"in", "out", "statusIn"}, NEW r \in Requests,
         NEW w \in Seq(Nat), NEW l \in Int, NEW g,
         g = [h EXCEPT !.at = at, !.request = r, !.got = <<>>, !.data1 = TRUE, !.want = w,
                !.left = l]
  PROVE  HostIs(g, at, r, w, <<>>, TRUE, h.addr)
<1>1. g = [at |-> at, request |-> r, want |-> w, got |-> <<>>, data1 |-> TRUE,
           addr |-> h.addr, left |-> l]
  BY DEF HostState
<1>2. <<>> \in Seq(Nat) /\ h.addr \in Nat
  BY DEF HostState
<1>3. g \in HostState
  BY <1>1, <1>2 DEF HostState
<1>4. QED
  BY <1>1, <1>3 DEF HostIs

LEMMA HostTakes ==
  ASSUME NEW h \in HostState, NEW o \in Seq(Nat), NEW at \in {"in", "statusOut"}, NEW g,
         g = [h EXCEPT !.got = o, !.data1 = ~@, !.at = at]
  PROVE  HostIs(g, at, h.request, h.want, o, Other(h.data1), h.addr)
<1>1. g = [at |-> at, request |-> h.request, want |-> h.want, got |-> o, data1 |-> ~h.data1,
           addr |-> h.addr, left |-> h.left]
  BY DEF HostState
<1>2. (~h.data1) = Other(h.data1) /\ (~h.data1) \in BOOLEAN
  BY DEF HostState, Other
<1>3. g \in HostState
  BY <1>1, <1>2 DEF HostState
<1>4. QED
  BY <1>1, <1>2, <1>3 DEF HostIs

LEMMA HostGoesOn ==
  ASSUME NEW h \in HostState, NEW g, g = [h EXCEPT !.at = "statusIn"]
  PROVE  HostIs(g, "statusIn", h.request, h.want, h.got, h.data1, h.addr)
<1>1. g = [at |-> "statusIn", request |-> h.request, want |-> h.want, got |-> h.got,
           data1 |-> h.data1, addr |-> h.addr, left |-> h.left]
  BY DEF HostState
<1>2. g \in HostState
  BY <1>1 DEF HostState
<1>3. QED
  BY <1>1, <1>2 DEF HostIs

\* Idle, only the banks and the address count.
LEMMA IdleInStep ==
  ASSUME NEW e \in Ep0State, NEW g, NEW x, HostIs(g, "idle", None, <<>>, <<>>, TRUE, x),
         x = e.addr, e.left = FALSE => NextBank(e)
  PROVE  InStep(e, g)
BY DEF HostIs, InStep, Addresses, Flow, Silent, Waits

Assigned0(e, r, x, l, c) ==
  /\ c \in Ep0State /\ c.setup = r /\ c.more = FALSE /\ c.data1 = TRUE /\ c.tx = x /\ c.left = l
  /\ c.bank = e.bank /\ c.hw = e.hw /\ c.addr = e.addr
LEMMA SetupAssigns ==
  ASSUME NEW e \in Ep0State, NEW r \in Setups, NEW s \in SUBSET Nat,
         NEW x \in [{0, 1} -> PacketState], NEW l \in BOOLEAN, NEW h \in BOOLEAN, NEW c,
         c = [e EXCEPT !.setup = r, !.more = FALSE, !.rest = <<>>, !.data1 = TRUE, !.tx = x,
                !.halted = s, !.stall = h, !.left = l]
  PROVE  Assigned0(e, r, x, l, c)
<1>1. c = [addr |-> e.addr, setup |-> r, rest |-> <<>>, more |-> FALSE, bank |-> e.bank,
           data1 |-> TRUE, tx |-> x, hw |-> e.hw, stall |-> h, halted |-> s, left |-> l]
  BY DEF Ep0State
<1>2. <<>> \in Seq(Nat)
  OBVIOUS
<1>3. c \in Ep0State
  BY <1>1, <1>2 DEF Ep0State
<1>4. QED
  BY <1>1, <1>3 DEF Assigned0

\* What usb_control's SETUP does before usb_setup.
ClearSet(e, r, c) ==
  /\ c \in Ep0State /\ c.setup = r /\ c.more = FALSE /\ c.data1 = TRUE /\ BothEmpty(c)
  /\ c.bank = e.bank /\ c.hw = e.hw /\ c.addr = e.addr
  /\ c.left = FALSE => e.left = FALSE /\ BothEmpty(e)
LEMMA SetupClears ==
  ASSUME NEW e \in Ep0State, NEW r \in Requests, NEW s \in SUBSET Nat,
         NEW x, x = [k \in {0, 1} |-> NoPacket],
         NEW l, l = (e.left \/ \E k \in {0, 1} : e.tx[k].full), NEW h \in BOOLEAN, NEW c,
         c = [e EXCEPT !.setup = r, !.more = FALSE, !.rest = <<>>, !.data1 = TRUE, !.tx = x,
                !.halted = s, !.stall = h, !.left = l]
  PROVE  ClearSet(e, r, c)
<1>1. l \in BOOLEAN /\ x \in [{0, 1} -> PacketState]
  BY DEF PacketState, NoPacket
<1>2. x[0].full = FALSE /\ x[1].full = FALSE
  BY DEF NoPacket
<1>3. l = FALSE => e.left = FALSE /\ BothEmpty(e)
  <2>1. e.left \in BOOLEAN /\ e.tx[0] \in PacketState /\ e.tx[1] \in PacketState
    BY DEF Ep0State
  <2>2. e.tx[0].full \in BOOLEAN /\ e.tx[1].full \in BOOLEAN
    BY <2>1 DEF PacketState
  <2>3. QED
    BY <2>1, <2>2 DEF BothEmpty
<1>4. r \in Setups
  BY DEF Setups
<1>5. Assigned0(e, r, x, l, c)
  BY <1>1, <1>4, SetupAssigns
<1>6. BothEmpty(c)
  BY <1>2, <1>5 DEF BothEmpty, Assigned0
<1>7. QED
  BY <1>3, <1>5, <1>6 DEF ClearSet, Assigned0

\* A request that is not answered with data: stalled, or SET_REPORT.
LEMMA NoDataInStep ==
  ASSUME NEW e, NEW h, InStep(e, h), NEW r \in Requests, NEW c, ClearSet(e, r, c),
         NEW at, at = IF r.type = "setReport" THEN "out" ELSE IF r.length > 0 THEN "in" ELSE "statusIn",
         NEW w, NEW g, HostIs(g, at, r, w, <<>>, TRUE, h.addr),
         NEW f, \/ f = [c EXCEPT !.stall = TRUE] /\ r.type # "setReport"
                \/ f = c /\ r.type = "setReport"
  PROVE  InStep(f, g)
<1>1. /\ f \in Ep0State /\ f.setup = r /\ BothEmpty(f) /\ f.bank = e.bank /\ f.hw = e.hw
      /\ f.addr = e.addr /\ f.left = c.left /\ (r.type = "setReport" \/ f.stall = TRUE)
  <2>1. CASE f = [c EXCEPT !.stall = TRUE]
    <3>1. c \in Ep0State
      BY DEF ClearSet
    <3>2. f = [addr |-> c.addr, setup |-> c.setup, rest |-> c.rest, more |-> c.more, bank |-> c.bank,
               data1 |-> c.data1, tx |-> c.tx, hw |-> c.hw, stall |-> TRUE, halted |-> c.halted,
               left |-> c.left]
      BY <2>1, <3>1 DEF Ep0State
    <3>3. f \in Ep0State
      BY <3>1, <3>2 DEF Ep0State
    <3>4. /\ f.setup = c.setup /\ f.tx = c.tx /\ f.bank = c.bank /\ f.hw = c.hw /\ f.addr = c.addr
          /\ f.left = c.left /\ f.stall = TRUE
      BY <3>2
    <3>5. QED
      BY <3>3, <3>4 DEF ClearSet, BothEmpty
  <2>2. CASE f = c /\ r.type = "setReport"
    BY <2>2 DEF ClearSet
  <2>3. QED
    BY <2>1, <2>2
<1>2. r.length \in Nat
  BY RequestFields
<1>3. g \in HostState /\ g.at = at /\ g.request = r /\ g.data1 = TRUE /\ g.addr = h.addr
  BY DEF HostIs
<1>4. h.addr = e.addr
  BY DEF InStep, Addresses
<1>5. at \in {"in", "out", "statusIn"} /\ (at = "out" <=> r.type = "setReport") /\ (at = "in" => r.length > 0)
  BY <1>2
<1>6. Addresses(f, g)
  <2>1. \A k \in {0, 1} : ~(f.tx[k].full = TRUE)
    BY <1>1 DEF BothEmpty
  <2>2. QED
    BY <1>1, <1>3, <1>4, <1>5, <2>1 DEF Addresses
<1>7. Flow(f, g)
  BY <1>1, <1>3, <1>5 DEF Flow, Waits
<1>8. Silent(f, g)
  BY <1>1 DEF Silent
<1>9. f.left = FALSE => NextBank(f)
  <2>1. SUFFICES ASSUME f.left = FALSE PROVE NextBank(f)
    OBVIOUS
  <2>2. e.left = FALSE /\ BothEmpty(e)
    BY <1>1, <2>1 DEF ClearSet
  <2>3. NextBank(e) /\ e.hw \in {0, 1} /\ f.hw \in {0, 1}
    BY <2>2, <1>1 DEF InStep, Ep0State
  <2>4. e.bank = e.hw
    BY <2>2, <2>3 DEF NextBank, BothEmpty, Now, Then
  <2>5. Now(f).full = FALSE /\ Then(f).full = FALSE /\ f.bank = f.hw
    BY <1>1, <2>3, <2>4 DEF BothEmpty, Now, Then
  <2>6. QED
    BY <2>5 DEF NextBank
<1>10. QED
  BY <1>1, <1>3, <1>6, <1>7, <1>8, <1>9 DEF InStep

\* A request that is answered with data, or with an empty packet.
LEMMA DataInStep ==
  ASSUME NEW e, NEW h, InStep(e, h), NEW r \in Requests, NEW c, ClearSet(e, r, c),
         r.type # "setReport",
         NEW at, at = IF r.length > 0 THEN "in" ELSE "statusIn",
         NEW b \in Seq(Nat), Len(b) <= r.length,
         NEW g, HostIs(g, at, r, b, <<>>, TRUE, h.addr),
         NEW f, f = Reply(c, b)
  PROVE  InStep(f, g)
<1>1. c \in Ep0State /\ c.tx[0].full = FALSE /\ c.tx[1].full = FALSE /\ c.data1 = TRUE /\ c.more = FALSE
  BY DEF ClearSet, BothEmpty
<1>2. Replied(c, b, f)
  BY <1>1, ReplySends
<1>3. /\ f \in Ep0State /\ f.left = c.left /\ f.addr = e.addr /\ f.setup = r
  BY <1>2 DEF Replied, Kept, ClearSet
<1>4. g \in HostState /\ g.at = at /\ g.request = r /\ g.data1 = TRUE /\ g.addr = h.addr /\ g.want = b /\ g.got = <<>>
  BY DEF HostIs
<1>5. h.addr = e.addr
  BY DEF InStep, Addresses
<1>6. r.length \in Nat /\ (r.type = "setAddress" => r.length = 0) /\ EP0Size \in Nat /\ EP0Size > 0
  BY RequestFields, ControlAssumption
<1>7. at \in {"in", "statusIn"} /\ (at = "in" => r.length > 0)
  BY <1>6
<1>8. Addresses(f, g)
  <2>1. r.type = "setAddress" => \A k \in {0, 1} : f.tx[k].full = TRUE => f.tx[k].data1 = TRUE
    <3>1. r.type = "setAddress" => Len(b) < EP0Size
      BY <1>6
    <3>2. QED
      BY <1>2, <3>1 DEF Replied
  <2>2. QED
    BY <1>3, <1>4, <1>5, <1>7, <2>1 DEF Addresses
<1>9. f.left = FALSE => Sending(f, TRUE) /\ Unsent(f) = b /\ NextBank(f)
  <2>1. SUFFICES ASSUME f.left = FALSE PROVE Sending(f, TRUE) /\ Unsent(f) = b /\ NextBank(f)
    OBVIOUS
  <2>2. e.left = FALSE /\ BothEmpty(e)
    BY <1>3, <2>1 DEF ClearSet
  <2>3. NextBank(e) /\ e.hw \in {0, 1}
    BY <2>2 DEF InStep, Ep0State
  <2>4. e.bank = e.hw
    BY <2>2, <2>3 DEF NextBank, BothEmpty, Now, Then
  <2>5. c.bank = c.hw
    BY <2>4 DEF ClearSet
  <2>6. QED
    BY <1>2, <2>5 DEF Replied
<1>10. b = <<>> \o b
  OBVIOUS
<1>11. Flow(f, g)
  BY <1>4, <1>7, <1>9, <1>10 DEF Flow, Waits
<1>12. Silent(f, g)
  BY <1>4 DEF Silent
<1>13. QED
  BY <1>3, <1>4, <1>8, <1>9, <1>11, <1>12 DEF InStep

-----------------------------------------------------------------------------
(* The steps of ControlNext.                                               *)

LEMMA HaltedEndpoints ==
  ASSUME NEW r \in Requests, NEW s \in SUBSET Nat PROVE Halted(r, s) \in SUBSET Nat
<1>1. Register(r) \in SUBSET Nat
  BY RequestFields DEF Register
<1>2. QED
  BY <1>1 DEF Halted

LEMMA SetupStep ==
  ASSUME InStep(ep0, host), NEW r \in Requests, HostSetup(r) PROVE InStep(ep0, host)'
<1>1. PICK f, g : f = ep0' /\ g = host'
  OBVIOUS
<1>2. PICK x : x = [k \in {0, 1} |-> NoPacket]
  OBVIOUS
<1>3. PICK l : l = (ep0.left \/ \E k \in {0, 1} : ep0.tx[k].full)
  OBVIOUS
<1>4. PICK c : c = [ep0 EXCEPT !.setup = r, !.more = FALSE, !.rest = <<>>, !.data1 = TRUE,
                      !.tx = x, !.halted = Halted(r, ep0.halted), !.stall = HaltsItself(r),
                      !.left = l]
  OBVIOUS
<1>5. PICK a : a = Answer(r)
  OBVIOUS
<1>6. ep0 \in Ep0State /\ host \in HostState /\ ep0.halted \in SUBSET Nat
  BY DEF InStep, Ep0State
<1>7. ClearSet(ep0, r, c)
  <2>1. Halted(r, ep0.halted) \in SUBSET Nat
    BY <1>6, HaltedEndpoints
  <2>2. HaltsItself(r) \in BOOLEAN
    BY DEF HaltsItself
  <2>3. QED
    BY <1>2, <1>3, <1>4, <1>6, <2>1, <2>2, SetupClears, Zenon
<1>8. /\ a.stall \in BOOLEAN /\ a.wait \in BOOLEAN /\ a.bytes \in Seq(Nat)
      /\ (r.type = "setReport" <=> a.wait = TRUE) /\ (a.wait = TRUE => a.stall = FALSE)
  BY <1>5, AnswerShape
<1>9. f = CASE a.stall -> [c EXCEPT !.stall = TRUE]
            [] a.wait -> c
            [] OTHER -> Reply(c, Cut(a.bytes, r.length))
  BY <1>1, <1>2, <1>3, <1>4, <1>5, Zenon DEF HostSetup, Setup
<1>10. PICK w : w = Cut(a.bytes, r.length)
  OBVIOUS
<1>11. r.length \in Nat
  BY RequestFields
<1>12. w \in Seq(Nat) /\ Len(w) <= r.length
  BY <1>8, <1>10, <1>11, CutLength
<1>13. PICK at : at = IF r.type = "setReport" THEN "out" ELSE IF r.length > 0 THEN "in" ELSE "statusIn"
  OBVIOUS
<1>14. HostIs(g, at, r, w, <<>>, TRUE, host.addr)
  <2>1. PICK n : n = IF r.type = "setConfiguration" THEN 0 ELSE host.left - 1
    OBVIOUS
  <2>2. n \in Int /\ at \in {"in", "out", "statusIn"}
    BY <1>6, <1>13, <2>1 DEF HostState
  <2>3. g = [host EXCEPT !.at = at, !.request = r, !.got = <<>>, !.data1 = TRUE, !.want = w, !.left = n]
    BY <1>1, <1>5, <1>10, <1>13, <2>1, Zenon DEF HostSetup, Asks
  <2>4. QED
    BY <1>6, <1>12, <2>2, <2>3, HostAsks, Zenon
<1>15. CASE a.stall = TRUE
  <2>1. f = [c EXCEPT !.stall = TRUE] /\ r.type # "setReport"
    BY <1>8, <1>9, <1>15
  <2>2. InStep(f, g)
    BY <1>7, <1>13, <1>14, <2>1, NoDataInStep, Zenon
  <2>3. QED
    BY <1>1, <2>2
<1>16. CASE a.stall = FALSE /\ a.wait = TRUE
  <2>1. f = c /\ r.type = "setReport"
    BY <1>8, <1>9, <1>16
  <2>2. InStep(f, g)
    BY <1>7, <1>13, <1>14, <2>1, NoDataInStep, Zenon
  <2>3. QED
    BY <1>1, <2>2
<1>17. CASE a.stall = FALSE /\ a.wait = FALSE
  <2>1. f = Reply(c, w) /\ r.type # "setReport"
    BY <1>8, <1>9, <1>10, <1>17
  <2>2. at = IF r.length > 0 THEN "in" ELSE "statusIn"
    BY <1>13, <2>1
  <2>3. InStep(f, g)
    BY <1>7, <1>12, <1>14, <2>1, <2>2, DataInStep, Zenon
  <2>4. QED
    BY <1>1, <2>3
<1>18. QED
  BY <1>8, <1>15, <1>16, <1>17

\* The new address, once the host has been answered.
Addressed(n, f) ==
  /\ f \in Ep0State /\ f.left = n.left /\ f.addr = n.setup.index
  /\ NextBank(n) => NextBank(f)
LEMMA TakesAddress ==
  ASSUME NEW n \in Ep0State, n.setup \in Requests, NEW f,
         f = [n EXCEPT !.addr = n.setup.index, !.setup.type = "done"]
  PROVE  Addressed(n, f)
<1>1. PICK s : s = [n.setup EXCEPT !.type = "done"]
  OBVIOUS
<1>2. s \in Setups /\ n.setup.index \in Nat
  BY <1>1, RequestFields DEF Setups
<1>3. f = [addr |-> n.setup.index, setup |-> s, rest |-> n.rest, more |-> n.more, bank |-> n.bank,
           data1 |-> n.data1, tx |-> n.tx, hw |-> n.hw, stall |-> n.stall, halted |-> n.halted,
           left |-> n.left]
  BY <1>1 DEF Ep0State
<1>4. f \in Ep0State
  BY <1>2, <1>3 DEF Ep0State
<1>5. /\ f.left = n.left /\ f.addr = n.setup.index /\ f.tx = n.tx /\ f.hw = n.hw /\ f.bank = n.bank
  BY <1>3
<1>6. NextBank(n) => NextBank(f)
  BY <1>5 DEF NextBank, Now, Then
<1>7. QED
  BY <1>4, <1>5, <1>6 DEF Addressed

\* The host takes a packet for one that was sent again.
LEMMA AgainInStep ==
  ASSUME NEW e, NEW h, InStep(e, h), e.stall = FALSE, Now(e).full = TRUE,
         h.at \in {"in", "statusIn"}, Now(e).data1 # h.data1,
         NEW n, Advanced(e, n)
  PROVE  InStep(n, h) /\ n.setup.type # "setAddress"
<1>1. /\ e \in Ep0State /\ h \in HostState /\ e.hw \in {0, 1} /\ e.left \in BOOLEAN
      /\ h.request = e.setup /\ h.request \in Requests
  BY DEF InStep, Ep0State, Addresses
<1>2. /\ n \in Ep0State /\ n.left = e.left /\ n.addr = e.addr /\ n.setup = e.setup
  BY DEF Advanced
<1>3. e.left = TRUE
  <2>1. SUFFICES ASSUME e.left = FALSE PROVE FALSE
    BY <1>1
  <2>2. CASE h.request.type = "setReport"
    <3>1. BothEmpty(e)
      BY <2>1, <2>2 DEF InStep, Silent, Addresses
    <3>2. Now(e).full = FALSE
      BY <1>1, <3>1 DEF BothEmpty, Now
    <3>3. QED
      BY <3>2
  <2>3. CASE h.request.type # "setReport"
    <3>1. Sending(e, h.data1)
      BY <2>1, <2>3 DEF InStep, Flow, Waits
    <3>2. Now(e).data1 = h.data1
      BY <3>1 DEF Sending
    <3>3. QED
      BY <3>2
  <2>4. QED
    BY <2>2, <2>3
<1>4. h.request.type # "setAddress"
  <2>1. SUFFICES ASSUME h.request.type = "setAddress" PROVE FALSE
    OBVIOUS
  <2>2. h.request.length = 0
    BY <1>1, <2>1, RequestFields
  <2>3. h.at = "statusIn"
    BY <2>2 DEF InStep, Addresses
  <2>4. h.data1 = TRUE /\ \A k \in {0, 1} : e.tx[k].full = TRUE => e.tx[k].data1 = TRUE
    BY <2>1, <2>3 DEF InStep, Addresses
  <2>5. Now(e).data1 = TRUE
    BY <1>1, <2>4 DEF Now
  <2>6. QED
    BY <2>4, <2>5
<1>5. Addresses(n, h)
  BY <1>2, <1>4 DEF InStep, Addresses
<1>6. ~(n.left = FALSE)
  BY <1>2, <1>3
<1>7. QED
  BY <1>1, <1>2, <1>4, <1>5, <1>6 DEF InStep, Flow, Silent

\* Sequences that are joined.
LEMMA JoinedThree ==
  ASSUME NEW a \in Seq(Nat), NEW b \in Seq(Nat), NEW c \in Seq(Nat)
  PROVE  /\ a \o (b \o c) = (a \o b) \o c /\ a \o b \in Seq(Nat)
         /\ Len((a \o b) \o c) = Len(a \o b) + Len(c) /\ Len(c) \in Nat /\ Len(a \o b) \in Nat
         /\ (Len(c) = 0 => (a \o b) \o c = a \o b)
<1>1. a \o b \in Seq(Nat) /\ Len(c) \in Nat /\ Len(a \o b) \in Nat
  OBVIOUS
<1>2. a \o (b \o c) = (a \o b) \o c
  OBVIOUS
<1>3. Len((a \o b) \o c) = Len(a \o b) + Len(c)
  BY <1>1
<1>4. Len(c) = 0 => (a \o b) \o c = a \o b
  <2>1. Len(c) = 0 => c = <<>>
    OBVIOUS
  <2>2. (a \o b) \o <<>> = a \o b
    BY <1>1
  <2>3. QED
    BY <2>1, <2>2
<1>5. QED
  BY <1>1, <1>2, <1>3, <1>4

\* As soon as as much has come as was asked for, nothing is left to come.
Whole(want, o, u, k) == want = o \o u /\ (Len(o) >= k => o = want)
LEMMA GotWhole ==
  ASSUME NEW a \in Seq(Nat), NEW b \in Seq(Nat), NEW u \in Seq(Nat), NEW k \in Nat,
         Len(a \o (b \o u)) <= k
  PROVE  Whole(a \o (b \o u), a \o b, u, k)
<1>1. /\ a \o (b \o u) = (a \o b) \o u /\ a \o b \in Seq(Nat)
      /\ Len((a \o b) \o u) = Len(a \o b) + Len(u) /\ Len(u) \in Nat /\ Len(a \o b) \in Nat
      /\ (Len(u) = 0 => (a \o b) \o u = a \o b)
  BY JoinedThree
<1>2. Len(a \o b) + Len(u) <= k
  BY <1>1
<1>3. Len(a \o b) >= k => Len(u) = 0
  BY <1>1, <1>2
<1>4. QED
  BY <1>1, <1>3 DEF Whole

\* The host takes a packet of the data.
LEMMA PacketInStep ==
  ASSUME NEW e, NEW h, InStep(e, h), e.stall = FALSE, Now(e).full = TRUE,
         h.at = "in", Now(e).data1 = h.data1,
         NEW n, Advanced(e, n),
         NEW o, o = h.got \o Now(e).bytes,
         NEW at, at = IF Len(Now(e).bytes) < EP0Size \/ Len(o) >= h.request.length
                      THEN "statusOut" ELSE "in",
         NEW g, HostIs(g, at, h.request, h.want, o, Other(h.data1), h.addr)
  PROVE  InStep(n, g) /\ n.setup.type # "setAddress"
<1>1. /\ e \in Ep0State /\ h \in HostState /\ e.hw \in {0, 1} /\ 1 - e.hw \in {0, 1} /\ e.left \in BOOLEAN
      /\ h.request = e.setup /\ h.request \in Requests /\ h.request.type # "setReport"
      /\ h.request.length > 0 /\ h.addr = e.addr
      /\ h.data1 \in BOOLEAN /\ h.got \in Seq(Nat) /\ h.want \in Seq(Nat)
  BY DEF InStep, Ep0State, Addresses, HostState
<1>2. /\ n \in Ep0State /\ n.left = e.left /\ n.addr = e.addr /\ n.setup = e.setup /\ n.stall = FALSE
  BY DEF Advanced
<1>3. h.request.type # "setAddress" /\ h.request.length \in Nat
  BY <1>1, RequestFields
<1>4. /\ g \in HostState /\ g.at = at /\ g.request = h.request /\ g.want = h.want /\ g.got = o
      /\ g.data1 = Other(h.data1) /\ g.addr = h.addr
  BY DEF HostIs
<1>5. at \in {"in", "statusOut"}
  OBVIOUS
<1>6. Addresses(n, g)
  <2>1. /\ g.addr = n.addr /\ g.request = n.setup /\ g.request \in Requests
        /\ g.request.length > 0 /\ g.request.type # "setReport"
    BY <1>1, <1>2, <1>4
  <2>2. g.at # "out" /\ g.at # "statusIn"
    BY <1>4, <1>5
  <2>3. QED
    BY <2>1, <2>2 DEF Addresses
<1>7. Silent(n, g)
  BY <1>4, <1>5 DEF Silent
<1>8. n.left = FALSE => NextBank(n)
  BY <1>2 DEF InStep, Advanced
<1>9. Flow(n, g)
  <2>1. SUFFICES ASSUME n.left = FALSE
                 PROVE  /\ at = "in" => Sending(n, Other(h.data1)) /\ h.want = o \o Unsent(n)
                                          /\ Len(h.want) <= h.request.length
                        /\ at = "statusOut" => o = h.want
    BY <1>4, <1>5 DEF Flow, Waits
  <2>2. e.left = FALSE
    BY <1>2, <2>1
  <2>3. Sending(e, h.data1) /\ h.want = h.got \o Unsent(e) /\ Len(h.want) <= h.request.length
    BY <1>1, <2>2 DEF InStep, Flow, Waits
  <2>4. NextBank(e)
    BY <2>2 DEF InStep
  <2>5. Now(e).bytes \in Seq(Nat) /\ Then(e).full \in BOOLEAN
    <3>1. e.tx[e.hw] \in PacketState /\ e.tx[1 - e.hw] \in PacketState
      BY <1>1 DEF Ep0State
    <3>2. QED
      BY <3>1 DEF PacketState, Now, Then
  <2>6. CASE Then(e).full = TRUE
    <3>1. Sending(n, Other(h.data1)) /\ Unsent(e) = Now(e).bytes \o Unsent(n)
      BY <1>1, <2>3, <2>4, <2>6 DEF Advanced
    <3>2. Unsent(n) \in Seq(Nat)
      <4>1. n.hw \in {0, 1} /\ 1 - n.hw \in {0, 1} /\ n.rest \in Seq(Nat)
        BY <1>2 DEF Ep0State
      <4>2. n.tx[n.hw] \in PacketState /\ n.tx[1 - n.hw] \in PacketState
        BY <1>2, <4>1 DEF Ep0State
      <4>3. Now(n).bytes \in Seq(Nat) /\ Then(n).bytes \in Seq(Nat)
        BY <4>2 DEF PacketState, Now, Then
      <4>4. QED
        BY <4>1, <4>3 DEF Unsent
    <3>3. Whole(h.want, o, Unsent(n), h.request.length)
      <4>1. h.want = h.got \o (Now(e).bytes \o Unsent(n))
        BY <2>3, <3>1
      <4>2. Whole(h.got \o (Now(e).bytes \o Unsent(n)), h.got \o Now(e).bytes, Unsent(n), h.request.length)
        BY <1>1, <1>3, <2>3, <2>5, <3>2, <4>1, GotWhole, Zenon
      <4>3. QED
        BY <4>1, <4>2, Zenon
    <3>4. ~(Len(Now(e).bytes) < EP0Size)
      BY <2>3, <2>6, ControlAssumption DEF Sending
    <3>5. at = "statusOut" => Len(o) >= h.request.length
      BY <3>4, Zenon
    <3>6. QED
      BY <2>3, <3>1, <3>3, <3>5, Zenon DEF Whole
  <2>7. CASE Then(e).full = FALSE
    <3>1. Len(Now(e).bytes) < EP0Size /\ Unsent(e) = Now(e).bytes
      BY <1>1, <2>3, <2>7 DEF Advanced
    <3>2. QED
      BY <2>3, <3>1
  <2>8. QED
    BY <2>5, <2>6, <2>7
<1>10. QED
  BY <1>1, <1>2, <1>3, <1>4, <1>6, <1>7, <1>8, <1>9 DEF InStep

\* The host takes the empty packet that ends its transfer.
LEMMA StatusInStep ==
  ASSUME NEW e, NEW h, InStep(e, h), Now(e).full = TRUE, h.at = "statusIn",
         NEW n, Advanced(e, n),
         NEW f, f = IF n.setup.type # "setAddress" THEN n
                    ELSE [n EXCEPT !.addr = n.setup.index, !.setup.type = "done"],
         NEW x, x = IF h.request.type = "setAddress" THEN h.request.index ELSE h.addr,
         NEW g, HostIs(g, "idle", None, <<>>, <<>>, TRUE, x)
  PROVE  InStep(f, g)
<1>1. /\ h.request = e.setup /\ h.request \in Requests /\ h.addr = e.addr
      /\ e.left = FALSE => NextBank(e)
  BY DEF InStep, Addresses
<1>2. /\ n \in Ep0State /\ n.left = e.left /\ n.addr = e.addr /\ n.setup = e.setup
      /\ NextBank(e) /\ Now(e).full = TRUE => NextBank(n)
  BY DEF Advanced
<1>3. f \in Ep0State /\ f.left = n.left /\ x = f.addr /\ (NextBank(n) => NextBank(f))
  <2>1. CASE n.setup.type # "setAddress"
    BY <1>1, <1>2, <2>1
  <2>2. CASE n.setup.type = "setAddress"
    <3>1. f = [n EXCEPT !.addr = n.setup.index, !.setup.type = "done"] /\ n.setup \in Requests
      BY <1>1, <1>2, <2>2
    <3>2. Addressed(n, f)
      BY <1>2, <3>1, TakesAddress, Zenon
    <3>3. QED
      BY <1>1, <1>2, <2>2, <3>2 DEF Addressed
  <2>3. QED
    BY <2>1, <2>2
<1>4. f.left = FALSE => NextBank(f)
  BY <1>1, <1>2, <1>3
<1>5. QED
  BY <1>3, <1>4, IdleInStep, Zenon

\* The two halves of InDone.
Fed(t) ==
  IF ~t.more THEN t
  ELSE [Transmit0(t, t.rest) EXCEPT !.rest = Remaining(@), !.more = Len(t.rest) >= EP0Size]
Ended(n) ==
  IF n.setup.type # "setAddress" THEN n
  ELSE [n EXCEPT !.addr = n.setup.index, !.setup.type = "done"]

LEMMA InStepAfterIn ==
  ASSUME InStep(ep0, host), HostIn PROVE InStep(ep0, host)'
<1>1. PICK f, g : f = ep0' /\ g = host'
  OBVIOUS
<1>2. PICK x : x = [ep0.tx EXCEPT ![ep0.hw] = NoPacket]
  OBVIOUS
<1>3. PICK t : t = [ep0 EXCEPT !.tx = x, !.hw = 1 - ep0.hw]
  OBVIOUS
<1>4. PICK q : q = Transmit0(t, t.rest)
  OBVIOUS
<1>5. PICK n : n = IF t.more = FALSE THEN t
                   ELSE [q EXCEPT !.rest = Remaining(t.rest), !.more = Len(t.rest) >= EP0Size]
  OBVIOUS
<1>6. ep0 \in Ep0State /\ host \in HostState /\ ep0.hw \in {0, 1} /\ ep0.stall \in BOOLEAN
  BY DEF InStep, Ep0State
<1>7. Advanced(ep0, n)
  <2>1. Taken(ep0, x, t, q, n)
    BY <1>2, <1>3, <1>4, <1>5, Zenon DEF Taken
  <2>2. QED
    BY <1>6, <2>1, NextUp, Zenon
<1>8. t.more \in BOOLEAN /\ q.rest = t.rest
  <2>1. Taken0(ep0, t)
    BY <1>2, <1>3, <1>6, TakenPacket, Zenon
  <2>2. t \in Ep0State
    BY <2>1 DEF Taken0
  <2>3. t.more \in BOOLEAN /\ t.rest \in Seq(Nat)
    BY <2>2 DEF Ep0State
  <2>4. Filled0(t, t.rest, q)
    BY <1>4, <2>2, <2>3, Transmit0Fills, Zenon
  <2>5. QED
    BY <2>3, <2>4 DEF Filled0
<1>9. f = IF n.setup.type # "setAddress" THEN n
          ELSE [n EXCEPT !.addr = n.setup.index, !.setup.type = "done"]
  <2>0. f = InDone
    BY <1>1 DEF HostIn
  <2>1. t = [ep0 EXCEPT !.tx[ep0.hw] = NoPacket, !.hw = 1 - @]
    BY <1>2, <1>3, <1>6 DEF Ep0State
  <2>2. n = IF ~t.more THEN t
            ELSE [q EXCEPT !.rest = Remaining(@), !.more = Len(t.rest) >= EP0Size]
    BY <1>5, <1>8
  <2>3. InDone = Ended(Fed([ep0 EXCEPT !.tx[ep0.hw] = NoPacket, !.hw = 1 - @]))
    BY Zenon DEF InDone, Ended, Fed
  <2>4. n = Fed(t)
    BY <1>4, <2>2, Zenon DEF Fed
  <2>5. f = Ended(n)
    BY <2>0, <2>1, <2>3, <2>4, Zenon
  <2>6. QED
    BY <2>5, Zenon DEF Ended
<1>10. PICK o : o = host.got \o Now(ep0).bytes
  OBVIOUS
<1>11. PICK at : at = IF Len(Now(ep0).bytes) < EP0Size \/ Len(o) >= host.request.length
                      THEN "statusOut" ELSE "in"
  OBVIOUS
<1>12. /\ host.at \in {"in", "statusIn"} /\ ep0.stall = FALSE /\ Now(ep0).full = TRUE
       /\ Now(ep0).bytes \in Seq(Nat)
  <2>1. ep0.tx[ep0.hw] \in PacketState
    BY <1>6 DEF Ep0State
  <2>2. QED
    BY <1>6, <2>1 DEF HostIn, Now, PacketState
<1>13. g = IF Now(ep0).data1 # host.data1 THEN host
           ELSE IF host.at = "in" THEN [host EXCEPT !.got = o, !.data1 = ~@, !.at = at]
           ELSE Rests(IF host.request.type = "setAddress" THEN host.request.index ELSE host.addr)
  BY <1>1, <1>10, <1>11, Zenon DEF HostIn, Now
<1>14. CASE Now(ep0).data1 # host.data1
  <2>1. InStep(n, host) /\ n.setup.type # "setAddress"
    BY <1>7, <1>12, <1>14, AgainInStep, Zenon
  <2>2. f = n /\ g = host
    BY <1>9, <1>13, <1>14, <2>1
  <2>3. QED
    BY <1>1, <2>1, <2>2
<1>15. CASE Now(ep0).data1 = host.data1 /\ host.at = "in"
  <2>1. g = [host EXCEPT !.got = o, !.data1 = ~@, !.at = at]
    BY <1>13, <1>15
  <2>2. o \in Seq(Nat) /\ at \in {"in", "statusOut"}
    BY <1>6, <1>10, <1>11, <1>12 DEF HostState
  <2>3. HostIs(g, at, host.request, host.want, o, Other(host.data1), host.addr)
    BY <1>6, <2>1, <2>2, HostTakes, Zenon
  <2>4. InStep(n, g) /\ n.setup.type # "setAddress"
    BY <1>7, <1>10, <1>11, <1>12, <1>15, <2>3, PacketInStep, Zenon
  <2>5. QED
    BY <1>1, <1>9, <2>4
<1>16. CASE Now(ep0).data1 = host.data1 /\ host.at # "in"
  <2>1. PICK a : a = IF host.request.type = "setAddress" THEN host.request.index ELSE host.addr
    OBVIOUS
  <2>2. host.at = "statusIn" /\ a \in Nat
    <3>1. host.at = "statusIn"
      BY <1>12, <1>16
    <3>2. host.request \in Requests
      BY <3>1 DEF InStep, Addresses
    <3>3. QED
      BY <1>6, <2>1, <3>1, <3>2, RequestFields DEF HostState
  <2>3. HostIs(g, "idle", None, <<>>, <<>>, TRUE, a)
    <3>1. g = [host EXCEPT !.at = "idle", !.request = None, !.want = <<>>, !.got = <<>>,
                 !.data1 = TRUE, !.addr = a]
      BY <1>13, <1>16, <2>1 DEF Rests
    <3>2. QED
      BY <1>6, <2>2, <3>1, HostRests, Zenon
  <2>4. InStep(f, g)
    BY <1>7, <1>9, <1>12, <2>1, <2>2, <2>3, StatusInStep, Zenon
  <2>5. QED
    BY <1>1, <2>4
<1>17. QED
  BY <1>12, <1>14, <1>15, <1>16

LEMMA InStepAfterOut ==
  ASSUME InStep(ep0, host), HostOut PROVE InStep(ep0, host)'
<1>1. PICK g : g = host'
  OBVIOUS
<1>2. /\ ep0 \in Ep0State /\ host \in HostState /\ host.addr = ep0.addr /\ host.addr \in Nat
      /\ ep0.left = FALSE => NextBank(ep0)
  BY DEF InStep, Addresses, HostState
<1>3. /\ host.at \in {"out", "statusOut"} /\ ep0' = ep0
      /\ g = IF host.at = "out" THEN [host EXCEPT !.at = "statusIn"] ELSE Rests(host.addr)
  BY <1>1 DEF HostOut
<1>4. InStep(ep0, g)
  <2>1. CASE host.at = "out"
    <3>1. HostIs(g, "statusIn", host.request, host.want, host.got, host.data1, host.addr)
      <4>1. g = [host EXCEPT !.at = "statusIn"]
        BY <1>3, <2>1
      <4>2. QED
        BY <1>2, <4>1, HostGoesOn, Zenon
    <3>2. /\ host.request = ep0.setup /\ host.request \in Requests /\ host.data1 = TRUE
          /\ host.request.type = "setReport" /\ (ep0.left = FALSE => BothEmpty(ep0))
      BY <2>1 DEF InStep, Addresses, Silent
    <3>3. /\ g \in HostState /\ g.at = "statusIn" /\ g.request = host.request
          /\ g.data1 = TRUE /\ g.addr = ep0.addr
      BY <1>2, <3>1, <3>2 DEF HostIs
    <3>4. Addresses(ep0, g) /\ Flow(ep0, g) /\ Silent(ep0, g)
      BY <3>2, <3>3 DEF Addresses, Flow, Waits, Silent
    <3>5. QED
      BY <1>2, <3>3, <3>4 DEF InStep
  <2>2. CASE host.at # "out"
    <3>1. g = [host EXCEPT !.at = "idle", !.request = None, !.want = <<>>, !.got = <<>>,
                 !.data1 = TRUE, !.addr = host.addr]
      BY <1>3, <2>2 DEF Rests
    <3>2. HostIs(g, "idle", None, <<>>, <<>>, TRUE, host.addr)
      BY <1>2, <3>1, HostRests, Zenon
    <3>3. QED
      BY <1>2, <3>2, IdleInStep, Zenon
  <2>3. QED
    BY <2>1, <2>2
<1>5. QED
  BY <1>1, <1>3, <1>4

\* The handshake that tells the host of a stall ends it.
LEMMA InStepAfterStall ==
  ASSUME InStep(ep0, host), HostStalled PROVE InStep(ep0, host)'
<1>1. PICK f, g : f = ep0' /\ g = host'
  OBVIOUS
<1>2. /\ ep0 \in Ep0State /\ host \in HostState /\ host.addr = ep0.addr /\ host.addr \in Nat
      /\ ep0.left = FALSE => NextBank(ep0)
  BY DEF InStep, Addresses, HostState
<1>3. f = [addr |-> ep0.addr, setup |-> ep0.setup, rest |-> ep0.rest, more |-> ep0.more,
           bank |-> ep0.bank, data1 |-> ep0.data1, tx |-> ep0.tx, hw |-> ep0.hw, stall |-> FALSE,
           halted |-> ep0.halted, left |-> ep0.left]
  BY <1>1, <1>2 DEF HostStalled, Ep0State
<1>4. f \in Ep0State
  BY <1>2, <1>3 DEF Ep0State
<1>5. f.addr = ep0.addr /\ f.left = ep0.left /\ f.tx = ep0.tx /\ f.hw = ep0.hw /\ f.bank = ep0.bank
  BY <1>3
<1>6. f.left = FALSE => NextBank(f)
  BY <1>2, <1>5 DEF NextBank, Now, Then
<1>7. HostIs(g, "idle", None, <<>>, <<>>, TRUE, host.addr)
  <2>1. g = [host EXCEPT !.at = "idle", !.request = None, !.want = <<>>, !.got = <<>>,
               !.data1 = TRUE, !.addr = host.addr]
    BY <1>1 DEF HostStalled, Rests
  <2>2. QED
    BY <1>2, <2>1, HostRests, Zenon
<1>8. host.addr = f.addr
  BY <1>2, <1>5
<1>9. InStep(f, g)
  BY <1>4, <1>6, <1>7, <1>8, IdleInStep, Zenon
<1>10. QED
  BY <1>1, <1>9

\* A bus reset starts from empty banks and address 0.
LEMMA InStepAfterReset ==
  ASSUME InStep(ep0, host), ResetControl PROVE InStep(ep0, host)'
<1>1. PICK f, g : f = ep0' /\ g = host'
  OBVIOUS
<1>2. PICK x : x = [k \in {0, 1} |-> NoPacket]
  OBVIOUS
<1>3. ep0 \in Ep0State /\ host \in HostState
  BY DEF InStep
<1>4. x \in [{0, 1} -> PacketState] /\ x[0].full = FALSE /\ x[1].full = FALSE
  BY <1>2 DEF PacketState, NoPacket
<1>5. f = [ep0 EXCEPT !.addr = 0, !.bank = 0, !.hw = 0, !.stall = FALSE, !.left = FALSE, !.tx = x]
  BY <1>1, <1>2, Zenon DEF ResetControl
<1>6. f = [addr |-> 0, setup |-> ep0.setup, rest |-> ep0.rest, more |-> ep0.more, bank |-> 0,
           data1 |-> ep0.data1, tx |-> x, hw |-> 0, stall |-> FALSE, halted |-> ep0.halted,
           left |-> FALSE]
  <2>. HIDE <1>2
  <2>. QED
    BY <1>3, <1>5 DEF Ep0State
<1>7. f \in Ep0State
  BY <1>3, <1>4, <1>6 DEF Ep0State
<1>8. f.addr = 0 /\ f.tx = x /\ f.hw = 0 /\ f.bank = 0
  BY <1>6
<1>9. NextBank(f)
  BY <1>4, <1>8 DEF NextBank, Now, Then
<1>10. HostIs(g, "idle", None, <<>>, <<>>, TRUE, 0)
  <2>1. g = [host EXCEPT !.at = "idle", !.request = None, !.want = <<>>, !.got = <<>>,
               !.data1 = TRUE, !.addr = 0]
    BY <1>1, Zenon DEF ResetControl, Rests
  <2>2. QED
    BY <1>3, <2>1, HostRests, Zenon
<1>11. InStep(f, g)
  BY <1>7, <1>8, <1>9, <1>10, IdleInStep, Zenon
<1>12. QED
  BY <1>1, <1>11

LEMMA InStepInitially == ControlInit => InStep(ep0, host)
<1> SUFFICES ASSUME ControlInit PROVE InStep(ep0, host)
  OBVIOUS
<1>1. PICK x : x = [k \in {0, 1} |-> NoPacket]
  OBVIOUS
<1>2. x \in [{0, 1} -> PacketState] /\ x[0].full = FALSE /\ x[1].full = FALSE
  BY <1>1 DEF PacketState, NoPacket
<1>3. ep0 = [addr |-> 0, setup |-> None, rest |-> <<>>, more |-> FALSE, bank |-> 0,
             data1 |-> FALSE, tx |-> x, hw |-> 0, stall |-> FALSE, halted |-> {}, left |-> FALSE]
  BY <1>1, Zenon DEF ControlInit
<1>4. None \in Setups /\ <<>> \in Seq(Nat) /\ {} \in SUBSET Nat /\ MaxRequests \in Int
  BY ControlAssumption DEF Setups
<1>5. ep0 \in Ep0State
  BY <1>2, <1>3, <1>4 DEF Ep0State
<1>6. ep0.addr = 0 /\ NextBank(ep0)
  BY <1>2, <1>3 DEF NextBank, Now, Then
<1>7. HostIs(host, "idle", None, <<>>, <<>>, TRUE, 0)
  <2>1. host = [at |-> "idle", request |-> None, want |-> <<>>, got |-> <<>>, data1 |-> TRUE,
                addr |-> 0, left |-> MaxRequests]
    BY DEF ControlInit
  <2>2. host \in HostState
    BY <1>4, <2>1 DEF HostState
  <2>3. QED
    BY <2>1, <2>2 DEF HostIs
<1>8. QED
  BY <1>5, <1>6, <1>7, IdleInStep, Zenon

(***************************************************************************)
(* As long as the host has taken what it was offered, usb_setup and        *)
(* usb_control answer it in step: with its address, from the bank and with *)
(* the toggle it expects, and with all that it asked for.                  *)
(***************************************************************************)
THEOREM ControlStaysInStep == ControlSpec => []ControlInStep
<1>1. ControlInit => InStep(ep0, host)
  BY InStepInitially
<1>2. InStep(ep0, host) /\ [ControlNext]_<<vars, ctl>> => InStep(ep0, host)'
  <2>1. ASSUME InStep(ep0, host), UNCHANGED ctl PROVE InStep(ep0, host)'
    BY <2>1 DEF ctl
  <2>2. ASSUME InStep(ep0, host), NEW r \in Requests, HostSetup(r) PROVE InStep(ep0, host)'
    BY <2>2, SetupStep
  <2>. QED
    BY <2>1, <2>2, InStepAfterIn, InStepAfterOut, InStepAfterStall, InStepAfterReset
    DEF ControlNext, Loop, Endpoints, Transfers
<1>3. InStep(ep0, host) => ControlInStep
  <2> SUFFICES ASSUME InStep(ep0, host) PROVE ControlInStep
    OBVIOUS
  <2>1. /\ ep0 \in Ep0State /\ ep0.left \in BOOLEAN /\ ep0.stall \in BOOLEAN
        /\ host.addr = ep0.addr
    BY DEF InStep, Ep0State, Addresses
  <2>2. ep0.left = FALSE /\ Waiting /\ ep0.stall = FALSE => Sending(ep0, host.data1)
    BY DEF InStep, Flow, Waits, Waiting
  <2>3. ep0.left = FALSE /\ host.at = "statusOut" => host.got = host.want
    BY DEF InStep, Flow
  <2>4. Sending(ep0, host.data1) =>
          ep0.tx[ep0.hw].full = TRUE /\ ep0.tx[ep0.hw].data1 = host.data1
    BY DEF Sending, Now
  <2>5. QED
    BY <2>1, <2>2, <2>3, <2>4 DEF ControlInStep
<1>4. QED
  BY <1>1, <1>2, <1>3, PTL DEF ControlSpec
=============================================================================
