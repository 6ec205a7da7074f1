----------------------------- MODULE UsbControl -----------------------------
(***************************************************************************)
(* Endpoint 0 of the Teensy (usb_setup and usb_control in usb_dev.c) with  *)
(* the host's control transfers, and the rest of the device (UsbDevice),   *)
(* which SET_CONFIGURATION and bus resets reach through it.                *)
(*                                                                         *)
(* A token and the interrupt for it are one step: the controller answers   *)
(* NAK until the handler has run.  The host may give a transfer up for     *)
(* another at any point.  The contents of a descriptor are a sequence,     *)
(* EP0_SIZE a small number.                                                *)
(***************************************************************************)
EXTENDS UsbDevice

CONSTANTS
  Requests,    \* what the host asks, see the cases of Answer
  Descriptors, \* usb_descriptor_list: contents by wValue and wIndex
  EP0Size, NumEndpoints,
  MaxRequests  \* bound: requests before the first SET_CONFIGURATION

ASSUME ControlAssumption ==
  /\ EP0Size \in Nat \ {0} /\ {NumEndpoints, MaxRequests} \subseteq Nat
\* A host sends SET_ADDRESS without data, as USB defines it.
ASSUME RequestsAssumption ==
  /\ \A r \in Requests :
       /\ r = [type |-> r.type, index |-> r.index, length |-> r.length]
       /\ {r.index, r.length} \subseteq Nat
       /\ r.type = "setAddress" => r.length = 0
  /\ \A i \in DOMAIN Descriptors : Descriptors[i] \in Seq(Nat)

VARIABLES
  ep0,  \* the device: addr, setup, rest (ep0_tx_ptr.., if more), bank and data1
        \* for the next packet, tx: the two banks, hw: which of them the
        \* controller uses next, stall, halted; left: a bank was cleared unsent
  host  \* its transfer: at, request, want, got, data1; addr, requests left

ctl == <<ep0, host>>
None == [type |-> "done", index |-> 0, length |-> 0]
NoPacket == [full |-> FALSE, data1 |-> FALSE, bytes |-> <<>>]
Nothing == [stall |-> FALSE, wait |-> FALSE, bytes |-> <<>>]
Stall == [Nothing EXCEPT !.stall = TRUE]
Bytes(b) == [Nothing EXCEPT !.bytes = b]
Cut(b, n) == SubSeq(b, 1, Min({n, Len(b)}))
Packet(b) == Cut(b, EP0Size)
Remaining(b) == SubSeq(b, EP0Size + 1, Len(b))

-----------------------------------------------------------------------------
(* The device.                                                             *)

\* usb_setup: what becomes of a request.  GET_STATUS takes wIndex as it is,
\* so that an IN endpoint (128 and up) does not exist for it; a feature that
\* is not ENDPOINT_HALT (wValue # 0) is a request of another type.
Answer(r) ==
  CASE r.type \in {"setAddress", "setConfiguration", "setIdle"} -> Nothing
    [] r.type = "getConfiguration" -> Bytes(<<IF Configured THEN 1 ELSE 0>>)
    [] r.type = "getStatus" -> Bytes(<<0, 0>>)
    [] r.type = "endpointStatus" ->
         IF r.index > NumEndpoints THEN Stall
         ELSE Bytes(<<IF r.index \in ep0.halted THEN 1 ELSE 0, 0>>)
    [] r.type \in {"clearFeature", "setFeature"} ->
         IF r.index % 128 > NumEndpoints THEN Stall ELSE Nothing
    [] r.type = "getDescriptor" ->
         IF r.index \in DOMAIN Descriptors THEN Bytes(Descriptors[r.index]) ELSE Stall
    [] r.type = "setReport" -> [Nothing EXCEPT !.wait = TRUE]
    [] OTHER -> Stall

\* Bit EPSTALL of the register at USB0_ENDPT0 + 4 * wIndex: what is checked
\* is wIndex & 0x7F, but 128 and up are not the endpoints' registers.  That
\* of endpoint 0 itself is what endpoint0_stall sets.
Register(r) == {r.index} \cap 1..NumEndpoints
Halted(r, halted) ==
  CASE r.type = "setFeature" -> halted \cup Register(r)
    [] r.type = "clearFeature" -> halted \ Register(r)
    [] r.type = "setConfiguration" -> {}
    [] OTHER -> halted
HaltsItself(r) == r.type = "setFeature" /\ r.index = 0

\* endpoint0_transmit
Transmit0(e, b) ==
  [e EXCEPT !.tx[e.bank] = [full |-> TRUE, data1 |-> e.data1, bytes |-> Packet(b)],
            !.data1 = ~@, !.bank = 1 - @]
\* ControlInStep: no empty packet after one that is exactly full.
Reply_Bug(e, b) ==
  LET one == Transmit0(e, b)
      two == Transmit0(one, Remaining(b)) IN
  CASE Len(b) <= EP0Size -> one
    [] Len(b) > EP0Size /\ Len(b) <= 2 * EP0Size -> two
    [] OTHER -> [two EXCEPT !.more = TRUE, !.rest = Remaining(Remaining(b))]
\* The end of usb_setup: up to two packets at once; a short one is the last.
Reply(e, b) ==
  LET one == Transmit0(e, b)
      two == Transmit0(one, Remaining(b)) IN
  CASE Len(b) < EP0Size -> one
    [] Len(b) >= EP0Size /\ Len(b) < 2 * EP0Size -> two
    [] OTHER -> [two EXCEPT !.more = TRUE, !.rest = Remaining(Remaining(b))]

\* usb_control, SETUP: what is left of the last reply is dropped.
Setup(r) ==
  LET a == Answer(r)
      clear == [ep0 EXCEPT !.setup = r, !.more = FALSE, !.rest = <<>>, !.data1 = TRUE,
                  !.tx = [k \in {0, 1} |-> NoPacket], !.halted = Halted(r, @),
                  !.stall = HaltsItself(r),
                  !.left = @ \/ \E k \in {0, 1} : ep0.tx[k].full] IN
  CASE a.stall -> [clear EXCEPT !.stall = TRUE]
    [] a.wait -> clear
    [] OTHER -> Reply(clear, Cut(a.bytes, r.length))

\* usb_control, IN: the packet in the bank has been taken.  Only now does
\* the device take its new address.
InDone ==
  LET taken == [ep0 EXCEPT !.tx[ep0.hw] = NoPacket, !.hw = 1 - @]
      next == IF ~taken.more THEN taken
              ELSE [Transmit0(taken, taken.rest) EXCEPT
                      !.rest = Remaining(@), !.more = Len(taken.rest) >= EP0Size] IN
  IF next.setup.type # "setAddress" THEN next
  ELSE [next EXCEPT !.addr = next.setup.index, !.setup.type = "done"]

-----------------------------------------------------------------------------
(* The host.                                                               *)

Rests(addr) == [host EXCEPT !.at = "idle", !.request = None, !.want = <<>>, !.got = <<>>,
                  !.data1 = TRUE, !.addr = addr]
Asks(r) == host' = [host EXCEPT
  !.at = IF r.type = "setReport" THEN "out" ELSE IF r.length > 0 THEN "in" ELSE "statusIn",
  !.request = r, !.got = <<>>, !.data1 = TRUE,
  !.want = Cut(Answer(r).bytes, r.length),
  !.left = IF r.type = "setConfiguration" THEN 0 ELSE @ - 1]

HostSetup(r) ==
  /\ ~ep0.stall
  /\ ep0' = Setup(r) /\ Asks(r)
  /\ IF r.type = "setConfiguration" THEN SetConfiguration
     ELSE host.left > 0 /\ ~conf.host /\ UNCHANGED vars

HostStalled ==
  /\ ep0.stall /\ host.at # "idle"
  /\ ep0' = [ep0 EXCEPT !.stall = FALSE] /\ host' = Rests(host.addr)
  /\ UNCHANGED vars

\* A packet with the other toggle is taken for one that was sent again.
HostIn ==
  LET p == ep0.tx[ep0.hw]
      got == host.got \o p.bytes
      last == Len(p.bytes) < EP0Size \/ Len(got) >= host.request.length IN
  /\ host.at \in {"in", "statusIn"} /\ ~ep0.stall /\ p.full
  /\ ep0' = InDone
  /\ host' = IF p.data1 # host.data1 THEN host
             ELSE IF host.at = "in"
             THEN [host EXCEPT !.got = got, !.data1 = ~@, !.at = IF last THEN "statusOut" ELSE "in"]
             ELSE Rests(IF host.request.type = "setAddress" THEN host.request.index ELSE host.addr)
  /\ UNCHANGED vars

\* The buffer is given back at once; the data of a report are not for the
\* device, and nothing answers them.
HostOut ==
  /\ host.at \in {"out", "statusOut"} /\ ~ep0.stall
  /\ host' = IF host.at = "out" THEN [host EXCEPT !.at = "statusIn"]
             ELSE Rests(host.addr)
  /\ UNCHANGED <<vars, ep0>>

ResetControl ==
  /\ BusReset
  /\ ep0' = [ep0 EXCEPT !.addr = 0, !.bank = 0, !.hw = 0, !.stall = FALSE, !.left = FALSE,
               !.tx = [k \in {0, 1} |-> NoPacket]]
  /\ host' = Rests(0)

Transfers ==
  \/ \E r \in Requests : HostSetup(r)
  \/ HostStalled \/ HostIn \/ HostOut

-----------------------------------------------------------------------------
ControlInit ==
  /\ UsbInit
  /\ ep0 = [addr |-> 0, setup |-> None, rest |-> <<>>, more |-> FALSE, bank |-> 0,
            data1 |-> FALSE, tx |-> [k \in {0, 1} |-> NoPacket], hw |-> 0, stall |-> FALSE,
            halted |-> {}, left |-> FALSE]
  /\ host = [at |-> "idle", request |-> None, want |-> <<>>, got |-> <<>>, data1 |-> TRUE,
             addr |-> 0, left |-> MaxRequests]

\* A configured device serves its other endpoints between two transfers.
Loop == (Main \/ WriteStart) /\ UNCHANGED ctl
Endpoints == (Receive \/ ReceiveEmpty \/ Transmit \/ SofFlush) /\ UNCHANGED ctl
ControlNext == Loop \/ Endpoints \/ Transfers \/ ResetControl
ControlSpec == ControlInit /\ [][ControlNext]_<<vars, ctl>>
FairControlSpec ==
  /\ ControlSpec
  /\ WF_<<vars, ctl>>(Main /\ UNCHANGED ctl) /\ WF_<<vars, ctl>>(SofFlush /\ UNCHANGED ctl)

(***************************************************************************)
(* As long as the host has taken what it was offered, the device answers   *)
(* in step with it: it has the address the host uses, the next packet is   *)
(* in the bank from which the controller sends, with the toggle the host   *)
(* expects, and a transfer that has ended has delivered what was asked     *)
(* for.  (A reply that is dropped by the next SETUP does not take          *)
(* ep0_tx_bdt_bank back: the reply after it is in the other bank.)         *)
(***************************************************************************)
Waiting == host.at \in {"in", "statusIn"} /\ host.request.type # "setReport"
ControlInStep ==
  /\ host.addr = ep0.addr
  /\ ~ep0.left /\ Waiting /\ ~ep0.stall =>
       ep0.tx[ep0.hw].full /\ ep0.tx[ep0.hw].data1 = host.data1
  /\ ~ep0.left /\ host.at = "statusOut" => host.got = host.want
=============================================================================
