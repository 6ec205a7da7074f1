---------------------------- MODULE MCUsbControl ----------------------------
(***************************************************************************)
(* One request of each kind that usb_setup tells apart, with descriptors   *)
(* shorter than a packet, as long as two and longer; wLength as large as   *)
(* they need, larger, and cut off at a packet's end.                       *)
(***************************************************************************)
EXTENDS UsbControl
MCBuffers == 1..6
MCDescriptors == <<<<1>>, <<1, 2, 3, 4>>, <<1, 2, 3, 4, 5>>>>
Ask(type, index, length) == [type |-> type, index |-> index, length |-> length]
MCRequests ==
  {Ask("setAddress", 1, 0), Ask("setConfiguration", 1, 0), Ask("setIdle", 0, 0),
   Ask("getConfiguration", 0, 1), Ask("endpointStatus", 1, 2), Ask("endpointStatus", 129, 2),
   Ask("setFeature", 0, 0), Ask("setFeature", 1, 0), Ask("setFeature", 129, 0),
   Ask("clearFeature", 1, 0), Ask("setReport", 0, 1),
   Ask("getDescriptor", 1, 9), Ask("getDescriptor", 2, 9), Ask("getDescriptor", 3, 5),
   Ask("getDescriptor", 3, 2), Ask("getDescriptor", 4, 9)}
=============================================================================
