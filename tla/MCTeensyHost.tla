---------------------------- MODULE MCTeensyHost ----------------------------
(* A keyboard with two keys for A, opened behind a joystick bound by       *)
(* "j=0l" for a player whom only a Team Player has (with another input for *)
(* left), and two devices of that player that say nothing.                 *)
EXTENDS TeensyHost
Device(player, binds, keycodes, axes, min, max) ==
  [player |-> player, binds |-> binds, keys |-> keycodes, axes |-> axes, min |-> min, max |-> max]
MCArgs ==
  <<Device(2, <<>>, {}, {}, 0, 0), Device(2, <<>>, {}, {}, 0, 0),
    Device(2, <<[first |-> 288, btns |-> <<"0", "l">>]>>, {289}, {0}, -1, 7),
    Device(0, <<>>, {44, 102}, {}, 0, 0)>>
MCPlaces == {0, 1, 6}
MCModes == {"3btn", "tp"}
Budget(k, s, p, f, u, d) ==
  [keys |-> k, selects |-> s, prints |-> p, fails |-> f, unplugs |-> u, detaches |-> d]
MCBudgets == {Budget(3, 0, 0, 1, 0, 0), Budget(1, 1, 0, 1, 0, 0), Budget(1, 1, 1, 0, 1, 0), Budget(2, 0, 0, 0, 0, 1),
   Budget(1, 0, 0, 0, 1, 3)}
=============================================================================
