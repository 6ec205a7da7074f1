--------------------------- MODULE MCHexedEditor ----------------------------
(* Sixteen addresses in four rows, two rows on the screen, binary digits.  *)
EXTENDS HexedEditor

MCPredef == <<0, 8, 12>>
MCRegion == [a \in 0..15 |-> CASE a < 4 -> "memory" [] a < 8 -> "tmss"
                               [] a < 12 -> "marsVdp" [] OTHER -> "vdpData"]
\* Every button alone, the usual pairs, the d-pad caught by one of the two
\* reads only, and two directions at once.
MCInputs == {{}, {"u0", "u1"}, {"d0", "d1"}, {"u1"}, {"u0"}, {"l"}, {"r"},
             {"a"}, {"a", "u0", "u1"}, {"a", "r"}, {"b"}, {"c"}, {"s"},
             {"l", "d0", "d1"}}
=============================================================================
