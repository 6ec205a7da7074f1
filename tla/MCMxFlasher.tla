----------------------------- MODULE MCMxFlasher ----------------------------
(* A flash of eight units with pages of two sizes, as in the page tables.  *)
EXTENDS MxFlasher

MCTable == <<[start |-> 0, end |-> 1, page |-> 1], [start |-> 2, end |-> 7, page |-> 2]>>

Req(w, n, e, a, save, v) ==
  [info |-> FALSE, write |-> w, size |-> n, erase |-> e, all |-> a, sram |-> save,
   mode |-> FALSE, read |-> FALSE, unnamed |-> FALSE, readRam |-> FALSE, verify |-> v]
MCRequests ==
  { Req(TRUE, n, FALSE, all, FALSE, v) : n \in {1, 3, 4, 5, 8}, all \in BOOLEAN, v \in BOOLEAN }
    \cup { [Req(FALSE, 0, TRUE, all, FALSE, FALSE) EXCEPT !.info = TRUE] : all \in BOOLEAN }
    \cup { Req(w, 5, FALSE, FALSE, TRUE, v) : w \in BOOLEAN, v \in BOOLEAN }
    \cup { [Req(FALSE, 0, FALSE, FALSE, FALSE, FALSE) EXCEPT
              !.info = TRUE, !.mode = TRUE, !.read = TRUE, !.unnamed = u, !.readRam = u] : u \in BOOLEAN }
MCOversize == {Req(TRUE, 10, FALSE, FALSE, FALSE, FALSE)}
MCReadBack == {Req(TRUE, 5, FALSE, FALSE, FALSE, TRUE)}
MCEmpty == {Req(TRUE, 0, FALSE, FALSE, FALSE, FALSE)}
=============================================================================
