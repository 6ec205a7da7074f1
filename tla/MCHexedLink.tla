----------------------------- MODULE MCHexedLink ----------------------------
(* A transfer with every kind of step and every legal neighbourhood of two. *)
EXTENDS HexedLink

MCNibble == 0..1

Step(op, lo, hi) == [op |-> op, byte |-> <<lo, hi>>]

MCScript ==
  << Step("down", 0, 1), Step("down", 1, 0), Step("turnDown", 0, 0),
     Step("down", 1, 1), Step("turnUp", 0, 0), Step("up", 1, 0),
     Step("up", 0, 1), Step("turnDown", 0, 0), Step("down", 0, 0),
     Step("downNext", 1, 0), Step("downNext", 0, 1), Step("down", 1, 1),
     Step("turnDown", 0, 0), Step("downNext", 1, 0), Step("down", 0, 1), 
     Step("turnUp", 0, 0), Step("up", 0, 1) >>
=============================================================================
