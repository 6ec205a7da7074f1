------------------------------ MODULE MCMegaUsb -----------------------------
(* Files of no, less than one, two and too many blocks of two bytes, one   *)
(* of which has bytes that look like answers, and every kind of argument.  *)
EXTENDS MegaUsb

MCText == ("*g" :> <<"*", "g">>) @@ ("*rm" :> <<"*", "r", "m">>) @@ ("*s" :> <<"*", "s">>)
            @@ ("*t5" :> <<"*", "t", "5">>)
MCFile == [empty |-> <<>>, one |-> <<"A">>, two |-> <<"A", "k", "k", "d">>,
           large |-> <<"A", "B", "C", "D", "E", "F">>]
MCCommandLines ==
  {<<"-f", "one">>, <<"*g", "-f", "two", "*rm">>, <<"-f", "two", "*xd", "n1", "n2", "out">>,
   <<"*xd", "n1", "n3", "out", "*t5">>, <<"*t5", "*xd", "n1", "n1">>, <<"*g", "-f">>,
   <<"-f", "empty">>, <<"*s">>, <<"-f", "large">>, <<"-f", "missing">>}
=============================================================================
