---------------------------- MODULE MCMegaUsbPro ----------------------------
EXTENDS MegaUsbPro
MCMemory == 0..2
MCFile == [one |-> <<"A">>, two |-> <<"B", "C">>]
MCLines ==
  {<<>>, <<"-rst", 1>>, <<"-rst", 0>>, <<"-rst", 1, "-rst", 0>>, <<"-l", "two">>, <<"-l", "missing">>,
   <<"-w", "two", 1, "-r", 0, 3>>, <<"-r", 1, 2, "-rst", 0, "-l", "one">>, <<"-l", "one", "-w", "two", 1>>,
   <<"-rst", 1, "-w", "two">>, <<"-l">>}
=============================================================================
