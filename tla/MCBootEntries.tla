--------------------------- MODULE MCBootEntries ---------------------------
(***************************************************************************)
(* BootEntries with one load option for each way the classifier can end.   *)
(***************************************************************************)
EXTENDS BootEntries

Option(active, path, words, descLn) ==
  [active |-> active, path |-> path, words |-> words, descLn |-> descLn]

SomeOptions ==
  {Option(TRUE, <<"OTHER", "USB", "DISK", "END">>, {}, 0),
   Option(FALSE, <<"USB">>, {"USB"}, 5),
   Option(TRUE, <<"OTHER", "NETWORK">>, {"USB"}, 5),
   Option(TRUE, <<"END", "USB">>, {"CD"}, 5),
   Option(TRUE, <<"DISK", "END">>, {"USB"}, 5),
   Option(TRUE, <<>>, {}, 0),
   Option(TRUE, <<"MALFORMED", "USB">>, {}, 11),
   Option(TRUE, <<"OTHER", "END">>, {}, 39)}
=============================================================================
