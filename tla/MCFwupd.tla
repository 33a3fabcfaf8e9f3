------------------------------ MODULE MCFwupd ------------------------------
(***************************************************************************)
(* Fwupd with the numbers of mapped attributes the program has and reports *)
(* of up to three records: mapped ids, Boot Guard's, one nobody maps, and  *)
(* one that cannot be printed.                                             *)
(***************************************************************************)
EXTENDS Fwupd

Record(id, passing, res) ==
  [id |-> id, passing |-> passing, result |-> res, printable |-> id # "?"]

SomeUniversal == {"u", "u2", "u3", "u4", "u5", "u6", "u7", "u8", "u9", "u10", "u11",
                  "u12", "u13"}
SomeAmd == {"a1", "a2", "a3", "a4", "a5"}
SomeIntel == {"i", "i2", "i3", "i4", "i5", "i6"}

Records ==
  {Record("u", TRUE, "good"), Record("u", FALSE, "bad"), Record("u", TRUE, "bad"),
   Record("u", FALSE, "none"), Record("u", FALSE, "not-supported"),
   Record("u", FALSE, "borrowed"), Record("i", FALSE, "bad"),
   Record("en", FALSE, "bad"), Record("en", TRUE, "good"), Record("ver", FALSE, "bad"),
   Record("x", FALSE, "bad"), Record("x", FALSE, "not-supported"), Record("?", FALSE, "none")}

SomeReports == UNION {[1..n -> Records] : n \in 0..3}
=============================================================================
