----------------------------- MODULE MCPosture -----------------------------
(***************************************************************************)
(* Posture with lists of up to four enrolled keys: three names fit, with a *)
(* tail or without, and hash suffixes can make the names too long for the  *)
(* buffer or only for the row.  db and dbx have the contents that are told *)
(* apart: none, well formed, minimal, malformed in each way, too large.    *)
(***************************************************************************)
EXTENDS Posture

Key(name, width, hash_) == [name |-> name, width |-> width, hash |-> hash_]

Keys == {Key("a", 10, "h1"), Key("a", 10, "h2"), Key("c", 9, "h3")}

C(hash_) == Key("c", 9, hash_)

SomeEnrolled ==
  UNION {[1..n -> Keys] : n \in 0..3} \cup
  {<<Key("unnamed", 0, "h5"), Key("a", 10, "h1")>>,
   <<C("h3"), C("h4"), C("h6")>>,
   <<Key("a", 10, "h1"), C("h3"), Key("a", 10, "h2"), Key("d", 10, "h7")>>,
   <<Key("a", 10, "h1"), C("h3"), Key("d", 10, "h7"), Key("e", 10, "h8")>>}

List(size_, header, signature) == [size |-> size_, header |-> header, signature |-> signature]
Variable(size_, lists) == [state |-> "present", size |-> size_, lists |-> lists]
Good == List(76, 0, 48)

SomeSigdbs ==
  {[state |-> "missing", size |-> 0, lists |-> <<>>],
   [state |-> "unreadable", size |-> 0, lists |-> <<>>],
   Variable(0, <<>>), Variable(76, <<Good>>), Variable(152, <<Good, Good>>),
   Variable(100, <<Good>>), Variable(152, <<Good, List(76, 0, 16)>>),
   Variable(76, <<List(76, 49, 48)>>), Variable(152, <<Good, List(77, 0, 48)>>),
   Variable(65532, <<List(65532, 0, 32)>>), Variable(65564, <<List(65564, 0, 32)>>)}
=============================================================================
