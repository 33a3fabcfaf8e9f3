------------------------------- MODULE MCLuks -------------------------------
(***************************************************************************)
(* Luks with a dozen headers: LUKS1 and LUKS2, with and without integrity, *)
(* and every way a token section can read.                                 *)
(***************************************************************************)
EXTENDS Luks

Header(version, integrity, token, hash, signed) ==
  [version |-> version, integrity |-> integrity, token |-> token,
   hash |-> hash, signed |-> signed]

SomeHeaders ==
  {Header(0, FALSE, "none", {}, {}),
   Header(1, FALSE, "none", {}, {}),
   Header(2, TRUE, "none", {}, {}),
   Header(2, FALSE, "clevis", {}, {}),
   Header(2, TRUE, "tpm2", {}, {}),
   Header(2, TRUE, "tpm2", {7}, {}),
   Header(2, FALSE, "tpm2", {0, 2}, {}),
   Header(2, FALSE, "tpm2", {4, 7, 9}, {11}),
   Header(2, FALSE, "tpm2", {4, 9}, {}),
   Header(2, FALSE, "tpm2", 0..31, {}),
   Header(2, FALSE, "tpm2", {}, {11}),
   Header(2, TRUE, "tpm2", {}, {4, 7})}
=============================================================================
