------------------------------ MODULE Section ------------------------------
(***************************************************************************)
(* What the posture checks have in common: run_subgroups                   *)
(* (src/src/check_groups.c) calls them one after the other, and each adds  *)
(* its rows with EMIT and its relatives (src/include/types.h).             *)
(***************************************************************************)
EXTENDS Rows

VARIABLES
  pc,    \* the next section
  rows   \* the rows last emitted, by name

\* One section: its rows, and where the check goes on.
Section(here, emitted, next) ==
  /\ pc = here
  /\ rows' = emitted
  /\ pc' = next

\* Work between two sections, without a row.
Silent(here, next) == Section(here, <<>>, next)
=============================================================================
