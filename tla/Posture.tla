------------------------------ MODULE Posture ------------------------------
(***************************************************************************)
(* The posture checks in the order of firmware_subgroups                   *)
(* (src/src/check_groups.c): EFI, Secure Boot, ESP, TPM, platform          *)
(* firmware, DMA and processor.  The subgroups "luks" and "fwupd" and the  *)
(* checks of the boot chain are components of their own.                   *)
(***************************************************************************)
EXTENDS SecureBoot, Esp, Platform

vars == <<pc, rows, secureBootVars, espVars, platformVars>>

Init ==
  /\ pc = "efi"
  /\ rows = <<>>
  /\ SecureBootInit
  /\ EspInit
  /\ PlatformInit

Returned == pc = "done" /\ UNCHANGED vars

Next ==
  \/ SecureBootNext /\ UNCHANGED <<espVars, platformVars>>
  \/ EspNext /\ UNCHANGED <<secureBootVars, platformVars>>
  \/ PlatformNext /\ UNCHANGED <<secureBootVars, espVars>>
  \/ Returned

Spec == Init /\ [][Next]_vars
-----------------------------------------------------------------------------
\* Types of the variables.  Whatever cannot be read, run or parsed, a row that
\* skips says why: it has one of the reasons of skip_reason_t.
TypeOK ==
  /\ \A n \in DOMAIN rows : rows[n] \in AllRows
  /\ mokutil \in PathMatches
  /\ {efiVisible, late, moved, capsules, misread, wasTrue} \subseteq BOOLEAN
  /\ mok.more \in Nat
  /\ DOMAIN mok.names \subseteq 1..MaxNames
  /\ {db.state, dbx.state} \subseteq {"missing", "unreadable", "present"}
  /\ changed \subseteq {"db", "dbx"}
  /\ present \subseteq Places
  /\ base \in 0..Candidates
  /\ hash \in {NoHash, 0, 1}
  /\ stayed \subseteq plugged /\ plugged \subseteq Domains
  /\ unprotected \in 0..readable
=============================================================================
