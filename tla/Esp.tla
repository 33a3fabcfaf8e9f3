-------------------------------- MODULE Esp --------------------------------
(***************************************************************************)
(* bythos_check_esp_posture (src/src/check_esp_posture.c, esp_parsers.c)   *)
(* and bythos_esp_efi_base (src/src/runtime.c).                            *)
(*                                                                         *)
(* Three searches find the EFI system partition: one for its ownership,    *)
(* one for its filesystem, and one, made once in the life of the process,  *)
(* for all that is read from it.  The partition may be mounted, unmounted  *)
(* and written in between: a package upgrade replaces shim and fallback    *)
(* loader, each once.                                                      *)
(***************************************************************************)
EXTENDS Section, Integers

CONSTANT Candidates   \* number of directories where the partition may be mounted

ASSUME EspAssumption == Candidates \in Nat \ {0}

Places == 1..Candidates

VARIABLES
  present,   \* the machine: places with an EFI directory
  mounted,   \* the machine: what is mounted there: "vfat", "other" or "none"
  base,      \* cached in bythos_esp_efi_base; 0 before its first call
  spoke,     \* history: the places the ownership and filesystem rows speak of
  moved,     \* history: present or mounted changed
  files,     \* the machine: versions of the fallback loader and the shim
  hash,      \* boot_hash, once the loader has been hashed
  capsules,  \* the machine: are firmware capsules pending?
  misread,   \* readdir ended with an error
  wasTrue    \* history: was what the next ok would say true at some moment?

espVars == <<present, mounted, base, spoke, moved, files, hash, capsules, misread, wasTrue>>

BootRow       == "/boot ownership"
OwnershipRow  == "ESP ownership"
FilesystemRow == "ESP filesystem"
VendorRow     == "EFI vendor directories"
FallbackRow   == "default boot fallback"
CapsuleRow    == "ESP UpdateCapsule"

placeVars == <<present, mounted, spoke, moved>>
fileVars  == <<files, hash, capsules, misread, wasTrue>>

NoHash == -1   \* what sha256sum printed is not a hash

\* The first place with a property, or else a default.
FirstOf(S, default) == IF S = {} THEN default ELSE CHOOSE i \in S : \A j \in S : i <= j

\* Mutant of EspEfiBase: its table of candidates has another order than
\* ESP_CANDIDATES.
EspEfiBaseReversed ==
  IF base # 0 THEN base
  ELSE IF present = {} THEN 1 ELSE CHOOSE i \in present : \A j \in present : i >= j

\* bythos_esp_efi_base: the first candidate there is when first asked, or else
\* the first of all, and the same ever after.
EspEfiBase == IF base # 0 THEN base ELSE FirstOf(present, 1)
-----------------------------------------------------------------------------
(***************************************************************************)
(* The rows.                                                               *)
(***************************************************************************)

\* The partition as check_esp_posture finds it.  bythos_check_boot_chain may have
\* asked for the base before, when it was elsewhere.
BeginEsp ==
  /\ Silent("esp", "ownership of esp")
  /\ present' \in SUBSET Places
  /\ mounted' \in [Places -> {"vfat", "other", "none"}]
  /\ base' \in {0} \cup Places
  /\ moved' = (base' \notin {0, FirstOf(present', 1)})
  /\ UNCHANGED <<spoke, fileVars>>

\* check_esp_permissions: owner and mode of /boot, if there is one, and of the
\* first place with an EFI directory.
CheckPermissions ==
  /\ \E boot \in {{}, {BootRow}}, safe \in [{BootRow, OwnershipRow} -> BOOLEAN] :
       Section("ownership of esp",
         [n \in boot \cup {OwnershipRow} |->
           IF n = OwnershipRow /\ present = {} THEN Skip("FEATURE_ABSENT")
           ELSE Row(IF safe[n] THEN "OK" ELSE "WARN")],
         "filesystem")
  /\ spoke' = [spoke EXCEPT !.ownership = FirstOf(present, 0)]
  /\ UNCHANGED <<present, mounted, moved, base, fileVars>>

\* check_esp_filesystem: the first place with an EFI directory that is mounted.
CheckFilesystem ==
  LET place == FirstOf({i \in present : mounted[i] # "none"}, 0)
  IN /\ \/ /\ \E reason \in {"EXEC_FAILED", "PROBE_INDETERMINATE"} :
                Section("filesystem", Fill({FilesystemRow}, Skip(reason)), "vendors")
           /\ UNCHANGED spoke
        \/ /\ Section("filesystem",
                Fill({FilesystemRow},
                     IF place = 0 THEN Skip("FEATURE_ABSENT")
                     ELSE Row(IF mounted[place] = "vfat" THEN "OK" ELSE "WARN")),
                "vendors")
           /\ spoke' = [spoke EXCEPT !.filesystem = place]
     /\ UNCHANGED <<present, mounted, moved, base, fileVars>>

\* check_efi_vendor_dirs: known names and unknown ones are both ok, none is not; a
\* directory that cannot be opened counts as one that is not there.
CheckVendors ==
  /\ base' = EspEfiBase
  /\ \E opens, any \in BOOLEAN :
       Section("vendors",
         Fill({VendorRow}, IF base' \notin present \/ ~opens THEN Skip("FEATURE_ABSENT")
                           ELSE Row(IF any THEN "OK" ELSE "WARN")),
         "fallback")
  /\ files' \in [fallback : 0..1, shim : 0..1]
  /\ wasTrue' = (files'.fallback = files'.shim)
  /\ UNCHANGED <<placeVars, hash, capsules, misread>>

\* check_bootx64 up to the first hash: there is no fallback loader or no shim to
\* compare it with (find_shim), both are one file, sha256sum is absent, refused
\* or fails, or it prints the loader's hash or something else.
HashFallback ==
  /\ base' = EspEfiBase
  /\ \/ /\ \E row \in {Skip("SUBJECT_ABSENT"), Skip("EXEC_FAILED"),
                       ToolRow("none"), ToolRow("untrusted")} :
             Section("fallback", Fill({FallbackRow}, row), "compared")
        /\ UNCHANGED hash
     \/ /\ base' \in present
        /\ files.fallback = files.shim
        /\ Section("fallback", Fill({FallbackRow}, Row("OK")), "compared")
        /\ UNCHANGED hash
     \/ /\ base' \in present
        /\ Silent("fallback", "hash of shim")
        /\ hash' \in {files.fallback, NoHash}
  /\ UNCHANGED <<placeVars, files, capsules, misread, wasTrue>>

\* Mutant of ComparedRow: whether the lines were parsed is not tested, so that
\* two empty strings are equal.
ComparedRowUnparsed(mine, other) == Row(IF mine = other THEN "OK" ELSE "WARN")

\* The two hashes, if bythos_parse_sha256sum_line found one in each output.
ComparedRow(mine, other) ==
  IF NoHash \in {mine, other} THEN Skip("OUTPUT_UNPARSEABLE")
  ELSE Row(IF mine = other THEN "OK" ELSE "WARN")

\* The rest of check_bootx64.
HashShim ==
  /\ \/ \E other \in {files.shim, NoHash} :
          /\ base \in present
          /\ Section("hash of shim", Fill({FallbackRow}, ComparedRow(hash, other)), "compared")
     \/ Section("hash of shim", Fill({FallbackRow}, Skip("EXEC_FAILED")), "compared")
  /\ UNCHANGED <<placeVars, base, fileVars>>

\* check_update_capsule: is the base there?
FindCapsules ==
  /\ base' = EspEfiBase
  /\ capsules' \in BOOLEAN
  /\ wasTrue' = ~capsules'
  /\ misread' = FALSE
  /\ \/ /\ base' \in present
        /\ Silent("compared", "capsules")
     \/ /\ base' \notin present
        /\ Section("compared", Fill({CapsuleRow}, Skip("FEATURE_ABSENT")), "counted")
  /\ UNCHANGED <<placeVars, files, hash>>

\* opendir of UpdateCapsule failed.
OpenErrorRow(errno) ==
  IF errno = "ENOENT" THEN Row("OK")
  ELSE IF errno = "EACCES" THEN SkipRoot("EXEC_FAILED")
  ELSE Skip("EXEC_FAILED")

\* UpdateCapsule is opened and its entries are counted; an error of readdir ends
\* the count like the end of the directory.
CountCapsules ==
  /\ \/ /\ \E errno \in {"ENOENT", "EACCES", "EIO"} :
             /\ errno = "ENOENT" => ~capsules \/ base \notin present
             /\ Section("capsules", Fill({CapsuleRow}, OpenErrorRow(errno)), "counted")
        /\ UNCHANGED misread
     \/ /\ base \in present
        /\ misread' \in BOOLEAN
        /\ \E some \in BOOLEAN :
             /\ some => capsules
             /\ ~misread' => some = capsules
             /\ Section("capsules", Fill({CapsuleRow}, Row(IF some THEN "WARN" ELSE "OK")), "counted")
  /\ UNCHANGED <<placeVars, base, files, hash, capsules, wasTrue>>

\* bythos_check_esp_posture returns; the base stays cached.
EndEsp ==
  /\ Silent("counted", "tpm")
  /\ present' = {} /\ mounted' = [i \in Places |-> "none"] /\ moved' = FALSE
  /\ spoke' = [ownership |-> 0, filesystem |-> 0]
  /\ files' = [fallback |-> 0, shim |-> 0] /\ hash' = NoHash
  /\ capsules' = FALSE /\ misread' = FALSE /\ wasTrue' = FALSE
  /\ UNCHANGED base
-----------------------------------------------------------------------------
(***************************************************************************)
(* The machine.                                                            *)
(***************************************************************************)

\* The partition is mounted, unmounted or mounted elsewhere.  Bound: once.
MovePartition ==
  /\ pc \in {"filesystem", "vendors", "fallback", "hash of shim", "compared", "capsules"}
  /\ ~moved
  /\ moved' = TRUE
  /\ \E i \in Places :
       \/ i \in present /\ present' = present \ {i} /\ mounted' = [mounted EXCEPT ![i] = "none"]
       \/ i \notin present /\ present' = present \cup {i} /\ mounted' = [mounted EXCEPT ![i] = "vfat"]
  /\ UNCHANGED <<pc, rows, spoke, base, fileVars>>

\* An upgrade replaces the loader or the shim by the new version.
ReplaceFile ==
  /\ pc \in {"fallback", "hash of shim"}
  /\ \E f \in {"fallback", "shim"} : files[f] = 0 /\ files' = [files EXCEPT ![f] = 1]
  /\ wasTrue' = (wasTrue \/ files'.fallback = files'.shim)
  /\ UNCHANGED <<pc, rows, placeVars, base, hash, capsules, misread>>

\* fwupd leaves a capsule, or the last one is removed.
ChangeCapsules ==
  /\ pc = "capsules"
  /\ capsules' = ~capsules
  /\ wasTrue' = TRUE
  /\ UNCHANGED <<pc, rows, placeVars, base, files, hash, misread>>

EspInit ==
  /\ present = {}
  /\ mounted = [i \in Places |-> "none"]
  /\ base = 0
  /\ spoke = [ownership |-> 0, filesystem |-> 0]
  /\ moved = FALSE
  /\ files = [fallback |-> 0, shim |-> 0]
  /\ hash = NoHash
  /\ capsules = FALSE
  /\ misread = FALSE
  /\ wasTrue = FALSE

EspNext ==
  \/ BeginEsp \/ CheckPermissions \/ CheckFilesystem \/ CheckVendors
  \/ HashFallback \/ HashShim \/ FindCapsules \/ CountCapsules \/ EndEsp
  \/ MovePartition \/ ReplaceFile \/ ChangeCapsules
-----------------------------------------------------------------------------
(***************************************************************************)
(* Properties.                                                             *)
(***************************************************************************)

\* Three searches with two tables of candidates find one partition: as long as
\* none is mounted or unmounted during the audit, ownership is that of the
\* directory all else is read from, and the filesystem row speaks of another
\* place only if nothing is mounted at that one.
EspRowsAgree ==
  pc = "counted" /\ ~moved =>
    /\ spoke.ownership \in {0, base}
    /\ spoke.filesystem # 0 =>
         /\ spoke.filesystem >= base
         /\ mounted[base] # "none" => spoke.filesystem = base

\* "matches installed shim" was true at some moment, although the two files are
\* hashed one after the other and an upgrade may replace each of them once; "no
\* pending firmware capsules" was true at some moment, unless the partition was
\* unmounted or readdir failed.
EspOkWasTrue ==
  /\ pc = "compared" /\ rows[FallbackRow].state = "OK" => wasTrue
  /\ pc = "counted" /\ rows[CapsuleRow].state = "OK" /\ ~moved /\ ~misread => wasTrue
=============================================================================
