----------------------------- MODULE BootChain -----------------------------
(***************************************************************************)
(* bythos_check_boot_chain (src/src/check_boot_chain.c): bootloader        *)
(* version, SBAT generations of the installed shim and grub against the    *)
(* revocations in force, shim signature, the scan of /boot for files       *)
(* somebody else could replace, and the revocation list itself.            *)
(*                                                                         *)
(* The ESP, /boot and efivarfs are read piecemeal while others may write   *)
(* them, so what each open, stat or read finds is chosen at that moment;   *)
(* the shim, for one, is looked up afresh by two of the sections.  The     *)
(* history variable missed records what a section silently passed over.    *)
(***************************************************************************)
EXTENDS Integers, Sequences, Rows

CONSTANTS
  Texts,      \* the SBAT texts a model uses, as sequences of lines
  Cap,        \* BYTHOS_SBAT_MAX_COMPONENTS
  MaxDepth,   \* depth scan_boot_dir is called with
  MaxVisits   \* bound: directory entries visited under /boot

\* A line of an SBAT text: a component and its generation, or a line that
\* bythos_parse_sbat_csv cannot read (Junk).
Junk == [component |-> "", generation |-> 0]

SbatLine == [component : STRING, generation : Nat]

ASSUME TextsAssumption == Texts \subseteq Seq(SbatLine)
ASSUME BoundsAssumption ==
  Cap \in Nat \ {0} /\ MaxDepth \in Nat /\ MaxVisits \in Nat

VARIABLES
  pc,             \* the section that is running, or "done"
  rows,           \* the rows emitted so far, by name
  toRead,         \* binaries found whose SBAT section is still to be read
  installed,      \* installed[0 .. installed_count-1]
  anySection,     \* any_section
  tooBig,         \* binary_truncated
  sections,       \* history: the SBAT texts of the binaries that could be read
  below,          \* history: a line of those is below a line mokutil listed
  missed,         \* history: what was passed over without a trace
  open,           \* directories scan_boot_dir has open, nested
  visits,         \* entries visited
  count,          \* *count
  anyWarn,        \* *any_warn
  depthExceeded,  \* *depth_exceeded
  unverifiedLink, \* *unverified_link
  bad             \* history: a file looked at was not root's alone to write,
                  \* or an installed entry is below a revocation

sbatVars == <<toRead, installed, anySection, tooBig, sections, below>>
scanVars == <<open, visits, count, anyWarn, depthExceeded, unverifiedLink, bad>>
vars == <<pc, rows, sbatVars, missed, scanVars>>

VersionRow     == "bootloader version"
SbatRow        == "bootloader SBAT"
SignatureRow   == "shim signature"
PermissionsRow == "/boot file permissions"
RevocationsRow == "SBAT revocations"
AllNames == {VersionRow, SbatRow, SignatureRow, PermissionsRow, RevocationsRow}

\* A section ends with its row; its variables are gone.
EndSection(name, row, next) ==
  /\ rows' = Add(rows, Fill({name}, row))
  /\ pc' = next
  /\ toRead' = {} /\ installed' = <<>> /\ anySection' = FALSE /\ tooBig' = FALSE
  /\ sections' = {} /\ below' = FALSE
  /\ open' = 0 /\ visits' = 0 /\ count' = 0
  /\ anyWarn' = FALSE /\ depthExceeded' = FALSE /\ unverifiedLink' = FALSE
  /\ bad' = FALSE
-----------------------------------------------------------------------------
(***************************************************************************)
(* check_bootloader_version.                                               *)
(***************************************************************************)

Tools == {"grub-install", "grub2-install", "bootctl"}

\* The first trusted tool is asked; a refused one matters only if none is.
VersionResult(match, result) ==
  IF \A t \in Tools : match[t] # "trusted"
  THEN IF \E t \in Tools : match[t] = "untrusted" THEN Row("WARN")
       ELSE Skip("TOOL_ABSENT")
  ELSE IF result \in {"failed", "nonzero", "empty"} THEN Skip("EXEC_FAILED")
  ELSE Row("OK")

BootloaderVersion ==
  /\ pc = "version"
  /\ \E match \in [Tools -> PathMatches], result \in Captures \cup {"empty"} :
       EndSection(VersionRow, VersionResult(match, result), "sbat")
  /\ UNCHANGED missed
-----------------------------------------------------------------------------
(***************************************************************************)
(* Finding the shim.                                                       *)
(***************************************************************************)

\* What BootCurrent and the load option it names say (find_booted_shim): no
\* BootCurrent, a load option that leads nowhere, one for another loader, or
\* one for a shim that is there.
BootCurrents == {"unreadable", "unresolved", "other", "shim"}

\* find_shim: the ESP is searched only if BootCurrent cannot be read.
ShimResolution(current, shimOnEsp) ==
  IF current = "shim" THEN "FOUND_BOOTED"
  ELSE IF current = "other" THEN "BOOTED_NON_SHIM"
  ELSE IF current = "unresolved" THEN "BOOTCURRENT_UNRESOLVED"
  ELSE IF shimOnEsp THEN "FOUND_ON_ESP"
  ELSE "FALLBACK_ALLOWED"

ShimFound(resolution) == resolution \in {"FOUND_BOOTED", "FOUND_ON_ESP"}
-----------------------------------------------------------------------------
(***************************************************************************)
(* check_bootloader_sbat.                                                  *)
(***************************************************************************)

\* One line: an entry is added if the line is readable and there is room for it.
TakeLine(entries, line, room) ==
  IF line.component = "" \/ Len(entries) >= room THEN entries ELSE Append(entries, line)

\* The entries of the lines up to the i-th.
Parsed(text, room) ==
  LET parsed[i \in 0..Len(text)] ==
        IF i = 0 THEN <<>> ELSE TakeLine(parsed[i - 1], text[i], room)
  IN parsed

\* bythos_parse_sbat_csv: the readable lines, as many as there is room for.
ParseCsv(text, room) == Parsed(text, room)[Len(text)]

\* find_shim, then find_grub.
FindBinaries ==
  /\ pc = "sbat"
  /\ \E current \in BootCurrents, shimOnEsp, grubOnEsp \in BOOLEAN :
       LET have == (IF ShimFound(ShimResolution(current, shimOnEsp)) THEN {"shim"} ELSE {})
                     \cup (IF grubOnEsp THEN {"grub"} ELSE {})
       IN IF have = {}
          THEN EndSection(SbatRow, Skip("SUBJECT_ABSENT"), "signature")
          ELSE /\ toRead' = have
               /\ pc' = "collect"
               /\ UNCHANGED <<rows, installed, anySection, tooBig, sections, below, scanVars>>
  /\ UNCHANGED missed

\* The shim is read before grub.
Current == IF "shim" \in toRead THEN "shim" ELSE "grub"

\* collect_sbat_entries gives up on a binary: the table is full, the file
\* cannot be read, it is larger than the buffer, or it has no .sbat section
\* that can be extracted.  Only "larger" leaves a trace.
CollectNothing(why) ==
  /\ pc = "collect"
  /\ toRead # {}
  /\ why = "full" <=> Len(installed) >= Cap
  /\ tooBig' = (tooBig \/ why = "larger")
  /\ missed' = IF why \in {"full", "unreadable"} THEN missed \cup {"binary"} ELSE missed
  /\ toRead' = toRead \ {Current}
  /\ UNCHANGED <<pc, rows, installed, anySection, sections, below, scanVars>>

\* Mutant of CollectSection: the second binary's entries replace the first's.
CollectSectionOver(text) ==
  /\ pc = "collect"
  /\ toRead # {}
  /\ Len(installed) < Cap
  /\ installed' = ParseCsv(text, Cap)
  /\ sections' = sections \cup {text}
  /\ anySection' = TRUE
  /\ toRead' = toRead \ {Current}
  /\ UNCHANGED <<pc, rows, tooBig, missed, below, scanVars>>

\* collect_sbat_entries parses the section's text after the entries it has.
CollectSection(text) ==
  /\ pc = "collect"
  /\ toRead # {}
  /\ Len(installed) < Cap
  /\ LET parsed == ParseCsv(text, Cap - Len(installed))
     IN /\ installed' = installed \o parsed
        /\ missed' = IF parsed = ParseCsv(text, Len(text)) THEN missed
                     ELSE missed \cup {"binary"}
  /\ sections' = sections \cup {text}
  /\ anySection' = TRUE
  /\ toRead' = toRead \ {Current}
  /\ UNCHANGED <<pc, rows, tooBig, below, scanVars>>

\* The installed entry is below some revocation of its component; worst_revoked
\* starts at 0 and takes the largest generation of the matching ones.
Revoked(entry, revoked) ==
  LET matching == {r \in {revoked[j] : j \in DOMAIN revoked} :
                     r.component = entry.component}
  IN \E r \in matching :
       /\ \A q \in matching : q.generation <= r.generation
       /\ entry.generation < r.generation

\* Mutant of SbatVerdict: only the first installed entry is compared.
SbatVerdictFirst(revoked) ==
  IF Revoked(installed[1], revoked) THEN Row("WARN") ELSE Row("OK")

SbatVerdict(revoked) ==
  IF \E i \in DOMAIN installed : Revoked(installed[i], revoked)
  THEN Row("WARN") ELSE Row("OK")

\* No verdict: a binary too large, no section, no entry, no mokutil, or no
\* revocations from it.
SbatSkip ==
  /\ pc = "collect"
  /\ toRead = {}
  /\ \E mokutil \in PathMatches, result \in Captures \cup {"none"} :
       /\ tooBig \/ ~anySection \/ installed = <<>> \/ mokutil # "trusted"
            \/ result # "complete"
       /\ EndSection(SbatRow,
            IF tooBig THEN Skip("OUTPUT_UNPARSEABLE")
            ELSE IF ~anySection THEN Skip("FEATURE_ABSENT")
            ELSE IF installed = <<>> THEN Skip("OUTPUT_UNPARSEABLE")
            ELSE IF mokutil # "trusted" THEN ToolRow(mokutil)
            ELSE IF result \in {"failed", "nonzero"} THEN Skip("EXEC_FAILED")
            ELSE IF result = "truncated" THEN Skip("OUTPUT_UNPARSEABLE")
            ELSE Skip("PROBE_INDETERMINATE"),
            "signature")
  /\ UNCHANGED missed

\* The lines of a text that name a component, whatever table they would go to.
Readable(text) == {text[i] : i \in {k \in DOMAIN text : text[k].component # ""}}

\* mokutil lists the revocations, and every installed entry is compared with
\* them.  The locals live on while pc is "verdict", the point at which the
\* properties look at the row; bad is what a plain comparison of the tables says,
\* and below what one of the texts says.
SbatCompare(text) ==
  /\ pc = "collect"
  /\ toRead = {}
  /\ ~tooBig /\ anySection /\ installed # <<>>
  /\ LET revoked == ParseCsv(text, Cap)
     IN /\ rows' = Add(rows, Fill({SbatRow},
                     IF revoked = <<>> THEN Skip("PROBE_INDETERMINATE")
                     ELSE SbatVerdict(revoked)))
        /\ missed' = IF revoked = ParseCsv(text, Len(text)) THEN missed
                     ELSE missed \cup {"revocation"}
        /\ bad' = \E i \in DOMAIN installed, j \in DOMAIN revoked :
                    /\ installed[i].component = revoked[j].component
                    /\ installed[i].generation < revoked[j].generation
  /\ below' = \E t \in sections : \E e \in Readable(t), r \in Readable(text) :
                e.component = r.component /\ e.generation < r.generation
  /\ pc' = "verdict"
  /\ UNCHANGED <<toRead, installed, anySection, tooBig, sections>>
  /\ UNCHANGED <<open, visits, count, anyWarn, depthExceeded, unverifiedLink>>

SbatReturns ==
  /\ pc = "verdict"
  /\ EndSection(SbatRow, rows[SbatRow], "signature")
  /\ UNCHANGED missed
-----------------------------------------------------------------------------
(***************************************************************************)
(* check_shim_signature and check_sbat_revocations.                        *)
(***************************************************************************)

\* signed: pesign's output is not empty and does not say "no signature".
SignatureResult(resolution, pesign, result, signed) ==
  IF resolution = "BOOTED_NON_SHIM" THEN Skip("SUBJECT_ABSENT")
  ELSE IF resolution = "BOOTCURRENT_UNRESOLVED" THEN Skip("OUTPUT_UNPARSEABLE")
  ELSE IF ~ShimFound(resolution) THEN Skip("SUBJECT_ABSENT")
  ELSE IF pesign # "trusted" THEN ToolRow(pesign)
  ELSE IF result \in {"failed", "nonzero"} THEN Skip("EXEC_FAILED")
  ELSE IF signed THEN Row("OK") ELSE Row("FAIL")

ShimSignature ==
  /\ pc = "signature"
  /\ \E current \in BootCurrents, shimOnEsp, signed \in BOOLEAN,
        pesign \in PathMatches, result \in Captures :
       EndSection(SignatureRow,
         SignatureResult(ShimResolution(current, shimOnEsp), pesign, result, signed),
         "permissions")
  /\ UNCHANGED missed

SbatRevocations ==
  /\ pc = "revocations"
  /\ \E mokutil \in PathMatches, result \in Captures, present \in BOOLEAN :
       EndSection(RevocationsRow,
         IF mokutil # "trusted" THEN ToolRow(mokutil)
         ELSE IF result \in {"failed", "nonzero"} THEN Skip("EXEC_FAILED")
         ELSE Row(IF present THEN "OK" ELSE "WARN"), "done")
  /\ UNCHANGED missed
-----------------------------------------------------------------------------
(***************************************************************************)
(* check_boot_permissions and scan_boot_dir.                               *)
(***************************************************************************)

\* /boot cannot be examined, or its file system has no ownership to examine.
NoScan ==
  /\ pc = "permissions"
  /\ \E reason \in {"EXEC_FAILED", "PROBE_INDETERMINATE", "FEATURE_ABSENT"} :
       EndSection(PermissionsRow, Skip(reason), "revocations")
  /\ UNCHANGED missed

\* The scan begins; opendir("/boot") itself may fail.
StartScan ==
  /\ pc = "permissions"
  /\ open' \in {0, 1}
  /\ pc' = "scan"
  /\ UNCHANGED <<rows, sbatVars, missed, visits, count, anyWarn, depthExceeded,
                 unverifiedLink, bad>>

Visit ==
  /\ pc = "scan"
  /\ open > 0
  /\ visits < MaxVisits
  /\ visits' = visits + 1
  /\ UNCHANGED <<pc, rows, sbatVars>>

\* A regular file of /boot's file system; safe says that root owns it and only
\* root may write to it (note_boot_file_owner).
VisitFile(safe) ==
  /\ Visit
  /\ count' = count + 1
  /\ anyWarn' = (anyWarn \/ ~safe)
  /\ bad' = (bad \/ ~safe)
  /\ UNCHANGED <<missed, open, depthExceeded, unverifiedLink>>

\* A symbolic link: its target is examined if it is a regular file of the same
\* file system, and is not counted.
VisitLink(verified, safe) ==
  /\ Visit
  /\ IF verified
     THEN anyWarn' = (anyWarn \/ ~safe) /\ UNCHANGED unverifiedLink
     ELSE unverifiedLink' = TRUE /\ UNCHANGED anyWarn
  /\ bad' = (bad \/ (verified /\ ~safe))
  /\ UNCHANGED <<missed, open, count, depthExceeded>>

\* Mutant of VisitDirectory: the depth left is not looked at.
VisitDirectoryAnyDepth(opens) ==
  /\ Visit
  /\ open' = IF opens THEN open + 1 ELSE open
  /\ missed' = IF opens THEN missed ELSE missed \cup {"directory"}
  /\ UNCHANGED <<count, anyWarn, unverifiedLink, bad, depthExceeded>>

\* A directory of the same file system: entered if there is depth left, in
\* which case opendir may fail (opens is FALSE) and nobody is told.
VisitDirectory(opens) ==
  /\ Visit
  /\ IF open <= MaxDepth
     THEN /\ open' = IF opens THEN open + 1 ELSE open
          /\ missed' = IF opens THEN missed ELSE missed \cup {"directory"}
          /\ UNCHANGED depthExceeded
     ELSE depthExceeded' = TRUE /\ UNCHANGED <<open, missed>>
  /\ UNCHANGED <<count, anyWarn, unverifiedLink, bad>>

\* Hidden names, other file systems and special files are not examined; a name
\* whose lstat() fails or whose path is too long is passed over as well.
VisitOther(examinable) ==
  /\ Visit
  /\ missed' = IF examinable THEN missed \cup {"file"} ELSE missed
  /\ UNCHANGED <<open, count, anyWarn, depthExceeded, unverifiedLink, bad>>

\* The end of a directory, or readdir() failing.
CloseDirectory ==
  /\ pc = "scan"
  /\ open > 0
  /\ open' = open - 1
  /\ UNCHANGED <<pc, rows, sbatVars, missed, visits, count, anyWarn, depthExceeded,
                 unverifiedLink, bad>>

\* Mutant of ScanResult: links that could not be verified are forgotten.
ScanResultAnyLink ==
  IF count = 0 THEN Skip("SUBJECT_ABSENT")
  ELSE IF anyWarn THEN Row("WARN")
  ELSE IF depthExceeded THEN Skip("PROBE_INDETERMINATE")
  ELSE Row("OK")

ScanResult ==
  IF count = 0 THEN Skip("SUBJECT_ABSENT")
  ELSE IF anyWarn THEN Row("WARN")
  ELSE IF depthExceeded \/ unverifiedLink THEN Skip("PROBE_INDETERMINATE")
  ELSE Row("OK")

\* The scan is over.
ScanEnds ==
  /\ pc = "scan"
  /\ open = 0
  /\ rows' = Add(rows, Fill({PermissionsRow}, ScanResult))
  /\ pc' = "scanned"
  /\ UNCHANGED <<sbatVars, missed, scanVars>>

PermissionsReturns ==
  /\ pc = "scanned"
  /\ EndSection(PermissionsRow, rows[PermissionsRow], "revocations")
  /\ UNCHANGED missed
-----------------------------------------------------------------------------
Returned == pc = "done" /\ UNCHANGED vars

Init ==
  /\ pc = "version"
  /\ rows = <<>>
  /\ toRead = {} /\ installed = <<>> /\ anySection = FALSE /\ tooBig = FALSE
  /\ sections = {} /\ below = FALSE
  /\ missed = {}
  /\ open = 0 /\ visits = 0 /\ count = 0
  /\ anyWarn = FALSE /\ depthExceeded = FALSE /\ unverifiedLink = FALSE
  /\ bad = FALSE

Next ==
  \/ BootloaderVersion \/ FindBinaries
  \/ \E why \in {"full", "unreadable", "larger", "nosection"} : CollectNothing(why)
  \/ \E text \in Texts : CollectSection(text) \/ SbatCompare(text)
  \/ SbatSkip \/ SbatReturns \/ ShimSignature
  \/ NoScan \/ StartScan
  \/ \E b \in BOOLEAN : VisitFile(b) \/ VisitDirectory(b) \/ VisitOther(b)
  \/ \E verified, safe \in BOOLEAN : VisitLink(verified, safe)
  \/ CloseDirectory \/ ScanEnds \/ PermissionsReturns
  \/ SbatRevocations \/ Returned

Spec == Init /\ [][Next]_vars
-----------------------------------------------------------------------------
(***************************************************************************)
(* Properties.                                                             *)
(***************************************************************************)

\* The variables keep their types, and scan_boot_dir's recursion holds at most
\* one directory open per level, MaxDepth below /boot: whatever /boot looks
\* like the scan needs a fixed number of descriptors and stack frames.
TypeOK ==
  /\ pc \in {"version", "sbat", "collect", "verdict", "signature", "permissions",
             "scan", "scanned", "revocations", "done"}
  /\ DOMAIN rows \subseteq AllNames
  /\ toRead \subseteq {"shim", "grub"}
  /\ Len(installed) <= Cap
  /\ sections \subseteq Texts
  /\ {anySection, tooBig, below, anyWarn, depthExceeded, unverifiedLink, bad} \subseteq BOOLEAN
  /\ missed \subseteq {"binary", "revocation", "file", "directory"}
  /\ open \in 0..(MaxDepth + 1)
  /\ visits \in 0..MaxVisits
  /\ count \in 0..visits

\* "bootloader SBAT" is ok only if no entry collected from either binary is
\* below any revocation parsed, and warns only if one is.
SbatVerdictRight ==
  pc = "verdict" /\ rows[SbatRow].state # "SKIP" => (rows[SbatRow].state = "OK" <=> ~bad)

\* The row speaks of the files: whatever the two binaries hold, and however their
\* lines and the revocations fall into the two tables, it warns only if a line of
\* a binary is below one that mokutil listed; and it is ok only if no line of any
\* binary is, unless a binary could not be read or a table was full.
SbatSpeaksOfFiles ==
  pc = "verdict" =>
    /\ rows[SbatRow].state = "WARN" => below
    /\ rows[SbatRow].state = "OK" /\ missed \cap {"binary", "revocation"} = {} => ~below

\* "/boot file permissions" is ok only if files were seen, every file and link
\* target looked at is safe, no directory was too deep and no link unverified;
\* and an unsafe file is a warning wherever the scan met it, whatever it met
\* before or later.
ScanVerdictRight ==
  pc = "scanned" =>
    /\ rows[PermissionsRow].state = "OK" =>
         count > 0 /\ ~bad /\ ~depthExceeded /\ ~unverifiedLink
    /\ bad /\ count > 0 => rows[PermissionsRow].state = "WARN"

\* "`skip` is not a hidden pass" (src/README.md:182): what could not be observed
\* keeps a row from being ok.  collect_sbat_entries leaves no trace of a binary
\* that cannot be read, bythos_parse_sbat_csv none of lines there is no room
\* for, scan_boot_dir none of a directory or name it cannot examine.
OkMeansObserved ==
  /\ pc = "verdict" /\ rows[SbatRow].state = "OK" => missed \cap {"binary", "revocation"} = {}
  /\ pc = "scanned" /\ rows[PermissionsRow].state = "OK" => missed \cap {"file", "directory"} = {}
=============================================================================
