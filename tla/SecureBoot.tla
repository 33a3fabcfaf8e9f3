----------------------------- MODULE SecureBoot -----------------------------
(***************************************************************************)
(* bythos_check_secureboot and bythos_check_sbctl                          *)
(* (src/src/check_secureboot.c, check_sbctl.c, firmware_ownership.c) with  *)
(* the readers of firmware_parsers.c and efi_boot_parsers.c they use.      *)
(*                                                                         *)
(* Two sources describe Secure Boot: EFI variables, and the text of        *)
(* mokutil.  The first decides the state, the second can still decide the  *)
(* other rows.  db and dbx are read twice each, for different rows.        *)
(*                                                                         *)
(* firmware, enrolled and the contents of db and dbx are the machine's;    *)
(* late marks a helper's text the ten-second timeout cut short.            *)
(***************************************************************************)
EXTENDS Section, Integers, Sequences, FiniteSets

CONSTANTS
  Enrolled,     \* the lists of enrolled keys a model uses
  Sigdbs,       \* the contents db and dbx may have
  SigdbSize,    \* sizeof(buf): the most bytes of db or dbx that are read
  MinimalDbx,   \* a dbx with fewer bytes counts as factory default
  MaxNames,     \* max_names of bythos_join_short_list_names
  MaxNameChars, \* max_name_chars
  NamesSize,    \* sizeof(enrolled_names)
  TailReserve,  \* tail_reserve
  SuffixWidth,  \* width of " [hash]"
  Shown         \* the characters of enrolled_names the MOK row has room for

\* A key of a list: its name as cut to MaxNameChars, whose width is 0 if there is
\* none, and its hash; "none" is no hash.
MokKey == [name : STRING, width : 0..MaxNameChars, hash : STRING \ {"none"}]

\* A signature database: how it can be read, its bytes, its lists.
Sigdb == [state : {"missing", "unreadable", "present"}, size : Nat,
          lists : Seq([size : Nat, header : Nat, signature : Nat])]

ASSUME SecureBootAssumption ==
  /\ Enrolled \subseteq Seq(MokKey)
  /\ Sigdbs \subseteq Sigdb
  /\ {SigdbSize, MinimalDbx, MaxNames, MaxNameChars, NamesSize, TailReserve, SuffixWidth, Shown}
       \subseteq Nat
  /\ \A keys \in Enrolled : Len(keys) < 1000   \* three digits: mok_buffer has 2048 bytes
  /\ 19 < TailReserve /\ TailReserve < NamesSize
  /\ 19 <= Shown /\ MaxNames * (MaxNameChars + 2) + 13 <= Shown

VARIABLES
  efiVisible,  \* /sys/firmware/efi exists
  mokutil,     \* the lookup of mokutil
  firmware,    \* the machine: [sb, setup, unchecked]
  late,        \* the text of mokutil --sb-state was cut short
  enrolled,    \* the machine: the enrolled keys
  listed,      \* mokutil --list-enrolled: was it read, the keys captured, all of them?
  mok,         \* the joined names, and then what the MOK row prints of them
  db, dbx,     \* the machine: the signature databases
  first,       \* history: the rows of the first readings of db and dbx
  changed      \* history: which of them changed after that

secureBootVars ==
  <<efiVisible, mokutil, firmware, late, enrolled, listed, mok, db, dbx, first, changed>>

StateRow      == "secure boot state"
SetupRow      == "secure boot setup mode"
ValidationRow == "shim validation"
OwnerRow      == "platform key owner"
MokRow        == "MOK enrollments"
AllowRow      == "secure boot allowlist"
RevokeRow     == "secure boot revocations"
DbxSizeRow    == "Secure Boot dbx size"
DbKeysRow     == "Secure Boot db keys"
SbatRow       == "SBAT policy level"
BreadthRow    == "Secure Boot trust breadth"
EfivarfsRow   == "efivarfs mount mode"
SbctlRow      == "Secure Boot key management"
-----------------------------------------------------------------------------
(***************************************************************************)
(* State, setup mode and shim validation.                                  *)
(***************************************************************************)

\* What mokutil --sb-state says of the machine, line by line.
StateLines ==
  <<IF firmware.sb THEN "enabled" ELSE "disabled">>
    \o (IF firmware.setup THEN <<"setup mode">> ELSE <<>>)
    \o (IF firmware.sb /\ firmware.unchecked THEN <<"validation disabled">> ELSE <<>>)

Says(text, word) == \E i \in DOMAIN text : text[i] = word

\* bythos_parse_secure_boot_state: "enabled" anywhere, or else "disabled".
ParseState(text) ==
  IF Says(text, "enabled") THEN "ENABLED"
  ELSE IF Says(text, "disabled") \/ Says(text, "validation disabled") THEN "DISABLED"
  ELSE "UNKNOWN"

\* Mutant of StateOutput: the exit status of mokutil is ignored.
StateOutputAnyExit(exit, text) ==
  mokutil = "trusted" /\ exit # -1 /\ ParseState(text) # "UNKNOWN"

\* have_state_output; exit is -1 if the capture failed.
StateOutput(exit, text) ==
  mokutil = "trusted" /\ exit = 0 /\ ParseState(text) # "UNKNOWN"

\* has_mokutil, and the machine as it is.
BeginSecureBoot ==
  /\ Silent("secure boot", "probe")
  /\ mokutil' \in PathMatches
  /\ firmware' \in [sb : BOOLEAN, setup : BOOLEAN, unchecked : BOOLEAN]
  /\ UNCHANGED <<efiVisible, late, enrolled, listed, mok, db, dbx, first, changed>>

\* The state by the EFI variable if that is known, else by mokutil; setup mode
\* likewise; shim validation by mokutil only.  A variable is not known if it
\* cannot be read, is not five bytes long, or is neither 0 nor 1.
StateRows(sbKnown, setupKnown, exit, text, again) ==
  LET have  == StateOutput(exit, text)
      state == IF sbKnown THEN (IF firmware.sb THEN "ENABLED" ELSE "DISABLED")
               ELSE IF have THEN ParseState(text) ELSE "UNKNOWN"
  IN [n \in {StateRow, SetupRow, ValidationRow} |->
       IF n = StateRow /\ state # "UNKNOWN" THEN Row(IF state = "ENABLED" THEN "OK" ELSE "FAIL")
       ELSE IF n = SetupRow /\ setupKnown THEN Row(IF firmware.setup THEN "WARN" ELSE "OK")
       ELSE IF mokutil # "trusted" THEN ToolRow(again)
       ELSE IF n = StateRow
       THEN Skip(IF exit # 0 THEN "EXEC_FAILED" ELSE "OUTPUT_UNPARSEABLE")
       ELSE IF n = SetupRow
       THEN (IF ~have THEN Skip("PROBE_INDETERMINATE")
             ELSE Row(IF Says(text, "setup mode") THEN "WARN" ELSE "OK"))
       ELSE IF state = "DISABLED" THEN Skip("FEATURE_ABSENT")
       ELSE IF state = "UNKNOWN" \/ ~have THEN Skip("PROBE_INDETERMINATE")
       ELSE Row(IF Says(text, "validation disabled") THEN "FAIL" ELSE "OK")]

\* mokutil ends by itself with everything said, fails on the way, says
\* something else, or has the end of its text cut off by the timeout.
ReadStates ==
  /\ \E sbKnown, setupKnown \in BOOLEAN, exit \in {-1, 0, 1},
        n \in 0..Len(StateLines), other \in BOOLEAN, again \in PathMatches :
       /\ late' = (exit = 0 /\ ~other /\ n < Len(StateLines))
       /\ Section("states",
            StateRows(sbKnown, setupKnown, exit,
                      IF other THEN <<"other">> ELSE SubSeq(StateLines, 1, n), again),
            "ownership")
  /\ UNCHANGED <<efiVisible, mokutil, firmware, enrolled, listed, mok, db, dbx, first, changed>>
-----------------------------------------------------------------------------
(***************************************************************************)
(* Ownership.                                                              *)
(***************************************************************************)

\* The width of a number, and of the tail for the names left out: " (and N more)",
\* or "1 item, none fit" and "N items, none fit" if none is printed.
Digits(n) == IF n < 10 THEN 1 ELSE IF n < 100 THEN 2 ELSE 3

TailWidth(printed, left) ==
  IF left = 0 THEN 0
  ELSE Digits(left) + (IF printed > 0 THEN 12 ELSE IF left = 1 THEN 15 ELSE 16)

\* A name at the end of the text, with its suffix and the place of its last
\* character, if there is room left for the longest tail.
PrintName(s, key, twin) ==
  LET end == s.used + (IF s.names = <<>> THEN 0 ELSE 2) + key.width
                    + (IF twin THEN SuffixWidth ELSE 0)
  IN IF key.width = 0 THEN s
     ELSE IF Len(s.names) < MaxNames /\ end + 1 < NamesSize - TailReserve
     THEN [names |-> Append(s.names, [name |-> key.name, end |-> end,
                                      suffix |-> IF twin THEN key.hash ELSE "none"]),
           used |-> end, seen |-> s.seen + 1]
     ELSE [s EXCEPT !.seen = @ + 1]

\* Mutant of Place: only the name printed last is looked at for a collision.
PlaceLastTwin(s, key) ==
  PrintName(s, key, s.names # <<>> /\ s.names[Len(s.names)].name = key.name)

\* One line of the list: a name that was printed before gets its key's hash as a
\* suffix.
Place(s, key) ==
  PrintName(s, key, \E i \in DOMAIN s.names : s.names[i].name = key.name)

\* The lines up to the i-th.
Placed(keys) ==
  LET placed[i \in 0..Len(keys)] ==
        IF i = 0 THEN [names |-> <<>>, used |-> 0, seen |-> 0]
        ELSE Place(placed[i - 1], keys[i])
  IN placed

\* bythos_join_short_list_names: enrolled_names and its width, with the tail that
\* counts the names left out if it fits.
JoinNames(keys) ==
  LET all == Placed(keys)[Len(keys)]
      left == all.seen - Len(all.names)
      width == all.used + TailWidth(Len(all.names), left)
  IN [count |-> Len(keys), names |-> all.names,
      more |-> IF width + 1 < NamesSize THEN left ELSE 0,
      width |-> IF width + 1 < NamesSize THEN width ELSE all.used]

\* "%.200s" of the MOK row: the names that are there to their end, and the tail
\* if all of it is.
CutNames(m) ==
  [count |-> m.count, width |-> m.width,
   names |-> [i \in {k \in DOMAIN m.names : m.names[k].end <= Shown} |-> m.names[i]],
   more |-> IF m.width <= Shown THEN m.more ELSE 0]

NoMok == [count |-> 0, names |-> <<>>, more |-> 0, width |-> 0]
NotListed == [read |-> FALSE, keys |-> <<>>, all |-> FALSE]
SomeFirmware == [sb |-> FALSE, setup |-> FALSE, unchecked |-> FALSE]

\* bythos_probe_mok_ownership: the list of enrolled keys, as far as it fitted the
\* buffer or came in time, and the names joined.
ProbeOwnership ==
  /\ Silent("probe", "states")
  /\ enrolled' \in IF mokutil = "trusted" THEN Enrolled ELSE {<<>>}
  /\ listed' \in {NotListed} \cup
       (IF mokutil = "trusted"
        THEN {[read |-> TRUE, keys |-> SubSeq(enrolled', 1, n), all |-> n = Len(enrolled')] :
                n \in 0..Len(enrolled')}
        ELSE {})
  /\ mok' = JoinNames(listed'.keys)
  /\ UNCHANGED <<efiVisible, mokutil, firmware, late, db, dbx, first, changed>>

\* Both rows are made of what was probed before the states were read.  The MOK
\* row counts the keys and prints their names as far as it has room.
OwnershipRows ==
  /\ \E again \in PathMatches, owner \in {"EXEC_FAILED", "OUTPUT_UNPARSEABLE", "parsed"} :
       Section("ownership",
         IF mokutil # "trusted" THEN Fill({OwnerRow, MokRow}, ToolRow(again))
         ELSE [n \in {OwnerRow, MokRow} |->
                IF n = OwnerRow THEN IF owner = "parsed" THEN Row("OK") ELSE Skip(owner)
                ELSE IF ~listed.read THEN Skip("EXEC_FAILED")
                ELSE Row(IF mok.count = 0 THEN "OK" ELSE "WARN")],
         "owned")
  /\ firmware' = SomeFirmware /\ late' = FALSE
  /\ mok' = CutNames(mok)
  /\ UNCHANGED <<efiVisible, mokutil, enrolled, listed, db, dbx, first, changed>>
-----------------------------------------------------------------------------
(***************************************************************************)
(* Signature databases, each read twice.                                   *)
(***************************************************************************)

\* A list header of an EFI_SIGNATURE_LIST, with the bytes left in the variable.
WellFormed(list, remaining) ==
  /\ remaining >= 28
  /\ list.size >= 28 /\ list.size <= remaining
  /\ list.header <= list.size - 28
  /\ LET payload == list.size - 28 - list.header
     IN list.signature > 16 /\ payload >= list.signature /\ payload % list.signature = 0

\* bythos_count_efi_sigdb_lists: the lists, if they are all well formed and fill
\* the variable to its end, and otherwise 0.
CountLists(v) ==
  LET before[i \in 1..(Len(v.lists) + 1)] ==
        IF i = 1 THEN 0 ELSE before[i - 1] + v.lists[i - 1].size
  IN IF /\ \A i \in DOMAIN v.lists : WellFormed(v.lists[i], v.size - before[i])
        /\ before[Len(v.lists) + 1] = v.size
     THEN Len(v.lists) ELSE 0

NoVariable == [state |-> "missing", size |-> 0, lists |-> <<>>]
NoRows == [db |-> Row("WARN"), dbx |-> Row("WARN")]

\* The variable's bytes are four of attributes and v.size of payload.
TooLarge(v) == v.size + 4 > SigdbSize

\* check_sigdb_variable
SigdbRow(v) ==
  IF ~efiVisible THEN Skip("FEATURE_ABSENT")
  ELSE IF v.state = "missing" THEN Row("WARN")
  ELSE IF v.state = "unreadable" THEN Skip("EXEC_FAILED")
  ELSE Row(IF TooLarge(v) \/ CountLists(v) = 0 THEN "WARN" ELSE "OK")

\* "Secure Boot dbx size"
DbxSize(v) ==
  IF ~efiVisible THEN Skip("FEATURE_ABSENT")
  ELSE IF v.state # "present" THEN Skip("EXEC_FAILED")
  ELSE Row(IF TooLarge(v) \/ v.size < MinimalDbx THEN "WARN" ELSE "OK")

\* Mutant of DbKeys: this reading of db has room for more than the first.
DbKeysOfAll(v) ==
  IF ~efiVisible THEN Skip("FEATURE_ABSENT")
  ELSE IF v.state # "present" THEN Skip("EXEC_FAILED")
  ELSE Row(IF CountLists(v) = 0 THEN "WARN" ELSE "OK")

\* "Secure Boot db keys"
DbKeys(v) ==
  IF ~efiVisible THEN Skip("FEATURE_ABSENT")
  ELSE IF v.state # "present" THEN Skip("EXEC_FAILED")
  ELSE Row(IF TooLarge(v) \/ CountLists(v) = 0 THEN "WARN" ELSE "OK")

\* efi_visible, and the databases as they are.  The keys are not looked at again.
LookForEfi ==
  /\ Silent("owned", "db")
  /\ efiVisible' \in BOOLEAN
  /\ db' \in Sigdbs
  /\ dbx' \in Sigdbs
  /\ enrolled' = <<>> /\ listed' = NotListed /\ mok' = NoMok
  /\ UNCHANGED <<mokutil, firmware, late, first, changed>>

CheckDb ==
  /\ Section("db", Fill({AllowRow}, SigdbRow(db)), "dbx")
  /\ first' = [first EXCEPT !.db = SigdbRow(db)]
  /\ UNCHANGED <<efiVisible, mokutil, firmware, late, enrolled, listed, mok, db, dbx, changed>>

CheckDbx ==
  /\ Section("dbx", Fill({RevokeRow}, SigdbRow(dbx)), "dbx size")
  /\ first' = [first EXCEPT !.dbx = SigdbRow(dbx)]
  /\ UNCHANGED <<efiVisible, mokutil, firmware, late, enrolled, listed, mok, db, dbx, changed>>

CheckDbxSize ==
  /\ Section("dbx size", Fill({DbxSizeRow}, DbxSize(dbx)), "db keys")
  /\ UNCHANGED secureBootVars

CheckDbKeys ==
  /\ Section("db keys", Fill({DbKeysRow}, DbKeys(db)), "keys counted")
  /\ UNCHANGED secureBootVars

\* The buffers of the databases go out of scope.
EndSigdbs ==
  /\ Silent("keys counted", "policies")
  /\ db' = NoVariable /\ dbx' = NoVariable
  /\ first' = NoRows /\ changed' = {}
  /\ UNCHANGED <<efiVisible, mokutil, firmware, late, enrolled, listed, mok>>

\* A firmware update or an administrator writes db or dbx while the check runs.
WriteSigdb ==
  /\ pc \in {"dbx", "dbx size", "db keys"}
  /\ \/ "db" \notin changed /\ db' \in Sigdbs \ {db} /\ changed' = changed \cup {"db"}
        /\ UNCHANGED dbx
     \/ "dbx" \notin changed /\ dbx' \in Sigdbs \ {dbx} /\ changed' = changed \cup {"dbx"}
        /\ UNCHANGED db
  /\ UNCHANGED <<pc, rows, efiVisible, mokutil, firmware, late, enrolled, listed, mok, first>>
-----------------------------------------------------------------------------
(***************************************************************************)
(* SBAT level, trust breadth, the efivarfs mount and sbctl.                *)
(***************************************************************************)

\* SbatLevelRT, or else SbatLevel: absent, unreadable, too large, empty,
\* without a first line (bythos_parse_sbat_level), or with one.
SbatLevel(v) ==
  IF ~efiVisible \/ v = "absent" THEN Skip("FEATURE_ABSENT")
  ELSE IF v = "unreadable" THEN Skip("EXEC_FAILED")
  ELSE Row(IF v = "line" THEN "OK" ELSE "WARN")

\* mokutil --db: its output may be cut at the end of the buffer.
Breadth(capture, microsoft) ==
  IF capture \in {"failed", "nonzero"} THEN Skip("EXEC_FAILED")
  ELSE Row(IF capture = "truncated" \/ microsoft THEN "WARN" ELSE "OK")

\* Mutant of Efivarfs: a mount table that is not all there is no reason to skip.
EfivarfsNoReason(mounts) ==
  IF mounts \in {"unreadable", "too long"} THEN Skip("NONE")
  ELSE IF mounts = "absent" THEN Skip("FEATURE_ABSENT")
  ELSE Row(IF mounts = "ro" THEN "OK" ELSE "WARN")

\* The line of efivarfs in /proc/mounts: options that begin with ro, or others.
Efivarfs(mounts) ==
  IF mounts = "unreadable" THEN Skip("EXEC_FAILED")
  ELSE IF mounts = "too long" THEN Skip("PROBE_INDETERMINATE")
  ELSE IF mounts = "absent" THEN Skip("FEATURE_ABSENT")
  ELSE Row(IF mounts = "ro" THEN "OK" ELSE "WARN")

\* The rows end bythos_check_secureboot: its locals die.
PolicyRows ==
  /\ \E v \in {"absent", "unreadable", "too large", "empty", "no line", "line"},
        again \in PathMatches, capture \in Captures, microsoft \in BOOLEAN,
        mounts \in {"unreadable", "too long", "absent", "ro", "rw"} :
       Section("policies",
         [n \in {SbatRow, BreadthRow, EfivarfsRow} |->
           IF n = SbatRow THEN SbatLevel(v)
           ELSE IF n = EfivarfsRow THEN Efivarfs(mounts)
           ELSE IF mokutil # "trusted" THEN ToolRow(again)
           ELSE Breadth(capture, microsoft)],
         "sbctl")
  /\ efiVisible' = FALSE /\ mokutil' = "none"
  /\ UNCHANGED <<firmware, late, enrolled, listed, mok, db, dbx, first, changed>>

\* bythos_check_sbctl.  The last "Installed:" line decides, and then whether the
\* last "Owner GUID:" line has a value (bythos_parse_sbctl_status).
Sbctl(match, capture, installed, owner) ==
  IF match # "trusted" THEN ToolRow(match)
  ELSE IF capture = "failed" THEN Skip("PROBE_INDETERMINATE")
  ELSE IF capture = "nonzero" THEN Skip("NOT_CONFIGURED")
  ELSE IF installed = "unknown" THEN Skip("PROBE_INDETERMINATE")
  ELSE IF installed = "no" THEN Skip("NOT_CONFIGURED")
  ELSE IF ~owner THEN Skip("REPORT_FIELD_ABSENT")
  ELSE Row("OK")

CheckSbctl ==
  /\ \E match \in PathMatches, capture \in Captures,
        installed \in {"unknown", "no", "yes"}, owner \in BOOLEAN :
       Section("sbctl", Fill({SbctlRow}, Sbctl(match, capture, installed, owner)), "esp")
  /\ UNCHANGED secureBootVars
-----------------------------------------------------------------------------
SecureBootInit ==
  /\ efiVisible = FALSE
  /\ mokutil = "none"
  /\ firmware = SomeFirmware
  /\ late = FALSE
  /\ enrolled = <<>>
  /\ listed = NotListed
  /\ mok = NoMok
  /\ db = NoVariable
  /\ dbx = NoVariable
  /\ first = NoRows
  /\ changed = {}

SecureBootNext ==
  \/ BeginSecureBoot \/ ReadStates \/ ProbeOwnership \/ OwnershipRows
  \/ LookForEfi \/ CheckDb \/ CheckDbx \/ CheckDbxSize \/ CheckDbKeys \/ EndSigdbs \/ WriteSigdb
  \/ PolicyRows \/ CheckSbctl
-----------------------------------------------------------------------------
(***************************************************************************)
(* Properties.                                                             *)
(***************************************************************************)

\* What the first three rows say is so, whichever of the two sources could be
\* read and wherever mokutil failed.  The state is right even if the timeout cut
\* mokutil's text; "setup mode disabled" and "shim validation enforced" need all
\* of it.
SecureBootVerdictsTrue ==
  pc = "ownership" =>
    /\ rows[StateRow].state = "OK" => firmware.sb
    /\ rows[StateRow].state = "FAIL" => ~firmware.sb
    /\ rows[SetupRow].state = "OK" /\ ~late => ~firmware.setup
    /\ rows[ValidationRow].state = "FAIL" => firmware.sb /\ firmware.unchecked
    /\ rows[ValidationRow].state = "OK" =>
         firmware.sb /\ (~late => ~firmware.unchecked)

\* The MOK row counts every key in the captured list, and all of the enrolled
\* ones if the list is whole.  By their names it never accounts for more keys than
\* have one, printed or counted in "(and N more)".  It accounts for all of them if
\* the joined names fit the row, which they do if no two look alike: hash suffixes
\* are all that can push a name or the tail out of the row.  No two whole names it
\* prints look alike unless their hashes begin alike.
MokNamesHonest ==
  pc = "owned" /\ listed.read =>
    LET named == {i \in DOMAIN listed.keys : listed.keys[i].width > 0}
        accounted == Cardinality(DOMAIN mok.names) + mok.more
    IN /\ mok.count = Len(listed.keys)
       /\ listed.all => mok.count = Len(enrolled)
       /\ accounted <= Cardinality(named)
       /\ (\/ mok.width <= Shown
           \/ \A i, j \in named : i # j => listed.keys[i].name # listed.keys[j].name) =>
            accounted = Cardinality(named)
       /\ (\A i, j \in named : i # j => listed.keys[i].hash # listed.keys[j].hash) =>
            \A i, j \in DOMAIN mok.names : i # j =>
              \/ mok.names[i].name # mok.names[j].name
              \/ mok.names[i].suffix # mok.names[j].suffix

\* The rows of db agree, and those of dbx do not contradict each other, unless
\* the variable was written between its two readings.
SameVariableSameVerdict ==
  /\ pc = "keys counted" /\ "db" \notin changed =>
       (first.db.state = "OK" <=> rows[DbKeysRow].state = "OK")
  /\ pc = "db keys" /\ "dbx" \notin changed =>
       /\ first.dbx.state = "OK" => rows[DbxSizeRow].state \in {"OK", "WARN"}
       /\ rows[DbxSizeRow].state = "OK" => first.dbx.state # "SKIP"
=============================================================================
