------------------------------- MODULE Fwupd -------------------------------
(***************************************************************************)
(* bythos_check_fwupd (src/src/check_fwupd.c) with the HSI readers of      *)
(* src/src/firmware_parsers.c: two unit probes, five rows about fwupdmgr,  *)
(* one row per mapped HSI attribute and one that accounts for the rest.    *)
(*                                                                         *)
(* The JSON report is read by two readers.  find_attribute takes the first *)
(* record of an id; collect_not_passing goes through all records.  The     *)
(* last row is the difference of what the two of them counted.             *)
(*                                                                         *)
(* A record is what the readers can tell of it: its id, whether its flags  *)
(* hold "success", its result and whether the id can be printed.  A result *)
(* is "good" (the record's own success value or, without one, the value    *)
(* the call site expects), "bad", "not-supported", "none" (no value in the *)
(* record) or "borrowed": no value of its own, so find_attribute takes the *)
(* next quoted text for it and collect_not_passing takes nothing.          *)
(***************************************************************************)
EXTENDS ServiceProbe, Sequences, FiniteSets

CONSTANTS
  Universal, AmdOnly, IntelOnly,  \* ids with an EMIT_HSI row, by vendor
  GuardEnabled, GuardVerified,    \* the two ids of the Boot Guard row
  Reports,                        \* the reports a model uses
  NamedMax,                       \* BYTHOS_HSI_NOT_PASSING_MAX_IDS
  ReportedMax,                    \* HSI_REPORTED_MAX
  NamesRoom                       \* bound: ids that fit the names and the detail

Results == {"good", "bad", "not-supported", "none", "borrowed"}

ASSUME FwupdAssumption ==
  /\ NamedMax \in Nat /\ ReportedMax \in Nat /\ NamesRoom \in Nat
  /\ IsFiniteSet(Universal \cup AmdOnly \cup IntelOnly)
  /\ Cardinality(Universal \cup AmdOnly \cup IntelOnly) + 2 <= ReportedMax
  /\ {GuardEnabled, GuardVerified} \cap (Universal \cup AmdOnly \cup IntelOnly) = {}
  /\ GuardEnabled # GuardVerified
  /\ Universal \cap (AmdOnly \cup IntelOnly) = {}

HsiRecord == [id : STRING, passing : BOOLEAN, result : Results, printable : BOOLEAN]

ASSUME ReportsAssumption == Reports \subseteq Seq(HsiRecord)

VARIABLES
  pc,        \* the next section of the check
  rows,      \* the rows last emitted, by name; HSI rows by id
  tool,      \* the lookup of fwupdmgr
  vendor,    \* bythos_cpu_vendor()
  report,    \* hsi_json
  borrowed,  \* the text find_attribute takes for a borrowed result
  names,     \* the ids the last row names
  hidden     \* how many attributes it says are not passing and not above

hsiVars == <<report, borrowed, names, hidden>>
checkVars == <<pc, rows, tool, vendor, hsiVars>>
vars == <<checkVars, captureVars, unitVars, probeVars>>

ServiceRow == "fwupd service"
TimerRow == "auto-refresh timer"
ToolRows == {"LVFS remote", "firmware inventory", "firmware update status",
             "firmware update history"}
GuardRow == "HSI: Boot Guard"
UnmappedRow == "HSI: unmapped attributes"

\* No attribute's id is the name of one of these rows.
ASSUME RowNamesAssumption ==
  {GuardRow, UnmappedRow} \cap (Universal \cup AmdOnly \cup IntelOnly) = {}

Least(a, b) == IF a <= b THEN a ELSE b

\* The first max elements of s whose positions are in keep, by position up to i.
Picked(s, keep, max) ==
  LET picked[i \in 0..Len(s)] ==
        IF i = 0 THEN <<>>
        ELSE IF i \in keep /\ Len(picked[i - 1]) < max THEN Append(picked[i - 1], s[i])
        ELSE picked[i - 1]
  IN picked

Pick(s, keep, max) == Picked(s, keep, max)[Len(s)]
-----------------------------------------------------------------------------
(***************************************************************************)
(* Units and fwupdmgr.                                                     *)
(***************************************************************************)

\* The lookup of fwupdmgr, and the probe of fwupd.service.
Start ==
  /\ pc = "start"
  /\ tool' \in PathMatches
  /\ pc' = "service"
  /\ BeginProbe
  /\ UNCHANGED <<rows, vendor, hsiVars>>

\* The row of a probed unit.  A missing service is a warning, a missing timer
\* is not.  If systemctl is unavailable it is looked up again to say why.
UnitRow(name, match) ==
  IF service = "SYSTEMCTL_UNAVAILABLE" THEN ToolRow(match)
  ELSE IF service = "ACTIVE" THEN Row("OK")
  ELSE IF service = "INACTIVE" THEN Row("WARN")
  ELSE IF service # "MISSING" THEN Skip("PROBE_INDETERMINATE")
  ELSE IF name = ServiceRow THEN Row("WARN") ELSE Skip("SUBJECT_ABSENT")

EmitUnit(here, name, next) ==
  /\ pc = here
  /\ probe = "returned"
  /\ \E match \in PathMatches : rows' = Fill({name}, UnitRow(name, match))
  /\ pc' = next
  /\ EndProbe
  /\ UNCHANGED <<tool, vendor, hsiVars>>

\* The probe of fwupd-refresh.timer.
ProbeTimer ==
  /\ pc = "timer"
  /\ BeginProbe
  /\ pc' = "timer probe"
  /\ rows' = <<>>
  /\ UNCHANGED <<tool, vendor, hsiVars>>

\* lvfs.conf is searched in two places; absent, without the key, or not "true".
LvfsRow == {Row("WARN"), Row("OK")}

\* get-devices: only its exit status counts.
InventoryRow == {Row("OK"), Skip("EXEC_FAILED")}

\* get-updates: its text "No updates available" decides before its status.
UpdatesRow(capture, noUpdates) ==
  IF capture = "failed" THEN Skip("EXEC_FAILED")
  ELSE IF noUpdates THEN Row("OK")
  ELSE IF capture = "nonzero" THEN Skip("PROBE_INDETERMINATE")
  ELSE Row("WARN")

\* get-history: text, no text, or a text that says there is no history.
HistoryRow(capture, text) ==
  IF capture = "failed" THEN Skip("EXEC_FAILED")
  ELSE IF capture = "nonzero"
  THEN Skip(IF text \in {"empty", "no history"} THEN "SUBJECT_ABSENT" ELSE "EXEC_FAILED")
  ELSE IF text = "empty" THEN Skip("SUBJECT_ABSENT") ELSE Row("OK")

\* The four rows that ask fwupdmgr, looked up once; if it is not there, each
\* row looks again whether it is absent or refused.
AskFwupdmgr ==
  /\ pc = "fwupdmgr"
  /\ \/ /\ tool = "trusted"
        /\ \E lvfs \in LvfsRow, inventory \in InventoryRow,
              updates, history \in Captures \ {"truncated"}, noUpdates \in BOOLEAN,
              text \in {"empty", "no history", "other"} :
             rows' = [n \in ToolRows |->
               IF n = "LVFS remote" THEN lvfs
               ELSE IF n = "firmware inventory" THEN inventory
               ELSE IF n = "firmware update status" THEN UpdatesRow(updates, noUpdates)
               ELSE HistoryRow(history, text)]
     \/ /\ tool # "trusted"
        /\ rows' = Fill(ToolRows, ToolRow(tool))
  /\ pc' = "report"
  /\ UNCHANGED <<tool, vendor, hsiVars, captureVars, unitVars, probeVars>>
-----------------------------------------------------------------------------
(***************************************************************************)
(* HSI attributes.                                                         *)
(***************************************************************************)

Mapped == Universal \cup (IF vendor = "AMD" THEN AmdOnly
                          ELSE IF vendor = "INTEL" THEN IntelOnly ELSE {})
Guarded == IF vendor = "INTEL" THEN {GuardEnabled, GuardVerified} ELSE {}
HsiNames == Mapped \cup (IF vendor = "INTEL" THEN {GuardRow} ELSE {}) \cup {UnmappedRow}

\* Mutant of Unavailable: a refused fwupdmgr is skipped without a reason.
UnavailableNoReason(truncatedReport) ==
  IF truncatedReport THEN Skip("OUTPUT_UNPARSEABLE")
  ELSE IF tool = "trusted" THEN Skip("EXEC_FAILED")
  ELSE IF tool = "untrusted" THEN Skip("NONE")
  ELSE SkipActionable("TOOL_ABSENT")

\* hsi_skip_detail and its reason, when there is no complete report.
Unavailable(truncatedReport) ==
  IF truncatedReport THEN Skip("OUTPUT_UNPARSEABLE")
  ELSE IF tool = "trusted" THEN Skip("EXEC_FAILED")
  ELSE ToolRow(tool)

\* fwupdmgr security --json, and the processor's vendor.  Without a complete,
\* non-empty report every HSI row is the same.
CaptureReport ==
  /\ pc = "report"
  /\ vendor' \in {"AMD", "INTEL", "OTHER"}
  /\ \/ /\ tool = "trusted"
        /\ report' \in Reports
        /\ borrowed' \in {"good", "bad", "not-supported"}
        /\ pc' = "attributes"
        /\ rows' = <<>>
     \/ /\ \E cut \in BOOLEAN :
             /\ cut => tool = "trusted"
             /\ rows' = Fill(HsiNames', Unavailable(cut))
        /\ pc' = "done"
        /\ UNCHANGED <<report, borrowed>>
  /\ UNCHANGED <<tool, names, hidden, captureVars, unitVars, probeVars>>

\* bythos_hsi_find_attribute: the first record of that id; 0 if there is none
\* or it has no result.
Find(id) ==
  LET firsts == {i \in DOMAIN report :
                   report[i].id = id /\ \A j \in 1..(i - 1) : report[j].id # id}
  IN IF \E i \in firsts : report[i].result # "none"
     THEN CHOOSE i \in firsts : TRUE ELSE 0

\* attr.result, for which a borrowed text is taken.
FoundResult(i) == IF report[i].result = "borrowed" THEN borrowed ELSE report[i].result

\* The ids a row looks for.
Asked == Mapped \cup Guarded

\* hsi_mark_reported: the ids found not passing, and those of them that were
\* read as not supported.
Marked == {id \in Asked : Find(id) # 0 /\ ~report[Find(id)].passing}
MarkedInapplicable == {id \in Marked : FoundResult(Find(id)) = "not-supported"}

\* Mutant of HsiRow: the flag decides, not the result.
HsiRowByFlag(id) ==
  IF Find(id) = 0 THEN Skip("FEATURE_ABSENT")
  ELSE IF FoundResult(Find(id)) = "not-supported" THEN Skip("FEATURE_ABSENT")
  ELSE IF report[Find(id)].passing THEN Row("OK")
  ELSE Row("WARN")

\* EMIT_HSI
HsiRow(id) ==
  IF Find(id) = 0 THEN Skip("FEATURE_ABSENT")
  ELSE IF FoundResult(Find(id)) = "not-supported" THEN Skip("FEATURE_ABSENT")
  ELSE IF FoundResult(Find(id)) = "good" THEN Row("OK")
  ELSE Row("WARN")

\* "HSI: Boot Guard": decided by Enabled, then by Verified if that is reported.
BootGuardRow ==
  LET en == Find(GuardEnabled)
      ver == Find(GuardVerified)
  IN IF en = 0 \/ FoundResult(en) = "not-supported" THEN Skip("FEATURE_ABSENT")
     ELSE IF FoundResult(en) # "good" THEN Row("WARN")
     ELSE IF ver # 0 /\ FoundResult(ver) # "good" THEN Row("WARN")
     ELSE Row("OK")

\* bythos_hsi_collect_not_passing: all records without the flag, those of them
\* that are exactly not supported, and the printable ids of the others in order.
NotPassing == {i \in DOMAIN report : ~report[i].passing}
NotSupported == {i \in NotPassing : report[i].result = "not-supported"}
Weak == NotPassing \ NotSupported
CollectedIds ==
  Pick([i \in DOMAIN report |-> report[i].id], {i \in Weak : report[i].printable}, NamedMax)

\* Mutant of ReportedWeak: marked ids that are inapplicable are not taken off.
ReportedWeakAll == Cardinality(Marked)

\* count - not_supported of hsi_reported
ReportedWeak == Cardinality(Marked) - Cardinality(MarkedInapplicable)

\* weak - reported_weak, where weak is total - not_supported; 0 if negative.
Hidden ==
  LET weak == Cardinality(NotPassing) - Cardinality(NotSupported)
  IN IF weak > ReportedWeak THEN weak - ReportedWeak ELSE 0

\* Mutant of Names: ids that have a row of their own are named as well.
NamesAll(room) == SubSeq(CollectedIds, 1, Least(Len(CollectedIds), Least(Hidden, room)))

\* The loop that names them: ids not yet reported, at most hidden of them, and
\* only as long as the names and the detail have room for one more.
Names(room) ==
  LET ids == CollectedIds
  IN Pick(ids, {k \in DOMAIN ids : ids[k] \notin Marked}, Least(Hidden, room))

\* The rows of the attributes and the one that accounts for the rest: a warning
\* with hidden > 0, otherwise ok (inapplicable ones only change the wording).
EmitAttributes ==
  /\ pc = "attributes"
  /\ hidden' = Hidden
  /\ \E room \in 0..NamesRoom : names' = Names(room)
  /\ rows' = [n \in HsiNames |->
       IF n = UnmappedRow THEN Row(IF Hidden > 0 THEN "WARN" ELSE "OK")
       ELSE IF n = GuardRow THEN BootGuardRow
       ELSE HsiRow(n)]
  /\ pc' = "counted"
  /\ UNCHANGED <<tool, vendor, report, borrowed, captureVars, unitVars, probeVars>>

\* The locals die with the return.
Finish ==
  /\ pc = "counted"
  /\ pc' = "done"
  /\ report' = <<>>
  /\ names' = <<>>
  /\ hidden' = 0
  /\ borrowed' = "bad"
  /\ UNCHANGED <<rows, tool, vendor, captureVars, unitVars, probeVars>>

Returned == pc = "done" /\ UNCHANGED vars

Init ==
  /\ ProbeInit
  /\ pc = "start"
  /\ rows = <<>>
  /\ tool = "none"
  /\ vendor = "OTHER"
  /\ report = <<>>
  /\ borrowed = "bad"
  /\ names = <<>>
  /\ hidden = 0

Next ==
  \/ Start \/ ProbeTimer
  \/ EmitUnit("service", ServiceRow, "timer")
  \/ EmitUnit("timer probe", TimerRow, "fwupdmgr")
  \/ ProbeNext /\ UNCHANGED checkVars
  \/ AskFwupdmgr \/ CaptureReport \/ EmitAttributes \/ Finish \/ Returned

Spec == Init /\ [][Next]_vars
-----------------------------------------------------------------------------
(***************************************************************************)
(* Properties.                                                             *)
(***************************************************************************)

\* Types of the check's own variables; those of the probe are checked by use.
TypeOK ==
  /\ pc \in {"start", "service", "timer", "timer probe", "fwupdmgr", "report",
            "attributes", "counted", "done"}
  /\ \A n \in DOMAIN rows : rows[n] \in AllRows
  /\ tool \in PathMatches
  /\ vendor \in {"AMD", "INTEL", "OTHER"}
  /\ report \in Reports \cup {<<>>}
  /\ borrowed \in {"good", "bad", "not-supported"}
  /\ hidden \in Nat
  /\ service \in ServiceStates
  /\ phase \in {"idle", "busy"}

\* The records a row above speaks of as not passing and applicable.
Shown == {i \in Weak : \E id \in Asked : Find(id) = i /\ FoundResult(i) # "not-supported"}

\* The last row counts exactly the not-passing records no row above accounts
\* for, duplicated ids, unreadable results and unmapped ids included, although
\* it takes the difference of what two different readers counted.
HiddenIsExact == pc = "counted" => hidden = Cardinality(Weak \ Shown)

\* It never names more than it counts, and whatever it names is a record it
\* counts: each id at most as often as hidden records have it, in print.
NamesAreHonest ==
  pc = "counted" =>
    /\ Len(names) <= hidden
    /\ \A id \in {names[i] : i \in DOMAIN names} :
         Cardinality({i \in DOMAIN names : names[i] = id})
           <= Cardinality({i \in Weak \ Shown : report[i].id = id /\ report[i].printable})

\* An attribute's row is ok only if the first record of its id has the result
\* that counts as success; without a complete report no HSI row is ok.
HsiOkMeansObserved ==
  pc \in {"counted", "done"} =>
    \A n \in DOMAIN rows \ {UnmappedRow, GuardRow} :
      rows[n].state = "OK" =>
        /\ pc = "counted" => \E i \in DOMAIN report :
             /\ report[i].id = n /\ FoundResult(i) = "good"
             /\ \A j \in 1..(i - 1) : report[j].id # n
        /\ tool = "trusted"

\* src/src/check_fwupd.c:459, "every fwupd attribute not passing is reported
\* above": no attribute that is not passing is left to a row that skips.
ReportedAbove ==
  pc = "counted" /\ rows[UnmappedRow].state = "OK" =>
    \A i \in Weak :
      report[i].id \in Asked /\ report[i].result = "bad" =>
        rows[IF report[i].id \in Guarded THEN GuardRow ELSE report[i].id].state # "SKIP"
=============================================================================
