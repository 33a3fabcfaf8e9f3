------------------------------- MODULE Report -------------------------------
(***************************************************************************)
(* One run of the program, from the command line to the exit status:       *)
(* main (src/src/main.c), run_subgroups (src/src/check_groups.c), the EMIT *)
(* macros every check writes its rows with (src/include/types.h) and the   *)
(* summaries of src/src/output.c.                                          *)
(*                                                                         *)
(* A subgroup's array has Cap + 1 slots: every check is offered one slot   *)
(* more than may be kept, so that a check that overflows can be noticed.   *)
(* What a check emits is arbitrary: any number of rows in any states.      *)
(***************************************************************************)
EXTENDS Integers, Sequences, FiniteSets

CONSTANTS
  Cap,        \* BYTHOS_MAX_SUBGROUP_RESULTS
  Checks,     \* Checks[g]: number of check functions of the g-th definition
  MaxGroups,  \* BYTHOS_MAX_GROUP_SUBGROUPS
  States,     \* check_state_t, or the part of it a model uses
  MaxEmits    \* bound: rows one check tries to emit

ASSUME CapAssumption    == Cap \in Nat \ {0}
ASSUME ChecksAssumption == Checks \in Seq(Nat)
ASSUME GroupsAssumption == MaxGroups \in Nat /\ Len(Checks) <= MaxGroups
ASSUME StatesAssumption == States \subseteq {"OK", "WARN", "FAIL", "SKIP"}
ASSUME EmitsAssumption  == MaxEmits \in Nat

VARIABLES
  pc,         \* "args", "group", "check", "emit", "merge" or "done"
  mode,       \* render_mode
  done,       \* subgroups finalised: rows kept, truncated flag, summary
  checkNo,    \* j: check functions of the current subgroup already called
  results,    \* sg->results, slots 0 .. Cap
  count,      \* sg->result_count
  truncated,  \* sg->truncated
  used,       \* rows the running check has written
  emits,      \* rows the running check has tried to write
  emitted,    \* rows all checks of the subgroup have tried to write
  unrun,      \* a check of the subgroup was not called
  failSeen,   \* some check tried to emit a FAIL row
  overall,    \* posture_summary_t overall
  exitCode

vars == <<pc, mode, done, checkNo, results, count, truncated, used, emits,
          emitted, unrun, failSeen, overall, exitCode>>

groupVars == <<checkNo, results, count, truncated, used, emits, emitted, unrun>>

\* A row: its state, and its rank among the rows its subgroup emitted.
Unwritten == [state |-> "none", rank |-> 0]

ZeroSummary == [s \in States |-> 0]

remaining == Cap - count
-----------------------------------------------------------------------------
\* getopt_long: -h and -V end the program with status 0, an unknown option or
\* a positional argument with status 2, anything else runs the audit.
ParseArgs ==
  /\ pc = "args"
  /\ \/ \E m \in {"plain", "json"} : mode' = m /\ pc' = "group" /\ exitCode' = 0
     \/ \E c \in {0, 2} : mode' = "none" /\ pc' = "done" /\ exitCode' = c
  /\ UNCHANGED <<done, groupVars, failSeen, overall>>

\* The loop of run_subgroups takes the next definition: subgroup_init.
StartSubgroup ==
  /\ pc = "group"
  /\ Len(done) < Len(Checks)
  /\ Len(done) < MaxGroups
  /\ checkNo' = 0
  /\ results' = [i \in 0..Cap |-> Unwritten]
  /\ count' = 0
  /\ truncated' = FALSE
  /\ used' = 0
  /\ emits' = 0
  /\ emitted' = 0
  /\ unrun' = FALSE
  /\ pc' = "check"
  /\ UNCHANGED <<mode, done, failSeen, overall, exitCode>>

\* A subgroup at capacity does not call its remaining checks.
StopAtCapacity ==
  /\ pc = "check"
  /\ checkNo < Checks[Len(done) + 1]
  /\ count >= Cap
  /\ truncated' = TRUE
  /\ unrun' = TRUE
  /\ checkNo' = Checks[Len(done) + 1]
  /\ UNCHANGED <<pc, mode, done, results, count, used, emits, emitted, failSeen,
                 overall, exitCode>>

\* The next check is called with the tail of the array and remaining + 1.
CallCheck ==
  /\ pc = "check"
  /\ checkNo < Checks[Len(done) + 1]
  /\ count < Cap
  /\ used' = 0
  /\ emits' = 0
  /\ pc' = "emit"
  /\ UNCHANGED <<mode, done, checkNo, results, count, truncated, emitted, unrun,
                 failSeen, overall, exitCode>>

\* Mutant of Emit: the bound is tested after the write.
EmitLate(s) ==
  /\ pc = "emit"
  /\ emits < MaxEmits
  /\ emits' = emits + 1
  /\ emitted' = emitted + 1
  /\ failSeen' = (failSeen \/ s = "FAIL")
  /\ used <= remaining + 1
  /\ results' = [results EXCEPT ![count + used] =
                   [state |-> s, rank |-> emitted + 1]]
  /\ used' = used + 1
  /\ UNCHANGED <<pc, mode, done, checkNo, count, truncated, unrun, overall,
                 exitCode>>

\* Mutant of Emit: every check writes from the start of the array.
EmitAtStart(s) ==
  /\ pc = "emit"
  /\ emits < MaxEmits
  /\ emits' = emits + 1
  /\ emitted' = emitted + 1
  /\ failSeen' = (failSeen \/ s = "FAIL")
  /\ IF used < remaining + 1
     THEN /\ results' = [results EXCEPT ![used] =
                           [state |-> s, rank |-> emitted + 1]]
          /\ used' = used + 1
     ELSE UNCHANGED <<results, used>>
  /\ UNCHANGED <<pc, mode, done, checkNo, count, truncated, unrun, overall,
                 exitCode>>

\* EMIT and its relatives: a row in state s is written if there is room for
\* it (used < max_results) and silently dropped otherwise.
Emit(s) ==
  /\ pc = "emit"
  /\ emits < MaxEmits
  /\ emits' = emits + 1
  /\ emitted' = emitted + 1
  /\ failSeen' = (failSeen \/ s = "FAIL")
  /\ IF used < remaining + 1
     THEN /\ results' = [results EXCEPT ![count + used] =
                           [state |-> s, rank |-> emitted + 1]]
          /\ used' = used + 1
     ELSE UNCHANGED <<results, used>>
  /\ UNCHANGED <<pc, mode, done, checkNo, count, truncated, unrun, overall,
                 exitCode>>

\* Mutant of CheckReturns: the rows are clamped without being flagged.
CheckReturnsSilently ==
  /\ pc = "emit"
  /\ count' = IF used > remaining THEN Cap ELSE count + used
  /\ checkNo' = checkNo + 1
  /\ pc' = "check"
  /\ UNCHANGED <<mode, done, results, truncated, used, emits, emitted, unrun,
                 failSeen, overall, exitCode>>

\* The check returns; a row in the spare slot means that it overflowed.
CheckReturns ==
  /\ pc = "emit"
  /\ IF used > remaining
     THEN truncated' = TRUE /\ count' = count + remaining
     ELSE count' = count + used /\ UNCHANGED truncated
  /\ checkNo' = checkNo + 1
  /\ pc' = "check"
  /\ UNCHANGED <<mode, done, results, used, emits, emitted, unrun, failSeen,
                 overall, exitCode>>

\* Mutant of Summary: the spare slot is counted.
SummaryAll(n, rs) ==
  [s \in States |-> Cardinality({i \in 0..n : rs[i].state = s})]

\* subgroup_finalize: bythos_summary_add over the n rows kept.
Summary(n, rs) ==
  [s \in States |-> Cardinality({i \in 0..(n - 1) : rs[i].state = s})]

FinishSubgroup ==
  /\ pc = "check"
  /\ checkNo >= Checks[Len(done) + 1]
  /\ done' = Append(done, [rows |-> [i \in 1..count |-> results[i - 1]],
                           truncated |-> truncated,
                           lost |-> emitted > count \/ unrun,
                           summary |-> Summary(count, results)])
  /\ pc' = "group"
  /\ UNCHANGED <<mode, groupVars, failSeen, overall, exitCode>>

\* run_subgroups returns.
EndOfSubgroups ==
  /\ pc = "group"
  /\ Len(done) = Len(Checks) \/ Len(done) = MaxGroups
  /\ pc' = "merge"
  /\ checkNo' = 0
  /\ UNCHANGED <<mode, done, results, count, truncated, used, emits, emitted,
                 unrun, failSeen, overall, exitCode>>

\* main's loop: bythos_summary_merge of one subgroup (checkNo counts them).
MergeSubgroup ==
  /\ pc = "merge"
  /\ checkNo < Len(done)
  /\ overall' = [s \in States |-> overall[s] + done[checkNo + 1].summary[s]]
  /\ checkNo' = checkNo + 1
  /\ UNCHANGED <<pc, mode, done, results, count, truncated, used, emits, emitted,
                 unrun, failSeen, exitCode>>

\* exit_code = overall.fail_count > 0 ? 1 : 0; the report is rendered.
Render ==
  /\ pc = "merge"
  /\ checkNo = Len(done)
  /\ exitCode' = IF "FAIL" \in States /\ overall["FAIL"] > 0 THEN 1 ELSE 0
  /\ pc' = "done"
  /\ UNCHANGED <<mode, done, groupVars, failSeen, overall>>

Exited == pc = "done" /\ UNCHANGED vars

Init ==
  /\ pc = "args"
  /\ mode = "none"
  /\ done = <<>>
  /\ checkNo = 0
  /\ results = [i \in 0..Cap |-> Unwritten]
  /\ count = 0
  /\ truncated = FALSE
  /\ used = 0
  /\ emits = 0
  /\ emitted = 0
  /\ unrun = FALSE
  /\ failSeen = FALSE
  /\ overall = ZeroSummary
  /\ exitCode = 0

Next ==
  \/ ParseArgs \/ StartSubgroup \/ StopAtCapacity \/ CallCheck
  \/ \E s \in States : Emit(s)
  \/ CheckReturns \/ FinishSubgroup \/ EndOfSubgroups
  \/ MergeSubgroup \/ Render \/ Exited

Spec == Init /\ [][Next]_vars
-----------------------------------------------------------------------------
\* bythos_summary_state: the worst state a summary counts.
SummaryState(sum) ==
  LET Has(s) == s \in States /\ sum[s] > 0
  IN IF Has("FAIL") THEN "FAIL"
     ELSE IF Has("WARN") THEN "WARN"
     ELSE IF Has("OK") THEN "OK"
     ELSE "SKIP"

\* No check ever writes past the spare slot of the subgroup's array, and no
\* more than Cap rows are kept (EMIT's bound and the clamp of run_subgroups).
NoOverrun ==
  /\ count <= Cap
  /\ pc = "emit" => count + used <= Cap + 1

\* The rows kept are the first ones the subgroup's checks emitted, in order:
\* the clamp never leaves a hole, a stale row or a row of another check.
KeptAreFirst ==
  \A g \in 1..Len(done) : \A i \in 1..Len(done[g].rows) : done[g].rows[i].rank = i

\* A subgroup is marked truncated exactly when a row was dropped or a check
\* was not called, however the rows were spread over its checks.
TruncationFlagged ==
  \A g \in 1..Len(done) : done[g].truncated <=> done[g].lost

\* Exit status 1 means that some check reported fail; status 0 of a finished
\* audit with no truncated subgroup means that no check did (man page, EXIT
\* STATUS); the overall state printed agrees with the status, and the overall
\* counts are those of the rows the report prints.
ExitStatusSound ==
  (pc = "done" /\ mode # "none") =>
    /\ exitCode = 1 => failSeen
    /\ (exitCode = 0 /\ \A g \in 1..Len(done) : ~done[g].truncated) => ~failSeen
    /\ exitCode = 1 <=> SummaryState(overall) = "FAIL"
    /\ \A s \in States :
         overall[s] = Cardinality({p \in (1..Len(done)) \X (1..Cap) :
                                     /\ p[2] <= Len(done[p[1]].rows)
                                     /\ done[p[1]].rows[p[2]].state = s})
=============================================================================
