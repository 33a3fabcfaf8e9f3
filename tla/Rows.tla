-------------------------------- MODULE Rows --------------------------------
(***************************************************************************)
(* The rows checks report (src/include/types.h): constructors of           *)
(* check_result_t without the wording of the detail, and the outcome of    *)
(* asking a helper program (src/include/checks_internal.h).                *)
(***************************************************************************)

Row(s) == [state |-> s, reason |-> "NONE", root |-> FALSE, actionable |-> FALSE]

Skip(r) == [Row("SKIP") EXCEPT !.reason = r]

SkipActionable(r) == [Skip(r) EXCEPT !.actionable = TRUE]

SkipRoot(r) == [Skip(r) EXCEPT !.root = TRUE]

SkipReasons ==
  {"TOOL_ABSENT", "FEATURE_ABSENT", "EXEC_FAILED", "PROBE_INDETERMINATE",
   "REPORT_FIELD_ABSENT", "OUTPUT_UNPARSEABLE", "NOT_CONFIGURED",
   "SUBJECT_ABSENT", "HW_ABSENT", "VENDOR_SCOPE"}

AllRows ==
  [state : {"OK", "WARN", "FAIL"}, reason : {"NONE"}, root : {FALSE},
   actionable : {FALSE}]
    \cup [state : {"SKIP"}, reason : SkipReasons, root : BOOLEAN,
          actionable : BOOLEAN]

\* path_match_t of resolve_on_trusted_path: no executable of that name on the
\* compile-time PATH, one that is root-owned and not writable by others, or
\* one that is neither and is refused.
PathMatches == {"none", "trusted", "untrusted"}

\* EMIT_SKIP_TOOL_OR_UNTRUSTED: a refused helper is a finding, an absent one
\* is not.
ToolRow(match) ==
  IF match = "untrusted" THEN Row("WARN") ELSE SkipActionable("TOOL_ABSENT")

\* What a caller of bythos_capture_argv_status_ex can observe: FALSE, a
\* non-zero exit status, output cut short by the buffer, or all of it.
Captures == {"failed", "nonzero", "truncated", "complete"}

\* A section's rows by name: the same row for each of a set of names, and f
\* with the rows of g added to it.
Fill(names, row) == [n \in names |-> row]

Add(f, g) == [n \in DOMAIN f \cup DOMAIN g |-> IF n \in DOMAIN f THEN f[n] ELSE g[n]]
=============================================================================
