-------------------------- MODULE CaptureContract --------------------------
(***************************************************************************)
(* What the checks rely on when they call bythos_capture_argv_status_ex    *)
(* (src/include/runtime.h): a call is refused, or runs one helper, and     *)
(* ends with FALSE, or with TRUE, the helper's own exit status and a       *)
(* prefix of the output.  Nothing is said of pipes, signals and timers.    *)
(*                                                                         *)
(* The k-th byte of output is represented by the number k.                 *)
(***************************************************************************)
EXTENDS Integers

CONSTANTS
  Sizes,     \* buffer sizes; 0 is refused
  Statuses   \* exit statuses a helper may have

VARIABLES
  phase,       \* "idle" or "busy"
  live,        \* is the helper of this call running?
  fate,        \* how it ended: a status, Signalled, or NoFate
  written,     \* bytes of output so far
  size,        \* the caller's buffer size
  ok,          \* result of the last call; FALSE during a call
  exitStatus,  \* the helper's exit status, if ok
  output,      \* the text in the buffer, if ok
  truncated,   \* *truncated, if ok
  timedOut     \* ok although the ten seconds had passed

result == <<ok, exitStatus, output, truncated, timedOut>>
vars == <<phase, live, fate, written, size, result>>

Signalled == 256
NoFate    == 257

Prefix(n) == [i \in 0..(n - 1) |-> i + 1]

\* What a call in progress and a failed call show.
NoResult ==
  /\ ok = FALSE
  /\ exitStatus = -1
  /\ output = Prefix(0)
  /\ truncated = FALSE
  /\ timedOut = FALSE

ClearResult ==
  /\ ok' = FALSE
  /\ exitStatus' = -1
  /\ output' = Prefix(0)
  /\ truncated' = FALSE
  /\ timedOut' = FALSE

Init ==
  /\ phase = "idle"
  /\ live = FALSE
  /\ fate = NoFate
  /\ written = 0
  /\ size = 0
  /\ NoResult

\* Invalid arguments, or no pipe: the call fails at once.
Refuse ==
  /\ phase = "idle"
  /\ size' \in Sizes
  /\ ClearResult
  /\ UNCHANGED <<phase, live, fate, written>>

Begin ==
  /\ phase = "idle"
  /\ phase' = "busy"
  /\ size' \in Sizes \ {0}
  /\ live' = FALSE
  /\ fate' = NoFate
  /\ written' = 0
  /\ ClearResult

\* Each call runs at most one helper.
Start ==
  /\ phase = "busy"
  /\ fate = NoFate
  /\ live' = TRUE
  /\ ~live
  /\ UNCHANGED <<phase, fate, written, size, result>>

\* One more byte of output, from the helper or a descendant.
Output ==
  /\ phase = "busy"
  /\ written' = written + 1
  /\ UNCHANGED <<phase, live, fate, size, result>>

End(f) ==
  /\ phase = "busy"
  /\ live
  /\ live' = FALSE
  /\ fate' = f
  /\ UNCHANGED <<phase, written, size, result>>

\* TRUE is returned only of a helper that exited by itself, and then with the
\* first k bytes of output, or as many of them as fit: all of them, unless the
\* call timed out.
Succeed(k, late) ==
  /\ phase = "busy"
  /\ fate \in Statuses
  /\ k <= written
  /\ late \/ k = written
  /\ phase' = "idle"
  /\ ok' = TRUE
  /\ exitStatus' = fate
  /\ output' = Prefix(IF k <= size - 1 THEN k ELSE size - 1)
  /\ truncated' = (k > size - 1)
  /\ timedOut' = late
  /\ UNCHANGED <<live, fate, written, size>>

\* However a call fails, no helper outlives it.
Fail ==
  /\ phase = "busy"
  /\ ~live
  /\ phase' = "idle"
  /\ UNCHANGED <<live, fate, written, size, result>>

Next ==
  \/ Refuse \/ Begin \/ Start \/ Output \/ Fail
  \/ \E f \in Statuses \cup {Signalled} : End(f)
  \/ \E k \in 0..written, late \in BOOLEAN : Succeed(k, late)

Spec == Init /\ [][Next]_vars
=============================================================================
