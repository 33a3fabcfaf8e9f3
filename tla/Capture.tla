------------------------------ MODULE Capture ------------------------------
(***************************************************************************)
(* bythos_capture_argv_status_ex (src/src/runtime.c): run a helper, read   *)
(* its stdout and stderr through a pipe, stop listening when SIGALRM says  *)
(* that ten seconds have passed, and reap the helper.                      *)
(*                                                                         *)
(* Four parties interleave: the caller (bythos itself, one action per      *)
(* system call), the helper it forked, a descendant the helper may leave   *)
(* behind holding the pipe, and the kernel, which expires the interval     *)
(* timer and delivers signals.  The function is called again and again     *)
(* (once per probe), so state that outlives a call (alarm_fired, the       *)
(* signal disposition, open descriptors, unreaped children) is shared by   *)
(* the calls.                                                              *)
(*                                                                         *)
(* The k-th byte written to the pipe during a call is represented by the   *)
(* number k; the pipe holds the bytes consumed+1 .. produced.              *)
(***************************************************************************)
EXTENDS Integers

CONSTANTS
  Sizes,      \* the buffer sizes callers pass (0 is an invalid argument)
  Chunk,      \* sizeof(chunk): the most bytes one read() takes
  PipeCap,    \* the capacity of the kernel's pipe buffer
  ExitCodes,  \* exit statuses a helper may end with
  MaxBytes,   \* bound: bytes written to the pipe during one call
  MaxCalls    \* bound: number of calls

ASSUME SizesAssumption    == Sizes \subseteq Nat
ASSUME ChunkAssumption    == Chunk \in Nat \ {0}
ASSUME PipeCapAssumption  == PipeCap \in Nat \ {0}
ASSUME ExitAssumption     == ExitCodes \subseteq 0..255
ASSUME BoundsAssumption   == MaxBytes \in Nat /\ MaxCalls \in Nat

VARIABLES
  pc,          \* where the caller is: see PCs
  calls,       \* calls made so far
  alarmFired,  \* the static volatile alarm_fired, shared by all calls
  timer,       \* is the process's ITIMER_REAL armed?
  disp,        \* SIGALRM's disposition: "default", "ignore" or "handler"
  oldSa,       \* old_sa: the disposition sigaction() saved
  readers,     \* processes holding the pipe's read end
  writers,     \* processes holding the pipe's write end
  produced,    \* bytes written to the pipe so far
  consumed,    \* bytes read from the pipe so far
  size,        \* the caller's buffer size
  buffer,      \* the caller's buffer, indexed from 0
  used,        \* bytes of it that hold output
  truncated,   \* *truncated
  timedOut,    \* timed_out
  child,       \* life cycle of the helper process
  fate,        \* how the helper ended: an exit status or Signalled
  sigkill,     \* a SIGKILL sent by kill() is pending for the helper
  autoReap,    \* SIGCHLD was inherited as ignored: the kernel reaps children
  ok,          \* the function's result
  exitStatus   \* *exit_status; callers initialise it to -1

signalVars == <<alarmFired, timer, disp, oldSa>>
pipeVars   == <<readers, writers, produced, consumed>>
bufferVars == <<size, buffer, used, truncated>>
childVars  == <<child, fate, sigkill>>
resultVars == <<ok, exitStatus>>
vars == <<pc, calls, signalVars, pipeVars, bufferVars, timedOut, childVars,
          autoReap, resultVars>>

\* "idle" is outside the function, "dead" is killed by a signal; the others
\* name the next system call or test of the function.
PCs == {"idle", "dead", "fork", "closeW", "install", "arm", "check", "read",
        "blocked", "sample", "disarm", "restore", "closeR", "poll", "kill",
        "killwait", "wait"}

Processes == {"caller", "helper", "descendant"}

NUL       == 0     \* '\0'; output bytes are numbered from 1
Garbage   == -1    \* the content of a buffer nobody wrote to
Signalled == 256   \* fate of a helper ended by a signal (not WIFEXITED)
NoFate    == 257   \* the helper has not ended
Statuses  == ExitCodes \cup {126, 127}

Alive == child \in {"forked", "running"}

Minimum(a, b) == IF a <= b THEN a ELSE b
-----------------------------------------------------------------------------
(***************************************************************************)
(* The caller.                                                             *)
(***************************************************************************)

\* Leaving the function with result b.  Every return path ends here.
Return(b) ==
  /\ pc' = "idle"
  /\ ok' = b

\* A call whose arguments are refused, or whose pipe() fails.
RejectCall ==
  /\ pc = "idle"
  /\ calls < MaxCalls
  /\ \E s \in Sizes :
       /\ size' = s
       /\ buffer' = [i \in 0..(s - 1) |-> Garbage]
  /\ calls' = calls + 1
  /\ truncated' = FALSE
  /\ used' = 0
  /\ exitStatus' = -1
  /\ Return(FALSE)
  /\ UNCHANGED <<signalVars, pipeVars, timedOut, childVars, autoReap>>

\* A call with valid arguments whose pipe() succeeds.
OpenPipe ==
  /\ pc = "idle"
  /\ calls < MaxCalls
  /\ \E s \in Sizes \ {0} :
       /\ size' = s
       /\ buffer' = [i \in 0..(s - 1) |-> Garbage]
  /\ calls' = calls + 1
  /\ truncated' = FALSE
  /\ used' = 0
  /\ readers' = {"caller"}
  /\ writers' = {"caller"}
  /\ produced' = 0
  /\ consumed' = 0
  /\ timedOut' = FALSE
  /\ child' = "none"
  /\ fate' = NoFate
  /\ sigkill' = FALSE
  /\ exitStatus' = -1
  /\ pc' = "fork"
  /\ UNCHANGED <<signalVars, autoReap, ok>>

\* Mutant of ForkFails: the error path forgets the write end.
ForkFailsLeak ==
  /\ pc = "fork"
  /\ readers' = readers \ {"caller"}
  /\ Return(FALSE)
  /\ UNCHANGED <<calls, signalVars, writers, produced, consumed, bufferVars,
                 timedOut, childVars, autoReap, exitStatus>>

\* fork() fails: both pipe ends are closed and the call fails.
ForkFails ==
  /\ pc = "fork"
  /\ readers' = readers \ {"caller"}
  /\ writers' = writers \ {"caller"}
  /\ Return(FALSE)
  /\ UNCHANGED <<calls, signalVars, produced, consumed, bufferVars, timedOut,
                 childVars, autoReap, exitStatus>>

\* fork() succeeds: the helper inherits both ends.
Fork ==
  /\ pc = "fork"
  /\ child' = "forked"
  /\ readers' = readers \cup {"helper"}
  /\ writers' = writers \cup {"helper"}
  /\ pc' = "closeW"
  /\ UNCHANGED <<calls, signalVars, produced, consumed, bufferVars, timedOut,
                 fate, sigkill, autoReap, resultVars>>

\* Mutant of CloseWriteEnd: the caller keeps its own write end.
KeepWriteEnd ==
  /\ pc = "closeW"
  /\ pc' = "install"
  /\ UNCHANGED <<calls, signalVars, pipeVars, bufferVars, timedOut, childVars,
                 autoReap, resultVars>>

\* close(pipefd[1]): without it read() would never see the end of output.
CloseWriteEnd ==
  /\ pc = "closeW"
  /\ writers' = writers \ {"caller"}
  /\ pc' = "install"
  /\ UNCHANGED <<calls, signalVars, readers, produced, consumed, bufferVars,
                 timedOut, childVars, autoReap, resultVars>>

\* sigaction(SIGALRM, &sa, &old_sa)
InstallHandler ==
  /\ pc = "install"
  /\ oldSa' = disp
  /\ disp' = "handler"
  /\ pc' = "arm"
  /\ UNCHANGED <<calls, alarmFired, timer, pipeVars, bufferVars, timedOut,
                 childVars, autoReap, resultVars>>

\* Mutant of ArmTimer: alarm_fired is not cleared.
ArmTimerStale ==
  /\ pc = "arm"
  /\ timer' = TRUE
  /\ buffer' = [buffer EXCEPT ![0] = NUL]
  /\ used' = 0
  /\ pc' = "check"
  /\ UNCHANGED <<calls, alarmFired, disp, oldSa, pipeVars, size, truncated,
                 timedOut, childVars, autoReap, resultVars>>

\* alarm_fired = 0; alarm(10); buffer[0] = '\0'; used = 0
ArmTimer ==
  /\ pc = "arm"
  /\ alarmFired' = FALSE
  /\ timer' = TRUE
  /\ buffer' = [buffer EXCEPT ![0] = NUL]
  /\ used' = 0
  /\ pc' = "check"
  /\ UNCHANGED <<calls, disp, oldSa, pipeVars, size, truncated, timedOut,
                 childVars, autoReap, resultVars>>

\* The loop's first test, !alarm_fired.  A signal that arrives after it and
\* before read() is entered finds nothing to interrupt.
CheckAlarm ==
  /\ pc = "check"
  /\ pc' = IF alarmFired THEN "sample" ELSE "read"
  /\ UNCHANGED <<calls, signalVars, pipeVars, bufferVars, timedOut, childVars,
                 autoReap, resultVars>>

\* Mutant of CopyChunk: no byte is kept for the NUL.
CopyChunkFull(count) ==
  LET remaining == size - used
      to_copy   == Minimum(count, remaining)
  IN IF used < size
     THEN /\ buffer' = [i \in DOMAIN buffer |->
                          IF used <= i /\ i < used + to_copy
                          THEN consumed + 1 + (i - used)
                          ELSE IF i = used + to_copy THEN NUL ELSE buffer[i]]
          /\ used' = used + to_copy
          /\ truncated' = (truncated \/ count > remaining)
     ELSE /\ truncated' = TRUE
          /\ UNCHANGED <<buffer, used>>

\* The loop's body: append a chunk of count bytes, keeping room for the NUL.
CopyChunk(count) ==
  LET remaining == size - used - 1
      to_copy   == Minimum(count, remaining)
  IN IF used + 1 < size
     THEN /\ buffer' = [i \in DOMAIN buffer |->
                          IF used <= i /\ i < used + to_copy
                          THEN consumed + 1 + (i - used)
                          ELSE IF i = used + to_copy THEN NUL ELSE buffer[i]]
          /\ used' = used + to_copy
          /\ truncated' = (truncated \/ count > remaining)
     ELSE /\ truncated' = TRUE
          /\ UNCHANGED <<buffer, used>>

\* Mutant of ReadData: sizeof(chunk) is taken for the number of bytes read.
ReadDataWholeChunk ==
  /\ pc \in {"read", "blocked"}
  /\ consumed < produced
  /\ consumed' = consumed + Chunk
  /\ CopyChunk(Chunk)
  /\ pc' = "check"
  /\ UNCHANGED <<calls, signalVars, readers, writers, produced, size,
                 timedOut, childVars, autoReap, resultVars>>

\* read() returns data, at once or after having blocked.
ReadData ==
  /\ pc \in {"read", "blocked"}
  /\ consumed < produced
  /\ LET count == Minimum(Chunk, produced - consumed)
     IN /\ consumed' = consumed + count
        /\ CopyChunk(count)
  /\ pc' = "check"
  /\ UNCHANGED <<calls, signalVars, readers, writers, produced, size,
                 timedOut, childVars, autoReap, resultVars>>

\* Mutant of ReadEof: an empty pipe is taken for the end of output.
ReadEofEmpty ==
  /\ pc \in {"read", "blocked"}
  /\ consumed = produced
  /\ pc' = "sample"
  /\ UNCHANGED <<calls, signalVars, pipeVars, bufferVars, timedOut, childVars,
                 autoReap, resultVars>>

\* read() returns 0: the pipe is drained and nobody can write to it any more.
ReadEof ==
  /\ pc \in {"read", "blocked"}
  /\ consumed = produced
  /\ writers = {}
  /\ pc' = "sample"
  /\ UNCHANGED <<calls, signalVars, pipeVars, bufferVars, timedOut, childVars,
                 autoReap, resultVars>>

\* read() finds an empty pipe that somebody may still write to, and sleeps.
ReadBlocks ==
  /\ pc = "read"
  /\ consumed = produced
  /\ writers # {}
  /\ pc' = "blocked"
  /\ UNCHANGED <<calls, signalVars, pipeVars, bufferVars, timedOut, childVars,
                 autoReap, resultVars>>

\* timed_out = alarm_fired
SampleAlarm ==
  /\ pc = "sample"
  /\ timedOut' = alarmFired
  /\ pc' = "disarm"
  /\ UNCHANGED <<calls, signalVars, pipeVars, bufferVars, childVars, autoReap,
                 resultVars>>

\* Mutant of DisarmTimer: alarm(0) is missing.
LeaveTimerArmed ==
  /\ pc = "disarm"
  /\ pc' = "restore"
  /\ UNCHANGED <<calls, signalVars, pipeVars, bufferVars, timedOut, childVars,
                 autoReap, resultVars>>

\* alarm(0)
DisarmTimer ==
  /\ pc = "disarm"
  /\ timer' = FALSE
  /\ pc' = "restore"
  /\ UNCHANGED <<calls, alarmFired, disp, oldSa, pipeVars, bufferVars, timedOut,
                 childVars, autoReap, resultVars>>

\* sigaction(SIGALRM, &old_sa, NULL)
RestoreHandler ==
  /\ pc = "restore"
  /\ disp' = oldSa
  /\ pc' = "closeR"
  /\ UNCHANGED <<calls, alarmFired, timer, oldSa, pipeVars, bufferVars, timedOut,
                 childVars, autoReap, resultVars>>

\* close(pipefd[0])
CloseReadEnd ==
  /\ pc = "closeR"
  /\ readers' = readers \ {"caller"}
  /\ pc' = IF timedOut THEN "poll" ELSE "wait"
  /\ UNCHANGED <<calls, signalVars, writers, produced, consumed, bufferVars,
                 timedOut, childVars, autoReap, resultVars>>

\* Mutant of PollChild: WIFEXITED is not tested.
PollChildAnyStatus ==
  /\ pc = "poll"
  /\ child' = IF child = "zombie" THEN "reaped" ELSE child
  /\ IF child = "zombie"
     THEN exitStatus' = fate /\ Return(TRUE)
     ELSE pc' = "kill" /\ UNCHANGED resultVars
  /\ UNCHANGED <<calls, signalVars, pipeVars, bufferVars, timedOut, fate, sigkill,
                 autoReap>>

\* After a timeout: waitpid(pid, &status, WNOHANG).  A helper that has already
\* exited is a success; anything else (still running, ended by a signal and
\* hereby reaped, or gone) is to be killed.
PollChild ==
  /\ pc = "poll"
  /\ child' = IF child = "zombie" THEN "reaped" ELSE child
  /\ IF child = "zombie" /\ fate # Signalled
     THEN /\ exitStatus' = fate
          /\ Return(TRUE)
     ELSE /\ pc' = "kill"
          /\ UNCHANGED resultVars
  /\ UNCHANGED <<calls, signalVars, pipeVars, bufferVars, timedOut, fate, sigkill,
                 autoReap>>

\* Mutant of Kill: the helper is waited for without being killed.
SkipKill ==
  /\ pc = "kill"
  /\ pc' = "killwait"
  /\ UNCHANGED <<calls, signalVars, pipeVars, bufferVars, timedOut, childVars,
                 autoReap, resultVars>>

\* kill(pid, SIGKILL)
Kill ==
  /\ pc = "kill"
  /\ sigkill' = Alive
  /\ pc' = "killwait"
  /\ UNCHANGED <<calls, signalVars, pipeVars, bufferVars, timedOut, child, fate,
                 autoReap, resultVars>>

\* Mutant of ReapKilled: the call returns without waiting for the helper.
ReapKilledNoWait ==
  /\ pc = "killwait"
  /\ child' = IF child = "zombie" THEN "reaped" ELSE child
  /\ Return(FALSE)
  /\ UNCHANGED <<calls, signalVars, pipeVars, bufferVars, timedOut, fate, sigkill,
                 autoReap, exitStatus>>

\* waitpid(pid, NULL, 0) after the kill; ECHILD ends it too.
ReapKilled ==
  /\ pc = "killwait"
  /\ ~Alive
  /\ child' = IF child = "zombie" THEN "reaped" ELSE child
  /\ Return(FALSE)
  /\ UNCHANGED <<calls, signalVars, pipeVars, bufferVars, timedOut, fate, sigkill,
                 autoReap, exitStatus>>

\* waitpid(pid, &status, 0) after the end of output: blocks while the helper
\* lives.  ECHILD (the kernel reaped it) and a death by signal are failures.
WaitChild ==
  /\ pc = "wait"
  /\ ~Alive
  /\ child' = IF child = "zombie" THEN "reaped" ELSE child
  /\ IF child = "zombie" /\ fate # Signalled
     THEN /\ exitStatus' = fate
          /\ Return(TRUE)
     ELSE /\ Return(FALSE)
          /\ UNCHANGED exitStatus
  /\ UNCHANGED <<calls, signalVars, pipeVars, bufferVars, timedOut, fate, sigkill,
                 autoReap>>
-----------------------------------------------------------------------------
(***************************************************************************)
(* The kernel.                                                             *)
(***************************************************************************)

\* The timer expires and SIGALRM is delivered.  A pending signal is delivered
\* before the process runs another instruction of its own, so expiry and
\* delivery are one step.  on_alarm sets the flag; because it was installed
\* without SA_RESTART, a read() asleep in the kernel returns -1.
Alarm ==
  /\ timer
  /\ timer' = FALSE
  /\ alarmFired' = (alarmFired \/ disp = "handler")
  /\ pc' = IF disp = "default" THEN "dead"
           ELSE IF disp = "handler" /\ pc = "blocked" THEN "sample"
           ELSE pc
  /\ UNCHANGED <<calls, disp, oldSa, pipeVars, bufferVars, timedOut, childVars,
                 autoReap, resultVars>>

\* The helper ends with fate f: its descriptors are closed and, unless the
\* kernel reaps children itself, it becomes a zombie.
HelperEnds(f) ==
  /\ fate' = f
  /\ child' = IF autoReap THEN "gone" ELSE "zombie"
  /\ readers' = readers \ {"helper"}
  /\ writers' = writers \ {"helper"}
  /\ UNCHANGED <<pc, calls, signalVars, produced, consumed, bufferVars, timedOut,
                 sigkill, autoReap, resultVars>>

\* The pending SIGKILL ends the helper.
DeliverKill == sigkill /\ Alive /\ HelperEnds(Signalled)
-----------------------------------------------------------------------------
(***************************************************************************)
(* The helper and its descendants: programs outside the repository, which  *)
(* may do anything a program can do with the descriptors they were given.  *)
(***************************************************************************)

\* The child's half of fork(): dup2() or execvp() fails.
ExecFails == child = "forked" /\ \E s \in {126, 127} : HelperEnds(s)

\* The child's half of fork(): the read end is closed and the helper starts.
Exec ==
  /\ child = "forked"
  /\ child' = "running"
  /\ readers' = readers \ {"helper"}
  /\ UNCHANGED <<pc, calls, signalVars, writers, produced, consumed, bufferVars,
                 timedOut, fate, sigkill, autoReap, resultVars>>

HelperExits   == child = "running" /\ \E s \in ExitCodes : HelperEnds(s)
HelperCrashes == child = "running" /\ HelperEnds(Signalled)

\* One byte reaches the pipe, from the helper or from its descendant.
Write ==
  /\ writers \cap {"helper", "descendant"} # {}
  /\ "helper" \in writers => child = "running"
  /\ readers # {}
  /\ produced - consumed < PipeCap
  /\ produced < MaxBytes
  /\ produced' = produced + 1
  /\ UNCHANGED <<pc, calls, signalVars, readers, writers, consumed, bufferVars,
                 timedOut, childVars, autoReap, resultVars>>

\* The helper writes to a pipe nobody reads and is ended by SIGPIPE.
HelperSigpipe ==
  /\ child = "running"
  /\ "helper" \in writers
  /\ readers = {}
  /\ HelperEnds(Signalled)

\* The helper closes stdout and stderr and carries on.
HelperClosesOutput ==
  /\ child = "running"
  /\ "helper" \in writers
  /\ writers' = writers \ {"helper"}
  /\ UNCHANGED <<pc, calls, signalVars, readers, produced, consumed, bufferVars,
                 timedOut, childVars, autoReap, resultVars>>

\* The helper leaves a background process behind that inherits the pipe.
HelperSpawns ==
  /\ child = "running"
  /\ "helper" \in writers
  /\ writers' = writers \cup {"descendant"}
  /\ UNCHANGED <<pc, calls, signalVars, readers, produced, consumed, bufferVars,
                 timedOut, childVars, autoReap, resultVars>>

\* The background process closes the pipe or ends.
DescendantCloses ==
  /\ "descendant" \in writers
  /\ writers' = writers \ {"descendant"}
  /\ UNCHANGED <<pc, calls, signalVars, readers, produced, consumed, bufferVars,
                 timedOut, childVars, autoReap, resultVars>>
-----------------------------------------------------------------------------
\* All MaxCalls calls are over.
Finished ==
  /\ pc = "idle"
  /\ calls = MaxCalls
  /\ UNCHANGED vars

Init ==
  /\ pc = "idle"
  /\ calls = 0
  /\ alarmFired = FALSE
  /\ timer = FALSE
  /\ disp \in {"default", "ignore"}
  /\ oldSa = disp
  /\ readers = {}
  /\ writers = {}
  /\ produced = 0
  /\ consumed = 0
  /\ size = 0
  /\ buffer = [i \in 0..(-1) |-> Garbage]
  /\ used = 0
  /\ truncated = FALSE
  /\ timedOut = FALSE
  /\ child = "none"
  /\ fate = NoFate
  /\ sigkill = FALSE
  /\ autoReap \in BOOLEAN
  /\ ok = FALSE
  /\ exitStatus = -1

Caller ==
  \/ OpenPipe \/ RejectCall
  \/ Fork \/ ForkFails
  \/ CloseWriteEnd \/ InstallHandler \/ ArmTimer
  \/ CheckAlarm \/ ReadData \/ ReadEof \/ ReadBlocks
  \/ SampleAlarm \/ DisarmTimer \/ RestoreHandler \/ CloseReadEnd
  \/ PollChild \/ Kill \/ ReapKilled \/ WaitChild

Kernel == Alarm \/ DeliverKill

Programs ==
  \/ ExecFails \/ Exec \/ HelperExits \/ HelperCrashes
  \/ Write \/ HelperSigpipe \/ HelperClosesOutput
  \/ HelperSpawns \/ DescendantCloses

Next == Caller \/ Kernel \/ Programs \/ Finished

Spec == Init /\ [][Next]_vars

\* The caller is scheduled, ten seconds pass, and SIGKILL is delivered.
\* Nothing is assumed of the helper: the timeout exists because of that.
Fairness == WF_vars(Caller) /\ WF_vars(Alarm) /\ WF_vars(DeliverKill)

FairSpec == Spec /\ Fairness
-----------------------------------------------------------------------------
(***************************************************************************)
(* Properties.                                                             *)
(***************************************************************************)

\* The Boolean variables.
FlagsOK ==
  /\ alarmFired \in BOOLEAN
  /\ timer \in BOOLEAN
  /\ truncated \in BOOLEAN
  /\ timedOut \in BOOLEAN
  /\ sigkill \in BOOLEAN
  /\ autoReap \in BOOLEAN
  /\ ok \in BOOLEAN

\* The other variables.  Bytes leave the pipe in the order in which they
\* entered it, so consumed never overtakes produced.
DataOK ==
  /\ pc \in PCs
  /\ calls \in 0..MaxCalls
  /\ disp \in {"default", "ignore", "handler"}
  /\ oldSa \in {"default", "ignore", "handler"}
  /\ readers \subseteq Processes
  /\ writers \subseteq Processes
  /\ produced \in 0..MaxBytes
  /\ consumed \in 0..produced
  /\ size \in Nat
  /\ used \in Nat
  /\ buffer \in [0..(size - 1) -> {Garbage, NUL} \cup 1..MaxBytes]
  /\ child \in {"none", "forked", "running", "zombie", "gone", "reaped"}
  /\ fate \in Statuses \cup {Signalled, NoFate}
  /\ exitStatus \in Statuses \cup {-1}

\* Type invariant of the caller, the pipe, the helper and the kernel state.
TypeOK == FlagsOK /\ DataOK

\* bythos is never ended by the SIGALRM it asked for: the timer runs only
\* while on_alarm is installed (handler before alarm(10), alarm(0) before the
\* old disposition comes back), whatever the moment at which it expires.
NeverKilledByAlarm == pc # "dead"

\* A call leaves nothing behind, on any of its return paths: no armed timer,
\* no handler, no open pipe descriptor, no running or unreaped helper.
CleanReturn ==
  pc = "idle" =>
    /\ ~timer
    /\ disp = oldSa /\ disp # "handler"
    /\ "caller" \notin readers \cup writers
    /\ child \in {"none", "gone", "reaped"}

\* A call is treated as timed out only if its own timer expired: a flag left
\* set by an earlier call never cuts a later one short.
NoSpuriousTimeout == (pc = "disarm" /\ timedOut) => ~timer

\* The result tells the truth about the helper: TRUE only if it exited by
\* itself, and then *exit_status is its own status; a helper ended by a
\* signal, the timeout's SIGKILL included, is never a success, and a failed
\* call leaves *exit_status alone.
ResultMatchesFate ==
  pc = "idle" => IF ok THEN fate \in Statuses /\ exitStatus = fate
                       ELSE exitStatus = -1

\* Whenever the loop tests the flag, and in every successful result, the
\* buffer is a NUL-terminated prefix of what was read, as long as the buffer
\* allows, and *truncated says exactly whether bytes were dropped: a byte
\* count of size - 1 fits, one more does not.
OutputIsPrefix ==
  (pc = "check" \/ (pc = "idle" /\ ok)) =>
    /\ used = Minimum(consumed, size - 1)
    /\ truncated <=> consumed > size - 1
    /\ \A i \in 0..(used - 1) : buffer[i] = i + 1
    /\ buffer[used] = NUL

\* A success that is neither truncated nor timed out carries everything the
\* helper and its descendants wrote.
CompleteUnlessFlagged ==
  (pc = "idle" /\ ok /\ ~truncated /\ ~timedOut) => used = produced

\* Once the helper has ended and no descendant holds the pipe, the call
\* returns, whatever the timer does.
ReturnsOnceWritersGone ==
  (pc # "idle" /\ fate # NoFate /\ "descendant" \notin writers) ~> (pc = "idle")

\* An alarm the loop has seen ends the call, however the helper and its
\* descendants behave: the helper is polled, killed and reaped.
SeenAlarmEndsCall == (pc = "check" /\ alarmFired) ~> (pc = "idle")

\* What a caller sees of the state: see CaptureContract.
Phase     == IF pc \in {"idle", "dead"} THEN pc ELSE "busy"
Succeeded == pc = "idle" /\ ok

Contract == INSTANCE CaptureContract WITH
  phase      <- Phase,
  live       <- Alive,
  written    <- produced,
  ok         <- Succeeded,
  output     <- [i \in 0..((IF Succeeded THEN used ELSE 0) - 1) |-> buffer[i]],
  truncated  <- Succeeded /\ truncated,
  timedOut   <- Succeeded /\ timedOut

\* The function keeps the contract the checks rely on: one helper per call, ended
\* and reaped before the call is, and a success with that helper's own status
\* and a prefix of its output, never with that of an earlier call.
ImplementsContract == Contract!Spec

\* README.md, "How It Works": output "is captured through a bounded pipe with
\* a 10-second timeout": the loop that reads the pipe ends.
ReadBounded ==
  (pc \in {"check", "read", "blocked"}) ~> (pc \notin {"check", "read", "blocked"})

\* The same sentence for the end of the call: once the output has ended, the
\* wait for the helper's status ends too.
WaitBounded == (pc = "wait") ~> (pc # "wait")
=============================================================================
