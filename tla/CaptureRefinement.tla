------------------------- MODULE CaptureRefinement -------------------------
(***************************************************************************)
(* Capture implements CaptureContract, for all its constants.              *)
(***************************************************************************)
EXTENDS CaptureProofs

\* A helper that has not ended has no fate, no call begins with one, and only
\* the caller and a helper that has not called exec can read the pipe.
FateInv ==
  /\ pc = "fork" => fate = NoFate
  /\ Alive => fate = NoFate
  /\ "descendant" \notin readers
  /\ "helper" \in readers => child = "forked"

\* FateInv is inductive, given IInv.
LEMMA FateStep == IInv /\ FateInv /\ [Next]_vars => FateInv'
<1> SUFFICES ASSUME IInv, FateInv, [Next]_vars PROVE FateInv'
  OBVIOUS
<1> USE DEF FateInv, IInv, ChildInv, Alive, signalVars, pipeVars, bufferVars, childVars, resultVars
<1>1. CASE OpenPipe  BY <1>1 DEF OpenPipe
<1>2. CASE RejectCall  BY <1>2 DEF RejectCall, Return
<1>3. CASE Fork  BY <1>3 DEF Fork
<1>4. CASE ForkFails  BY <1>4 DEF ForkFails, Return
<1>5. CASE CloseWriteEnd \/ InstallHandler \/ ArmTimer
  BY <1>5 DEF CloseWriteEnd, InstallHandler, ArmTimer
<1>6. CASE CheckAlarm \/ ReadEof \/ ReadBlocks
  BY <1>6 DEF CheckAlarm, ReadEof, ReadBlocks
<1>7. CASE ReadData  BY <1>7 DEF ReadData
<1>8. CASE SampleAlarm \/ DisarmTimer \/ RestoreHandler \/ CloseReadEnd
  BY <1>8 DEF SampleAlarm, DisarmTimer, RestoreHandler, CloseReadEnd
<1>9. CASE PollChild  BY <1>9 DEF PollChild, Return
<1>10. CASE Kill \/ ReapKilled  BY <1>10 DEF Kill, ReapKilled, Return
<1>11. CASE WaitChild  BY <1>11 DEF WaitChild, Return
<1>12. CASE Alarm  BY <1>12 DEF Alarm
<1>13. CASE Alive /\ \E f \in Statuses \cup {Signalled} : HelperEnds(f)
  BY <1>13 DEF HelperEnds
<1>14. CASE Exec \/ Write \/ HelperClosesOutput \/ HelperSpawns \/ DescendantCloses
  BY <1>14 DEF Exec, Write, HelperClosesOutput, HelperSpawns, DescendantCloses
<1>15. CASE Finished \/ UNCHANGED vars  BY <1>15 DEF Finished, vars
<1> QED
  BY <1>1, <1>2, <1>3, <1>4, <1>5, <1>6, <1>7, <1>8, <1>9, <1>10, <1>11, <1>12,
     <1>13, <1>14, <1>15
  DEF Next, Caller, Kernel, Programs, DeliverKill, ExecFails, HelperExits,
      HelperCrashes, HelperSigpipe, Statuses

\* A step that changes nothing the contract speaks of, inside a call.
LEMMA Stutter ==
  ASSUME Phase' = Phase, Alive' <=> Alive, UNCHANGED <<fate, produced, size, exitStatus>>,
         ~Succeeded, ~Succeeded'
  PROVE  UNCHANGED Contract!vars
<1>1. UNCHANGED <<Phase, fate, produced, size, exitStatus>>
  OBVIOUS
<1>2. UNCHANGED Alive
  BY Zenon
<1>3. UNCHANGED Succeeded
  BY SMT DEF Succeeded
<1>4. UNCHANGED (Succeeded /\ truncated) /\ UNCHANGED (Succeeded /\ timedOut)
  BY SMT
<1>5. UNCHANGED [i \in 0..((IF Succeeded THEN used ELSE 0) - 1) |-> buffer[i]]
  OBVIOUS
<1> QED  BY <1>1, <1>2, <1>3, <1>4, <1>5, Zenon DEF Contract!vars, Contract!result

\* A call in progress, and a failed one, show no result.
LEMMA Hidden ==
  /\ (~Succeeded /\ exitStatus = -1) => Contract!NoResult
  /\ (~Succeeded' /\ exitStatus' = -1) => Contract!ClearResult
  BY SMT DEF Contract!NoResult, Contract!ClearResult, Contract!Prefix, Succeeded

\* The initial states of Capture are initial states of the contract.
LEMMA InitRefines == Init => Contract!Init
<1> SUFFICES ASSUME Init PROVE Contract!Init
  OBVIOUS
<1>1. Phase = "idle" /\ ~Alive /\ fate = NoFate /\ produced = 0 /\ size = 0
  BY DEF Init, Phase, Alive
<1>2. ~Succeeded /\ exitStatus = -1
  BY DEF Init, Succeeded
<1>3. Contract!NoResult
  BY <1>2, Hidden
<1>4. Alive = FALSE
  BY <1>1 DEF Alive
<1> QED  BY <1>1, <1>3, <1>4 DEF Contract!Init, Contract!NoFate, NoFate

\* The helper ends: End of the contract.
LEMMA EndRefines ==
  ASSUME IInv, FateInv, Alive, NEW f \in Statuses \cup {Signalled}, HelperEnds(f)
  PROVE  Contract!End(f)
<1>1. Phase = "busy" /\ Phase' = "busy" /\ ~Succeeded /\ ~Succeeded'
  BY DEF IInv, SignalInv, ChildInv, HelperEnds, Phase, Succeeded, Alive
<1>2. Alive' = FALSE /\ fate' = f /\ UNCHANGED <<Phase, produced, size, exitStatus>>
  BY <1>1 DEF HelperEnds, Alive, bufferVars, resultVars
<1>3. UNCHANGED Succeeded
  BY <1>1, SMT DEF Succeeded
<1>4. UNCHANGED (Succeeded /\ truncated) /\ UNCHANGED (Succeeded /\ timedOut)
  BY <1>1, SMT
<1>5. UNCHANGED [i \in 0..((IF Succeeded THEN used ELSE 0) - 1) |-> buffer[i]]
  BY <1>1
<1> QED  BY <1>1, <1>2, <1>3, <1>4, <1>5, Zenon DEF Contract!End, Contract!result

\* The helper is forked: Start.
LEMMA StartRefines == ASSUME IInv, FateInv, Fork PROVE Contract!Start
<1>1. Phase = "busy" /\ Phase' = "busy" /\ ~Succeeded /\ ~Succeeded'
  BY DEF Fork, Phase, Succeeded
<1>2. ~Alive /\ Alive' = TRUE /\ fate = NoFate
      /\ UNCHANGED <<Phase, fate, produced, size, exitStatus>>
  BY <1>1 DEF Fork, Alive, IInv, ChildInv, FateInv, bufferVars, resultVars
<1>3. UNCHANGED Succeeded
  BY <1>1, SMT DEF Succeeded
<1>4. UNCHANGED (Succeeded /\ truncated) /\ UNCHANGED (Succeeded /\ timedOut)
  BY <1>1, SMT
<1>5. UNCHANGED [i \in 0..((IF Succeeded THEN used ELSE 0) - 1) |-> buffer[i]]
  BY <1>1
<1> QED
  BY <1>1, <1>2, <1>3, <1>4, <1>5, Zenon
  DEF Contract!Start, Contract!result, Contract!NoFate, NoFate

\* A byte reaches the pipe: Output.  Nobody can write between two calls.
LEMMA OutputRefines == ASSUME IInv, FateInv, Write PROVE Contract!Output
<1>1. Phase = "busy" /\ Phase' = "busy" /\ ~Succeeded /\ ~Succeeded'
  <2>1. readers # {} /\ readers \subseteq Processes /\ pc' = pc /\ pc # "dead"
    BY DEF Write, IInv, TypeOK, DataOK, SignalInv
  <2>2. pc # "idle"
    BY <2>1 DEF IInv, PipeInv, ChildInv, FateInv, Processes, Guarded
  <2> QED  BY <2>1, <2>2 DEF Phase, Succeeded
<1>2. UNCHANGED Alive
  BY DEF Write, childVars, Alive
<1>3. produced' = produced + 1 /\ UNCHANGED <<Phase, fate, size, exitStatus>>
  BY <1>1 DEF Write, childVars, bufferVars, resultVars
<1>4. UNCHANGED Succeeded
  BY <1>1, SMT DEF Succeeded
<1>5. UNCHANGED (Succeeded /\ truncated) /\ UNCHANGED (Succeeded /\ timedOut)
  BY <1>1, SMT
<1>6. UNCHANGED [i \in 0..((IF Succeeded THEN used ELSE 0) - 1) |-> buffer[i]]
  BY <1>1
<1> QED
  BY <1>1, <1>2, <1>3, <1>4, <1>5, <1>6, Zenon DEF Contract!Output, Contract!result

\* A refused call and the beginning of one.
LEMMA CallRefines ==
  /\ IInv /\ RejectCall => Contract!Refuse
  /\ IInv /\ OpenPipe => Contract!Begin
<1>1. ASSUME IInv, RejectCall PROVE Contract!Refuse
  <2>1. Phase = "idle" /\ Phase' = "idle" /\ ~Succeeded' /\ exitStatus' = -1
    BY <1>1 DEF RejectCall, Return, Phase, Succeeded
  <2>2. UNCHANGED Alive
    BY <1>1 DEF RejectCall, childVars, Alive
  <2>3. size' \in Sizes /\ UNCHANGED <<Phase, fate, produced>>
    BY <1>1, <2>1 DEF RejectCall, childVars, pipeVars
  <2> QED  BY <2>1, <2>2, <2>3, Hidden DEF Contract!Refuse
<1>2. ASSUME IInv, OpenPipe PROVE Contract!Begin
  <2>1. Phase = "idle" /\ Phase' = "busy" /\ ~Succeeded' /\ exitStatus' = -1
    BY <1>2 DEF OpenPipe, Phase, Succeeded
  <2>2. Alive' = FALSE
    BY <1>2 DEF OpenPipe, Alive
  <2>3. size' \in Sizes \ {0} /\ fate' = NoFate /\ produced' = 0
    BY <1>2 DEF OpenPipe
  <2> QED
    BY <2>1, <2>2, <2>3, Hidden DEF Contract!Begin, Contract!NoFate, NoFate
<1> QED  BY <1>1, <1>2

\* A return with FALSE once the helper has ended, or was never started.
LEMMA FailRefines ==
  ASSUME Phase = "busy", Phase' = "idle", ~Alive, ~Alive', ~Succeeded, ~Succeeded',
         UNCHANGED <<fate, produced, size, exitStatus>>
  PROVE  Contract!Fail
<1>1. UNCHANGED Alive
  BY SMT DEF Alive
<1>2. UNCHANGED Succeeded
  BY SMT DEF Succeeded
<1>3. UNCHANGED (Succeeded /\ truncated) /\ UNCHANGED (Succeeded /\ timedOut)
  BY SMT
<1>4. UNCHANGED [i \in 0..((IF Succeeded THEN used ELSE 0) - 1) |-> buffer[i]]
  OBVIOUS
<1> QED  BY <1>1, <1>2, <1>3, <1>4, Zenon DEF Contract!Fail, Contract!result

\* A return with TRUE: the helper's status and the first bytes of its output.
LEMMA SucceedRefines ==
  ASSUME IInv, pc \in {"poll", "wait"}, pc' = "idle", ok' = TRUE, child = "zombie",
         child' = "reaped", fate # Signalled, exitStatus' = fate,
         UNCHANGED <<fate, produced, size, used, buffer, truncated, timedOut>>
  PROVE  \E k \in 0..produced, late \in BOOLEAN : Contract!Succeed(k, late)
<1>1. Phase = "busy" /\ Phase' = "idle" /\ ~Succeeded /\ Succeeded'
  BY DEF Phase, Succeeded
<1>2. fate \in Statuses /\ UNCHANGED Alive
  BY DEF IInv, ChildInv, Alive, Statuses
<1>3. consumed \in 0..produced /\ produced \in Nat /\ size \in Nat /\ size > 0
  BY BoundsAssumption DEF IInv, TypeOK, DataOK, BufferInv
<1>4. BufferFilled
  BY DEF IInv, BufferInv, Ending
<1>5. timedOut \in BOOLEAN /\ (timedOut \/ consumed = produced)
  BY Zenon DEF IInv, TypeOK, FlagsOK, CompleteInv, Ending, OutputOver
<1>6. [i \in 0..((IF Succeeded THEN used ELSE 0) - 1) |-> buffer[i]]'
        = Contract!Prefix(IF consumed <= size - 1 THEN consumed ELSE size - 1)
  <2>1. used = IF consumed <= size - 1 THEN consumed ELSE size - 1
    BY <1>4 DEF BufferFilled, Minimum
  <2>2. \A i \in 0..(used - 1) : buffer[i] = i + 1
    BY <1>4 DEF BufferFilled
  <2>3. [i \in 0..((IF Succeeded THEN used ELSE 0) - 1) |-> buffer[i]]'
          = [i \in 0..(used - 1) |-> buffer[i]]
    BY <1>1
  <2> QED  BY <2>1, <2>2, <2>3 DEF Contract!Prefix
<1>7. (Succeeded /\ truncated)' = (consumed > size - 1)
  BY <1>1, <1>4, SMT DEF BufferFilled
<1>8. (Succeeded /\ timedOut)' = timedOut
  BY <1>1, <1>5, SMT
<1>9. Succeeded' = TRUE
  BY <1>1, SMT DEF Succeeded
<1>10. consumed <= produced
  BY <1>3
<1>11. UNCHANGED <<Alive, fate, produced, size>>
  BY <1>2, Zenon
<1>12. Contract!Succeed(consumed, timedOut)
  BY <1>1, <1>2, <1>5, <1>6, <1>7, <1>8, <1>9, <1>10, <1>11, Zenon
  DEF Contract!Succeed
<1> QED  BY <1>3, <1>5, <1>12, Zenon DEF Contract!Succeed

\* Every step of Capture is a step of the contract or leaves it unchanged.
LEMMA StepRefines ==
  IInv /\ FateInv /\ IInv' /\ [Next]_vars => [Contract!Next]_(Contract!vars)
<1> SUFFICES ASSUME IInv, FateInv, IInv', [Next]_vars
             PROVE  Contract!Next \/ UNCHANGED Contract!vars
  BY DEF Contract!vars
<1> USE DEF signalVars, pipeVars, bufferVars, childVars, resultVars
<1>1. CASE OpenPipe \/ RejectCall
  BY <1>1, CallRefines, Zenon DEF Contract!Next
<1>2. CASE Fork
  BY <1>2, StartRefines, Zenon DEF Contract!Next
<1>3. CASE Write
  BY <1>3, OutputRefines, Zenon DEF Contract!Next
<1>4. CASE Alive /\ \E f \in Statuses \cup {Signalled} : HelperEnds(f)
  BY <1>4, EndRefines, Zenon DEF Contract!Next, Contract!Signalled, Signalled
<1>5. CASE ForkFails
  <2>1. Contract!Fail
    BY <1>5, FailRefines DEF ForkFails, Return, Phase, Succeeded, Alive, IInv, ChildInv
  <2> QED  BY <2>1, Zenon DEF Contract!Next
<1>6. CASE ReapKilled
  <2>1. Contract!Fail
    BY <1>6, FailRefines DEF ReapKilled, Return, Phase, Succeeded, Alive
  <2> QED  BY <2>1, Zenon DEF Contract!Next
<1>7. CASE PollChild
  <2>1. CASE child = "zombie" /\ fate # Signalled
    BY <1>7, <2>1, SucceedRefines, Zenon DEF PollChild, Return, Contract!Next
  <2>2. CASE ~(child = "zombie" /\ fate # Signalled)
    BY <1>7, <2>2, Stutter DEF PollChild, Phase, Succeeded, Alive
  <2> QED  BY <2>1, <2>2
<1>8. CASE WaitChild
  <2>1. CASE child = "zombie" /\ fate # Signalled
    BY <1>8, <2>1, SucceedRefines, Zenon DEF WaitChild, Return, Contract!Next
  <2>2. CASE ~(child = "zombie" /\ fate # Signalled)
    <3>1. Contract!Fail
      BY <1>8, <2>2, FailRefines DEF WaitChild, Return, Phase, Succeeded, Alive
    <3> QED  BY <3>1, Zenon DEF Contract!Next
  <2> QED  BY <2>1, <2>2
<1>9. CASE CloseWriteEnd \/ InstallHandler \/ ArmTimer
  BY <1>9, Stutter DEF CloseWriteEnd, InstallHandler, ArmTimer, Phase, Succeeded, Alive
<1>10. CASE CheckAlarm \/ ReadEof \/ ReadBlocks
  BY <1>10, Stutter DEF CheckAlarm, ReadEof, ReadBlocks, Phase, Succeeded, Alive
<1>11. CASE ReadData
  BY <1>11, Stutter DEF ReadData, Phase, Succeeded, Alive
<1>12. CASE SampleAlarm \/ DisarmTimer \/ RestoreHandler \/ CloseReadEnd \/ Kill
  BY <1>12, Stutter DEF SampleAlarm, DisarmTimer, RestoreHandler, CloseReadEnd, Kill,
     Phase, Succeeded, Alive
<1>13. CASE Alarm
  BY <1>13, Stutter DEF Alarm, IInv, SignalInv, Timed, Phase, Succeeded, Alive
<1>14. CASE Exec
  BY <1>14, Stutter DEF Exec, IInv, SignalInv, ChildInv, Phase, Succeeded, Alive
<1>15. CASE HelperClosesOutput \/ HelperSpawns \/ DescendantCloses \/ Finished
            \/ UNCHANGED vars
  <2>1. UNCHANGED <<pc, ok, child, fate, produced, size, exitStatus, used, buffer,
                    truncated, timedOut>>
    BY <1>15 DEF HelperClosesOutput, HelperSpawns, DescendantCloses, Finished, vars
  <2> QED  BY <2>1, Zenon DEF Contract!vars, Contract!result, Phase, Succeeded, Alive
<1> QED
  BY <1>1, <1>2, <1>3, <1>4, <1>5, <1>6, <1>7, <1>8, <1>9, <1>10, <1>11, <1>12,
     <1>13, <1>14, <1>15
  DEF Next, Caller, Kernel, Programs, DeliverKill, ExecFails, HelperExits,
      HelperCrashes, HelperSigpipe, Statuses, Alive

\* bythos_capture_argv_status_ex, with its pipe, signals and timer, implements
\* the contract its callers rely on, whatever the helper and its descendants do.
THEOREM CaptureRefines == Spec => ImplementsContract
<1>1. Init => FateInv
  BY DEF Init, FateInv, Alive
<1>2. Spec => []FateInv
  BY <1>1, FateStep, CaptureInvariant, PTL DEF Spec
<1> QED
  BY <1>2, CaptureInvariant, InitRefines, StepRefines, PTL
  DEF Spec, ImplementsContract, Contract!Spec
=============================================================================
