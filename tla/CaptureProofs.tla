--------------------------- MODULE CaptureProofs ---------------------------
(***************************************************************************)
(* Proofs about Capture for all buffer sizes, chunk sizes, pipe            *)
(* capacities, output lengths and numbers of calls.                        *)
(***************************************************************************)
EXTENDS Capture, TLAPS

\* The system calls between sigaction(on_alarm) and its undoing.
Guarded == {"arm", "check", "read", "blocked", "sample", "disarm", "restore"}

\* The part of it during which the timer may run.
Timed == {"check", "read", "blocked", "sample", "disarm"}

\* After the read loop, up to the return.
Ending == {"disarm", "restore", "closeR", "poll", "kill", "killwait", "wait"}

\* Signals: the timer runs only under the handler, and has expired if this
\* call's flag is set.
SignalInv ==
  /\ pc # "dead"
  /\ timer => pc \in Timed
  /\ disp = IF pc \in Guarded THEN "handler" ELSE oldSa
  /\ oldSa # "handler"
  /\ (pc \in {"check", "read", "blocked", "sample"} /\ alarmFired) => ~timer
  /\ (pc = "disarm" /\ timedOut) => ~timer

\* Descriptors: who holds which end when.
PipeInv ==
  /\ "caller" \in readers <=>
       pc \in Guarded \cup {"fork", "closeW", "install", "closeR"}
  /\ "caller" \in writers <=> pc \in {"fork", "closeW"}
  /\ "helper" \in writers => Alive

\* The helper's life cycle and what the caller has been told about it.
ChildInv ==
  /\ pc = "idle" => child \in {"none", "gone", "reaped"}
  /\ pc = "fork" => child = "none"
  /\ pc # "idle" => exitStatus = -1
  /\ pc = "idle" => IF ok THEN fate \in Statuses /\ exitStatus = fate
                          ELSE exitStatus = -1
  /\ child = "zombie" => fate \in Statuses \cup {Signalled}

\* The buffer once buffer[0] = '\0' has run.
BufferFilled ==
  /\ used = Minimum(consumed, size - 1)
  /\ truncated <=> consumed > size - 1
  /\ \A i \in 0..(used - 1) : buffer[i] = i + 1
  /\ buffer[used] = NUL

BufferInv ==
  /\ pc # "idle" => size > 0
  /\ pc \in {"fork", "closeW", "install", "arm"} =>
       consumed = 0 /\ ~truncated
  /\ pc \in {"check", "read", "blocked", "sample"} \cup Ending => BufferFilled
  /\ (pc = "idle" /\ ok) => BufferFilled

\* A loop that was not stopped by the alarm ended because the output did.
OutputOver == consumed = produced /\ writers = {}

CompleteInv ==
  /\ (pc = "sample" /\ ~alarmFired) => OutputOver
  /\ (pc \in Ending /\ ~timedOut) => OutputOver
  /\ (pc = "idle" /\ ok /\ ~timedOut) => OutputOver

IInv == TypeOK /\ SignalInv /\ PipeInv /\ ChildInv /\ BufferInv /\ CompleteInv
-----------------------------------------------------------------------------
\* Every step keeps the Boolean variables Boolean.
LEMMA FlagsStep == FlagsOK /\ [Next]_vars => FlagsOK'
<1> SUFFICES ASSUME FlagsOK, [Next]_vars PROVE FlagsOK'
  OBVIOUS
<1> USE Zenon DEF FlagsOK, signalVars, pipeVars, bufferVars, childVars, resultVars
<1>1. CASE OpenPipe  BY <1>1 DEF OpenPipe
<1>2. CASE RejectCall  BY <1>2 DEF RejectCall, Return
<1>3. CASE Fork  BY <1>3 DEF Fork
<1>4. CASE ForkFails  BY <1>4 DEF ForkFails, Return
<1>5. CASE CloseWriteEnd  BY <1>5 DEF CloseWriteEnd
<1>6. CASE InstallHandler  BY <1>6 DEF InstallHandler
<1>7. CASE ArmTimer  BY <1>7 DEF ArmTimer
<1>8. CASE CheckAlarm  BY <1>8 DEF CheckAlarm
<1>9. CASE ReadData  BY <1>9 DEF ReadData, CopyChunk, Minimum
<1>10. CASE ReadEof  BY <1>10 DEF ReadEof
<1>11. CASE ReadBlocks  BY <1>11 DEF ReadBlocks
<1>12. CASE SampleAlarm  BY <1>12 DEF SampleAlarm
<1>13. CASE DisarmTimer  BY <1>13 DEF DisarmTimer
<1>14. CASE RestoreHandler  BY <1>14 DEF RestoreHandler
<1>15. CASE CloseReadEnd  BY <1>15 DEF CloseReadEnd
<1>16. CASE PollChild  BY <1>16 DEF PollChild, Return
<1>17. CASE Kill
  <2>1. sigkill' \in BOOLEAN  BY <1>17, SMT DEF Kill, Alive
  <2> QED  BY <1>17, <2>1 DEF Kill
<1>18. CASE ReapKilled  BY <1>18 DEF ReapKilled, Return, Alive
<1>19. CASE WaitChild  BY <1>19 DEF WaitChild, Return, Alive
<1>20. CASE Alarm  BY <1>20 DEF Alarm
<1>21. CASE DeliverKill  BY <1>21 DEF DeliverKill, HelperEnds, Alive
<1>22. CASE ExecFails  BY <1>22 DEF ExecFails, HelperEnds
<1>23. CASE Exec  BY <1>23 DEF Exec
<1>24. CASE HelperExits  BY <1>24 DEF HelperExits, HelperEnds
<1>25. CASE HelperCrashes  BY <1>25 DEF HelperCrashes, HelperEnds
<1>26. CASE Write  BY <1>26 DEF Write
<1>27. CASE HelperSigpipe  BY <1>27 DEF HelperSigpipe, HelperEnds
<1>28. CASE HelperClosesOutput  BY <1>28 DEF HelperClosesOutput
<1>29. CASE HelperSpawns  BY <1>29 DEF HelperSpawns
<1>30. CASE DescendantCloses  BY <1>30 DEF DescendantCloses
<1>31. CASE Finished  BY <1>31 DEF Finished, vars
<1>32. CASE UNCHANGED vars  BY <1>32 DEF vars
<1> QED
  BY <1>1, <1>2, <1>3, <1>4, <1>5, <1>6, <1>7, <1>8, <1>9, <1>10, <1>11, <1>12, <1>13, <1>14, <1>15, <1>16, <1>17, <1>18, <1>19, <1>20, <1>21, <1>22, <1>23, <1>24, <1>25, <1>26, <1>27, <1>28, <1>29, <1>30, <1>31, <1>32
  DEF Next, Caller, Kernel, Programs

\* Every step keeps the types of the other variables.
LEMMA DataStep == FlagsOK /\ DataOK /\ ChildInv /\ [Next]_vars => DataOK'
<1> SUFFICES ASSUME FlagsOK, DataOK, ChildInv, [Next]_vars PROVE DataOK'
  OBVIOUS
<1> USE SizesAssumption, ChunkAssumption, ExitAssumption, BoundsAssumption DEF DataOK, PCs, Processes, Statuses, Signalled, NoFate, Garbage, NUL, signalVars, pipeVars, bufferVars, childVars, resultVars
<1>1. CASE OpenPipe  BY <1>1 DEF OpenPipe
<1>2. CASE RejectCall  BY <1>2 DEF RejectCall, Return
<1>3. CASE Fork  BY <1>3 DEF Fork
<1>4. CASE ForkFails  BY <1>4 DEF ForkFails, Return
<1>5. CASE CloseWriteEnd  BY <1>5 DEF CloseWriteEnd
<1>6. CASE InstallHandler  BY <1>6 DEF InstallHandler
<1>7. CASE ArmTimer
  <2>1. buffer' \in [0..(size' - 1) -> {Garbage, NUL} \cup 1..MaxBytes]
    BY <1>7 DEF ArmTimer
  <2> QED  BY <1>7, <2>1 DEF ArmTimer
<1>8. CASE CheckAlarm  BY <1>8 DEF CheckAlarm
<1>9. CASE ReadData  BY <1>9 DEF ReadData, CopyChunk, Minimum
<1>10. CASE ReadEof  BY <1>10 DEF ReadEof
<1>11. CASE ReadBlocks  BY <1>11 DEF ReadBlocks
<1>12. CASE SampleAlarm  BY <1>12 DEF SampleAlarm
<1>13. CASE DisarmTimer  BY <1>13 DEF DisarmTimer
<1>14. CASE RestoreHandler  BY <1>14 DEF RestoreHandler
<1>15. CASE CloseReadEnd  BY <1>15 DEF CloseReadEnd
<1>16. CASE PollChild
  BY <1>16 DEF PollChild, Return, ChildInv
<1>17. CASE Kill  BY <1>17 DEF Kill, Alive
<1>18. CASE ReapKilled  BY <1>18 DEF ReapKilled, Return, Alive
<1>19. CASE WaitChild
  BY <1>19 DEF WaitChild, Return, ChildInv
<1>20. CASE Alarm  BY <1>20 DEF Alarm
<1>21. CASE DeliverKill  BY <1>21 DEF DeliverKill, HelperEnds, Alive
<1>22. CASE ExecFails  BY <1>22 DEF ExecFails, HelperEnds
<1>23. CASE Exec  BY <1>23 DEF Exec
<1>24. CASE HelperExits  BY <1>24 DEF HelperExits, HelperEnds
<1>25. CASE HelperCrashes  BY <1>25 DEF HelperCrashes, HelperEnds
<1>26. CASE Write  BY <1>26 DEF Write
<1>27. CASE HelperSigpipe  BY <1>27 DEF HelperSigpipe, HelperEnds
<1>28. CASE HelperClosesOutput  BY <1>28 DEF HelperClosesOutput
<1>29. CASE HelperSpawns  BY <1>29 DEF HelperSpawns
<1>30. CASE DescendantCloses  BY <1>30 DEF DescendantCloses
<1>31. CASE Finished  BY <1>31 DEF Finished, vars
<1>32. CASE UNCHANGED vars  BY <1>32 DEF vars
<1> QED
  BY <1>1, <1>2, <1>3, <1>4, <1>5, <1>6, <1>7, <1>8, <1>9, <1>10, <1>11, <1>12, <1>13, <1>14, <1>15, <1>16, <1>17, <1>18, <1>19, <1>20, <1>21, <1>22, <1>23, <1>24, <1>25, <1>26, <1>27, <1>28, <1>29, <1>30, <1>31, <1>32
  DEF Next, Caller, Kernel, Programs

\* Every step keeps the signal state in order.
LEMMA SignalStep == TypeOK /\ SignalInv /\ [Next]_vars => SignalInv'
<1> SUFFICES ASSUME TypeOK, SignalInv, [Next]_vars PROVE SignalInv'
  OBVIOUS
<1> USE DEF SignalInv, Guarded, Timed, TypeOK, FlagsOK, DataOK, PCs, signalVars, pipeVars, bufferVars, childVars, resultVars
<1>1. CASE OpenPipe  BY <1>1 DEF OpenPipe
<1>2. CASE RejectCall  BY <1>2 DEF RejectCall, Return
<1>3. CASE Fork  BY <1>3 DEF Fork
<1>4. CASE ForkFails  BY <1>4 DEF ForkFails, Return
<1>5. CASE CloseWriteEnd  BY <1>5 DEF CloseWriteEnd
<1>6. CASE InstallHandler  BY <1>6 DEF InstallHandler
<1>7. CASE ArmTimer  BY <1>7 DEF ArmTimer
<1>8. CASE CheckAlarm  BY <1>8 DEF CheckAlarm
<1>9. CASE ReadData  BY <1>9 DEF ReadData, CopyChunk, Minimum
<1>10. CASE ReadEof  BY <1>10 DEF ReadEof
<1>11. CASE ReadBlocks  BY <1>11 DEF ReadBlocks
<1>12. CASE SampleAlarm  BY <1>12 DEF SampleAlarm
<1>13. CASE DisarmTimer  BY <1>13 DEF DisarmTimer
<1>14. CASE RestoreHandler  BY <1>14 DEF RestoreHandler
<1>15. CASE CloseReadEnd  BY <1>15 DEF CloseReadEnd
<1>16. CASE PollChild  BY <1>16 DEF PollChild, Return
<1>17. CASE Kill  BY <1>17 DEF Kill, Alive
<1>18. CASE ReapKilled  BY <1>18 DEF ReapKilled, Return, Alive
<1>19. CASE WaitChild  BY <1>19 DEF WaitChild, Return, Alive
<1>20. CASE Alarm  BY <1>20 DEF Alarm
<1>21. CASE DeliverKill  BY <1>21 DEF DeliverKill, HelperEnds, Alive
<1>22. CASE ExecFails  BY <1>22 DEF ExecFails, HelperEnds
<1>23. CASE Exec  BY <1>23 DEF Exec
<1>24. CASE HelperExits  BY <1>24 DEF HelperExits, HelperEnds
<1>25. CASE HelperCrashes  BY <1>25 DEF HelperCrashes, HelperEnds
<1>26. CASE Write  BY <1>26 DEF Write
<1>27. CASE HelperSigpipe  BY <1>27 DEF HelperSigpipe, HelperEnds
<1>28. CASE HelperClosesOutput  BY <1>28 DEF HelperClosesOutput
<1>29. CASE HelperSpawns  BY <1>29 DEF HelperSpawns
<1>30. CASE DescendantCloses  BY <1>30 DEF DescendantCloses
<1>31. CASE Finished  BY <1>31 DEF Finished, vars
<1>32. CASE UNCHANGED vars  BY <1>32 DEF vars
<1> QED
  BY <1>1, <1>2, <1>3, <1>4, <1>5, <1>6, <1>7, <1>8, <1>9, <1>10, <1>11, <1>12, <1>13, <1>14, <1>15, <1>16, <1>17, <1>18, <1>19, <1>20, <1>21, <1>22, <1>23, <1>24, <1>25, <1>26, <1>27, <1>28, <1>29, <1>30, <1>31, <1>32
  DEF Next, Caller, Kernel, Programs

\* Every step keeps the accounting of descriptors.
LEMMA PipeStep == TypeOK /\ SignalInv /\ PipeInv /\ [Next]_vars => PipeInv'
<1> SUFFICES ASSUME TypeOK, SignalInv, PipeInv, [Next]_vars PROVE PipeInv'
  OBVIOUS
<1> USE DEF PipeInv, Guarded, Alive, TypeOK, FlagsOK, DataOK, PCs, SignalInv, Processes, signalVars, pipeVars, bufferVars, childVars, resultVars
<1>1. CASE OpenPipe  BY <1>1 DEF OpenPipe
<1>2. CASE RejectCall  BY <1>2 DEF RejectCall, Return
<1>3. CASE Fork  BY <1>3 DEF Fork
<1>4. CASE ForkFails  BY <1>4 DEF ForkFails, Return
<1>5. CASE CloseWriteEnd  BY <1>5 DEF CloseWriteEnd
<1>6. CASE InstallHandler  BY <1>6 DEF InstallHandler
<1>7. CASE ArmTimer  BY <1>7 DEF ArmTimer
<1>8. CASE CheckAlarm  BY <1>8 DEF CheckAlarm
<1>9. CASE ReadData  BY <1>9 DEF ReadData, CopyChunk, Minimum
<1>10. CASE ReadEof  BY <1>10 DEF ReadEof
<1>11. CASE ReadBlocks  BY <1>11 DEF ReadBlocks
<1>12. CASE SampleAlarm  BY <1>12 DEF SampleAlarm
<1>13. CASE DisarmTimer  BY <1>13 DEF DisarmTimer
<1>14. CASE RestoreHandler  BY <1>14 DEF RestoreHandler
<1>15. CASE CloseReadEnd  BY <1>15 DEF CloseReadEnd
<1>16. CASE PollChild  BY <1>16 DEF PollChild, Return
<1>17. CASE Kill  BY <1>17 DEF Kill
<1>18. CASE ReapKilled  BY <1>18 DEF ReapKilled, Return
<1>19. CASE WaitChild  BY <1>19 DEF WaitChild, Return
<1>20. CASE Alarm
  <2>1. disp = "handler" /\ pc \in Timed
    BY <1>20 DEF Alarm, Timed, Guarded
  <2>2. pc' = IF pc = "blocked" THEN "sample" ELSE pc
    BY <1>20, <2>1 DEF Alarm
  <2>3. UNCHANGED <<readers, writers, child, fate, ok, exitStatus>>
    BY <1>20 DEF Alarm
  <2> QED  BY <2>1, <2>2, <2>3 DEF Timed
<1>21. CASE DeliverKill  BY <1>21 DEF DeliverKill, HelperEnds
<1>22. CASE ExecFails  BY <1>22 DEF ExecFails, HelperEnds
<1>23. CASE Exec  BY <1>23 DEF Exec
<1>24. CASE HelperExits  BY <1>24 DEF HelperExits, HelperEnds
<1>25. CASE HelperCrashes  BY <1>25 DEF HelperCrashes, HelperEnds
<1>26. CASE Write  BY <1>26 DEF Write
<1>27. CASE HelperSigpipe  BY <1>27 DEF HelperSigpipe, HelperEnds
<1>28. CASE HelperClosesOutput  BY <1>28 DEF HelperClosesOutput
<1>29. CASE HelperSpawns  BY <1>29 DEF HelperSpawns
<1>30. CASE DescendantCloses  BY <1>30 DEF DescendantCloses
<1>31. CASE Finished  BY <1>31 DEF Finished, vars
<1>32. CASE UNCHANGED vars  BY <1>32 DEF vars
<1> QED
  BY <1>1, <1>2, <1>3, <1>4, <1>5, <1>6, <1>7, <1>8, <1>9, <1>10, <1>11, <1>12, <1>13, <1>14, <1>15, <1>16, <1>17, <1>18, <1>19, <1>20, <1>21, <1>22, <1>23, <1>24, <1>25, <1>26, <1>27, <1>28, <1>29, <1>30, <1>31, <1>32
  DEF Next, Caller, Kernel, Programs

\* Every step keeps the caller's knowledge of the helper.
LEMMA ChildStep == TypeOK /\ SignalInv /\ ChildInv /\ [Next]_vars => ChildInv'
<1> SUFFICES ASSUME TypeOK, SignalInv, ChildInv, [Next]_vars PROVE ChildInv'
  OBVIOUS
<1> USE DEF ChildInv, TypeOK, FlagsOK, DataOK, PCs, SignalInv, Alive, Statuses, Signalled, NoFate, signalVars, pipeVars, bufferVars, childVars, resultVars
<1>1. CASE OpenPipe  BY <1>1 DEF OpenPipe
<1>2. CASE RejectCall  BY <1>2 DEF RejectCall, Return
<1>3. CASE Fork  BY <1>3 DEF Fork
<1>4. CASE ForkFails  BY <1>4 DEF ForkFails, Return
<1>5. CASE CloseWriteEnd  BY <1>5 DEF CloseWriteEnd
<1>6. CASE InstallHandler  BY <1>6 DEF InstallHandler
<1>7. CASE ArmTimer  BY <1>7 DEF ArmTimer
<1>8. CASE CheckAlarm  BY <1>8 DEF CheckAlarm
<1>9. CASE ReadData  BY <1>9 DEF ReadData, CopyChunk, Minimum
<1>10. CASE ReadEof  BY <1>10 DEF ReadEof
<1>11. CASE ReadBlocks  BY <1>11 DEF ReadBlocks
<1>12. CASE SampleAlarm  BY <1>12 DEF SampleAlarm
<1>13. CASE DisarmTimer  BY <1>13 DEF DisarmTimer
<1>14. CASE RestoreHandler  BY <1>14 DEF RestoreHandler
<1>15. CASE CloseReadEnd  BY <1>15 DEF CloseReadEnd
<1>16. CASE PollChild  BY <1>16 DEF PollChild, Return
<1>17. CASE Kill  BY <1>17 DEF Kill
<1>18. CASE ReapKilled  BY <1>18 DEF ReapKilled, Return
<1>19. CASE WaitChild  BY <1>19 DEF WaitChild, Return
<1>20. CASE Alarm
  <2>1. disp = "handler" /\ pc \in Timed
    BY <1>20 DEF Alarm, Timed, Guarded
  <2>2. pc' = IF pc = "blocked" THEN "sample" ELSE pc
    BY <1>20, <2>1 DEF Alarm
  <2>3. UNCHANGED <<readers, writers, child, fate, ok, exitStatus>>
    BY <1>20 DEF Alarm
  <2> QED  BY <2>1, <2>2, <2>3 DEF Timed
<1>21. CASE DeliverKill  BY <1>21 DEF DeliverKill, HelperEnds
<1>22. CASE ExecFails  BY <1>22 DEF ExecFails, HelperEnds
<1>23. CASE Exec  BY <1>23 DEF Exec
<1>24. CASE HelperExits  BY <1>24 DEF HelperExits, HelperEnds
<1>25. CASE HelperCrashes  BY <1>25 DEF HelperCrashes, HelperEnds
<1>26. CASE Write  BY <1>26 DEF Write
<1>27. CASE HelperSigpipe  BY <1>27 DEF HelperSigpipe, HelperEnds
<1>28. CASE HelperClosesOutput  BY <1>28 DEF HelperClosesOutput
<1>29. CASE HelperSpawns  BY <1>29 DEF HelperSpawns
<1>30. CASE DescendantCloses  BY <1>30 DEF DescendantCloses
<1>31. CASE Finished  BY <1>31 DEF Finished, vars
<1>32. CASE UNCHANGED vars  BY <1>32 DEF vars
<1> QED
  BY <1>1, <1>2, <1>3, <1>4, <1>5, <1>6, <1>7, <1>8, <1>9, <1>10, <1>11, <1>12, <1>13, <1>14, <1>15, <1>16, <1>17, <1>18, <1>19, <1>20, <1>21, <1>22, <1>23, <1>24, <1>25, <1>26, <1>27, <1>28, <1>29, <1>30, <1>31, <1>32
  DEF Next, Caller, Kernel, Programs

\* Every step keeps the buffer a terminated prefix of what was read.
LEMMA BufferStep == TypeOK /\ SignalInv /\ BufferInv /\ [Next]_vars => BufferInv'
<1> SUFFICES ASSUME TypeOK, SignalInv, BufferInv, [Next]_vars PROVE BufferInv'
  OBVIOUS
<1> USE DEF BufferInv, BufferFilled, Ending, signalVars, pipeVars, bufferVars, childVars, resultVars
<1>1. CASE OpenPipe
  <2>1. size' > 0 /\ pc' = "fork" /\ consumed' = 0 /\ truncated' = FALSE
    BY <1>1, SizesAssumption DEF OpenPipe
  <2> QED  BY <2>1
<1>2. CASE RejectCall  BY <1>2 DEF RejectCall, Return
<1>3. CASE Fork  BY <1>3 DEF Fork
<1>4. CASE ForkFails  BY <1>4 DEF ForkFails, Return
<1>5. CASE CloseWriteEnd  BY <1>5 DEF CloseWriteEnd
<1>6. CASE InstallHandler  BY <1>6 DEF InstallHandler
<1>7. CASE ArmTimer
  <2>1. consumed = 0 /\ ~truncated /\ size > 0 /\ pc' = "check"
    BY <1>7 DEF ArmTimer
  <2>2. UNCHANGED <<consumed, size, truncated>>
    BY <1>7 DEF ArmTimer
  <2>3. used' = 0 /\ buffer'[0] = NUL
    BY <1>7, <2>1 DEF ArmTimer, TypeOK, DataOK
  <2> QED  BY <2>1, <2>2, <2>3 DEF TypeOK, DataOK, Minimum
<1>8. CASE CheckAlarm  BY <1>8 DEF CheckAlarm
<1>9. CASE ReadData
  <2> DEFINE count == Minimum(Chunk, produced - consumed)
             remaining == size - used - 1
             to_copy == Minimum(count, remaining)
  <2>1. count \in Nat /\ count > 0
    BY <1>9, ChunkAssumption DEF ReadData, TypeOK, DataOK, Minimum
  <2>2. BufferFilled /\ size > 0
    BY <1>9 DEF ReadData
  <2>3. /\ consumed \in Nat /\ size \in Nat /\ used \in Nat
        /\ used <= size - 1 /\ DOMAIN buffer = 0..(size - 1)
    BY <2>2 DEF TypeOK, DataOK, Minimum
  <2>4. /\ pc' = "check" /\ UNCHANGED size
        /\ consumed' = consumed + count
        /\ CopyChunk(count)
    BY <1>9 DEF ReadData
  <2>5. CASE used + 1 < size
    <3>1. /\ used' = used + to_copy
          /\ buffer' = [i \in DOMAIN buffer |->
                          IF used <= i /\ i < used + to_copy
                          THEN consumed + 1 + (i - used)
                          ELSE IF i = used + to_copy THEN NUL ELSE buffer[i]]
          /\ truncated' = (truncated \/ count > remaining)
      BY <2>4, <2>5 DEF CopyChunk
    <3>2. consumed = used /\ ~truncated
      BY <2>2, <2>3, <2>5 DEF Minimum
    <3>3. /\ to_copy \in Nat /\ to_copy <= remaining
          /\ used' = Minimum(consumed', size - 1)
      BY <2>1, <2>3, <2>4, <2>5, <3>1, <3>2 DEF Minimum
    <3>4. truncated' <=> consumed' > size - 1
      <4>1. count > remaining <=> consumed' > size - 1
        BY <2>1, <2>3, <2>4, <3>2
      <4> QED  BY <3>1, <3>2, <4>1, Zenon
    <3>5. \A i \in 0..(used' - 1) : buffer'[i] = i + 1
      <4> SUFFICES ASSUME NEW i \in 0..(used' - 1) PROVE buffer'[i] = i + 1
        OBVIOUS
      <4>1. i \in DOMAIN buffer /\ i < used + to_copy
        BY <2>3, <3>1, <3>3
      <4>2. CASE i < used
        <5>1. i \in 0..(used - 1) /\ ~(used <= i) /\ i # used + to_copy
          BY <2>3, <3>3, <4>2
        <5>2. buffer'[i] = buffer[i]
          BY <3>1, <4>1, <5>1
        <5> QED  BY <2>2, <5>1, <5>2
      <4>3. CASE used <= i  BY <2>3, <3>1, <3>2, <4>1, <4>3
      <4> QED  BY <2>3, <4>1, <4>2, <4>3
    <3>6. buffer'[used'] = NUL
      BY <2>3, <3>1, <3>3
    <3> QED  BY <2>2, <2>4, <3>3, <3>4, <3>5, <3>6
  <2>6. CASE ~(used + 1 < size)
    <3>1. truncated' /\ UNCHANGED <<buffer, used>>
      BY <2>4, <2>6 DEF CopyChunk
    <3>2. used = size - 1 /\ consumed >= size - 1
      BY <2>2, <2>3, <2>6 DEF Minimum
    <3>3. consumed' > size - 1 /\ used' = Minimum(consumed', size - 1)
      BY <2>1, <2>3, <2>4, <3>1, <3>2 DEF Minimum
    <3> QED  BY <2>2, <2>4, <3>1, <3>3
  <2> QED  BY <2>5, <2>6
<1>10. CASE ReadEof  BY <1>10 DEF ReadEof
<1>11. CASE ReadBlocks  BY <1>11 DEF ReadBlocks
<1>12. CASE SampleAlarm  BY <1>12 DEF SampleAlarm
<1>13. CASE DisarmTimer  BY <1>13 DEF DisarmTimer
<1>14. CASE RestoreHandler  BY <1>14 DEF RestoreHandler
<1>15. CASE CloseReadEnd  BY <1>15 DEF CloseReadEnd
<1>16. CASE PollChild  BY <1>16 DEF PollChild, Return
<1>17. CASE Kill  BY <1>17 DEF Kill, Alive
<1>18. CASE ReapKilled  BY <1>18 DEF ReapKilled, Return, Alive
<1>19. CASE WaitChild  BY <1>19 DEF WaitChild, Return, Alive
<1>20. CASE Alarm
  <2>1. disp = "handler" /\ pc \in Timed
    BY <1>20 DEF Alarm, SignalInv, Timed, Guarded, TypeOK, FlagsOK, DataOK
  <2>2. pc' = IF pc = "blocked" THEN "sample" ELSE pc
    BY <1>20, <2>1 DEF Alarm
  <2>3. UNCHANGED <<ok, size, buffer, used, truncated, consumed>>
    BY <1>20 DEF Alarm
  <2> QED  BY <2>1, <2>2, <2>3 DEF Timed
<1>21. CASE DeliverKill  BY <1>21 DEF DeliverKill, HelperEnds, Alive
<1>22. CASE ExecFails  BY <1>22 DEF ExecFails, HelperEnds
<1>23. CASE Exec  BY <1>23 DEF Exec
<1>24. CASE HelperExits  BY <1>24 DEF HelperExits, HelperEnds
<1>25. CASE HelperCrashes  BY <1>25 DEF HelperCrashes, HelperEnds
<1>26. CASE Write  BY <1>26 DEF Write
<1>27. CASE HelperSigpipe  BY <1>27 DEF HelperSigpipe, HelperEnds
<1>28. CASE HelperClosesOutput  BY <1>28 DEF HelperClosesOutput
<1>29. CASE HelperSpawns  BY <1>29 DEF HelperSpawns
<1>30. CASE DescendantCloses  BY <1>30 DEF DescendantCloses
<1>31. CASE Finished  BY <1>31 DEF Finished, vars
<1>32. CASE UNCHANGED vars  BY <1>32 DEF vars
<1> QED
  BY <1>1, <1>2, <1>3, <1>4, <1>5, <1>6, <1>7, <1>8, <1>9, <1>10, <1>11, <1>12, <1>13, <1>14, <1>15, <1>16, <1>17, <1>18, <1>19, <1>20, <1>21, <1>22, <1>23, <1>24, <1>25, <1>26, <1>27, <1>28, <1>29, <1>30, <1>31, <1>32
  DEF Next, Caller, Kernel, Programs

\* Every step keeps the record of why the read loop ended.
LEMMA CompleteStep == TypeOK /\ SignalInv /\ PipeInv /\ CompleteInv /\ [Next]_vars => CompleteInv'
<1> SUFFICES ASSUME TypeOK, SignalInv, PipeInv, CompleteInv, [Next]_vars PROVE CompleteInv'
  OBVIOUS
<1> USE DEF CompleteInv, OutputOver, Ending, TypeOK, FlagsOK, DataOK, PipeInv, signalVars, pipeVars, bufferVars, childVars, resultVars
<1>1. CASE OpenPipe  BY <1>1 DEF OpenPipe
<1>2. CASE RejectCall  BY <1>2 DEF RejectCall, Return
<1>3. CASE Fork  BY <1>3 DEF Fork
<1>4. CASE ForkFails  BY <1>4 DEF ForkFails, Return
<1>5. CASE CloseWriteEnd  BY <1>5 DEF CloseWriteEnd
<1>6. CASE InstallHandler  BY <1>6 DEF InstallHandler
<1>7. CASE ArmTimer  BY <1>7 DEF ArmTimer
<1>8. CASE CheckAlarm  BY <1>8 DEF CheckAlarm
<1>9. CASE ReadData  BY <1>9 DEF ReadData, CopyChunk, Minimum
<1>10. CASE ReadEof  BY <1>10 DEF ReadEof
<1>11. CASE ReadBlocks  BY <1>11 DEF ReadBlocks
<1>12. CASE SampleAlarm  BY <1>12 DEF SampleAlarm
<1>13. CASE DisarmTimer  BY <1>13 DEF DisarmTimer
<1>14. CASE RestoreHandler  BY <1>14 DEF RestoreHandler
<1>15. CASE CloseReadEnd  BY <1>15 DEF CloseReadEnd
<1>16. CASE PollChild  BY <1>16 DEF PollChild, Return
<1>17. CASE Kill  BY <1>17 DEF Kill, Alive
<1>18. CASE ReapKilled  BY <1>18 DEF ReapKilled, Return, Alive
<1>19. CASE WaitChild  BY <1>19 DEF WaitChild, Return, Alive
<1>20. CASE Alarm
  <2>1. disp = "handler" /\ pc \in Timed
    BY <1>20 DEF Alarm, SignalInv, Timed, Guarded
  <2>2. pc' = IF pc = "blocked" THEN "sample" ELSE pc
    BY <1>20, <2>1 DEF Alarm
  <2>3. UNCHANGED <<ok, timedOut, writers, produced, consumed>>
    BY <1>20 DEF Alarm
  <2>4. alarmFired'
    BY <1>20, <2>1 DEF Alarm
  <2> QED  BY <2>1, <2>2, <2>3, <2>4 DEF Timed
<1>21. CASE DeliverKill  BY <1>21 DEF DeliverKill, HelperEnds, Alive
<1>22. CASE ExecFails  BY <1>22 DEF ExecFails, HelperEnds
<1>23. CASE Exec  BY <1>23 DEF Exec
<1>24. CASE HelperExits  BY <1>24 DEF HelperExits, HelperEnds
<1>25. CASE HelperCrashes  BY <1>25 DEF HelperCrashes, HelperEnds
<1>26. CASE Write  BY <1>26 DEF Write
<1>27. CASE HelperSigpipe  BY <1>27 DEF HelperSigpipe, HelperEnds
<1>28. CASE HelperClosesOutput  BY <1>28 DEF HelperClosesOutput
<1>29. CASE HelperSpawns  BY <1>29 DEF HelperSpawns
<1>30. CASE DescendantCloses  BY <1>30 DEF DescendantCloses
<1>31. CASE Finished  BY <1>31 DEF Finished, vars
<1>32. CASE UNCHANGED vars  BY <1>32 DEF vars
<1> QED
  BY <1>1, <1>2, <1>3, <1>4, <1>5, <1>6, <1>7, <1>8, <1>9, <1>10, <1>11, <1>12, <1>13, <1>14, <1>15, <1>16, <1>17, <1>18, <1>19, <1>20, <1>21, <1>22, <1>23, <1>24, <1>25, <1>26, <1>27, <1>28, <1>29, <1>30, <1>31, <1>32
  DEF Next, Caller, Kernel, Programs
-----------------------------------------------------------------------------
\* The initial states satisfy the inductive invariant.
LEMMA InitInv == Init => IInv
<1> SUFFICES ASSUME Init PROVE IInv
  OBVIOUS
<1>1. FlagsOK
  BY Zenon DEF Init, FlagsOK
<1>2. DataOK
  BY BoundsAssumption DEF Init, DataOK, PCs, Processes, Statuses, Signalled,
     NoFate, Garbage, NUL
<1>3. SignalInv /\ PipeInv
  BY DEF Init, SignalInv, PipeInv, Guarded, Timed, Alive
<1>4. ChildInv /\ BufferInv /\ CompleteInv
  BY DEF Init, ChildInv, BufferInv, CompleteInv, Ending
<1> QED  BY <1>1, <1>2, <1>3, <1>4 DEF IInv, TypeOK

\* The inductive invariant holds in every reachable state of the capture
\* protocol.
THEOREM CaptureInvariant == Spec => []IInv
<1>1. IInv /\ [Next]_vars => IInv'
  BY FlagsStep, DataStep, SignalStep, PipeStep, ChildStep, BufferStep,
     CompleteStep DEF IInv, TypeOK
<1> QED  BY InitInv, <1>1, PTL DEF Spec

\* The type invariant of bythos_capture_argv_status_ex, its helper and the
\* kernel state holds for every instance.
THEOREM TypeCorrect == Spec => []TypeOK
<1>1. IInv => TypeOK  BY DEF IInv
<1> QED  BY CaptureInvariant, <1>1, PTL

\* No interleaving of the ten-second timer with the calls lets SIGALRM end
\* bythos, and no call is cut short by the flag of an earlier one.
THEOREM AlarmIsHarmless == Spec => [](NeverKilledByAlarm /\ NoSpuriousTimeout)
<1>1. IInv => NeverKilledByAlarm /\ NoSpuriousTimeout
  BY DEF IInv, SignalInv, NeverKilledByAlarm, NoSpuriousTimeout
<1> QED  BY CaptureInvariant, <1>1, PTL

\* In particular a timeout is reported only by the call whose alarm it was.
COROLLARY TimeoutIsOwn == Spec => []NoSpuriousTimeout
BY AlarmIsHarmless, PTL

\* Every return path leaves the timer off, the old disposition in place, both
\* pipe ends closed and the helper reaped.
THEOREM ReturnsClean == Spec => []CleanReturn
<1>1. IInv => CleanReturn
  BY DEF IInv, SignalInv, PipeInv, ChildInv, CleanReturn, Guarded, Timed
<1> QED  BY CaptureInvariant, <1>1, PTL

\* A call reports success only for a helper that exited by itself, with that
\* helper's status.
THEOREM ResultIsTruthful == Spec => []ResultMatchesFate
<1>1. IInv => ResultMatchesFate
  BY DEF IInv, ChildInv, ResultMatchesFate
<1> QED  BY CaptureInvariant, <1>1, PTL

\* The buffer is a NUL-terminated prefix of the output that fits its size, and
\* *truncated is exact, for every buffer size, chunk size and output length.
THEOREM OutputCorrect == Spec => []OutputIsPrefix
<1>1. IInv => OutputIsPrefix
  BY DEF IInv, BufferInv, BufferFilled, OutputIsPrefix
<1> QED  BY CaptureInvariant, <1>1, PTL

\* A success that is neither truncated nor timed out is the whole output.
THEOREM OutputComplete == Spec => []CompleteUnlessFlagged
<1>1. IInv => CompleteUnlessFlagged
  <2> SUFFICES ASSUME IInv, pc = "idle", ok, ~truncated, ~timedOut
               PROVE  used = produced
    BY DEF CompleteUnlessFlagged
  <2>1. BufferFilled /\ consumed = produced
    BY DEF IInv, BufferInv, CompleteInv, OutputOver
  <2>2. consumed \in Int /\ size \in Int
    BY DEF IInv, TypeOK, DataOK
  <2>3. ~(consumed > size - 1)
    BY <2>1 DEF BufferFilled
  <2> QED  BY <2>1, <2>2, <2>3 DEF BufferFilled, Minimum
<1> QED  BY CaptureInvariant, <1>1, PTL
-----------------------------------------------------------------------------
(***************************************************************************)
(* What a call can wait for.  ReadBounded and WaitBounded do not hold; the *)
(* places where a call may stay, and why, are nevertheless known.          *)
(***************************************************************************)

\* A sleeping read() has the timer before it, or was entered after the alarm
\* had come and gone (the test of alarm_fired is not atomic with read); it never
\* waits for the caller's own write end.  The plain waitpid() waits for a
\* helper that has closed its output and runs on, never for one that has still
\* to start or that the caller gave up on.  The waitpid() after the timeout
\* waits for a helper whose SIGKILL is on its way.
WaitsExplained ==
  /\ pc = "blocked" => (timer \/ alarmFired) /\ "caller" \notin writers
  /\ pc = "wait" /\ Alive => /\ child = "running" /\ ~timedOut
                             /\ writers = {} /\ consumed = produced
  /\ pc = "killwait" /\ Alive => sigkill

WaitInv ==
  /\ pc \in {"check", "read", "blocked"} => timer \/ alarmFired
  /\ pc = "killwait" /\ Alive => sigkill
  /\ child = "forked" => "helper" \in writers
  /\ pc = "wait" => ~timedOut

LEMMA WaitStep == IInv /\ WaitInv /\ [Next]_vars => WaitInv'
<1> SUFFICES ASSUME IInv, WaitInv, [Next]_vars PROVE WaitInv'
  OBVIOUS
<1> USE DEF WaitInv, signalVars, pipeVars, childVars, Alive
<1>1. CASE OpenPipe \/ RejectCall \/ ForkFails
  <2>1. child' \in {"none", "gone", "reaped"} /\ pc' \in {"fork", "idle"}
    BY <1>1 DEF OpenPipe, RejectCall, ForkFails, Return, IInv, ChildInv
  <2> QED BY <2>1
<1>2. CASE Fork  BY <1>2 DEF Fork
<1>3. CASE CloseWriteEnd \/ InstallHandler \/ ArmTimer
  BY <1>3 DEF CloseWriteEnd, InstallHandler, ArmTimer
<1>4. CASE CheckAlarm \/ ReadEof \/ ReadBlocks
  BY <1>4 DEF CheckAlarm, ReadEof, ReadBlocks
<1>5. CASE ReadData  BY <1>5 DEF ReadData
<1>6. CASE SampleAlarm \/ DisarmTimer \/ RestoreHandler \/ CloseReadEnd
  BY <1>6 DEF SampleAlarm, DisarmTimer, RestoreHandler, CloseReadEnd
<1>7. CASE PollChild \/ Kill  BY <1>7 DEF PollChild, Kill, Return
<1>8. CASE ReapKilled \/ WaitChild  BY <1>8 DEF ReapKilled, WaitChild, Return
<1>9. CASE Alarm
  <2>1. disp = "handler"
    BY <1>9 DEF Alarm, IInv, SignalInv, Guarded, Timed
  <2>2. alarmFired' /\ pc' \in {pc, "sample"} /\ UNCHANGED <<child, sigkill, writers, timedOut>>
    BY <1>9, <2>1 DEF Alarm
  <2> QED BY <2>2
<1>10. CASE DeliverKill \/ ExecFails \/ HelperExits \/ HelperCrashes \/ HelperSigpipe
  <2>1. PICK f : HelperEnds(f)
    BY <1>10 DEF DeliverKill, ExecFails, HelperExits, HelperCrashes, HelperSigpipe
  <2> QED BY <2>1 DEF HelperEnds
<1>11. CASE Exec \/ Write \/ HelperClosesOutput  BY <1>11 DEF Exec, Write, HelperClosesOutput
<1>12. CASE HelperSpawns \/ DescendantCloses  BY <1>12 DEF HelperSpawns, DescendantCloses
<1>13. CASE Finished \/ UNCHANGED vars  BY <1>13 DEF Finished, vars
<1> QED BY <1>1, <1>2, <1>3, <1>4, <1>5, <1>6, <1>7, <1>8, <1>9, <1>10, <1>11, <1>12, <1>13
        DEF Next, Caller, Kernel, Programs

\* Wherever bythos_capture_argv_status_ex sleeps, it is for one of the reasons
\* of WaitsExplained, for every helper and every moment of the alarm: no lost
\* wake-up but the one between the test of alarm_fired and read(), no wait for
\* itself, and no waitpid() for a helper that nothing has been sent to and that
\* still holds its output.
THEOREM WaitsAreExplained == Spec => []WaitsExplained
<1>1. Init => WaitInv
  BY DEF Init, WaitInv, Alive
<1>2. IInv /\ WaitInv => WaitsExplained
  <2> SUFFICES ASSUME IInv, WaitInv PROVE WaitsExplained
    OBVIOUS
  <2>1. pc = "blocked" => (timer \/ alarmFired) /\ "caller" \notin writers
    BY DEF WaitInv, IInv, PipeInv
  <2>2. ASSUME pc = "wait", Alive
        PROVE  child = "running" /\ ~timedOut /\ writers = {} /\ consumed = produced
    <3>1. ~timedOut
      BY <2>2 DEF WaitInv
    <3>2. writers = {} /\ consumed = produced
      BY <2>2, <3>1 DEF IInv, CompleteInv, Ending, OutputOver
    <3> QED BY <2>2, <3>1, <3>2 DEF WaitInv, Alive
  <2> QED BY <2>1, <2>2 DEF WaitsExplained, WaitInv
<1> QED BY <1>1, <1>2, WaitStep, CaptureInvariant, PTL DEF Spec

\* The steps of its own that a call has left once its loop is over.
StepsToReturn ==
  IF pc = "sample" THEN 7
  ELSE IF pc = "disarm" THEN 6
  ELSE IF pc = "restore" THEN 5
  ELSE IF pc = "closeR" THEN 4
  ELSE IF pc = "poll" THEN 3
  ELSE IF pc = "kill" THEN 2
  ELSE IF pc \in {"killwait", "wait"} THEN 1
  ELSE 0

\* A step of the caller brings its return nearer; another's leaves it where it is.
NearsReturn ==
  pc \in Ending \cup {"sample"} =>
    (IF Caller THEN StepsToReturn' < StepsToReturn ELSE pc' = pc)

\* Once the read loop of bythos_capture_argv_status_ex is over, each of the
\* caller's own steps brings the return nearer, and nothing the alarm, the
\* kernel, the helper or a descendant does takes the call back or away: it
\* returns after at most seven steps, of which only the two waitpid() can wait.
THEOREM EndingShrinks == Spec => [][NearsReturn]_vars
<1>1. IInv /\ [Next]_vars => [NearsReturn]_vars
  <2> SUFFICES ASSUME IInv, Next, pc \in Ending \cup {"sample"}
               PROVE  IF Caller THEN StepsToReturn' < StepsToReturn ELSE pc' = pc
    BY DEF NearsReturn
  <2>1. CASE Caller
    <3>1. \/ pc = "sample" /\ pc' = "disarm"
          \/ pc = "disarm" /\ pc' = "restore"
          \/ pc = "restore" /\ pc' = "closeR"
          \/ pc = "closeR" /\ pc' \in {"poll", "wait"}
          \/ pc = "poll" /\ pc' \in {"kill", "idle"}
          \/ pc = "kill" /\ pc' = "killwait"
          \/ pc \in {"killwait", "wait"} /\ pc' = "idle"
      <4>1. ~(OpenPipe \/ RejectCall \/ Fork \/ ForkFails \/ CloseWriteEnd \/ InstallHandler
               \/ ArmTimer \/ CheckAlarm \/ ReadData \/ ReadEof \/ ReadBlocks)
        BY DEF Ending, OpenPipe, RejectCall, Fork, ForkFails, CloseWriteEnd, InstallHandler,
               ArmTimer, CheckAlarm, ReadData, ReadEof, ReadBlocks
      <4>2. CASE SampleAlarm \/ DisarmTimer \/ RestoreHandler \/ CloseReadEnd
        BY <4>2 DEF SampleAlarm, DisarmTimer, RestoreHandler, CloseReadEnd
      <4>3. CASE PollChild \/ Kill \/ ReapKilled \/ WaitChild
        BY <4>3 DEF PollChild, Kill, ReapKilled, WaitChild, Return
      <4> QED BY <2>1, <4>1, <4>2, <4>3 DEF Caller
    <3> QED BY <2>1, <3>1 DEF StepsToReturn
  <2>2. CASE ~Caller
    <3>1. CASE Alarm
      <4>1. disp = "handler" /\ pc # "blocked"
        BY <3>1 DEF Alarm, IInv, SignalInv, Guarded, Timed, Ending
      <4>2. pc' = pc
        BY <3>1, <4>1 DEF Alarm
      <4> QED BY <2>2, <4>2
    <3>2. Kernel \/ Programs \/ Finished => Alarm \/ pc' = pc
      BY DEF Kernel, Programs, Finished, DeliverKill, ExecFails, HelperExits, HelperCrashes,
             HelperSigpipe, HelperEnds, Exec, Write, HelperClosesOutput, HelperSpawns,
             DescendantCloses, vars
    <3> QED BY <2>2, <3>1, <3>2 DEF Next
  <2> QED BY <2>1, <2>2
<1> QED BY <1>1, CaptureInvariant, PTL DEF Spec
=============================================================================
