---------------------------- MODULE FwupdProofs ----------------------------
(***************************************************************************)
(* Proofs about Fwupd and the probe of a systemd unit it makes twice, for  *)
(* all reports, any numbers of attributes and of names, every buffer size. *)
(***************************************************************************)
EXTENDS Fwupd, WellFoundedInduction, FiniteSetTheorems, TLAPS

(***************************************************************************)
(* The probe.  Two answers of systemctl, given at different moments, are   *)
(* put together.  A unit that is-active found not to be active is still    *)
(* so, or was once loaded and not active: it is started only when loaded.  *)
(***************************************************************************)

Unit == [loaded |-> loaded, active |-> active]

Units == [loaded : BOOLEAN, active : BOOLEAN]

\* The text that a capture of k bytes leaves in a buffer.
Captured(k) == Helper!Prefix(IF k <= size - 1 THEN k ELSE size - 1)

UnitInv ==
  /\ loaded \in BOOLEAN /\ active \in BOOLEAN
  /\ probe \in {"off", "is-active", "show", "returned"}
  /\ service \in ServiceStates
  /\ past \subseteq Units
  /\ probe # "off" => Unit \in past

HelperInv ==
  /\ phase \in {"idle", "busy"}
  /\ live \in BOOLEAN /\ answered \in BOOLEAN /\ failing \in BOOLEAN /\ ok \in BOOLEAN
  /\ written \in Nat
  /\ live => fate = Helper!NoFate
  /\ ok => ~live /\ phase = "idle" /\ exitStatus = fate /\ fate \in Statuses

\* While is-active is asked.
ActiveInv ==
  probe = "is-active" =>
    /\ fate = 0 => WasTrue("ACTIVE")
    /\ fate \notin {0, Helper!NoFate} /\ ~failing => WasTrue("INACTIVE") \/ ~active

\* While show is asked.
ShowInv ==
  probe = "show" =>
    /\ size = LoadSize
    /\ ~failing => WasTrue("INACTIVE") \/ ~active
    /\ written > 0 /\ ~answered => WasTrue("MISSING")
    /\ written > 0 /\ answered /\ ~failing => WasTrue("INACTIVE")
    /\ fate = 0 => written = NotFound
    /\ ok => \E k \in 0..written : output = Captured(k) /\ (~failing => k = written)

ProbeInv == UnitInv /\ HelperInv /\ ActiveInv /\ ShowInv /\ ProbeTrueAtSomeMoment

LEMMA Fates == /\ Helper!NoFate = 257 /\ Helper!Signalled = 256
               /\ Statuses \subseteq 0..255 /\ Helper!NoFate \notin Statuses
               /\ NotFound \in Nat /\ NotFound > 0 /\ LoadSize \in Nat /\ NotFound < LoadSize
<1>1. Helper!NoFate = 257 /\ Helper!Signalled = 256
  BY DEF Helper!NoFate, Helper!Signalled
<1>2. Statuses \subseteq 0..255
  BY ProbeAssumption
<1>3. Helper!NoFate \notin Statuses
  BY <1>1, <1>2
<1> QED BY <1>1, <1>2, <1>3, ProbeAssumption

\* What was true once stays so.
LEMMA PastGrows ==
  ASSUME past \subseteq past', NEW s, WasTrue(s)
  PROVE  WasTrue(s)'
BY DEF WasTrue

LEMMA UnitIs ==
  ASSUME Unit \in past, loaded \in BOOLEAN, active \in BOOLEAN
  PROVE  /\ active => WasTrue("ACTIVE")
         /\ loaded /\ ~active => WasTrue("INACTIVE")
         /\ ~loaded => WasTrue("MISSING")
BY DEF Unit, WasTrue

LEMMA BeginKeeps == ProbeInv /\ BeginProbe => ProbeInv'
<1> SUFFICES ASSUME ProbeInv, BeginProbe PROVE ProbeInv'
  OBVIOUS
<1>1. /\ loaded' \in BOOLEAN /\ active' \in BOOLEAN /\ past' = {Unit'}
      /\ failing' = FALSE /\ answered' = answered /\ probe = "off"
      /\ \/ probe' = "returned" /\ service' = "SYSTEMCTL_UNAVAILABLE" /\ UNCHANGED captureVars
         \/ probe' = "is-active" /\ Helper!Begin /\ service' = service
  BY DEF BeginProbe, Return, Unit
<1>2. UnitInv'
  BY <1>1 DEF ProbeInv, UnitInv, Unit, Units, ServiceStates
<1>3. CASE probe' = "returned" /\ service' = "SYSTEMCTL_UNAVAILABLE" /\ UNCHANGED captureVars
  <2>1. HelperInv'
    BY <1>1, <1>3 DEF ProbeInv, HelperInv, captureVars
  <2> QED BY <1>2, <1>3, <2>1 DEF ProbeInv, ActiveInv, ShowInv, ProbeTrueAtSomeMoment
<1>4. CASE probe' = "is-active" /\ Helper!Begin
  <2>1. /\ phase' = "busy" /\ live' = FALSE /\ fate' = Helper!NoFate /\ written' = 0 /\ ok' = FALSE
    BY <1>4 DEF Helper!Begin, Helper!ClearResult
  <2>2. HelperInv'
    BY <1>1, <2>1 DEF ProbeInv, HelperInv
  <2>3. ActiveInv'
    BY <2>1, Fates DEF ActiveInv
  <2> QED BY <1>2, <1>4, <2>2, <2>3 DEF ProbeInv, ShowInv, ProbeTrueAtSomeMoment
<1> QED BY <1>1, <1>3, <1>4

LEMMA ReadActiveKeeps == ProbeInv /\ ReadActive => ProbeInv'
<1> SUFFICES ASSUME ProbeInv, ReadActive PROVE ProbeInv'
  OBVIOUS
<1>1. /\ probe = "is-active" /\ phase = "idle" /\ UNCHANGED <<loaded, active, answered, past, failing>>
      /\ \/ ok /\ exitStatus = 0 /\ probe' = "returned" /\ service' = "ACTIVE" /\ UNCHANGED captureVars
         \/ ~ok /\ probe' = "returned" /\ service' = "UNKNOWN" /\ UNCHANGED captureVars
         \/ /\ ok /\ exitStatus # 0 /\ probe' = "show" /\ Helper!Begin /\ size' = LoadSize
            /\ service' = service
  BY DEF ReadActive, Return, unitVars
<1>2. UnitInv'
  BY <1>1 DEF ProbeInv, UnitInv, Unit, ServiceStates
<1>3. past \subseteq past'
  BY <1>1
<1>4. CASE probe' = "returned" /\ UNCHANGED captureVars
  <2>1. HelperInv'
    BY <1>1, <1>4 DEF ProbeInv, HelperInv, captureVars
  <2>2. service' = "ACTIVE" => WasTrue("ACTIVE")
    BY <1>1, <1>4 DEF ProbeInv, HelperInv, ActiveInv
  <2>3. service' \in {"ACTIVE", "UNKNOWN"}
    BY <1>1, <1>4
  <2>4. ProbeTrueAtSomeMoment'
    BY <1>3, <2>2, <2>3, PastGrows DEF ProbeTrueAtSomeMoment
  <2> QED BY <1>2, <1>4, <2>1, <2>4 DEF ProbeInv, ActiveInv, ShowInv
<1>5. CASE ok /\ exitStatus # 0 /\ probe' = "show" /\ Helper!Begin /\ size' = LoadSize
  <2>1. /\ phase' = "busy" /\ live' = FALSE /\ fate' = Helper!NoFate /\ written' = 0 /\ ok' = FALSE
    BY <1>5 DEF Helper!Begin, Helper!ClearResult
  <2>2. HelperInv'
    BY <1>1, <2>1 DEF ProbeInv, HelperInv
  <2>3. fate # 0 /\ fate # Helper!NoFate
    BY <1>5, Fates DEF ProbeInv, HelperInv
  <2>4. ~failing => WasTrue("INACTIVE") \/ ~active
    BY <1>1, <2>3 DEF ProbeInv, ActiveInv
  <2>5. ~failing' => WasTrue("INACTIVE")' \/ ~active'
    BY <1>1, <1>3, <2>4, PastGrows
  <2>6. ShowInv'
    BY <1>5, <2>1, <2>5, Fates DEF ShowInv
  <2> QED BY <1>2, <1>5, <2>2, <2>6 DEF ProbeInv, ActiveInv, ProbeTrueAtSomeMoment
<1> QED BY <1>1, <1>4, <1>5

LEMMA ReadShowKeeps == ProbeInv /\ ReadShow => ProbeInv'
<1> SUFFICES ASSUME ProbeInv, ReadShow PROVE ProbeInv'
  OBVIOUS
<1>1. /\ probe = "show" /\ phase = "idle" /\ probe' = "returned"
      /\ UNCHANGED <<captureVars, loaded, active, answered, past, failing>>
      /\ service' = IF ~ok \/ exitStatus # 0 THEN "UNKNOWN"
                    ELSE IF SaysNotFound THEN "MISSING" ELSE "INACTIVE"
  BY DEF ReadShow, Return, unitVars
<1>2. UnitInv'
  <2>1. service' \in ServiceStates
    BY <1>1 DEF ServiceStates
  <2> QED BY <1>1, <2>1 DEF ProbeInv, UnitInv, Unit
<1>3. HelperInv'
  BY <1>1 DEF ProbeInv, HelperInv, captureVars
<1>4. ASSUME ok, exitStatus = 0
      PROVE  /\ SaysNotFound => WasTrue("MISSING")
             /\ ~SaysNotFound /\ ~failing => WasTrue("INACTIVE")
  <2>1. fate = 0 /\ written = NotFound /\ size = LoadSize
    BY <1>1, <1>4 DEF ProbeInv, HelperInv, ShowInv
  <2>2. PICK k \in 0..written : output = Captured(k) /\ (~failing => k = written)
    BY <1>1, <1>4 DEF ProbeInv, ShowInv
  <2>3. written > 0 /\ written \in Nat /\ k \in Nat
    BY <2>1, Fates
  <2>4. SaysNotFound => WasTrue("MISSING")
    BY <1>1, <2>3 DEF SaysNotFound, ProbeInv, ShowInv
  <2>5. ~failing => output = Helper!Prefix(NotFound)
    <3>1. NotFound <= size - 1
      BY <2>1, Fates
    <3> QED BY <2>1, <2>2, <3>1 DEF Captured
  <2>6. ~SaysNotFound /\ ~failing => WasTrue("INACTIVE")
    BY <1>1, <2>3, <2>5 DEF SaysNotFound, ProbeInv, ShowInv
  <2> QED BY <2>4, <2>6
<1>5. past \subseteq past' /\ failing' = failing
  BY <1>1
<1>6. /\ service' = "MISSING" => WasTrue("MISSING")
      /\ service' = "INACTIVE" /\ ~failing => WasTrue("INACTIVE")
      /\ service' \in {"UNKNOWN", "MISSING", "INACTIVE"}
  BY <1>1, <1>4
<1>7. ProbeTrueAtSomeMoment'
  BY <1>5, <1>6, PastGrows DEF ProbeTrueAtSomeMoment
<1> QED BY <1>1, <1>2, <1>3, <1>7 DEF ProbeInv, ActiveInv, ShowInv

LEMMA CaptureReturnsKeeps == ProbeInv /\ CaptureReturns => ProbeInv'
<1> SUFFICES ASSUME ProbeInv, CaptureReturns PROVE ProbeInv'
  OBVIOUS
<1>1. /\ UNCHANGED <<probe, service, answered, past, loaded, active>>
      /\ phase = "busy" /\ phase' = "idle" /\ UNCHANGED <<live, fate, written, size>>
  BY DEF CaptureReturns, Helper!Fail, Helper!Succeed, unitVars
<1>2. UnitInv'
  BY <1>1 DEF ProbeInv, UnitInv, Unit
<1>3. past \subseteq past'
  BY <1>1
<1>4. CASE Helper!Fail /\ UNCHANGED failing
  <2>1. UNCHANGED <<ok, exitStatus, output, failing>>
    BY <1>4 DEF Helper!Fail, Helper!result
  <2>2. ok = FALSE
    BY <1>1 DEF ProbeInv, HelperInv
  <2>3. HelperInv'
    BY <1>1, <2>1, <2>2 DEF ProbeInv, HelperInv
  <2>4. ActiveInv' /\ ShowInv' /\ ProbeTrueAtSomeMoment'
    BY <1>1, <2>1, <2>2 DEF ProbeInv, ActiveInv, ShowInv, ProbeTrueAtSomeMoment, WasTrue
  <2> QED BY <1>2, <2>3, <2>4 DEF ProbeInv
<1>5. CASE \E k \in 0..written, late \in BOOLEAN : Helper!Succeed(k, late) /\ failing' = (failing \/ late)
  <2>1. PICK k \in 0..written, late \in BOOLEAN : Helper!Succeed(k, late) /\ failing' = (failing \/ late)
    BY <1>5
  <2>2. /\ fate \in Statuses /\ (late \/ k = written) /\ ok' = TRUE /\ exitStatus' = fate
        /\ output' = Captured(k)
    BY <2>1 DEF Helper!Succeed, Captured
  <2>3. /\ failing \in BOOLEAN /\ failing' \in BOOLEAN
        /\ ~failing' => ~failing /\ k = written
    BY <2>1, <2>2 DEF ProbeInv, HelperInv
  <2>4. ~live
    BY <2>2, Fates DEF ProbeInv, HelperInv
  <2>5. HelperInv'
    BY <1>1, <2>2, <2>3, <2>4 DEF ProbeInv, HelperInv
  <2>6. Captured(k)' = Captured(k)
    BY <1>1 DEF Captured, Helper!Prefix
  <2>7. ActiveInv'
    BY <1>1, <2>3 DEF ProbeInv, ActiveInv, WasTrue
  <2>8. ProbeTrueAtSomeMoment'
    BY <1>1, <2>3 DEF ProbeInv, ProbeTrueAtSomeMoment, WasTrue
  <2>9. ShowInv'
    <3>1. \E j \in 0..written' : output' = Captured(j)' /\ (~failing' => j = written')
      BY <1>1, <2>2, <2>3, <2>6
    <3> QED BY <1>1, <2>3, <3>1 DEF ProbeInv, ShowInv, WasTrue
  <2> QED BY <1>2, <2>5, <2>7, <2>8, <2>9 DEF ProbeInv
<1> QED BY <1>4, <1>5 DEF CaptureReturns

\* systemctl starts, answers or fails, and the unit changes.
LEMMA SystemctlKeeps == ProbeInv /\ (StartSystemctl \/ AnswerActive \/ AnswerShow \/ SystemctlFails) => ProbeInv'
<1> SUFFICES ASSUME ProbeInv, StartSystemctl \/ AnswerActive \/ AnswerShow \/ SystemctlFails PROVE ProbeInv'
  OBVIOUS
<1>1. /\ UNCHANGED <<probe, service, past, loaded, active>>
      /\ phase = "busy" /\ UNCHANGED <<phase, size, ok, exitStatus, output>>
  BY DEF StartSystemctl, AnswerActive, AnswerShow, SystemctlFails, Helper!Start, Helper!Output, Helper!End,
         Helper!result, probeVars, unitVars
<1>2. UnitInv' /\ ok = FALSE /\ ok' = FALSE
  BY <1>1 DEF ProbeInv, UnitInv, Unit, HelperInv
<1>3. /\ loaded \in BOOLEAN /\ active \in BOOLEAN /\ answered \in BOOLEAN /\ failing \in BOOLEAN
      /\ live \in BOOLEAN /\ written \in Nat
  BY DEF ProbeInv, UnitInv, HelperInv
<1>4. CASE StartSystemctl
  <2>1. UNCHANGED <<fate, written, answered, failing>> /\ fate = Helper!NoFate /\ live' = TRUE
    BY <1>4 DEF StartSystemctl, Helper!Start, probeVars
  <2>2. HelperInv'
    BY <1>1, <1>2, <1>3, <2>1 DEF ProbeInv, HelperInv
  <2> QED BY <1>1, <1>2, <2>1, <2>2 DEF ProbeInv, ActiveInv, ShowInv, ProbeTrueAtSomeMoment, WasTrue
<1>5. CASE AnswerActive
  <2>1. /\ probe = "is-active" /\ live' = FALSE /\ fate' = (IF active THEN 0 ELSE 3)
        /\ UNCHANGED <<written, answered, failing>>
    BY <1>5 DEF AnswerActive, Helper!End, probeVars
  <2>2. HelperInv'
    BY <1>1, <1>2, <1>3, <2>1 DEF ProbeInv, HelperInv
  <2>3. active => WasTrue("ACTIVE")
    BY <1>3, <2>1, UnitIs DEF ProbeInv, UnitInv
  <2>4. ActiveInv'
    BY <1>1, <1>3, <2>1, <2>3 DEF ActiveInv, WasTrue
  <2> QED BY <1>1, <1>2, <2>1, <2>2, <2>4 DEF ProbeInv, ShowInv, ProbeTrueAtSomeMoment
<1>6. CASE SystemctlFails
  <2>1. PICK f \in (Statuses \ {0}) \cup {Helper!Signalled} : Helper!End(f)
    BY <1>6 DEF SystemctlFails
  <2>2. /\ live' = FALSE /\ fate' = f /\ f # 0 /\ failing' = TRUE /\ UNCHANGED <<written, answered>>
    BY <1>6, <2>1, Fates DEF Helper!End, SystemctlFails
  <2>3. HelperInv'
    BY <1>1, <1>2, <1>3, <2>2 DEF ProbeInv, HelperInv
  <2>4. ActiveInv' /\ ShowInv' /\ ProbeTrueAtSomeMoment'
    BY <1>1, <1>2, <2>2 DEF ProbeInv, ActiveInv, ShowInv, ProbeTrueAtSomeMoment, WasTrue
  <2> QED BY <1>2, <2>3, <2>4 DEF ProbeInv
<1>7. CASE AnswerShow
  <2>1. probe = "show" /\ live /\ fate = Helper!NoFate /\ failing' = failing
    BY <1>7 DEF AnswerShow, ProbeInv, HelperInv
  <2>2. CASE written < NotFound /\ Helper!Output /\ answered' = IF written = 0 THEN loaded ELSE answered
    <3>1. written' = written + 1 /\ UNCHANGED <<live, fate>>
      BY <2>2 DEF Helper!Output
    <3>2. HelperInv'
      BY <1>1, <1>2, <1>3, <2>1, <2>2, <3>1 DEF ProbeInv, HelperInv
    <3>3. /\ loaded /\ ~active => WasTrue("INACTIVE")
          /\ ~loaded => WasTrue("MISSING")
      BY <1>3, <2>1, UnitIs DEF ProbeInv, UnitInv
    <3>4. /\ ~answered' => WasTrue("MISSING")
          /\ answered' /\ ~failing => WasTrue("INACTIVE")
      <4>1. CASE written = 0
        BY <2>1, <2>2, <3>3, <4>1 DEF ProbeInv, ShowInv
      <4>2. CASE written # 0
        <5>1. written > 0
          BY <1>3, <4>2
        <5> QED BY <2>1, <2>2, <4>2, <5>1 DEF ProbeInv, ShowInv
      <4> QED BY <4>1, <4>2
    <3>5. fate' # 0
      BY <2>1, <3>1, Fates
    <3>6. ShowInv'
      BY <1>1, <1>2, <2>1, <3>4, <3>5 DEF ProbeInv, ShowInv, WasTrue
    <3> QED BY <1>1, <1>2, <2>1, <3>2, <3>6 DEF ProbeInv, ActiveInv, ProbeTrueAtSomeMoment
  <2>3. CASE written = NotFound /\ Helper!End(0) /\ UNCHANGED answered
    <3>1. fate' = 0 /\ live' = FALSE /\ UNCHANGED written
      BY <2>3 DEF Helper!End
    <3>2. HelperInv'
      BY <1>1, <1>2, <1>3, <2>1, <2>3, <3>1 DEF ProbeInv, HelperInv
    <3>3. ShowInv'
      BY <1>1, <1>2, <2>1, <2>3, <3>1 DEF ProbeInv, ShowInv, WasTrue
    <3> QED BY <1>1, <1>2, <2>1, <3>2, <3>3 DEF ProbeInv, ActiveInv, ProbeTrueAtSomeMoment
  <2> QED BY <1>7, <2>2, <2>3 DEF AnswerShow
<1> QED BY <1>4, <1>5, <1>6, <1>7

LEMMA UnitChangesKeeps == ProbeInv /\ UnitChanges => ProbeInv'
<1> SUFFICES ASSUME ProbeInv, UnitChanges PROVE ProbeInv'
  OBVIOUS
<1>1. /\ probe \in {"is-active", "show"} /\ UNCHANGED <<probe, service, answered, failing>>
      /\ UNCHANGED captureVars /\ past' = past \cup {Unit'}
      /\ \/ loaded' = ~loaded /\ active' = active
         \/ active' = ~active /\ loaded' = loaded /\ (active' => loaded')
  BY DEF UnitChanges, Unit
<1>2. loaded \in BOOLEAN /\ active \in BOOLEAN /\ Unit \in past /\ past \subseteq Units
  BY <1>1 DEF ProbeInv, UnitInv
<1>3. loaded' \in BOOLEAN /\ active' \in BOOLEAN
  BY <1>1, <1>2
<1>4. Unit' \in Units
  BY <1>3 DEF Unit, Units
<1>5. UnitInv'
  <2>1. Unit' \in past' /\ past' \subseteq Units
    BY <1>1, <1>2, <1>4
  <2> QED BY <1>1, <1>3, <2>1 DEF ProbeInv, UnitInv
<1>6. HelperInv'
  BY <1>1 DEF ProbeInv, HelperInv, captureVars
<1>7. past \subseteq past'
  BY <1>1
<1>8. ~active => WasTrue("INACTIVE")' \/ ~active'
  <2>1. CASE active' = active
    BY <2>1
  <2>2. CASE active' = ~active /\ loaded' = loaded /\ (active' => loaded')
    <3>1. ~active => loaded /\ ~active
      BY <2>2
    <3>2. ~active => WasTrue("INACTIVE")
      BY <1>2, <3>1, UnitIs
    <3> QED BY <1>7, <3>2, PastGrows
  <2> QED BY <1>1, <2>1, <2>2
<1>9. ActiveInv'
  <2>1. fate' = fate /\ failing' = failing /\ probe' = probe
    BY <1>1 DEF captureVars
  <2> QED BY <1>7, <1>8, <2>1, PastGrows DEF ProbeInv, ActiveInv
<1>10. ShowInv'
  <2>1. UNCHANGED <<fate, failing, probe, size, written, answered, ok, output>>
    BY <1>1 DEF captureVars
  <2>2. \A k : Captured(k)' = Captured(k)
    BY <2>1 DEF Captured, Helper!Prefix
  <2>3. SUFFICES ASSUME probe = "show" PROVE ShowInv'
    BY <2>1 DEF ShowInv
  <2>4. size = LoadSize /\ (fate = 0 => written = NotFound)
        /\ (ok => \E k \in 0..written : output = Captured(k) /\ (~failing => k = written))
    BY <2>3 DEF ProbeInv, ShowInv
  <2>5. /\ ~failing' => WasTrue("INACTIVE")' \/ ~active'
        /\ written' > 0 /\ ~answered' => WasTrue("MISSING")'
        /\ written' > 0 /\ answered' /\ ~failing' => WasTrue("INACTIVE")'
    BY <1>7, <1>8, <2>1, <2>3, PastGrows DEF ProbeInv, ShowInv
  <2>6. ok' => \E k \in 0..written' : output' = Captured(k)' /\ (~failing' => k = written')
    BY <2>1, <2>2, <2>4
  <2> QED BY <2>1, <2>4, <2>5, <2>6 DEF ShowInv
<1> QED BY <1>1, <1>5, <1>6, <1>9, <1>10 DEF ProbeInv, ProbeTrueAtSomeMoment

LEMMA EndKeeps == ProbeInv /\ EndProbe => ProbeInv'
<1> SUFFICES ASSUME ProbeInv, EndProbe PROVE ProbeInv'
  OBVIOUS
<1>1. /\ probe' = "off" /\ service' = "UNKNOWN" /\ loaded' = FALSE /\ active' = FALSE
      /\ answered' = FALSE /\ past' = {} /\ failing' = FALSE /\ fate' = Helper!NoFate /\ written' = 0
      /\ ok' = FALSE /\ UNCHANGED <<phase, live>>
  BY DEF EndProbe, Helper!ClearResult
<1>2. UnitInv'
  BY <1>1 DEF UnitInv, ServiceStates
<1>3. HelperInv'
  BY <1>1 DEF ProbeInv, HelperInv
<1> QED BY <1>1, <1>2, <1>3 DEF ProbeInv, ActiveInv, ShowInv, ProbeTrueAtSomeMoment

LEMMA ProbeInitially == Init => ProbeInv
<1> SUFFICES ASSUME Init PROVE ProbeInv
  OBVIOUS
<1>1. /\ probe = "off" /\ service = "UNKNOWN" /\ loaded = FALSE /\ active = FALSE
      /\ answered = FALSE /\ past = {} /\ failing = FALSE /\ fate = Helper!NoFate /\ written = 0
      /\ ok = FALSE /\ phase = "idle" /\ live = FALSE
  BY DEF Init, ProbeInit, Helper!Init, Helper!NoResult
<1>2. UnitInv
  BY <1>1 DEF UnitInv, ServiceStates
<1>3. HelperInv
  BY <1>1 DEF HelperInv
<1> QED BY <1>1, <1>2, <1>3 DEF ProbeInv, ActiveInv, ShowInv, ProbeTrueAtSomeMoment

LEMMA ProbeStays == ProbeInv /\ UNCHANGED <<captureVars, unitVars, probeVars>> => ProbeInv'
<1> SUFFICES ASSUME ProbeInv, UNCHANGED <<captureVars, unitVars, probeVars>> PROVE ProbeInv'
  OBVIOUS
<1>1. UNCHANGED <<phase, live, fate, written, size, ok, exitStatus, output, loaded, active, probe, service,
                  answered, past, failing>>
  BY DEF captureVars, unitVars, probeVars
<1>2. \A k : Captured(k)' = Captured(k)
  BY <1>1 DEF Captured, Helper!Prefix
<1> QED BY <1>1, <1>2
     DEF ProbeInv, UnitInv, HelperInv, ActiveInv, ShowInv, ProbeTrueAtSomeMoment, WasTrue, Unit

LEMMA ProbeStep == ProbeInv /\ [Next]_vars => ProbeInv'
<1> SUFFICES ASSUME ProbeInv, [Next]_vars PROVE ProbeInv'
  OBVIOUS
<1>1. CASE Start \/ ProbeTimer
  BY <1>1, BeginKeeps DEF Start, ProbeTimer
<1>2. CASE EmitUnit("service", ServiceRow, "timer") \/ EmitUnit("timer probe", TimerRow, "fwupdmgr")
  BY <1>2, EndKeeps DEF EmitUnit
<1>3. CASE ProbeNext
  BY <1>3, ReadActiveKeeps, ReadShowKeeps, CaptureReturnsKeeps, SystemctlKeeps, UnitChangesKeeps DEF ProbeNext
<1>4. CASE AskFwupdmgr \/ CaptureReport \/ EmitAttributes \/ Finish \/ UNCHANGED vars
  <2>1. UNCHANGED <<captureVars, unitVars, probeVars>>
    BY <1>4 DEF AskFwupdmgr, CaptureReport, EmitAttributes, Finish, vars
  <2> QED BY <2>1, ProbeStays
<1> QED BY <1>1, <1>2, <1>3, <1>4 DEF Next, Returned

\* The state bythos_probe_systemd_service reports is one the unit was in at some
\* moment of the probe, however it changed between the two runs of systemctl;
\* for "installed but inactive" systemctl must not have failed or come late.
THEOREM ProbeTrue == Spec => []ProbeTrueAtSomeMoment
<1>1. ProbeInv => ProbeTrueAtSomeMoment
  BY DEF ProbeInv
<1> QED BY <1>1, ProbeInitially, ProbeStep, PTL DEF Spec
-----------------------------------------------------------------------------
(***************************************************************************)
(* Picking elements of a list.  What the loop kept after i elements are    *)
(* elements at increasing positions that were to be kept, at most max.     *)
(* The induction over i looks at the least i that would be a               *)
(* counterexample.                                                         *)
(***************************************************************************)

LEMMA LeastMember ==
  ASSUME NEW S \in SUBSET Nat, S # {}
  PROVE  \E m \in S : \A j \in S : m <= j
<1>1. PICK m \in S : \A j \in S : ~(<<j, m>> \in OpToRel(<, Nat))
  BY NatLessThanWellFounded, WFMin
<1>2. \A j \in S : ~(j < m)
  BY <1>1 DEF OpToRel
<1> QED BY <1>2

\* What one turn of the loop makes of the list p.
Turn(p, s, keep, max, i) ==
  IF i \in keep /\ Len(p) < max THEN Append(p, s[i]) ELSE p

\* g is what the recursion asks of the elements up to m.
Follows(g, s, keep, max, m) ==
  g = [i \in 0..m |-> IF i = 0 THEN <<>> ELSE Turn(g[i - 1], s, keep, max, i)]

LEMMA PickedUnfolds ==
  ASSUME NEW s, NEW keep, NEW max, Len(s) \in Nat
  PROVE  Follows(Picked(s, keep, max), s, keep, max, Len(s))
<1> DEFINE Bad == {m \in Nat : ~\E g : Follows(g, s, keep, max, m)}
<1>1. Bad = {}
  <2> SUFFICES ASSUME Bad # {} PROVE FALSE
    OBVIOUS
  <2>1. PICK m \in Bad : \A j \in Bad : m <= j
    <3>1. Bad \in SUBSET Nat
      OBVIOUS
    <3> HIDE DEF Bad
    <3> QED BY <3>1, LeastMember
  <2>2. CASE m = 0
    <3> DEFINE g == [i \in 0..0 |-> <<>>]
    <3>1. Follows(g, s, keep, max, 0)
      BY DEF Follows
    <3> QED BY <2>1, <2>2, <3>1
  <2>3. CASE m # 0
    <3>1. m \in Nat /\ m - 1 \in Nat /\ m - 1 \notin Bad
      BY <2>1, <2>3
    <3>2. PICK g : Follows(g, s, keep, max, m - 1)
      BY <3>1
    <3> DEFINE h == [i \in 0..m |-> IF i = m THEN Turn(g[m - 1], s, keep, max, m) ELSE g[i]]
    <3>3. ASSUME NEW i \in 0..m
          PROVE  h[i] = IF i = 0 THEN <<>> ELSE Turn(h[i - 1], s, keep, max, i)
      <4>1. CASE i = m
        <5>1. m - 1 \in 0..m /\ m - 1 # m
          BY <3>1
        <5>2. h[i] = Turn(g[m - 1], s, keep, max, m) /\ h[m - 1] = g[m - 1]
          BY <4>1, <5>1
        <5> QED BY <4>1, <5>2, <2>3
      <4>2. CASE i # m
        <5>1. i \in 0..(m - 1)
          BY <3>1, <4>2
        <5>2. g[i] = IF i = 0 THEN <<>> ELSE Turn(g[i - 1], s, keep, max, i)
          BY <3>2, <5>1 DEF Follows
        <5>3. h[i] = g[i]
          BY <4>2
        <5>4. i # 0 => h[i - 1] = g[i - 1]
          <6> SUFFICES ASSUME i # 0 PROVE i - 1 \in 0..m /\ i - 1 # m
            OBVIOUS
          <6> QED BY <5>1, <3>1
        <5> QED BY <5>2, <5>3, <5>4
      <4> QED BY <4>1, <4>2
    <3>4. Follows(h, s, keep, max, m)
      <4>1. h = [i \in 0..m |-> h[i]]
        OBVIOUS
      <4> HIDE DEF h
      <4> QED BY <3>3, <4>1 DEF Follows
    <3> HIDE DEF h
    <3> QED BY <2>1, <3>4
  <2> QED BY <2>2, <2>3
<1>2. PICK g : Follows(g, s, keep, max, Len(s))
  BY <1>1
<1> QED BY <1>2 DEF Picked, Follows, Turn

\* The elements of p are elements of s at increasing positions of keep up to i.
Drawn(p, s, keep, i) ==
  \E f \in [1..Len(p) -> keep \cap 1..i] :
    /\ \A k \in 1..Len(p) : p[k] = s[f[k]]
    /\ \A k, l \in 1..Len(p) : k < l => f[k] < f[l]

\* One turn of the loop keeps that.
LEMMA TurnKeeps ==
  ASSUME NEW S, NEW s \in Seq(S), NEW keep, NEW max \in Nat, NEW i \in 1..Len(s),
         NEW p \in Seq(S), Len(p) <= max, Drawn(p, s, keep, i - 1)
  PROVE  LET q == Turn(p, s, keep, max, i)
         IN  q \in Seq(S) /\ Len(q) <= max /\ Drawn(q, s, keep, i)
<1>1. PICK f \in [1..Len(p) -> keep \cap 1..(i - 1)] :
        /\ \A k \in 1..Len(p) : p[k] = s[f[k]]
        /\ \A k, l \in 1..Len(p) : k < l => f[k] < f[l]
  BY DEF Drawn
<1>2. i \in Nat /\ i > 0 /\ 1..(i - 1) \subseteq 1..i /\ Len(p) \in Nat /\ Len(s) \in Nat
  OBVIOUS
<1>3. CASE ~(i \in keep /\ Len(p) < max)
  <2>1. f \in [1..Len(p) -> keep \cap 1..i]
    BY <1>2
  <2>2. Drawn(p, s, keep, i)
    BY <1>1, <2>1 DEF Drawn
  <2> QED BY <1>3, <2>2 DEF Turn
<1>4. CASE i \in keep /\ Len(p) < max
  <2> DEFINE q == Append(p, s[i])
             n == Len(p)
             g == [k \in 1..(n + 1) |-> IF k = n + 1 THEN i ELSE f[k]]
  <2>1. s[i] \in S
    OBVIOUS
  <2>2. q \in Seq(S) /\ Len(q) = n + 1 /\ q[n + 1] = s[i] /\ \A k \in 1..n : q[k] = p[k]
    BY <1>2, <2>1
  <2>3. \A k \in 1..n : f[k] \in keep /\ f[k] \in 1..(i - 1)
    BY <1>1
  <2> HIDE DEF q
  <2>4. g \in [1..Len(q) -> keep \cap 1..i]
    <3>1. \A k \in 1..(n + 1) : k = n + 1 \/ k \in 1..n
      BY <1>2
    <3>2. i \in keep \cap 1..i
      BY <1>2, <1>4
    <3>3. \A k \in 1..(n + 1) : g[k] \in keep \cap 1..i
      BY <1>2, <2>3, <3>1, <3>2
    <3> QED BY <2>2, <3>3
  <2>5. \A k \in 1..Len(q) : q[k] = s[g[k]]
    <3> SUFFICES ASSUME NEW k \in 1..(n + 1) PROVE q[k] = s[g[k]]
      BY <2>2
    <3>1. CASE k = n + 1
      BY <2>2, <3>1
    <3>2. CASE k # n + 1
      <4>1. k \in 1..n
        BY <1>2, <3>2
      <4>2. g[k] = f[k] /\ q[k] = p[k]
        BY <2>2, <3>2, <4>1
      <4> QED BY <1>1, <4>1, <4>2
    <3> QED BY <3>1, <3>2
  <2>6. \A k, l \in 1..Len(q) : k < l => g[k] < g[l]
    <3> SUFFICES ASSUME NEW k \in 1..(n + 1), NEW l \in 1..(n + 1), k < l PROVE g[k] < g[l]
      BY <2>2
    <3>1. k \in 1..n /\ g[k] = f[k] /\ f[k] \in 1..(i - 1)
      BY <1>2, <2>3
    <3>2. CASE l = n + 1
      BY <1>2, <3>1, <3>2
    <3>3. CASE l # n + 1
      <4>1. l \in 1..n /\ g[l] = f[l]
        BY <1>2, <3>3
      <4> QED BY <1>1, <3>1, <4>1
    <3> QED BY <3>2, <3>3
  <2>7. Drawn(q, s, keep, i)
    <3> HIDE DEF g
    <3> QED BY <2>4, <2>5, <2>6 DEF Drawn
  <2>8. Len(q) <= max
    BY <1>2, <1>4, <2>2
  <2> QED BY <1>4, <2>2, <2>7, <2>8 DEF Turn, q
<1> QED BY <1>3, <1>4

LEMMA PickDraws ==
  ASSUME NEW S, NEW s \in Seq(S), NEW keep, NEW max \in Nat
  PROVE  LET p == Pick(s, keep, max)
         IN  p \in Seq(S) /\ Len(p) <= max /\ Drawn(p, s, keep, Len(s))
<1> DEFINE g == Picked(s, keep, max)
           Good(p, i) == p \in Seq(S) /\ Len(p) <= max /\ Drawn(p, s, keep, i)
           Bad == {i \in 0..Len(s) : ~Good(g[i], i)}
<1>1. Len(s) \in Nat
  OBVIOUS
<1>2. Follows(g, s, keep, max, Len(s))
  BY <1>1, PickedUnfolds
<1> HIDE DEF g
<1>3. Bad = {}
  <2> SUFFICES ASSUME Bad # {} PROVE FALSE
    OBVIOUS
  <2>1. PICK m \in Bad : \A j \in Bad : m <= j
    <3>1. Bad \in SUBSET Nat
      BY <1>1
    <3> HIDE DEF Bad
    <3> QED BY <3>1, LeastMember
  <2>2. CASE m = 0
    <3>1. 0 \in 0..Len(s)
      BY <1>1
    <3>2. g[0] = <<>>
      BY <1>2, <3>1 DEF Follows
    <3>3. Good(<<>>, 0)
      <4> DEFINE e == [k \in 1..0 |-> 0]
      <4>1. e \in [1..Len(<<>>) -> keep \cap 1..0] /\ 1..Len(<<>>) = {}
        OBVIOUS
      <4> HIDE DEF e
      <4>2. Drawn(<<>>, s, keep, 0)
        BY <4>1 DEF Drawn
      <4> QED BY <4>2
    <3> HIDE DEF Good
    <3> QED BY <2>1, <2>2, <3>2, <3>3
  <2>3. CASE m # 0
    <3>1. m \in 1..Len(s) /\ m \in 0..Len(s) /\ m - 1 \in 0..Len(s) /\ m - 1 \notin Bad
      BY <1>1, <2>1, <2>3
    <3>2. Good(g[m - 1], m - 1)
      BY <3>1
    <3>3. g[m] = Turn(g[m - 1], s, keep, max, m)
      BY <1>2, <2>3, <3>1 DEF Follows
    <3>4. Good(Turn(g[m - 1], s, keep, max, m), m)
      BY <3>1, <3>2, TurnKeeps
    <3> QED BY <2>1, <3>3, <3>4
  <2> QED BY <2>2, <2>3
<1>4. Len(s) \in 0..Len(s)
  BY <1>1
<1> QED BY <1>3, <1>4 DEF Pick, g

-----------------------------------------------------------------------------
(***************************************************************************)
(* The two readers.  find_attribute takes each record for one id only, the *)
(* first of it, so the ids marked and the records shown are equally many.  *)
(***************************************************************************)

\* bythos_hsi_find_attribute: what it finds is the first record of the id.
LEMMA FindFirst ==
  ASSUME report \in Seq(HsiRecord), NEW id, Find(id) # 0
  PROVE  /\ Find(id) \in DOMAIN report
         /\ report[Find(id)].id = id
         /\ report[Find(id)].result # "none"
         /\ \A j \in 1..(Find(id) - 1) : report[j].id # id
<1> DEFINE firsts == {i \in DOMAIN report :
                        report[i].id = id /\ \A j \in 1..(i - 1) : report[j].id # id}
<1>1. Find(id) = CHOOSE i \in firsts : TRUE
  BY DEF Find
<1>2. PICK i \in firsts : report[i].result # "none"
  BY DEF Find
<1>3. \A j \in firsts : j = i
  <2> SUFFICES ASSUME NEW j \in firsts, j # i PROVE FALSE
    OBVIOUS
  <2>1. i \in Nat /\ j \in Nat /\ i > 0 /\ j > 0
    OBVIOUS
  <2>2. i \in 1..(j - 1) \/ j \in 1..(i - 1)
    BY <2>1
  <2> QED BY <2>2
<1>4. Find(id) = i
  <2> HIDE DEF firsts
  <2> QED BY <1>1, <1>2, <1>3
<1> QED BY <1>2, <1>4

\* The records are finitely many, and so are the ids asked for.
LEMMA ReportFinite ==
  ASSUME report \in Seq(HsiRecord)
  PROVE  /\ DOMAIN report \subseteq Nat \ {0} /\ IsFiniteSet(DOMAIN report)
         /\ IsFiniteSet(NotPassing) /\ IsFiniteSet(NotSupported) /\ IsFiniteSet(Weak)
         /\ IsFiniteSet(Asked) /\ IsFiniteSet(Marked)
<1>1. DOMAIN report = 1..Len(report) /\ Len(report) \in Nat
  OBVIOUS
<1>2. IsFiniteSet(1..Len(report))
  <2>1. 1 \in Int /\ Len(report) \in Int
    BY <1>1
  <2> QED BY <2>1, FS_Interval
<1>3. IsFiniteSet(NotPassing)
  BY <1>1, <1>2, FS_Subset DEF NotPassing
<1>4. IsFiniteSet(NotSupported) /\ IsFiniteSet(Weak)
  BY <1>3, FS_Subset DEF NotSupported, Weak
<1>5. IsFiniteSet(Asked)
  <2> DEFINE all == Universal \cup AmdOnly \cup IntelOnly
  <2>1. IsFiniteSet((all \cup {GuardEnabled}) \cup {GuardVerified})
    <3>1. IsFiniteSet(all)
      BY FwupdAssumption
    <3> HIDE DEF all
    <3>2. IsFiniteSet(all \cup {GuardEnabled})
      BY <3>1, FS_AddElement
    <3> DEFINE more == all \cup {GuardEnabled}
    <3>3. IsFiniteSet(more)
      BY <3>2
    <3> HIDE DEF more
    <3>4. IsFiniteSet(more \cup {GuardVerified})
      BY <3>3, FS_AddElement
    <3> QED BY <3>4 DEF more
  <2>2. Asked \subseteq (all \cup {GuardEnabled}) \cup {GuardVerified}
    BY DEF Asked, Mapped, Guarded
  <2> QED BY <2>1, <2>2, FS_Subset
<1>6. IsFiniteSet(Marked)
  BY <1>5, FS_Subset DEF Marked
<1> QED BY <1>1, <1>2, <1>3, <1>4, <1>5, <1>6

\* The ids marked as not passing and applicable, and the records shown.
LEMMA MarkedAreShown ==
  ASSUME report \in Seq(HsiRecord)
  PROVE  ReportedWeak = Cardinality(Shown)
<1> DEFINE applicable == Marked \ MarkedInapplicable
           find == [id \in applicable |-> Find(id)]
<1>1. \A id \in applicable : /\ id \in Asked /\ Find(id) \in DOMAIN report /\ report[Find(id)].id = id
                             /\ ~report[Find(id)].passing /\ FoundResult(Find(id)) # "not-supported"
  BY FindFirst DEF Marked, MarkedInapplicable
<1>2. \A id \in applicable : Find(id) \in Shown
  <2> SUFFICES ASSUME NEW id \in applicable PROVE Find(id) \in Shown
    OBVIOUS
  <2>1. Find(id) \in NotPassing
    BY <1>1 DEF NotPassing
  <2>2. report[Find(id)].result # "not-supported"
    BY <1>1 DEF FoundResult
  <2> QED BY <1>1, <2>1, <2>2 DEF Shown, Weak, NotSupported
<1>3. \A i \in Shown : \E id \in applicable : Find(id) = i
  <2> SUFFICES ASSUME NEW i \in Shown PROVE \E id \in applicable : Find(id) = i
    OBVIOUS
  <2>1. PICK id \in Asked : Find(id) = i /\ FoundResult(i) # "not-supported"
    BY DEF Shown
  <2>2. i \in DOMAIN report /\ ~report[i].passing
    BY DEF Shown, Weak, NotPassing
  <2>3. i # 0
    BY <2>2, ReportFinite
  <2>4. id \in Marked /\ id \notin MarkedInapplicable
    BY <2>1, <2>2, <2>3 DEF Marked, MarkedInapplicable
  <2> QED BY <2>1, <2>4
<1>4. find \in Bijection(applicable, Shown)
  <2>1. find \in [applicable -> Shown]
    BY <1>2
  <2>2. \A a, b \in applicable : find[a] = find[b] => a = b
    BY <1>1
  <2>3. \A i \in Shown : \E id \in applicable : find[id] = i
    BY <1>3
  <2> HIDE DEF find, applicable
  <2> QED BY <2>1, <2>2, <2>3 DEF Bijection, Injection, IsInjective, Surjection
<1>5. IsFiniteSet(Marked) /\ MarkedInapplicable \subseteq Marked
  BY ReportFinite DEF MarkedInapplicable
<1>6. IsFiniteSet(applicable) /\ Cardinality(applicable) = Cardinality(Marked) - Cardinality(MarkedInapplicable)
  <2>1. Marked \cap MarkedInapplicable = MarkedInapplicable
    BY <1>5
  <2> QED BY <1>5, <2>1, FS_Difference
<1>7. Cardinality(Shown) = Cardinality(applicable)
  <2> HIDE DEF find, applicable
  <2> QED BY <1>4, <1>6, FS_Bijection DEF ExistsBijection
<1> QED BY <1>6, <1>7 DEF ReportedWeak

\* What the last row counts are the weak records that are not shown.
LEMMA HiddenCounted ==
  ASSUME report \in Seq(HsiRecord)
  PROVE  Hidden = Cardinality(Weak \ Shown) /\ Hidden \in Nat
<1>1. Cardinality(Weak) = Cardinality(NotPassing) - Cardinality(NotSupported)
  <2>1. NotPassing \cap NotSupported = NotSupported
    BY DEF NotSupported
  <2>2. IsFiniteSet(NotPassing)
    BY ReportFinite
  <2> QED BY <2>1, <2>2, FS_Difference DEF Weak
<1>2. IsFiniteSet(Weak) /\ Shown \subseteq Weak
  BY ReportFinite DEF Shown
<1>3. /\ Cardinality(Weak \ Shown) = Cardinality(Weak) - Cardinality(Shown)
      /\ IsFiniteSet(Weak \ Shown)
  <2>1. Weak \cap Shown = Shown
    BY <1>2
  <2> QED BY <1>2, <2>1, FS_Difference
<1>4. /\ Cardinality(Weak) \in Nat /\ Cardinality(Weak \ Shown) \in Nat
      /\ IsFiniteSet(Shown) /\ Cardinality(Shown) \in Nat
  BY <1>2, <1>3, FS_CardinalityType, FS_Subset
<1> QED BY <1>1, <1>3, <1>4, MarkedAreShown DEF Hidden

\* bythos_hsi_collect_not_passing and the naming loop: whatever is named is the
\* id of a record of its own that is weak, printable and not shown.
LEMMA NamesDrawn ==
  ASSUME report \in Seq(HsiRecord), NEW room \in Nat
  PROVE  /\ Names(room) \in Seq(STRING) /\ Len(Names(room)) <= Hidden
         /\ \E h \in [1..Len(Names(room)) -> Weak \ Shown] :
              /\ \A k \in 1..Len(Names(room)) :
                   report[h[k]].id = Names(room)[k] /\ report[h[k]].printable
              /\ \A k, l \in 1..Len(Names(room)) : k < l => h[k] < h[l]
<1> DEFINE given == [i \in DOMAIN report |-> report[i].id]
           printed == {i \in Weak : report[i].printable}
           ids == Pick(given, printed, NamedMax)
           free == {k \in DOMAIN ids : ids[k] \notin Marked}
           named == Pick(ids, free, Least(Hidden, room))
<1>0. ids = CollectedIds /\ named = Names(room)
  BY DEF CollectedIds, Names
<1>1. DOMAIN report = 1..Len(report) /\ Len(report) \in Nat
      /\ \A i \in DOMAIN report : report[i] \in HsiRecord
  OBVIOUS
<1>2. given \in Seq(STRING) /\ Len(given) = Len(report)
      /\ \A i \in DOMAIN report : given[i] = report[i].id
  <2>1. \A i \in 1..Len(report) : report[i].id \in STRING
    BY <1>1 DEF HsiRecord
  <2>2. given \in [1..Len(report) -> STRING]
    BY <1>1, <2>1
  <2> QED BY <1>1, <2>2
<1>3. Hidden \in Nat /\ Least(Hidden, room) \in Nat /\ Least(Hidden, room) <= Hidden /\ NamedMax \in Nat
  BY HiddenCounted, FwupdAssumption DEF Least
<1> HIDE DEF given, printed
<1>4. ids \in Seq(STRING) /\ Drawn(ids, given, printed, Len(given))
  BY <1>2, <1>3, PickDraws
<1> HIDE DEF ids, free
<1>5. named \in Seq(STRING) /\ Len(named) <= Least(Hidden, room) /\ Drawn(named, ids, free, Len(ids))
  BY <1>3, <1>4, PickDraws
<1> HIDE DEF named
<1>6. PICK f \in [1..Len(ids) -> printed \cap 1..Len(given)] :
        /\ \A k \in 1..Len(ids) : ids[k] = given[f[k]]
        /\ \A k, l \in 1..Len(ids) : k < l => f[k] < f[l]
  BY <1>4 DEF Drawn
<1>7. PICK g \in [1..Len(named) -> free \cap 1..Len(ids)] :
        /\ \A k \in 1..Len(named) : named[k] = ids[g[k]]
        /\ \A k, l \in 1..Len(named) : k < l => g[k] < g[l]
  BY <1>5 DEF Drawn
<1> DEFINE h == [k \in 1..Len(named) |-> f[g[k]]]
<1>8. ASSUME NEW k \in 1..Len(named)
      PROVE  /\ h[k] \in Weak \ Shown /\ report[h[k]].printable
             /\ report[h[k]].id = named[k]
  <2>1. g[k] \in free /\ g[k] \in 1..Len(ids) /\ named[k] = ids[g[k]]
    BY <1>7
  <2>2. f[g[k]] \in printed /\ ids[g[k]] = given[f[g[k]]]
    BY <1>6, <2>1
  <2>3. h[k] \in Weak /\ report[h[k]].printable /\ h[k] \in DOMAIN report
    BY <2>2 DEF printed, Weak, NotPassing
  <2>4. report[h[k]].id = named[k]
    BY <1>2, <2>1, <2>2, <2>3
  <2>5. named[k] \notin Marked
    BY <2>1 DEF free
  <2>6. h[k] \notin Shown
    <3> SUFFICES ASSUME h[k] \in Shown PROVE FALSE
      OBVIOUS
    <3>1. PICK id \in Asked : Find(id) = h[k]
      BY DEF Shown
    <3>2. h[k] # 0 /\ ~report[h[k]].passing
      BY <2>3, ReportFinite DEF Weak, NotPassing
    <3>3. report[h[k]].id = id
      BY <3>1, <3>2, FindFirst
    <3> QED BY <2>4, <2>5, <3>1, <3>2, <3>3 DEF Marked
  <2> QED BY <2>3, <2>4, <2>6
<1>9. \A k, l \in 1..Len(named) : k < l => h[k] < h[l]
  <2> SUFFICES ASSUME NEW k \in 1..Len(named), NEW l \in 1..Len(named), k < l PROVE h[k] < h[l]
    OBVIOUS
  <2>1. g[k] \in 1..Len(ids) /\ g[l] \in 1..Len(ids) /\ g[k] < g[l]
    BY <1>7
  <2> QED BY <1>6, <2>1
<1>10. h \in [1..Len(named) -> Weak \ Shown]
  BY <1>8
<1>11. Len(named) <= Hidden
  <2>1. Len(named) \in Nat
    BY <1>5
  <2> QED BY <1>3, <1>5, <2>1
<1> HIDE DEF h
<1> QED BY <1>0, <1>5, <1>8, <1>9, <1>10, <1>11

\* An id is named at most as often as hidden records have it, in print.
LEMMA NamesHonest ==
  ASSUME report \in Seq(HsiRecord), NEW room \in Nat, NEW id
  PROVE  Cardinality({i \in DOMAIN Names(room) : Names(room)[i] = id})
           <= Cardinality({i \in Weak \ Shown : report[i].id = id /\ report[i].printable})
<1> DEFINE named == Names(room)
           S == {i \in DOMAIN named : named[i] = id}
           T == {i \in Weak \ Shown : report[i].id = id /\ report[i].printable}
<1>1. PICK h \in [1..Len(named) -> Weak \ Shown] :
        /\ \A k \in 1..Len(named) : report[h[k]].id = named[k] /\ report[h[k]].printable
        /\ \A k, l \in 1..Len(named) : k < l => h[k] < h[l]
  BY NamesDrawn
<1>0. named \in Seq(STRING)
  BY NamesDrawn
<1> HIDE DEF named
<1>2. DOMAIN named = 1..Len(named) /\ Len(named) \in Nat
  BY <1>0
<1> DEFINE e == [k \in S |-> h[k]]
<1>3. e \in [S -> T]
  BY <1>1, <1>2
<1>4. \A a, b \in S : e[a] = e[b] => a = b
  <2> SUFFICES ASSUME NEW a \in S, NEW b \in S, a # b PROVE e[a] # e[b]
    OBVIOUS
  <2>1. a \in 1..Len(named) /\ b \in 1..Len(named) /\ a \in Nat /\ b \in Nat
    BY <1>2
  <2>2. h[a] \in Nat /\ h[b] \in Nat
    BY <1>1, <2>1, ReportFinite DEF Weak, NotPassing
  <2>3. a < b \/ b < a
    BY <2>1
  <2>4. h[a] < h[b] \/ h[b] < h[a]
    BY <1>1, <2>1, <2>3
  <2> QED BY <2>2, <2>4
<1>5. IsFiniteSet(T)
  BY ReportFinite, FS_Subset
<1> HIDE DEF S, T, e
<1>6. e \in Injection(S, T)
  BY <1>3, <1>4 DEF Injection, IsInjective
<1>7. Cardinality(S) <= Cardinality(T)
  BY <1>5, <1>6, FS_Injection
<1> QED BY <1>7 DEF S, T, named

-----------------------------------------------------------------------------
(***************************************************************************)
(* The check.  A report was read only from a trusted fwupdmgr.             *)
(***************************************************************************)

Typed(r) == \A n \in DOMAIN r : r[n] \in AllRows

CheckTypes ==
  /\ pc \in {"start", "service", "timer", "timer probe", "fwupdmgr", "report",
            "attributes", "counted", "done"}
  /\ Typed(rows)
  /\ tool \in PathMatches
  /\ vendor \in {"AMD", "INTEL", "OTHER"}
  /\ report \in Reports \cup {<<>>}
  /\ borrowed \in {"good", "bad", "not-supported"}
  /\ hidden \in Nat

ReadFromTrusted == pc \in {"attributes", "counted"} => tool = "trusted"

CheckInv ==
  CheckTypes /\ ReadFromTrusted /\ HiddenIsExact /\ NamesAreHonest /\ HsiOkMeansObserved

LEMMA RowTypes ==
  /\ Row("OK") \in AllRows /\ Row("WARN") \in AllRows
  /\ \A r \in SkipReasons :
       /\ Skip(r) \in AllRows /\ SkipActionable(r) \in AllRows
       /\ Skip(r).state = "SKIP" /\ SkipActionable(r).state = "SKIP"
  /\ \A match : ToolRow(match) \in AllRows /\ ToolRow(match).state # "OK"
<1>1. Row("OK") \in AllRows /\ Row("WARN") \in AllRows
  BY DEF Row, AllRows
<1>2. ASSUME NEW r \in SkipReasons
      PROVE  /\ Skip(r) \in AllRows /\ SkipActionable(r) \in AllRows
             /\ Skip(r).state = "SKIP" /\ SkipActionable(r).state = "SKIP"
  <2> DEFINE skips == [state : {"SKIP"}, reason : SkipReasons, root : BOOLEAN, actionable : BOOLEAN]
  <2>1. Row("SKIP") \in [state : {"SKIP"}, reason : {"NONE"}, root : BOOLEAN, actionable : BOOLEAN]
    BY DEF Row
  <2>2. Skip(r) \in skips
    BY <2>1 DEF Skip
  <2>3. SkipActionable(r) \in skips
    BY <2>2 DEF SkipActionable
  <2> QED BY <2>2, <2>3 DEF AllRows
<1>3. ASSUME NEW match PROVE ToolRow(match) \in AllRows /\ ToolRow(match).state # "OK"
  <2>1. "TOOL_ABSENT" \in SkipReasons /\ Row("WARN").state = "WARN"
    BY DEF SkipReasons, Row
  <2> QED BY <1>1, <1>2, <2>1 DEF ToolRow
<1> QED BY <1>1, <1>2, <1>3

\* Everything that is read off a report depends on these alone.
LEMMA ReadingsStay ==
  ASSUME UNCHANGED <<report, borrowed, vendor>>
  PROVE  /\ Weak' = Weak /\ Shown' = Shown
         /\ \A i : FoundResult(i)' = FoundResult(i)
<1>1. report' = report /\ borrowed' = borrowed /\ vendor' = vendor
  OBVIOUS
<1>2. Weak' = Weak
  BY <1>1 DEF Weak, NotPassing, NotSupported
<1>3. \A i : FoundResult(i)' = FoundResult(i)
  BY <1>1 DEF FoundResult
<1>4. Asked' = Asked /\ \A id : Find(id)' = Find(id)
  BY <1>1 DEF Asked, Mapped, Guarded, Find
<1>5. Shown' = Shown
  BY <1>2, <1>3, <1>4 DEF Shown
<1> QED BY <1>2, <1>3, <1>5

\* A step that leaves the HSI section alone, outside of "counted" and "done".
LEMMA BeforeReport ==
  ASSUME CheckInv, Typed(rows'), tool' \in PathMatches, UNCHANGED <<vendor, hsiVars>>,
         pc' \in {"service", "timer", "timer probe", "fwupdmgr", "report"}
  PROVE  CheckInv'
<1>1. CheckTypes'
  BY DEF CheckInv, CheckTypes, Typed, hsiVars
<1> QED BY <1>1 DEF CheckInv, ReadFromTrusted, HiddenIsExact, NamesAreHonest, HsiOkMeansObserved

LEMMA AskKeeps == CheckInv /\ AskFwupdmgr => CheckInv'
<1> SUFFICES ASSUME CheckInv, AskFwupdmgr PROVE CheckInv'
  OBVIOUS
<1>1. pc' = "report" /\ UNCHANGED <<tool, vendor, hsiVars>> /\ tool' \in PathMatches
  BY DEF AskFwupdmgr, CheckInv, CheckTypes
<1>2. CASE tool = "trusted"
  <2>1. PICK lvfs \in LvfsRow, inventory \in InventoryRow,
             updates \in Captures \ {"truncated"}, history \in Captures \ {"truncated"},
             noUpdates \in BOOLEAN, text \in {"empty", "no history", "other"} :
          rows' = [n \in ToolRows |->
            IF n = "LVFS remote" THEN lvfs
            ELSE IF n = "firmware inventory" THEN inventory
            ELSE IF n = "firmware update status" THEN UpdatesRow(updates, noUpdates)
            ELSE HistoryRow(history, text)]
    BY <1>2, Zenon DEF AskFwupdmgr
  <2>2. lvfs \in AllRows
    BY RowTypes DEF LvfsRow
  <2>3. {"EXEC_FAILED", "PROBE_INDETERMINATE", "SUBJECT_ABSENT"} \subseteq SkipReasons
    BY DEF SkipReasons
  <2>4. inventory \in AllRows /\ UpdatesRow(updates, noUpdates) \in AllRows /\ HistoryRow(history, text) \in AllRows
    BY <2>3, RowTypes DEF InventoryRow, UpdatesRow, HistoryRow
  <2>5. Typed(rows')
    BY <2>1, <2>2, <2>4 DEF Typed
  <2> QED BY <1>1, <2>5, BeforeReport
<1>3. CASE tool # "trusted"
  <2>1. rows' = Fill(ToolRows, ToolRow(tool))
    BY <1>3 DEF AskFwupdmgr
  <2>2. Typed(rows')
    BY <2>1, RowTypes DEF Typed, Fill
  <2> QED BY <1>1, <2>2, BeforeReport
<1> QED BY <1>2, <1>3

LEMMA CaptureReportKeeps == CheckInv /\ CaptureReport => CheckInv'
<1> SUFFICES ASSUME CheckInv, CaptureReport PROVE CheckInv'
  OBVIOUS
<1>1. /\ tool' = tool /\ names' = names /\ hidden' = hidden /\ tool \in PathMatches
      /\ vendor' \in {"AMD", "INTEL", "OTHER"}
  BY DEF CaptureReport, CheckInv, CheckTypes
<1>2. CASE /\ tool = "trusted" /\ report' \in Reports /\ borrowed' \in {"good", "bad", "not-supported"}
           /\ pc' = "attributes" /\ rows' = <<>>
  <2>1. Typed(rows')
    BY <1>2 DEF Typed
  <2>2. CheckTypes'
    BY <1>1, <1>2, <2>1 DEF CheckInv, CheckTypes, Typed
  <2> QED BY <1>1, <1>2, <2>2 DEF CheckInv, ReadFromTrusted, HiddenIsExact, NamesAreHonest, HsiOkMeansObserved
<1>3. CASE /\ \E cut \in BOOLEAN : rows' = Fill(HsiNames', Unavailable(cut))
           /\ pc' = "done" /\ UNCHANGED <<report, borrowed>>
  <2>1. PICK cut \in BOOLEAN : rows' = Fill(HsiNames', Unavailable(cut))
    BY <1>3
  <2>2. {"EXEC_FAILED", "OUTPUT_UNPARSEABLE"} \subseteq SkipReasons
    BY DEF SkipReasons
  <2>3. Unavailable(cut) \in AllRows /\ Unavailable(cut).state # "OK"
    BY <2>2, RowTypes DEF Unavailable
  <2>4. Typed(rows') /\ \A n \in DOMAIN rows' : rows'[n].state # "OK"
    BY <2>1, <2>3 DEF Typed, Fill
  <2>5. CheckTypes'
    BY <1>1, <1>3, <2>4 DEF CheckInv, CheckTypes, Typed
  <2> QED BY <1>3, <2>4, <2>5 DEF CheckInv, ReadFromTrusted, HiddenIsExact, NamesAreHonest, HsiOkMeansObserved
<1> QED BY <1>2, <1>3, Zenon DEF CaptureReport

LEMMA EmitAttributesKeeps == CheckInv /\ EmitAttributes => CheckInv'
<1> SUFFICES ASSUME CheckInv, EmitAttributes PROVE CheckInv'
  OBVIOUS
<1>1. /\ pc = "attributes" /\ pc' = "counted" /\ hidden' = Hidden
      /\ UNCHANGED <<tool, vendor, report, borrowed>>
      /\ rows' = [n \in HsiNames |->
           IF n = UnmappedRow THEN Row(IF Hidden > 0 THEN "WARN" ELSE "OK")
           ELSE IF n = GuardRow THEN BootGuardRow
           ELSE HsiRow(n)]
  BY DEF EmitAttributes
<1>2. PICK room \in 0..NamesRoom : names' = Names(room)
  BY DEF EmitAttributes
<1>3. report \in Seq(HsiRecord) /\ tool = "trusted" /\ room \in Nat
  <2>1. report \in Reports \cup {<<>>} /\ tool = "trusted"
    BY <1>1 DEF CheckInv, CheckTypes, ReadFromTrusted
  <2>2. room \in Nat
    BY FwupdAssumption
  <2>3. <<>> \in Seq(HsiRecord)
    OBVIOUS
  <2>4. report = <<>> \/ report \in Seq(HsiRecord)
    BY <2>1, ReportsAssumption
  <2> QED BY <2>1, <2>2, <2>3, <2>4
<1>4. Weak' = Weak /\ Shown' = Shown /\ \A i : FoundResult(i)' = FoundResult(i)
  BY <1>1, ReadingsStay
<1>5. HiddenIsExact' /\ hidden' \in Nat
  BY <1>1, <1>3, <1>4, HiddenCounted DEF HiddenIsExact
<1>6. NamesAreHonest'
  <2>1. Len(names') <= hidden'
    BY <1>1, <1>2, <1>3, NamesDrawn
  <2>2. \A id : Cardinality({i \in DOMAIN names' : names'[i] = id})
                  <= Cardinality({i \in Weak' \ Shown' : report'[i].id = id /\ report'[i].printable})
    BY <1>1, <1>2, <1>3, <1>4, NamesHonest
  <2> QED BY <2>1, <2>2 DEF NamesAreHonest
<1>7. HsiOkMeansObserved'
  <2> SUFFICES ASSUME NEW n \in DOMAIN rows' \ {UnmappedRow, GuardRow}, rows'[n].state = "OK"
               PROVE  \E i \in DOMAIN report :
                        /\ report[i].id = n /\ FoundResult(i) = "good"
                        /\ \A j \in 1..(i - 1) : report[j].id # n
    BY <1>1, <1>3, <1>4 DEF HsiOkMeansObserved
  <2>1. HsiRow(n).state = "OK"
    BY <1>1
  <2>2. "FEATURE_ABSENT" \in SkipReasons /\ Row("WARN").state = "WARN"
    BY DEF SkipReasons, Row
  <2>3. Find(n) # 0 /\ FoundResult(Find(n)) = "good"
    BY <2>1, <2>2, RowTypes DEF HsiRow
  <2> QED BY <1>3, <2>3, FindFirst
<1>8. CheckTypes'
  <2>1. "FEATURE_ABSENT" \in SkipReasons
    BY DEF SkipReasons
  <2>2. \A n : HsiRow(n) \in AllRows
    BY <2>1, RowTypes DEF HsiRow
  <2>3. BootGuardRow \in AllRows
    BY <2>1, RowTypes DEF BootGuardRow
  <2>4. Typed(rows')
    BY <1>1, <2>2, <2>3, RowTypes DEF Typed
  <2> QED BY <1>1, <1>5, <2>4 DEF CheckInv, CheckTypes, Typed
<1> QED BY <1>1, <1>3, <1>5, <1>6, <1>7, <1>8 DEF CheckInv, ReadFromTrusted

LEMMA FinishKeeps == CheckInv /\ Finish => CheckInv'
<1> SUFFICES ASSUME CheckInv, Finish PROVE CheckInv'
  OBVIOUS
<1>1. /\ pc = "counted" /\ pc' = "done" /\ report' = <<>> /\ hidden' = 0 /\ borrowed' = "bad"
      /\ UNCHANGED <<rows, tool, vendor>>
  BY DEF Finish
<1>2. CheckTypes'
  BY <1>1 DEF CheckInv, CheckTypes, Typed
<1>3. tool = "trusted"
  BY <1>1 DEF CheckInv, ReadFromTrusted
<1> QED BY <1>1, <1>2, <1>3 DEF CheckInv, ReadFromTrusted, HiddenIsExact, NamesAreHonest, HsiOkMeansObserved

LEMMA UnitRowKeeps ==
  ASSUME CheckInv, NEW here, NEW name, NEW next \in {"timer", "fwupdmgr"}, EmitUnit(here, name, next)
  PROVE  CheckInv'
<1>1. PICK match \in PathMatches : rows' = Fill({name}, UnitRow(name, match))
  BY DEF EmitUnit
<1>2. {"PROBE_INDETERMINATE", "SUBJECT_ABSENT"} \subseteq SkipReasons
  BY DEF SkipReasons
<1>3. UnitRow(name, match) \in AllRows
  BY <1>2, RowTypes DEF UnitRow
<1>4. Typed(rows')
  BY <1>1, <1>3 DEF Typed, Fill
<1>5. pc' = next /\ UNCHANGED <<tool, vendor, hsiVars>> /\ tool' \in PathMatches
  BY DEF EmitUnit, CheckInv, CheckTypes
<1> QED BY <1>4, <1>5, BeforeReport

LEMMA CheckStays == CheckInv /\ UNCHANGED checkVars => CheckInv'
<1> SUFFICES ASSUME CheckInv, UNCHANGED checkVars PROVE CheckInv'
  OBVIOUS
<1>1. UNCHANGED <<pc, rows, tool, vendor, report, borrowed, names, hidden>>
  BY DEF checkVars, hsiVars
<1>2. Weak' = Weak /\ Shown' = Shown /\ \A i : FoundResult(i)' = FoundResult(i)
  BY <1>1, ReadingsStay
<1>3. CheckTypes' /\ ReadFromTrusted' /\ HiddenIsExact'
  BY <1>1, <1>2 DEF CheckInv, CheckTypes, Typed, ReadFromTrusted, HiddenIsExact
<1>4. NamesAreHonest'
  BY <1>1, <1>2 DEF CheckInv, NamesAreHonest
<1>5. HsiOkMeansObserved'
  BY <1>1, <1>2 DEF CheckInv, HsiOkMeansObserved
<1> QED BY <1>3, <1>4, <1>5 DEF CheckInv

LEMMA CheckInitially == Init => CheckInv
<1> SUFFICES ASSUME Init PROVE CheckInv
  OBVIOUS
<1>1. pc = "start" /\ rows = <<>> /\ tool = "none" /\ vendor = "OTHER" /\ report = <<>>
      /\ borrowed = "bad" /\ hidden = 0
  BY DEF Init
<1>2. CheckTypes
  BY <1>1 DEF CheckTypes, Typed, PathMatches
<1> QED BY <1>1, <1>2 DEF CheckInv, ReadFromTrusted, HiddenIsExact, NamesAreHonest, HsiOkMeansObserved

LEMMA CheckStep == CheckInv /\ [Next]_vars => CheckInv'
<1> SUFFICES ASSUME CheckInv, [Next]_vars PROVE CheckInv'
  OBVIOUS
<1>1. CASE Start \/ ProbeTimer
  <2>1. /\ pc' \in {"service", "timer probe"} /\ UNCHANGED <<vendor, hsiVars>> /\ tool' \in PathMatches
        /\ rows' \in {rows, <<>>}
    BY <1>1 DEF Start, ProbeTimer, CheckInv, CheckTypes
  <2>2. Typed(<<>>)
    BY DEF Typed
  <2>3. Typed(rows) => Typed(rows')
    <3>1. CASE rows' = rows
      BY <3>1 DEF Typed
    <3>2. CASE rows' = <<>>
      BY <2>2, <3>2 DEF Typed
    <3> QED BY <2>1, <3>1, <3>2
  <2>4. Typed(rows)
    BY DEF CheckInv, CheckTypes
  <2> QED BY <2>1, <2>3, <2>4, BeforeReport
<1>2. CASE EmitUnit("service", ServiceRow, "timer") \/ EmitUnit("timer probe", TimerRow, "fwupdmgr")
  BY <1>2, UnitRowKeeps
<1>3. CASE UNCHANGED checkVars
  BY <1>3, CheckStays
<1>4. CASE AskFwupdmgr \/ CaptureReport \/ EmitAttributes \/ Finish
  BY <1>4, AskKeeps, CaptureReportKeeps, EmitAttributesKeeps, FinishKeeps
<1> QED BY <1>1, <1>2, <1>3, <1>4 DEF Next, Returned, vars

\* The check's variables keep their types, and every row is a well-formed one:
\* only a skipped row has a reason or asks for an action.
THEOREM TypeCorrect == Spec => []TypeOK
<1>1. CheckInv /\ ProbeInv => TypeOK
  BY DEF CheckInv, CheckTypes, Typed, ProbeInv, UnitInv, HelperInv, TypeOK
<1> QED BY <1>1, CheckInitially, CheckStep, ProbeInitially, ProbeStep, PTL DEF Spec

\* The last row counts exactly the records that are not passing and that no row
\* above speaks of, whatever the report: weak - reported_weak, the difference
\* of what two readers counted, is never off, and never clamped to zero.
THEOREM HiddenExact == Spec => []HiddenIsExact
<1>1. CheckInv => HiddenIsExact
  BY DEF CheckInv
<1> QED BY <1>1, CheckInitially, CheckStep, PTL DEF Spec

\* The last row names no more attributes than it counts, and no id more often
\* than hidden, printable records have it.
THEOREM NamesTrue == Spec => []NamesAreHonest
<1>1. CheckInv => NamesAreHonest
  BY DEF CheckInv
<1> QED BY <1>1, CheckInitially, CheckStep, PTL DEF Spec

\* An EMIT_HSI row is ok only for the first record of its id with the result
\* that means success, in a complete report of a trusted fwupdmgr.
THEOREM HsiOkEarned == Spec => []HsiOkMeansObserved
<1>1. CheckInv => HsiOkMeansObserved
  BY DEF CheckInv
<1> QED BY <1>1, CheckInitially, CheckStep, PTL DEF Spec
-----------------------------------------------------------------------------
(***************************************************************************)
(* What the last row promises.  Its text "every fwupd attribute not        *)
(* passing is reported above" is refuted by a run; here is when it holds.  *)
(***************************************************************************)

\* The rows are those made of the report, as long as the report is there.
RowsAreRead ==
  pc = "counted" =>
    rows = [n \in HsiNames |->
       IF n = UnmappedRow THEN Row(IF Hidden > 0 THEN "WARN" ELSE "OK")
       ELSE IF n = GuardRow THEN BootGuardRow
       ELSE HsiRow(n)]

\* Boot Guard's Enabled is reported and applies wherever Verified is reported.
BootGuardApplicable ==
  vendor = "INTEL" /\ Find(GuardVerified) # 0 =>
    Find(GuardEnabled) # 0 /\ FoundResult(Find(GuardEnabled)) # "not-supported"

\* The last row warns only if some weak record is not shown, and is ok only if
\* all of them are: then each is the first record of an id that was asked for,
\* and its row is not a skip, Boot Guard's row provided that Enabled applies.
LastRowIsExact ==
  pc = "counted" =>
    /\ rows[UnmappedRow].state \in {"OK", "WARN"}
    /\ rows[UnmappedRow].state = "WARN" => Weak \ Shown # {}
    /\ rows[UnmappedRow].state = "OK" =>
         \A i \in Weak :
           /\ report[i].id \in Asked /\ Find(report[i].id) = i
           /\ report[i].id \notin Guarded => rows[report[i].id].state # "SKIP"
           /\ report[i].id \in Guarded /\ BootGuardApplicable =>
                rows[GuardRow].state # "SKIP"

LEMMA RowsAreReadStep == RowsAreRead /\ [Next]_vars => RowsAreRead'
<1> SUFFICES ASSUME RowsAreRead, [Next]_vars PROVE RowsAreRead'
  OBVIOUS
<1>1. ASSUME UNCHANGED <<report, borrowed, vendor>>
      PROVE  UNCHANGED <<HsiNames, Hidden, BootGuardRow>> /\ \A n : HsiRow(n)' = HsiRow(n)
  <2>1. report' = report /\ borrowed' = borrowed /\ vendor' = vendor
    BY <1>1
  <2>2. \A id : Find(id)' = Find(id) /\ FoundResult(id)' = FoundResult(id)
    BY <2>1 DEF Find, FoundResult
  <2>3. UNCHANGED <<HsiNames, Asked>>
    BY <2>1 DEF HsiNames, Mapped, Asked, Guarded
  <2>4. \A n : HsiRow(n)' = HsiRow(n)
    BY <2>1 DEF HsiRow, Find, FoundResult
  <2>5. UNCHANGED BootGuardRow
    BY <2>1 DEF BootGuardRow, Find, FoundResult
  <2>6. UNCHANGED Hidden
    BY <2>1 DEF Hidden, NotPassing, NotSupported, ReportedWeak, Marked, MarkedInapplicable,
                Asked, Mapped, Guarded, Find, FoundResult
  <2> QED BY <2>3, <2>4, <2>5, <2>6
<1>2. CASE UNCHANGED checkVars
  <2>1. UNCHANGED <<pc, rows, report, borrowed, vendor>>
    BY <1>2 DEF checkVars, hsiVars
  <2> QED BY <1>1, <2>1 DEF RowsAreRead
<1>3. CASE EmitAttributes
  <2>1. UNCHANGED <<report, borrowed, vendor>>
    BY <1>3 DEF EmitAttributes
  <2>2. rows' = [n \in HsiNames |->
           IF n = UnmappedRow THEN Row(IF Hidden > 0 THEN "WARN" ELSE "OK")
           ELSE IF n = GuardRow THEN BootGuardRow
           ELSE HsiRow(n)]
    BY <1>3 DEF EmitAttributes
  <2> QED BY <1>1, <2>1, <2>2 DEF RowsAreRead
<1>4. CASE Start \/ ProbeTimer \/ AskFwupdmgr \/ CaptureReport \/ Finish
             \/ EmitUnit("service", ServiceRow, "timer")
             \/ EmitUnit("timer probe", TimerRow, "fwupdmgr")
  <2>1. pc' # "counted"
    BY <1>4 DEF Start, ProbeTimer, AskFwupdmgr, CaptureReport, Finish, EmitUnit
  <2> QED BY <2>1 DEF RowsAreRead
<1> QED BY <1>2, <1>3, <1>4 DEF Next, Returned, vars

\* "HSI: unmapped attributes" is exact in both directions: it warns only of a
\* record that no row above speaks of, and if it is ok every attribute not
\* passing is the one its row was read from.  The text at check_fwupd.c:459 is
\* thus true of every report in which Boot Guard's Verified comes with an
\* Enabled that applies, and of every processor that is not Intel's.
THEOREM LastRowExact ==
  Spec => [](LastRowIsExact /\ (BootGuardApplicable => ReportedAbove))
<1>1. ASSUME CheckInv, RowsAreRead, pc = "counted" PROVE LastRowIsExact
  <2>1. report \in Seq(HsiRecord)
    <3>1. report \in Reports \cup {<<>>} /\ <<>> \in Seq(HsiRecord)
      BY <1>1 DEF CheckInv, CheckTypes
    <3> QED BY <3>1, ReportsAssumption
  <2>2. /\ UnmappedRow \in HsiNames
        /\ rows[UnmappedRow] = Row(IF Hidden > 0 THEN "WARN" ELSE "OK")
    BY <1>1 DEF RowsAreRead, HsiNames
  <2>3. Row("WARN").state = "WARN" /\ Row("OK").state = "OK"
    BY DEF Row
  <2>4. Hidden = Cardinality(Weak \ Shown) /\ Hidden \in Nat
    BY <2>1, HiddenCounted
  <2>5. rows[UnmappedRow].state = "WARN" => Weak \ Shown # {}
    BY <2>2, <2>3, <2>4, FS_EmptySet
  <2>6. ASSUME rows[UnmappedRow].state = "OK", NEW i \in Weak
        PROVE  /\ report[i].id \in Asked /\ Find(report[i].id) = i
               /\ report[i].id \notin Guarded => rows[report[i].id].state # "SKIP"
               /\ report[i].id \in Guarded /\ BootGuardApplicable =>
                    rows[GuardRow].state # "SKIP"
    <3>1. Weak \ Shown = {}
      <4>1. IsFiniteSet(Weak \ Shown)
        BY <2>1, ReportFinite, FS_Subset
      <4>2. Hidden = 0
        BY <2>2, <2>3, <2>4, <2>6
      <4> QED BY <2>4, <4>1, <4>2, FS_EmptySet
    <3>2. PICK id \in Asked : Find(id) = i /\ FoundResult(i) # "not-supported"
      BY <2>6, <3>1 DEF Shown
    <3>3. i # 0
      BY <2>1, <2>6, ReportFinite DEF Weak, NotPassing
    <3>4. report[i].id = id
      BY <2>1, <3>2, <3>3, FindFirst
    <3>5. id \notin Guarded => rows[id].state # "SKIP"
      <4> SUFFICES ASSUME id \notin Guarded PROVE rows[id].state # "SKIP"
        OBVIOUS
      <4>1. id \in Mapped /\ id \in HsiNames
        BY <3>2 DEF Asked, HsiNames
      <4>2. id # UnmappedRow /\ id # GuardRow
        BY <4>1, RowNamesAssumption DEF Mapped
      <4>3. rows[id] = HsiRow(id)
        BY <1>1, <4>1, <4>2 DEF RowsAreRead
      <4> QED BY <2>3, <3>2, <3>3, <4>3 DEF HsiRow
    <3>6. id \in Guarded /\ BootGuardApplicable => rows[GuardRow].state # "SKIP"
      <4> SUFFICES ASSUME id \in Guarded, BootGuardApplicable PROVE rows[GuardRow].state # "SKIP"
        OBVIOUS
      <4>1. vendor = "INTEL" /\ id \in {GuardEnabled, GuardVerified}
        BY DEF Guarded
      <4>2. GuardRow \in HsiNames /\ GuardRow # UnmappedRow
        BY <4>1 DEF HsiNames, GuardRow, UnmappedRow
      <4>3. rows[GuardRow] = BootGuardRow
        BY <1>1, <4>2 DEF RowsAreRead
      <4>4. Find(GuardEnabled) # 0 /\ FoundResult(Find(GuardEnabled)) # "not-supported"
        BY <3>2, <3>3, <4>1 DEF BootGuardApplicable
      <4> QED BY <2>3, <4>3, <4>4 DEF BootGuardRow
    <3> QED BY <3>2, <3>4, <3>5, <3>6
  <2> QED BY <2>2, <2>3, <2>5, <2>6 DEF LastRowIsExact
<1>2. CheckInv /\ RowsAreRead => LastRowIsExact
  BY <1>1 DEF LastRowIsExact
<1>3. LastRowIsExact => (BootGuardApplicable => ReportedAbove)
  BY DEF LastRowIsExact, ReportedAbove
<1>4. Init => RowsAreRead
  BY DEF Init, RowsAreRead
<1> QED BY <1>2, <1>3, <1>4, RowsAreReadStep, CheckInitially, CheckStep, PTL DEF Spec
=============================================================================
