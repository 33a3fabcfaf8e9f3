---------------------------- MODULE ServiceProbe ----------------------------
(***************************************************************************)
(* bythos_probe_systemd_service (src/src/runtime.c): is a unit active,     *)
(* installed but inactive, or missing?  Two runs of systemctl answer, one  *)
(* after the other, and the unit may change before, between and after.     *)
(*                                                                         *)
(* The helper runs are calls of CaptureContract: what this module shows of *)
(* the probe rests on that contract and on nothing else about Capture.     *)
(* systemctl and the unit are external: a unit is started only if it is    *)
(* loaded, is-active answers with its exit status and show with its text.  *)
(***************************************************************************)
EXTENDS Integers, Rows

CONSTANTS
  QuietSize,   \* sizeof(throwaway) in bythos_run_argv_quiet
  LoadSize,    \* sizeof(load_buf)
  NotFound,    \* length of the answer "not-found"
  Statuses     \* exit statuses of systemctl: 0, and others for "no" and errors

ASSUME ProbeAssumption ==
  /\ QuietSize \in Nat \ {0} /\ LoadSize \in Nat \ {0}
  /\ NotFound \in Nat \ {0} /\ NotFound < LoadSize
  /\ {0, 3} \subseteq Statuses /\ Statuses \subseteq 0..255

VARIABLES
  phase, live, fate, written, size, ok, exitStatus, output, truncated, timedOut,
  probe,      \* "off", "is-active", "show" or "returned"
  service,    \* bythos_service_state_t, once returned
  loaded,     \* LoadState of the unit is not "not-found"
  active,     \* ActiveState of the unit is "active"
  answered,   \* what show found of LoadState: BOOLEAN, read when it wrote
  past,       \* history: the unit's states since the probe began
  failing     \* history: systemctl failed to ask, or answered too late

captureVars == <<phase, live, fate, written, size, ok, exitStatus, output, truncated, timedOut>>
unitVars == <<loaded, active>>
probeVars == <<probe, service, answered, past, failing>>

Helper == INSTANCE CaptureContract WITH Sizes <- {QuietSize, LoadSize}

ServiceStates == {"UNKNOWN", "SYSTEMCTL_UNAVAILABLE", "ACTIVE", "INACTIVE", "MISSING"}
-----------------------------------------------------------------------------
(***************************************************************************)
(* The probe.                                                              *)
(***************************************************************************)

Return(s) == probe' = "returned" /\ service' = s

\* command_exists("systemctl"), and the first call if it does.  The unit may be
\* in any state when the probe begins.
BeginProbe ==
  /\ probe = "off"
  /\ loaded' \in BOOLEAN /\ active' \in BOOLEAN
  /\ past' = {[loaded |-> loaded', active |-> active']}
  /\ failing' = FALSE
  /\ \/ /\ Return("SYSTEMCTL_UNAVAILABLE")
        /\ UNCHANGED captureVars
     \/ /\ probe' = "is-active"
        /\ Helper!Begin /\ size' = QuietSize
        /\ UNCHANGED service
  /\ UNCHANGED answered

\* Mutant of ReadActive: a capture that failed counts as "not active".
ReadActiveIgnoringFailure ==
  /\ probe = "is-active"
  /\ phase = "idle"
  /\ \/ /\ ok /\ exitStatus = 0
        /\ Return("ACTIVE")
        /\ UNCHANGED captureVars
     \/ /\ ~(ok /\ exitStatus = 0)
        /\ probe' = "show"
        /\ Helper!Begin /\ size' = LoadSize
        /\ UNCHANGED service
  /\ UNCHANGED <<unitVars, answered, past, failing>>

\* The result of bythos_run_argv_quiet: zero, negative, or any other status,
\* after which show is run.
ReadActive ==
  /\ probe = "is-active"
  /\ phase = "idle"
  /\ \/ /\ ok /\ exitStatus = 0
        /\ Return("ACTIVE")
        /\ UNCHANGED captureVars
     \/ /\ ~ok
        /\ Return("UNKNOWN")
        /\ UNCHANGED captureVars
     \/ /\ ok /\ exitStatus # 0
        /\ probe' = "show"
        /\ Helper!Begin /\ size' = LoadSize
        /\ UNCHANGED service
  /\ UNCHANGED <<unitVars, answered, past, failing>>

\* strcmp(load_state, "not-found") == 0: the whole word was captured.
SaysNotFound == ~answered /\ output = Helper!Prefix(NotFound)

ReadShow ==
  /\ probe = "show"
  /\ phase = "idle"
  /\ Return(IF ~ok \/ exitStatus # 0 THEN "UNKNOWN"
            ELSE IF SaysNotFound THEN "MISSING"
            ELSE "INACTIVE")
  /\ UNCHANGED <<captureVars, unitVars, answered, past, failing>>

\* The locals of the probe, and of the captures it made, die when it returns.
EndProbe ==
  /\ probe = "returned"
  /\ probe' = "off"
  /\ service' = "UNKNOWN"
  /\ loaded' = FALSE
  /\ active' = FALSE
  /\ answered' = FALSE
  /\ past' = {}
  /\ failing' = FALSE
  /\ fate' = Helper!NoFate
  /\ written' = 0
  /\ size' = 0
  /\ Helper!ClearResult
  /\ UNCHANGED <<phase, live>>

\* The capture returns.  A late success is one the alarm cut short.
CaptureReturns ==
  /\ \/ Helper!Fail /\ UNCHANGED failing
     \/ \E k \in 0..written, late \in BOOLEAN :
          /\ Helper!Succeed(k, late)
          /\ failing' = (failing \/ late)
  /\ UNCHANGED <<probe, service, answered, past, unitVars>>
-----------------------------------------------------------------------------
(***************************************************************************)
(* systemctl.                                                              *)
(***************************************************************************)

StartSystemctl ==
  /\ Helper!Start
  /\ UNCHANGED <<probeVars, unitVars>>

\* is-active looks at the unit and ends with the answer.
AnswerActive ==
  /\ probe = "is-active"
  /\ Helper!End(IF active THEN 0 ELSE 3)
  /\ UNCHANGED <<probeVars, unitVars>>

\* show looks at the unit, writes what it saw (other states than "not-found"
\* are abstracted to as many bytes of another word) and ends.
AnswerShow ==
  /\ probe = "show"
  /\ live
  /\ \/ /\ written < NotFound
        /\ Helper!Output
        /\ answered' = IF written = 0 THEN loaded ELSE answered
     \/ /\ written = NotFound
        /\ Helper!End(0)
        /\ UNCHANGED answered
  /\ UNCHANGED <<probe, service, past, failing, unitVars>>

\* systemctl cannot ask (no bus, not executable) or is killed.
SystemctlFails ==
  /\ \E f \in (Statuses \ {0}) \cup {Helper!Signalled} : Helper!End(f)
  /\ failing' = TRUE
  /\ UNCHANGED <<probe, service, answered, past, unitVars>>
-----------------------------------------------------------------------------
\* The unit is installed or removed, started (only if loaded) or stopped, by
\* anybody.
UnitChanges ==
  /\ probe \in {"is-active", "show"}
  /\ \/ loaded' = ~loaded /\ UNCHANGED active
     \/ active' = ~active /\ UNCHANGED loaded /\ (active' => loaded)
  /\ past' = past \cup {[loaded |-> loaded', active |-> active']}
  /\ UNCHANGED <<captureVars, probe, service, answered, failing>>

ProbeInit ==
  /\ Helper!Init
  /\ probe = "off"
  /\ service = "UNKNOWN"
  /\ loaded = FALSE
  /\ active = FALSE
  /\ answered = FALSE
  /\ past = {}
  /\ failing = FALSE

ProbeNext ==
  \/ ReadActive \/ ReadShow \/ CaptureReturns
  \/ StartSystemctl \/ AnswerActive \/ AnswerShow \/ SystemctlFails
  \/ UnitChanges
-----------------------------------------------------------------------------
(***************************************************************************)
(* Properties.                                                             *)
(***************************************************************************)

\* The unit was active; loaded and not active; not loaded.
WasTrue(s) ==
  \E u \in past : \/ s = "ACTIVE" /\ u.active
                  \/ s = "INACTIVE" /\ u.loaded /\ ~u.active
                  \/ s = "MISSING" /\ ~u.loaded

\* The state a probe reports is one the unit was in at some moment of the probe,
\* although it is pieced together from two answers given at different moments:
\* "running" and "not installed" always, "installed but inactive" unless
\* systemctl itself failed or was cut short.
ProbeTrueAtSomeMoment ==
  probe = "returned" =>
    /\ service \in {"ACTIVE", "MISSING"} => WasTrue(service)
    /\ service = "INACTIVE" /\ ~failing => WasTrue("INACTIVE")
=============================================================================
