--------------------------- MODULE SideloadRelay ---------------------------
(***************************************************************************)
(* The Sideload Relay in the middle of its uploads.  It takes a build from *)
(* an IDE as if it were a Roku, fans it out to its targets, and in the     *)
(* meantime plays the device's debug session to the IDE: it relays the     *)
(* console of one local target (the tap) and, when that reports that the   *)
(* channel is up, or after a while, ends the session.                      *)
(*                                                                         *)
(* An upload is answered at once, so the next one may come while fan-outs  *)
(* are in flight.  Timers are only set and cleared by the code modelled    *)
(* here; when they fire is up to the event loop.                           *)
(***************************************************************************)
EXTENDS Naturals, FiniteSets

CONSTANTS
  MaxUploads,    \* bound: builds the IDE sends
  Targets,       \* enabled targets
  LocalTarget    \* the one whose console can be tapped

ASSUME UploadsAssumption == MaxUploads \in Nat /\ LocalTarget \in Targets

Runs == 1..MaxUploads

VARIABLES
  uploads,       \* runs so far; the last of them is lastRun
  fanouts,       \* runs whose fan-out is in flight
  unsettled,     \* per run, its targets without a final result
  lastResults,   \* per target, the install state in the map
  tap, tapTimer, \* deviceTapUnsub and deviceTapTimer
  appRunning,    \* of the debug endpoints: the IDE takes a channel to be running
  runEnterTimer,
  endArmed, endGraceTimer, endCapTimer, endEmitTimer,
  lostCaps       \* cap timers set and no longer referred to

relayRunVars == <<uploads, fanouts, unsettled, lastResults, tap, tapTimer, appRunning,
                  runEnterTimer, endArmed, endGraceTimer, endCapTimer, endEmitTimer,
                  lostCaps>>

RelayRunTypeOK ==
  /\ uploads \in 0..MaxUploads /\ fanouts \subseteq 1..uploads
  /\ unsettled \in [Runs -> SUBSET Targets]
  /\ lastResults \in [Targets -> {"none", "pending", "ok", "error"}]
  /\ lostCaps \in 0..MaxUploads
  /\ {tap, tapTimer, appRunning, runEnterTimer, endArmed, endGraceTimer, endCapTimer,
      endEmitTimer} \subseteq BOOLEAN

RelayRunInit ==
  /\ uploads = 0 /\ fanouts = {} /\ unsettled = [r \in Runs |-> {}]
  /\ lastResults = [t \in Targets |-> "none"]
  /\ tap = FALSE /\ tapTimer = FALSE /\ appRunning = FALSE /\ runEnterTimer = FALSE
  /\ endArmed = FALSE /\ endGraceTimer = FALSE /\ endCapTimer = FALSE
  /\ endEmitTimer = FALSE /\ lostCaps = 0

-----------------------------------------------------------------------------
\* Fault: the timer that emits the end is not cleared.
ResetKeepingEmit(emit) ==
  /\ endArmed' = FALSE /\ endGraceTimer' = FALSE /\ endCapTimer' = FALSE
  /\ endEmitTimer' = (endEmitTimer \/ emit)

\* resetEndState, then endEmitTimer is set or not.
ResetEndState(emit) ==
  /\ endArmed' = FALSE /\ endGraceTimer' = FALSE /\ endCapTimer' = FALSE
  /\ endEmitTimer' = emit

\* handleUpload, up to the fan-out: the tap follows the local target, if it is among
\* the targets, and then the channel counts as running.
Upload ==
  /\ uploads < MaxUploads
  /\ uploads' = uploads + 1
  /\ fanouts' = fanouts \cup {uploads'}
  /\ lastResults' = [t \in Targets |-> "none"]
  /\ ResetEndState(FALSE)
  /\ \E targets \in SUBSET Targets :
       /\ unsettled' = [unsettled EXCEPT ![uploads'] = targets]
       /\ tap' = (LocalTarget \in targets) /\ tapTimer' = (LocalTarget \in targets)
       /\ appRunning' = (appRunning \/ tap')
       /\ runEnterTimer' = (runEnterTimer /\ ~tap')
  /\ UNCHANGED lostCaps

ResultOf(t, states) ==
  /\ \E state \in states : lastResults' = [lastResults EXCEPT ![t] = state]
  /\ UNCHANGED <<uploads, fanouts, tap, tapTimer, appRunning, runEnterTimer, endArmed,
                 endGraceTimer, endCapTimer, endEmitTimer, lostCaps>>

\* runFanout reports a target, before and after its install, and settles it.  The
\* result goes to the one map, whatever run it is of.
OnDeviceProgress(r, t) ==
  /\ r \in fanouts /\ t \in unsettled[r]
  /\ ResultOf(t, {"pending", "ok", "error"})
  /\ UNCHANGED unsettled

OnDeviceDone(r, t) ==
  /\ r \in fanouts /\ t \in unsettled[r]
  /\ unsettled' = [unsettled EXCEPT ![r] = @ \ {t}]
  /\ ResultOf(t, {"ok", "error"})

\* Fault: a tapped run has its end left to the console of the device.
CapWithoutTap == endCapTimer' = (endCapTimer \/ ~tap) /\ UNCHANGED lostCaps

\* A cap that is still set is set beside the new one.
SetEndCap ==
  /\ endCapTimer' = TRUE
  /\ lostCaps' = IF endCapTimer THEN lostCaps + 1 ELSE lostCaps

\* The fan-out of a run has resolved: without a tap the launch is signalled here.
FanoutDone(r) ==
  /\ r \in fanouts /\ unsettled[r] = {}
  /\ fanouts' = fanouts \ {r}
  /\ \/ /\ \E t \in Targets : lastResults[t] = "ok"
        /\ SetEndCap
        /\ appRunning' = (appRunning \/ ~tap)
        /\ runEnterTimer' = (runEnterTimer \/ ~tap)
     \/ /\ \A t \in Targets : lastResults[t] # "ok"
        /\ UNCHANGED <<endCapTimer, lostCaps, appRunning, runEnterTimer>>
  /\ UNCHANGED <<uploads, unsettled, lastResults, tap, tapTimer, endArmed, endGraceTimer,
                 endEmitTimer>>

-----------------------------------------------------------------------------
\* watchForLaunchComplete: the tapped console reports the channel up, after the replay
\* of older output.
LaunchComplete ==
  /\ tap /\ ~endArmed
  /\ endArmed' = TRUE /\ endGraceTimer' = TRUE
  /\ UNCHANGED <<uploads, fanouts, unsettled, lastResults, tap, tapTimer, appRunning,
                 runEnterTimer, endCapTimer, endEmitTimer, lostCaps>>

\* endIdeSession: the tap goes quiet before the end is emitted.
EndIdeSession ==
  /\ ResetEndState(TRUE)
  /\ tap' = FALSE /\ tapTimer' = FALSE
  /\ UNCHANGED <<uploads, fanouts, unsettled, lastResults, appRunning, runEnterTimer>>

\* The IDE's Stop, which comes as a Home key.
HomePress == EndIdeSession /\ UNCHANGED lostCaps

\* The timers that end the session.
EndTimer == (endGraceTimer \/ endCapTimer) /\ EndIdeSession /\ UNCHANGED lostCaps

\* A lost cap fires; it forgets the newer cap before that could be cleared.
LostCapTimer ==
  /\ lostCaps > 0
  /\ lostCaps' = IF endCapTimer THEN lostCaps ELSE lostCaps - 1
  /\ EndIdeSession

\* endSession of the debug endpoints: nothing unless a channel is running.
EmitTimer ==
  /\ endEmitTimer
  /\ endEmitTimer' = FALSE /\ runEnterTimer' = FALSE
  /\ appRunning' = FALSE
  /\ UNCHANGED <<uploads, fanouts, unsettled, lastResults, tap, tapTimer, endArmed,
                 endGraceTimer, endCapTimer, lostCaps>>

RunEnterTimer ==
  /\ runEnterTimer /\ runEnterTimer' = FALSE
  /\ UNCHANGED <<uploads, fanouts, unsettled, lastResults, tap, tapTimer, appRunning,
                 endArmed, endGraceTimer, endCapTimer, endEmitTimer, lostCaps>>

TapTimer ==
  /\ tapTimer /\ tap' = FALSE /\ tapTimer' = FALSE
  /\ UNCHANGED <<uploads, fanouts, unsettled, lastResults, appRunning, runEnterTimer,
                 endArmed, endGraceTimer, endCapTimer, endEmitTimer, lostCaps>>

RelayRunNext ==
  \/ Upload \/ LaunchComplete \/ HomePress \/ EndTimer \/ LostCapTimer \/ EmitTimer
  \/ RunEnterTimer \/ TapTimer
  \/ \E r \in Runs :
       \/ FanoutDone(r)
       \/ \E t \in Targets : OnDeviceProgress(r, t) \/ OnDeviceDone(r, t)

\* The timers that end a session fire.
RelayRunFairness ==
  WF_relayRunVars(EndTimer) /\ WF_relayRunVars(LostCapTimer) /\ WF_relayRunVars(EmitTimer)

RelayRunSpec == RelayRunInit /\ [][RelayRunNext]_relayRunVars /\ RelayRunFairness

-----------------------------------------------------------------------------
\* The end of a session is emitted into silence: the tap is off, whichever timer or key
\* ended the session and whatever upload came in between.
EndsInSilence == [][appRunning /\ ~appRunning' => ~tap]_relayRunVars

\* A session whose build was installed somewhere does not stay for ever, even if the
\* device never reports that it is up, unless another upload takes it over.
InstalledRunEnds ==
  []<>(~appRunning \/ fanouts # {} \/ \A t \in Targets : lastResults[t] # "ok")
=============================================================================
