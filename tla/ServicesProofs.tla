--------------------------- MODULE ServicesProofs ---------------------------
(***************************************************************************)
(* What the remaining parts of MCServices promise, each for any values of  *)
(* its constants: RceVideo, SideloadRelay and DetailStore; and that in the *)
(* composition every one of the six parts keeps its types.                 *)
(***************************************************************************)
EXTENDS MCServices, ConsolePoolsProofs, RelayConsoleProofs, FiniteSetTheorems

-----------------------------------------------------------------------------
(***************************************************************************)
(* RceVideo, for any sessions and any signalling clients.  The invariants  *)
(* rest on a pairing: a client with an open socket is the present client   *)
(* of the session it was made for, and the other way round; and on a       *)
(* session being in one of four positions: looking the device up, waiting  *)
(* to retry, with a client, or at rest.                                    *)
(***************************************************************************)
Statuses == {"none", "connecting", "reconnecting", "stopped", "error", "offer"}
LookupEnds == {"none", "gone", "failed", "threw"}

\* Only the session in the map is going; one that is not has no timer and no client.
OnlyPreviewGoes ==
  \A p \in Previews :
    /\ p # preview => stopped[p]
    /\ stopped[p] => retryTimers[p] = 0 /\ signaler[p] = Nothing

\* Sessions and open clients are paired.
Paired ==
  /\ \A c \in Signalers : stage[c] # "closed" => ownerOf[c] \in Previews /\ signaler[ownerOf[c]] = c
  /\ \A p \in Previews : signaler[p] # Nothing =>
       stage[signaler[p]] # "closed" /\ ownerOf[signaler[p]] = p

\* The positions of a session.
Resting(p) == lookups[p] = 0 /\ retryTimers[p] = 0 /\ signaler[p] = Nothing
LooksUp(p) == lookups[p] = 1 /\ retryTimers[p] = 0 /\ signaler[p] = Nothing
Waits(p) == lookups[p] = 0 /\ retryTimers[p] = 1 /\ signaler[p] = Nothing
HasClient(p) == lookups[p] = 0 /\ retryTimers[p] = 0 /\ signaler[p] # Nothing

\* The device's session rests only if a lookup has ended it, or if it was told that
\* there is no account.
Positions ==
  \A p \in Previews :
    /\ Resting(p) \/ LooksUp(p) \/ Waits(p) \/ HasClient(p)
    /\ Resting(p) => p # preview \/ lookupEnd[p] # "none" \/ status[p] = "error"
    /\ p = preview /\ stopped[p] => lookupEnd[p] # "none"

VideoInv == VideoTypeOK /\ OnlyPreviewGoes /\ Paired /\ Positions

USE VideoAssumption DEF VideoAssumption

LEMMA VideoInitInv == VideoInit => VideoInv
  BY DEF VideoInit, VideoInv, VideoTypeOK, Stages, OnlyPreviewGoes, Paired, Positions, Resting,
     LooksUp, Waits, HasClient

\* Stopping a client keeps the types of stage and keepalive.
LEMMA StoppedTypes ==
  ASSUME VideoTypeOK, NEW c, Stopped(c)
  PROVE  stage' \in [Signalers -> Stages] /\ keepalive' \in [Signalers -> BOOLEAN]
<1>1. stage' \in [Signalers -> Stages]
  BY DEF VideoTypeOK, Stopped, Stages
<1>2. keepalive' \in [Signalers -> BOOLEAN]
  BY Zenon DEF VideoTypeOK, Stopped
<1>3. QED
  BY <1>1, <1>2

\* So does stopping a session.
LEMMA StopSessionTypes ==
  ASSUME VideoTypeOK, NEW p \in Previews \cup {Nothing}, StopSession(p)
  PROVE  /\ preview' \in Previews \cup {Nothing} /\ stopped' \in [Previews -> BOOLEAN]
         /\ retryTimers' \in [Previews -> Nat]
         /\ signaler' \in [Previews -> Signalers \cup {Nothing}]
         /\ stage' \in [Signalers -> Stages] /\ keepalive' \in [Signalers -> BOOLEAN]
         /\ ownerOf' \in [Signalers -> Previews \cup {Nothing}]
<1>1. stopped' \in [Previews -> BOOLEAN]
  BY Zenon DEF StopSession
<1>2. stage' \in [Signalers -> Stages] /\ keepalive' \in [Signalers -> BOOLEAN]
  BY StoppedTypes DEF StopSession
<1>3. QED
  BY <1>1, <1>2 DEF VideoTypeOK, StopSession

\* The types, kept by every step.
LEMMA VideoTypeStep == VideoTypeOK /\ [VideoNext]_videoVars => VideoTypeOK'
<1> SUFFICES ASSUME VideoTypeOK, [VideoNext]_videoVars PROVE VideoTypeOK'
  OBVIOUS
<1> USE DEF VideoTypeOK, Stages, Statuses, LookupEnds
<1>1. CASE UNCHANGED videoVars
  BY <1>1 DEF videoVars
<1>2. CASE VideoStop
  BY <1>2, StopSessionTypes DEF VideoStop
<1>3. ASSUME NEW p \in Previews, VideoStart(p) PROVE VideoTypeOK'
  <2>1. lookups' \in [Previews -> Nat]
    BY <1>3 DEF VideoStart, StartSession
  <2>2. status' \in [Previews -> Statuses]
    BY <1>3 DEF VideoStart, StartSession
  <2>3. QED
    BY <1>3, <2>1, <2>2, StopSessionTypes DEF VideoStart
<1>4. ASSUME NEW p \in Previews, RetryTimer(p) PROVE VideoTypeOK'
  BY <1>4 DEF RetryTimer, StartSession
<1>5. ASSUME NEW p \in Previews, LookupTooLate(p) \/ LookupGone(p) \/ LookupThrew(p)
      PROVE  VideoTypeOK'
  <2>1. lookups' \in [Previews -> Nat]
    BY <1>5 DEF LookupTooLate, LookupGone, LookupThrew, Answered
  <2>2. stopped' \in [Previews -> BOOLEAN]
    BY <1>5, Zenon DEF LookupTooLate, LookupGone, LookupThrew
  <2>3. status' \in [Previews -> Statuses]
    BY <1>5 DEF LookupTooLate, LookupGone, LookupThrew
  <2>4. lookupEnd' \in [Previews -> LookupEnds]
    BY <1>5 DEF LookupTooLate, LookupGone, LookupThrew
  <2>5. QED
    BY <1>5, <2>1, <2>2, <2>3, <2>4 DEF LookupTooLate, LookupGone, LookupThrew
<1>6. ASSUME NEW p \in Previews, NEW c \in Signalers, LookupRunning(p, c) PROVE VideoTypeOK'
  BY <1>6 DEF LookupRunning, Answered
<1>7. ASSUME NEW c \in Signalers, Negotiate(c) PROVE VideoTypeOK'
  BY <1>7 DEF Negotiate
<1>8. ASSUME NEW c \in Signalers, Offered(c) PROVE VideoTypeOK'
  BY <1>8 DEF Offered
<1>9. ASSUME NEW c \in Signalers, NegotiationFailed(c) PROVE VideoTypeOK'
  <2>1. stage' \in [Signalers -> Stages] /\ keepalive' \in [Signalers -> BOOLEAN]
    BY <1>9, StoppedTypes DEF NegotiationFailed
  <2>2. UNCHANGED <<preview, stopped, lookups, ownerOf>>
    BY <1>9 DEF NegotiationFailed
  <2>3. ownerOf[c] \in Previews =>
          /\ signaler' \in [Previews -> Signalers \cup {Nothing}]
          /\ retryTimers' \in [Previews -> Nat]
          /\ status' \in [Previews -> Statuses]
    BY <1>9 DEF NegotiationFailed, ScheduleReconnect
  <2>4. QED
    BY <1>9, <2>1, <2>2, <2>3 DEF NegotiationFailed, ScheduleReconnect
<1>10. ASSUME NEW c \in Signalers, SignalingLost(c) PROVE VideoTypeOK'
  <2>1. stage' \in [Signalers -> Stages] /\ keepalive' \in [Signalers -> BOOLEAN]
    BY <1>10, StoppedTypes DEF SignalingLost
  <2>2. UNCHANGED <<preview, stopped, lookups, ownerOf>>
    BY <1>10 DEF SignalingLost
  <2>3. ownerOf[c] \in Previews =>
          /\ signaler' \in [Previews -> Signalers \cup {Nothing}]
          /\ retryTimers' \in [Previews -> Nat]
          /\ status' \in [Previews -> Statuses]
    BY <1>10 DEF SignalingLost, ScheduleReconnect
  <2>4. QED
    BY <1>10, <2>1, <2>2, <2>3 DEF SignalingLost, ScheduleReconnect
<1>11. QED
  BY <1>1, <1>2, <1>3, <1>4, <1>5, <1>6, <1>7, <1>8, <1>9, <1>10 DEF VideoNext

LEMMA VideoInvStep == VideoInv /\ [VideoNext]_videoVars => VideoInv'
<1> SUFFICES ASSUME VideoInv, [VideoNext]_videoVars PROVE VideoInv'
  OBVIOUS
<1>t. VideoTypeOK /\ VideoTypeOK'
  BY VideoTypeStep DEF VideoInv
<1> DEFINE Rest == OnlyPreviewGoes /\ Paired /\ Positions
<1> SUFFICES Rest'
  BY <1>t DEF VideoInv
<1> USE <1>t DEF VideoInv, VideoTypeOK, Stages, OnlyPreviewGoes, Paired, Positions, Resting,
             LooksUp, Waits, HasClient
<1>1. CASE UNCHANGED videoVars
  BY <1>1 DEF videoVars
<1>2. ASSUME VideoStop PROVE Rest'
  <2>1. \A q \in Previews : stopped'[q] <=> q = preview \/ stopped[q]
    <3>1. \A q \in Previews : q # Nothing
      OBVIOUS
    <3>2. StopSession(Nothing)
      BY <1>2 DEF VideoStop
    <3>3. stopped' = [q \in Previews |-> q # Nothing /\ (q = preview \/ stopped[q])]
      BY <3>2, Zenon DEF StopSession
    <3>4. QED
      BY <3>1, <3>3, Zenon
  <2>2. OnlyPreviewGoes'
    BY <1>2, <2>1 DEF VideoStop, StopSession
  <2>3. Paired'
    BY <1>2 DEF VideoStop, StopSession, Stopped
  <2>4. Positions'
    BY <1>2, <2>1 DEF VideoStop, StopSession
  <2>5. QED
    BY <2>2, <2>3, <2>4
<1>3. ASSUME NEW p \in Previews, VideoStart(p) PROVE Rest'
  <2>1. ~stopped'[p] /\ \A q \in Previews : q # p => (stopped'[q] <=> q = preview \/ stopped[q])
    <3>1. stopped' = [q \in Previews |-> q # p /\ (q = preview \/ stopped[q])]
      BY <1>3, Zenon DEF VideoStart, StopSession
    <3>2. QED
      BY <3>1, Zenon
  <2>2. OnlyPreviewGoes'
    BY <1>3, <2>1 DEF VideoStart, Forgotten, StopSession
  <2>3. Paired'
    BY <1>3 DEF VideoStart, Forgotten, StopSession, Stopped
  <2>4. Positions'
    BY <1>3, <2>1 DEF VideoStart, Forgotten, StopSession, StartSession
  <2>5. QED
    BY <2>2, <2>3, <2>4
<1>4. ASSUME NEW p \in Previews, RetryTimer(p) PROVE Rest'
  BY <1>4 DEF RetryTimer, StartSession
<1>5. ASSUME NEW p \in Previews, LookupTooLate(p) PROVE Rest'
  BY <1>5 DEF LookupTooLate, Answered
<1>6. ASSUME NEW p \in Previews, LookupGone(p) \/ LookupThrew(p) PROVE Rest'
  BY <1>6 DEF LookupGone, LookupThrew, Answered
<1>7. ASSUME NEW p \in Previews, NEW c \in Signalers, LookupRunning(p, c) PROVE Rest'
  BY <1>7 DEF LookupRunning, Answered, Connects
<1>8. ASSUME NEW c \in Signalers, Negotiate(c) PROVE Rest'
  BY <1>8 DEF Negotiate
<1>9. ASSUME NEW c \in Signalers, Offered(c) PROVE Rest'
  BY <1>9 DEF Offered
<1>10. ASSUME NEW c \in Signalers, NegotiationFailed(c) PROVE Rest'
  BY <1>10 DEF NegotiationFailed, Negotiating, Stopped, ScheduleReconnect
<1>11. ASSUME NEW c \in Signalers, SignalingLost(c) PROVE Rest'
  BY <1>11 DEF SignalingLost, Stopped, ScheduleReconnect
<1>12. QED
  BY <1>1, <1>2, <1>3, <1>4, <1>5, <1>6, <1>7, <1>8, <1>9, <1>10, <1>11 DEF VideoNext

\* Closing a client keeps its timer in step with its socket.
LEMMA StoppedKeeps ==
  ASSUME VideoTypeOK, KeepaliveHasSession, NEW d, Stopped(d)
  PROVE  KeepaliveHasSession'
<1> SUFFICES ASSUME NEW c \in Signalers
             PROVE  keepalive'[c] <=> stage'[c] \in {"attach", "watch", "streaming"}
  BY DEF KeepaliveHasSession
<1>1. CASE c = d
  <2>1. ~keepalive'[c]
    BY <1>1, Zenon DEF Stopped
  <2>2. stage'[c] = "closed"
    BY <1>1 DEF Stopped
  <2>3. QED
    BY <2>1, <2>2
<1>2. CASE c # d
  <2>1. keepalive'[c] <=> keepalive[c]
    BY <1>2, Zenon DEF Stopped
  <2>2. stage'[c] = stage[c]
    BY <1>2 DEF Stopped
  <2>3. QED
    BY <2>1, <2>2, Zenon DEF KeepaliveHasSession
<1>3. QED
  BY <1>1, <1>2

LEMMA KeepaliveStep ==
  VideoTypeOK /\ KeepaliveHasSession /\ [VideoNext]_videoVars => KeepaliveHasSession'
<1> SUFFICES ASSUME VideoTypeOK, KeepaliveHasSession, [VideoNext]_videoVars
             PROVE  KeepaliveHasSession'
  OBVIOUS
<1>1. ASSUME UNCHANGED <<stage, keepalive>> PROVE KeepaliveHasSession'
  BY <1>1, Zenon DEF KeepaliveHasSession
<1>2. ASSUME NEW c \in Signalers, Negotiate(c) PROVE KeepaliveHasSession'
  <2> SUFFICES ASSUME NEW d \in Signalers
               PROVE  keepalive'[d] <=> stage'[d] \in {"attach", "watch", "streaming"}
    BY DEF KeepaliveHasSession
  <2> USE DEF KeepaliveHasSession, VideoTypeOK, Stages, Negotiate
  <2>1. CASE d # c
    BY <1>2, <2>1
  <2>2. CASE d = c /\ stage[c] = "handshake"
    BY <1>2, <2>2
  <2>3. CASE d = c /\ stage[c] = "create"
    BY <1>2, <2>3
  <2>4. CASE d = c /\ stage[c] = "attach"
    BY <1>2, <2>4
  <2>5. QED
    BY <1>2, <2>1, <2>2, <2>3, <2>4
<1>3. ASSUME NEW c \in Signalers, Offered(c) PROVE KeepaliveHasSession'
  BY <1>3 DEF Offered, KeepaliveHasSession, VideoTypeOK
<1>4. ASSUME NEW p \in Previews, NEW c \in Signalers, LookupRunning(p, c)
      PROVE  KeepaliveHasSession'
  BY <1>4 DEF LookupRunning, KeepaliveHasSession, VideoTypeOK
<1>5. ASSUME NEW c, Stopped(c) PROVE KeepaliveHasSession'
  BY <1>5, StoppedKeeps
<1>6. QED
  BY <1>1, <1>2, <1>3, <1>4, <1>5 DEF VideoNext, videoVars, VideoStop, VideoStart, StopSession,
     RetryTimer, LookupTooLate, LookupGone, LookupThrew, NegotiationFailed, SignalingLost

\* Every reachable state of a preview satisfies the invariant above.
THEOREM VideoInvariant == VideoSpec => []VideoInv
  BY VideoInitInv, VideoInvStep, PTL DEF VideoSpec

\* A stopped or replaced session keeps no timer, client or socket, whatever was in flight.
THEOREM StoppedLeavesNothingHolds == VideoSpec => []StoppedLeavesNothing
<1>1. VideoInv => StoppedLeavesNothing
  BY DEF VideoInv, VideoTypeOK, OnlyPreviewGoes, Paired, StoppedLeavesNothing
<1>2. QED
  BY <1>1, VideoInvariant, PTL

\* A session never forks into two attempts.
THEOREM OneAttemptHolds == VideoSpec => []OneAttempt
<1>1. VideoInv => OneAttempt
  BY DEF VideoInv, Positions, Resting, LooksUp, Waits, HasClient, OneAttempt
<1>2. QED
  BY <1>1, VideoInvariant, PTL

\* However its streams are lost, a preview that no lookup has ended has something under
\* way that will move it on.
THEOREM OnlyLookupEndsHolds == VideoSpec => []OnlyLookupEnds
<1>1. VideoInv => OnlyLookupEnds
  BY DEF VideoInv, VideoTypeOK, Positions, Paired, Resting, LooksUp, Waits, HasClient, OnlyLookupEnds
<1>2. QED
  BY <1>1, VideoInvariant, PTL

\* No keepalive timer outlives the socket and the Janus session it is for.
THEOREM KeepaliveHasSessionHolds == VideoSpec => []KeepaliveHasSession
<1>1. VideoInit => KeepaliveHasSession
  BY DEF VideoInit, KeepaliveHasSession
<1>2. VideoInv => VideoTypeOK
  BY DEF VideoInv
<1>3. QED
  BY <1>1, <1>2, KeepaliveStep, VideoInvariant, PTL DEF VideoSpec

-----------------------------------------------------------------------------
(***************************************************************************)
(* SideloadRelay, for any targets and any number of uploads: the end it    *)
(* plays to the IDE.                                                       *)
(***************************************************************************)
\* While the emission of the end is due, the tap is off.
EmitDueInSilence == endEmitTimer => ~tap

LEMMA InitSilence == RelayRunInit => EmitDueInSilence
  BY Zenon DEF RelayRunInit, EmitDueInSilence

LEMMA SilenceStep == EmitDueInSilence /\ [RelayRunNext]_relayRunVars => EmitDueInSilence'
<1> SUFFICES ASSUME EmitDueInSilence, [RelayRunNext]_relayRunVars PROVE EmitDueInSilence'
  OBVIOUS
<1>1. ASSUME UNCHANGED <<tap, endEmitTimer>> PROVE EmitDueInSilence'
  BY <1>1, Zenon DEF EmitDueInSilence
<1>2. ASSUME Upload PROVE EmitDueInSilence'
  BY <1>2, Zenon DEF Upload, ResetEndState, EmitDueInSilence
<1>3. ASSUME EndIdeSession PROVE EmitDueInSilence'
  BY <1>3, Zenon DEF EndIdeSession, EmitDueInSilence
<1>4. ASSUME EmitTimer \/ TapTimer PROVE EmitDueInSilence'
  BY <1>4, Zenon DEF EmitTimer, TapTimer, EmitDueInSilence
<1>5. QED
  BY <1>1, <1>2, <1>3, <1>4, Zenon DEF RelayRunNext, relayRunVars, HomePress, EndTimer,
     LostCapTimer, LaunchComplete, RunEnterTimer, FanoutDone, OnDeviceProgress, OnDeviceDone,
     ResultOf

\* The end is only ever emitted by its timer.
LEMMA OnlyEmitTimerEnds ==
  [RelayRunNext]_relayRunVars /\ appRunning /\ ~appRunning' => EmitTimer
<1> SUFFICES ASSUME [RelayRunNext]_relayRunVars, appRunning, ~appRunning' PROVE EmitTimer
  OBVIOUS
<1>1. ~UNCHANGED appRunning /\ ~UNCHANGED relayRunVars
  BY Zenon DEF relayRunVars
<1>2. ~Upload /\ \A r \in Runs : ~FanoutDone(r)
  BY Zenon DEF Upload, FanoutDone
<1>3. ~EndIdeSession
  BY <1>1, Zenon DEF EndIdeSession
<1>4. QED
  BY <1>1, <1>2, <1>3, Zenon DEF RelayRunNext, HomePress, EndTimer, LostCapTimer,
     LaunchComplete, RunEnterTimer, TapTimer, OnDeviceProgress, OnDeviceDone, ResultOf

\* No upload in between and no order of timers makes the end reach an open tap.
THEOREM EndsInSilenceHolds == RelayRunSpec => EndsInSilence
<1>1. EmitDueInSilence /\ [RelayRunNext]_relayRunVars
        => [appRunning /\ ~appRunning' => ~tap]_relayRunVars
  BY OnlyEmitTimerEnds, Zenon DEF EmitDueInSilence, EmitTimer
<1>2. QED
  BY <1>1, InitSilence, SilenceStep, PTL DEF RelayRunSpec, EndsInSilence
\* The types of the sideload relay's variables.
RunFlags ==
  /\ tap \in BOOLEAN /\ tapTimer \in BOOLEAN /\ appRunning \in BOOLEAN
  /\ runEnterTimer \in BOOLEAN /\ endArmed \in BOOLEAN /\ endGraceTimer \in BOOLEAN
  /\ endCapTimer \in BOOLEAN /\ endEmitTimer \in BOOLEAN

\* Every lost cap was lost by the end of a fan-out of its own.
CapsCounted ==
  /\ uploads \in 0..MaxUploads /\ fanouts \subseteq 1..uploads /\ lostCaps \in Nat
  /\ Cardinality(fanouts) + lostCaps <= uploads

RunTables ==
  /\ unsettled \in [Runs -> SUBSET Targets]
  /\ lastResults \in [Targets -> {"none", "pending", "ok", "error"}]

\* Timers and states stay flags.
LEMMA RunFlagsStep == RunFlags /\ [RelayRunNext]_relayRunVars => RunFlags'
<1> SUFFICES ASSUME RunFlags, [RelayRunNext]_relayRunVars  PROVE RunFlags'
  OBVIOUS
<1>1. CASE Upload
  <2>0. PICK targets \in SUBSET Targets :
          /\ tap' = (LocalTarget \in targets) /\ tapTimer' = (LocalTarget \in targets)
          /\ appRunning' = (appRunning \/ tap')
          /\ runEnterTimer' = (runEnterTimer /\ ~tap')
    BY <1>1, Zenon DEF Upload
  <2>a. (LocalTarget \in targets) \in BOOLEAN
    OBVIOUS
  <2>b. tap' \in BOOLEAN /\ tapTimer' \in BOOLEAN
    BY <2>0, <2>a
  <2>c. appRunning' \in BOOLEAN
    BY <2>0, Zenon
  <2>d. runEnterTimer' \in BOOLEAN
    BY <2>0, Zenon
  <2>1. /\ tap' \in BOOLEAN /\ tapTimer' \in BOOLEAN
        /\ appRunning' \in BOOLEAN /\ runEnterTimer' \in BOOLEAN
    BY <2>b, <2>c, <2>d
  <2> QED
    BY <1>1, <2>1, Zenon DEF Upload, ResetEndState, RunFlags
<1>2. CASE EndIdeSession
  BY <1>2, Zenon DEF EndIdeSession, ResetEndState, RunFlags
<1>3. CASE \E r \in Runs : FanoutDone(r)
  <2>1. endCapTimer' \in BOOLEAN
    BY <1>3, Zenon DEF FanoutDone, SetEndCap, RunFlags
  <2>2. appRunning' \in BOOLEAN /\ runEnterTimer' \in BOOLEAN
    BY <1>3, Zenon DEF FanoutDone, RunFlags
  <2> QED
    BY <1>3, <2>1, <2>2, Zenon DEF FanoutDone, RunFlags
<1>4. CASE LaunchComplete \/ EmitTimer \/ RunEnterTimer \/ TapTimer
  BY <1>4, Zenon DEF LaunchComplete, EmitTimer, RunEnterTimer, TapTimer, RunFlags
<1>5. CASE \E r \in Runs : \E t \in Targets : OnDeviceProgress(r, t) \/ OnDeviceDone(r, t)
  BY <1>5, Zenon DEF OnDeviceProgress, OnDeviceDone, ResultOf, RunFlags
<1>6. CASE UNCHANGED relayRunVars
  BY <1>6, Zenon DEF relayRunVars, RunFlags
<1> QED
  BY <1>1, <1>2, <1>3, <1>4, <1>5, <1>6, Zenon DEF RelayRunNext, HomePress, EndTimer, LostCapTimer

\* A fan-out that ends leaves the count of fan-outs in flight as it loses a cap.
LEMMA CapsStep == CapsCounted /\ [RelayRunNext]_relayRunVars => CapsCounted'
<1> SUFFICES ASSUME CapsCounted, [RelayRunNext]_relayRunVars  PROVE CapsCounted'
  OBVIOUS
<1>0. MaxUploads \in Nat
  BY UploadsAssumption
<1>t. /\ uploads \in 0..MaxUploads /\ uploads \in Nat /\ fanouts \subseteq 1..uploads
      /\ lostCaps \in Nat /\ Cardinality(fanouts) + lostCaps <= uploads
  BY <1>0 DEF CapsCounted
<1>f. IsFiniteSet(fanouts) /\ Cardinality(fanouts) \in Nat
  <2>1. IsFiniteSet(1..uploads)
    BY <1>t, FS_Interval
  <2> QED
    BY <2>1, <1>t, FS_Subset, FS_CardinalityType
<1>1. CASE Upload
  <2>1. /\ uploads < MaxUploads /\ uploads' = uploads + 1 /\ fanouts' = fanouts \cup {uploads + 1}
        /\ lostCaps' = lostCaps
    BY <1>1, Zenon DEF Upload
  <2>2. uploads + 1 \notin fanouts
    BY <1>t
  <2>3. Cardinality(fanouts') = Cardinality(fanouts) + 1
    BY <2>1, <2>2, <1>f, FS_AddElement
  <2>4. fanouts' \subseteq 1..uploads'
    BY <2>1, <1>t
  <2> QED
    BY <2>1, <2>3, <2>4, <1>t, <1>f, <1>0 DEF CapsCounted
<1>2. CASE \E r \in Runs : FanoutDone(r)
  <2>1. PICK r \in Runs : FanoutDone(r)
    BY <1>2
  <2>2. /\ r \in fanouts /\ fanouts' = fanouts \ {r} /\ uploads' = uploads
        /\ lostCaps' = lostCaps \/ lostCaps' = lostCaps + 1
    BY <2>1, Zenon DEF FanoutDone, SetEndCap
  <2>3. Cardinality(fanouts') = Cardinality(fanouts) - 1
    BY <2>2, <1>f, FS_RemoveElement
  <2>4. fanouts' \subseteq 1..uploads'
    BY <2>2, <1>t
  <2> QED
    BY <2>2, <2>3, <2>4, <1>t, <1>f DEF CapsCounted
<1>3. CASE LostCapTimer
  <2>1. /\ lostCaps > 0
        /\ lostCaps' = lostCaps \/ lostCaps' = lostCaps - 1
        /\ UNCHANGED <<uploads, fanouts>>
    BY <1>3 DEF LostCapTimer, EndIdeSession
  <2> QED
    BY <2>1, <1>t, <1>f DEF CapsCounted
<1>4. CASE UNCHANGED <<uploads, fanouts, lostCaps>>
  BY <1>4, <1>t DEF CapsCounted
<1> QED
  BY <1>1, <1>2, <1>3, <1>4, Zenon DEF RelayRunNext, HomePress, EndTimer, EndIdeSession,
     LaunchComplete, EmitTimer, RunEnterTimer, TapTimer, OnDeviceProgress, OnDeviceDone,
     ResultOf, relayRunVars

\* The tables of runs and targets keep their shape.
LEMMA RunTablesStep ==
  CapsCounted /\ RunTables /\ [RelayRunNext]_relayRunVars => RunTables'
<1> SUFFICES ASSUME CapsCounted, RunTables, [RelayRunNext]_relayRunVars  PROVE RunTables'
  OBVIOUS
<1>t. /\ unsettled \in [Runs -> SUBSET Targets]
      /\ lastResults \in [Targets -> {"none", "pending", "ok", "error"}]
  BY DEF RunTables
<1>1. CASE Upload
  <2>1. lastResults' = [t \in Targets |-> "none"]
    BY <1>1 DEF Upload
  <2>2. PICK targets \in SUBSET Targets :
          unsettled' = [unsettled EXCEPT ![uploads'] = targets]
    BY <1>1, Zenon DEF Upload
  <2>3. unsettled' \in [Runs -> SUBSET Targets]
    BY <2>2, <1>t
  <2> QED
    BY <2>1, <2>3 DEF RunTables
<1>2. ASSUME NEW r \in Runs, NEW t \in Targets, OnDeviceProgress(r, t) \/ OnDeviceDone(r, t)
      PROVE  RunTables'
  <2>1. /\ \E state \in {"pending", "ok", "error"} :
             lastResults' = [lastResults EXCEPT ![t] = state]
        /\ unsettled' = unsettled \/ unsettled' = [unsettled EXCEPT ![r] = @ \ {t}]
    BY <1>2 DEF OnDeviceProgress, OnDeviceDone, ResultOf
  <2>2. unsettled' \in [Runs -> SUBSET Targets]
    BY <2>1, <1>t
  <2>3. lastResults' \in [Targets -> {"none", "pending", "ok", "error"}]
    BY <2>1, <1>t
  <2> QED
    BY <2>2, <2>3 DEF RunTables
<1>3. CASE UNCHANGED <<unsettled, lastResults>>
  BY <1>3, <1>t DEF RunTables
<1> QED
  BY <1>1, <1>2, <1>3, Zenon DEF RelayRunNext, HomePress, EndTimer, LostCapTimer, EndIdeSession,
     LaunchComplete, EmitTimer, RunEnterTimer, TapTimer, FanoutDone, relayRunVars

\* The types of the sideload relay, of which the count of lost caps is the one that
\* needs an argument.
LEMMA RelayRunTypes ==
  RunFlags /\ CapsCounted /\ RunTables => RelayRunTypeOK
<1> SUFFICES ASSUME RunFlags, CapsCounted, RunTables  PROVE RelayRunTypeOK
  OBVIOUS
<1>1. {tap, tapTimer, appRunning, runEnterTimer, endArmed, endGraceTimer, endCapTimer,
       endEmitTimer} \subseteq BOOLEAN
  BY Zenon DEF RunFlags
<1>2. lostCaps \in 0..MaxUploads
  <2>1. MaxUploads \in Nat /\ uploads \in Nat /\ uploads <= MaxUploads /\ lostCaps \in Nat
    BY UploadsAssumption DEF CapsCounted
  <2>2. IsFiniteSet(1..uploads)
    BY <2>1, FS_Interval
  <2>3. Cardinality(fanouts) \in Nat
    BY <2>2, FS_Subset, FS_CardinalityType DEF CapsCounted
  <2> QED
    BY <2>1, <2>3 DEF CapsCounted
<1> QED
  BY <1>1, <1>2 DEF CapsCounted, RunTables, RelayRunTypeOK

LEMMA RunInitTypes == RelayRunInit => RunFlags /\ CapsCounted /\ RunTables
<1> SUFFICES ASSUME RelayRunInit  PROVE RunFlags /\ CapsCounted /\ RunTables
  OBVIOUS
<1>1. RunFlags
  BY Zenon DEF RelayRunInit, RunFlags
<1>2. CapsCounted
  BY UploadsAssumption, FS_EmptySet DEF RelayRunInit, CapsCounted
<1>3. RunTables
  BY DEF RelayRunInit, RunTables
<1> QED
  BY <1>1, <1>2, <1>3

-----------------------------------------------------------------------------
(***************************************************************************)
(* DetailStore, for any ids, readers and bounds.  Why nothing stored is    *)
(* lost: the newest version of an event is in memory as long as it is      *)
(* coming (in the write in flight, or in the queue), and when its write is *)
(* done it is the one the index leads to, because the queue is in order    *)
(* and no older version is written after it.  Why a read is not spoilt: an *)
(* indexed place is behind writeOffset and is not the place of the write   *)
(* in flight, which is the only one that may still change; a clear moves   *)
(* writeOffset back, but then nothing is indexed and no read is sure.      *)
(***************************************************************************)
Stored == 1..Len(idOf)

StoreTypes ==
  /\ idOf \in Seq(EventIds) /\ Len(idOf) <= MaxPuts
  /\ buffered \in [EventIds -> {0} \cup Versions] /\ newest \in [EventIds -> {0} \cup Versions]
  /\ index \in [EventIds -> {0} \cup Places]
  /\ file \in [Places -> {0} \cup Versions] /\ \A p \in Places : file[p] <= Len(idOf)
  /\ writeQueue \in Seq(Nat) /\ \A i \in 1..Len(writeQueue) : writeQueue[i] \in Stored
  /\ writing \in [version : Nat, place : Nat, landed : BOOLEAN]
  /\ writing.version # 0 => writing.version \in Stored /\ writing.place \in Places
  /\ writing.version = 0 => writing = NotWriting
  /\ writeOffset \in Nat /\ capped \in BOOLEAN /\ life \in {"unopened", "open", "disposed"}
  /\ reads \in [Readers -> [id : EventIds \cup {NoEvent}, place : Nat, sure : BOOLEAN]]
  /\ failed \in SUBSET EventIds

\* A place is left for every version that waits.
Room == writeOffset + Len(writeQueue) <= Len(idOf)

\* Versions are written in the order in which they were stored, and the loop runs
\* while one waits.
QueueInOrder ==
  /\ \A i \in 1..Len(writeQueue) : writing.version < writeQueue[i]
  /\ \A i, j \in 1..Len(writeQueue) : i < j => writeQueue[i] < writeQueue[j]
  /\ writing.version = 0 => writeQueue = <<>>

NewestIsNewest ==
  \A id \in EventIds :
    /\ newest[id] = 0 => buffered[id] = 0 /\ index[id] = 0
    /\ newest[id] # 0 => newest[id] \in Stored /\ idOf[newest[id]] = id
                         /\ \A v \in Stored : idOf[v] = id => v <= newest[id]

\* The write in flight has the last place that was given out, unless its event was
\* removed or cleared meanwhile.
WriteIsPlaced ==
  writing.version # 0 /\ newest[idOf[writing.version]] = writing.version =>
    /\ writing.place <= writeOffset
    /\ writing.landed => file[writing.place] = writing.version

Coming(v) == v = writing.version \/ \E i \in 1..Len(writeQueue) : writeQueue[i] = v
Settled(place) == place <= writeOffset /\ (writing.version # 0 => place # writing.place)

Kept(id) ==
  \/ buffered[id] = newest[id] /\ Coming(newest[id])
  \/ buffered[id] = 0 /\ index[id] # 0 /\ file[index[id]] = newest[id] /\ Settled(index[id])

AllKept == \A id \in EventIds : newest[id] # 0 /\ id \notin failed => Kept(id)

ReadsAreSafe ==
  \A r \in Readers : reads[r].sure =>
    /\ reads[r].place \in Places /\ Settled(reads[r].place)
    /\ file[reads[r].place] # 0 /\ idOf[file[reads[r].place]] = reads[r].id

StoreInv ==
  /\ StoreTypes /\ Room /\ QueueInOrder /\ NewestIsNewest /\ WriteIsPlaced
  /\ AllKept /\ ReadsAreSafe

\* Emptying a sequence leaves one with no elements.
LEMMA NoVersions == <<>> \in Seq(Nat) /\ Len(<<>>) = 0
  OBVIOUS

\* What the drain loop's next turn does for the versions that wait: the first of them
\* gets the next place, all are still coming, and no settled place is touched.
LEMMA DrainTurn ==
  ASSUME StoreTypes, Room, QueueInOrder, UNCHANGED idOf, Drain(writeQueue, writeOffset)
  PROVE  /\ writeQueue' \in Seq(Nat) /\ \A i \in 1..Len(writeQueue') : writeQueue'[i] \in Stored
         /\ writing' \in [version : Nat, place : Nat, landed : BOOLEAN]
         /\ writing'.version # 0 => writing'.version \in Stored /\ writing'.place \in Places
         /\ writing'.version = 0 => writing' = NotWriting
         /\ writeOffset' \in Nat /\ writeOffset <= writeOffset'
         /\ ~writing'.landed
         /\ writing'.version # 0 => writing'.place <= writeOffset'
         /\ Room' /\ QueueInOrder'
         /\ \A v \in Nat : v # 0 /\ v # writing.version /\ Coming(v) => Coming(v)'
         /\ \A place \in Nat : place <= writeOffset => Settled(place)'
  <1>0. MaxPuts \in Nat
    BY StoreAssumption
  <1>t. /\ idOf \in Seq(EventIds) /\ Len(idOf) <= MaxPuts /\ Len(idOf) \in Nat
        /\ writeQueue \in Seq(Nat) /\ Len(writeQueue) \in Nat
        /\ \A i \in 1..Len(writeQueue) : writeQueue[i] \in 1..Len(idOf)
        /\ writeOffset \in Nat /\ writing.version \in Nat
    BY DEF StoreTypes, Stored
  <1>1. CASE writeQueue = <<>>
    <2>1. writing' = NotWriting /\ writeQueue' = <<>> /\ writeOffset' = writeOffset
      BY <1>1 DEF Drain
    <2>2. writeQueue' \in Seq(Nat) /\ Len(writeQueue') = 0 /\ Len(writeQueue) = 0
      BY <2>1, <1>1, NoVersions
    <2>3. /\ writing' \in [version : Nat, place : Nat, landed : BOOLEAN]
          /\ writing'.version = 0 /\ ~writing'.landed
      BY <2>1 DEF NotWriting
    <2>4. Room'
      BY <2>1, <2>2, <1>t DEF Room
    <2>5. QueueInOrder'
      BY <2>1, <2>2 DEF QueueInOrder
    <2>6. \A v \in Nat : v # writing.version => ~Coming(v)
      BY <2>2, <1>t DEF Coming
    <2>7. \A place \in Nat : place <= writeOffset => Settled(place)'
      BY <2>1, <2>3 DEF Settled
    <2> QED
      BY <2>1, <2>2, <2>3, <2>4, <2>5, <2>6, <2>7, <1>t
  <1>2. CASE writeQueue # <<>>
    <2>1. /\ writing' = [version |-> Head(writeQueue), place |-> writeOffset + 1, landed |-> FALSE]
          /\ writeQueue' = Tail(writeQueue) /\ writeOffset' = writeOffset + 1
      BY <1>2 DEF Drain
    <2>2. /\ Len(writeQueue) >= 1 /\ Head(writeQueue) = writeQueue[1]
          /\ writeQueue' \in Seq(Nat) /\ Len(writeQueue') = Len(writeQueue) - 1
          /\ \A i \in 1..Len(writeQueue') : writeQueue'[i] = writeQueue[i + 1]
      BY <2>1, <1>2, <1>t
    <2>3. Len(writeQueue') \in Nat
      BY <2>2
    <2>4. /\ writing'.version = writeQueue[1] /\ writing'.place = writeOffset + 1
          /\ ~writing'.landed /\ writeQueue[1] \in 1..Len(idOf)
      BY <2>1, <2>2, <1>t
    <2>5. writing' \in [version : Nat, place : Nat, landed : BOOLEAN]
      BY <2>1, <2>2, <2>4, <1>t
    <2>6. writeOffset + 1 \in Places
      BY <2>2, <1>t, <1>0 DEF Room, Places
    <2>a. \A i \in 1..Len(writeQueue') :
             i \in Nat /\ i + 1 \in 1..Len(writeQueue) /\ writeQueue'[i] = writeQueue[i + 1]
      BY <2>2, <2>3, <1>t
    <2>7. \A i \in 1..Len(writeQueue') : writeQueue'[i] \in Stored
      BY <2>a, <1>t DEF Stored
    <2>8. Room'
      BY <2>1, <2>2, <2>3, <1>t DEF Room
    <2>9. QueueInOrder'
      <3>0. \A i, j \in 1..Len(writeQueue) : i < j => writeQueue[i] < writeQueue[j]
        BY DEF QueueInOrder
      <3>1. \A i \in 1..Len(writeQueue') : writing'.version < writeQueue'[i]
        <4>1. 1 \in 1..Len(writeQueue)
          BY <2>2, <1>t
        <4>2. \A i \in 1..Len(writeQueue') : 1 < i + 1
          BY <2>a
        <4> QED
          BY <3>0, <4>1, <4>2, <2>a, <2>4
      <3>2. \A i, j \in 1..Len(writeQueue') : i < j => writeQueue'[i] < writeQueue'[j]
        <4>1. \A i, j \in 1..Len(writeQueue') : i < j => i + 1 < j + 1
          BY <2>a
        <4> QED
          BY <3>0, <4>1, <2>a
      <3> QED
        BY <3>1, <3>2, <2>4, <1>t DEF QueueInOrder
    <2>10. ASSUME NEW v \in Nat, v # writing.version, Coming(v)  PROVE  Coming(v)'
      <3>1. PICK i \in 1..Len(writeQueue) : writeQueue[i] = v
        BY <2>10 DEF Coming
      <3>2. CASE i = 1
        BY <3>1, <3>2, <2>4 DEF Coming
      <3>3. CASE i # 1
        <4>1. i - 1 \in 1..Len(writeQueue') /\ writeQueue'[i - 1] = v
          BY <3>1, <3>3, <2>2, <2>3, <1>t
        <4> QED
          BY <4>1 DEF Coming
      <3> QED
        BY <3>2, <3>3
    <2>11. \A place \in Nat : place <= writeOffset => Settled(place)'
      BY <2>1, <2>4, <1>t DEF Settled
    <2> QED
      BY <2>1, <2>4, <2>5, <2>6, <2>7, <2>8, <2>9, <2>10, <2>11, <2>2, <1>t DEF Stored
  <1> QED
    BY <1>1, <1>2

\* The empty store is in order.
LEMMA StoreInitInv ==
  StoreInit => StoreInv
  <1> SUFFICES ASSUME StoreInit  PROVE StoreInv
    OBVIOUS
  <1>0. MaxPuts \in Nat /\ NoEvent \notin EventIds
    BY StoreAssumption
  <1>1. /\ idOf = <<>> /\ writeQueue = <<>> /\ writing = NotWriting /\ writeOffset = 0
        /\ buffered = NoneStored /\ newest = NoneStored /\ index = NoneStored
        /\ file = [p \in Places |-> 0] /\ reads = [r \in Readers |-> NotReading]
        /\ capped = FALSE /\ life = "unopened" /\ failed = {}
    BY DEF StoreInit
  <1>2. idOf \in Seq(EventIds) /\ Len(idOf) = 0 /\ writeQueue \in Seq(Nat) /\ Len(writeQueue) = 0
    BY <1>1
  <1>3. StoreTypes
    <2>1. /\ buffered \in [EventIds -> {0} \cup Versions] /\ newest \in [EventIds -> {0} \cup Versions]
          /\ index \in [EventIds -> {0} \cup Places]
      BY <1>1 DEF NoneStored
    <2>2. file \in [Places -> {0} \cup Versions] /\ \A p \in Places : file[p] <= Len(idOf)
      BY <1>1, <1>2
    <2>3. reads \in [Readers -> [id : EventIds \cup {NoEvent}, place : Nat, sure : BOOLEAN]]
      BY <1>1 DEF NotReading
    <2>4. /\ writing \in [version : Nat, place : Nat, landed : BOOLEAN] /\ writing.version = 0
      BY <1>1 DEF NotWriting
    <2>5. \A i \in 1..Len(writeQueue) : writeQueue[i] \in Stored
      BY <1>2
    <2>6. capped \in BOOLEAN /\ life \in {"unopened", "open", "disposed"} /\ writeOffset \in Nat
      BY <1>1
    <2>7. failed \in SUBSET EventIds
      BY <1>1
    <2> QED
      BY <1>0, <1>1, <1>2, <2>1, <2>2, <2>3, <2>4, <2>5, <2>6, <2>7 DEF StoreTypes
  <1>4. Room /\ QueueInOrder
    BY <1>1, <1>2 DEF Room, QueueInOrder
  <1>5. NewestIsNewest /\ AllKept
    BY <1>1 DEF NewestIsNewest, AllKept, NoneStored
  <1>6. WriteIsPlaced
    BY <1>1 DEF WriteIsPlaced, NotWriting
  <1>7. ReadsAreSafe
    BY <1>1 DEF ReadsAreSafe, NotReading
  <1> QED
    BY <1>3, <1>4, <1>5, <1>6, <1>7 DEF StoreInv

\* put keeps the invariant: the new version is last in the queue, or is being written.
LEMMA PutKeeps ==
  ASSUME StoreInv, NEW id \in EventIds, Put(id)  PROVE StoreInv'
  <1> DEFINE v == Len(idOf) + 1
  <1>0. MaxPuts \in Nat
    BY StoreAssumption
  <1>t. StoreTypes /\ Room /\ QueueInOrder /\ NewestIsNewest /\ WriteIsPlaced /\ AllKept /\ ReadsAreSafe
    BY DEF StoreInv
  <1>n. /\ idOf \in Seq(EventIds) /\ Len(idOf) \in Nat /\ Len(idOf) <= MaxPuts
        /\ writeQueue \in Seq(Nat) /\ Len(writeQueue) \in Nat
        /\ \A i \in 1..Len(writeQueue) : writeQueue[i] \in 1..Len(idOf)
        /\ writeOffset \in Nat /\ writing.version \in Nat
        /\ buffered \in [EventIds -> {0} \cup Versions] /\ newest \in [EventIds -> {0} \cup Versions]
    BY <1>t DEF StoreTypes, Stored
  <1>1. /\ v \in 1..MaxPuts /\ v \in Nat /\ idOf' = Append(idOf, id)
        /\ newest' = [newest EXCEPT ![id] = v] /\ UNCHANGED <<capped, index, file, reads>>
    BY <1>n, <1>0 DEF Put
  <1>2. /\ idOf' \in Seq(EventIds) /\ Len(idOf') = v /\ idOf'[v] = id
        /\ \A i \in 1..Len(idOf) : i \in 1..v /\ i # v /\ i \in Nat /\ idOf'[i] = idOf[i]
        /\ \A i \in 1..v : i # v => i \in 1..Len(idOf)
    BY <1>1, <1>n
  <1> HIDE DEF v
  <1>3. v > Len(idOf) /\ v # 0 /\ v \in Versions
    BY <1>1, <1>n DEF v, Versions
  <1>4. /\ newest'[id] = v /\ \A j \in EventIds : j # id => newest'[j] = newest[j]
        /\ newest' \in [EventIds -> {0} \cup Versions]
    BY <1>1, <1>3, <1>n
  <1>5. NewestIsNewest'
    <2> SUFFICES ASSUME NEW j \in EventIds
                 PROVE  /\ newest'[j] = 0 => buffered'[j] = 0 /\ index'[j] = 0
                        /\ newest'[j] # 0 => newest'[j] \in Stored' /\ idOf'[newest'[j]] = j
                                             /\ \A w \in Stored' : idOf'[w] = j => w <= newest'[j]
      BY DEF NewestIsNewest
    <2>1. Stored' = 1..v
      BY <1>2 DEF Stored
    <2>2. CASE j = id
      BY <2>1, <2>2, <1>1, <1>2, <1>3, <1>4
    <2>3. CASE j # id
      <3>1. buffered'[j] = buffered[j] /\ index'[j] = index[j]
        BY <2>3, <1>n, <1>1 DEF Put
      <3>2. newest'[j] = newest[j]
        BY <2>3, <1>4
      <3>3. newest[j] = 0 => buffered[j] = 0 /\ index[j] = 0
        BY <1>t DEF NewestIsNewest
      <3>4. newest[j] # 0 => newest[j] \in 1..Len(idOf) /\ idOf[newest[j]] = j
                              /\ \A w \in 1..Len(idOf) : idOf[w] = j => w <= newest[j]
        BY <1>t DEF NewestIsNewest, Stored
      <3> QED
        BY <2>1, <2>3, <3>1, <3>2, <3>3, <3>4, <1>2
    <2> QED
      BY <2>2, <2>3
  <1>6. /\ file' \in [Places -> {0} \cup Versions] /\ \A p \in Places : file'[p] <= Len(idOf')
        /\ index' \in [EventIds -> {0} \cup Places] /\ capped' \in BOOLEAN
        /\ reads' \in [Readers -> [id : EventIds \cup {NoEvent}, place : Nat, sure : BOOLEAN]]
    <2>1. /\ file \in [Places -> {0} \cup Versions] /\ \A p \in Places : file[p] <= Len(idOf)
          /\ index \in [EventIds -> {0} \cup Places] /\ capped \in BOOLEAN
          /\ reads \in [Readers -> [id : EventIds \cup {NoEvent}, place : Nat, sure : BOOLEAN]]
      BY <1>t DEF StoreTypes
    <2>2. \A p \in Places : file[p] \in Nat
      BY <2>1, <1>0 DEF Versions
    <2> QED
      BY <2>1, <2>2, <1>1, <1>2, <1>3, <1>n
  <1>7. \A j \in EventIds : newest[j] # 0 => newest[j] \in 1..Len(idOf) /\ idOf[newest[j]] = j
    BY <1>t DEF NewestIsNewest, Stored
  <1>8. ASSUME \A place \in Nat : Settled(place) => Settled(place)'
        PROVE  ReadsAreSafe'
    <2> SUFFICES ASSUME NEW r \in Readers, reads'[r].sure
                 PROVE  (/\ reads[r].place \in Places /\ Settled(reads[r].place)
                         /\ file[reads[r].place] # 0
                         /\ idOf[file[reads[r].place]] = reads[r].id)'
      BY DEF ReadsAreSafe
    <2>1. reads' = reads /\ file' = file
      BY <1>1
    <2>2. /\ reads[r].place \in Places /\ Settled(reads[r].place)
          /\ file[reads[r].place] # 0 /\ idOf[file[reads[r].place]] = reads[r].id
      BY <1>t, <2>1 DEF ReadsAreSafe
    <2>3. file[reads[r].place] \in 1..Len(idOf)
      BY <2>2, <1>t, <1>0, <1>n DEF StoreTypes, Versions
    <2>4. reads[r].place \in Nat
      BY <2>2, <1>0 DEF Places
    <2>5. Settled(reads[r].place)'
      BY <2>1, <2>2, <2>4, <1>8
    <2> QED
      BY <2>1, <2>2, <2>3, <2>5, <1>2
  <1>9. CASE /\ buffered' = [buffered EXCEPT ![id] = v]
             /\ IF writing.version = 0
                THEN Drain(<<v>>, writeOffset)
                ELSE writeQueue' = Append(writeQueue, v) /\ UNCHANGED <<writing, writeOffset>>
             /\ life' = "open" /\ failed' = failed \ {id}
    <2>1. buffered' \in [EventIds -> {0} \cup Versions] /\ buffered'[id] = v
          /\ \A j \in EventIds : j # id => buffered'[j] = buffered[j]
      BY <1>9, <1>3, <1>n
    <2>2. failed' \in SUBSET EventIds /\ life' \in {"unopened", "open", "disposed"}
      BY <1>9, <1>t DEF StoreTypes
    <2>3. CASE writing.version = 0
      <3>1. Drain(<<v>>, writeOffset)
        BY <2>3, <1>9
      <3>2. /\ writing' = [version |-> v, place |-> writeOffset + 1, landed |-> FALSE]
            /\ writeQueue' = <<>> /\ writeOffset' = writeOffset + 1
        BY <3>1 DEF Drain
      <3>3. writeQueue = <<>> /\ Len(writeQueue) = 0
        BY <1>t, <2>3, NoVersions DEF QueueInOrder
      <3>4. writeQueue' \in Seq(Nat) /\ Len(writeQueue') = 0
        BY <3>2, NoVersions
      <3>5. /\ writing' \in [version : Nat, place : Nat, landed : BOOLEAN]
            /\ writing'.version = v /\ writing'.place = writeOffset + 1 /\ ~writing'.landed
        BY <3>2, <1>1, <1>n
      <3>6. writeOffset + 1 <= v
        BY <3>3, <1>t, <1>n DEF Room, v
      <3>7. writeOffset + 1 \in Places
        BY <3>6, <1>1, <1>n, <1>0 DEF Places
      <3>8. StoreTypes'
        <4>1. Stored' = 1..v /\ v \in Stored'
          BY <1>2, <1>1 DEF Stored
        <4> QED
          BY <1>2, <1>1, <1>3, <1>4, <1>6, <2>1, <2>2, <3>2, <3>4, <3>5, <3>7, <4>1, <1>n
             DEF StoreTypes
      <3>9. Room'
        BY <3>2, <3>4, <3>6, <1>2, <1>n DEF Room
      <3>10. QueueInOrder'
        BY <3>2, <3>4, <3>5, <1>3 DEF QueueInOrder
      <3>11. WriteIsPlaced'
        BY <3>2, <3>5, <1>n DEF WriteIsPlaced
      <3>12. \A place \in Nat : Settled(place) => Settled(place)'
        BY <3>2, <3>5, <1>n DEF Settled
      <3>13. \A j \in EventIds : newest[j] # 0 => ~Coming(newest[j])
        BY <2>3, <3>3 DEF Coming
      <3>14. AllKept'
        <4> SUFFICES ASSUME NEW j \in EventIds, newest'[j] # 0, j \notin failed'  PROVE Kept(j)'
          BY DEF AllKept
        <4>1. CASE j = id
          <5>1. Coming(newest[j])'
            BY <4>1, <1>4, <3>5 DEF Coming
          <5> QED
            BY <5>1, <4>1, <2>1, <1>4 DEF Kept
        <4>2. CASE j # id
          <5>1. newest'[j] = newest[j] /\ j \notin failed /\ newest[j] # 0
            BY <4>2, <1>4, <1>9
          <5>2. Kept(j)
            BY <5>1, <1>t DEF AllKept
          <5>3. buffered[j] = 0 /\ index[j] # 0 /\ file[index[j]] = newest[j] /\ Settled(index[j])
            BY <5>2, <5>1, <3>13 DEF Kept
          <5>4. index[j] \in Nat
            BY <1>t, <1>0 DEF StoreTypes, Places
          <5>5. Settled(index[j])'
            BY <5>3, <5>4, <3>12, <1>1
          <5> QED
            BY <5>1, <5>3, <5>5, <4>2, <2>1, <1>1 DEF Kept
        <4> QED
          BY <4>1, <4>2
      <3>15. ReadsAreSafe'
        BY <1>8, <3>12
      <3> QED
        BY <1>5, <3>8, <3>9, <3>10, <3>11, <3>14, <3>15 DEF StoreInv
    <2>4. CASE writing.version # 0
      <3>1. writeQueue' = Append(writeQueue, v) /\ UNCHANGED <<writing, writeOffset>>
        BY <2>4, <1>9
      <3>2. /\ writeQueue' \in Seq(Nat) /\ Len(writeQueue') = Len(writeQueue) + 1
            /\ writeQueue'[Len(writeQueue) + 1] = v
            /\ \A i \in 1..Len(writeQueue) :
                 i \in 1..Len(writeQueue') /\ writeQueue'[i] = writeQueue[i]
        BY <3>1, <1>1, <1>n
      <3>3. \A i \in 1..Len(writeQueue') :
               i \in Nat /\ (i \in 1..Len(writeQueue) \/ i = Len(writeQueue) + 1)
        BY <3>2, <1>n
      <3>4. \A i \in 1..Len(writeQueue) : writeQueue[i] < v /\ writeQueue[i] \in 1..v
        BY <1>n, <1>3, <1>1
      <3>5. writing.version \in 1..Len(idOf) /\ writing.version < v
        BY <2>4, <1>t, <1>3, <1>n, <1>1 DEF StoreTypes, Stored
      <3>6. StoreTypes'
        <4>1. Stored' = 1..v /\ v \in Stored'
          BY <1>2, <1>1 DEF Stored
        <4>2. \A i \in 1..Len(writeQueue') : writeQueue'[i] \in Stored'
          BY <4>1, <3>2, <3>3, <3>4
        <4>3. writing.version \in 1..v
          BY <3>5, <1>2
        <4>4. /\ writing \in [version : Nat, place : Nat, landed : BOOLEAN]
              /\ writing.place \in Places /\ writeOffset \in Nat
          BY <2>4, <1>t DEF StoreTypes
        <4> QED
          BY <1>2, <1>1, <1>4, <1>6, <2>1, <2>2, <2>4, <3>1, <3>2, <4>1, <4>2, <4>3, <4>4
             DEF StoreTypes
      <3>7. Room'
        BY <1>t, <3>1, <3>2, <1>2, <1>n DEF Room, v
      <3>8. QueueInOrder'
        <4>1. \A i \in 1..Len(writeQueue') : writing'.version < writeQueue'[i]
          BY <1>t, <3>1, <3>2, <3>3, <3>5 DEF QueueInOrder
        <4>2. \A i, j \in 1..Len(writeQueue') : i < j => writeQueue'[i] < writeQueue'[j]
          <5> SUFFICES ASSUME NEW i \in 1..Len(writeQueue'), NEW j \in 1..Len(writeQueue'), i < j
                       PROVE  writeQueue'[i] < writeQueue'[j]
            OBVIOUS
          <5>1. i \in 1..Len(writeQueue)
            BY <3>2, <3>3, <1>n
          <5>2. CASE j \in 1..Len(writeQueue)
            BY <5>1, <5>2, <3>2, <1>t DEF QueueInOrder
          <5>3. CASE j = Len(writeQueue) + 1
            BY <5>1, <5>3, <3>2, <3>4
          <5> QED
            BY <5>2, <5>3, <3>3
        <4> QED
          BY <4>1, <4>2, <3>1, <2>4 DEF QueueInOrder
      <3>9. idOf[writing.version] \in EventIds /\ idOf'[writing.version] = idOf[writing.version]
        BY <3>5, <1>2, <1>n
      <3>10. WriteIsPlaced'
        <4>1. newest'[idOf[writing.version]] = writing.version =>
                newest[idOf[writing.version]] = writing.version
          BY <3>5, <3>9, <1>4, <1>1, <1>n
        <4> QED
          BY <4>1, <3>1, <3>9, <1>1, <1>t DEF WriteIsPlaced
      <3>11. \A place \in Nat : Settled(place) => Settled(place)'
        BY <3>1 DEF Settled
      <3>12. \A w \in Nat : Coming(w) => Coming(w)'
        BY <3>1, <3>2 DEF Coming
      <3>13. AllKept'
        <4> SUFFICES ASSUME NEW j \in EventIds, newest'[j] # 0, j \notin failed'  PROVE Kept(j)'
          BY DEF AllKept
        <4>1. CASE j = id
          <5>1. Len(writeQueue) + 1 \in 1..Len(writeQueue')
            BY <3>2, <1>n
          <5>2. Coming(newest[j])'
            BY <4>1, <1>4, <3>2, <5>1 DEF Coming
          <5> QED
            BY <5>2, <4>1, <2>1, <1>4 DEF Kept
        <4>2. CASE j # id
          <5>1. newest'[j] = newest[j] /\ j \notin failed /\ newest[j] # 0
            BY <4>2, <1>4, <1>9
          <5>2. Kept(j)
            BY <5>1, <1>t DEF AllKept
          <5>3. index[j] \in Nat /\ newest[j] \in Nat
            BY <1>t, <1>0 DEF StoreTypes, Places, Versions
          <5>4. Coming(newest[j]) => Coming(newest[j])'
            BY <5>1, <5>3, <3>12
          <5>5. Settled(index[j]) => Settled(index[j])'
            BY <5>3, <3>11, <1>1
          <5> QED
            BY <5>1, <5>2, <5>4, <5>5, <4>2, <2>1, <1>1 DEF Kept
        <4> QED
          BY <4>1, <4>2
      <3>14. ReadsAreSafe'
        BY <1>8, <3>11
      <3> QED
        BY <1>5, <3>6, <3>7, <3>8, <3>10, <3>13, <3>14 DEF StoreInv
    <2> QED
      BY <2>3, <2>4
  <1>10. CASE /\ life = "unopened"
              /\ failed' = failed \cup {id}
              /\ UNCHANGED <<buffered, writeQueue, writing, writeOffset, life>>
    <2>1. \A i \in 1..Len(writeQueue) : writeQueue[i] \in 1..v
      BY <1>n, <1>2
    <2>2. writing.version # 0 => writing.version \in 1..Len(idOf)
      BY <1>t DEF StoreTypes, Stored
    <2>3. StoreTypes'
      <3>1. Stored' = 1..v
        BY <1>2 DEF Stored
      <3>2. /\ writing \in [version : Nat, place : Nat, landed : BOOLEAN]
            /\ writing.version # 0 => writing.place \in Places
            /\ writing.version = 0 => writing = NotWriting
            /\ writeOffset \in Nat /\ life \in {"unopened", "open", "disposed"}
            /\ failed \in SUBSET EventIds
        BY <1>t DEF StoreTypes
      <3>3. writing.version # 0 => writing.version \in 1..v
        BY <2>2, <1>2
      <3> QED
        BY <1>10, <1>1, <1>2, <1>4, <1>6, <1>n, <2>1, <3>1, <3>2, <3>3 DEF StoreTypes
    <2>4. Room'
      BY <1>10, <1>t, <1>2, <1>n DEF Room, v
    <2>5. QueueInOrder'
      BY <1>10, <1>t DEF QueueInOrder
    <2>6. WriteIsPlaced'
      <3> SUFFICES ASSUME writing.version # 0, newest'[idOf'[writing.version]] = writing.version
                   PROVE  /\ writing.place <= writeOffset
                          /\ writing.landed => file[writing.place] = writing.version
        BY <1>10, <1>1 DEF WriteIsPlaced
      <3>1. idOf'[writing.version] = idOf[writing.version] /\ idOf[writing.version] \in EventIds
        BY <2>2, <1>2, <1>n
      <3>2. writing.version # v
        BY <2>2, <1>2
      <3>3. newest[idOf[writing.version]] = writing.version
        BY <3>1, <3>2, <1>4
      <3> QED
        BY <3>3, <1>t DEF WriteIsPlaced
    <2>7. \A place \in Nat : Settled(place) => Settled(place)'
      BY <1>10 DEF Settled
    <2>8. AllKept'
      <3> SUFFICES ASSUME NEW j \in EventIds, newest'[j] # 0, j \notin failed'  PROVE Kept(j)'
        BY DEF AllKept
      <3>1. newest'[j] = newest[j] /\ j \notin failed /\ newest[j] # 0
        BY <1>10, <1>4
      <3>2. Kept(j)
        BY <3>1, <1>t DEF AllKept
      <3> QED
        BY <3>1, <3>2, <1>10, <1>1 DEF Kept, Coming, Settled
    <2>9. ReadsAreSafe'
      BY <1>8, <2>7
    <2> QED
      BY <1>5, <2>3, <2>4, <2>5, <2>6, <2>8, <2>9 DEF StoreInv
  <1> QED
    BY <1>9, <1>10 DEF Put, v

\* The end of a write, done or failed, keeps the invariant: what is required of the
\* index and of failed is what WriteDone and WriteFailed do to them.
LEMMA WriteEnds ==
  ASSUME StoreInv, writing.version # 0, NEW id \in EventIds, id = idOf[writing.version],
         DropUnlessNewer(id), Drain(writeQueue, writeOffset),
         UNCHANGED <<idOf, capped, file, life, reads, newest>>,
         index' \in [EventIds -> {0} \cup Places], failed' \in SUBSET EventIds,
         \A j \in EventIds : buffered[j] = 0 \/ j # id => index'[j] = index[j],
         \A j \in EventIds : j # id \/ newest[j] # writing.version =>
                               (j \in failed' <=> j \in failed),
         newest[id] = writing.version /\ id \notin failed' =>
           id \notin failed /\ (buffered[id] # 0 => index'[id] = writing.place /\ writing.landed)
  PROVE  StoreInv'
  <1>0. MaxPuts \in Nat
    BY StoreAssumption
  <1>t. StoreTypes /\ Room /\ QueueInOrder /\ NewestIsNewest /\ WriteIsPlaced /\ AllKept /\ ReadsAreSafe
    BY DEF StoreInv
  <1>n. /\ idOf \in Seq(EventIds) /\ Len(idOf) \in Nat /\ Len(idOf) <= MaxPuts
        /\ \A i \in 1..Len(writeQueue) : writeQueue[i] \in 1..Len(idOf)
        /\ writeOffset \in Nat /\ writing.version \in 1..Len(idOf) /\ writing.place \in Nat
        /\ buffered \in [EventIds -> {0} \cup Versions] /\ newest \in [EventIds -> {0} \cup Versions]
        /\ index \in [EventIds -> {0} \cup Places]
    BY <1>t DEF StoreTypes, Stored
  <1>1. /\ writeQueue' \in Seq(Nat) /\ \A i \in 1..Len(writeQueue') : writeQueue'[i] \in Stored
        /\ writing' \in [version : Nat, place : Nat, landed : BOOLEAN]
        /\ writing'.version # 0 => writing'.version \in Stored /\ writing'.place \in Places
        /\ writing'.version = 0 => writing' = NotWriting
        /\ writeOffset' \in Nat /\ writeOffset <= writeOffset'
        /\ ~writing'.landed
        /\ writing'.version # 0 => writing'.place <= writeOffset'
        /\ Room' /\ QueueInOrder'
        /\ \A v \in Nat : v # 0 /\ v # writing.version /\ Coming(v) => Coming(v)'
        /\ \A place \in Nat : place <= writeOffset => Settled(place)'
    BY <1>t, DrainTurn
  <1>2. /\ idOf' = idOf /\ newest' = newest /\ file' = file /\ reads' = reads
        /\ capped' = capped /\ life' = life
    OBVIOUS
  <1>3. /\ buffered' \in [EventIds -> {0} \cup Versions]
        /\ \A j \in EventIds : j # id => buffered'[j] = buffered[j]
        /\ buffered'[id] = IF Drained(id, writeQueue) THEN 0 ELSE buffered[id]
    BY <1>n DEF DropUnlessNewer
  <1>4. StoreTypes'
    <2>1. Stored' = Stored
      BY <1>2 DEF Stored
    <2>2. /\ file \in [Places -> {0} \cup Versions] /\ \A p \in Places : file[p] <= Len(idOf)
          /\ capped \in BOOLEAN /\ life \in {"unopened", "open", "disposed"}
          /\ reads \in [Readers -> [id : EventIds \cup {NoEvent}, place : Nat, sure : BOOLEAN]]
      BY <1>t DEF StoreTypes
    <2> QED
      BY <1>n, <1>1, <1>2, <1>3, <2>1, <2>2 DEF StoreTypes
  <1>5. NewestIsNewest'
    <2> SUFFICES ASSUME NEW j \in EventIds
                 PROVE  (/\ newest[j] = 0 => buffered[j] = 0 /\ index[j] = 0
                         /\ newest[j] # 0 => newest[j] \in Stored /\ idOf[newest[j]] = j
                                             /\ \A w \in Stored : idOf[w] = j => w <= newest[j])'
      BY DEF NewestIsNewest
    <2>1. newest[j] = 0 => buffered[j] = 0 /\ index[j] = 0
      BY <1>t DEF NewestIsNewest
    <2>2. newest[j] # 0 => newest[j] \in Stored /\ idOf[newest[j]] = j
                           /\ \A w \in Stored : idOf[w] = j => w <= newest[j]
      BY <1>t DEF NewestIsNewest
    <2>3. newest[j] = 0 => buffered'[j] = 0 /\ index'[j] = 0
      BY <2>1, <1>3
    <2> QED
      BY <2>2, <2>3, <1>2 DEF Stored
  <1>6. WriteIsPlaced'
    BY <1>1 DEF WriteIsPlaced
  <1>7. AllKept'
    <2> SUFFICES ASSUME NEW j \in EventIds, newest'[j] # 0, j \notin failed'  PROVE Kept(j)'
      BY DEF AllKept
    <2>1. newest[j] # 0 /\ newest[j] \in Stored /\ idOf[newest[j]] = j /\ newest[j] \in Nat
          /\ \A w \in Stored : idOf[w] = j => w <= newest[j]
      BY <1>2, <1>t DEF NewestIsNewest, Stored
    <2>2. j \notin failed
      OBVIOUS
    <2>3. Kept(j)
      BY <2>1, <2>2, <1>t DEF AllKept
    <2>4. index[j] \in Nat
      BY <1>n, <1>0 DEF Places
    <2>5. CASE buffered[j] = 0 /\ index[j] # 0 /\ file[index[j]] = newest[j] /\ Settled(index[j])
      <3>1. buffered'[j] = 0 /\ index'[j] = index[j]
        BY <2>5, <1>3
      <3>2. Settled(index[j])'
        BY <2>5, <2>4, <1>1, <3>1 DEF Settled
      <3> QED
        BY <2>5, <3>1, <3>2, <1>2 DEF Kept
    <2>6. CASE buffered[j] = newest[j] /\ Coming(newest[j]) /\ newest[j] # writing.version
      <3>1. PICK i \in 1..Len(writeQueue) : writeQueue[i] = newest[j]
        BY <2>6 DEF Coming
      <3>2. j = id => ~Drained(id, writeQueue)
        BY <3>1, <2>1 DEF Drained
      <3>3. buffered'[j] = buffered[j]
        BY <3>2, <1>3
      <3>4. Coming(newest[j])'
        BY <2>6, <2>1, <1>1, <1>2
      <3> QED
        BY <2>6, <3>3, <3>4, <1>2 DEF Kept
    <2>7. CASE buffered[j] = newest[j] /\ newest[j] = writing.version
      <3>1. j = id
        BY <2>7, <2>1
      <3>2. index'[j] = writing.place /\ writing.landed
        BY <2>7, <2>1, <3>1
      <3>3. Drained(id, writeQueue)
        <4> SUFFICES ASSUME NEW i \in 1..Len(writeQueue), idOf[writeQueue[i]] = id  PROVE FALSE
          BY DEF Drained
        <4>1. writeQueue[i] \in 1..Len(idOf) /\ writing.version < writeQueue[i]
          BY <1>n, <1>t DEF QueueInOrder
        <4>2. writeQueue[i] <= newest[j]
          BY <4>1, <2>1, <3>1 DEF Stored
        <4> QED
          BY <4>1, <4>2, <2>7, <1>n
      <3>4. buffered'[j] = 0
        BY <3>1, <3>3, <1>3
      <3>5. writing.place <= writeOffset /\ file[writing.place] = writing.version
        BY <2>7, <3>1, <3>2, <1>t DEF WriteIsPlaced
      <3>6. writing.place # 0
        BY <1>t, <1>0 DEF StoreTypes, Places
      <3>7. Settled(index[j])'
        BY <3>2, <3>5, <1>1, <1>n
      <3> QED
        BY <2>7, <3>2, <3>4, <3>5, <3>6, <3>7, <1>2 DEF Kept
    <2> QED
      BY <2>3, <2>5, <2>6, <2>7 DEF Kept
  <1>8. ReadsAreSafe'
    <2> SUFFICES ASSUME NEW r \in Readers, reads'[r].sure
                 PROVE  (/\ reads[r].place \in Places /\ Settled(reads[r].place)
                         /\ file[reads[r].place] # 0
                         /\ idOf[file[reads[r].place]] = reads[r].id)'
      BY DEF ReadsAreSafe
    <2>1. /\ reads[r].place \in Places /\ Settled(reads[r].place)
          /\ file[reads[r].place] # 0 /\ idOf[file[reads[r].place]] = reads[r].id
      BY <1>t, <1>2 DEF ReadsAreSafe
    <2>2. reads[r].place \in Nat
      BY <2>1, <1>0 DEF Places
    <2>3. Settled(reads[r].place)'
      BY <2>1, <2>2, <1>1, <1>2 DEF Settled
    <2> QED
      BY <2>1, <2>3, <1>2
  <1> QED
    BY <1>1, <1>4, <1>5, <1>6, <1>7, <1>8 DEF StoreInv

\* The callback of a write that is done keeps the invariant.
LEMMA WriteDoneKeeps ==
  ASSUME StoreInv, WriteDone  PROVE StoreInv'
  <1> DEFINE id == idOf[writing.version]
  <1>t. StoreTypes
    BY DEF StoreInv
  <1>1. writing.landed
    BY DEF WriteDone
  <1>2. writing.version # 0
    BY <1>1, <1>t DEF StoreTypes, NotWriting
  <1>3. id \in EventIds
    BY <1>2, <1>t DEF StoreTypes, Stored
  <1>4. /\ Indexed(id) /\ DropUnlessNewer(id) /\ Drain(writeQueue, writeOffset)
        /\ UNCHANGED <<idOf, capped, file, life, reads, newest>> /\ failed' = failed
    BY DEF WriteDone
  <1> DEFINE goal == id = idOf[writing.version]
  <1>5. goal
    OBVIOUS
  <1> HIDE DEF id
  <1>6. /\ index' \in [EventIds -> {0} \cup Places] /\ failed' \in SUBSET EventIds
        /\ \A j \in EventIds : buffered[j] = 0 \/ j # id => index'[j] = index[j]
        /\ buffered[id] # 0 => index'[id] = writing.place
    BY <1>2, <1>3, <1>4, <1>t DEF Indexed, StoreTypes
  <1> QED
    BY <1>1, <1>2, <1>3, <1>4, <1>5, <1>6, WriteEnds

\* The callback of a write that failed keeps it.
LEMMA WriteFailedKeeps ==
  ASSUME StoreInv, WriteFailed  PROVE StoreInv'
  <1> DEFINE id == idOf[writing.version]
  <1>t. StoreTypes
    BY DEF StoreInv
  <1>1. writing.version # 0
    BY DEF WriteFailed
  <1>2. id \in EventIds
    BY <1>1, <1>t DEF StoreTypes, Stored
  <1>3. /\ DropUnlessNewer(id) /\ Drain(writeQueue, writeOffset)
        /\ failed' = IF newest[id] = writing.version THEN failed \cup {id} ELSE failed
        /\ UNCHANGED <<idOf, capped, index, file, life, reads, newest>>
    BY DEF WriteFailed
  <1> DEFINE goal == id = idOf[writing.version]
  <1>4. goal
    OBVIOUS
  <1> HIDE DEF id
  <1>5. index \in [EventIds -> {0} \cup Places] /\ failed \in SUBSET EventIds
    BY <1>t DEF StoreTypes
  <1>6. /\ index' = index /\ failed' \in SUBSET EventIds
        /\ newest[id] = writing.version => id \in failed'
        /\ \A j \in EventIds : j # id \/ newest[j] # writing.version =>
                                 (j \in failed' <=> j \in failed)
    BY <1>2, <1>3, <1>5
  <1> QED
    BY <1>1, <1>2, <1>3, <1>4, <1>5, <1>6, WriteEnds

\* A write that takes effect in the file changes the place of no read and no index.
LEMMA WriteLandsKeeps ==
  ASSUME StoreInv, WriteLands  PROVE StoreInv'
  <1>0. MaxPuts \in Nat
    BY StoreAssumption
  <1>t. StoreTypes /\ Room /\ QueueInOrder /\ NewestIsNewest /\ WriteIsPlaced /\ AllKept /\ ReadsAreSafe
    BY DEF StoreInv
  <1>1. /\ writing.version # 0 /\ writing' = [writing EXCEPT !.landed = TRUE]
        /\ file' = [file EXCEPT ![writing.place] = writing.version]
        /\ UNCHANGED <<idOf, buffered, writeQueue, writeOffset, capped, index, life, reads, newest,
                       failed>>
    BY DEF WriteLands
  <1>2. /\ writing \in [version : Nat, place : Nat, landed : BOOLEAN]
        /\ writing.version \in 1..Len(idOf) /\ writing.place \in Places
        /\ Len(idOf) \in Nat /\ Len(idOf) <= MaxPuts
        /\ file \in [Places -> {0} \cup Versions] /\ \A p \in Places : file[p] <= Len(idOf)
    BY <1>1, <1>t DEF StoreTypes, Stored
  <1>3. /\ writing' \in [version : Nat, place : Nat, landed : BOOLEAN]
        /\ writing'.version = writing.version /\ writing'.place = writing.place
    BY <1>1, <1>2
  <1>4. /\ file'[writing.place] = writing.version
        /\ \A p \in Places : p # writing.place => file'[p] = file[p]
        /\ writing.version \in Versions
    BY <1>1, <1>2, <1>0 DEF Versions
  <1>5. file' \in [Places -> {0} \cup Versions] /\ \A p \in Places : file'[p] <= Len(idOf)
    BY <1>1, <1>2, <1>4
  <1>6. StoreTypes'
    <2>1. Stored' = Stored
      BY <1>1 DEF Stored
    <2> QED
      BY <1>1, <1>2, <1>3, <1>5, <1>t, <2>1 DEF StoreTypes
  <1>7. Room' /\ QueueInOrder'
    BY <1>t, <1>1, <1>3 DEF Room, QueueInOrder
  <1>8. NewestIsNewest'
    BY <1>t, <1>1 DEF NewestIsNewest, Stored
  <1>9. WriteIsPlaced'
    BY <1>t, <1>1, <1>3, <1>4 DEF WriteIsPlaced
  <1>10. \A place : Settled(place) => place # writing.place /\ Settled(place)'
    BY <1>1, <1>3 DEF Settled
  <1>11. \A v : Coming(v) => Coming(v)'
    BY <1>1, <1>3 DEF Coming
  <1>12. AllKept'
    <2> SUFFICES ASSUME NEW j \in EventIds, newest'[j] # 0, j \notin failed'  PROVE Kept(j)'
      BY DEF AllKept
    <2>1. Kept(j)
      BY <1>1, <1>t DEF AllKept
    <2>2. index[j] \in {0} \cup Places
      BY <1>t DEF StoreTypes
    <2>3. CASE buffered[j] = newest[j] /\ Coming(newest[j])
      <3>1. Coming(newest[j])'
        BY <2>3, <1>1, <1>11
      <3> QED
        BY <2>3, <3>1, <1>1 DEF Kept
    <2>4. CASE buffered[j] = 0 /\ index[j] # 0 /\ file[index[j]] = newest[j] /\ Settled(index[j])
      <3>1. Settled(index[j])' /\ index[j] # writing.place
        BY <2>4, <1>1, <1>10
      <3>2. file'[index[j]] = newest[j]
        BY <2>2, <2>4, <3>1, <1>4
      <3> QED
        BY <2>4, <3>1, <3>2, <1>1 DEF Kept
    <2> QED
      BY <2>1, <2>3, <2>4 DEF Kept
  <1>13. ReadsAreSafe'
    <2> SUFFICES ASSUME NEW r \in Readers, reads'[r].sure
                 PROVE  (/\ reads[r].place \in Places /\ Settled(reads[r].place)
                         /\ file[reads[r].place] # 0
                         /\ idOf[file[reads[r].place]] = reads[r].id)'
      BY DEF ReadsAreSafe
    <2>1. /\ reads[r].place \in Places /\ Settled(reads[r].place)
          /\ file[reads[r].place] # 0 /\ idOf[file[reads[r].place]] = reads[r].id
      BY <1>t, <1>1 DEF ReadsAreSafe
    <2>2. Settled(reads[r].place)' /\ reads[r].place # writing.place
      BY <2>1, <1>1, <1>10
    <2>3. file'[reads[r].place] = file[reads[r].place]
      BY <2>1, <2>2, <1>4
    <2> QED
      BY <2>1, <2>2, <2>3, <1>1
  <1> QED
    BY <1>6, <1>7, <1>8, <1>9, <1>12, <1>13 DEF StoreInv

\* Emptying the index and the queue keeps the invariant, wherever the file is left.
LEMMA EmptiedKeeps ==
  ASSUME StoreInv, Emptied, UNCHANGED <<idOf, writing, failed>>,
         file' \in [Places -> {0} \cup Versions] /\ \A p \in Places : file'[p] <= Len(idOf),
         writeOffset' \in Nat /\ writeOffset' <= Len(idOf),
         capped' \in BOOLEAN /\ life' \in {"unopened", "open", "disposed"}
  PROVE  StoreInv'
  <1>t. StoreTypes
    BY DEF StoreInv
  <1>1. /\ index' = NoneStored /\ buffered' = NoneStored /\ newest' = NoneStored
        /\ writeQueue' = <<>>
        /\ reads' = [r \in Readers |-> [reads[r] EXCEPT !.sure = FALSE]]
    BY DEF Emptied
  <1>2. writeQueue' \in Seq(Nat) /\ Len(writeQueue') = 0
    BY <1>1, NoVersions
  <1>3. reads \in [Readers -> [id : EventIds \cup {NoEvent}, place : Nat, sure : BOOLEAN]]
    BY <1>t DEF StoreTypes
  <1>4. /\ reads' \in [Readers -> [id : EventIds \cup {NoEvent}, place : Nat, sure : BOOLEAN]]
        /\ \A r \in Readers : ~reads'[r].sure
    BY <1>1, <1>3
  <1>5. /\ \A j \in EventIds : index'[j] = 0 /\ buffered'[j] = 0 /\ newest'[j] = 0
        /\ buffered' \in [EventIds -> {0} \cup Versions] /\ newest' \in [EventIds -> {0} \cup Versions]
        /\ index' \in [EventIds -> {0} \cup Places]
    BY <1>1 DEF NoneStored
  <1>6. StoreTypes'
    <2>1. Stored' = Stored
      BY DEF Stored
    <2>2. \A i \in 1..Len(writeQueue') : writeQueue'[i] \in Stored
      BY <1>2
    <2>3. /\ idOf \in Seq(EventIds) /\ Len(idOf) <= MaxPuts /\ failed \in SUBSET EventIds
          /\ writing \in [version : Nat, place : Nat, landed : BOOLEAN]
          /\ writing.version # 0 => writing.version \in Stored /\ writing.place \in Places
          /\ writing.version = 0 => writing = NotWriting
      BY <1>t DEF StoreTypes
    <2> QED
      BY <1>2, <1>4, <1>5, <2>1, <2>2, <2>3 DEF StoreTypes
  <1>7. Room'
    BY <1>2 DEF Room
  <1>8. QueueInOrder'
    BY <1>1, <1>2 DEF QueueInOrder
  <1>9. NewestIsNewest' /\ AllKept'
    BY <1>5 DEF NewestIsNewest, AllKept
  <1>10. WriteIsPlaced'
    <2>1. writing.version # 0 => idOf[writing.version] \in EventIds
      BY <1>t DEF StoreTypes, Stored
    <2> QED
      BY <2>1, <1>5 DEF WriteIsPlaced
  <1>11. ReadsAreSafe'
    BY <1>4 DEF ReadsAreSafe
  <1> QED
    BY <1>6, <1>7, <1>8, <1>9, <1>10, <1>11 DEF StoreInv

\* A step that only changes reads keeps what the invariant says of the rest.
LEMMA ReadingKeeps ==
  ASSUME StoreInv,
         UNCHANGED <<idOf, buffered, writeQueue, writing, writeOffset, index, file, life,
                     newest, failed>>,
         capped' \in BOOLEAN,
         reads' \in [Readers -> [id : EventIds \cup {NoEvent}, place : Nat, sure : BOOLEAN]],
         ReadsAreSafe'
  PROVE  StoreInv'
  <1>t. StoreTypes /\ Room /\ QueueInOrder /\ NewestIsNewest /\ WriteIsPlaced /\ AllKept
    BY DEF StoreInv
  <1>1. StoreTypes'
    BY <1>t DEF StoreTypes, Stored
  <1>2. Room' /\ QueueInOrder' /\ WriteIsPlaced'
    BY <1>t DEF Room, QueueInOrder, WriteIsPlaced
  <1>3. NewestIsNewest'
    BY <1>t DEF NewestIsNewest, Stored
  <1>4. AllKept'
    BY <1>t DEF AllKept, Kept, Coming, Settled
  <1> QED
    BY <1>1, <1>2, <1>3, <1>4 DEF StoreInv

\* A read that begins goes to the newest version's place, which is settled.
LEMMA GetKeeps ==
  ASSUME StoreInv, NEW r \in Readers, NEW id \in EventIds, Get(r, id)  PROVE StoreInv'
  <1>0. MaxPuts \in Nat
    BY StoreAssumption
  <1>t. StoreTypes /\ NewestIsNewest /\ AllKept /\ ReadsAreSafe
    BY DEF StoreInv
  <1>n. /\ reads \in [Readers -> [id : EventIds \cup {NoEvent}, place : Nat, sure : BOOLEAN]]
        /\ index[id] \in {0} \cup Places /\ capped \in BOOLEAN
    BY <1>t DEF StoreTypes
  <1>1. /\ buffered[id] = 0 /\ index[id] # 0
        /\ reads' = [reads EXCEPT ![r] =
                       [id |-> id, place |-> index[id], sure |-> id \notin failed]]
        /\ UNCHANGED <<idOf, buffered, writeQueue, writing, writeOffset, capped, index, file, life,
                       newest, failed>>
    BY DEF Get
  <1>2. index[id] \in Places /\ index[id] \in Nat
    BY <1>n, <1>1, <1>0 DEF Places
  <1>3. reads' \in [Readers -> [id : EventIds \cup {NoEvent}, place : Nat, sure : BOOLEAN]]
    BY <1>n, <1>1, <1>2
  <1>4. ReadsAreSafe'
    <2> SUFFICES ASSUME NEW s \in Readers, reads'[s].sure
                 PROVE  (/\ reads[s].place \in Places /\ Settled(reads[s].place)
                         /\ file[reads[s].place] # 0
                         /\ idOf[file[reads[s].place]] = reads[s].id)'
      BY DEF ReadsAreSafe
    <2>1. CASE s = r
      <3>1. reads'[s].id = id /\ reads'[s].place = index[id] /\ (reads'[s].sure <=> id \notin failed)
        BY <2>1, <1>n, <1>1
      <3>2. id \notin failed
        BY <3>1
      <3>3. newest[id] # 0 /\ idOf[newest[id]] = id
        BY <1>t, <1>1 DEF NewestIsNewest
      <3>4. Kept(id)
        BY <3>2, <3>3, <1>t DEF AllKept
      <3>5. file[index[id]] = newest[id] /\ Settled(index[id])
        BY <3>3, <3>4, <1>1 DEF Kept
      <3>6. Settled(reads[s].place)'
        BY <3>1, <3>5, <1>1 DEF Settled
      <3> QED
        BY <3>1, <3>3, <3>5, <3>6, <1>1, <1>2
    <2>2. CASE s # r
      <3>1. reads'[s] = reads[s]
        BY <2>2, <1>n, <1>1
      <3>2. reads[s].sure
        BY <3>1
      <3>3. /\ reads[s].place \in Places /\ Settled(reads[s].place)
            /\ file[reads[s].place] # 0 /\ idOf[file[reads[s].place]] = reads[s].id
        BY <3>2, <1>t DEF ReadsAreSafe
      <3>4. Settled(reads[s].place)'
        BY <3>1, <3>3, <1>1 DEF Settled
      <3> QED
        BY <3>1, <3>3, <3>4, <1>1
    <2> QED
      BY <2>1, <2>2
  <1> QED
    BY <1>1, <1>3, <1>4, <1>n, ReadingKeeps

\* A read that ends keeps the invariant.
LEMMA GetDoneKeeps ==
  ASSUME StoreInv, NEW r \in Readers, GetDone(r)  PROVE StoreInv'
  <1>t. StoreTypes /\ ReadsAreSafe
    BY DEF StoreInv
  <1>n. /\ reads \in [Readers -> [id : EventIds \cup {NoEvent}, place : Nat, sure : BOOLEAN]]
        /\ capped \in BOOLEAN
    BY <1>t DEF StoreTypes
  <1>1. /\ reads' = [reads EXCEPT ![r] = NotReading]
        /\ UNCHANGED <<idOf, buffered, writeQueue, writing, writeOffset, capped, index, file, life,
                       newest, failed>>
    BY DEF GetDone
  <1>2. /\ reads' \in [Readers -> [id : EventIds \cup {NoEvent}, place : Nat, sure : BOOLEAN]]
        /\ ~reads'[r].sure /\ \A s \in Readers : s # r => reads'[s] = reads[s]
    BY <1>n, <1>1 DEF NotReading
  <1>3. ReadsAreSafe'
    <2> SUFFICES ASSUME NEW s \in Readers, reads'[s].sure
                 PROVE  (/\ reads[s].place \in Places /\ Settled(reads[s].place)
                         /\ file[reads[s].place] # 0
                         /\ idOf[file[reads[s].place]] = reads[s].id)'
      BY DEF ReadsAreSafe
    <2>1. reads'[s] = reads[s]
      BY <1>2
    <2>2. reads[s].sure
      BY <2>1
    <2>3. /\ reads[s].place \in Places /\ Settled(reads[s].place)
          /\ file[reads[s].place] # 0 /\ idOf[file[reads[s].place]] = reads[s].id
      BY <2>2, <1>t DEF ReadsAreSafe
    <2>4. Settled(reads[s].place)'
      BY <2>1, <2>3, <1>1 DEF Settled
    <2> QED
      BY <2>1, <2>3, <2>4, <1>1
  <1> QED
    BY <1>1, <1>2, <1>3, <1>n, ReadingKeeps

\* remove keeps it: nothing is claimed of the event until it is stored again, and then
\* of a newer version than any that may still be written.
LEMMA ForgetKeeps ==
  ASSUME StoreInv, NEW id \in EventIds, Forget(id)  PROVE StoreInv'
  <1>t. StoreTypes /\ Room /\ QueueInOrder /\ NewestIsNewest /\ WriteIsPlaced /\ AllKept /\ ReadsAreSafe
    BY DEF StoreInv
  <1>1. /\ index' = [index EXCEPT ![id] = 0] /\ buffered' = [buffered EXCEPT ![id] = 0]
        /\ newest' = [newest EXCEPT ![id] = 0]
        /\ UNCHANGED <<idOf, writeQueue, writing, writeOffset, capped, file, life, reads, failed>>
    BY DEF Forget
  <1>2. /\ buffered \in [EventIds -> {0} \cup Versions] /\ newest \in [EventIds -> {0} \cup Versions]
        /\ index \in [EventIds -> {0} \cup Places]
    BY <1>t DEF StoreTypes
  <1>3. /\ buffered' \in [EventIds -> {0} \cup Versions] /\ newest' \in [EventIds -> {0} \cup Versions]
        /\ index' \in [EventIds -> {0} \cup Places]
        /\ buffered'[id] = 0 /\ newest'[id] = 0 /\ index'[id] = 0
        /\ \A j \in EventIds : j # id => /\ buffered'[j] = buffered[j] /\ newest'[j] = newest[j]
                                         /\ index'[j] = index[j]
    BY <1>1, <1>2
  <1>4. StoreTypes'
    BY <1>t, <1>1, <1>3 DEF StoreTypes, Stored
  <1>5. Room' /\ QueueInOrder'
    BY <1>t, <1>1 DEF Room, QueueInOrder
  <1>6. NewestIsNewest'
    BY <1>t, <1>1, <1>3 DEF NewestIsNewest, Stored
  <1>7. WriteIsPlaced'
    <2>1. writing.version # 0 => idOf[writing.version] \in EventIds
      BY <1>t DEF StoreTypes, Stored
    <2>2. writing.version # 0 /\ newest'[idOf[writing.version]] = writing.version =>
            newest[idOf[writing.version]] = writing.version
      BY <2>1, <1>3
    <2> QED
      BY <2>2, <1>t, <1>1 DEF WriteIsPlaced
  <1>8. AllKept'
    <2> SUFFICES ASSUME NEW j \in EventIds, newest'[j] # 0, j \notin failed'  PROVE Kept(j)'
      BY DEF AllKept
    <2>1. j # id
      BY <1>3
    <2>2. Kept(j)
      BY <2>1, <1>1, <1>3, <1>t DEF AllKept
    <2>3. buffered'[j] = buffered[j] /\ newest'[j] = newest[j] /\ index'[j] = index[j]
      BY <2>1, <1>3
    <2> QED
      BY <2>2, <2>3, <1>1 DEF Kept, Coming, Settled
  <1>9. ReadsAreSafe'
    BY <1>t, <1>1 DEF ReadsAreSafe, Settled
  <1> QED
    BY <1>4, <1>5, <1>6, <1>7, <1>8, <1>9 DEF StoreInv

\* Every step of the store keeps the invariant.
LEMMA StoreInvStep ==
  StoreInv /\ [StoreNext]_storeVars => StoreInv'
  <1> SUFFICES ASSUME StoreInv, [StoreNext]_storeVars  PROVE StoreInv'
    OBVIOUS
  <1>0. MaxPuts \in Nat
    BY StoreAssumption
  <1>t. StoreTypes /\ Room /\ ReadsAreSafe
    BY DEF StoreInv
  <1>n. /\ reads \in [Readers -> [id : EventIds \cup {NoEvent}, place : Nat, sure : BOOLEAN]]
        /\ capped \in BOOLEAN /\ life \in {"unopened", "open", "disposed"}
        /\ file \in [Places -> {0} \cup Versions] /\ \A p \in Places : file[p] <= Len(idOf)
        /\ writeOffset \in Nat /\ Len(idOf) \in Nat /\ Len(writeQueue) \in Nat
    BY <1>t DEF StoreTypes
  <1>1. CASE \E id \in EventIds : Put(id) \/ Forget(id)
    BY <1>1, PutKeeps, ForgetKeeps
  <1>2. CASE PutCapped
    <2>1. /\ UNCHANGED <<idOf, buffered, writeQueue, writing, writeOffset, index, file, life,
                         newest, failed>>
          /\ capped' \in BOOLEAN /\ reads' = reads
      BY <1>2 DEF PutCapped
    <2>2. ReadsAreSafe'
      BY <1>t, <2>1 DEF ReadsAreSafe, Settled
    <2> QED
      BY <1>n, <2>1, <2>2, ReadingKeeps
  <1>3. CASE WriteLands
    BY <1>3, WriteLandsKeeps
  <1>4. CASE WriteDone
    BY <1>4, WriteDoneKeeps
  <1>5. CASE WriteFailed
    BY <1>5, WriteFailedKeeps
  <1>6. CASE Clear
    <2>1. /\ Emptied /\ file' = [p \in Places |-> 0] /\ writeOffset' = 0 /\ capped' = FALSE
          /\ UNCHANGED <<idOf, writing, life, failed>>
      BY <1>6 DEF Clear
    <2>2. /\ file' \in [Places -> {0} \cup Versions] /\ \A p \in Places : file'[p] <= Len(idOf)
          /\ writeOffset' \in Nat /\ writeOffset' <= Len(idOf)
      BY <2>1, <1>n
    <2> QED
      BY <1>n, <2>1, <2>2, EmptiedKeeps
  <1>7. CASE Dispose
    <2>1. /\ Emptied /\ life' = "disposed"
          /\ UNCHANGED <<idOf, writing, writeOffset, capped, file, failed>>
      BY <1>7 DEF Dispose
    <2>2. writeOffset <= Len(idOf)
      BY <1>t, <1>n DEF Room
    <2> QED
      BY <1>n, <2>1, <2>2, EmptiedKeeps
  <1>8. CASE \E r \in Readers : GetDone(r) \/ \E id \in EventIds : Get(r, id)
    BY <1>8, GetDoneKeeps, GetKeeps
  <1>9. CASE UNCHANGED storeVars
    <2>1. UNCHANGED <<idOf, buffered, writeQueue, writing, writeOffset, capped, index, file, life,
                      reads, newest, failed>>
      BY <1>9 DEF storeVars
    <2>2. ReadsAreSafe'
      BY <1>t, <2>1 DEF ReadsAreSafe, Settled
    <2> QED
      BY <1>n, <2>1, <2>2, ReadingKeeps
  <1> QED
    BY <1>1, <1>2, <1>3, <1>4, <1>5, <1>6, <1>7, <1>8, <1>9 DEF StoreNext

\* The inductive invariant holds in every run of the store.
THEOREM StoreInvariant == StoreSpec => []StoreInv
  BY StoreInitInv, StoreInvStep, PTL DEF StoreSpec

\* The newest version of an event is always found by get, in memory or in the file at
\* the event's place, in whatever order puts, writes, removals and clears come.
THEOREM StoredIsFoundHolds == StoreSpec => []StoredIsFound
  <1>1. StoreInv => StoredIsFound
    BY DEF StoreInv, AllKept, Kept, StoredIsFound
  <1> QED
    BY <1>1, StoreInvariant, PTL

\* A read in flight never gives another event's record, unless a clear came meanwhile.
THEOREM ReadsOwnEventHolds == StoreSpec => []ReadsOwnEvent
  <1>1. StoreInv => ReadsOwnEvent
    BY DEF StoreInv, ReadsAreSafe, ReadsOwnEvent
  <1> QED
    BY <1>1, StoreInvariant, PTL

\* The store's variables keep their types.
THEOREM StoreTypeCorrect == StoreSpec => []StoreTypeOK
  <1>1. StoreInv => StoreTypeOK
    <2> SUFFICES ASSUME StoreInv  PROVE StoreTypeOK
      OBVIOUS
    <2>1. StoreTypes /\ Room
      BY DEF StoreInv
    <2>2. /\ MaxPuts \in Nat /\ Len(idOf) \in Nat /\ Len(idOf) <= MaxPuts
          /\ Len(writeQueue) \in Nat /\ writeOffset \in Nat
      BY <2>1, StoreAssumption DEF StoreTypes
    <2>3. Stored \subseteq Versions /\ \A v \in 1..Len(idOf) : idOf[v] \in EventIds
      BY <2>1, <2>2 DEF StoreTypes, Stored, Versions
    <2>4. \A i \in 1..Len(writeQueue) : writeQueue[i] \in Versions
      BY <2>1, <2>3 DEF StoreTypes
    <2>5. writing.version \in 0..Len(idOf) /\ writing.place \in {0} \cup Places
      BY <2>1, <2>2 DEF StoreTypes, Stored, NotWriting
    <2>6. writeOffset \in 0..MaxPuts
      BY <2>1, <2>2 DEF Room
    <2>7. \A r \in Readers : reads[r].id \in EventIds \cup {NoEvent}
      BY <2>1 DEF StoreTypes
    <2> QED
      BY <2>1, <2>3, <2>4, <2>5, <2>6, <2>7 DEF StoreTypes, StoreTypeOK
  <1> QED
    BY <1>1, StoreInvariant, PTL

-----------------------------------------------------------------------------
(***************************************************************************)
(* The six parts together.  They share no variable, so a step of the whole *)
(* is a step or a stutter of each part, and each keeps its promises.       *)
(***************************************************************************)
LEMMA PartsStep ==
  [ServicesNext]_servicesVars =>
    /\ [PoolNext]_poolVars /\ [HeldNext]_heldVars /\ [RelayNext]_relayVars
    /\ [VideoNext]_videoVars /\ [RelayRunNext]_relayRunVars /\ [StoreNext]_storeVars
  BY DEF ServicesNext, servicesVars

\* The whole runs each of its parts as its own specification says.
THEOREM PartsAreParts ==
  ServicesSpec => PoolSpec /\ HeldSpec /\ RelaySpec /\ VideoSpec /\ RelayRunSpec /\ StoreSpec
  <1>1. ServicesInit => /\ PoolInit /\ HeldInit /\ RelayInit /\ VideoInit /\ RelayRunInit
                        /\ StoreInit
    BY DEF ServicesInit
  <1> QED
    BY <1>1, PartsStep, PTL
       DEF ServicesSpec, PoolSpec, HeldSpec, RelaySpec, VideoSpec, RelayRunSpec, StoreSpec

\* The sideload relay's variables keep their types: no more caps are lost than there
\* were fan-outs.
THEOREM RelayRunTypeCorrect == RelayRunSpec => []RelayRunTypeOK
  <1>1. /\ RunFlags /\ CapsCounted /\ RunTables /\ [RelayRunNext]_relayRunVars
             => (RunFlags /\ CapsCounted /\ RunTables)'
    BY RunFlagsStep, CapsStep, RunTablesStep
  <1> QED
    BY <1>1, RunInitTypes, RelayRunTypes, PTL DEF RelayRunSpec

\* In the whole, the variables of every part keep their types.
THEOREM ServicesTypeCorrect == ServicesSpec => []ServicesTypeOK
  <1>1. PoolInv => PoolTypeOK
    BY DEF PoolInv
  <1>2. HeldInv => HeldTypeOK
    BY DEF HeldInv
  <1>3. RelayInv => RelayTypeOK
    BY DEF RelayInv
  <1>4. VideoInv => VideoTypeOK
    BY DEF VideoInv
  <1> QED
    BY <1>1, <1>2, <1>3, <1>4, PartsAreParts, PoolInvariant, HeldInvariant, RelayInvariant,
       VideoInvariant, RelayRunTypeCorrect, StoreTypeCorrect, PTL DEF ServicesTypeOK
=============================================================================
