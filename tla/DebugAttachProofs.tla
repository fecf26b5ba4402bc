------------------------- MODULE DebugAttachProofs -------------------------
(***************************************************************************)
(* What DebugAttach promises, for any number of attach calls and any       *)
(* number of attempts.  Neither SessionIsUsable nor OneLiveClient is       *)
(* inductive: that no two runs overlap, and never beside a session, that   *)
(* what detach has forgotten is nobody's client any more, and that every   *)
(* client that lives is accounted for, is what both rest on.               *)
(***************************************************************************)
EXTENDS DebugAttach, FiniteSetTheorems, TLAPS

\* The guard of attach, seen from what it protects: the run that is under way is the
\* only one, the map says so, and there is no session beside it.
OneRun ==
  /\ \A r \in AttachRuns : phase[r] # "idle" => attaching
  /\ \A r, s \in AttachRuns : phase[r] # "idle" /\ phase[s] # "idle" => r = s
  /\ attaching => session = 0

\* The clients without a socket are those that have not been created; nobody knows them.
Unborn ==
  \A k \in ClientIds :
    /\ sock[k] = "none" <=> k >= next
    /\ k >= next => k \notin leaving \cup hung /\ k # slot

\* The client of an attempt is not one that detach has yet to destroy, and neither
\* is the session's.
NotLeaving ==
  /\ session \notin leaving
  /\ \A r \in AttachRuns : phase[r] = "connecting" => client[r] \in ClientIds \ leaving

\* A client that lives is the session's or the present attempt's, or on its way out.
Tried(k) == \E r \in AttachRuns : phase[r] = "connecting" /\ client[r] = k

Accounted ==
  \A k \in ClientIds : sock[k] # "none" /\ ~ended[k] => k \in leaving \/ k = session \/ Tried(k)

AttachInv == AttachTypeOK /\ OneRun /\ Unborn /\ NotLeaving /\ Accounted /\ SessionIsUsable

USE ClientsAssumption DEF ClientIds

-----------------------------------------------------------------------------
\* The types.

Flags == attaching \in BOOLEAN /\ ended \in [ClientIds -> BOOLEAN]

LEMMA InitInv == AttachInit => AttachInv
<1> SUFFICES ASSUME AttachInit PROVE AttachInv
  OBVIOUS
<1>1. Flags
  BY Zenon DEF AttachInit, Flags
<1>2. AttachTypeOK
  BY <1>1 DEF AttachInit, AttachTypeOK, Flags, Phases, Shown
<1>3. OneRun /\ Unborn /\ NotLeaving /\ Accounted /\ SessionIsUsable
  BY DEF AttachInit, OneRun, Unborn, NotLeaving, Accounted, SessionIsUsable
<1>4. QED
  BY <1>2, <1>3 DEF AttachInv

LEMMA AttemptFailedType ==
  ASSUME AttachTypeOK, NEW r \in AttachRuns,
         NEW sockets \in [ClientIds -> {"none", "opening", "open", "closed"}],
         AttemptFailed(r, sockets)
  PROVE  /\ sock' \in [ClientIds -> {"none", "opening", "open", "closed"}]
         /\ phase' \in [AttachRuns -> Phases]
         /\ ended' \in [ClientIds -> BOOLEAN]
<1>1. ended' \in [ClientIds -> BOOLEAN]
  BY Zenon DEF AttachTypeOK, AttemptFailed
<1>2. QED
  BY <1>1 DEF AttachTypeOK, AttemptFailed, Phases

LEMMA AttachingStep == attaching \in BOOLEAN /\ [AttachNext]_attachVars => attaching' \in BOOLEAN
  BY Zenon DEF AttachNext, attachVars, controllerVars, StartAttach, Handshake,
     AttemptTimeout, Retry, DeadlinePassed, GiveUp, Refused, Accepted, FinishDetach, Closed,
     StartDetach, DeviceLaunch, DeviceHangUp, DeviceFree

LEMMA TypeStep == AttachTypeOK /\ [AttachNext]_attachVars => AttachTypeOK'
<1> SUFFICES ASSUME AttachTypeOK, [AttachNext]_attachVars PROVE AttachTypeOK'
  OBVIOUS
<1>a. attaching' \in BOOLEAN
  BY AttachingStep DEF AttachTypeOK
<1> USE <1>a
<1>1. CASE UNCHANGED attachVars
  BY <1>1 DEF AttachTypeOK, attachVars, controllerVars, attemptVars, deviceVars
<1>2. ASSUME NEW r \in AttachRuns, StartAttach(r) \/ Retry(r) PROVE AttachTypeOK'
  <2>1. next' \in 1..(MaxClients + 1)
    BY <1>2 DEF AttachTypeOK, StartAttach, Retry, Attempt
  <2>2. /\ next \in ClientIds
        /\ client' = [client EXCEPT ![r] = next]
        /\ phase' = [phase EXCEPT ![r] = "connecting"]
        /\ sock' = [sock EXCEPT ![next] = "opening"]
    BY <1>2 DEF StartAttach, Retry, Attempt
  <2>3. /\ client' \in [AttachRuns -> {0} \cup ClientIds]
        /\ phase' \in [AttachRuns -> Phases]
        /\ sock' \in [ClientIds -> {"none", "opening", "open", "closed"}]
    BY <2>2 DEF AttachTypeOK, Phases
  <2>4. QED
    BY <1>2, <2>1, <2>3 DEF AttachTypeOK, StartAttach, Retry, deviceVars, Shown
<1>3. ASSUME NEW r \in AttachRuns, Handshake(r) \/ DeadlinePassed(r) \/ GiveUp(r) PROVE AttachTypeOK'
  BY <1>3 DEF AttachTypeOK, Handshake, DeadlinePassed, GiveUp, attemptVars, deviceVars,
     Phases, Shown
<1>4. ASSUME NEW r \in AttachRuns, AttemptTimeout(r) PROVE AttachTypeOK'
  <2>1. DestroyedSocket(client[r]) \in [ClientIds -> {"none", "opening", "open", "closed"}]
    BY DEF AttachTypeOK, DestroyedSocket
  <2>2. QED
    BY <1>4, <2>1, AttemptFailedType DEF AttachTypeOK, AttemptTimeout, deviceVars
<1>5. ASSUME NEW k \in ClientIds, Refused(k) PROVE AttachTypeOK'
  <2>1. [sock EXCEPT ![k] = "closed"] \in [ClientIds -> {"none", "opening", "open", "closed"}]
    BY DEF AttachTypeOK
  <2>2. QED
    BY <1>5, <2>1, AttemptFailedType DEF AttachTypeOK, Refused, deviceVars
<1>6. ASSUME NEW k \in ClientIds, Accepted(k) PROVE AttachTypeOK'
  BY <1>6 DEF AttachTypeOK, Accepted, controllerVars
<1>7. ASSUME NEW k \in ClientIds, FinishDetach(k) PROVE AttachTypeOK'
  <2>1. ended' \in [ClientIds -> BOOLEAN]
    BY <1>7, Zenon DEF AttachTypeOK, FinishDetach
  <2>2. QED
    BY <1>7, <2>1 DEF AttachTypeOK, FinishDetach, DestroyedSocket, deviceVars, Shown
<1>8. ASSUME NEW k \in ClientIds, Closed(k) PROVE AttachTypeOK'
  <2>1. ended' \in [ClientIds -> BOOLEAN]
    BY <1>8, Zenon DEF AttachTypeOK, Closed
  <2>2. QED
    BY <1>8, <2>1 DEF AttachTypeOK, Closed, ForgetClient, Shown
<1>9. CASE StartDetach
  BY <1>9 DEF AttachTypeOK, StartDetach, attemptVars, deviceVars
<1>10. CASE DeviceLaunch \/ DeviceHangUp \/ DeviceFree
  BY <1>10 DEF AttachTypeOK, DeviceLaunch, DeviceHangUp, DeviceFree, controllerVars,
     attemptVars
<1>11. QED
  BY <1>1, <1>2, <1>3, <1>4, <1>5, <1>6, <1>7, <1>8, <1>9, <1>10 DEF AttachNext

\* The types of the controller, the clients and the device, in every reachable state.
THEOREM AttachTypeCorrect == AttachSpec => []AttachTypeOK
  BY InitInv, TypeStep, PTL DEF AttachSpec, AttachInv

-----------------------------------------------------------------------------
\* The invariant, one conjunct after the other.

LEMMA OneRunStep == AttachInv /\ [AttachNext]_attachVars => OneRun'
<1> SUFFICES ASSUME AttachInv, [AttachNext]_attachVars PROVE OneRun'
  OBVIOUS
<1> USE DEF AttachInv, OneRun
<1>0. phase \in [AttachRuns -> Phases]
  BY DEF AttachTypeOK
<1>1. ASSUME UNCHANGED <<phase, attaching>>, session' \in {0, session} PROVE OneRun'
  BY <1>1
<1>2. ASSUME NEW r \in AttachRuns, StartAttach(r) PROVE OneRun'
  BY <1>0, <1>2 DEF StartAttach, CanAttach, Attempt
<1>3. ASSUME NEW r \in AttachRuns, Handshake(r) \/ GiveUp(r) PROVE OneRun'
  BY <1>0, <1>3 DEF Handshake, GiveUp
<1>4. ASSUME NEW r \in AttachRuns, NEW p \in Phases, phase[r] # "idle",
             phase' = [phase EXCEPT ![r] = p], UNCHANGED <<attaching, session>>
      PROVE  OneRun'
  BY <1>0, <1>4
<1>5. ASSUME NEW r \in AttachRuns, AttemptTimeout(r) \/ Retry(r) \/ DeadlinePassed(r) PROVE OneRun'
  BY <1>4, <1>5 DEF AttemptTimeout, Retry, DeadlinePassed, AttemptFailed, Attempt, Phases
<1>6. ASSUME NEW k \in ClientIds, Refused(k) PROVE OneRun'
  BY <1>1, <1>4, <1>6 DEF Refused, AttemptFailed, Phases
<1>7. QED
  BY <1>1, <1>2, <1>3, <1>5, <1>6 DEF AttachNext, attachVars, controllerVars, attemptVars,
     deviceVars, Accepted, FinishDetach, Closed, ForgetClient, StartDetach, DeviceLaunch,
     DeviceHangUp, DeviceFree

LEMMA UnbornStep == AttachInv /\ [AttachNext]_attachVars => Unborn'
<1> SUFFICES ASSUME AttachInv, [AttachNext]_attachVars, NEW k \in ClientIds
             PROVE  /\ sock'[k] = "none" <=> k >= next'
                    /\ k >= next' => k \notin leaving' \cup hung' /\ k # slot'
  BY DEF Unborn
<1> USE DEF AttachInv, AttachTypeOK
<1>1. k >= next' => k >= next
  BY DEF AttachNext, attachVars, controllerVars, attemptVars, deviceVars, StartAttach,
     Retry, Attempt, Handshake, AttemptTimeout, DeadlinePassed, GiveUp, AttemptFailed,
     Refused, Accepted, FinishDetach, Closed, StartDetach, DeviceLaunch, DeviceHangUp,
     DeviceFree
<1>2. k >= next => sock[k] = "none" /\ k \notin leaving \cup hung /\ k # slot
  BY DEF Unborn
<1>3. sock'[k] = "none" <=> k >= next'
  <2>1. ASSUME NEW r \in AttachRuns, StartAttach(r) \/ Retry(r) PROVE sock'[k] = "none" <=> k >= next'
    BY <2>1 DEF StartAttach, Retry, Attempt, Unborn
  <2>2. CASE \A r \in AttachRuns : ~(StartAttach(r) \/ Retry(r))
    <3>1. next' = next
      BY <2>2 DEF AttachNext, attachVars, controllerVars, attemptVars, deviceVars,
         StartAttach, Retry, Attempt, Handshake, AttemptTimeout, DeadlinePassed, GiveUp,
         AttemptFailed, Refused, Accepted, FinishDetach, Closed, StartDetach, DeviceLaunch,
         DeviceHangUp, DeviceFree
    <3>2. sock'[k] = "none" <=> sock[k] = "none"
      BY <1>2, <2>2 DEF AttachNext, attachVars, controllerVars, attemptVars, deviceVars,
         StartAttach, Retry, Attempt, Handshake, AttemptTimeout, DeadlinePassed, GiveUp,
         AttemptFailed, Refused, Accepted, FinishDetach, Closed, StartDetach, DeviceLaunch,
         DeviceHangUp, DeviceFree, DestroyedSocket, Unborn
    <3>3. QED
      BY <3>1, <3>2 DEF Unborn
  <2>3. QED
    BY <2>1, <2>2
<1>4. k >= next => k \notin leaving'
  BY <1>2 DEF AttachNext, attachVars, controllerVars, attemptVars, deviceVars, StartAttach,
     Retry, Attempt, Handshake, AttemptTimeout, DeadlinePassed, GiveUp, AttemptFailed,
     Refused, Accepted, FinishDetach, Closed, StartDetach, DeviceLaunch, DeviceHangUp,
     DeviceFree, SessionIsUsable
<1>5. k >= next => k \notin hung' /\ k # slot'
  BY <1>2 DEF AttachNext, attachVars, controllerVars, attemptVars, deviceVars, StartAttach,
     Retry, Attempt, Handshake, AttemptTimeout, DeadlinePassed, GiveUp, AttemptFailed,
     Refused, Accepted, FinishDetach, Closed, StartDetach, DeviceLaunch, DeviceHangUp,
     DeviceFree
<1>6. QED
  BY <1>1, <1>3, <1>4, <1>5

LEMMA NotLeavingStep == AttachInv /\ [AttachNext]_attachVars => NotLeaving'
<1> SUFFICES ASSUME AttachInv, [AttachNext]_attachVars PROVE NotLeaving'
  OBVIOUS
<1> USE DEF AttachInv, AttachTypeOK
<1>1. session' \notin leaving'
  BY DEF NotLeaving, AttachNext, attachVars, controllerVars, attemptVars, deviceVars,
     StartAttach, Retry, Attempt, Handshake, AttemptTimeout, DeadlinePassed, GiveUp,
     AttemptFailed, Refused, Accepted, FinishDetach, Closed, ForgetClient, StartDetach,
     DeviceLaunch, DeviceHangUp, DeviceFree
<1>2. SUFFICES ASSUME NEW r \in AttachRuns, phase'[r] = "connecting"
               PROVE  client'[r] \in ClientIds \ leaving'
  BY <1>1 DEF NotLeaving
<1>3. CASE StartAttach(r) \/ Retry(r)
  BY <1>3 DEF StartAttach, Retry, Attempt, Unborn
<1>4. CASE ~(StartAttach(r) \/ Retry(r))
  <2>1. phase[r] = "connecting" /\ client'[r] = client[r]
    BY <1>2, <1>4 DEF AttachNext, attachVars, controllerVars, attemptVars, deviceVars,
       StartAttach, Retry, Attempt, Handshake, AttemptTimeout, DeadlinePassed, GiveUp,
       AttemptFailed, Refused, Accepted, FinishDetach, Closed, StartDetach, DeviceLaunch,
       DeviceHangUp, DeviceFree, Phases
  <2>2. client[r] \in ClientIds \ leaving /\ session = 0
    BY <2>1 DEF NotLeaving, OneRun
  <2>3. leaving' \subseteq leaving
    BY <2>2 DEF AttachNext, attachVars, controllerVars, attemptVars, deviceVars,
       StartAttach, Retry, Attempt, Handshake, AttemptTimeout, DeadlinePassed, GiveUp,
       AttemptFailed, Refused, Accepted, FinishDetach, Closed, StartDetach, DeviceLaunch,
       DeviceHangUp, DeviceFree
  <2>4. QED
    BY <2>1, <2>2, <2>3
<1>5. QED
  BY <1>3, <1>4

\* A client that has ended stays so.
LEMMA EndsForGood ==
  ASSUME AttachTypeOK, [AttachNext]_attachVars, NEW k \in ClientIds, ended[k]
  PROVE  ended'[k]
<1>0. ended \in [ClientIds -> BOOLEAN]
  BY DEF AttachTypeOK
<1>1. ASSUME NEW e, ended' = [ended EXCEPT ![e] = TRUE] PROVE ended'[k]
  BY <1>0, <1>1, Zenon
<1>2. CASE UNCHANGED ended
  BY <1>2
<1>3. (UNCHANGED ended) \/ \E e : ended' = [ended EXCEPT ![e] = TRUE]
  <2>1. ASSUME NEW r \in AttachRuns, \/ StartAttach(r) \/ Handshake(r) \/ AttemptTimeout(r)
                                     \/ Retry(r) \/ DeadlinePassed(r) \/ GiveUp(r)
        PROVE  (UNCHANGED ended) \/ \E e : ended' = [ended EXCEPT ![e] = TRUE]
    BY <2>1, Zenon DEF StartAttach, Handshake, AttemptTimeout, AttemptFailed, Retry,
       DeadlinePassed, GiveUp, attemptVars
  <2>2. ASSUME NEW j \in ClientIds, Refused(j) \/ Accepted(j) \/ FinishDetach(j) \/ Closed(j)
        PROVE  (UNCHANGED ended) \/ \E e : ended' = [ended EXCEPT ![e] = TRUE]
    BY <2>2, Zenon DEF Refused, AttemptFailed, Accepted, FinishDetach, Closed
  <2>3. CASE StartDetach \/ DeviceLaunch \/ DeviceHangUp \/ DeviceFree \/ UNCHANGED attachVars
    BY <2>3, Zenon DEF StartDetach, DeviceLaunch, DeviceHangUp, DeviceFree, attachVars,
       attemptVars
  <2>4. QED
    BY <2>1, <2>2, <2>3, Zenon DEF AttachNext
<1>4. QED
  BY <1>1, <1>2, <1>3, Zenon

LEMMA AccountedStep == AttachInv /\ [AttachNext]_attachVars => Accounted'
<1> SUFFICES ASSUME AttachInv, [AttachNext]_attachVars,
                    NEW k \in ClientIds, sock'[k] # "none", ~ended'[k], k \notin leaving'
             PROVE  k = session' \/ Tried(k)'
  BY DEF Accounted
<1> USE DEF AttachInv, AttachTypeOK
<1>1. ASSUME NEW r \in AttachRuns, StartAttach(r) \/ Retry(r), k = next PROVE Tried(k)'
  BY <1>1 DEF StartAttach, Retry, Attempt, Tried
<1>2. CASE \A r \in AttachRuns : ~((StartAttach(r) \/ Retry(r)) /\ k = next)
  <2>1. sock[k] # "none"
    BY <1>2 DEF AttachNext, attachVars, controllerVars, attemptVars, deviceVars,
       StartAttach, Retry, Attempt, Handshake, AttemptTimeout, DeadlinePassed, GiveUp,
       AttemptFailed, Refused, Accepted, FinishDetach, Closed, StartDetach, DeviceLaunch,
       DeviceHangUp, DeviceFree, DestroyedSocket, Unborn
  <2>2. ~ended[k]
    BY EndsForGood, Zenon
  <2>3. CASE k \in leaving
    BY <2>3, <2>1, <2>2 DEF AttachNext, attachVars, controllerVars, attemptVars, deviceVars,
       StartAttach, Retry, Attempt, Handshake, AttemptTimeout, DeadlinePassed, GiveUp,
       AttemptFailed, Refused, Accepted, FinishDetach, Closed, StartDetach, DeviceLaunch,
       DeviceHangUp, DeviceFree
  <2>4. CASE k = session
    BY <2>4, <2>1, <2>2 DEF AttachNext, attachVars, controllerVars, attemptVars, deviceVars,
       StartAttach, Retry, Attempt, Handshake, AttemptTimeout, DeadlinePassed, GiveUp,
       AttemptFailed, Refused, Accepted, FinishDetach, Closed, StartDetach, DeviceLaunch,
       DeviceHangUp, DeviceFree, ForgetClient, OneRun
  <2>5. ASSUME NEW r \in AttachRuns, phase[r] = "connecting", client[r] = k
        PROVE  k = session' \/ Tried(k)'
    <3>1. CASE Handshake(r)
      BY <2>5, <3>1 DEF Handshake
    <3>2. ~AttemptTimeout(r) /\ ~Refused(k)
      BY <2>5 DEF AttemptTimeout, Refused, AttemptFailed
    <3>3. CASE ~Handshake(r)
      <4>1. phase'[r] = "connecting" /\ client'[r] = k
        BY <2>5, <3>2, <3>3 DEF AttachNext, attachVars, controllerVars, attemptVars,
           deviceVars, StartAttach, Retry, Attempt, Handshake, AttemptTimeout,
           DeadlinePassed, GiveUp, AttemptFailed, Refused, Accepted, FinishDetach, Closed,
           StartDetach, DeviceLaunch, DeviceHangUp, DeviceFree
      <4>2. QED
        BY <4>1 DEF Tried
    <3>4. QED
      BY <3>1, <3>3
  <2>6. QED
    BY <2>1, <2>2, <2>3, <2>4, <2>5 DEF Accounted, Tried
<1>3. QED
  BY <1>1, <1>2

LEMMA UsableStep == AttachInv /\ [AttachNext]_attachVars => SessionIsUsable'
<1> SUFFICES ASSUME AttachInv, [AttachNext]_attachVars, session' # 0
             PROVE  sock'[session'] = "open" /\ ~ended'[session']
  BY DEF SessionIsUsable
<1> USE DEF AttachInv, AttachTypeOK
<1>1. ASSUME NEW r \in AttachRuns, Handshake(r) PROVE sock'[session'] = "open" /\ ~ended'[session']
  BY <1>1 DEF Handshake, attemptVars
<1>2. CASE \A r \in AttachRuns : ~Handshake(r)
  <2>1. session' = session /\ session # 0
    BY <1>2 DEF AttachNext, attachVars, controllerVars, attemptVars, deviceVars,
       StartAttach, Retry, Attempt, AttemptTimeout, DeadlinePassed, GiveUp, AttemptFailed,
       Refused, Accepted, FinishDetach, Closed, ForgetClient, StartDetach, DeviceLaunch,
       DeviceHangUp, DeviceFree
  <2>2. sock[session] = "open" /\ ~ended[session] /\ ~attaching /\ session \notin leaving
    BY <2>1 DEF SessionIsUsable, OneRun, NotLeaving
  <2>3. \A r \in AttachRuns : phase[r] = "idle"
    BY <2>2 DEF OneRun
  <2>4. ASSUME NEW k \in ClientIds, Closed(k) PROVE k # session
    BY <2>1, <2>2, <2>4 DEF Closed, ForgetClient
  <2>5. sock'[session] = "open"
    BY <2>1, <2>2, <2>3, <2>4, <1>2 DEF AttachNext, attachVars, controllerVars, attemptVars,
       deviceVars, StartAttach, CanAttach, Retry, Attempt, AttemptTimeout, DeadlinePassed,
       GiveUp, AttemptFailed, Refused, Accepted, FinishDetach, Closed, StartDetach,
       DeviceLaunch, DeviceHangUp, DeviceFree, DestroyedSocket
  <2>6. ~ended'[session]
    BY <2>1, <2>2, <2>3, <2>4, <1>2 DEF AttachNext, attachVars, controllerVars, attemptVars,
       deviceVars, StartAttach, CanAttach, Retry, Attempt, AttemptTimeout, DeadlinePassed,
       GiveUp, AttemptFailed, Refused, Accepted, FinishDetach, Closed, StartDetach,
       DeviceLaunch, DeviceHangUp, DeviceFree
  <2>7. QED
    BY <2>1, <2>5, <2>6
<1>3. QED
  BY <1>1, <1>2

LEMMA InvHolds == AttachSpec => []AttachInv
<1>1. AttachInv /\ [AttachNext]_attachVars => AttachInv'
  BY TypeStep, OneRunStep, UnbornStep, NotLeavingStep, AccountedStep, UsableStep DEF
     AttachInv
<1>2. QED
  BY <1>1, InitInv, PTL DEF AttachSpec

\* No end, detach or retry leaves a dead session behind, for any number of attaches.
THEOREM SessionIsUsableHolds == AttachSpec => []SessionIsUsable
  BY InvHolds, PTL DEF AttachInv

\* Sessions are never stacked: what lives beside those on their way out is the
\* session's client or that of the one run there is.
THEOREM OneLiveClientHolds == AttachSpec => []OneLiveClient
<1>1. AttachInv => OneLiveClient
  <2> SUFFICES ASSUME AttachInv PROVE OneLiveClient
    OBVIOUS
  <2> DEFINE live == {k \in ClientIds \ leaving : sock[k] # "none" /\ ~ended[k]}
  <2>1. \A j, k \in live : j = k
    <3> SUFFICES ASSUME NEW j \in live, NEW k \in live PROVE j = k
      OBVIOUS
    <3>1. (j = session \/ Tried(j)) /\ (k = session \/ Tried(k))
      BY DEF AttachInv, Accounted
    <3>2. CASE j = session \/ k = session
      <4>1. session \in ClientIds /\ session # 0
        BY <3>2, SMT DEF AttachInv, AttachTypeOK
      <4>2. ~attaching
        BY <4>1, Zenon DEF AttachInv, OneRun
      <4>3. \A r \in AttachRuns : phase[r] = "idle"
        BY <4>2, Zenon DEF AttachInv, OneRun
      <4>4. ~Tried(j) /\ ~Tried(k)
        BY <4>3 DEF Tried
      <4>5. QED
        BY <3>1, <4>4
    <3>3. CASE Tried(j) /\ Tried(k)
      BY <3>3 DEF AttachInv, OneRun, Tried
    <3>4. QED
      BY <3>1, <3>2, <3>3
  <2>0. OneLiveClient <=> Cardinality(live) <= 1
    BY DEF OneLiveClient
  <2> HIDE DEF live
  <2>2. CASE live = {}
    <3>1. Cardinality(live) = 0
      BY <2>2, FS_EmptySet, Zenon
    <3>2. QED
      BY <2>0, <3>1
  <2>3. CASE live # {}
    <3>1. PICK k : live = {k}
      BY <2>1, <2>3
    <3>2. QED
      <4>1. Cardinality(live) = 1
        BY <3>1, FS_Singleton, Zenon
      <4>2. QED
        BY <2>0, <4>1
  <2>4. QED
    BY <2>2, <2>3
<1>2. QED
  BY <1>1, InvHolds, PTL

\* A session that leaves the map was detached or has ended itself: the end of an
\* earlier client that arrives late takes nothing with it.
THEOREM LateEndKeepsSessionHolds == AttachSpec => LateEndKeepsSession
<1>1. AttachInv /\ [AttachNext]_attachVars
        => [session # 0 /\ session' # session => session \in leaving' \/ ended'[session]]_attachVars
  <2> SUFFICES ASSUME AttachInv, AttachNext, session # 0, session' # session
               PROVE  session \in leaving' \/ ended'[session]
    BY DEF attachVars
  <2>1. \A r \in AttachRuns : phase[r] = "idle"
    BY DEF AttachInv, OneRun
  <2>2. StartDetach \/ \E k \in ClientIds : Closed(k) /\ k = session
    BY <2>1 DEF AttachNext, controllerVars, StartAttach, Retry, Handshake, AttemptTimeout,
       DeadlinePassed, GiveUp, Refused, Accepted, FinishDetach, Closed, ForgetClient,
       StartDetach, DeviceLaunch, DeviceHangUp, DeviceFree
  <2>3. CASE StartDetach
    BY <2>3 DEF StartDetach
  <2>4. ASSUME NEW k \in ClientIds, Closed(k), k = session PROVE ended'[session]
    BY <2>4, Zenon DEF AttachInv, AttachTypeOK, Closed
  <2>5. QED
    BY <2>2, <2>3, <2>4
<1>2. QED
  BY <1>1, InvHolds, PTL DEF AttachSpec, LateEndKeepsSession
=============================================================================
