---------------------------- MODULE DebugAttach ----------------------------
(***************************************************************************)
(* Attaching to and detaching from one device: DebugSessionController's    *)
(* sessions and attaching maps for one ip, the clients it creates, one per *)
(* attempt, and the device's control port 8081, which serves one client.   *)
(*                                                                         *)
(* The life of the session between the handshake and its end is the        *)
(* subject of DebugSession.  An action is a macrotask with the microtasks  *)
(* it makes ready: what follows a handshake, a timer or a close event up   *)
(* to the next thing the program has to wait for.                          *)
(***************************************************************************)
EXTENDS Naturals, FiniteSets

CONSTANTS
  AttachRuns,        \* executions of runAttach
  MaxClients   \* bound: attempts of all runs; a run's deadline passes with the last

ASSUME ClientsAssumption == MaxClients \in Nat

ClientIds == 1..MaxClients

VARIABLES
  \* DebugSessionController
  session,     \* client of sessions.get(ip), 0 for none
  attaching,   \* attaching.has(ip): runs that have not settled
  leaving,     \* clients detach has forgotten and not destroyed yet
  phase,       \* where each run is
  client,      \* the client of its present attempt
  shown,       \* the state last emitted
  \* DebugProtocolClient
  next,        \* the next client to be created
  sock,        \* its socket: "none", "opening", "open" or "closed"
  ended,       \* destroy was called, or the session ended
  \* device
  port,        \* "closed", "listening" or "taken"
  slot,        \* the client it serves, 0 for none
  hung         \* clients the device hung up on, whose close event is under way

controllerVars == <<session, attaching, leaving, phase, client, shown>>
attemptVars    == <<next, sock, ended>>
deviceVars     == <<port, slot, hung>>
attachVars == <<controllerVars, attemptVars, deviceVars>>

Phases == {"idle", "connecting", "sleeping", "describing"}
Shown  == {"none", "connecting", "attached", "disconnected", "error"}

AttachTypeOK ==
  /\ session \in {0} \cup ClientIds
  /\ attaching \in BOOLEAN
  /\ leaving \in SUBSET ClientIds
  /\ phase \in [AttachRuns -> Phases]
  /\ client \in [AttachRuns -> {0} \cup ClientIds]
  /\ shown \in Shown
  /\ next \in 1..(MaxClients + 1)
  /\ sock \in [ClientIds -> {"none", "opening", "open", "closed"}]
  /\ ended \in [ClientIds -> BOOLEAN]
  /\ port \in {"closed", "listening", "taken"}
  /\ slot \in {0} \cup ClientIds
  /\ hung \in SUBSET ClientIds

AttachInit ==
  /\ session = 0 /\ attaching = FALSE /\ leaving = {}
  /\ phase = [r \in AttachRuns |-> "idle"]
  /\ client = [r \in AttachRuns |-> 0]
  /\ shown = "none" /\ next = 1
  /\ sock = [k \in ClientIds |-> "none"]
  /\ ended = [k \in ClientIds |-> FALSE]
  /\ port \in {"closed", "listening"} /\ slot = 0 /\ hung = {}

-----------------------------------------------------------------------------
\* destroy: closes the socket the client has.  One that is still being opened
\* is not the client's yet, and stays as it is.
DestroyedSocket(k) == [sock EXCEPT ![k] = IF @ = "open" THEN "closed" ELSE @]

\* A new client, the first and only connector: it opens its socket at once.
Attempt(r) ==
  /\ next \in ClientIds
  /\ next' = next + 1
  /\ client' = [client EXCEPT ![r] = next]
  /\ sock' = [sock EXCEPT ![next] = "opening"]
  /\ phase' = [phase EXCEPT ![r] = "connecting"]

\* Fault: a run is not joined by the next attach.
CanAttachUnjoined == session = 0

\* attach: nothing to do with a healthy session, joined if a run is in flight.
CanAttach == session = 0 /\ ~attaching

StartAttach(r) ==
  /\ CanAttach /\ phase[r] = "idle"
  /\ attaching' = TRUE
  /\ shown' = "connecting"
  /\ Attempt(r)
  /\ UNCHANGED <<session, leaving, ended, deviceVars>>

\* Fault: the phase of a failed run is none of the known ones.
FailedUntyped(r, sockets) ==
  /\ ended' = [ended EXCEPT ![client[r]] = TRUE]
  /\ sock' = sockets
  /\ phase' = [phase EXCEPT ![r] = "failed"]

\* An attempt failed: the client is destroyed; sleep, unless the deadline passed.
AttemptFailed(r, sockets) ==
  /\ ended' = [ended EXCEPT ![client[r]] = TRUE]
  /\ sock' = sockets
  /\ \E p \in {"sleeping", "describing"} : phase' = [phase EXCEPT ![r] = p]

Refused(k) ==
  /\ sock[k] = "opening" /\ port # "listening"
  /\ LET closed == [sock EXCEPT ![k] = "closed"] IN
     \/ \E r \in AttachRuns :
          /\ phase[r] = "connecting" /\ client[r] = k
          /\ AttemptFailed(r, closed)
     \/ /\ \A r \in AttachRuns : ~(phase[r] = "connecting" /\ client[r] = k)
        /\ sock' = closed
        /\ UNCHANGED <<phase, ended>>
  /\ UNCHANGED <<session, attaching, leaving, client, shown, next, deviceVars>>

\* Accepted: the client installs the socket and sends its handshake, whether or
\* not it has been destroyed in the meantime.
Accepted(k) ==
  /\ sock[k] = "opening" /\ port = "listening"
  /\ sock' = [sock EXCEPT ![k] = "open"]
  /\ port' = "taken" /\ slot' = k
  /\ UNCHANGED <<controllerVars, next, ended, hung>>

\* The device answers the handshake: this is the live session.
Handshake(r) ==
  LET k == client[r] IN
  /\ phase[r] = "connecting" /\ sock[k] = "open" /\ slot = k /\ ~ended[k]
  /\ session' = k
  /\ attaching' = FALSE
  /\ phase' = [phase EXCEPT ![r] = "idle"]
  /\ shown' = "attached"
  /\ UNCHANGED <<leaving, client, attemptVars, deviceVars>>

\* Fault: only the connect is bounded, not the handshake.
TimeoutOfConnect(r) ==
  /\ phase[r] = "connecting" /\ sock[client[r]] = "opening"
  /\ AttemptFailed(r, sock)
  /\ UNCHANGED <<session, attaching, leaving, client, shown, next, deviceVars>>

\* withTimeout: neither connected nor greeted in time.
AttemptTimeout(r) ==
  /\ phase[r] = "connecting"
  /\ AttemptFailed(r, DestroyedSocket(client[r]))
  /\ UNCHANGED <<session, attaching, leaving, client, shown, next, deviceVars>>

Retry(r) ==
  /\ phase[r] = "sleeping"
  /\ Attempt(r)
  /\ UNCHANGED <<session, attaching, leaving, shown, ended, deviceVars>>

DeadlinePassed(r) ==
  /\ phase[r] = "sleeping"
  /\ phase' = [phase EXCEPT ![r] = "describing"]
  /\ UNCHANGED <<session, attaching, leaving, client, shown, attemptVars, deviceVars>>

\* describeDevice has answered: the run reports its failure.
GiveUp(r) ==
  /\ phase[r] = "describing"
  /\ phase' = [phase EXCEPT ![r] = "idle"]
  /\ attaching' = FALSE
  /\ shown' = "error"
  /\ UNCHANGED <<session, leaving, client, attemptVars, deviceVars>>

-----------------------------------------------------------------------------
\* detach: the session is forgotten first, its client destroyed once a halted
\* thread has been released (at once if none is, after 1500 ms at most).
StartDetach ==
  /\ session # 0
  /\ session' = 0
  /\ leaving' = leaving \cup {session}
  /\ UNCHANGED <<attaching, phase, client, shown, attemptVars, deviceVars>>

FinishDetach(k) ==
  /\ k \in leaving
  /\ leaving' = leaving \ {k}
  /\ sock' = DestroyedSocket(k)
  /\ ended' = [ended EXCEPT ![k] = TRUE]
  /\ shown' = "disconnected"
  /\ UNCHANGED <<session, attaching, phase, client, next, deviceVars>>

\* Fault: end leaves the session in the map, or removes whichever is there.
ForgetNone(k) == session
ForgetAny(k)  == 0

\* end removes the session of its own client only.
ForgetClient(k) == IF session = k THEN 0 ELSE session

\* The socket closes or fails.  A client that has not ended tells the
\* controller, and the call that waits to release its thread is answered; the
\* promise of a handshake still awaited is left to its timeout.
Closed(k) ==
  /\ k \in hung
  /\ hung' = hung \ {k}
  /\ sock' = [sock EXCEPT ![k] = "closed"]
  /\ IF sock[k] = "open" /\ ~ended[k]
     THEN /\ ended' = [ended EXCEPT ![k] = TRUE]
          /\ session' = ForgetClient(k)
          /\ leaving' = leaving \ {k}
          /\ shown' = "disconnected"
     ELSE UNCHANGED <<ended, session, leaving, shown>>
  /\ UNCHANGED <<attaching, phase, client, next, port, slot>>

-----------------------------------------------------------------------------
\* The device (external): a debug launch opens the port, the first connection
\* takes it, and it stays closed until the next launch.
DeviceLaunch ==
  /\ port = "closed"
  /\ port' = "listening"
  /\ UNCHANGED <<controllerVars, attemptVars, slot, hung>>

\* The channel exits.
DeviceHangUp ==
  /\ port # "closed"
  /\ port' = "closed" /\ slot' = 0
  /\ hung' = IF slot # 0 THEN hung \cup {slot} ELSE hung
  /\ UNCHANGED <<controllerVars, attemptVars>>

\* The device notices that the client it served is gone.
DeviceFree ==
  /\ slot # 0 /\ sock[slot] = "closed"
  /\ port' = "closed" /\ slot' = 0
  /\ UNCHANGED <<controllerVars, attemptVars, hung>>

-----------------------------------------------------------------------------
AttachNext ==
  \/ \E r \in AttachRuns : \/ StartAttach(r) \/ Handshake(r) \/ AttemptTimeout(r)
                           \/ Retry(r) \/ DeadlinePassed(r) \/ GiveUp(r)
  \/ \E k \in ClientIds : Refused(k) \/ Accepted(k) \/ FinishDetach(k) \/ Closed(k)
  \/ StartDetach
  \/ DeviceLaunch \/ DeviceHangUp \/ DeviceFree

AttachSpec == AttachInit /\ [][AttachNext]_attachVars

\* Timers fire, and the inquiry of describeDevice ends (it has a timeout).
TimerFairness ==
  \A r \in AttachRuns : /\ WF_attachVars(AttemptTimeout(r))
                        /\ WF_attachVars(Retry(r) \/ DeadlinePassed(r))
                        /\ WF_attachVars(GiveUp(r))

AttachFairSpec == AttachSpec /\ TimerFairness

-----------------------------------------------------------------------------
\* The session in the map has a client that is connected and has not ended:
\* no end, detach or retry leaves a dead session behind that attach would take
\* for a healthy one.
SessionIsUsable == session # 0 => sock[session] = "open" /\ ~ended[session]

\* Sessions are never stacked: besides those on their way out there is one
\* client at most, however attach calls, detach calls and ends overlap.
OneLiveClient ==
  Cardinality({k \in ClientIds \ leaving : sock[k] # "none" /\ ~ended[k]}) <= 1

\* A session leaves the map because it is detached or because its own socket
\* ended, never because an earlier client's end arrives late.
LateEndKeepsSession ==
  [][session # 0 /\ session' # session => session \in leaving' \/ ended'[session]]_attachVars

\* No attach stays in flight, also if the device neither refuses nor answers, or
\* hangs up before the handshake.
AttachSettles == []<>~attaching

-----------------------------------------------------------------------------
\* Stated by the comments of the code, and violated by it.

\* "between attempts we fully destroy the client so the next attempt is a clean
\* first-connect": a client that was destroyed holds no connection of the device.
DestroyedHoldsNoSlot == \A k \in ClientIds : ended[k] => sock[k] # "open"
=============================================================================
