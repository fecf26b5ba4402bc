----------------------------- MODULE RceVideo -----------------------------
(***************************************************************************)
(* The live video preview of one RCE device in the main process: a session *)
(* per click of Start, which looks the device up, negotiates a stream over *)
(* a Janus WebSocket and, when it is lost, does so again after a delay,    *)
(* until the user stops it or the device is found not to run.              *)
(*                                                                         *)
(* Each handler is one macrotask, with the continuations that run before   *)
(* the next one: connect() settles with the event that settles it.         *)
(***************************************************************************)
EXTENDS Naturals, FiniteSets

CONSTANTS
  Previews,    \* bound: sessions the user started that are not forgotten yet
  Signalers,   \* bound: signalling clients in use
  Nothing

ASSUME VideoAssumption == Nothing \notin Previews \cup Signalers

VARIABLES
  preview,     \* the device's session in the map
  stopped,     \* per session
  lookups,     \* getDevice calls of a session in flight
  retryTimers, \* per session, retry timers set and not cleared
  signaler,    \* per session, its client
  stage,       \* per client: closed, or how far connect() is (streaming: it resolved)
  ownerOf,     \* per client, the session it was made for
  keepalive,   \* per client, its keepalive timer is on
  status,      \* per session, the last status told, or the offer
  lookupEnd    \* per session, how the lookup that ended it went

videoVars == <<preview, stopped, lookups, retryTimers, signaler, stage, ownerOf,
               keepalive, status, lookupEnd>>

Stages == {"closed", "handshake", "create", "attach", "watch", "streaming"}

VideoTypeOK ==
  /\ preview \in Previews \cup {Nothing}
  /\ stopped \in [Previews -> BOOLEAN]
  /\ lookups \in [Previews -> Nat] /\ retryTimers \in [Previews -> Nat]
  /\ signaler \in [Previews -> Signalers \cup {Nothing}]
  /\ stage \in [Signalers -> Stages] /\ keepalive \in [Signalers -> BOOLEAN]
  /\ ownerOf \in [Signalers -> Previews \cup {Nothing}]
  /\ status \in [Previews -> {"none", "connecting", "reconnecting", "stopped", "error", "offer"}]
  /\ lookupEnd \in [Previews -> {"none", "gone", "failed", "threw"}]

VideoInit ==
  /\ preview = Nothing
  /\ stopped = [p \in Previews |-> TRUE]
  /\ lookups = [p \in Previews |-> 0] /\ retryTimers = [p \in Previews |-> 0]
  /\ signaler = [p \in Previews |-> Nothing]
  /\ stage = [c \in Signalers |-> "closed"] /\ keepalive = [c \in Signalers |-> FALSE]
  /\ ownerOf = [c \in Signalers |-> Nothing]
  /\ status = [p \in Previews |-> "none"]
  /\ lookupEnd = [p \in Previews |-> "none"]

-----------------------------------------------------------------------------
\* startSession, up to the lookup: without a stored token it tells so and gives up.
StartSession(p, told) ==
  \/ /\ lookups' = [lookups EXCEPT ![p] = @ + 1]
     /\ status' = [status EXCEPT ![p] = told]
  \/ /\ status' = [status EXCEPT ![p] = "error"]
     /\ UNCHANGED lookups

\* stop of a client: its socket is closed without its listeners, and a connect() in
\* flight is rejected.
Stopped(c) ==
  /\ stage' = [d \in Signalers |-> IF d = c THEN "closed" ELSE stage[d]]
  /\ keepalive' = [d \in Signalers |-> IF d = c THEN FALSE ELSE keepalive[d]]

Forgotten(p) == p # preview /\ lookups[p] = 0 /\ retryTimers[p] = 0 /\ signaler[p] = Nothing

\* stopSession of the device's session, if there is one; started is the one that
\* replaces it, if there is one.
StopSession(started) ==
  /\ preview' = started
  /\ stopped' = [q \in Previews |-> q # started /\ (q = preview \/ stopped[q])]
  /\ retryTimers' = [q \in Previews |-> IF q = preview THEN 0 ELSE retryTimers[q]]
  /\ signaler' = [q \in Previews |-> IF q = preview THEN Nothing ELSE signaler[q]]
  /\ Stopped(IF preview = Nothing THEN Nothing ELSE signaler[preview])
  /\ UNCHANGED ownerOf

VideoStart(p) ==
  /\ Forgotten(p)
  /\ StopSession(p)
  /\ StartSession(p, "connecting")
  /\ lookupEnd' = [lookupEnd EXCEPT ![p] = "none"]

VideoStop ==
  /\ preview # Nothing
  /\ StopSession(Nothing)
  /\ UNCHANGED <<lookups, status, lookupEnd>>

-----------------------------------------------------------------------------
Answered(p) == lookups[p] > 0 /\ lookups' = [lookups EXCEPT ![p] = @ - 1]

\* The session was stopped while the lookup was in flight.
LookupTooLate(p) ==
  /\ Answered(p) /\ stopped[p]
  /\ UNCHANGED <<preview, stopped, retryTimers, signaler, stage, ownerOf, keepalive,
                 status, lookupEnd>>

\* The device is answered not to run, or the lookup fails: no network, or an error of
\* the service.  The session ends alike.
LookupGone(p) ==
  /\ Answered(p) /\ ~stopped[p]
  /\ stopped' = [stopped EXCEPT ![p] = TRUE]
  /\ status' = [status EXCEPT ![p] = "stopped"]
  /\ \E how \in {"gone", "failed"} : lookupEnd' = [lookupEnd EXCEPT ![p] = how]
  /\ UNCHANGED <<preview, retryTimers, signaler, stage, ownerOf, keepalive>>

\* getDevice throws on a body that describes no device: startSession rejects, and
\* nobody is told.
LookupThrew(p) ==
  /\ Answered(p) /\ ~stopped[p]
  /\ lookupEnd' = [lookupEnd EXCEPT ![p] = "threw"]
  /\ UNCHANGED <<preview, stopped, retryTimers, signaler, stage, ownerOf, keepalive,
                 status>>

\* Fault: the session may have been stopped meanwhile.
ConnectsAnyway(p) == TRUE

Connects(p) == ~stopped[p]

LookupRunning(p, c) ==
  /\ Connects(p) /\ stage[c] = "closed"
  /\ \A q \in Previews : signaler[q] # c
  /\ Answered(p)
  /\ signaler' = [signaler EXCEPT ![p] = c]
  /\ stage' = [stage EXCEPT ![c] = "handshake"]
  /\ ownerOf' = [ownerOf EXCEPT ![c] = p]
  /\ UNCHANGED <<preview, stopped, retryTimers, keepalive, status, lookupEnd>>

-----------------------------------------------------------------------------
Negotiating(c) == stage[c] \in {"handshake", "create", "attach", "watch"}

\* negotiate: each answer of the gateway sends the next request.
Negotiate(c) ==
  /\ stage[c] \in {"handshake", "create", "attach"}
  /\ stage' = [stage EXCEPT ![c] = CASE @ = "handshake" -> "create"
                                     [] @ = "create" -> "attach"
                                     [] @ = "attach" -> "watch"]
  /\ keepalive' = [keepalive EXCEPT ![c] = @ \/ stage[c] = "create"]
  /\ UNCHANGED <<preview, stopped, lookups, retryTimers, signaler, ownerOf, status,
                 lookupEnd>>

\* connect() resolves; only the session's present client makes an offer.
Offered(c) ==
  /\ stage[c] = "watch"
  /\ stage' = [stage EXCEPT ![c] = "streaming"]
  /\ status' = IF stopped[ownerOf[c]] \/ signaler[ownerOf[c]] # c THEN status
               ELSE [status EXCEPT ![ownerOf[c]] = "offer"]
  /\ UNCHANGED <<preview, stopped, lookups, retryTimers, signaler, ownerOf, keepalive,
                 lookupEnd>>

\* Fault: a timer already set is not cleared; n is how often it is scheduled.
ScheduledBeside(p, n) ==
  /\ retryTimers' = [retryTimers EXCEPT ![p] = @ + n]
  /\ status' = [status EXCEPT ![p] = "reconnecting"]

\* scheduleReconnect, called n times in a row.
ScheduleReconnect(p, n) ==
  /\ retryTimers' = [retryTimers EXCEPT ![p] = 1]
  /\ status' = [status EXCEPT ![p] = "reconnecting"]

\* The catch of startSession, after an error answer or the negotiation's timeout.
NegotiationFailed(c) ==
  /\ Negotiating(c)
  /\ Stopped(c)
  /\ LET p == ownerOf[c] IN
       \/ /\ ~stopped[p]
          /\ signaler' = [signaler EXCEPT ![p] = Nothing]
          /\ ScheduleReconnect(p, 1)
       \/ stopped[p] /\ UNCHANGED <<signaler, retryTimers, status>>
  /\ UNCHANGED <<preview, stopped, lookups, ownerOf, lookupEnd>>

\* Fault: the close listener of the session is not there.
LostUnnoticed(c) ==
  /\ stage[c] # "closed"
  /\ Stopped(c)
  /\ UNCHANGED <<preview, stopped, lookups, retryTimers, signaler, status, ownerOf,
                 lookupEnd>>

\* Fault: the client keeps its keepalive timer.
LostKeepingAlive(c) ==
  /\ stage[c] # "closed"
  /\ stage' = [stage EXCEPT ![c] = "closed"]
  /\ LET p == ownerOf[c] IN
       /\ signaler' = [signaler EXCEPT ![p] = Nothing]
       /\ ScheduleReconnect(p, 1)
  /\ UNCHANGED <<preview, stopped, lookups, ownerOf, keepalive, lookupEnd>>

\* The socket closes, or its handshake fails: the session's close listener schedules
\* a reconnection, and so does the catch if connect() is still in flight.
SignalingLost(c) ==
  /\ stage[c] # "closed"
  /\ Stopped(c)
  /\ LET p == ownerOf[c] IN
       \/ /\ ~stopped[p] /\ signaler[p] = c
          /\ signaler' = [signaler EXCEPT ![p] = Nothing]
          /\ ScheduleReconnect(p, IF Negotiating(c) THEN 2 ELSE 1)
       \/ /\ stopped[p] \/ signaler[p] # c
          /\ UNCHANGED <<signaler, retryTimers, status>>
  /\ UNCHANGED <<preview, stopped, lookups, ownerOf, lookupEnd>>

RetryTimer(p) ==
  /\ retryTimers[p] > 0
  /\ retryTimers' = [retryTimers EXCEPT ![p] = @ - 1]
  /\ \/ ~stopped[p] /\ StartSession(p, "reconnecting")
     \/ stopped[p] /\ UNCHANGED <<lookups, status>>
  /\ UNCHANGED <<preview, stopped, signaler, stage, ownerOf, keepalive, lookupEnd>>

VideoNext ==
  \/ VideoStop
  \/ \E p \in Previews :
       \/ VideoStart(p) \/ RetryTimer(p)
       \/ LookupTooLate(p) \/ LookupGone(p) \/ LookupThrew(p)
       \/ \E c \in Signalers : LookupRunning(p, c)
  \/ \E c \in Signalers : Negotiate(c) \/ Offered(c) \/ NegotiationFailed(c) \/ SignalingLost(c)

VideoSpec == VideoInit /\ [][VideoNext]_videoVars

-----------------------------------------------------------------------------
\* A session that was stopped or replaced leaves nothing behind, whatever was in
\* flight: no timer that revives it, and no socket that keeps a stream running.
StoppedLeavesNothing ==
  /\ \A p \in Previews : stopped[p] => retryTimers[p] = 0 /\ signaler[p] = Nothing
  /\ \A c \in Signalers : stage[c] # "closed" =>
       ownerOf[c] = preview /\ ~stopped[preview] /\ signaler[preview] = c

\* A session has one thing under way at a time: a lookup, a delay or a client.  Two
\* would fork it into two streams that reconnect on their own.
OneAttempt ==
  \A p \in Previews :
    lookups[p] + retryTimers[p] + (IF signaler[p] = Nothing THEN 0 ELSE 1) <= 1

\* However a stream is lost, the preview comes back to a lookup, and only a lookup ends
\* it (or the user): until then a lookup, a delay or a live client moves it on, unless
\* it was told that there is no account.
OnlyLookupEnds ==
  preview # Nothing /\ lookupEnd[preview] = "none" =>
    \/ lookups[preview] > 0 \/ retryTimers[preview] > 0 \/ status[preview] = "error"
    \/ signaler[preview] # Nothing /\ stage[signaler[preview]] # "closed"

\* A keepalive timer runs for a Janus session on an open socket, and ends with it.
KeepaliveHasSession ==
  \A c \in Signalers : keepalive[c] <=> stage[c] \in {"attach", "watch", "streaming"}

-----------------------------------------------------------------------------
\* Stated by the comments of the code, and violated by it.

\* "Retrying indefinitely ... (until an explicit Stop or a confirmed-stopped device)": a
\* preview that the user has not stopped ends only if the device was answered not to run.
StoppedIsConfirmed ==
  preview # Nothing /\ stopped[preview] => lookupEnd[preview] = "gone"
=============================================================================
