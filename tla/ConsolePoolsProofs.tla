-------------------------- MODULE ConsolePoolsProofs --------------------------
(***************************************************************************)
(* What the two pools of console sockets promise, ConsolePool for any      *)
(* holders and HeldPool for any consumers, each for any sockets.           *)
(*                                                                         *)
(* The three invariants of ConsolePool are not inductive: they rest on     *)
(* there being one dial at a time, and never beside an entry, and on every *)
(* lease and every "connected" that outlives its socket having something   *)
(* under way that will settle it.  The two of HeldPool rest on there being *)
(* one dial at a time, never beside an entry, and on the window having     *)
(* been told of no socket but the entry.                                   *)
(***************************************************************************)
EXTENDS ConsolePool, HeldPool, TLAPS

\* A dial is for an entry that is not there, and what waits for it waits for one.
OneDial ==
  /\ dials \in {0, 1}
  /\ dials = 1 => connection = NoConsole
  /\ joiners # {} \/ bouncing => dials = 1

\* The entry is the only open socket, and it has not had its close event.
EntryIsOpenOne ==
  /\ NoOrphan
  /\ connection # NoConsole => consoles[connection] # "unused"

\* Without an entry, leases and "connected" are settled by the dial of a bounce or by
\* a close event to come.
Unsettled == bouncing \/ \E c \in Consoles : consoles[c] = "closing"

Settling ==
  /\ connection # NoConsole => window = "connected"
  /\ connection = NoConsole /\ (leases # {} \/ window = "connected") => Unsettled

PoolInv == PoolTypeOK /\ OneDial /\ EntryIsOpenOne /\ Settling

USE ConsolesAssumption DEF ConsolesAssumption

PoolFlags == bouncing \in BOOLEAN /\ freed \in BOOLEAN

LEMMA PoolInitInv == PoolInit => PoolInv
<1> SUFFICES ASSUME PoolInit PROVE PoolInv
  OBVIOUS
<1>1. PoolFlags
  BY Zenon DEF PoolInit, PoolFlags
<1>2. PoolTypeOK
  BY <1>1 DEF PoolInit, PoolTypeOK, PoolFlags
<1>3. OneDial /\ EntryIsOpenOne /\ Settling
  BY DEF PoolInit, OneDial, EntryIsOpenOne, NoOrphan, Settling
<1>4. QED
  BY <1>2, <1>3 DEF PoolInv

LEMMA PoolFlagsStep == PoolFlags /\ [PoolNext]_poolVars => PoolFlags'
  BY Zenon DEF PoolFlags, PoolNext, poolVars, EnsureConnected, Reuse, OpenFresh, BounceOpen,
     BounceUnopened, ReleaseShared, ReleaseLast, DisconnectIfUnheld, DialFailed,
     DialSucceeded, DeviceCloses, OnClose, CloseEvent

\* The types, kept by every step.
LEMMA PoolTypeStep == PoolTypeOK /\ [PoolNext]_poolVars => PoolTypeOK'
<1> SUFFICES ASSUME PoolTypeOK, [PoolNext]_poolVars PROVE PoolTypeOK'
  OBVIOUS
<1>f. PoolFlags'
  BY PoolFlagsStep DEF PoolTypeOK, PoolFlags
<1> USE <1>f DEF PoolTypeOK, PoolFlags
<1>1. CASE UNCHANGED poolVars
  BY <1>1 DEF poolVars
<1>2. ASSUME NEW h \in Holders \cup {Courtesy}, EnsureConnected(h) PROVE PoolTypeOK'
  BY <1>2 DEF EnsureConnected, Reuse, OpenFresh, Destroyed, ConnectDebugTelnet
<1>3. CASE BounceOpen \/ BounceUnopened
  BY <1>3 DEF BounceOpen, BounceUnopened, Detached, ConnectDebugTelnet
<1>4. ASSUME NEW h \in Holders, ReleaseShared(h) \/ ReleaseLast(h) PROVE PoolTypeOK'
  BY <1>4 DEF ReleaseShared, ReleaseLast, Disconnect, Destroyed
<1>5. CASE DisconnectIfUnheld
  BY <1>5 DEF DisconnectIfUnheld, Disconnect, Destroyed
<1>6. CASE DialFailed
  BY <1>6 DEF DialFailed
<1>7. ASSUME NEW c \in Consoles, DialSucceeded(c) PROVE PoolTypeOK'
  BY <1>7 DEF DialSucceeded
<1>8. ASSUME NEW c \in Consoles, DeviceCloses(c) \/ OnClose(c) PROVE PoolTypeOK'
  BY <1>8 DEF DeviceCloses, OnClose, CloseEvent, TearDown
<1>9. QED
  BY <1>1, <1>2, <1>3, <1>4, <1>5, <1>6, <1>7, <1>8 DEF PoolNext

LEMMA PoolInvStep == PoolInv /\ [PoolNext]_poolVars => PoolInv'
<1> SUFFICES ASSUME PoolInv, [PoolNext]_poolVars PROVE PoolInv'
  OBVIOUS
<1>t. PoolTypeOK /\ PoolTypeOK'
  BY PoolTypeStep DEF PoolInv
<1> SUFFICES OneDial' /\ EntryIsOpenOne' /\ Settling'
  BY <1>t DEF PoolInv
<1> USE <1>t DEF PoolInv, PoolTypeOK, OneDial, EntryIsOpenOne, NoOrphan, Settling, Unsettled
<1>1. CASE UNCHANGED poolVars
  BY <1>1 DEF poolVars
<1>2. ASSUME NEW h \in Holders \cup {Courtesy}, Reuse(h)
      PROVE  OneDial' /\ EntryIsOpenOne' /\ Settling'
  BY <1>2 DEF Reuse, Healthy, Connected
<1>3. ASSUME NEW h \in Holders \cup {Courtesy}, OpenFresh(h)
      PROVE  OneDial' /\ EntryIsOpenOne' /\ Settling'
  <2>1. OneDial'
    BY <1>3 DEF OpenFresh, ConnectDebugTelnet
  <2>2. EntryIsOpenOne'
    BY <1>3 DEF OpenFresh, Destroyed
  <2>3. Settling'
    BY <1>3 DEF OpenFresh, Destroyed
  <2>4. QED
    BY <2>1, <2>2, <2>3
<1>4. ASSUME BounceOpen PROVE OneDial' /\ EntryIsOpenOne' /\ Settling'
  BY <1>4 DEF BounceOpen, Detached, ConnectDebugTelnet, Connected
<1>5. ASSUME BounceUnopened PROVE OneDial' /\ EntryIsOpenOne' /\ Settling'
  BY <1>5 DEF BounceUnopened, ConnectDebugTelnet, Connected
<1>6. ASSUME NEW h \in Holders, ReleaseShared(h)
      PROVE  OneDial' /\ EntryIsOpenOne' /\ Settling'
  BY <1>6 DEF ReleaseShared
<1>7. ASSUME NEW h \in Holders, ReleaseLast(h)
      PROVE  OneDial' /\ EntryIsOpenOne' /\ Settling'
  BY <1>7 DEF ReleaseLast, Disconnect, Destroyed
<1>8. ASSUME DisconnectIfUnheld PROVE OneDial' /\ EntryIsOpenOne' /\ Settling'
  BY <1>8 DEF DisconnectIfUnheld, Disconnect, Destroyed, Connected
<1>9. ASSUME DialFailed PROVE OneDial' /\ EntryIsOpenOne' /\ Settling'
  BY <1>9 DEF DialFailed
<1>10. ASSUME NEW c \in Consoles, DialSucceeded(c)
       PROVE  OneDial' /\ EntryIsOpenOne' /\ Settling'
  BY <1>10 DEF DialSucceeded
<1>11. ASSUME NEW c \in Consoles, DeviceCloses(c)
       PROVE  OneDial' /\ EntryIsOpenOne' /\ Settling'
  BY <1>11 DEF DeviceCloses
<1>12. ASSUME NEW c \in Consoles, OnClose(c)
       PROVE  OneDial' /\ EntryIsOpenOne' /\ Settling'
  BY <1>12 DEF OnClose, CloseEvent, TearDown
<1>13. QED
  BY <1>1, <1>2, <1>3, <1>4, <1>5, <1>6, <1>7, <1>8, <1>9, <1>10, <1>11, <1>12
  DEF PoolNext, EnsureConnected

\* Every reachable state of the shared console satisfies the invariant above.
THEOREM PoolInvariant == PoolSpec => []PoolInv
  BY PoolInitInv, PoolInvStep, PTL DEF PoolSpec

\* Whatever calls, dials and closes race, an open socket to port 8085 is the one in
\* telnetConnections, for any number of holders and sockets.
THEOREM NoOrphanHolds == PoolSpec => []NoOrphan
<1>1. PoolInv => NoOrphan
  BY DEF PoolInv, EntryIsOpenOne
<1>2. QED
  BY <1>1, PoolInvariant, PTL

\* The main window is never told "disconnected" of a console that has an entry, and
\* knows that there is none once dials and closes are done.
THEOREM WindowInStepHolds == PoolSpec => []WindowInStep
<1>1. PoolInv => WindowInStep
  BY DEF PoolInv, PoolTypeOK, OneDial, Settling, Unsettled, WindowInStep, Quiet, Connected
<1>2. QED
  BY <1>1, PoolInvariant, PTL

\* Once dials and closes are done, whoever holds a lease has a socket.
THEOREM LeaseHasConsoleHolds == PoolSpec => []LeaseHasConsole
<1>1. PoolInv => LeaseHasConsole
  BY DEF PoolInv, OneDial, Settling, Unsettled, LeaseHasConsole, Quiet, Connected
<1>2. QED
  BY <1>1, PoolInvariant, PTL

-----------------------------------------------------------------------------
\* HeldPool.

\* A dial is for an entry that is not there, and what waits for it waits for one.
OneDialling ==
  /\ dialling \in {0, 1}
  /\ dialling = 1 => entry = NoLine
  /\ asking # {} \/ windowAsks # {} => dialling = 1

\* The entry is the only open socket, and the only one the window was told of.
EntryIsOnly ==
  /\ NoLineOrphaned
  /\ entry # NoLine => lines[entry] # "unused"
  /\ windowLine # NoLine => windowLine = entry

HeldInv == HeldTypeOK /\ OneDialling /\ EntryIsOnly /\ WindowHoldsItsLine

HeldFlags == held \in BOOLEAN /\ portsWindow \in BOOLEAN /\ heldPorts \in BOOLEAN

USE LinesAssumption DEF LinesAssumption

LEMMA HeldInitInv == HeldInit => HeldInv
<1> SUFFICES ASSUME HeldInit PROVE HeldInv
  OBVIOUS
<1>1. HeldFlags
  BY Zenon DEF HeldInit, HeldFlags
<1>2. HeldTypeOK
  BY <1>1 DEF HeldInit, HeldTypeOK, HeldFlags
<1>3. OneDialling /\ EntryIsOnly /\ WindowHoldsItsLine
  BY DEF HeldInit, OneDialling, EntryIsOnly, NoLineOrphaned, WindowHoldsItsLine, HasEntry
<1>4. QED
  BY <1>2, <1>3 DEF HeldInv

LEMMA HeldFlagsStep == HeldFlags /\ [HeldNext]_heldVars => HeldFlags'
  BY Zenon DEF HeldFlags, HeldNext, heldVars, ConsumerConnect, JoinDial, Discard, WindowConnect,
     MarkedByDial, LineDialled, LineRefused, TearDownLine, ConsumerDisconnect, WindowDisconnect,
     OpenWindow, CloseWindow, LineLost, OnLineClose

\* The types, kept by every step.
LEMMA HeldTypeStep == HeldTypeOK /\ [HeldNext]_heldVars => HeldTypeOK'
<1> SUFFICES ASSUME HeldTypeOK, [HeldNext]_heldVars PROVE HeldTypeOK'
  OBVIOUS
<1>f. HeldFlags'
  BY HeldFlagsStep DEF HeldTypeOK, HeldFlags
<1> USE <1>f DEF HeldTypeOK, HeldFlags
<1>1. CASE UNCHANGED heldVars
  BY <1>1 DEF heldVars
<1>2. ASSUME NEW c \in Consumers, ConsumerConnect(c) PROVE HeldTypeOK'
  BY <1>2 DEF ConsumerConnect, LineOpen, HasEntry, JoinDial, Discard, LineDestroyed
<1>3. ASSUME NEW c \in Consumers, ConsumerDisconnect(c) PROVE HeldTypeOK'
  BY <1>3 DEF ConsumerDisconnect, TearDownLine, LineDestroyed
<1>4. CASE WindowConnect
  <2>1. CASE LineOpen
    BY <1>4, <2>1 DEF WindowConnect, LineOpen, HasEntry
  <2>2. CASE ~LineOpen
    <3>1. JoinDial /\ windowAsks' = windowAsks \cup {"open"} /\ UNCHANGED <<asking, using>>
      BY <1>4, <2>2 DEF WindowConnect
    <3>2. QED
      BY <3>1 DEF JoinDial, Discard, LineDestroyed
  <2>3. QED
    BY <2>1, <2>2
<1>5. CASE WindowDisconnect
  BY <1>5 DEF WindowDisconnect, TearDownLine, LineDestroyed
<1>6. CASE OpenWindow
  BY <1>6 DEF OpenWindow
<1>7. CASE CloseWindow
  BY <1>7 DEF CloseWindow, TearDownLine, LineDestroyed
<1>8. CASE LineRefused
  BY <1>8 DEF LineRefused, DialDone
<1>9. ASSUME NEW l \in Lines, LineDialled(l) PROVE HeldTypeOK'
  BY <1>9 DEF LineDialled, DialDone
<1>10. ASSUME NEW l \in Lines, LineLost(l) \/ OnLineClose(l) PROVE HeldTypeOK'
  BY <1>10 DEF LineLost, OnLineClose
<1>11. QED
  BY <1>1, <1>2, <1>3, <1>4, <1>5, <1>6, <1>7, <1>8, <1>9, <1>10 DEF HeldNext

LEMMA HeldInvStep == HeldInv /\ [HeldNext]_heldVars => HeldInv'
<1> SUFFICES ASSUME HeldInv, [HeldNext]_heldVars PROVE HeldInv'
  OBVIOUS
<1>t. HeldTypeOK /\ HeldTypeOK'
  BY HeldTypeStep DEF HeldInv
<1> DEFINE Rest == OneDialling /\ EntryIsOnly /\ WindowHoldsItsLine
<1> SUFFICES Rest'
  BY <1>t DEF HeldInv
<1> USE <1>t DEF HeldInv, HeldTypeOK, OneDialling, EntryIsOnly, NoLineOrphaned,
             WindowHoldsItsLine, HasEntry
<1>1. CASE UNCHANGED heldVars
  BY <1>1 DEF heldVars
<1>2. ASSUME NEW c \in Consumers, ConsumerConnect(c) PROVE Rest'
  BY <1>2 DEF ConsumerConnect, LineOpen, JoinDial, Discard, LineDestroyed
<1>3. ASSUME NEW c \in Consumers, ConsumerDisconnect(c) PROVE Rest'
  BY <1>3 DEF ConsumerDisconnect, TearDownLine, LineDestroyed
<1>4. ASSUME WindowConnect PROVE Rest'
  BY <1>4 DEF WindowConnect, LineOpen, JoinDial, Discard, LineDestroyed
<1>5. ASSUME WindowDisconnect PROVE Rest'
  BY <1>5 DEF WindowDisconnect, TearDownLine, LineDestroyed
<1>6. ASSUME OpenWindow PROVE Rest'
  BY <1>6 DEF OpenWindow
<1>7. ASSUME CloseWindow PROVE Rest'
  BY <1>7 DEF CloseWindow, TearDownLine, LineDestroyed
<1>8. ASSUME LineRefused PROVE Rest'
  BY <1>8 DEF LineRefused, DialDone
<1>9. ASSUME NEW l \in Lines, LineDialled(l) PROVE Rest'
  <2>1. dialling = 1 /\ dialling' = 0 /\ entry = NoLine /\ windowLine = NoLine
    BY <1>9 DEF LineDialled, DialDone
  <2>2. OneDialling'
    BY <1>9, <2>1 DEF LineDialled, DialDone
  <2>3. EntryIsOnly'
    BY <1>9, <2>1 DEF LineDialled
  <2>4. WindowHoldsItsLine'
    <3>1. CASE "open" \in windowAsks
      <4>1. MarkedByDial
        BY <3>1 DEF MarkedByDial
      <4>2. held'
        BY <1>9, <4>1, Zenon DEF LineDialled
      <4>3. QED
        BY <4>2
    <3>2. CASE "open" \notin windowAsks
      BY <1>9, <2>1, <3>2 DEF LineDialled
    <3>3. QED
      BY <3>1, <3>2
  <2>5. QED
    BY <2>2, <2>3, <2>4
<1>10. ASSUME NEW l \in Lines, LineLost(l) PROVE Rest'
  BY <1>10 DEF LineLost
<1>11. ASSUME NEW l \in Lines, OnLineClose(l) PROVE Rest'
  BY <1>11 DEF OnLineClose
<1>12. QED
  BY <1>1, <1>2, <1>3, <1>4, <1>5, <1>6, <1>7, <1>8, <1>9, <1>10, <1>11 DEF HeldNext

\* Every reachable state of a held console satisfies the invariant above.
THEOREM HeldInvariant == HeldSpec => []HeldInv
  BY HeldInitInv, HeldInvStep, PTL DEF HeldSpec

\* No race of connects, discards and disconnects leaves a console socket open outside
\* the pool, for any number of consumers and sockets.
THEOREM NoLineOrphanedHolds == HeldSpec => []NoLineOrphaned
<1>1. HeldInv => NoLineOrphaned
  BY DEF HeldInv, EntryIsOnly
<1>2. QED
  BY <1>1, HeldInvariant, PTL

\* A window whose connect was answered holds its console while it is in the pool.
THEOREM WindowHoldsItsLineHolds == HeldSpec => []WindowHoldsItsLine
<1>1. HeldInv => WindowHoldsItsLine
  BY DEF HeldInv
<1>2. QED
  BY <1>1, HeldInvariant, PTL
=============================================================================
