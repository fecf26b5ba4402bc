---------------------------- MODULE ConsolePool ----------------------------
(***************************************************************************)
(* The debug console of one device in the main process: port 8085 takes a  *)
(* single client, so one socket is shared by everyone who wants to read    *)
(* it, under leases (the main window, each Fiddle window) that keep it     *)
(* open.  A dial is in flight between the call that starts it and the TCP  *)
(* answer, and everything else may happen meanwhile.                       *)
(*                                                                         *)
(* Each handler is one macrotask, with the continuations that run before   *)
(* the next one: a dial that ends completes every call that joined it.     *)
(***************************************************************************)
EXTENDS Naturals, FiniteSets

CONSTANTS
  Holders,      \* who may hold a lease
  Courtesy,     \* a call of ensureDebugTelnetConnected that names no holder
  Consoles,     \* bound: sockets open, or with a close event to come
  NoConsole

ASSUME ConsolesAssumption ==
  NoConsole \notin Consoles /\ Courtesy \notin Holders

VARIABLES
  consoles,     \* per socket: unused, open, or closing (its close event is to come)
  connection,   \* the device's entry in telnetConnections
  leases,       \* debugTelnetHoldersByIp; its set is deleted when it empties
  dials,        \* dials in flight
  joiners,      \* the holders whose ensureDebugTelnetConnected waits for the dial
  bouncing,     \* a bounce that replaced a socket waits for the dial
  window,       \* the last of TelnetConnected and TelnetDisconnected
  freed         \* the last lease was released, and nobody asked for the console since

poolVars == <<consoles, connection, leases, dials, joiners, bouncing, window, freed>>

PoolTypeOK ==
  /\ consoles \in [Consoles -> {"unused", "open", "closing"}]
  /\ connection \in Consoles \cup {NoConsole}
  /\ leases \subseteq Holders /\ joiners \subseteq Holders \cup {Courtesy}
  /\ dials \in Nat
  /\ bouncing \in BOOLEAN /\ freed \in BOOLEAN
  /\ window \in {"connected", "disconnected"}

PoolInit ==
  /\ consoles = [c \in Consoles |-> "unused"] /\ connection = NoConsole
  /\ leases = {} /\ dials = 0 /\ joiners = {}
  /\ bouncing = FALSE /\ window = "disconnected" /\ freed = FALSE

-----------------------------------------------------------------------------
Connected == connection # NoConsole
Healthy == Connected /\ consoles[connection] = "open"

\* The socket of the entry, if any, is destroyed; its close event is to come.
Destroyed == [c \in Consoles |-> IF c = connection THEN "closing" ELSE consoles[c]]
\* The same, after removeAllListeners('close').
Detached == [c \in Consoles |-> IF c = connection THEN "unused" ELSE consoles[c]]

\* Fault: a call that finds no socket dials, even beside another dial.
ConnectBeside == dials' = dials + 1

\* connectDebugTelnetInternal: joins the dial in flight, or starts one.
ConnectDebugTelnet == dials' = IF dials = 0 THEN 1 ELSE dials

Reuse(h) ==
  /\ Healthy
  /\ leases' = leases \cup ({h} \cap Holders)
  /\ freed' = FALSE
  /\ UNCHANGED <<consoles, connection, dials, joiners, bouncing, window>>

\* A stale entry is wiped first.
OpenFresh(h) ==
  /\ ~Healthy
  /\ consoles' = Destroyed /\ connection' = NoConsole
  /\ ConnectDebugTelnet
  /\ joiners' = joiners \cup {h}
  /\ freed' = FALSE
  /\ UNCHANGED <<leases, bouncing, window>>

\* ensureDebugTelnetConnected, for TelnetConnect, a Fiddle run or the relay's fan-out.
EnsureConnected(h) == Reuse(h) \/ OpenFresh(h)

\* bounceDebugTelnet: onlyIfOpen is the relay's fan-out, which has nothing to
\* rebind when there is no entry; a Fiddle run dials all the same.
BounceOpen ==
  /\ Connected
  /\ consoles' = Detached /\ connection' = NoConsole
  /\ ConnectDebugTelnet
  /\ bouncing' = TRUE /\ freed' = FALSE
  /\ UNCHANGED <<leases, joiners, window>>

BounceUnopened ==
  /\ ~Connected
  /\ ConnectDebugTelnet
  /\ freed' = FALSE
  /\ UNCHANGED <<consoles, connection, leases, joiners, bouncing, window>>

-----------------------------------------------------------------------------
\* The dial succeeds: openDebugTelnet sets the entry, and the callers go on.
DialSucceeded(c) ==
  /\ consoles[c] = "unused" /\ dials > 0
  /\ consoles' = [consoles EXCEPT ![c] = "open"]
  /\ connection' = c /\ window' = "connected"
  /\ leases' = leases \cup (joiners \cap Holders)
  /\ dials' = dials - 1 /\ joiners' = {} /\ bouncing' = FALSE
  /\ UNCHANGED freed

\* Fault: a failed bounce leaves the leases as they are.
FailedKept ==
  /\ dials > 0
  /\ window' = IF bouncing THEN "disconnected" ELSE window
  /\ dials' = dials - 1 /\ joiners' = {} /\ bouncing' = FALSE
  /\ UNCHANGED <<consoles, connection, leases, freed>>

\* The dial fails.  A bounce that had replaced a socket says there is none now.
DialFailed ==
  /\ dials > 0
  /\ leases' = IF bouncing THEN {} ELSE leases
  /\ window' = IF bouncing THEN "disconnected" ELSE window
  /\ dials' = dials - 1 /\ joiners' = {} /\ bouncing' = FALSE
  /\ UNCHANGED <<consoles, connection, freed>>

\* disconnectDebugTelnetInternal
Disconnect == consoles' = Destroyed /\ connection' = NoConsole

\* removeDebugTelnetHolder: TelnetDisconnect, or a Fiddle window that closes.
ReleaseShared(h) ==
  /\ leases # {} /\ leases # {h}
  /\ leases' = leases \ {h}
  /\ UNCHANGED <<consoles, connection, dials, joiners, bouncing, window, freed>>

ReleaseLast(h) ==
  /\ leases = {h}
  /\ leases' = {} /\ freed' = TRUE
  /\ Disconnect
  /\ UNCHANGED <<dials, joiners, bouncing, window>>

\* disconnectDebugTelnetIfUnheld, when a Fiddle window selects another device.
DisconnectIfUnheld ==
  /\ leases = {} /\ Connected
  /\ Disconnect
  /\ UNCHANGED <<leases, dials, joiners, bouncing, window, freed>>

-----------------------------------------------------------------------------
\* The device, or the network, ends an open connection.
DeviceCloses(c) ==
  /\ consoles[c] = "open"
  /\ consoles' = [consoles EXCEPT ![c] = "closing"]
  /\ UNCHANGED <<connection, leases, dials, joiners, bouncing, window, freed>>

CloseEvent(c) ==
  /\ consoles[c] = "closing"
  /\ consoles' = [consoles EXCEPT ![c] = "unused"]
  /\ UNCHANGED <<dials, joiners, bouncing, freed>>

TearDown == connection' = NoConsole /\ leases' = {} /\ window' = "disconnected"

\* Fault: the close of a superseded socket is told to the window.
OnCloseTold(c) ==
  /\ CloseEvent(c)
  /\ window' = "disconnected"
  /\ \/ connection \in {c, NoConsole} /\ connection' = NoConsole /\ leases' = {}
     \/ connection \notin {c, NoConsole} /\ UNCHANGED <<connection, leases>>

\* The close handler: a socket that a newer one replaced is ignored.
OnClose(c) ==
  /\ CloseEvent(c)
  /\ \/ connection \in {c, NoConsole} /\ TearDown
     \/ connection \notin {c, NoConsole} /\ UNCHANGED <<connection, leases, window>>

PoolNext ==
  \/ \E h \in Holders \cup {Courtesy} : EnsureConnected(h)
  \/ BounceOpen \/ BounceUnopened
  \/ \E h \in Holders : ReleaseShared(h) \/ ReleaseLast(h)
  \/ DisconnectIfUnheld \/ DialFailed
  \/ \E c \in Consoles : DialSucceeded(c) \/ DeviceCloses(c) \/ OnClose(c)

PoolSpec == PoolInit /\ [][PoolNext]_poolVars

-----------------------------------------------------------------------------
\* No socket is orphaned: whatever callers race, an open socket is the one in the
\* map, which is the only one that can be closed.  An orphan holds the device's
\* only console until the application quits.
NoOrphan == \A c \in Consoles : consoles[c] = "open" => connection = c

Quiet == dials = 0 /\ \A c \in Consoles : consoles[c] # "closing"

\* What the main window was told last is true once nothing is under way, and never
\* "disconnected" while there is an entry: late closes of replaced sockets, failed
\* and transparent bounces included.
WindowInStep ==
  /\ Connected => window = "connected"
  /\ Quiet /\ ~Connected => window = "disconnected"

\* A lease is never held on nothing: once nothing is under way, whoever holds a
\* lease has a socket.
LeaseHasConsole == Quiet /\ leases # {} => Connected

\* "Releasing the last holder closes 8085": after that, and until somebody asks
\* again, no connection to the device is open.
LastReleaseCloses == freed => \A c \in Consoles : consoles[c] # "open"
=============================================================================
