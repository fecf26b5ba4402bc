----------------------------- MODULE HeldPool -----------------------------
(***************************************************************************)
(* One text console (8080 or 8087) of one device, as the main process      *)
(* shares it: one-shot consumers (the Query tab, Action Scripts) connect,  *)
(* use it and disconnect; the Ports window holds it, which makes their     *)
(* disconnects no-ops.  Modelled on the local TCP transport, whose close   *)
(* handler and teardown are those of telnet-handlers.ts.                   *)
(*                                                                         *)
(* Each handler is one macrotask, with the continuations that run before   *)
(* the next one: a dial that ends completes every connect that joined it.  *)
(***************************************************************************)
EXTENDS Naturals, FiniteSets

CONSTANTS
  Consumers,    \* one-shot consumers
  Lines,        \* bound: sockets open, or with a close event to come
  NoLine

ASSUME LinesAssumption == NoLine \notin Lines

VARIABLES
  lines,        \* per socket: unused, open, or closing (its close event is to come)
  entry,        \* the console's entry in the pool
  held,         \* its heldByWindow
  dialling,     \* dials in flight
  asking,       \* the consumers whose connect waits for the dial
  windowAsks,   \* the same for Ports windows: the one open now, one closed since
  portsWindow,  \* a Ports window of the device is open
  heldPorts,    \* its state lists the port
  using,        \* consumers that connected and have not disconnected
  windowLine    \* the socket the open window's last connect was answered with

heldVars == <<lines, entry, held, dialling, asking, windowAsks, portsWindow, heldPorts,
              using, windowLine>>

HeldTypeOK ==
  /\ lines \in [Lines -> {"unused", "open", "closing"}]
  /\ entry \in Lines \cup {NoLine} /\ windowLine \in Lines \cup {NoLine}
  /\ dialling \in Nat
  /\ asking \subseteq Consumers /\ using \subseteq Consumers
  /\ windowAsks \subseteq {"open", "closed"}
  /\ held \in BOOLEAN /\ portsWindow \in BOOLEAN /\ heldPorts \in BOOLEAN

HeldInit ==
  /\ lines = [l \in Lines |-> "unused"]
  /\ entry = NoLine /\ windowLine = NoLine
  /\ dialling = 0 /\ asking = {} /\ using = {} /\ windowAsks = {}
  /\ held = FALSE /\ portsWindow = FALSE /\ heldPorts = FALSE

-----------------------------------------------------------------------------
HasEntry == entry # NoLine
LineOpen == HasEntry /\ lines[entry] = "open"

\* The socket of the entry is destroyed.  Its close handler finds another entry,
\* or none, and stays silent.
LineDestroyed == [l \in Lines |-> IF l = entry THEN "unused" ELSE lines[l]]

\* The stale entry, if any, is discarded, and with it what the window was told.
Discard ==
  /\ lines' = LineDestroyed /\ entry' = NoLine /\ held' = FALSE
  /\ windowLine' = IF windowLine = entry THEN NoLine ELSE windowLine

\* Fault: every connect that finds no healthy entry dials.
DialBeside ==
  /\ Discard
  /\ dialling' = dialling + 1

\* singleFlight over the dial, which first discards a stale entry.
JoinDial ==
  /\ Discard
  /\ dialling' = IF dialling = 0 THEN 1 ELSE dialling

ConsumerConnect(c) ==
  /\ c \notin asking \cup using
  /\ \/ /\ LineOpen
        /\ using' = using \cup {c}
        /\ UNCHANGED <<lines, entry, held, dialling, asking, windowLine>>
     \/ /\ ~LineOpen
        /\ JoinDial
        /\ asking' = asking \cup {c}
        /\ UNCHANGED using
  /\ UNCHANGED <<windowAsks, portsWindow, heldPorts>>

\* PortTerminalConnect
WindowConnect ==
  /\ portsWindow /\ "open" \notin windowAsks
  /\ \/ /\ LineOpen
        /\ held' = TRUE /\ heldPorts' = TRUE /\ windowLine' = entry
        /\ UNCHANGED <<lines, entry, dialling, windowAsks>>
     \/ /\ ~LineOpen
        /\ JoinDial
        /\ windowAsks' = windowAsks \cup {"open"}
        /\ UNCHANGED heldPorts
  /\ UNCHANGED <<asking, portsWindow, using>>

\* Fault: only a window that finds the console open takes hold of it.
MarkedNever == FALSE

\* A window that joined the dial, even one closed since, holds the result.
MarkedByDial == windowAsks # {}

DialDone ==
  /\ dialling > 0
  /\ dialling' = dialling - 1 /\ asking' = {} /\ windowAsks' = {}

LineDialled(l) ==
  /\ lines[l] = "unused"
  /\ DialDone
  /\ lines' = [lines EXCEPT ![l] = "open"]
  /\ entry' = l /\ held' = MarkedByDial
  /\ using' = using \cup asking
  /\ heldPorts' = (heldPorts \/ "open" \in windowAsks)
  /\ windowLine' = IF "open" \in windowAsks THEN l ELSE windowLine
  /\ UNCHANGED portsWindow

LineRefused ==
  /\ DialDone
  /\ UNCHANGED <<lines, entry, held, portsWindow, heldPorts, using, windowLine>>

-----------------------------------------------------------------------------
\* A disconnect that may take the entry away; without an entry it does nothing.
TearDownLine == lines' = LineDestroyed /\ entry' = NoLine /\ held' = FALSE

\* A no-op while the window holds the console.
ConsumerDisconnect(c) ==
  /\ c \in using
  /\ using' = using \ {c}
  /\ IF held THEN UNCHANGED <<lines, entry, held>> ELSE TearDownLine
  /\ UNCHANGED <<dialling, asking, windowAsks, portsWindow, heldPorts, windowLine>>

\* releaseConsole, by the window's Disconnect.
WindowDisconnect ==
  /\ portsWindow
  /\ TearDownLine
  /\ heldPorts' = FALSE /\ windowLine' = NoLine
  /\ UNCHANGED <<dialling, asking, windowAsks, portsWindow, using>>

OpenWindow ==
  /\ ~portsWindow
  /\ portsWindow' = TRUE
  /\ UNCHANGED <<lines, entry, held, dialling, asking, windowAsks, heldPorts, using,
                 windowLine>>

\* The closed handler releases what heldPorts lists.
CloseWindow ==
  /\ portsWindow
  /\ IF heldPorts THEN TearDownLine ELSE UNCHANGED <<lines, entry, held>>
  /\ portsWindow' = FALSE /\ heldPorts' = FALSE /\ windowLine' = NoLine
  /\ windowAsks' = {"closed" : w \in windowAsks}
  /\ UNCHANGED <<dialling, asking, using>>

\* The device, or the network, ends the connection.
LineLost(l) ==
  /\ lines[l] = "open"
  /\ lines' = [lines EXCEPT ![l] = "closing"]
  /\ UNCHANGED <<entry, held, dialling, asking, windowAsks, portsWindow, heldPorts, using,
                 windowLine>>

\* The close handler: only the current entry is taken away.
OnLineClose(l) ==
  /\ lines[l] = "closing"
  /\ lines' = [lines EXCEPT ![l] = "unused"]
  /\ entry' = IF entry = l THEN NoLine ELSE entry
  /\ held' = (held /\ entry # l)
  /\ UNCHANGED <<dialling, asking, windowAsks, portsWindow, heldPorts, using>>
  /\ windowLine' = IF windowLine = l THEN NoLine ELSE windowLine

HeldNext ==
  \/ \E c \in Consumers : ConsumerConnect(c) \/ ConsumerDisconnect(c)
  \/ WindowConnect \/ WindowDisconnect \/ OpenWindow \/ CloseWindow
  \/ LineRefused
  \/ \E l \in Lines : LineDialled(l) \/ LineLost(l) \/ OnLineClose(l)

HeldSpec == HeldInit /\ [][HeldNext]_heldVars

-----------------------------------------------------------------------------
\* No console socket is orphaned by a race of connects, discards and disconnects:
\* an open one is in the pool.
NoLineOrphaned == \A l \in Lines : lines[l] = "open" => entry = l

\* A window whose connect was answered with the socket in the pool holds it, whoever
\* dialled it and whichever came first, so that no consumer's disconnect closes it.
WindowHoldsItsLine == HasEntry /\ windowLine = entry => held

\* "The window releases everything it holds when it closes": a console is held only
\* while a Ports window is open.
HeldOnlyByOpenWindow == held => portsWindow
=============================================================================
