---------------------------- MODULE RaleSession ----------------------------
(***************************************************************************)
(* The RALE session of one connectionId (rale-direct.ts): sockets that are *)
(* dialled, registered, superseded and closed, and commands that wait for  *)
(* each other in a chain and take the first frame that arrives for their   *)
(* answer.                                                                 *)
(*                                                                         *)
(* An answer is named by the command the device answers.  Frames arrive    *)
(* whole; several of them may be in one chunk.                             *)
(***************************************************************************)
EXTENDS Naturals, Sequences, FiniteSets

CONSTANTS
  MaxSockets,    \* bound: connects
  MaxCommands    \* bound: calls of raleCommand

ASSUME BoundsAssumption == MaxSockets \in Nat /\ MaxCommands \in Nat

Sockets  == 1..MaxSockets
Commands == 1..MaxCommands

VARIABLES
  connections,   \* the registered socket (0: none)
  commandChains, \* the last command of the chain (0: none)
  recvBuffers,   \* frames left over by the last command
  sock,          \* none, dialling, open or closed
  closing,       \* sockets whose close event is to come
  orphaned,      \* history: open sockets that lost their registration with a command waiting
  phase,         \* of a command: idle, chained, waiting or done
  prev,          \* the command it is chained to (0: none)
  cmdSock,       \* the socket it is to be written to
  result,        \* the answer it was given, NoAnswer before and without one
  wire, frames   \* per socket: written and not answered; answered and not read

mapVars  == <<connections, commandChains, recvBuffers>>
sockVars == <<sock, closing, orphaned>>
cmdVars  == <<phase, prev, cmdSock, result>>
vars == <<mapVars, sockVars, cmdVars, wire, frames>>

NoAnswer == 0

TypeOK ==
  /\ connections \in {0} \cup Sockets
  /\ commandChains \in {0} \cup Commands
  /\ recvBuffers \in Seq(Commands)
  /\ sock \in [Sockets -> {"none", "dialling", "open", "closed"}]
  /\ closing \in SUBSET {s \in Sockets : sock[s] = "closed"}
  /\ orphaned \in SUBSET Sockets
  /\ phase \in [Commands -> {"idle", "chained", "waiting", "done"}]
  /\ prev \in [Commands -> {0} \cup Commands]
  /\ cmdSock \in [Commands -> {0} \cup Sockets]
  /\ result \in [Commands -> {NoAnswer} \cup Commands]
  /\ wire \in [Sockets -> Seq(Commands)] /\ frames \in [Sockets -> Seq(Commands)]
  /\ connections # 0 => sock[connections] \in {"open", "closed"}

Init ==
  /\ connections = 0 /\ commandChains = 0 /\ recvBuffers = <<>>
  /\ sock = [s \in Sockets |-> "none"] /\ closing = {} /\ orphaned = {}
  /\ phase = [c \in Commands |-> "idle"]
  /\ prev = [c \in Commands |-> 0]
  /\ cmdSock = [c \in Commands |-> 0]
  /\ result = [c \in Commands |-> NoAnswer]
  /\ wire = [s \in Sockets |-> <<>>] /\ frames = [s \in Sockets |-> <<>>]

-----------------------------------------------------------------------------
\* A chained command starts in the microtask after the one before it settled, and
\* the close event of a destroyed socket is delivered before the event loop turns
\* to I/O: until then, nothing else happens.
Ready(c) == phase[c] = "chained" /\ prev[c] \notin {d \in Commands : phase[d] # "done"}
Busy == closing # {} \/ \E c \in Commands : Ready(c)

Listening(s) == {c \in Commands : phase[c] = "waiting" /\ cmdSock[c] = s}

\* destroy on the registered socket, if it is alive: its close event will come.
Alive(s) == s # 0 /\ sock[s] = "open"
Destroyed(s) == [t \in Sockets |-> IF t = s /\ Alive(s) THEN "closed" ELSE sock[t]]
Closing(s) == closing \cup {t \in {s} : Alive(s)}

\* What was not answered or not read of a socket is gone with it.
Unread(s) ==
  /\ wire' = [t \in Sockets |-> IF t = s THEN <<>> ELSE wire[t]]
  /\ frames' = [t \in Sockets |-> IF t = s THEN <<>> ELSE frames[t]]

\* Fault: the bytes left over survive.
ChainForgotten == commandChains' = 0 /\ UNCHANGED recvBuffers

Forgotten == commandChains' = 0 /\ recvBuffers' = <<>>

\* Fault: the socket is registered before it is connected.
ConnectEarly(s) ==
  /\ ~Busy
  /\ \A t \in Sockets : sock[t] = "none" <=> t >= s
  /\ sock' = [Destroyed(connections) EXCEPT ![s] = "dialling"]
  /\ closing' = Closing(connections)
  /\ connections' = s
  /\ Unread(connections)
  /\ UNCHANGED <<commandChains, recvBuffers, orphaned, cmdVars>>

\* raleConnect, up to the dial.
Connect(s) ==
  /\ ~Busy
  /\ \A t \in Sockets : sock[t] = "none" <=> t >= s
  /\ sock' = [Destroyed(connections) EXCEPT ![s] = "dialling"]
  /\ closing' = Closing(connections)
  /\ connections' = 0
  /\ Unread(connections)
  /\ UNCHANGED <<commandChains, recvBuffers, orphaned, cmdVars>>

\* raleRegisterSocket, when the socket has connected.
Register(s) ==
  /\ ~Busy /\ sock[s] = "dialling"
  /\ sock' = [Destroyed(connections) EXCEPT ![s] = "open"]
  /\ closing' = Closing(connections)
  /\ Forgotten
  /\ connections' = s
  /\ Unread(connections)
  /\ UNCHANGED <<orphaned, cmdVars>>

\* The dial fails or times out; nothing was registered for this socket.
DialFailed(s) ==
  /\ ~Busy /\ sock[s] = "dialling"
  /\ sock' = [sock EXCEPT ![s] = "closed"]
  /\ UNCHANGED <<mapVars, closing, orphaned, cmdVars, wire, frames>>

\* The close event of a registered socket, whichever socket is registered now: one
\* that is open stays open, with the commands that wait on it.
OnClose(s) ==
  /\ s \in closing
  /\ closing' = closing \ {s}
  /\ connections' = 0
  /\ orphaned' = orphaned \cup {t \in {connections} : Alive(t) /\ Listening(t) # {}}
  /\ Forgotten
  /\ UNCHANGED <<sock, cmdVars, wire, frames>>

Disconnect ==
  /\ ~Busy
  /\ sock' = Destroyed(connections)
  /\ closing' = Closing(connections)
  /\ connections' = 0
  /\ Forgotten
  /\ Unread(connections)
  /\ UNCHANGED <<orphaned, cmdVars>>

-----------------------------------------------------------------------------
NextCommand(c) == \A d \in Commands : phase[d] = "idle" <=> d >= c

\* raleCommand without a living registered socket.
NotConnected(c) ==
  /\ ~Busy /\ NextCommand(c) /\ ~Alive(connections)
  /\ phase' = [phase EXCEPT ![c] = "done"]
  /\ UNCHANGED <<mapVars, sockVars, prev, cmdSock, result, wire, frames>>

\* Fault: concurrent commands are not chained.
Unchained == 0

Chain == commandChains

\* raleCommand.  (The chain is never removed when its last command settles: the
\* map holds the promise that finally returns, not the one it is compared with.
\* Being chained to a settled command is being chained to none.)
Command(c) ==
  /\ ~Busy /\ NextCommand(c) /\ Alive(connections)
  /\ phase' = [phase EXCEPT ![c] = "chained"]
  /\ prev' = [prev EXCEPT ![c] = Chain]
  /\ cmdSock' = [cmdSock EXCEPT ![c] = connections]
  /\ commandChains' = c
  /\ UNCHANGED <<connections, recvBuffers, sockVars, result, wire, frames>>

\* Fault: the frame that was consumed is kept as well.
LeftoverAll(chunk) == chunk

Leftover(chunk) == Tail(chunk)

\* runOne on a socket that is gone: the command fails.
StartFailed(c) ==
  /\ Ready(c) /\ ~(cmdSock[c] = connections /\ Alive(connections))
  /\ phase' = [phase EXCEPT ![c] = "done"]
  /\ UNCHANGED <<mapVars, sockVars, prev, cmdSock, result, wire, frames>>

\* runOne: the command is written, then a frame left over is taken for its answer.
Start(c) ==
  /\ Ready(c) /\ cmdSock[c] = connections /\ Alive(connections)
  /\ wire' = [wire EXCEPT ![cmdSock[c]] = Append(@, c)]
  /\ IF recvBuffers = <<>>
     THEN /\ phase' = [phase EXCEPT ![c] = "waiting"]
          /\ UNCHANGED <<recvBuffers, result>>
     ELSE /\ phase' = [phase EXCEPT ![c] = "done"]
          /\ result' = [result EXCEPT ![c] = Head(recvBuffers)]
          /\ recvBuffers' = Leftover(recvBuffers)
  /\ UNCHANGED <<connections, commandChains, sockVars, prev, cmdSock, frames>>

\* A chunk of n frames: each command that listens takes the first of them, and the
\* rest is stashed.  Nobody reads what arrives while no command waits.
Data(s, n) ==
  /\ ~Busy /\ Alive(s) /\ n \in 1..Len(frames[s])
  /\ LET chunk == SubSeq(frames[s], 1, n) IN
     /\ phase' = [c \in Commands |-> IF c \in Listening(s) THEN "done" ELSE phase[c]]
     /\ result' = [c \in Commands |-> IF c \in Listening(s) THEN Head(chunk) ELSE result[c]]
     /\ recvBuffers' = IF Listening(s) # {} /\ Leftover(chunk) # <<>>
                       THEN Leftover(chunk) ELSE recvBuffers
  /\ frames' = [frames EXCEPT ![s] = SubSeq(@, n + 1, Len(@))]
  /\ UNCHANGED <<connections, commandChains, sockVars, prev, cmdSock, wire>>

\* Fault: the timer of a command is cleared with its socket.
TimerOfOpen(c) == phase[c] = "waiting" /\ Alive(cmdSock[c])

Timer(c) == phase[c] = "waiting"

\* The timer of a command, the only thing that settles one whose socket closed.
Timeout(c) ==
  /\ ~Busy /\ Timer(c)
  /\ phase' = [phase EXCEPT ![c] = "done"]
  /\ UNCHANGED <<mapVars, sockVars, prev, cmdSock, result, wire, frames>>

-----------------------------------------------------------------------------
\* The device (external) answers the commands of a connection one by one, late
\* perhaps, and may close it.
DeviceAnswer(s) ==
  /\ ~Busy /\ sock[s] = "open" /\ wire[s] # <<>>
  /\ frames' = [frames EXCEPT ![s] = Append(@, Head(wire[s]))]
  /\ wire' = [wire EXCEPT ![s] = Tail(@)]
  /\ UNCHANGED <<mapVars, sockVars, cmdVars>>

DeviceClose(s) ==
  /\ ~Busy /\ sock[s] = "open"
  /\ sock' = [sock EXCEPT ![s] = "closed"]
  /\ closing' = closing \cup {s}
  /\ Unread(s)
  /\ UNCHANGED <<mapVars, orphaned, cmdVars>>

-----------------------------------------------------------------------------
Next ==
  \/ \E s \in Sockets : \/ Connect(s) \/ Register(s) \/ DialFailed(s) \/ OnClose(s)
                        \/ \E n \in 1..MaxCommands : Data(s, n)
                        \/ DeviceAnswer(s) \/ DeviceClose(s)
  \/ \E c \in Commands : \/ NotConnected(c) \/ Command(c)
                         \/ StartFailed(c) \/ Start(c) \/ Timeout(c)
  \/ Disconnect

Spec == Init /\ [][Next]_vars

\* Microtasks run, close events are delivered and timers fire.  Nothing is assumed of the device.
FairSpec ==
  /\ Spec
  /\ \A c \in Commands : WF_vars(StartFailed(c) \/ Start(c)) /\ WF_vars(Timeout(c))
  /\ \A s \in Sockets : WF_vars(OnClose(s))

-----------------------------------------------------------------------------
\* Commands of a connection are serial: no two of them wait for frames of the same
\* socket, however sockets were superseded and chains dropped in between.
CommandsAreSerial == \A s \in Sockets : Cardinality(Listening(s)) <= 1

\* The answer to a command was sent over the socket the command was written to,
\* unless the close of an earlier socket took the registration of an open one while a
\* command waited there: only from such a socket is anything left over taken for an
\* answer on another.
AnswersStayOnSocket ==
  \A c \in Commands : result[c] # NoAnswer =>
    cmdSock[result[c]] = cmdSock[c] \/ cmdSock[result[c]] \in orphaned

\* As long as no command on a socket was given up, or given an answer from another
\* socket, each one there is given its own answer, whatever was superseded, closed or
\* left over before.
MixedOnlyByTimeout ==
  \A s \in Sockets :
    (\A c \in Commands : cmdSock[c] = s /\ phase[c] = "done" =>
       result[c] # NoAnswer /\ cmdSock[result[c]] = s)
      => \A c \in Commands : cmdSock[c] = s => result[c] \in {NoAnswer, c}

\* Every command settles, if its socket closes as well.
CommandsSettle == \A c \in Commands : (phase[c] # "idle") ~> (phase[c] = "done")

-----------------------------------------------------------------------------
\* Stated by the comments of the code, and violated by it.

\* The chain keeps concurrent commands from "cross-contaminating responses": a
\* command is given no other command's answer.
NoCrossContamination == \A c \in Commands : result[c] \in {NoAnswer, c}
=============================================================================
