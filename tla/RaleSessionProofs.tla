------------------------- MODULE RaleSessionProofs -------------------------
(***************************************************************************)
(* What RaleSession promises, for any number of connects and commands.     *)
(* None of its invariants is inductive.  That commands are serial rests on *)
(* every command being chained to the last one before it on its socket;    *)
(* that answers stay on their socket, on what is stashed having come from  *)
(* the registered socket; that an answer is the command's own, on nothing  *)
(* being under way but what a waiting command asked for.                   *)
(***************************************************************************)
EXTENDS RaleSession, FiniteSetTheorems, TLAPS

Elems(q) == {q[i] : i \in 1..Len(q)}

\* A command that is not idle has a socket, unless it failed at once, and that socket
\* was connected; only a settled command has an answer.
Commanded ==
  /\ \A c \in Commands : phase[c] = "idle" => cmdSock[c] = 0
  /\ \A c \in Commands : phase[c] # "done" => result[c] = NoAnswer
  /\ \A c \in Commands : phase[c] \in {"chained", "waiting"} => cmdSock[c] # 0
  /\ \A c \in Commands : cmdSock[c] # 0 => sock[cmdSock[c]] \in {"open", "closed"}

\* The chain of the registered socket ends with the last command on it.
HeadOfChain ==
  connections # 0 =>
    /\ commandChains # 0 => cmdSock[commandChains] = connections
    /\ \A c \in Commands : cmdSock[c] = connections => c <= commandChains

\* Of two commands on a socket, the later is chained to the earlier or to one in between.
Links ==
  \A c, d \in Commands : c < d /\ cmdSock[c] = cmdSock[d] /\ cmdSock[d] # 0 =>
    c <= prev[d] /\ prev[d] < d /\ cmdSock[prev[d]] = cmdSock[d]

\* A command has been started only if those before it on its socket have settled.
Serial ==
  \A c, d \in Commands :
    c < d /\ cmdSock[c] = cmdSock[d] /\ cmdSock[d] # 0 /\ phase[d] \in {"waiting", "done"}
      => phase[c] = "done"

\* Whatever is under way on a socket was asked for there.
OnItsSocket ==
  /\ \A s \in Sockets : \A x \in Elems(wire[s]) \cup Elems(frames[s]) : cmdSock[x] = s
  /\ \A x \in Elems(recvBuffers) : cmdSock[x] # 0
  /\ \A c \in Commands : result[c] # NoAnswer => cmdSock[result[c]] # 0

\* A command listens to the registered socket, or to one that was orphaned; what is
\* stashed came from there.
Listened ==
  \A s \in Sockets : Alive(s) /\ Listening(s) # {} => s = connections \/ s \in orphaned

Stash ==
  connections # 0 =>
    \A x \in Elems(recvBuffers) : cmdSock[x] = connections \/ cmdSock[x] \in orphaned

\* On a socket whose commands were all answered from there, each answer is the command's
\* own, and nothing but the answer to a waiting command is under way.
Clean(s) ==
  \A c \in Commands : cmdSock[c] = s /\ phase[c] = "done" =>
    result[c] # NoAnswer /\ cmdSock[result[c]] = s

InStep(s) ==
  /\ \A c \in Commands : cmdSock[c] = s => result[c] \in {NoAnswer, c}
  /\ \A x \in Elems(wire[s]) \cup Elems(frames[s]) : phase[x] = "waiting"
  /\ Len(wire[s]) + Len(frames[s]) <= 1
  /\ \A x \in Elems(recvBuffers) : cmdSock[x] # s

CleanInStep == \A s \in Sockets : Clean(s) => InStep(s)

RaleInv ==
  /\ TypeOK /\ Commanded /\ HeadOfChain /\ Links /\ Serial
  /\ OnItsSocket /\ Listened /\ Stash /\ AnswersStayOnSocket /\ CleanInStep

USE BoundsAssumption DEF Sockets, Commands, NoAnswer

-----------------------------------------------------------------------------
\* What the operations on queues of commands keep.

LEMMA AppendFacts ==
  ASSUME NEW S, NEW q \in Seq(S), NEW x \in S
  PROVE  /\ Append(q, x) \in Seq(S)
         /\ Len(Append(q, x)) = Len(q) + 1
         /\ Elems(Append(q, x)) = Elems(q) \cup {x}
  BY DEF Elems

LEMMA TailFacts ==
  ASSUME NEW S, NEW q \in Seq(S), q # <<>>
  PROVE  /\ Tail(q) \in Seq(S) /\ Len(Tail(q)) = Len(q) - 1
         /\ Head(q) \in S /\ Head(q) \in Elems(q)
         /\ Elems(Tail(q)) \subseteq Elems(q)
  BY DEF Elems

LEMMA PrefixFacts ==
  ASSUME NEW S, NEW q \in Seq(S), NEW n \in 1..Len(q)
  PROVE  /\ SubSeq(q, 1, n) \in Seq(S) /\ Len(SubSeq(q, 1, n)) = n
         /\ SubSeq(q, 1, n) # <<>>
         /\ Elems(SubSeq(q, 1, n)) \subseteq Elems(q)
<1>1. /\ SubSeq(q, 1, n) \in Seq(S) /\ Len(SubSeq(q, 1, n)) = n
      /\ \A i \in 1..n : SubSeq(q, 1, n)[i] = q[i]
  BY SMTT(30)
<1>2. QED
  BY <1>1 DEF Elems

LEMMA SuffixFacts ==
  ASSUME NEW S, NEW q \in Seq(S), NEW n \in 1..Len(q)
  PROVE  /\ SubSeq(q, n + 1, Len(q)) \in Seq(S)
         /\ Len(SubSeq(q, n + 1, Len(q))) = Len(q) - n
         /\ Elems(SubSeq(q, n + 1, Len(q))) \subseteq Elems(q)
<1>1. /\ SubSeq(q, n + 1, Len(q)) \in Seq(S) /\ Len(SubSeq(q, n + 1, Len(q))) = Len(q) - n
      /\ \A i \in 1..(Len(q) - n) : SubSeq(q, n + 1, Len(q))[i] = q[i + n]
  BY SMTT(30)
<1>2. QED
  BY <1>1 DEF Elems

LEMMA ChunkFacts ==
  ASSUME TypeOK, NEW s \in Sockets, NEW n \in 1..Len(frames[s])
  PROVE  /\ SubSeq(frames[s], 1, n) \in Seq(Commands) /\ SubSeq(frames[s], 1, n) # <<>>
         /\ Elems(SubSeq(frames[s], 1, n)) \subseteq Elems(frames[s])
<1>1. frames[s] \in Seq(Commands)
  BY DEF TypeOK
<1>2. QED
  BY <1>1, PrefixFacts

LEMMA NoElems == Elems(<<>>) = {}
  BY DEF Elems

LEMMA LenIsNat == ASSUME NEW S, NEW q \in Seq(S) PROVE Len(q) \in Nat
  OBVIOUS

LEMMA ZeroLen == ASSUME NEW S, NEW q \in Seq(S), Len(q) = 0 PROVE q = <<>>
  OBVIOUS

LEMMA SumAtMost ==
  ASSUME NEW a \in Nat, NEW b \in Nat, NEW i \in Nat, NEW j \in Nat, i + j <= a + b, a + b <= 1
  PROVE  i + j <= 1
  OBVIOUS

LEMMA SumIsOne ==
  ASSUME NEW a \in Nat, NEW b \in Nat, NEW n \in 1..b, a + b <= 1
  PROVE  a = 0 /\ b = 1 /\ n = 1
  OBVIOUS

LEMMA EmptyFacts ==
  ASSUME NEW S, NEW q \in Seq(S), Elems(q) = {}
  PROVE  Len(q) = 0 /\ q = <<>>
<1>1. ASSUME Len(q) # 0 PROVE FALSE
  BY <1>1 DEF Elems
<1>2. QED
  BY <1>1

-----------------------------------------------------------------------------
\* The types.

LEMMA InitInv == Init => RaleInv
<1> SUFFICES ASSUME Init PROVE RaleInv
  OBVIOUS
<1>1. TypeOK
  BY DEF Init, TypeOK
<1>2. Commanded /\ HeadOfChain /\ Links /\ Serial
  BY DEF Init, Commanded, HeadOfChain, Links, Serial
<1>3. OnItsSocket /\ Stash
  BY NoElems DEF Init, OnItsSocket, Stash
<1>4. Listened /\ AnswersStayOnSocket
  BY DEF Init, Listened, Alive, AnswersStayOnSocket
<1>5. CleanInStep
  BY NoElems DEF Init, CleanInStep, InStep
<1>6. QED
  BY <1>1, <1>2, <1>3, <1>4, <1>5 DEF RaleInv

LEMMA DestroyedType ==
  ASSUME TypeOK, NEW t \in {0} \cup Sockets
  PROVE  /\ Destroyed(t) \in [Sockets -> {"none", "dialling", "open", "closed"}]
         /\ Closing(t) \in SUBSET {s \in Sockets : Destroyed(t)[s] = "closed"}
         /\ \A s \in Sockets : sock[s] = "dialling" \/ sock[s] = "none" => s \notin Closing(t)
  BY DEF TypeOK, Destroyed, Closing, Alive

LEMMA UnreadType ==
  ASSUME TypeOK, NEW t \in {0} \cup Sockets, Unread(t)
  PROVE  /\ wire' \in [Sockets -> Seq(Commands)] /\ frames' \in [Sockets -> Seq(Commands)]
         /\ \A s \in Sockets : /\ wire'[s] = wire[s] \/ wire'[s] = <<>>
                               /\ frames'[s] = frames[s] \/ frames'[s] = <<>>
<1>1. <<>> \in Seq(Commands)
  OBVIOUS
<1>2. QED
  BY <1>1 DEF TypeOK, Unread

LEMMA TypeStep == TypeOK /\ [Next]_vars => TypeOK'
<1> SUFFICES ASSUME TypeOK, [Next]_vars PROVE TypeOK'
  OBVIOUS
<1> USE DEF TypeOK
<1>c. connections \in {0} \cup Sockets
  OBVIOUS
<1>e. <<>> \in Seq(Commands)
  OBVIOUS
<1>1. CASE UNCHANGED vars
  BY <1>1 DEF vars, mapVars, sockVars, cmdVars
<1>2. ASSUME NEW s \in Sockets, Connect(s) \/ Register(s) PROVE TypeOK'
  <2>1. sock[s] \in {"none", "dialling"}
    BY <1>2 DEF Connect, Register
  <2>2. /\ sock' \in [Sockets -> {"none", "dialling", "open", "closed"}]
        /\ closing' \in SUBSET {t \in Sockets : sock'[t] = "closed"}
    <3>1. CASE Connect(s)
      BY <1>c, <2>1, <3>1, DestroyedType DEF Connect
    <3>2. CASE Register(s)
      BY <1>c, <2>1, <3>2, DestroyedType DEF Register
    <3>3. QED
      BY <1>2, <3>1, <3>2
  <2>3. connections' \in {0} \cup Sockets /\ (connections' # 0 => sock'[connections'] = "open")
    <3>1. CASE Connect(s)
      BY <3>1 DEF Connect
    <3>2. CASE Register(s)
      BY <2>2, <3>2, <1>c, DestroyedType DEF Register
    <3>3. QED
      BY <1>2, <3>1, <3>2
  <2>4. wire' \in [Sockets -> Seq(Commands)] /\ frames' \in [Sockets -> Seq(Commands)]
    BY <1>2, <1>c, UnreadType DEF Connect, Register
  <2>5. commandChains' \in {0} \cup Commands /\ recvBuffers' \in Seq(Commands)
    BY <1>2, <1>e DEF Connect, Register, Forgotten
  <2>6. QED
    BY <1>2, <2>2, <2>3, <2>4, <2>5 DEF Connect, Register, cmdVars
<1>3. ASSUME NEW s \in Sockets, DialFailed(s) PROVE TypeOK'
  BY <1>3 DEF DialFailed, mapVars, cmdVars
<1>4. ASSUME NEW s \in Sockets, OnClose(s) PROVE TypeOK'
  <2>1. orphaned' \in SUBSET Sockets
    BY <1>4 DEF OnClose, Alive
  <2>2. QED
    BY <1>4, <1>e, <2>1 DEF OnClose, Forgotten, cmdVars
<1>5. CASE Disconnect
  <2>1. /\ sock' \in [Sockets -> {"none", "dialling", "open", "closed"}]
        /\ closing' \in SUBSET {t \in Sockets : sock'[t] = "closed"}
    BY <1>5, <1>c, DestroyedType DEF Disconnect
  <2>2. wire' \in [Sockets -> Seq(Commands)] /\ frames' \in [Sockets -> Seq(Commands)]
    BY <1>5, <1>c, UnreadType DEF Disconnect
  <2>3. QED
    BY <1>5, <1>e, <2>1, <2>2 DEF Disconnect, Forgotten, cmdVars
<1>6. ASSUME NEW c \in Commands, NotConnected(c) \/ StartFailed(c) \/ Timeout(c) PROVE TypeOK'
  BY <1>6 DEF NotConnected, StartFailed, Timeout, mapVars, sockVars
<1>7. ASSUME NEW c \in Commands, Command(c) PROVE TypeOK'
  BY <1>7 DEF Command, Chain, sockVars
<1>8. ASSUME NEW c \in Commands, Start(c) PROVE TypeOK'
  <2>1. cmdSock[c] \in Sockets
    BY <1>8 DEF Start, Alive
  <2>2. Append(wire[cmdSock[c]], c) \in Seq(Commands)
    BY <2>1, AppendFacts
  <2>3. wire' \in [Sockets -> Seq(Commands)]
    BY <1>8, <2>2 DEF Start
  <2>4. recvBuffers # <<>> => Head(recvBuffers) \in Commands /\ Tail(recvBuffers) \in Seq(Commands)
    BY TailFacts
  <2>5. recvBuffers' \in Seq(Commands)
    BY <1>8, <2>4 DEF Start, Leftover
  <2>6. phase' \in [Commands -> {"idle", "chained", "waiting", "done"}]
        /\ result' \in [Commands -> {NoAnswer} \cup Commands]
    <3>1. CASE recvBuffers = <<>>
      BY <1>8, <3>1 DEF Start
    <3>2. CASE recvBuffers # <<>>
      <4>1. /\ phase' = [phase EXCEPT ![c] = "done"]
            /\ result' = [result EXCEPT ![c] = Head(recvBuffers)]
        BY <1>8, <3>2 DEF Start
      <4>2. QED
        BY <2>4, <3>2, <4>1
    <3>3. QED
      BY <3>1, <3>2
  <2>7. QED
    BY <1>8, <2>3, <2>5, <2>6 DEF Start, Leftover, sockVars
<1>9. ASSUME NEW s \in Sockets, NEW n \in 1..MaxCommands, Data(s, n) PROVE TypeOK'
  <2> DEFINE chunk == SubSeq(frames[s], 1, n)
  <2>1. n \in 1..Len(frames[s]) /\ frames[s] \in Seq(Commands)
    BY <1>9 DEF Data
  <2>2. SubSeq(frames[s], 1, n) \in Seq(Commands) /\ SubSeq(frames[s], 1, n) # <<>>
    BY <2>1, PrefixFacts
  <2>3. Head(chunk) \in Commands /\ Tail(chunk) \in Seq(Commands)
    BY <2>2, TailFacts
  <2>4. SubSeq(frames[s], n + 1, Len(frames[s])) \in Seq(Commands)
    BY <2>1, SuffixFacts
  <2>5. frames' \in [Sockets -> Seq(Commands)]
    BY <1>9, <2>4 DEF Data
  <2>6. recvBuffers' \in Seq(Commands)
    BY <1>9, <2>3 DEF Data, Leftover
  <2>7. result' \in [Commands -> {NoAnswer} \cup Commands]
    BY <1>9, <2>3 DEF Data
  <2>8. QED
    BY <1>9, <2>5, <2>6, <2>7 DEF Data, sockVars
<1>10. ASSUME NEW s \in Sockets, DeviceAnswer(s) PROVE TypeOK'
  <2>1. Head(wire[s]) \in Commands /\ Tail(wire[s]) \in Seq(Commands)
    BY <1>10, TailFacts DEF DeviceAnswer
  <2>2. Append(frames[s], Head(wire[s])) \in Seq(Commands)
    BY <2>1, AppendFacts
  <2>3. QED
    BY <1>10, <2>1, <2>2 DEF DeviceAnswer, mapVars, sockVars, cmdVars
<1>11. ASSUME NEW s \in Sockets, DeviceClose(s) PROVE TypeOK'
  BY <1>11, UnreadType DEF DeviceClose, mapVars, cmdVars
<1>12. QED
  BY <1>1, <1>2, <1>3, <1>4, <1>5, <1>6, <1>7, <1>8, <1>9, <1>10, <1>11 DEF Next

\* The types of the maps, the sockets and the commands, in every reachable state.
THEOREM RaleTypeCorrect == Spec => []TypeOK
<1>1. Init => TypeOK
  BY InitInv DEF RaleInv
<1>2. QED
  BY <1>1, TypeStep, PTL DEF Spec

-----------------------------------------------------------------------------
\* The chain.

LEMMA SockStays ==
  ASSUME TypeOK, [Next]_vars, NEW s \in Sockets, sock[s] \in {"open", "closed"}
  PROVE  sock'[s] \in {"open", "closed"}
<1>1. CASE UNCHANGED sock
  BY <1>1
<1>2. ASSUME NEW t \in Sockets, Connect(t) \/ Register(t) \/ DialFailed(t) \/ DeviceClose(t)
      PROVE  sock'[s] \in {"open", "closed"}
  <2>1. Destroyed(connections)[s] \in {"open", "closed"}
    BY DEF TypeOK, Destroyed, Alive
  <2>2. CASE Connect(t) \/ Register(t)
    <3>1. sock[t] \in {"none", "dialling"}
      BY <2>2 DEF Connect, Register
    <3>2. QED
      BY <2>1, <2>2, <3>1 DEF TypeOK, Connect, Register, Destroyed
  <2>3. CASE DialFailed(t) \/ DeviceClose(t)
    BY <2>3 DEF TypeOK, DialFailed, DeviceClose
  <2>4. QED
    BY <1>2, <2>2, <2>3
<1>3. CASE Disconnect
  BY <1>3 DEF TypeOK, Disconnect, Destroyed, Alive
<1>4. QED
  BY <1>1, <1>2, <1>3 DEF Next, vars, sockVars, OnClose, NotConnected, Command, StartFailed,
     Start, Data, Timeout, DeviceAnswer

\* What the steps of sockets leave of the commands.
LEMMA SocketSteps ==
  [Next]_vars =>
    \/ UNCHANGED cmdVars
    \/ \E c \in Commands : NotConnected(c) \/ Command(c) \/ StartFailed(c) \/ Start(c) \/ Timeout(c)
    \/ \E s \in Sockets, n \in 1..MaxCommands : Data(s, n)
  BY Zenon DEF Next, vars, Connect, Register, DialFailed, OnClose, Disconnect, DeviceAnswer,
     DeviceClose

LEMMA CommandedStep == RaleInv /\ [Next]_vars => Commanded'
<1> SUFFICES ASSUME RaleInv, [Next]_vars PROVE Commanded'
  OBVIOUS
<1> USE DEF RaleInv, TypeOK, Commanded
<1>1. \A c \in Commands : cmdSock[c] # 0 => sock'[cmdSock[c]] \in {"open", "closed"}
  BY SockStays
<1>2. CASE UNCHANGED cmdVars
  BY <1>1, <1>2 DEF cmdVars
<1>3. ASSUME NEW c \in Commands, NotConnected(c) \/ StartFailed(c) \/ Timeout(c) PROVE Commanded'
  BY <1>1, <1>3 DEF NotConnected, StartFailed, Timeout
<1>4. ASSUME NEW c \in Commands, Command(c) PROVE Commanded'
  <2>1. /\ connections \in Sockets /\ sock[connections] = "open" /\ UNCHANGED <<sock, result>>
        /\ phase' = [phase EXCEPT ![c] = "chained"]
        /\ cmdSock' = [cmdSock EXCEPT ![c] = connections]
    BY <1>4 DEF Command, Alive, sockVars
  <2>2. phase[c] = "idle"
    BY <1>4 DEF Command, NextCommand
  <2>3. QED
    BY <2>1, <2>2
<1>5. ASSUME NEW c \in Commands, Start(c) PROVE Commanded'
  <2>1. phase[c] = "chained" /\ UNCHANGED <<cmdSock, sock>>
    BY <1>5 DEF Start, Ready, sockVars
  <2>2. CASE recvBuffers = <<>>
    BY <1>5, <2>1, <2>2 DEF Start
  <2>3. CASE recvBuffers # <<>>
    BY <1>5, <2>1, <2>3 DEF Start
  <2>4. QED
    BY <2>2, <2>3
<1>6. ASSUME NEW s \in Sockets, NEW n \in 1..MaxCommands, Data(s, n) PROVE Commanded'
  BY <1>6 DEF Data, Listening, sockVars
<1>7. QED
  BY <1>2, <1>3, <1>4, <1>5, <1>6, SocketSteps

LEMMA HeadStep == RaleInv /\ [Next]_vars => HeadOfChain'
<1> SUFFICES ASSUME RaleInv, [Next]_vars PROVE HeadOfChain'
  OBVIOUS
<1> USE DEF RaleInv, TypeOK, HeadOfChain
<1>1. CASE connections' = 0
  BY <1>1
<1>2. CASE UNCHANGED <<connections, commandChains, cmdSock>>
  BY <1>2
<1>3. ASSUME NEW s \in Sockets, Register(s) PROVE HeadOfChain'
  BY <1>3 DEF Register, Forgotten, cmdVars, Commanded
<1>4. ASSUME NEW c \in Commands, Command(c) PROVE HeadOfChain'
  <2>1. \A d \in Commands : cmdSock[d] # 0 => d < c
    BY <1>4 DEF Command, NextCommand, Commanded
  <2>2. QED
    BY <1>4, <2>1 DEF Command, Alive
<1>5. QED
  BY <1>1, <1>2, <1>3, <1>4 DEF Next, vars, mapVars, cmdVars, Connect, DialFailed, OnClose,
     Disconnect, NotConnected, StartFailed, Start, Data, Timeout, DeviceAnswer, DeviceClose

LEMMA LinksStep == RaleInv /\ [Next]_vars => Links'
<1> SUFFICES ASSUME RaleInv, [Next]_vars,
                    NEW c \in Commands, NEW d \in Commands,
                    c < d, cmdSock'[c] = cmdSock'[d], cmdSock'[d] # 0
             PROVE  c <= prev'[d] /\ prev'[d] < d /\ cmdSock'[prev'[d]] = cmdSock'[d]
  BY DEF Links
<1> USE DEF RaleInv, TypeOK
<1>1. CASE UNCHANGED <<prev, cmdSock>>
  BY <1>1 DEF Links
<1>2. ASSUME NEW e \in Commands, Command(e)
      PROVE  c <= prev'[d] /\ prev'[d] < d /\ cmdSock'[prev'[d]] = cmdSock'[d]
  <2>1. \A a \in Commands : cmdSock[a] # 0 => a < e
    BY <1>2 DEF Command, NextCommand, Commanded
  <2>2. d <= e /\ c # e /\ cmdSock'[c] = cmdSock[c]
    BY <1>2, <2>1 DEF Command
  <2>3. CASE d = e
    <3>1. cmdSock[c] = connections /\ connections # 0 /\ prev'[d] = commandChains
      BY <1>2, <2>2, <2>3 DEF Command, Alive, Chain
    <3>2. commandChains \in Commands /\ c <= commandChains /\ cmdSock[commandChains] = connections
      BY <3>1 DEF HeadOfChain
    <3>3. commandChains < e
      BY <2>1, <3>1, <3>2
    <3>4. QED
      BY <1>2, <2>3, <3>1, <3>2, <3>3 DEF Command
  <2>4. CASE d # e
    <3>1. cmdSock'[d] = cmdSock[d] /\ prev'[d] = prev[d]
      BY <1>2, <2>4 DEF Command
    <3>2. c <= prev[d] /\ prev[d] < d /\ cmdSock[prev[d]] = cmdSock[d]
      BY <2>2, <3>1 DEF Links
    <3>3. prev[d] # e /\ prev[d] \in Commands
      BY <2>1, <2>2, <3>1, <3>2
    <3>4. QED
      BY <1>2, <3>1, <3>2, <3>3 DEF Command
  <2>5. QED
    BY <2>3, <2>4
<1>3. QED
  BY <1>1, <1>2, SocketSteps DEF cmdVars, NotConnected, StartFailed, Start, Data, Timeout

\* Whatever a command has waited for is settled when it starts.
LEMMA ReadyAfterAll ==
  ASSUME RaleInv, NEW c \in Commands, NEW d \in Commands, Ready(d),
         c < d, cmdSock[c] = cmdSock[d], cmdSock[d] # 0
  PROVE  phase[c] = "done"
<1> USE DEF RaleInv, TypeOK
<1>1. c <= prev[d] /\ prev[d] < d /\ cmdSock[prev[d]] = cmdSock[d]
  BY DEF Links
<1>2. prev[d] \in Commands /\ phase[prev[d]] = "done"
  BY <1>1 DEF Ready
<1>3. QED
  BY <1>1, <1>2 DEF Serial

LEMMA SerialStep == RaleInv /\ [Next]_vars => Serial'
<1> SUFFICES ASSUME RaleInv, [Next]_vars,
                    NEW c \in Commands, NEW d \in Commands,
                    c < d, cmdSock'[c] = cmdSock'[d], cmdSock'[d] # 0,
                    phase'[d] \in {"waiting", "done"}
             PROVE  phase'[c] = "done"
  BY DEF Serial
<1> USE DEF RaleInv, TypeOK
<1>1. CASE UNCHANGED <<phase, cmdSock>>
  BY <1>1 DEF Serial
<1>2. ASSUME NEW e \in Commands, NotConnected(e) PROVE phase'[c] = "done"
  BY <1>2 DEF NotConnected, NextCommand, Commanded, Serial
<1>3. ASSUME NEW e \in Commands, Command(e) PROVE phase'[c] = "done"
  <2>1. \A a \in Commands : cmdSock[a] # 0 => a < e
    BY <1>3 DEF Command, NextCommand, Commanded
  <2>2. d # e /\ c # e
    BY <1>3, <2>1 DEF Command
  <2>3. QED
    BY <1>3, <2>2 DEF Command, Serial
<1>4. ASSUME NEW e \in Commands, Ready(e), UNCHANGED cmdSock,
             \E p \in {"waiting", "done"} : phase' = [phase EXCEPT ![e] = p]
      PROVE  phase'[c] = "done"
  <2>1. phase[e] = "chained"
    BY <1>4 DEF Ready
  <2>2. CASE d = e
    <3>1. phase[c] = "done"
      BY <1>4, <2>2, ReadyAfterAll
    <3>2. QED
      BY <1>4, <2>2, <3>1
  <2>3. CASE d # e
    BY <1>4, <2>1, <2>3 DEF Serial
  <2>4. QED
    BY <2>2, <2>3
<1>5. ASSUME NEW e \in Commands, StartFailed(e) \/ Start(e) PROVE phase'[c] = "done"
  BY <1>4, <1>5 DEF StartFailed, Start
<1>6. ASSUME NEW e \in Commands, Timeout(e) PROVE phase'[c] = "done"
  BY <1>6 DEF Timeout, Timer, Serial
<1>7. ASSUME NEW s \in Sockets, NEW n \in 1..MaxCommands, Data(s, n) PROVE phase'[c] = "done"
  BY <1>7 DEF Data, Listening, Serial
<1>8. QED
  BY <1>1, <1>2, <1>3, <1>5, <1>6, <1>7, SocketSteps DEF cmdVars

-----------------------------------------------------------------------------
\* Where commands, and what answers them, can come from in a step.

LEMMA ElemsType == ASSUME NEW S, NEW q \in Seq(S) PROVE Elems(q) \subseteq S
  BY DEF Elems

LEMMA CmdSockStays ==
  ASSUME RaleInv, [Next]_vars, NEW c \in Commands, phase[c] # "idle" \/ cmdSock[c] # 0
  PROVE  cmdSock'[c] = cmdSock[c]
<1>1. phase[c] # "idle"
  BY DEF RaleInv, Commanded
<1>2. ASSUME NEW d \in Commands, Command(d) PROVE cmdSock'[c] = cmdSock[c]
  BY <1>1, <1>2 DEF Command, NextCommand, RaleInv, TypeOK
<1>3. QED
  BY <1>2, SocketSteps DEF cmdVars, NotConnected, StartFailed, Start, Data, Timeout

\* The queues of a socket are only added to by a command that starts there.
LEMMA QueuesOf ==
  ASSUME TypeOK, [Next]_vars, NEW s \in Sockets,
         ~ \E c \in Commands : Start(c) /\ cmdSock[c] = s
  PROVE  /\ Elems(wire'[s]) \cup Elems(frames'[s]) \subseteq Elems(wire[s]) \cup Elems(frames[s])
         /\ Len(wire'[s]) + Len(frames'[s]) <= Len(wire[s]) + Len(frames[s])
<1> USE DEF TypeOK
<1> DEFINE Kept == /\ Elems(wire'[s]) \cup Elems(frames'[s]) \subseteq Elems(wire[s]) \cup Elems(frames[s])
                   /\ Len(wire'[s]) + Len(frames'[s]) <= Len(wire[s]) + Len(frames[s])
<1>0. wire[s] \in Seq(Commands) /\ frames[s] \in Seq(Commands)
  OBVIOUS
<1>1. CASE wire'[s] = wire[s] /\ frames'[s] = frames[s]
  BY <1>0, <1>1
<1>2. ASSUME NEW t \in {0} \cup Sockets, Unread(t) PROVE Kept
  <2>1. CASE t = s
    BY <1>0, <1>2, <2>1, NoElems DEF Unread
  <2>2. CASE t # s
    BY <1>0, <1>2, <2>2 DEF Unread
  <2>3. QED
    BY <2>1, <2>2
<1>3. ASSUME NEW c \in Commands, Start(c) PROVE Kept
  <2>1. cmdSock[c] # s /\ cmdSock[c] \in Sockets
    BY <1>3 DEF Start, Alive
  <2>2. wire'[s] = wire[s] /\ frames'[s] = frames[s]
    BY <1>3, <2>1 DEF Start
  <2>3. QED
    BY <1>1, <2>2
<1>4. ASSUME NEW t \in Sockets, NEW n \in 1..MaxCommands, Data(t, n) PROVE Kept
  <2>1. CASE t # s
    BY <1>1, <1>4, <2>1 DEF Data
  <2>2. CASE t = s
    <3>1. n \in 1..Len(frames[s]) /\ wire'[s] = wire[s]
      BY <1>4, <2>2 DEF Data
    <3>2. frames'[s] = SubSeq(frames[s], n + 1, Len(frames[s]))
      BY <1>4, <2>2 DEF Data
    <3>3. Elems(frames'[s]) \subseteq Elems(frames[s]) /\ Len(frames'[s]) = Len(frames[s]) - n
      BY <1>0, <3>1, <3>2, SuffixFacts
    <3>4. QED
      BY <1>0, <3>1, <3>3
  <2>3. QED
    BY <2>1, <2>2
<1>5. ASSUME NEW t \in Sockets, DeviceAnswer(t) PROVE Kept
  <2>1. CASE t # s
    BY <1>1, <1>5, <2>1 DEF DeviceAnswer
  <2>2. CASE t = s
    <3>1. wire[s] # <<>> /\ wire'[s] = Tail(wire[s]) /\ frames'[s] = Append(frames[s], Head(wire[s]))
      BY <1>5, <2>2 DEF DeviceAnswer
    <3>2. /\ Elems(wire'[s]) \subseteq Elems(wire[s]) /\ Len(wire'[s]) = Len(wire[s]) - 1
          /\ Head(wire[s]) \in Elems(wire[s]) /\ Head(wire[s]) \in Commands
      BY <1>0, <3>1, TailFacts
    <3>3. /\ Elems(frames'[s]) = Elems(frames[s]) \cup {Head(wire[s])}
          /\ Len(frames'[s]) = Len(frames[s]) + 1
      BY <1>0, <3>1, <3>2, AppendFacts
    <3>4. QED
      BY <1>0, <3>2, <3>3
  <2>3. QED
    BY <2>1, <2>2
<1>6. connections \in {0} \cup Sockets
  OBVIOUS
<1>7. QED
  BY <1>1, <1>2, <1>3, <1>4, <1>5, <1>6, Zenon DEF Next, vars, cmdVars, Connect, Register,
     DialFailed, OnClose, Disconnect, NotConnected, Command, StartFailed, Timeout, DeviceClose

\* The stash is only added to by a chunk on a socket where a command listens.
LEMMA StashOf ==
  ASSUME TypeOK, [Next]_vars, NEW x \in Elems(recvBuffers'), x \notin Elems(recvBuffers)
  PROVE  \E s \in Sockets, n \in 1..MaxCommands :
           Data(s, n) /\ Listening(s) # {} /\ x \in Elems(frames[s])
<1> USE DEF TypeOK
<1>1. recvBuffers' # recvBuffers /\ recvBuffers' # <<>>
  BY NoElems
<1>2. ASSUME NEW c \in Commands, Start(c) PROVE FALSE
  <2>1. recvBuffers # <<>> /\ recvBuffers' = Tail(recvBuffers)
    BY <1>1, <1>2 DEF Start, Leftover
  <2>2. QED
    BY <2>1, TailFacts
<1>3. PICK s \in Sockets, n \in 1..MaxCommands : Data(s, n)
  BY <1>1, <1>2 DEF Next, vars, mapVars, Connect, Register, Forgotten, DialFailed, OnClose,
     Disconnect, NotConnected, Command, StartFailed, Timeout, DeviceAnswer, DeviceClose
<1>4. n \in 1..Len(frames[s]) /\ frames[s] \in Seq(Commands)
  BY <1>3 DEF Data
<1>5. /\ SubSeq(frames[s], 1, n) \in Seq(Commands) /\ SubSeq(frames[s], 1, n) # <<>>
      /\ Elems(SubSeq(frames[s], 1, n)) \subseteq Elems(frames[s])
  BY <1>4, ChunkFacts
<1>6. Listening(s) # {} /\ recvBuffers' = Tail(SubSeq(frames[s], 1, n))
  BY <1>1, <1>3 DEF Data, Leftover
<1>7. Elems(recvBuffers') \subseteq Elems(frames[s])
  BY <1>5, <1>6, TailFacts
<1>8. QED
  BY <1>3, <1>6, <1>7

\* A command is given an answer from the stash as it starts, or from the socket it listens to.
LEMMA ResultOf ==
  ASSUME TypeOK, [Next]_vars, NEW c \in Commands, result'[c] # result[c]
  PROVE  \/ Start(c) /\ result'[c] \in Elems(recvBuffers)
         \/ \E s \in Sockets, n \in 1..MaxCommands :
              Data(s, n) /\ c \in Listening(s) /\ result'[c] \in Elems(frames[s])
<1> USE DEF TypeOK
<1>1. ASSUME NEW d \in Commands, Start(d) PROVE d = c /\ result'[c] \in Elems(recvBuffers)
  <2>1. recvBuffers # <<>> /\ result' = [result EXCEPT ![d] = Head(recvBuffers)]
    BY <1>1 DEF Start
  <2>2. d = c /\ result'[c] = Head(recvBuffers)
    BY <2>1
  <2>3. QED
    BY <2>1, <2>2, TailFacts
<1>2. ASSUME NEW s \in Sockets, NEW n \in 1..MaxCommands, Data(s, n)
      PROVE  c \in Listening(s) /\ result'[c] \in Elems(frames[s])
  <2>1. /\ n \in 1..Len(frames[s]) /\ frames[s] \in Seq(Commands)
        /\ c \in Listening(s) /\ result'[c] = Head(SubSeq(frames[s], 1, n))
    BY <1>2 DEF Data
  <2>2. /\ SubSeq(frames[s], 1, n) \in Seq(Commands) /\ SubSeq(frames[s], 1, n) # <<>>
        /\ Elems(SubSeq(frames[s], 1, n)) \subseteq Elems(frames[s])
    BY <2>1, PrefixFacts
  <2>3. QED
    BY <2>1, <2>2, TailFacts
<1>3. QED
  BY <1>1, <1>2, SocketSteps DEF cmdVars, NotConnected, Command, StartFailed, Timeout

-----------------------------------------------------------------------------
\* Answers.

\* Everything under way or given is a command.
LEMMA AreCommands ==
  ASSUME TypeOK
  PROVE  /\ \A s \in Sockets : Elems(wire[s]) \cup Elems(frames[s]) \subseteq Commands
         /\ Elems(recvBuffers) \subseteq Commands
  BY ElemsType DEF TypeOK

LEMMA OnItsSocketStep == RaleInv /\ [Next]_vars => OnItsSocket'
<1> SUFFICES ASSUME RaleInv, [Next]_vars PROVE OnItsSocket'
  OBVIOUS
<1>0. TypeOK /\ OnItsSocket
  BY DEF RaleInv
<1>1. ASSUME NEW s \in Sockets, NEW x \in Elems(wire'[s]) \cup Elems(frames'[s])
      PROVE  cmdSock'[x] = s
  <2>1. CASE x \in Elems(wire[s]) \cup Elems(frames[s])
    <3>1. x \in Commands /\ cmdSock[x] = s
      BY <1>0, <2>1, AreCommands DEF OnItsSocket
    <3>2. QED
      BY <3>1, CmdSockStays
  <2>2. CASE x \notin Elems(wire[s]) \cup Elems(frames[s])
    <3>1. PICK c \in Commands : Start(c) /\ cmdSock[c] = s
      BY <1>0, <1>1, <2>2, QueuesOf
    <3>2. wire'[s] = Append(wire[s], c) /\ frames'[s] = frames[s] /\ UNCHANGED cmdSock
      BY <1>0, <3>1 DEF Start, TypeOK
    <3>3. Elems(wire'[s]) = Elems(wire[s]) \cup {c}
      <4>1. wire[s] \in Seq(Commands)
        BY <1>0 DEF TypeOK
      <4>2. QED
        BY <3>2, <4>1, AppendFacts
    <3>4. x = c
      BY <1>1, <2>2, <3>2, <3>3
    <3>5. QED
      BY <3>1, <3>2, <3>4
  <2>3. QED
    BY <2>1, <2>2
<1>2. ASSUME NEW x \in Elems(recvBuffers') PROVE cmdSock'[x] # 0
  <2>1. x \in Commands /\ cmdSock[x] # 0
    <3>1. CASE x \in Elems(recvBuffers)
      BY <1>0, <3>1, AreCommands DEF OnItsSocket
    <3>2. CASE x \notin Elems(recvBuffers)
      BY <1>0, <1>2, <3>2, StashOf, AreCommands DEF OnItsSocket
    <3>3. QED
      BY <3>1, <3>2
  <2>2. QED
    BY <2>1, CmdSockStays
<1>3. ASSUME NEW c \in Commands, result'[c] # NoAnswer PROVE cmdSock'[result'[c]] # 0
  <2>1. result'[c] \in Commands /\ cmdSock[result'[c]] # 0
    <3>1. CASE result'[c] = result[c]
      BY <1>0, <1>3, <3>1 DEF OnItsSocket, TypeOK
    <3>2. CASE result'[c] # result[c]
      BY <1>0, <3>2, ResultOf, AreCommands DEF OnItsSocket
    <3>3. QED
      BY <3>1, <3>2
  <2>2. QED
    BY <2>1, CmdSockStays
<1>4. QED
  BY <1>1, <1>2, <1>3 DEF OnItsSocket

LEMMA OrphanedStays == TypeOK /\ [Next]_vars => orphaned \subseteq orphaned'
  BY DEF Next, vars, sockVars, Connect, Register, DialFailed, OnClose, Disconnect,
     NotConnected, Command, StartFailed, Start, Data, Timeout, DeviceAnswer, DeviceClose

LEMMA ListenedStep == RaleInv /\ [Next]_vars => Listened'
<1> SUFFICES ASSUME RaleInv, [Next]_vars,
                    NEW s \in Sockets, sock'[s] = "open",
                    NEW c \in Commands, phase'[c] = "waiting", cmdSock'[c] = s
             PROVE  s = connections' \/ s \in orphaned'
  BY DEF Listened, Alive, Listening
<1> USE DEF RaleInv, TypeOK
<1>1. CASE UNCHANGED cmdVars
  <2>1. phase[c] = "waiting" /\ cmdSock[c] = s
    BY <1>1 DEF cmdVars
  <2>2. sock[s] = "open"
    <3>1. sock[s] \in {"open", "closed"}
      BY <2>1 DEF Commanded
    <3>2. sock[s] # "closed"
      BY DEF Next, vars, sockVars, Connect, Register, DialFailed, OnClose, Disconnect, Destroyed,
         NotConnected, Command, StartFailed, Start, Data, Timeout, DeviceAnswer, DeviceClose
    <3>3. QED
      BY <3>1, <3>2
  <2>3. c \in Listening(s) /\ Alive(s)
    BY <2>1, <2>2 DEF Listening, Alive
  <2>4. CASE s \in orphaned
    BY <2>4, OrphanedStays
  <2>5. CASE s = connections
    <3>1. ASSUME Destroyed(connections)[s] = sock'[s] PROVE FALSE
      BY <2>3, <2>5, <3>1 DEF Destroyed
    <3>2. (\A t \in Sockets : ~Connect(t) /\ ~Register(t)) /\ ~Disconnect
      BY <2>2, <3>1 DEF Connect, Register, Disconnect, Destroyed
    <3>3. ASSUME NEW t \in Sockets, OnClose(t) PROVE s \in orphaned'
      BY <2>3, <2>5, <3>3 DEF OnClose
    <3>4. QED
      BY <2>5, <3>2, <3>3 DEF Next, vars, mapVars, DialFailed, NotConnected, Command,
         StartFailed, Start, Data, Timeout, DeviceAnswer, DeviceClose
  <2>6. QED
    BY <2>3, <2>4, <2>5 DEF Listened
<1>2. ASSUME UNCHANGED <<connections, sockVars>>, phase[c] = "waiting", cmdSock[c] = s
      PROVE  s = connections' \/ s \in orphaned'
  <2>1. c \in Listening(s) /\ Alive(s)
    BY <1>2 DEF Listening, Alive, sockVars
  <2>2. QED
    BY <1>2, <2>1 DEF Listened, sockVars
<1>3. ASSUME NEW d \in Commands, Start(d) PROVE s = connections' \/ s \in orphaned'
  <2>1. CASE c = d
    BY <1>3, <2>1 DEF Start
  <2>2. CASE c # d
    <3>1. phase[c] = "waiting" /\ cmdSock[c] = s /\ UNCHANGED <<connections, sockVars>>
      BY <1>3, <2>2 DEF Start
    <3>2. QED
      BY <1>2, <3>1
  <2>3. QED
    BY <2>1, <2>2
<1>4. ASSUME NEW d \in Commands, NotConnected(d) \/ Command(d) \/ StartFailed(d) \/ Timeout(d)
      PROVE  s = connections' \/ s \in orphaned'
  <2>1. phase[c] = "waiting" /\ UNCHANGED <<connections, sockVars>>
    BY <1>4 DEF NotConnected, Command, StartFailed, Timeout, mapVars
  <2>2. QED
    BY <1>2, <2>1, CmdSockStays
<1>5. ASSUME NEW t \in Sockets, NEW n \in 1..MaxCommands, Data(t, n)
      PROVE  s = connections' \/ s \in orphaned'
  BY <1>2, <1>5 DEF Data
<1>6. QED
  BY <1>1, <1>3, <1>4, <1>5, SocketSteps

LEMMA StashStep == RaleInv /\ [Next]_vars => Stash'
<1> SUFFICES ASSUME RaleInv, [Next]_vars, connections' # 0, NEW x \in Elems(recvBuffers')
             PROVE  cmdSock'[x] = connections' \/ cmdSock'[x] \in orphaned'
  BY DEF Stash
<1>0. TypeOK
  BY DEF RaleInv
<1>1. connections' = connections
  <2>1. \A s \in Sockets : ~Register(s)
    BY NoElems DEF Register, Forgotten
  <2>2. QED
    BY <2>1 DEF Next, vars, mapVars, Connect, DialFailed, OnClose, Disconnect, NotConnected,
       Command, StartFailed, Start, Data, Timeout, DeviceAnswer, DeviceClose
<1>2. x \in Commands /\ cmdSock[x] # 0 /\ (cmdSock[x] = connections \/ cmdSock[x] \in orphaned)
  <2>1. CASE x \in Elems(recvBuffers)
    BY <1>0, <1>1, <2>1, AreCommands DEF RaleInv, Stash, OnItsSocket
  <2>2. CASE x \notin Elems(recvBuffers)
    <3>1. PICK s \in Sockets, n \in 1..MaxCommands :
            Data(s, n) /\ Listening(s) # {} /\ x \in Elems(frames[s])
      BY <1>0, <2>2, StashOf
    <3>2. s = connections \/ s \in orphaned
      BY <3>1 DEF RaleInv, Listened, Data
    <3>3. QED
      BY <1>0, <3>1, <3>2, AreCommands DEF RaleInv, OnItsSocket
  <2>3. QED
    BY <2>1, <2>2
<1>3. QED
  BY <1>0, <1>1, <1>2, CmdSockStays, OrphanedStays

LEMMA AnswersStep == RaleInv /\ [Next]_vars => AnswersStayOnSocket'
<1> SUFFICES ASSUME RaleInv, [Next]_vars, NEW c \in Commands, result'[c] # NoAnswer
             PROVE  cmdSock'[result'[c]] = cmdSock'[c] \/ cmdSock'[result'[c]] \in orphaned'
  BY DEF AnswersStayOnSocket
<1>0. TypeOK /\ OnItsSocket
  BY DEF RaleInv
<1> DEFINE x == result'[c]
<1>1. /\ x \in Commands /\ cmdSock[x] # 0 /\ phase[c] # "idle"
      /\ cmdSock[x] = cmdSock[c] \/ cmdSock[x] \in orphaned
  <2>1. CASE result'[c] = result[c]
    BY <1>0, <2>1 DEF RaleInv, AnswersStayOnSocket, OnItsSocket, Commanded, TypeOK
  <2>2. CASE Start(c) /\ x \in Elems(recvBuffers)
    <3>1. phase[c] = "chained" /\ cmdSock[c] = connections /\ connections # 0
      BY <2>2 DEF Start, Ready, Alive
    <3>2. QED
      BY <1>0, <2>2, <3>1, AreCommands DEF RaleInv, Stash, OnItsSocket
  <2>3. ASSUME NEW s \in Sockets, c \in Listening(s), x \in Elems(frames[s])
        PROVE  x \in Commands /\ cmdSock[x] # 0 /\ phase[c] # "idle" /\ cmdSock[x] = cmdSock[c]
    BY <1>0, <2>3, AreCommands DEF OnItsSocket, Listening
  <2>4. QED
    BY <1>0, <2>1, <2>2, <2>3, ResultOf
<1>2. cmdSock'[x] = cmdSock[x] /\ cmdSock'[c] = cmdSock[c]
  BY <1>1, CmdSockStays
<1>3. QED
  BY <1>0, <1>1, <1>2, OrphanedStays

-----------------------------------------------------------------------------
\* Each answer the command's own.

LEMMA DoneStays ==
  ASSUME TypeOK, [Next]_vars, NEW c \in Commands, phase[c] = "done"
  PROVE  phase'[c] = "done"
<1> USE DEF TypeOK
<1>1. CASE UNCHANGED cmdVars
  BY <1>1 DEF cmdVars
<1>2. ASSUME NEW d \in Commands, NotConnected(d) \/ Command(d) PROVE phase'[c] = "done"
  <2>1. phase[d] = "idle"
    BY <1>2 DEF NotConnected, Command, NextCommand
  <2>2. QED
    BY <1>2, <2>1 DEF NotConnected, Command
<1>3. ASSUME NEW d \in Commands, StartFailed(d) \/ Start(d) PROVE phase'[c] = "done"
  <2>1. phase[d] = "chained"
    BY <1>3 DEF StartFailed, Start, Ready
  <2>2. phase' = [phase EXCEPT ![d] = "done"] \/ phase' = [phase EXCEPT ![d] = "waiting"]
    BY <1>3 DEF StartFailed, Start
  <2>3. QED
    BY <2>1, <2>2
<1>4. ASSUME NEW d \in Commands, Timeout(d) PROVE phase'[c] = "done"
  BY <1>4 DEF Timeout
<1>5. ASSUME NEW s \in Sockets, NEW n \in 1..MaxCommands, Data(s, n) PROVE phase'[c] = "done"
  BY <1>5 DEF Data
<1>6. QED
  BY <1>1, <1>2, <1>3, <1>4, <1>5, SocketSteps

\* A socket is clean only if it has been so all along.
LEMMA WasClean ==
  ASSUME RaleInv, [Next]_vars, NEW s \in Sockets, Clean(s)'
  PROVE  Clean(s)
<1> SUFFICES ASSUME NEW c \in Commands, cmdSock[c] = s, phase[c] = "done"
             PROVE  result[c] # NoAnswer /\ cmdSock[result[c]] = s
  BY DEF Clean
<1>0. TypeOK
  BY DEF RaleInv
<1>1. phase'[c] = "done"
  BY <1>0, DoneStays
<1>2. result'[c] = result[c]
  BY <1>0, ResultOf DEF Start, Ready, Listening
<1>3. cmdSock'[c] = s
  BY CmdSockStays
<1>4. result'[c] # NoAnswer /\ cmdSock'[result'[c]] = s
  BY <1>1, <1>3 DEF Clean
<1>5. result[c] \in Commands /\ cmdSock[result[c]] # 0
  BY <1>0, <1>2, <1>4 DEF RaleInv, OnItsSocket, TypeOK
<1>6. QED
  BY <1>2, <1>4, <1>5, CmdSockStays

\* What no command has done on a clean socket, and no chunk on it, leaves it in step.
LEMMA OtherSteps ==
  ASSUME RaleInv, [Next]_vars, NEW s \in Sockets, InStep(s),
         \A c \in Commands : cmdSock[c] = s => phase'[c] = phase[c] \/ phase[c] = "idle"
                                               \/ phase[c] = "chained",
         ~ \E c \in Commands : Start(c) /\ cmdSock[c] = s,
         ~ \E n \in 1..MaxCommands : Data(s, n)
  PROVE  InStep(s)'
<1>0. TypeOK /\ OnItsSocket
  BY DEF RaleInv
<1>1. ASSUME NEW c \in Commands, cmdSock'[c] = s PROVE result'[c] \in {NoAnswer, c}
  <2>1. CASE result'[c] = result[c]
    <3>1. CASE phase[c] = "idle"
      BY <2>1, <3>1 DEF RaleInv, Commanded
    <3>2. CASE phase[c] # "idle"
      BY <1>1, <2>1, <3>2, CmdSockStays DEF InStep
    <3>3. QED
      BY <3>1, <3>2
  <2>2. CASE result'[c] # result[c]
    <3>1. phase[c] # "idle"
      BY <1>0, <2>2, ResultOf DEF Start, Ready, Listening
    <3>2. cmdSock[c] = s
      BY <1>1, <3>1, CmdSockStays
    <3>3. QED
      BY <1>0, <2>2, <3>2, ResultOf DEF Listening
  <2>3. QED
    BY <2>1, <2>2
<1>2. ASSUME NEW x \in Elems(wire'[s]) \cup Elems(frames'[s]) PROVE phase'[x] = "waiting"
  <2>1. x \in Elems(wire[s]) \cup Elems(frames[s])
    BY <1>0, <1>2, QueuesOf
  <2>2. x \in Commands /\ cmdSock[x] = s /\ phase[x] = "waiting"
    BY <1>0, <2>1, AreCommands DEF OnItsSocket, InStep
  <2>3. QED
    BY <2>2
<1>3. Len(wire'[s]) + Len(frames'[s]) <= 1
  <2>1. /\ wire[s] \in Seq(Commands) /\ frames[s] \in Seq(Commands)
        /\ wire'[s] \in Seq(Commands) /\ frames'[s] \in Seq(Commands)
    BY <1>0, TypeStep DEF TypeOK
  <2>2. Len(wire'[s]) + Len(frames'[s]) <= Len(wire[s]) + Len(frames[s])
    BY <1>0, QueuesOf
  <2>3. /\ Len(wire[s]) \in Nat /\ Len(frames[s]) \in Nat
        /\ Len(wire'[s]) \in Nat /\ Len(frames'[s]) \in Nat
    BY <2>1, LenIsNat
  <2>4. Len(wire[s]) + Len(frames[s]) <= 1
    BY DEF InStep
  <2>5. QED
    BY <2>2, <2>3, <2>4, SumAtMost, Zenon
<1>4. ASSUME NEW x \in Elems(recvBuffers') PROVE cmdSock'[x] # s
  <2>1. x \in Commands /\ cmdSock[x] # 0 /\ cmdSock[x] # s
    <3>1. CASE x \in Elems(recvBuffers)
      BY <1>0, <3>1, AreCommands DEF OnItsSocket, InStep
    <3>2. CASE x \notin Elems(recvBuffers)
      BY <1>0, <1>4, <3>2, StashOf, AreCommands DEF OnItsSocket
    <3>3. QED
      BY <3>1, <3>2
  <2>2. QED
    BY <2>1, CmdSockStays
<1>5. QED
  BY <1>1, <1>2, <1>3, <1>4 DEF InStep

LEMMA CleanStep == RaleInv /\ [Next]_vars => CleanInStep'
<1> SUFFICES ASSUME RaleInv, [Next]_vars, NEW s \in Sockets, Clean(s)' PROVE InStep(s)'
  BY DEF CleanInStep
<1>0. /\ TypeOK /\ OnItsSocket /\ Commanded /\ Serial
      /\ Clean(s) /\ InStep(s)
  BY WasClean DEF RaleInv, CleanInStep
<1>1. ASSUME NEW c \in Commands, Start(c), cmdSock[c] = s PROVE InStep(s)'
  <2>1. /\ phase[c] = "chained" /\ Ready(c) /\ UNCHANGED <<cmdSock, frames>>
        /\ wire' = [wire EXCEPT ![s] = Append(@, c)]
    BY <1>1 DEF Start, Ready
  <2>2. recvBuffers = <<>>
    <3>1. SUFFICES ASSUME recvBuffers # <<>> PROVE FALSE
      OBVIOUS
    <3>2. Head(recvBuffers) \in Elems(recvBuffers)
      BY <1>0, <3>1, TailFacts DEF TypeOK
    <3>3. phase'[c] = "done" /\ result'[c] = Head(recvBuffers)
      BY <1>0, <1>1, <3>1 DEF Start, TypeOK
    <3>4. cmdSock[Head(recvBuffers)] = s
      BY <1>1, <2>1, <3>3 DEF Clean
    <3>5. QED
      BY <1>0, <3>2, <3>4 DEF InStep
  <2>3. /\ phase' = [phase EXCEPT ![c] = "waiting"] /\ UNCHANGED <<recvBuffers, result>>
    BY <1>1, <2>2 DEF Start
  <2>4. Elems(wire[s]) \cup Elems(frames[s]) = {}
    <3>1. SUFFICES ASSUME NEW x \in Elems(wire[s]) \cup Elems(frames[s]) PROVE FALSE
      OBVIOUS
    <3>2. x \in Commands /\ cmdSock[x] = s /\ phase[x] = "waiting"
      BY <1>0, AreCommands DEF OnItsSocket, InStep
    <3>3. CASE x < c
      BY <1>1, <2>1, <3>2, <3>3, ReadyAfterAll
    <3>4. CASE c < x
      BY <1>0, <1>1, <2>1, <3>2, <3>4 DEF Serial
    <3>5. QED
      BY <2>1, <3>2, <3>3, <3>4
  <2>5. /\ wire[s] \in Seq(Commands) /\ frames[s] \in Seq(Commands)
        /\ Len(wire[s]) = 0 /\ Len(frames[s]) = 0
    <3>1. wire[s] \in Seq(Commands) /\ frames[s] \in Seq(Commands)
      BY <1>0 DEF TypeOK
    <3>2. QED
      BY <2>4, <3>1, EmptyFacts
  <2>6. wire'[s] = Append(wire[s], c) /\ frames'[s] = frames[s]
    BY <1>0, <2>1 DEF TypeOK
  <2>7. Elems(wire'[s]) = Elems(wire[s]) \cup {c} /\ Len(wire'[s]) = 1
    BY <2>5, <2>6, AppendFacts
  <2>8. \A x \in Elems(wire'[s]) \cup Elems(frames'[s]) : phase'[x] = "waiting"
    BY <1>0, <2>3, <2>4, <2>6, <2>7 DEF TypeOK
  <2>9. QED
    BY <1>0, <2>1, <2>3, <2>5, <2>6, <2>7, <2>8 DEF InStep
<1>2. ASSUME NEW n \in 1..MaxCommands, Data(s, n) PROVE InStep(s)'
  <2>1. /\ n \in 1..Len(frames[s]) /\ UNCHANGED <<cmdSock, wire>>
        /\ frames' = [frames EXCEPT ![s] = SubSeq(@, n + 1, Len(@))]
    BY <1>2 DEF Data
  <2>2. wire[s] \in Seq(Commands) /\ frames[s] \in Seq(Commands)
    BY <1>0 DEF TypeOK
  <2>3. Len(wire[s]) = 0 /\ Len(frames[s]) = 1 /\ n = 1
    <3>1. Len(wire[s]) \in Nat /\ Len(frames[s]) \in Nat
      BY <2>2, LenIsNat
    <3>2. Len(wire[s]) + Len(frames[s]) <= 1
      BY <1>0 DEF InStep
    <3>3. n \in 1..Len(frames[s])
      BY <2>1
    <3>4. QED
      BY <3>1, <3>2, <3>3, SumIsOne, Zenon
  <2> DEFINE chunk == SubSeq(frames[s], 1, n)
  <2>4. /\ chunk \in Seq(Commands) /\ Len(chunk) = 1 /\ chunk # <<>>
        /\ Elems(chunk) \subseteq Elems(frames[s])
    <3>1. frames[s] \in Seq(Commands) /\ n \in 1..Len(frames[s])
      BY <2>1, <2>2
    <3>2. /\ SubSeq(frames[s], 1, n) \in Seq(Commands) /\ Len(SubSeq(frames[s], 1, n)) = n
          /\ SubSeq(frames[s], 1, n) # <<>>
          /\ Elems(SubSeq(frames[s], 1, n)) \subseteq Elems(frames[s])
      BY <3>1, PrefixFacts
    <3>3. QED
      BY <2>3, <3>2
  <2> HIDE DEF chunk
  <2>5. Head(chunk) \in Elems(frames[s]) /\ Tail(chunk) \in Seq(Commands) /\ Len(Tail(chunk)) = 0
    <3>1. chunk \in Seq(Commands) /\ chunk # <<>>
      BY <2>4
    <3>2. /\ Tail(chunk) \in Seq(Commands) /\ Len(Tail(chunk)) = Len(chunk) - 1
          /\ Head(chunk) \in Elems(chunk)
      BY <3>1, TailFacts
    <3>3. QED
      BY <2>4, <3>2
  <2> DEFINE x == Head(chunk)
  <2>6. x \in Commands /\ cmdSock[x] = s /\ phase[x] = "waiting"
    BY <1>0, <2>5, AreCommands DEF OnItsSocket, InStep
  <2>7. Listening(s) = {x}
    <3>1. x \in Listening(s)
      BY <2>6 DEF Listening
    <3>2. ASSUME NEW y \in Listening(s), y # x PROVE FALSE
      <4>1. y \in Commands /\ cmdSock[y] = s /\ phase[y] = "waiting"
        BY DEF Listening
      <4>2. CASE y < x
        BY <1>0, <2>6, <4>1, <4>2 DEF Serial
      <4>3. CASE x < y
        BY <1>0, <2>6, <4>1, <4>3 DEF Serial
      <4>4. QED
        BY <2>6, <3>2, <4>1, <4>2, <4>3
    <3>3. QED
      BY <3>1, <3>2
  <2>8. Tail(chunk) = <<>>
    BY <2>5, ZeroLen, Zenon
  <2>9. recvBuffers' = recvBuffers
    BY <1>2, <2>8 DEF Data, Leftover, chunk
  <2>10. \A c \in Commands : result'[c] = IF c = x THEN x ELSE result[c]
    BY <1>2, <2>7 DEF Data, chunk
  <2>11. frames'[s] \in Seq(Commands) /\ Len(frames'[s]) = 0
    BY <1>0, <2>1, <2>2, <2>3, SuffixFacts DEF TypeOK
  <2>12. Elems(wire'[s]) \cup Elems(frames'[s]) = {}
    BY <2>1, <2>2, <2>3, <2>11 DEF Elems
  <2>13. QED
    BY <1>0, <2>1, <2>2, <2>3, <2>9, <2>10, <2>11, <2>12 DEF InStep
<1>3. ASSUME NEW c \in Commands, phase[c] # "done", phase'[c] = "done", result'[c] = NoAnswer
      PROVE  cmdSock[c] # s
  <2>1. cmdSock'[c] # s
    BY <1>3 DEF Clean
  <2>2. QED
    BY <2>1, CmdSockStays
<1>4. CASE ~(\E c \in Commands : Start(c) /\ cmdSock[c] = s) /\ ~(\E n \in 1..MaxCommands : Data(s, n))
  <2>1. ASSUME NEW c \in Commands, cmdSock[c] = s
        PROVE  phase'[c] = phase[c] \/ phase[c] = "idle" \/ phase[c] = "chained"
    <3>1. SUFFICES ASSUME phase[c] = "waiting", phase'[c] # phase[c] PROVE FALSE
      <4>1. phase[c] = "done" => phase'[c] = "done"
        BY <1>0, DoneStays
      <4>2. QED
        BY <1>0, <4>1 DEF TypeOK
    <3>2. ASSUME NEW d \in Commands, Timeout(d) PROVE FALSE
      <4>1. d = c /\ phase'[c] = "done" /\ result'[c] = NoAnswer
        BY <1>0, <3>1, <3>2 DEF Timeout, Commanded, TypeOK
      <4>2. QED
        BY <1>3, <2>1, <3>1, <4>1
    <3>3. ASSUME NEW t \in Sockets, NEW n \in 1..MaxCommands, Data(t, n) PROVE FALSE
      <4>1. c \in Listening(t)
        BY <1>0, <3>1, <3>3 DEF Data, TypeOK
      <4>2. QED
        BY <1>4, <2>1, <3>3, <4>1 DEF Listening
    <3>4. ASSUME NEW d \in Commands, NotConnected(d) \/ Command(d) \/ StartFailed(d) \/ Start(d)
          PROVE  FALSE
      BY <1>0, <3>1, <3>4 DEF NotConnected, Command, NextCommand, StartFailed, Start, Ready, TypeOK
    <3>5. QED
      BY <3>1, <3>2, <3>3, <3>4, SocketSteps DEF cmdVars
  <2>2. QED
    BY <1>0, <1>4, <2>1, OtherSteps
<1>5. QED
  BY <1>1, <1>2, <1>4

-----------------------------------------------------------------------------
\* Every reachable state of a RALE session satisfies the invariant above.
THEOREM RaleInvariant == Spec => []RaleInv
<1>1. RaleInv /\ [Next]_vars => RaleInv'
  BY TypeStep, CommandedStep, HeadStep, LinksStep, SerialStep, OnItsSocketStep, ListenedStep,
     StashStep, AnswersStep, CleanStep DEF RaleInv
<1>2. QED
  BY <1>1, InitInv, PTL DEF Spec

\* However sockets are superseded and chains dropped, no two commands ever wait for
\* frames of the same socket.
THEOREM CommandsAreSerialHolds == Spec => []CommandsAreSerial
<1>1. RaleInv => CommandsAreSerial
  <2> SUFFICES ASSUME RaleInv, NEW s \in Sockets PROVE Cardinality(Listening(s)) <= 1
    BY DEF CommandsAreSerial
  <2>1. \A c, d \in Listening(s) : c = d
    BY DEF RaleInv, Serial, Listening
  <2>2. CASE Listening(s) = {}
    BY <2>2, FS_EmptySet
  <2>3. CASE Listening(s) # {}
    <3>1. PICK c : Listening(s) = {c}
      BY <2>1, <2>3
    <3>2. QED
      BY <3>1, FS_Singleton
  <2>4. QED
    BY <2>2, <2>3
<1>2. QED
  BY <1>1, RaleInvariant, PTL

\* An answer comes from the command's own socket, or from one that lost its
\* registration to another's close while a command waited there.
THEOREM AnswersStayOnSocketHolds == Spec => []AnswersStayOnSocket
<1>1. RaleInv => AnswersStayOnSocket
  BY DEF RaleInv
<1>2. QED
  BY <1>1, RaleInvariant, PTL

\* Answers get out of step on a socket only after a command was given up there, or
\* given the answer of another socket.
THEOREM MixedOnlyByTimeoutHolds == Spec => []MixedOnlyByTimeout
<1>1. RaleInv => MixedOnlyByTimeout
  BY DEF RaleInv, CleanInStep, Clean, InStep, MixedOnlyByTimeout
<1>2. QED
  BY <1>1, RaleInvariant, PTL
=============================================================================
