--------------------------- MODULE RelayConsole ---------------------------
(***************************************************************************)
(* The 8085 sessions of the LAN relay server for one device.  A session is *)
(* the relay's connection to the device; browsers and desktop clients      *)
(* attach to it by WebSocket.  What the device prints is cut into lines:   *)
(* attached clients get each line as it completes, and while nobody is     *)
(* attached the lines are kept in a gap buffer for the next client.        *)
(*                                                                         *)
(* A line is the number of lines the session had begun; a chunk of text    *)
(* begins a line, ends one or does both.  Each handler is one macrotask.   *)
(***************************************************************************)
EXTENDS Naturals, Sequences, SequencesExt, FiniteSets

CONSTANTS
  Clients,
  MaxSessions,   \* bound: sessions open at once, if connects race
  MaxLines,      \* bound: lines the device prints in a session
  MaxGap         \* lines the gap buffer holds before its older half is cut off

ASSUME RelayAssumption ==
  MaxSessions \in Nat /\ MaxLines \in Nat /\ MaxGap \in Nat \ {0}

Sessions == 1..MaxSessions

VARIABLES
  opening,       \* telnetConnects that wait for the device
  telnetSessions,\* open sessions, numbered in the order of the map
  begun,         \* lines begun
  lineBuffer,    \* the last line is not complete
  gap,           \* the buffer
  attached,      \* per client: its session (0: none)
  received,      \* per client, what it got since it attached
  forgone        \* per session, lines that a user cleared, that fell off the gap buffer,
                 \* or that a client received which has left since

relayVars == <<opening, telnetSessions, begun, lineBuffer, gap, attached,
               received, forgone>>

LineNumbers == 1..MaxLines

RelayTypeOK ==
  /\ opening \in Nat /\ telnetSessions \subseteq Sessions
  /\ begun \in [Sessions -> 0..MaxLines] /\ lineBuffer \in [Sessions -> BOOLEAN]
  /\ gap \in [Sessions -> Seq(LineNumbers)] /\ \A s \in Sessions : Len(gap[s]) <= MaxGap
  /\ attached \in [Clients -> {0} \cup Sessions]
  /\ received \in [Clients -> Seq(LineNumbers)]
  /\ forgone \in [Sessions -> SUBSET LineNumbers]

RelayInit ==
  /\ opening = 0 /\ telnetSessions = {}
  /\ begun = [s \in Sessions |-> 0] /\ lineBuffer = [s \in Sessions |-> FALSE]
  /\ gap = [s \in Sessions |-> <<>>] /\ forgone = [s \in Sessions |-> {}]
  /\ attached = [c \in Clients |-> 0] /\ received = [c \in Clients |-> <<>>]

-----------------------------------------------------------------------------
ClientsOf(s) == {c \in Clients : attached[c] = s}

\* telnetConnect with a session to reuse changes nothing.  Without one it dials,
\* even if another call is dialling.
TelnetConnect ==
  /\ telnetSessions = {} /\ opening < MaxSessions
  /\ opening' = opening + 1
  /\ UNCHANGED <<telnetSessions, begun, lineBuffer, gap, attached, received,
                 forgone>>

TelnetRefused ==
  /\ opening > 0
  /\ opening' = opening - 1
  /\ UNCHANGED <<telnetSessions, begun, lineBuffer, gap, attached, received,
                 forgone>>

TelnetConnected(s) ==
  /\ opening > 0 /\ \A r \in telnetSessions : r < s
  /\ opening' = opening - 1
  /\ telnetSessions' = telnetSessions \cup {s}
  /\ UNCHANGED <<begun, lineBuffer, gap, attached, received, forgone>>

-----------------------------------------------------------------------------
\* The device prints part of a line.
PrintsPart(s) ==
  /\ s \in telnetSessions /\ begun[s] < MaxLines /\ ~lineBuffer[s]
  /\ begun' = [begun EXCEPT ![s] = @ + 1]
  /\ lineBuffer' = [lineBuffer EXCEPT ![s] = TRUE]
  /\ UNCHANGED <<opening, telnetSessions, gap, attached, received, forgone>>

SentTo(s, line) ==
  [c \in Clients |-> IF attached[c] = s THEN Append(received[c], line) ELSE received[c]]

\* Fault: the gap buffer is never cut.
GrownUncut(s, line) == Append(gap[s], line)

\* The gap buffer with one more line, cut to its newer half when it is over its size.
Grown(s, line) ==
  LET longer == Append(gap[s], line) IN
  IF Len(longer) > MaxGap THEN SubSeq(longer, Len(longer) - MaxGap \div 2 + 1, Len(longer))
  ELSE longer

\* Fault: a line that nobody is there to receive is sent to nobody.
DeliveredOnly(s, line) ==
  /\ received' = SentTo(s, line)
  /\ UNCHANGED <<gap, forgone>>

\* A complete line goes to the clients, or to the gap buffer if there are none.
Delivered(s, line) ==
  IF ClientsOf(s) # {}
  THEN /\ received' = SentTo(s, line)
       /\ UNCHANGED <<gap, forgone>>
  ELSE /\ gap' = [gap EXCEPT ![s] = Grown(s, line)]
       /\ forgone' = [forgone EXCEPT ![s] =
            @ \cup (ToSet(Append(gap[s], line)) \ ToSet(Grown(s, line)))]
       /\ UNCHANGED received

\* The device ends a line, begun in an earlier chunk or in this one.
PrintsLine(s) ==
  /\ s \in telnetSessions
  /\ lineBuffer[s] \/ begun[s] < MaxLines
  /\ begun' = [begun EXCEPT ![s] = IF lineBuffer[s] THEN @ ELSE @ + 1]
  /\ lineBuffer' = [lineBuffer EXCEPT ![s] = FALSE]
  /\ Delivered(s, begun'[s])
  /\ UNCHANGED <<opening, telnetSessions, attached>>

-----------------------------------------------------------------------------
\* Fault: the clients of a session that closes stay attached.
EndedAttached(s) ==
  /\ telnetSessions' = telnetSessions \ {s}
  /\ gap' = [gap EXCEPT ![s] = <<>>] /\ lineBuffer' = [lineBuffer EXCEPT ![s] = FALSE]
  /\ begun' = [begun EXCEPT ![s] = 0] /\ forgone' = [forgone EXCEPT ![s] = {}]
  /\ UNCHANGED <<opening, attached>>

\* The session leaves the map with its buffers, and its clients are told and closed.
Ended(s) ==
  /\ telnetSessions' = telnetSessions \ {s}
  /\ gap' = [gap EXCEPT ![s] = <<>>] /\ lineBuffer' = [lineBuffer EXCEPT ![s] = FALSE]
  /\ attached' = [c \in Clients |-> IF attached[c] = s THEN 0 ELSE attached[c]]
  /\ begun' = [begun EXCEPT ![s] = 0] /\ forgone' = [forgone EXCEPT ![s] = {}]
  /\ UNCHANGED opening

\* The device closes the connection: clients get the line it had not ended.
OnTelnetClose(s) ==
  /\ s \in telnetSessions
  /\ received' = IF lineBuffer[s] THEN SentTo(s, begun[s]) ELSE received
  /\ Ended(s)

\* telnetSessionClose: on an error of the socket, by a user, or for half an hour
\* without activity.
TelnetSessionClose(s) ==
  /\ s \in telnetSessions
  /\ Ended(s)
  /\ UNCHANGED received

\* telnetClearBuffer: the first session of the device; half a line goes too.
TelnetClearBuffer ==
  \E s \in telnetSessions :
    /\ \A r \in telnetSessions : s <= r
    /\ gap' = [gap EXCEPT ![s] = <<>>] /\ lineBuffer' = [lineBuffer EXCEPT ![s] = FALSE]
    /\ forgone' = [forgone EXCEPT ![s] =
         @ \cup ToSet(gap[s]) \cup (IF lineBuffer[s] THEN {begun[s]} ELSE {})]
    /\ UNCHANGED <<opening, telnetSessions, begun, attached, received>>

-----------------------------------------------------------------------------
\* Fault: the gap buffer is replayed and kept.
AttachedReplayed(c, s, skipBuffer) ==
  /\ attached' = [attached EXCEPT ![c] = s]
  /\ received' = [received EXCEPT ![c] = IF skipBuffer THEN <<>> ELSE gap[s]]
  /\ UNCHANGED gap

\* A client that does not ask to skip it gets the gap buffer, and empties it.
Attached(c, s, skipBuffer) ==
  /\ attached' = [attached EXCEPT ![c] = s]
  /\ received' = [received EXCEPT ![c] = IF skipBuffer THEN <<>> ELSE gap[s]]
  /\ gap' = IF skipBuffer THEN gap ELSE [gap EXCEPT ![s] = <<>>]

\* handleTelnetWebSocket
Attach(c, s) ==
  /\ attached[c] = 0 /\ s \in telnetSessions
  /\ \E skipBuffer \in BOOLEAN : Attached(c, s, skipBuffer)
  /\ UNCHANGED <<opening, telnetSessions, begun, lineBuffer, forgone>>

\* The client's close frame, or the loss of its connection.
DetachClient(c) ==
  /\ attached[c] # 0
  /\ attached' = [attached EXCEPT ![c] = 0]
  /\ received' = [received EXCEPT ![c] = <<>>]
  /\ forgone' = [forgone EXCEPT ![attached[c]] = @ \cup ToSet(received[c])]
  /\ UNCHANGED <<opening, telnetSessions, begun, lineBuffer, gap>>

RelayNext ==
  \/ TelnetConnect \/ TelnetRefused \/ TelnetClearBuffer
  \/ \E s \in Sessions :
       \/ TelnetConnected(s) \/ PrintsPart(s) \/ PrintsLine(s)
       \/ OnTelnetClose(s) \/ TelnetSessionClose(s)
       \/ \E c \in Clients : Attach(c, s)
  \/ \E c \in Clients : DetachClient(c)

RelaySpec == RelayInit /\ [][RelayNext]_relayVars

-----------------------------------------------------------------------------
Complete(s) == 1..(IF lineBuffer[s] THEN begun[s] - 1 ELSE begun[s])

\* No line is lost between clients: a complete line of an open session has been
\* received, or waits in the gap buffer, unless a user cleared it or it fell off.
NoLineLost ==
  \A s \in telnetSessions : \A n \in Complete(s) :
    \/ n \in forgone[s] \/ Contains(gap[s], n)
    \/ \E c \in ClientsOf(s) : Contains(received[c], n)

\* No line is told twice: a client's stream is in the order of the device, and what
\* the buffer keeps is not what an attached client that did not skip it received.
NoLineTwice ==
  \A c \in Clients :
    /\ \A i, j \in DOMAIN received[c] : i < j => received[c][i] < received[c][j]
    /\ attached[c] # 0 => ToSet(received[c]) \cap ToSet(gap[attached[c]]) = {}

\* A client is attached to an open session: none is left waiting for the output of
\* a session that ended.
NoClientLeftBehind == \A c \in Clients : attached[c] \in {0} \cup telnetSessions
=============================================================================
