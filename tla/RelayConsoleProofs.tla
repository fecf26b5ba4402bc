------------------------- MODULE RelayConsoleProofs -------------------------
(***************************************************************************)
(* What RelayConsole promises, for any clients, sessions and line counts.  *)
(* The argument: whatever is buffered or was received is a line that was   *)
(* completed, so a line that completes is newer than all of them, and it   *)
(* goes to exactly one of the two places.                                  *)
(***************************************************************************)
EXTENDS RelayConsole, TLAPS

InOrder(q) == \A i, j \in 1..Len(q) : i < j => q[i] < q[j]

\* A session that is not open holds nothing, so that its number can be used again.
ClosedIsEmpty ==
  \A s \in Sessions : s \notin telnetSessions =>
    begun[s] = 0 /\ ~lineBuffer[s] /\ gap[s] = <<>>

\* A line that is not complete has begun.
PartHasBegun == \A s \in Sessions : lineBuffer[s] => begun[s] > 0

\* The buffers and the streams hold completed lines, in their order.
OfCompleted ==
  /\ \A s \in Sessions :
       InOrder(gap[s]) /\ \A i \in 1..Len(gap[s]) : gap[s][i] \in Complete(s)
  /\ \A c \in Clients :
       /\ InOrder(received[c])
       /\ attached[c] # 0 => \A i \in 1..Len(received[c]) : received[c][i] \in Complete(attached[c])

\* No line is both buffered and received by a client of the session.
Apart ==
  \A c \in Clients : attached[c] # 0 =>
    \A i \in 1..Len(received[c]) : ~Contains(gap[attached[c]], received[c][i])

RelayInv ==
  /\ RelayTypeOK /\ NoClientLeftBehind /\ ClosedIsEmpty /\ PartHasBegun
  /\ OfCompleted /\ Apart /\ NoLineLost

USE RelayAssumption DEF RelayAssumption

-----------------------------------------------------------------------------
\* Appending a number larger than all others keeps a sequence in order.
LEMMA AppendInOrder ==
  ASSUME NEW q \in Seq(LineNumbers), NEW n, InOrder(q), \A i \in 1..Len(q) : q[i] < n
  PROVE  InOrder(Append(q, n))
<1> DEFINE longer == Append(q, n)
<1>1. /\ Len(longer) = Len(q) + 1 /\ Len(q) \in Nat /\ longer[Len(q) + 1] = n
      /\ \A i \in 1..Len(q) : longer[i] = q[i]
  OBVIOUS
<1> HIDE DEF longer
<1> SUFFICES ASSUME NEW i \in 1..Len(longer), NEW j \in 1..Len(longer), i < j
             PROVE  longer[i] < longer[j]
  BY DEF InOrder, longer
<1>2. i \in 1..Len(q)
  BY <1>1
<1>3. CASE j \in 1..Len(q)
  BY <1>1, <1>2, <1>3 DEF InOrder
<1>4. CASE j = Len(q) + 1
  BY <1>1, <1>2, <1>4
<1>5. QED
  BY <1>1, <1>3, <1>4

LEMMA EmptyInOrder == InOrder(<<>>)
  BY DEF InOrder

\* The gap buffer after one more line n: what it holds is from before or is n, in order,
\* and of a bounded length.
LEMMA GrownFacts ==
  ASSUME NEW s \in Sessions, NEW n \in LineNumbers, gap[s] \in Seq(LineNumbers),
         Len(gap[s]) <= MaxGap, InOrder(gap[s]), \A i \in 1..Len(gap[s]) : gap[s][i] < n
  PROVE  /\ Grown(s, n) \in Seq(LineNumbers) /\ Len(Grown(s, n)) <= MaxGap
         /\ InOrder(Grown(s, n))
         /\ \A i \in 1..Len(Grown(s, n)) : Grown(s, n)[i] = n \/ Contains(gap[s], Grown(s, n)[i])
<1> DEFINE longer == Append(gap[s], n)
           half == MaxGap \div 2
           from == Len(longer) - half + 1
<1>1. /\ longer \in Seq(LineNumbers) /\ Len(longer) = Len(gap[s]) + 1
      /\ \A i \in 1..Len(gap[s]) : longer[i] = gap[s][i]
      /\ longer[Len(gap[s]) + 1] = n
  OBVIOUS
<1>2. InOrder(longer)
  BY AppendInOrder
<1>3. \A i \in 1..Len(longer) : longer[i] = n \/ Contains(gap[s], longer[i])
  BY <1>1 DEF Contains
<1>4. CASE Len(longer) <= MaxGap
  BY <1>1, <1>2, <1>3, <1>4 DEF Grown
<1>5. CASE Len(longer) > MaxGap
  <2>1. half \in 0..MaxGap
    OBVIOUS
  <2> HIDE DEF longer, half
  <2>2. from \in 1..(Len(longer) + 1) /\ Len(longer) \in Nat /\ Len(longer) - from + 1 <= MaxGap
    BY <1>1, <1>5, <2>1
  <2> DEFINE cut == SubSeq(longer, from, Len(longer))
  <2> HIDE DEF from
  <2>3. /\ cut \in Seq(LineNumbers) /\ Len(cut) = Len(longer) - from + 1
        /\ \A i \in 1..Len(cut) : cut[i] = longer[i + from - 1] /\ i + from - 1 \in 1..Len(longer)
    <3>1. from \in Nat \ {0} /\ Len(longer) \in Nat /\ from <= Len(longer) + 1
      BY <2>2
    <3>2. \A i \in from..Len(longer) : longer[i] \in LineNumbers
      BY <1>1, <3>1
    <3>3. cut \in Seq(LineNumbers)
      BY <3>1, <3>2, SMTT(30)
    <3>4. Len(cut) = Len(longer) - from + 1
      BY <3>1, SMTT(30)
    <3>5. \A i \in 1..Len(cut) : cut[i] = longer[from + i - 1]
      BY <3>1, <3>4, SMTT(30)
    <3>6. \A i \in 1..Len(cut) : i + from - 1 = from + i - 1 /\ i + from - 1 \in 1..Len(longer)
      BY <3>1, <3>4
    <3>7. QED
      BY <3>3, <3>4, <3>5, <3>6
  <2>4. Grown(s, n) = cut
    BY <1>5 DEF Grown, longer, from, half
  <2> HIDE DEF cut
  <2>5. InOrder(cut)
    <3> SUFFICES ASSUME NEW i \in 1..Len(cut), NEW j \in 1..Len(cut), i < j
                 PROVE  cut[i] < cut[j]
      BY DEF InOrder
    <3> DEFINE k == i + from - 1  m == j + from - 1
    <3>1. k \in 1..Len(longer) /\ m \in 1..Len(longer) /\ k < m
      BY <2>2, <2>3
    <3>2. cut[i] = longer[k] /\ cut[j] = longer[m]
      BY <2>3
    <3>3. QED
      BY <1>2, <3>1, <3>2 DEF InOrder
  <2>6. QED
    BY <1>3, <2>2, <2>3, <2>4, <2>5
<1>6. QED
  BY <1>1, <1>4, <1>5
-----------------------------------------------------------------------------
LEMMA RelayInitInv == RelayInit => RelayInv
<1> SUFFICES ASSUME RelayInit PROVE RelayInv
  OBVIOUS
<1>1. RelayTypeOK
  BY DEF RelayInit, RelayTypeOK, Sessions
<1>2. NoClientLeftBehind /\ ClosedIsEmpty /\ PartHasBegun /\ OfCompleted /\ Apart /\ NoLineLost
  BY DEF RelayInit, NoClientLeftBehind, ClosedIsEmpty, PartHasBegun, OfCompleted, InOrder, Apart,
     NoLineLost
<1>3. QED
  BY <1>1, <1>2 DEF RelayInv

LEMMA LineBufferStep ==
  lineBuffer \in [Sessions -> BOOLEAN] /\ [RelayNext]_relayVars
    => lineBuffer' \in [Sessions -> BOOLEAN]
  BY Zenon DEF RelayNext, relayVars, TelnetConnect, TelnetRefused, TelnetClearBuffer,
     TelnetConnected, PrintsPart, PrintsLine, OnTelnetClose, TelnetSessionClose, Ended, Attach,
     DetachClient

\* Calls that dial, and what comes of it.
LEMMA DialStep ==
  ASSUME RelayInv, TelnetConnect \/ TelnetRefused \/ \E s \in Sessions : TelnetConnected(s)
  PROVE  RelayInv'
<1> USE DEF RelayInv, TelnetConnect, TelnetRefused, TelnetConnected
<1>1. /\ UNCHANGED <<begun, lineBuffer, gap, attached, received, forgone>>
      /\ opening' \in Nat
      /\ telnetSessions \subseteq telnetSessions' /\ telnetSessions' \subseteq Sessions
  BY DEF RelayTypeOK
<1>2. RelayTypeOK'
  BY <1>1 DEF RelayTypeOK
<1>3. NoClientLeftBehind' /\ ClosedIsEmpty' /\ PartHasBegun'
  BY <1>1 DEF NoClientLeftBehind, ClosedIsEmpty, PartHasBegun
<1>4. OfCompleted' /\ Apart'
  BY <1>1 DEF OfCompleted, Apart, Complete, InOrder
<1>5. NoLineLost'
  <2> SUFFICES ASSUME NEW s \in telnetSessions', NEW n \in Complete(s)
               PROVE  \/ n \in forgone[s] \/ Contains(gap[s], n)
                      \/ \E c \in ClientsOf(s) : Contains(received[c], n)
    BY <1>1 DEF NoLineLost, Complete, ClientsOf
  <2>1. CASE s \in telnetSessions
    BY <2>1 DEF NoLineLost
  <2>2. CASE s \notin telnetSessions
    BY <1>1, <2>2 DEF ClosedIsEmpty, Complete
  <2>3. QED
    BY <2>1, <2>2
<1>6. QED
  BY <1>2, <1>3, <1>4, <1>5

LEMMA PrintsPartStep ==
  ASSUME RelayInv, NEW s \in Sessions, PrintsPart(s), lineBuffer' \in [Sessions -> BOOLEAN]
  PROVE  RelayInv'
<1> USE DEF RelayInv, PrintsPart
<1>1. \A r \in Sessions : Complete(r)' = Complete(r)
  BY DEF RelayTypeOK, Complete
<1>2. RelayTypeOK'
  BY DEF RelayTypeOK
<1>3. NoClientLeftBehind' /\ ClosedIsEmpty' /\ PartHasBegun'
  BY DEF RelayTypeOK, NoClientLeftBehind, ClosedIsEmpty, PartHasBegun
<1>4. OfCompleted' /\ Apart' /\ NoLineLost'
  BY <1>1 DEF RelayTypeOK, NoClientLeftBehind, OfCompleted, InOrder, Apart, NoLineLost, ClientsOf
<1>5. QED
  BY <1>2, <1>3, <1>4

\* One more complete line n, which no buffer or stream of the session holds yet.
LEMMA PrintsLineStep ==
  ASSUME RelayInv, NEW s \in Sessions, PrintsLine(s), lineBuffer' \in [Sessions -> BOOLEAN]
  PROVE  RelayInv'
<1> DEFINE n == begun'[s]
<1> USE DEF RelayInv
<1>t. RelayTypeOK
  OBVIOUS
<1>1. /\ n \in LineNumbers /\ n \notin Complete(s) /\ Complete(s)' = Complete(s) \cup {n}
      /\ \A m \in Complete(s) : m < n
      /\ \A r \in Sessions : r # s => Complete(r)' = Complete(r)
  BY DEF PrintsLine, RelayTypeOK, PartHasBegun, Complete, LineNumbers
<1>2. /\ UNCHANGED <<opening, telnetSessions, attached>> /\ s \in telnetSessions
      /\ begun' \in [Sessions -> 0..MaxLines]
      /\ \A r \in Sessions : r # s => begun'[r] = begun[r] /\ lineBuffer'[r] = lineBuffer[r]
      /\ Delivered(s, n) /\ ~lineBuffer'[s]
  BY DEF PrintsLine, RelayTypeOK
<1>3. NoClientLeftBehind' /\ ClosedIsEmpty' /\ PartHasBegun'
  BY <1>2 DEF RelayTypeOK, NoClientLeftBehind, ClosedIsEmpty, PartHasBegun, Delivered
<1> HIDE DEF n
<1>4. CASE ClientsOf(s) # {}
  <2>1. received' = SentTo(s, n) /\ UNCHANGED <<gap, forgone>>
    BY <1>2, <1>4 DEF Delivered
  <2>2. \A c \in Clients :
          /\ attached[c] # s => received'[c] = received[c]
          /\ attached[c] = s =>
               /\ received'[c] \in Seq(LineNumbers) /\ Len(received'[c]) = Len(received[c]) + 1
               /\ \A i \in 1..Len(received[c]) : received'[c][i] = received[c][i]
               /\ received'[c][Len(received[c]) + 1] = n
    BY <2>1, <1>1, <1>t DEF SentTo, RelayTypeOK
  <2>3. received' \in [Clients -> Seq(LineNumbers)]
    BY <2>1, <1>1, <1>t DEF SentTo, RelayTypeOK
  <2>4. RelayTypeOK'
    BY <1>t, <1>2, <2>1, <2>3 DEF RelayTypeOK
  <2>5. OfCompleted'
    <3>1. \A r \in Sessions :
            InOrder(gap'[r]) /\ \A i \in 1..Len(gap'[r]) : gap'[r][i] \in Complete(r)'
      BY <1>1, <2>1 DEF OfCompleted
    <3> SUFFICES ASSUME NEW c \in Clients
                 PROVE  /\ InOrder(received'[c])
                        /\ attached'[c] # 0 => \A i \in 1..Len(received'[c]) :
                                                received'[c][i] \in Complete(attached[c])'
      BY <1>2, <3>1 DEF OfCompleted, InOrder, Complete
    <3>2. CASE attached[c] # s
      BY <1>t, <1>1, <1>2, <2>2, <3>2 DEF OfCompleted, RelayTypeOK
    <3>3. CASE attached[c] = s
      <4>1. \A i \in 1..Len(received[c]) : received'[c][i] \in Complete(s) /\ received'[c][i] < n
        BY <1>1, <2>2, <3>3 DEF OfCompleted, Sessions
      <4>2. InOrder(received'[c])
        <5>1. received'[c] = Append(received[c], n)
          BY <2>1, <3>3 DEF SentTo
        <5>2. received[c] \in Seq(LineNumbers) /\ InOrder(received[c])
          BY <1>t DEF RelayTypeOK, OfCompleted
        <5>3. \A i \in 1..Len(received[c]) : received[c][i] < n
          BY <2>2, <3>3, <4>1
        <5>4. QED
          BY <5>1, <5>2, <5>3, AppendInOrder
      <4>3. QED
        <5>1. Len(received[c]) \in Nat /\ Len(received'[c]) = Len(received[c]) + 1
          BY <1>t, <2>2, <3>3 DEF RelayTypeOK
        <5>2. \A i \in 1..Len(received'[c]) : i \in 1..Len(received[c]) \/ i = Len(received[c]) + 1
          BY <5>1
        <5>3. \A i \in 1..Len(received'[c]) : received'[c][i] \in Complete(s)'
          BY <1>1, <2>2, <3>3, <4>1, <5>2
        <5>4. QED
          BY <1>2, <3>3, <4>2, <5>3
    <3>4. QED
      BY <3>2, <3>3
  <2>6. Apart'
    <3> SUFFICES ASSUME NEW c \in Clients, attached[c] # 0, NEW i \in 1..Len(received'[c])
                 PROVE  ~Contains(gap[attached[c]], received'[c][i])
      BY <1>2, <2>1 DEF Apart, Contains
    <3>1. CASE i \in 1..Len(received[c]) /\ received'[c][i] = received[c][i]
      BY <3>1 DEF Apart
    <3>2. CASE attached[c] = s /\ received'[c][i] = n
      <4>1. \A j \in 1..Len(gap[s]) : gap[s][j] \in Complete(s)
        BY DEF OfCompleted
      <4>2. ~Contains(gap[s], n)
        BY <1>1, <4>1 DEF Contains
      <4>3. QED
        BY <3>2, <4>2
    <3>3. QED
      <4>1. CASE attached[c] # s
        BY <2>2, <3>1, <4>1
      <4>2. CASE attached[c] = s
        <5>1. Len(received[c]) \in Nat /\ Len(received'[c]) = Len(received[c]) + 1
          BY <1>t, <2>2, <4>2 DEF RelayTypeOK
        <5>2. i \in 1..Len(received[c]) \/ i = Len(received[c]) + 1
          BY <5>1
        <5>3. QED
          BY <2>2, <3>1, <3>2, <4>2, <5>2
      <4>3. QED
        BY <4>1, <4>2
  <2>7. NoLineLost'
    <3> SUFFICES ASSUME NEW r \in telnetSessions, NEW m \in Complete(r)'
                 PROVE  \/ m \in forgone[r] \/ Contains(gap[r], m)
                        \/ \E c \in Clients : attached[c] = r /\ Contains(received'[c], m)
      BY <1>2, <2>1 DEF NoLineLost, ClientsOf
    <3>1. \A c \in Clients : Contains(received[c], m) => Contains(received'[c], m)
      <4> SUFFICES ASSUME NEW c \in Clients, NEW i \in 1..Len(received[c]), received[c][i] = m
                   PROVE  Contains(received'[c], m)
        BY DEF Contains
      <4>1. CASE attached[c] # s
        BY <2>2, <4>1 DEF Contains
      <4>2. CASE attached[c] = s
        <5>1. Len(received[c]) \in Nat /\ Len(received'[c]) = Len(received[c]) + 1
          BY <1>t, <2>2, <4>2 DEF RelayTypeOK
        <5>2. i \in 1..Len(received'[c]) /\ received'[c][i] = m
          BY <2>2, <4>2, <5>1
        <5>3. QED
          BY <5>2 DEF Contains
      <4>3. QED
        BY <4>1, <4>2
    <3>2. CASE m \in Complete(r)
      BY <3>1, <3>2 DEF NoLineLost, ClientsOf
    <3>3. CASE m \notin Complete(r)
      <4>1. r = s /\ m = n
        BY <1>t, <1>1, <3>3 DEF RelayTypeOK
      <4>2. PICK c \in Clients : attached[c] = s
        BY <1>4 DEF ClientsOf
      <4>3. Contains(received'[c], n)
        <5>1. Len(received[c]) \in Nat /\ Len(received'[c]) = Len(received[c]) + 1
          BY <1>t, <2>2, <4>2 DEF RelayTypeOK
        <5>2. Len(received[c]) + 1 \in 1..Len(received'[c])
          BY <5>1
        <5>3. received'[c][Len(received[c]) + 1] = n
          BY <2>2, <4>2
        <5>4. QED
          BY <5>2, <5>3 DEF Contains
      <4>4. QED
        BY <4>1, <4>2, <4>3
    <3>4. QED
      BY <3>2, <3>3
  <2>8. QED
    BY <1>3, <2>4, <2>5, <2>6, <2>7
<1>5. CASE ClientsOf(s) = {}
  <2>1. /\ gap' = [gap EXCEPT ![s] = Grown(s, n)] /\ UNCHANGED received
        /\ forgone' = [forgone EXCEPT ![s] =
             @ \cup (ToSet(Append(gap[s], n)) \ ToSet(Grown(s, n)))]
    BY <1>2, <1>5 DEF Delivered
  <2>2. /\ Grown(s, n) \in Seq(LineNumbers) /\ Len(Grown(s, n)) <= MaxGap
        /\ InOrder(Grown(s, n))
        /\ \A i \in 1..Len(Grown(s, n)) : Grown(s, n)[i] = n \/ Contains(gap[s], Grown(s, n)[i])
    BY <1>t, <1>1, GrownFacts DEF RelayTypeOK, OfCompleted
  <2>3. /\ \A i \in 1..Len(gap[s]) : gap[s][i] \in ToSet(Append(gap[s], n))
        /\ n \in ToSet(Append(gap[s], n)) /\ ToSet(Append(gap[s], n)) \subseteq LineNumbers
    <3> DEFINE longer == Append(gap[s], n)
    <3>1. /\ longer \in Seq(LineNumbers) /\ Len(longer) = Len(gap[s]) + 1 /\ Len(gap[s]) \in Nat
          /\ \A i \in 1..Len(gap[s]) : longer[i] = gap[s][i]
          /\ longer[Len(gap[s]) + 1] = n
      BY <1>t, <1>1 DEF RelayTypeOK
    <3> HIDE DEF longer
    <3>2. DOMAIN longer = 1..Len(longer) /\ \A i \in 1..Len(longer) : longer[i] \in LineNumbers
      BY <3>1
    <3>3. ToSet(longer) = {longer[i] : i \in 1..Len(longer)}
      BY <3>2 DEF ToSet
    <3>4. (\A i \in 1..Len(gap[s]) : gap[s][i] \in ToSet(longer)) /\ n \in ToSet(longer)
      BY <3>1, <3>3
    <3>5. ToSet(longer) \subseteq LineNumbers
      BY <3>2, <3>3
    <3>6. QED
      BY <3>4, <3>5 DEF longer
  <2>4. \A m : m \in ToSet(Append(gap[s], n)) => m \in forgone'[s] \/ Contains(gap'[s], m)
    BY <1>t, <2>1, <2>2 DEF RelayTypeOK, ToSet, Contains
  <2>5. RelayTypeOK'
    BY <1>t, <1>2, <2>1, <2>2, <2>3 DEF RelayTypeOK
  <2>6. OfCompleted'
    <3>1. ASSUME NEW r \in Sessions
          PROVE  InOrder(gap'[r]) /\ \A i \in 1..Len(gap'[r]) : gap'[r][i] \in Complete(r)'
      <4>1. CASE r # s
        <5>1. gap'[r] = gap[r]
          BY <1>t, <2>1, <4>1 DEF RelayTypeOK
        <5>2. QED
          BY <1>1, <4>1, <5>1 DEF OfCompleted
      <4>2. CASE r = s
        <5>1. gap'[s] = Grown(s, n)
          BY <1>t, <2>1 DEF RelayTypeOK
        <5>2. \A m : Contains(gap[s], m) => m \in Complete(s)
          BY DEF OfCompleted, Contains
        <5>3. \A i \in 1..Len(Grown(s, n)) : Grown(s, n)[i] \in Complete(s)'
          BY <1>1, <2>2, <5>2
        <5>4. QED
          BY <2>2, <4>2, <5>1, <5>3
      <4>3. QED
        BY <4>1, <4>2
    <3>2. ASSUME NEW c \in Clients
          PROVE  /\ InOrder(received'[c])
                 /\ attached'[c] # 0 => \A i \in 1..Len(received'[c]) :
                                         received'[c][i] \in Complete(attached[c])'
      <4>1. received'[c] = received[c] /\ attached'[c] = attached[c] /\ attached[c] # s
        BY <1>2, <1>5, <2>1 DEF ClientsOf
      <4>2. attached[c] # 0 => attached[c] \in Sessions
        BY <1>t DEF RelayTypeOK
      <4>3. attached[c] # 0 => Complete(attached[c])' = Complete(attached[c])
        BY <1>1, <4>1, <4>2
      <4>4. QED
        BY <4>1, <4>3 DEF OfCompleted
    <3>3. QED
      BY <1>2, <3>1, <3>2 DEF OfCompleted, InOrder, Complete
  <2>7. Apart'
    BY <1>t, <1>2, <1>5, <2>1 DEF Apart, RelayTypeOK, ClientsOf, NoClientLeftBehind
  <2>8. NoLineLost'
    <3> SUFFICES ASSUME NEW r \in telnetSessions, NEW m \in Complete(r)'
                 PROVE  \/ m \in forgone'[r] \/ Contains(gap'[r], m)
                        \/ \E c \in Clients : attached[c] = r /\ Contains(received[c], m)
      BY <1>2, <2>1 DEF NoLineLost, ClientsOf
    <3>1. CASE r # s
      <4>1. m \in Complete(r) /\ forgone'[r] = forgone[r] /\ gap'[r] = gap[r]
        BY <1>t, <1>1, <2>1, <3>1 DEF RelayTypeOK
      <4>2. QED
        BY <4>1 DEF NoLineLost, ClientsOf
    <3>2. CASE r = s /\ m = n
      BY <2>3, <2>4, <3>2
    <3>3. CASE r = s /\ m \in Complete(s)
      <4>1. m \in forgone[s] \/ Contains(gap[s], m)
        BY <1>5, <3>3 DEF NoLineLost
      <4>2. CASE m \in forgone[s]
        BY <1>t, <2>1, <3>3, <4>2 DEF RelayTypeOK
      <4>3. CASE Contains(gap[s], m)
        BY <2>3, <2>4, <3>3, <4>3 DEF Contains
      <4>4. QED
        BY <4>1, <4>2, <4>3
    <3>4. QED
      BY <1>1, <3>1, <3>2, <3>3
  <2>9. QED
    BY <1>3, <2>5, <2>6, <2>7, <2>8
<1>6. QED
  BY <1>4, <1>5

\* A session that leaves takes its buffers with it, and its clients let go.
LEMMA EndedStep ==
  ASSUME RelayInv, NEW s \in Sessions, Ended(s), lineBuffer' \in [Sessions -> BOOLEAN],
         received' \in [Clients -> Seq(LineNumbers)],
         \A c \in Clients : InOrder(received'[c]) /\ (attached[c] # s => received'[c] = received[c])
  PROVE  RelayInv'
<1> USE DEF RelayInv, Ended
<1>1. RelayTypeOK'
  BY DEF RelayTypeOK
<1>2. NoClientLeftBehind' /\ ClosedIsEmpty' /\ PartHasBegun'
  BY DEF RelayTypeOK, NoClientLeftBehind, ClosedIsEmpty, PartHasBegun, Sessions
<1>3. \A r \in Sessions : r # s =>
        Complete(r)' = Complete(r) /\ gap'[r] = gap[r] /\ forgone'[r] = forgone[r]
  BY DEF RelayTypeOK, Complete
<1>4. gap'[s] = <<>> /\ \A c \in Clients : attached'[c] = (IF attached[c] = s THEN 0 ELSE attached[c])
  BY DEF RelayTypeOK
<1>5. OfCompleted'
  BY <1>3, <1>4 DEF RelayTypeOK, OfCompleted, InOrder
<1>6. Apart'
  BY <1>3, <1>4 DEF RelayTypeOK, Apart
<1>7. NoLineLost'
  <2> SUFFICES ASSUME NEW r \in telnetSessions, r # s, NEW m \in Complete(r)'
               PROVE  \/ m \in forgone[r] \/ Contains(gap[r], m)
                      \/ \E c \in Clients : attached'[c] = r /\ Contains(received'[c], m)
    BY <1>3 DEF NoLineLost, ClientsOf, RelayTypeOK
  <2>1. m \in Complete(r)
    BY <1>3 DEF RelayTypeOK
  <2>2. \A c \in Clients : attached[c] = r => attached'[c] = r /\ received'[c] = received[c]
    BY <1>4
  <2>3. QED
    BY <2>1, <2>2 DEF NoLineLost, ClientsOf
<1>8. QED
  BY <1>1, <1>2, <1>5, <1>6, <1>7

LEMMA TelnetSessionCloseStep ==
  ASSUME RelayInv, NEW s \in Sessions, TelnetSessionClose(s), lineBuffer' \in [Sessions -> BOOLEAN]
  PROVE  RelayInv'
  BY EndedStep DEF TelnetSessionClose, RelayInv, RelayTypeOK, OfCompleted

LEMMA OnTelnetCloseStep ==
  ASSUME RelayInv, NEW s \in Sessions, OnTelnetClose(s), lineBuffer' \in [Sessions -> BOOLEAN]
  PROVE  RelayInv'
<1>1. received' \in [Clients -> Seq(LineNumbers)]
  <2>1. CASE lineBuffer[s]
    <3>1. begun[s] \in LineNumbers
      BY <2>1 DEF RelayInv, RelayTypeOK, PartHasBegun, LineNumbers
    <3>2. received' = SentTo(s, begun[s])
      BY <2>1 DEF OnTelnetClose
    <3>3. QED
      BY <3>1, <3>2 DEF SentTo, RelayInv, RelayTypeOK
  <2>2. CASE ~lineBuffer[s]
    BY <2>2 DEF OnTelnetClose, RelayInv, RelayTypeOK
  <2>3. QED
    BY <2>1, <2>2
<1>2. \A c \in Clients : InOrder(received'[c]) /\ (attached[c] # s => received'[c] = received[c])
  <2>1. CASE lineBuffer[s]
    <3>1. begun[s] \in Nat /\ \A m \in Complete(s) : m < begun[s]
      BY <2>1 DEF RelayInv, RelayTypeOK, Complete
    <3>2. \A c \in Clients :
            received'[c] = IF attached[c] = s THEN Append(received[c], begun[s]) ELSE received[c]
      BY <2>1 DEF OnTelnetClose, SentTo
    <3> SUFFICES ASSUME NEW c \in Clients
                 PROVE  InOrder(received'[c]) /\ (attached[c] # s => received'[c] = received[c])
      OBVIOUS
    <3>3. CASE attached[c] # s
      BY <3>2, <3>3 DEF RelayInv, OfCompleted
    <3>4. CASE attached[c] = s
      <4> DEFINE q == received[c]
      <4>1. q \in Seq(LineNumbers) /\ InOrder(q) /\ \A i \in 1..Len(q) : q[i] < begun[s]
        <5>1. q \in Seq(LineNumbers) /\ InOrder(q)
          BY DEF RelayInv, RelayTypeOK, OfCompleted
        <5>2. attached[c] # 0
          BY <3>4 DEF Sessions
        <5>3. \A i \in 1..Len(q) : q[i] \in Complete(s)
          BY <3>4, <5>2 DEF RelayInv, OfCompleted
        <5>4. QED
          BY <3>1, <5>1, <5>3
      <4>2. received'[c] = Append(q, begun[s])
        BY <3>2, <3>4
      <4> HIDE DEF q
      <4>3. InOrder(Append(q, begun[s]))
        BY <4>1, AppendInOrder
      <4>4. QED
        BY <3>4, <4>2, <4>3
    <3>5. QED
      BY <3>3, <3>4
  <2>2. CASE ~lineBuffer[s]
    BY <2>2 DEF OnTelnetClose, RelayInv, OfCompleted
  <2>3. QED
    BY <2>1, <2>2
<1>3. QED
  BY <1>1, <1>2, EndedStep DEF OnTelnetClose

\* Nothing that a user clears is lost to anyone but by that.
LEMMA ClearStep ==
  ASSUME RelayInv, TelnetClearBuffer, lineBuffer' \in [Sessions -> BOOLEAN]
  PROVE  RelayInv'
<1>t. RelayTypeOK
  BY DEF RelayInv
<1>1. PICK s \in telnetSessions :
        /\ gap' = [gap EXCEPT ![s] = <<>>] /\ lineBuffer' = [lineBuffer EXCEPT ![s] = FALSE]
        /\ forgone' = [forgone EXCEPT ![s] =
             @ \cup ToSet(gap[s]) \cup (IF lineBuffer[s] THEN {begun[s]} ELSE {})]
        /\ UNCHANGED <<opening, telnetSessions, begun, attached, received>>
  BY DEF TelnetClearBuffer
<1>2. /\ s \in Sessions /\ gap'[s] = <<>>
      /\ \A r \in Sessions : r # s =>
           gap'[r] = gap[r] /\ forgone'[r] = forgone[r] /\ Complete(r)' = Complete(r)
  BY <1>t, <1>1 DEF RelayTypeOK, Complete
<1>3. /\ Complete(s) \subseteq Complete(s)'
      /\ \A m \in Complete(s)' : m \in Complete(s) \/ (lineBuffer[s] /\ m = begun[s])
  BY <1>t, <1>1 DEF RelayTypeOK, Complete
<1>4. DOMAIN gap[s] = 1..Len(gap[s]) /\ \A i \in 1..Len(gap[s]) : gap[s][i] \in LineNumbers
  BY <1>t, <1>2 DEF RelayTypeOK
<1>5. RelayTypeOK'
  <2>1. ToSet(gap[s]) \subseteq LineNumbers
    BY <1>4 DEF ToSet
  <2>2. lineBuffer[s] => begun[s] \in LineNumbers
    BY <1>t, <1>2 DEF RelayInv, RelayTypeOK, PartHasBegun, LineNumbers
  <2>3. forgone' \in [Sessions -> SUBSET LineNumbers]
    BY <1>t, <1>1, <2>1, <2>2 DEF RelayTypeOK
  <2>4. QED
    BY <1>t, <1>1, <2>3 DEF RelayTypeOK
<1>6. NoClientLeftBehind' /\ ClosedIsEmpty' /\ PartHasBegun'
  BY <1>t, <1>1 DEF RelayInv, RelayTypeOK, NoClientLeftBehind, ClosedIsEmpty, PartHasBegun
<1>7. OfCompleted'
  <2>1. ASSUME NEW r \in Sessions
        PROVE  InOrder(gap'[r]) /\ \A i \in 1..Len(gap'[r]) : gap'[r][i] \in Complete(r)'
    <3>1. CASE r = s
      BY <1>2, <3>1, EmptyInOrder
    <3>2. CASE r # s
      BY <1>2, <3>2 DEF RelayInv, OfCompleted
    <3>3. QED
      BY <3>1, <3>2
  <2>2. ASSUME NEW d \in Clients
        PROVE  /\ InOrder(received'[d])
               /\ attached'[d] # 0 => \A i \in 1..Len(received'[d]) :
                                       received'[d][i] \in Complete(attached[d])'
    <3>1. attached'[d] = attached[d] /\ received'[d] = received[d]
      BY <1>1
    <3>2. attached[d] # 0 => attached[d] \in Sessions
      BY <1>t DEF RelayTypeOK
    <3>3. attached[d] # 0 => Complete(attached[d]) \subseteq Complete(attached[d])'
      BY <1>1, <1>2, <1>3, <3>1, <3>2
    <3>4. QED
      BY <3>1, <3>3 DEF RelayInv, OfCompleted
  <2>3. QED
    BY <2>1, <2>2 DEF OfCompleted, InOrder, Complete
<1>8. Apart'
  BY <1>t, <1>1, <1>2 DEF RelayInv, RelayTypeOK, Apart, Contains
<1>9. NoLineLost'
  <2> SUFFICES ASSUME NEW r \in telnetSessions, NEW m \in Complete(r)'
               PROVE  \/ m \in forgone'[r] \/ Contains(gap'[r], m)
                      \/ \E c \in ClientsOf(r) : Contains(received[c], m)
    BY <1>1 DEF NoLineLost, ClientsOf
  <2>1. CASE r # s
    BY <1>t, <1>2, <2>1 DEF RelayInv, RelayTypeOK, NoLineLost
  <2>2. CASE r = s /\ m \in Complete(s)
    <3>1. Contains(gap[s], m) => m \in ToSet(gap[s])
      BY <1>4 DEF Contains, ToSet
    <3>2. forgone[s] \cup ToSet(gap[s]) \subseteq forgone'[s]
      BY <1>t, <1>1, <1>2 DEF RelayTypeOK
    <3>3. QED
      BY <2>2, <3>1, <3>2 DEF RelayInv, NoLineLost
  <2>3. CASE r = s /\ lineBuffer[s] /\ m = begun[s]
    BY <1>t, <1>1, <1>2, <2>3 DEF RelayTypeOK
  <2>4. QED
    BY <1>3, <2>1, <2>2, <2>3
<1>10. QED
  BY <1>5, <1>6, <1>7, <1>8, <1>9 DEF RelayInv

\* A client that attaches takes the buffer over, or starts from what comes next.
LEMMA AttachStep ==
  ASSUME RelayInv, NEW c \in Clients, NEW s \in Sessions, Attach(c, s)
  PROVE  RelayInv'
<1>t. RelayTypeOK
  BY DEF RelayInv
<1>1. PICK skipBuffer \in BOOLEAN : Attached(c, s, skipBuffer)
  BY DEF Attach
<1>2. /\ attached[c] = 0 /\ s \in telnetSessions /\ attached'[c] = s
      /\ UNCHANGED <<opening, telnetSessions, begun, lineBuffer, forgone>>
      /\ \A d \in Clients : d # c => attached'[d] = attached[d] /\ received'[d] = received[d]
      /\ \A r \in Sessions : r # s => gap'[r] = gap[r]
      /\ \/ received'[c] = <<>> /\ gap'[s] = gap[s]
         \/ received'[c] = gap[s] /\ gap'[s] = <<>>
  BY <1>t, <1>1 DEF Attach, Attached, RelayTypeOK
<1>3. RelayTypeOK'
  BY <1>t, <1>1, <1>2 DEF Attached, RelayTypeOK
<1>4. NoClientLeftBehind' /\ ClosedIsEmpty' /\ PartHasBegun'
  BY <1>t, <1>2 DEF RelayInv, RelayTypeOK, NoClientLeftBehind, ClosedIsEmpty, PartHasBegun
<1>5. OfCompleted'
  <2>0. \A r \in Sessions : Complete(r)' = Complete(r)
    BY <1>2 DEF Complete
  <2>1. ASSUME NEW r \in Sessions
        PROVE  InOrder(gap'[r]) /\ \A i \in 1..Len(gap'[r]) : gap'[r][i] \in Complete(r)'
    <3>1. gap'[r] = gap[r] \/ gap'[r] = <<>>
      BY <1>2
    <3>2. QED
      BY <2>0, <3>1, EmptyInOrder DEF RelayInv, OfCompleted
  <2>2. ASSUME NEW d \in Clients
        PROVE  /\ InOrder(received'[d])
               /\ attached'[d] # 0 => \A i \in 1..Len(received'[d]) :
                                       received'[d][i] \in Complete(attached[d])'
    <3>1. CASE d = c
      <4>1. received'[c] = <<>> \/ received'[c] = gap[s]
        BY <1>2
      <4>2. QED
        BY <1>2, <2>0, <3>1, <4>1, EmptyInOrder DEF RelayInv, OfCompleted
    <3>2. CASE d # c
      <4>1. attached'[d] = attached[d] /\ received'[d] = received[d]
        BY <1>2, <3>2
      <4>2. attached[d] # 0 => attached[d] \in Sessions
        BY <1>t DEF RelayTypeOK
      <4>3. attached[d] # 0 => Complete(attached[d])' = Complete(attached[d])
        BY <2>0, <4>1, <4>2
      <4>4. QED
        BY <4>1, <4>3 DEF RelayInv, OfCompleted
    <3>3. QED
      BY <3>1, <3>2
  <2>3. QED
    BY <2>1, <2>2 DEF OfCompleted, InOrder, Complete
<1>6. Apart'
  <2> SUFFICES ASSUME NEW d \in Clients, attached'[d] # 0, NEW i \in 1..Len(received'[d])
               PROVE  ~Contains(gap'[attached'[d]], received'[d][i])
    BY DEF Apart, Contains
  <2>1. CASE d = c /\ received'[c] = <<>>
    BY <2>1
  <2>2. CASE d = c /\ gap'[s] = <<>>
    BY <1>2, <2>2 DEF Contains
  <2>3. CASE d # c
    <3>1. attached[d] \in Sessions /\ ~Contains(gap[attached[d]], received[d][i])
      BY <1>t, <1>2, <2>3 DEF RelayInv, RelayTypeOK, Apart
    <3>2. gap'[attached[d]] = gap[attached[d]] \/ gap'[attached[d]] = <<>>
      BY <1>2, <3>1
    <3>3. CASE gap'[attached[d]] = gap[attached[d]]
      BY <1>2, <2>3, <3>1, <3>3
    <3>4. CASE gap'[attached[d]] = <<>>
      BY <1>2, <2>3, <3>4 DEF Contains
    <3>5. QED
      BY <3>2, <3>3, <3>4
  <2>4. QED
    BY <1>2, <2>1, <2>2, <2>3
<1>7. NoLineLost'
  <2> SUFFICES ASSUME NEW r \in telnetSessions, NEW m \in Complete(r)
               PROVE  \/ m \in forgone[r] \/ Contains(gap'[r], m)
                      \/ \E d \in Clients : attached'[d] = r /\ Contains(received'[d], m)
    BY <1>2 DEF NoLineLost, ClientsOf, Complete
  <2>1. r \in Sessions /\ r # 0
    BY <1>t DEF RelayTypeOK, Sessions
  <2>2. CASE m \in forgone[r]
    BY <2>2
  <2>3. CASE Contains(gap[r], m)
    <3>1. gap'[r] = gap[r] \/ (r = s /\ received'[c] = gap[s])
      BY <1>2, <2>1
    <3>2. QED
      BY <1>2, <2>3, <3>1
  <2>4. CASE \E d \in Clients : attached[d] = r /\ Contains(received[d], m)
    BY <1>2, <2>1, <2>4
  <2>5. QED
    BY <2>2, <2>3, <2>4 DEF RelayInv, NoLineLost, ClientsOf
<1>8. QED
  BY <1>3, <1>4, <1>5, <1>6, <1>7 DEF RelayInv

\* What a client received is forgone when it leaves.
LEMMA DetachStep ==
  ASSUME RelayInv, NEW c \in Clients, DetachClient(c)
  PROVE  RelayInv'
<1>t. RelayTypeOK
  BY DEF RelayInv
<1> DEFINE s == attached[c]
<1>1. /\ s \in Sessions /\ attached'[c] = 0 /\ received'[c] = <<>>
      /\ UNCHANGED <<opening, telnetSessions, begun, lineBuffer, gap>>
      /\ \A d \in Clients : d # c => attached'[d] = attached[d] /\ received'[d] = received[d]
      /\ \A r \in Sessions : r # s => forgone'[r] = forgone[r]
      /\ forgone'[s] = forgone[s] \cup ToSet(received[c])
  BY <1>t DEF DetachClient, RelayTypeOK
<1>2. DOMAIN received[c] = 1..Len(received[c]) /\ \A i \in 1..Len(received[c]) : received[c][i] \in LineNumbers
  BY <1>t DEF RelayTypeOK
<1>3. RelayTypeOK'
  <2>1. ToSet(received[c]) \subseteq LineNumbers
    BY <1>2 DEF ToSet
  <2>2. QED
    BY <1>t, <2>1 DEF DetachClient, RelayTypeOK
<1>4. NoClientLeftBehind' /\ ClosedIsEmpty' /\ PartHasBegun'
  BY <1>t, <1>1 DEF RelayInv, RelayTypeOK, NoClientLeftBehind, ClosedIsEmpty, PartHasBegun
<1>5. OfCompleted'
  <2> HIDE DEF s
  <2>0. \A r \in Sessions : Complete(r)' = Complete(r)
    BY <1>1 DEF Complete
  <2>1. ASSUME NEW r \in Sessions
        PROVE  InOrder(gap'[r]) /\ \A i \in 1..Len(gap'[r]) : gap'[r][i] \in Complete(r)'
    BY <1>1, <2>0 DEF RelayInv, OfCompleted
  <2>2. ASSUME NEW d \in Clients
        PROVE  /\ InOrder(received'[d])
               /\ attached'[d] # 0 => \A i \in 1..Len(received'[d]) :
                                       received'[d][i] \in Complete(attached[d])'
    <3>1. CASE d = c
      BY <1>1, <3>1, EmptyInOrder
    <3>2. CASE d # c
      <4>1. attached'[d] = attached[d] /\ received'[d] = received[d]
        BY <1>1, <3>2
      <4>2. attached[d] # 0 => attached[d] \in Sessions
        BY <1>t DEF RelayTypeOK
      <4>3. attached[d] # 0 => Complete(attached[d])' = Complete(attached[d])
        BY <2>0, <4>1, <4>2
      <4>4. QED
        BY <4>1, <4>3 DEF RelayInv, OfCompleted
    <3>3. QED
      BY <3>1, <3>2
  <2>3. QED
    BY <2>1, <2>2 DEF OfCompleted, InOrder, Complete
<1>6. Apart'
  BY <1>t, <1>1 DEF RelayInv, RelayTypeOK, Apart
<1>7. NoLineLost'
  <2>1. \A m : Contains(received[c], m) => m \in ToSet(received[c])
    BY <1>2 DEF Contains, ToSet
  <2> HIDE DEF s
  <2>2. \A r \in telnetSessions : \A m \in Complete(r)' : m \in Complete(r)
    BY <1>1 DEF Complete
  <2>3. \A r \in Sessions : forgone[r] \subseteq forgone'[r]
    BY <1>1
  <2> SUFFICES ASSUME NEW r \in telnetSessions, NEW m \in Complete(r)
               PROVE  \/ m \in forgone'[r] \/ Contains(gap[r], m)
                      \/ \E d \in Clients : attached'[d] = r /\ Contains(received'[d], m)
    BY <1>1, <2>2 DEF NoLineLost, ClientsOf
  <2>4. CASE \E d \in Clients : d # c /\ attached[d] = r /\ Contains(received[d], m)
    BY <1>1, <2>4
  <2>5. CASE attached[c] = r /\ Contains(received[c], m)
    BY <1>1, <2>1, <2>5 DEF s
  <2>6. CASE m \in forgone[r] \/ Contains(gap[r], m)
    BY <1>t, <2>3, <2>6 DEF RelayTypeOK
  <2>7. QED
    BY <2>4, <2>5, <2>6 DEF RelayInv, NoLineLost, ClientsOf
<1>8. QED
  BY <1>3, <1>4, <1>5, <1>6, <1>7 DEF RelayInv

LEMMA StutterStep == RelayInv /\ UNCHANGED relayVars => RelayInv'
  BY DEF relayVars, RelayInv, RelayTypeOK, NoClientLeftBehind, ClosedIsEmpty, PartHasBegun,
     OfCompleted, InOrder, Apart, NoLineLost, Contains, ClientsOf, Complete

LEMMA RelayInvStep == RelayInv /\ [RelayNext]_relayVars => RelayInv'
<1> SUFFICES ASSUME RelayInv, [RelayNext]_relayVars PROVE RelayInv'
  OBVIOUS
<1>1. lineBuffer' \in [Sessions -> BOOLEAN]
  BY LineBufferStep DEF RelayInv, RelayTypeOK
<1>2. QED
  BY <1>1, DialStep, PrintsPartStep, PrintsLineStep, OnTelnetCloseStep, TelnetSessionCloseStep,
     ClearStep, AttachStep, DetachStep, StutterStep DEF RelayNext

-----------------------------------------------------------------------------
\* Every reachable state of a device's sessions satisfies the invariant above.
THEOREM RelayInvariant == RelaySpec => []RelayInv
  BY RelayInitInv, RelayInvStep, PTL DEF RelaySpec

\* No line the device completed disappears between clients.
THEOREM NoLineLostHolds == RelaySpec => []NoLineLost
<1>1. RelayInv => NoLineLost
  BY DEF RelayInv
<1>2. QED
  BY <1>1, RelayInvariant, PTL

\* No client is told a line twice or out of order, nor will be by the buffer.
THEOREM NoLineTwiceHolds == RelaySpec => []NoLineTwice
<1>1. RelayInv => NoLineTwice
  <2> SUFFICES ASSUME RelayInv, NEW c \in Clients
               PROVE  /\ \A i, j \in DOMAIN received[c] : i < j => received[c][i] < received[c][j]
                      /\ attached[c] # 0 => ToSet(received[c]) \cap ToSet(gap[attached[c]]) = {}
    BY DEF NoLineTwice
  <2>1. DOMAIN received[c] = 1..Len(received[c])
    BY DEF RelayInv, RelayTypeOK
  <2>2. ASSUME attached[c] # 0 PROVE ToSet(received[c]) \cap ToSet(gap[attached[c]]) = {}
    <3>1. DOMAIN gap[attached[c]] = 1..Len(gap[attached[c]])
      BY <2>2 DEF RelayInv, RelayTypeOK
    <3>2. QED
      BY <2>1, <2>2, <3>1 DEF RelayInv, Apart, ToSet, Contains
  <2>3. QED
    BY <2>1, <2>2 DEF RelayInv, OfCompleted, InOrder
<1>2. QED
  BY <1>1, RelayInvariant, PTL

\* No client stays attached to a session that ended.
THEOREM NoClientLeftBehindHolds == RelaySpec => []NoClientLeftBehind
<1>1. RelayInv => NoClientLeftBehind
  BY DEF RelayInv
<1>2. QED
  BY <1>1, RelayInvariant, PTL
=============================================================================
