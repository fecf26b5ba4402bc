------------------------- MODULE WorkerPoolProofs -------------------------
(***************************************************************************)
(* What the worker pool promises, for any number of slots, threads and     *)
(* tasks: its types, that no slot idles or is lost, the order tasks are    *)
(* started in, and that each of its steps is one of the interface TaskPool *)
(* or leaves what callers see alone.                                       *)
(*                                                                         *)
(* That a slot is not lost is not inductive: one has to know what is still *)
(* to come from each worker, which is one answer at most while it lives    *)
(* and its exit once it is dead.                                           *)
(***************************************************************************)
EXTENDS WorkerPool, FiniteSetTheorems, WellFoundedInduction, TLAPS

\* The queue is in the order of the calls of run, which is that of the tasks.
Ordered ==
  /\ \A k \in DOMAIN queue : promise[queue[k]] # "none"
  /\ \A j, k \in DOMAIN queue : j < k => queue[j] < queue[k]

IdleHasNoTask  == \A w \in Threads : ~busy[w] => taskId[w] = 0
OnlyLivingWork == \A w \in Threads : ~alive[w] => hand[w] = 0

\* The worker in a slot is idle with nothing to come, works on its task, or has an
\* answer under way; a dead one's exit is still to come.
IdleWorker(w)      == ~busy[w] /\ hand[w] = 0 /\ events[w] = <<>>
WorkingWorker(w)   == busy[w] /\ taskId[w] # 0 /\ hand[w] = taskId[w] /\ events[w] = <<>>
AnsweringWorker(w) == busy[w] /\ hand[w] = 0 /\ Len(events[w]) = 1
LivingWorker(w)    == IdleWorker(w) \/ WorkingWorker(w) \/ AnsweringWorker(w)
DyingWorker(w)     == events[w] # <<>> /\ events[w][Len(events[w])] = Exit

SlotsKept ==
  ~destroyed => \A i \in Slots :
    /\ alive[workers[i]] => LivingWorker(workers[i])
    /\ ~alive[workers[i]] => DyingWorker(workers[i])

WorkerInv ==
  TypeOK /\ Ordered /\ IdleHasNoTask /\ OnlyLivingWork /\ SlotsKept /\ NoIdleWhileQueued

\* A step of StartsInOrder.
InOrder ==
  \A w \in Threads : taskId'[w] \notin {0, taskId[w]} =>
    /\ taskId'[w] \in pendingById'
    /\ \A k \in DOMAIN queue' : taskId'[w] < queue'[k]

USE SizesAssumption DEF Tasks, Slots

-----------------------------------------------------------------------------
\* Numbers and finite sets of them.

LEMMA LeastNumber ==
  ASSUME NEW T, T \subseteq Nat, T # {}
  PROVE  \E m \in T : \A n \in T : m <= n
<1>1. PICK R : IsWellFoundedOn(R, Nat) /\ \A m, n \in Nat : n < m => <<n, m>> \in R
  <2> DEFINE Less == OpToRel(<, Nat)
  <2>1. IsWellFoundedOn(Less, Nat)
    BY NatLessThanWellFounded
  <2>2. \A m, n \in Nat : n < m => <<n, m>> \in Less
    BY DEF OpToRel
  <2> HIDE DEF Less
  <2>3. QED
    BY <2>1, <2>2
<1>2. PICK m \in T : \A n \in T : ~(<<n, m>> \in R)
  BY <1>1, WFMin
<1>3. ASSUME NEW n \in T PROVE m <= n
  <2>1. m \in Nat /\ n \in Nat
    OBVIOUS
  <2>2. ~(n < m)
    BY <1>1, <1>2, <2>1, Zenon
  <2>3. QED
    BY <2>1, <2>2
<1>4. QED
  BY <1>2, <1>3

LEMMA MaxFacts ==
  ASSUME NEW b \in Nat, NEW T, T \subseteq 0..b, T # {}
  PROVE  /\ Max(T) \in T
         /\ \A n \in T : n <= Max(T)
<1> DEFINE U == {u \in Nat : \A n \in T : n <= u}
<1>1. b \in U /\ U \subseteq Nat
  OBVIOUS
<1>2. PICK m \in U : \A u \in U : m <= u
  BY <1>1, LeastNumber
<1>3. m \in T
  <2>1. SUFFICES ASSUME m \notin T PROVE FALSE
    OBVIOUS
  <2>2. m \in Nat /\ \A n \in T : n \in Nat /\ n < m
    BY <2>1
  <2>3. PICK n \in T : n < m
    BY <2>2
  <2>4. m - 1 \in Nat /\ \A k \in T : k <= m - 1
    BY <2>2, <2>3
  <2>5. QED
    BY <1>2, <2>2, <2>4
<1>4. \E x \in T : \A y \in T : x >= y
  BY <1>2, <1>3
<1>5. QED
  BY <1>4 DEF Max

LEMMA SubsetOfNumbers ==
  ASSUME NEW b \in Nat, NEW T, T \subseteq 0..b
  PROVE  IsFiniteSet(T) /\ Cardinality(T) \in Nat
<1>1. IsFiniteSet(0..b)
  BY FS_Interval
<1>2. QED
  BY <1>1, FS_Subset, FS_CardinalityType

Rank(W, n)  == Cardinality({k \in W : k <= n})
Below(W, n) == {k \in W : k < n}

LEMMA RankFacts ==
  ASSUME NEW b \in Nat, NEW W, W \subseteq 0..b, NEW n \in W
  PROVE  /\ Below(W, n) \subseteq 0..b /\ IsFiniteSet(Below(W, n))
         /\ Cardinality(Below(W, n)) \in Nat
         /\ Rank(W, n) = Cardinality(Below(W, n)) + 1
         /\ Rank(W, n) <= Cardinality(W)
<1>1. Below(W, n) \subseteq 0..b
  BY DEF Below
<1>2. IsFiniteSet(Below(W, n)) /\ Cardinality(Below(W, n)) \in Nat
  BY <1>1, SubsetOfNumbers
<1>3. {k \in W : k <= n} = Below(W, n) \cup {n} /\ n \notin Below(W, n)
  <2>1. W \subseteq Nat
    OBVIOUS
  <2>2. \A k \in W : k <= n <=> k < n \/ k = n
    BY <2>1
  <2>3. ~(n < n)
    BY <2>1
  <2>4. QED
    BY <2>2, <2>3 DEF Below
<1>4. Cardinality(Below(W, n) \cup {n}) = Cardinality(Below(W, n)) + 1
  BY <1>2, <1>3, FS_AddElement
<1>5. {k \in W : k <= n} \in SUBSET W
  OBVIOUS
<1>6. Cardinality({k \in W : k <= n}) <= Cardinality(W)
  BY <1>5, SubsetOfNumbers, FS_Subset
<1>7. QED
  BY <1>1, <1>2, <1>3, <1>4, <1>6 DEF Rank

\* Among the numbers of a set, there is one of every rank up to its size.
LEMMA RankFound ==
  ASSUME NEW b \in Nat, NEW W, W \subseteq 0..b, NEW m \in Nat, m # 0, m <= Cardinality(W)
  PROVE  \E k \in W : Rank(W, k) = m
<1> DEFINE T == {k \in W : m <= Rank(W, k)}
<1>1. T # {}
  <2>1. W # {}
    BY FS_EmptySet
  <2>2. Max(W) \in W /\ \A j \in W : j <= Max(W)
    BY <2>1, MaxFacts
  <2>3. {j \in W : j <= Max(W)} = W
    BY <2>2
  <2>4. QED
    BY <2>2, <2>3 DEF Rank
<1>2. PICK k \in T : \A j \in T : k <= j
  <2>1. T \subseteq Nat
    <3>1. W \subseteq Nat
      OBVIOUS
    <3>2. QED
      BY <3>1
  <2>2. QED
    BY <1>1, <2>1, LeastNumber
<1>3. k \in W /\ m <= Rank(W, k)
  OBVIOUS
<1> DEFINE B == Below(W, k)
<1>4. /\ B \subseteq 0..b /\ IsFiniteSet(B) /\ Cardinality(B) \in Nat
      /\ Rank(W, k) = Cardinality(B) + 1
  BY <1>3, RankFacts
<1>5. ASSUME m <= Cardinality(B) PROVE FALSE
  <2>1. B # {}
    BY <1>5, FS_EmptySet
  <2>2. PICK x \in B : \A j \in B : j <= x
    BY <1>4, <2>1, MaxFacts
  <2>3. x \in W /\ x < k
    BY DEF Below
  <2>4. {j \in W : j <= x} = B
    <3>1. ASSUME NEW j \in W PROVE j <= x <=> j < k
      <4>1. j \in Nat /\ x \in Nat /\ k \in Nat
        BY <1>3, <2>3
      <4>2. j < k => j <= x
        BY <2>2 DEF Below
      <4>3. QED
        BY <2>3, <4>1, <4>2
    <3>2. QED
      BY <3>1 DEF Below
  <2>5. x \in T
    BY <1>5, <2>3, <2>4 DEF Rank
  <2>6. k <= x /\ x \in Nat /\ k \in Nat
    BY <1>2, <1>3, <2>3, <2>5
  <2>7. QED
    BY <2>3, <2>6
<1>6. QED
  BY <1>3, <1>4, <1>5

-----------------------------------------------------------------------------
\* What pump does.

LEMMA RestFacts ==
  ASSUME NEW S, NEW q \in Seq(S), NEW n \in 0..Len(q)
  PROVE  /\ SubSeq(q, n + 1, Len(q)) \in Seq(S)
         /\ DOMAIN SubSeq(q, n + 1, Len(q)) = 1..(Len(q) - n)
         /\ Len(SubSeq(q, n + 1, Len(q))) = Len(q) - n
         /\ \A i \in 1..(Len(q) - n) : SubSeq(q, n + 1, Len(q))[i] = q[n + i]
<1>1. Len(q) \in Nat /\ DOMAIN q = 1..Len(q) /\ \A i \in 1..Len(q) : q[i] \in S
  OBVIOUS
<1>2. /\ SubSeq(q, n + 1, Len(q)) \in Seq(S) /\ Len(SubSeq(q, n + 1, Len(q))) = Len(q) - n
      /\ \A i \in 1..(Len(q) - n) : SubSeq(q, n + 1, Len(q))[i] = q[n + i]
  BY SMTT(30)
<1>3. QED
  BY <1>2

LEMMA NotAll == ASSUME NEW n \in Nat, NEW m \in 0..n, NEW k \in 1..(n - m) PROVE m # n
  OBVIOUS

\* pump gives out, from the first "shifted" places of the queue, tasks that wait to idle
\* workers; it leaves a slot idle only if it has emptied the queue.
PumpGives(gets, shifted, ws, idle, ids, q, p) ==
  /\ workers' = ws /\ pendingById' = p
  /\ busy'   = [w \in Threads |-> gets[w] # {} \/ ~idle[w]]
  /\ taskId' = [w \in Threads |-> Max({ids[w]} \cup gets[w])]
  /\ hand'   = [w \in Threads |-> IF alive'[w] THEN Max({hand[w]} \cup gets[w]) ELSE 0]
  /\ queue'  = SubSeq(q, shifted + 1, Len(q))
  /\ \A w \in Threads : gets[w] # {} => idle[w] /\ \E i \in Slots : ws[i] = w
  /\ \A w \in Threads : \A t \in gets[w] : t \in p /\ \E k \in 1..shifted : q[k] = t
  /\ ~destroyed => shifted = Len(q) \/ \A i \in Slots : idle[ws[i]] => gets[ws[i]] # {}

LEMMA PumpFacts ==
  ASSUME NEW ws \in [Slots -> Threads], NEW idle \in [Threads -> BOOLEAN], NEW ids,
         NEW q \in Seq(Tasks), NEW p, Pump(ws, idle, ids, q, p)
  PROVE  \E gets \in [Threads -> SUBSET Tasks], shifted \in 0..Len(q) :
           PumpGives(gets, shifted, ws, idle, ids, q, p)
<1> DEFINE waiting == IF destroyed THEN {} ELSE Waiting(q, p)
           free    == {i \in Slots : idle[ws[i]]}
           given   == {g \in free \X waiting : Rank(free, g[1]) = Rank(waiting, g[2])}
           got(w)  == {q[g[2]] : g \in {h \in given : ws[h[1]] = w}}
           gets    == [w \in Threads |-> got(w)]
           shifted == IF Cardinality(free) > Cardinality(waiting) THEN Len(q)
                      ELSE Max({0} \cup {g[2] : g \in given})
<1>1. Len(q) \in Nat /\ DOMAIN q = 1..Len(q) /\ \A k \in 1..Len(q) : q[k] \in Tasks
  OBVIOUS
<1>2. /\ workers' = ws /\ pendingById' = p
      /\ busy'   = [w \in Threads |-> got(w) # {} \/ ~idle[w]]
      /\ taskId' = [w \in Threads |-> Max({ids[w]} \cup got(w))]
      /\ hand'   = [w \in Threads |-> IF alive'[w] THEN Max({hand[w]} \cup got(w)) ELSE 0]
      /\ queue'  = SubSeq(q, shifted + 1, Len(q))
  BY DEF Pump, Rank
<1>3. /\ waiting \subseteq 1..Len(q) /\ \A k \in waiting : q[k] \in p
      /\ free \subseteq Slots
  BY <1>1 DEF Waiting
<1>4. /\ \A g \in given : g[1] \in free /\ g[2] \in waiting
      /\ \A i \in free, k \in waiting : Rank(free, i) = Rank(waiting, k) => <<i, k>> \in given
  OBVIOUS
<1>4a. /\ \A w \in Threads : \A t \in got(w) : \E g \in given : ws[g[1]] = w /\ t = q[g[2]]
       /\ \A g \in given : q[g[2]] \in got(ws[g[1]])
  OBVIOUS
<1> HIDE DEF waiting, given, got
<1>5. {0} \cup {g[2] : g \in given} \subseteq 0..Len(q)
  <2>1. ASSUME NEW g \in given PROVE g[2] \in 0..Len(q)
    <3>1. g[2] \in 1..Len(q)
      BY <1>3, <1>4
    <3>2. QED
      BY <1>1, <3>1
  <2>2. 0 \in 0..Len(q)
    BY <1>1
  <2>3. QED
    BY <2>1, <2>2
<1>6. shifted \in 0..Len(q) /\ \A g \in given : g[2] <= shifted
  <2>1. CASE Cardinality(free) > Cardinality(waiting)
    <3>1. \A g \in given : g[2] \in 1..Len(q)
      BY <1>3, <1>4
    <3>2. QED
      BY <1>1, <2>1, <3>1
  <2>2. CASE ~(Cardinality(free) > Cardinality(waiting))
    <3>1. /\ Max({0} \cup {g[2] : g \in given}) \in {0} \cup {g[2] : g \in given}
          /\ \A n \in {0} \cup {g[2] : g \in given} : n <= Max({0} \cup {g[2] : g \in given})
      BY <1>1, <1>5, MaxFacts
    <3>2. QED
      BY <1>5, <2>2, <3>1
  <2>3. QED
    BY <2>1, <2>2
<1> HIDE DEF shifted
<1>7. \A w \in Threads : \A t \in got(w) :
        /\ t \in p /\ t \in Tasks
        /\ idle[w] /\ \E i \in Slots : ws[i] = w
        /\ \E k \in 1..shifted : q[k] = t
  <2> SUFFICES ASSUME NEW w \in Threads, NEW g \in given, ws[g[1]] = w
               PROVE  /\ q[g[2]] \in p /\ q[g[2]] \in Tasks
                      /\ idle[w] /\ \E i \in Slots : ws[i] = w
                      /\ \E k \in 1..shifted : q[k] = q[g[2]]
    BY <1>4a
  <2>1. g[1] \in free /\ g[2] \in waiting
    BY <1>4
  <2>2. g[2] \in 1..Len(q) /\ g[2] <= shifted
    BY <1>3, <1>6, <2>1
  <2>3. g[2] \in 1..shifted
    BY <1>1, <1>6, <2>2
  <2>4. QED
    BY <1>1, <1>3, <2>1, <2>2, <2>3
<1>8. ASSUME ~destroyed, shifted # Len(q), NEW i \in Slots, idle[ws[i]]
      PROVE  got(ws[i]) # {}
  <2>1. i \in free /\ ~(Cardinality(free) > Cardinality(waiting))
    BY <1>8 DEF shifted
  <2>2. free \subseteq 0..PoolSize /\ waiting \subseteq 0..Len(q)
    BY <1>1, <1>3
  <2>3. PICK m \in Nat : m = Rank(free, i) /\ m # 0 /\ m <= Cardinality(waiting)
    <3>1. /\ Cardinality(Below(free, i)) \in Nat
          /\ Rank(free, i) = Cardinality(Below(free, i)) + 1
          /\ Rank(free, i) <= Cardinality(free)
      BY <2>1, <2>2, RankFacts
    <3>2. Cardinality(free) \in Nat /\ Cardinality(waiting) \in Nat
      BY <1>1, <2>2, SubsetOfNumbers
    <3>3. /\ Rank(free, i) \in Nat /\ Rank(free, i) # 0
          /\ Rank(free, i) <= Cardinality(waiting)
      BY <2>1, <3>1, <3>2
    <3>4. QED
      BY <3>3, Zenon
  <2>4. PICK k \in waiting : Rank(waiting, k) = Rank(free, i)
    <3>1. Len(q) \in Nat /\ waiting \subseteq 0..Len(q)
      BY <1>1, <2>2
    <3>2. m \in Nat /\ m # 0 /\ m <= Cardinality(waiting)
      BY <2>3
    <3>3. \E k \in waiting : Rank(waiting, k) = m
      BY <3>1, <3>2, RankFound
    <3>4. QED
      BY <2>3, <3>3
  <2>5. <<i, k>> \in given
    BY <1>4, <2>1, <2>4
  <2>6. ws[<<i, k>>[1]] = ws[i]
    OBVIOUS
  <2>7. QED
    BY <1>4a, <2>5, <2>6
<1>9. /\ gets \in [Threads -> SUBSET Tasks] /\ \A w \in Threads : gets[w] = got(w)
  BY <1>7
<1> HIDE DEF gets
<1>10. PumpGives(gets, shifted, ws, idle, ids, q, p)
  <2>1. \A w \in Threads : gets[w] # {} => idle[w] /\ \E i \in Slots : ws[i] = w
    BY <1>7, <1>9
  <2>2. \A w \in Threads : \A t \in gets[w] : t \in p /\ \E k \in 1..shifted : q[k] = t
    BY <1>7, <1>9
  <2>3. ~destroyed => shifted = Len(q) \/ \A i \in Slots : idle[ws[i]] => gets[ws[i]] # {}
    BY <1>8, <1>9
  <2>4. /\ workers' = ws /\ pendingById' = p
        /\ busy'   = [w \in Threads |-> gets[w] # {} \/ ~idle[w]]
        /\ taskId' = [w \in Threads |-> Max({ids[w]} \cup gets[w])]
        /\ hand'   = [w \in Threads |-> IF alive'[w] THEN Max({hand[w]} \cup gets[w]) ELSE 0]
        /\ queue'  = SubSeq(q, shifted + 1, Len(q))
    BY <1>2, <1>9
  <2>5. QED
    BY <2>1, <2>2, <2>3, <2>4 DEF PumpGives
<1>11. QED
  BY <1>6, <1>9, <1>10

LEMMA MaxWith ==
  ASSUME NEW a \in {0} \cup Tasks, NEW T \in SUBSET Tasks
  PROVE  /\ Max({a} \cup T) \in {0} \cup Tasks
         /\ T = {} => Max({a} \cup T) = a
         /\ a = 0 /\ T # {} => Max({a} \cup T) \in T
<1>1. {a} \cup T \subseteq 0..MaxTasks /\ {a} \cup T # {}
  OBVIOUS
<1>2. Max({a} \cup T) \in {a} \cup T /\ \A t \in {a} \cup T : t <= Max({a} \cup T)
  BY <1>1, MaxFacts
<1>3. ASSUME a = 0, T # {} PROVE Max({a} \cup T) # 0
  <2>1. PICK t : t \in T
    BY <1>3
  <2>2. t \in 1..MaxTasks
    BY <2>1
  <2>3. t <= Max({a} \cup T)
    BY <1>2, <2>1
  <2>4. QED
    BY <2>2, <2>3
<1>4. QED
  BY <1>2, <1>3

-----------------------------------------------------------------------------
\* The types.

LEMMA PumpTypes ==
  ASSUME NEW ws \in [Slots -> Threads], NEW idle \in [Threads -> BOOLEAN],
         NEW ids \in [Threads -> {0} \cup Tasks], NEW q \in Seq(Tasks), NEW p,
         hand \in [Threads -> {0} \cup Tasks], Pump(ws, idle, ids, q, p)
  PROVE  /\ workers' = ws /\ pendingById' = p
         /\ busy' \in [Threads -> BOOLEAN]
         /\ taskId' \in [Threads -> {0} \cup Tasks]
         /\ hand' \in [Threads -> {0} \cup Tasks]
         /\ queue' \in Seq(Tasks)
<1>1. PICK gets \in [Threads -> SUBSET Tasks], shifted \in 0..Len(q) :
        PumpGives(gets, shifted, ws, idle, ids, q, p)
  BY PumpFacts
<1>2. workers' = ws /\ pendingById' = p
  BY <1>1 DEF PumpGives
<1>3. busy' \in [Threads -> BOOLEAN]
  <2>1. busy' = [w \in Threads |-> gets[w] # {} \/ ~idle[w]]
    BY <1>1 DEF PumpGives
  <2>2. QED
    BY <2>1, Zenon
<1>4. taskId' \in [Threads -> {0} \cup Tasks]
  <2>1. taskId' = [w \in Threads |-> Max({ids[w]} \cup gets[w])]
    BY <1>1 DEF PumpGives
  <2>2. \A w \in Threads : Max({ids[w]} \cup gets[w]) \in {0} \cup Tasks
    BY MaxWith
  <2>3. QED
    BY <2>1, <2>2
<1>5. hand' \in [Threads -> {0} \cup Tasks]
  <2>1. hand' = [w \in Threads |-> IF alive'[w] THEN Max({hand[w]} \cup gets[w]) ELSE 0]
    BY <1>1 DEF PumpGives
  <2>2. \A w \in Threads : Max({hand[w]} \cup gets[w]) \in {0} \cup Tasks
    BY MaxWith
  <2>3. QED
    BY <2>1, <2>2
<1>6. queue' \in Seq(Tasks)
  <2>1. queue' = SubSeq(q, shifted + 1, Len(q))
    BY <1>1 DEF PumpGives
  <2>2. QED
    BY <2>1, RestFacts
<1>7. QED
  BY <1>2, <1>3, <1>4, <1>5, <1>6

LEMMA SettledFacts ==
  ASSUME TypeOK, NEW t, NEW outcome \in {"resolved", "rejected"}
  PROVE  /\ Settled(t, outcome) \in [Tasks -> {"none", "pending", "resolved", "rejected"}]
         /\ Without(t) = {u \in Tasks : Settled(t, outcome)[u] = "pending"}
         /\ \A u \in Tasks : Settled(t, outcome)[u] = "none" <=> promise[u] = "none"
  BY DEF TypeOK, Settled, Without

Injective(ws) == \A i, j \in Slots : ws[i] = ws[j] => i = j

\* The worker that replaces w: a fresh one.
Replaced(w, new) == [i \in Slots |-> IF workers[i] = w THEN new ELSE workers[i]]

ReplacedBy(new, w, idle, ids, p, left) ==
  /\ ~alive[new] /\ events[new] = <<>> /\ \A i \in Slots : workers[i] # new
  /\ alive' = [alive EXCEPT ![w] = FALSE, ![new] = TRUE]
  /\ events' = [events EXCEPT ![w] = left]
  /\ Replaced(w, new) \in [Slots -> Threads] /\ Injective(Replaced(w, new))
  /\ [idle EXCEPT ![new] = TRUE] \in [Threads -> BOOLEAN]
  /\ [ids EXCEPT ![new] = 0] \in [Threads -> {0} \cup Tasks]
  /\ Pump(Replaced(w, new), [idle EXCEPT ![new] = TRUE], [ids EXCEPT ![new] = 0], queue, p)

LEMMA ReplaceFacts ==
  ASSUME TypeOK, NEW w \in Threads, NEW idle \in [Threads -> BOOLEAN],
         NEW ids \in [Threads -> {0} \cup Tasks], NEW p, NEW left,
         Replace(w, idle, ids, p, left)
  PROVE  \E new \in Threads : ReplacedBy(new, w, idle, ids, p, left)
<1> DEFINE new == CHOOSE v \in Spare : TRUE
<1>1. /\ Spare # {}
      /\ alive'  = [alive EXCEPT ![w] = FALSE, ![new] = TRUE]
      /\ events' = [events EXCEPT ![w] = left]
      /\ Pump(Replaced(w, new), [idle EXCEPT ![new] = TRUE], [ids EXCEPT ![new] = 0], queue, p)
  BY Zenon DEF Replace, Replaced
<1>2. new \in Spare
  BY <1>1
<1> HIDE DEF new
<1>3. new \in Threads /\ ~alive[new] /\ events[new] = <<>> /\ \A i \in Slots : workers[i] # new
  BY <1>2 DEF Spare
<1>4. Replaced(w, new) \in [Slots -> Threads] /\ Injective(Replaced(w, new))
  BY <1>3 DEF TypeOK, Replaced, Injective
<1>5. [idle EXCEPT ![new] = TRUE] \in [Threads -> BOOLEAN]
  BY Zenon
<1>6. [ids EXCEPT ![new] = 0] \in [Threads -> {0} \cup Tasks]
  OBVIOUS
<1>7. ReplacedBy(new, w, idle, ids, p, left)
  BY <1>1, <1>3, <1>4, <1>5, <1>6 DEF ReplacedBy
<1>8. QED
  BY <1>3, <1>7

\* What is to come from a worker: answers, an error, an exit.
Events == Message \cup {Error, Exit}

LEMMA EventFacts ==
  ASSUME NEW q \in Seq(Events)
  PROVE  /\ q # <<>> => Tail(q) \in Seq(Events) /\ Len(Tail(q)) = Len(q) - 1
         /\ \A e \in Events : Append(q, e) \in Seq(Events)
         /\ \A e \in Events : Append(q, e) # <<>> /\ Append(q, e)[Len(Append(q, e))] = e
         /\ Len(Append(q, Exit)) = Len(q) + 1
  OBVIOUS

\* However a worker dies, its exit is the last that is heard of it.
LEMMA ExitComesLast ==
  ASSUME NEW q \in Seq(Events),
         NEW news \in {q \o <<Error, Exit>>, <<Error>> \o q \o <<Exit>>, <<Error, Exit>>,
                       q \o <<Exit>>, <<Exit>>}
  PROVE  news \in Seq(Events) /\ news # <<>> /\ news[Len(news)] = Exit
<1>1. Error \in Events /\ Exit \in Events
  BY DEF Events
<1>2. /\ <<Error, Exit>> \in Seq(Events) /\ <<Error>> \in Seq(Events) /\ <<Exit>> \in Seq(Events)
      /\ <<Error, Exit>>[Len(<<Error, Exit>>)] = Exit /\ <<Error, Exit>> # <<>>
      /\ <<Exit>>[Len(<<Exit>>)] = Exit /\ <<Exit>> # <<>>
  BY <1>1
<1>3. \A a, b \in Seq(Events) :
        /\ a \o b \in Seq(Events) /\ Len(a \o b) = Len(a) + Len(b)
        /\ \A i \in 1..Len(b) : (a \o b)[Len(a) + i] = b[i]
  OBVIOUS
<1>4. \A a, b \in Seq(Events) :
        b # <<>> => a \o b # <<>> /\ (a \o b)[Len(a \o b)] = b[Len(b)]
  <2> SUFFICES ASSUME NEW a \in Seq(Events), NEW b \in Seq(Events), b # <<>>
               PROVE  a \o b # <<>> /\ (a \o b)[Len(a \o b)] = b[Len(b)]
    OBVIOUS
  <2>1. Len(b) \in Nat /\ Len(a) \in Nat /\ Len(b) # 0
    OBVIOUS
  <2>2. Len(b) \in 1..Len(b) /\ Len(a \o b) = Len(a) + Len(b)
    BY <1>3, <2>1
  <2>3. Len(a \o b) # 0
    BY <2>1, <2>2
  <2>4. a \o b # <<>>
    BY <2>3
  <2>5. QED
    BY <1>3, <2>2, <2>4
<1>5. <<Error>> \o q \in Seq(Events)
  BY <1>2, <1>3
<1>6. CASE news = q \o <<Error, Exit>> \/ news = q \o <<Exit>>
  <2>1. \A b \in {<<Error, Exit>>, <<Exit>>} :
          b \in Seq(Events) /\ b # <<>> /\ b[Len(b)] = Exit
    BY <1>2
  <2>2. PICK b \in {<<Error, Exit>>, <<Exit>>} : news = q \o b
    BY <1>6
  <2>3. QED
    BY <1>3, <1>4, <2>1, <2>2, Zenon
<1>7. CASE news = <<Error>> \o q \o <<Exit>>
  BY <1>2, <1>3, <1>4, <1>5, <1>7
<1>8. CASE news = <<Error, Exit>> \/ news = <<Exit>>
  BY <1>2, <1>8
<1>9. QED
  BY <1>6, <1>7, <1>8

LEMMA InjectionExists == \E ws \in [Slots -> Threads] : Injective(ws)
<1>1. Cardinality(Threads) \in Nat /\ ExistsBijection(1..Cardinality(Threads), Threads)
  BY FS_CardinalityType
<1>2. PICK f \in [1..Cardinality(Threads) -> Threads] :
        \A i, j \in 1..Cardinality(Threads) : f[i] = f[j] => i = j
  BY <1>1 DEF ExistsBijection, Bijection, Injection, IsInjective
<1>3. Slots \subseteq 1..Cardinality(Threads)
  BY <1>1
<1>4. [i \in Slots |-> f[i]] \in [Slots -> Threads] /\ Injective([i \in Slots |-> f[i]])
  BY <1>2, <1>3 DEF Injective
<1>5. QED
  BY <1>4

LEMMA InitWorkers == Init => workers \in [Slots -> Threads] /\ Injective(workers)
<1> SUFFICES ASSUME Init PROVE workers \in [Slots -> Threads] /\ Injective(workers)
  OBVIOUS
<1>1. workers = CHOOSE ws \in [Slots -> Threads] : Injective(ws)
  BY DEF Init, Injective
<1>2. QED
  BY <1>1, InjectionExists

LEMMA InitType == Init => TypeOK
<1> SUFFICES ASSUME Init PROVE TypeOK
  OBVIOUS
<1>1. workers \in [Slots -> Threads] /\ \A i, j \in Slots : workers[i] = workers[j] => i = j
  BY InitWorkers DEF Injective
<1>2. timed \in BOOLEAN /\ destroyed \in BOOLEAN /\ crashes \in 0..MaxCrashes
  <2>1. timed \in BOOLEAN /\ destroyed \in BOOLEAN
    BY Zenon DEF Init
  <2>2. crashes = 0 /\ 0 \in 0..MaxCrashes
    BY DEF Init
  <2>3. QED
    BY <2>1, <2>2
<1>3. busy \in [Threads -> BOOLEAN] /\ alive \in [Threads -> BOOLEAN]
  BY Zenon DEF Init
<1>4. taskId \in [Threads -> {0} \cup Tasks] /\ hand \in [Threads -> {0} \cup Tasks]
  BY DEF Init
<1>5. queue \in Seq(Tasks) /\ events \in [Threads -> Seq(Message \cup {Error, Exit})]
  BY DEF Init
<1>6. /\ promise \in [Tasks -> {"none", "pending", "resolved", "rejected"}]
      /\ pendingById = {t \in Tasks : promise[t] = "pending"}
  <2>1. promise = [t \in Tasks |-> "none"] /\ pendingById = {}
    BY DEF Init
  <2>2. \A t \in Tasks : promise[t] = "none"
    BY <2>1
  <2>3. QED
    BY <2>1, <2>2
<1>7. QED
  BY <1>1, <1>2, <1>3, <1>4, <1>5, <1>6 DEF TypeOK

\* The part of the types that a call of pump changes.
PumpedTypes ==
  /\ workers \in [Slots -> Threads] /\ Injective(workers)
  /\ busy \in [Threads -> BOOLEAN] /\ taskId \in [Threads -> {0} \cup Tasks]
  /\ hand \in [Threads -> {0} \cup Tasks] /\ queue \in Seq(Tasks)

PromiseTypes ==
  /\ promise \in [Tasks -> {"none", "pending", "resolved", "rejected"}]
  /\ pendingById = {t \in Tasks : promise[t] = "pending"}

ThreadTypes == alive \in [Threads -> BOOLEAN] /\ events \in [Threads -> Seq(Events)]

FlagTypes == timed \in BOOLEAN /\ destroyed \in BOOLEAN /\ crashes \in 0..MaxCrashes

LEMMA TypeParts == TypeOK <=> PumpedTypes /\ PromiseTypes /\ ThreadTypes /\ FlagTypes
  BY Zenon DEF TypeOK, PumpedTypes, PromiseTypes, ThreadTypes, FlagTypes, Injective, Events

LEMMA IdleType ==
  ASSUME TypeOK, NEW w \in Threads
  PROVE  /\ Idle \in [Threads -> BOOLEAN]
         /\ [Idle EXCEPT ![w] = TRUE] \in [Threads -> BOOLEAN]
         /\ [taskId EXCEPT ![w] = 0] \in [Threads -> {0} \cup Tasks]
<1>1. Idle \in [Threads -> BOOLEAN]
  BY Zenon DEF Idle
<1>2. [Idle EXCEPT ![w] = TRUE] \in [Threads -> BOOLEAN]
  BY <1>1, Zenon
<1>3. [taskId EXCEPT ![w] = 0] \in [Threads -> {0} \cup Tasks]
  BY DEF TypeOK
<1>4. QED
  BY <1>1, <1>2, <1>3

\* replaceWorker keeps the types.
LEMMA ReplaceTypes ==
  ASSUME TypeOK, NEW w \in Threads, NEW idle \in [Threads -> BOOLEAN],
         NEW ids \in [Threads -> {0} \cup Tasks], NEW p, NEW left \in Seq(Events),
         Replace(w, idle, ids, p, left)
  PROVE  PumpedTypes' /\ ThreadTypes' /\ pendingById' = p
<1>0. PICK new \in Threads : ReplacedBy(new, w, idle, ids, p, left)
  BY ReplaceFacts
<1>1. /\ alive' = [alive EXCEPT ![w] = FALSE, ![new] = TRUE]
      /\ events' = [events EXCEPT ![w] = left]
      /\ Replaced(w, new) \in [Slots -> Threads] /\ Injective(Replaced(w, new))
      /\ [idle EXCEPT ![new] = TRUE] \in [Threads -> BOOLEAN]
      /\ [ids EXCEPT ![new] = 0] \in [Threads -> {0} \cup Tasks]
      /\ Pump(Replaced(w, new), [idle EXCEPT ![new] = TRUE], [ids EXCEPT ![new] = 0], queue, p)
  BY <1>0, Zenon DEF ReplacedBy
<1>2. queue \in Seq(Tasks) /\ hand \in [Threads -> {0} \cup Tasks]
  BY DEF TypeOK
<1>3. /\ workers' = Replaced(w, new) /\ pendingById' = p
      /\ busy' \in [Threads -> BOOLEAN] /\ taskId' \in [Threads -> {0} \cup Tasks]
      /\ hand' \in [Threads -> {0} \cup Tasks] /\ queue' \in Seq(Tasks)
  BY <1>1, <1>2, PumpTypes
<1>4. alive' \in [Threads -> BOOLEAN]
  BY <1>1, TypeParts, Zenon DEF ThreadTypes
<1>5. events' \in [Threads -> Seq(Events)]
  BY <1>1, TypeParts DEF ThreadTypes
<1>6. Injective(workers)'
  BY <1>1, <1>3 DEF Injective
<1>7. QED
  BY <1>1, <1>3, <1>4, <1>5, <1>6 DEF PumpedTypes, ThreadTypes

LEMMA MessageType ==
  ASSUME TypeOK, NEW w \in Threads, events[w] # <<>>
  PROVE  /\ events[w] \in Seq(Events) /\ Head(events[w]) \in Events
         /\ Tail(events[w]) \in Seq(Events)
         /\ [events EXCEPT ![w] = Tail(@)] \in [Threads -> Seq(Events)]
<1>1. events \in [Threads -> Seq(Events)]
  BY TypeParts DEF ThreadTypes
<1>2. events[w] \in Seq(Events)
  BY <1>1
<1>3. Head(events[w]) \in Events /\ Tail(events[w]) \in Seq(Events)
  BY <1>2
<1>4. QED
  BY <1>1, <1>2, <1>3

LEMMA UnreplacedTypes ==
  ASSUME TypeOK, NEW w \in Threads, events[w] # <<>>, Unreplaced(w)
  PROVE  PumpedTypes' /\ ThreadTypes'
<1>1. /\ events' = [events EXCEPT ![w] = Tail(@)] /\ taskId' = [taskId EXCEPT ![w] = 0]
      /\ UNCHANGED <<workers, busy, queue, hand, alive>>
  BY DEF Unreplaced
<1>2. taskId' \in [Threads -> {0} \cup Tasks]
  BY <1>1 DEF TypeOK
<1>3. PumpedTypes'
  BY <1>1, <1>2, TypeParts, Zenon DEF PumpedTypes, Injective
<1>4. ThreadTypes'
  BY <1>1, MessageType, TypeParts, Zenon DEF ThreadTypes
<1>5. QED
  BY <1>3, <1>4

LEMMA LostTypes ==
  ASSUME TypeOK, NEW w \in Threads, events[w] # <<>>, Lost(w)
  PROVE  TypeOK'
<1>1. /\ promise' = Settled(taskId[w], "rejected") /\ UNCHANGED <<timed, destroyed, crashes>>
  BY DEF Lost
<1>2. PumpedTypes' /\ ThreadTypes' /\ pendingById' = Without(taskId[w])
  <2>1. CASE Replace(w, Idle, [taskId EXCEPT ![w] = 0], Without(taskId[w]), Tail(events[w]))
    BY <2>1, IdleType, MessageType, ReplaceTypes
  <2>2. CASE Unreplaced(w) /\ pendingById' = Without(taskId[w])
    BY <2>2, UnreplacedTypes
  <2>3. QED
    BY <2>1, <2>2 DEF Lost
<1>3. PromiseTypes'
  BY <1>1, <1>2, SettledFacts DEF PromiseTypes
<1>4. FlagTypes'
  BY <1>1, TypeParts, Zenon DEF FlagTypes
<1>5. QED
  BY <1>2, <1>3, <1>4, TypeParts, PTL

LEMMA RunTypes ==
  ASSUME TypeOK, NEW t \in Tasks, Run(t) \/ RunRejected(t)
  PROVE  TypeOK'
<1>1. promise[t] = "none" /\ UNCHANGED <<timed, destroyed, events, alive, crashes>>
  BY DEF Run, RunRejected, NextTask
<1>2. ThreadTypes' /\ FlagTypes'
  BY <1>1, TypeParts, Zenon DEF ThreadTypes, FlagTypes
<1>3. CASE Run(t)
  <2>1. /\ promise' = [promise EXCEPT ![t] = "pending"]
        /\ Pump(workers, Idle, taskId, Enqueue(t), pendingById \cup {t})
    BY <1>3 DEF Run
  <2>2. /\ workers \in [Slots -> Threads] /\ taskId \in [Threads -> {0} \cup Tasks]
        /\ hand \in [Threads -> {0} \cup Tasks] /\ Enqueue(t) \in Seq(Tasks)
    BY DEF TypeOK, Enqueue
  <2>3. Idle \in [Threads -> BOOLEAN]
    BY Zenon DEF Idle
  <2>4. /\ workers' = workers /\ pendingById' = pendingById \cup {t}
        /\ busy' \in [Threads -> BOOLEAN] /\ taskId' \in [Threads -> {0} \cup Tasks]
        /\ hand' \in [Threads -> {0} \cup Tasks] /\ queue' \in Seq(Tasks)
    BY <2>1, <2>2, <2>3, PumpTypes
  <2>5. PumpedTypes'
    BY <2>4, TypeParts, Zenon DEF PumpedTypes, Injective
  <2>6. PromiseTypes'
    BY <2>1, <2>4 DEF PromiseTypes, TypeOK
  <2>7. QED
    BY <1>2, <2>5, <2>6, TypeParts, PTL
<1>4. CASE RunRejected(t)
  <2>1. /\ promise' = [promise EXCEPT ![t] = "rejected"]
        /\ UNCHANGED <<workers, busy, taskId, queue, pendingById, hand>>
    BY <1>4 DEF RunRejected
  <2>2. PumpedTypes'
    BY <2>1, TypeParts, Zenon DEF PumpedTypes, Injective
  <2>3. PromiseTypes'
    BY <1>1, <2>1 DEF PromiseTypes, TypeOK
  <2>4. QED
    BY <1>2, <2>2, <2>3, TypeParts, PTL
<1>5. QED
  BY <1>3, <1>4

LEMMA OnMessageTypes ==
  ASSUME TypeOK, NEW w \in Threads, OnMessage(w)
  PROVE  TypeOK'
<1> DEFINE id == Head(events[w]).id
<1>1. PICK outcome \in {"resolved", "rejected"} : promise' = Settled(id, outcome)
  BY DEF OnMessage
<1>2. /\ events[w] # <<>> /\ events' = [events EXCEPT ![w] = Tail(@)]
      /\ UNCHANGED <<timed, destroyed, alive, crashes>>
      /\ Pump(workers, [Idle EXCEPT ![w] = TRUE], [taskId EXCEPT ![w] = 0], queue, Without(id))
  BY DEF OnMessage
<1>3. ThreadTypes' /\ FlagTypes'
  BY <1>2, MessageType, TypeParts, Zenon DEF ThreadTypes, FlagTypes
<1>4. /\ workers \in [Slots -> Threads] /\ queue \in Seq(Tasks)
      /\ hand \in [Threads -> {0} \cup Tasks]
  BY DEF TypeOK
<1>5. /\ workers' = workers /\ pendingById' = Without(id)
      /\ busy' \in [Threads -> BOOLEAN] /\ taskId' \in [Threads -> {0} \cup Tasks]
      /\ hand' \in [Threads -> {0} \cup Tasks] /\ queue' \in Seq(Tasks)
  BY <1>2, <1>4, IdleType, PumpTypes
<1>6. PumpedTypes'
  BY <1>5, TypeParts, Zenon DEF PumpedTypes, Injective
<1>7. PromiseTypes'
  BY <1>1, <1>5, SettledFacts DEF PromiseTypes
<1>8. QED
  BY <1>3, <1>6, <1>7, TypeParts, PTL

LEMMA OnExitTypes ==
  ASSUME TypeOK, NEW w \in Threads, OnError(w) \/ OnExit(w)
  PROVE  TypeOK'
<1>1. CASE Lost(w)
  BY <1>1, LostTypes DEF OnError, OnExit
<1>2. CASE ~Lost(w)
  <2>1. /\ events' = [events EXCEPT ![w] = Tail(@)] /\ events[w] # <<>>
        /\ UNCHANGED <<timed, workers, busy, taskId, queue, pendingById, promise,
                       destroyed, hand, alive, crashes>>
    BY <1>2 DEF OnError, OnExit
  <2>2. PumpedTypes' /\ FlagTypes' /\ PromiseTypes'
    BY <2>1, TypeParts, Zenon DEF PumpedTypes, Injective, FlagTypes, PromiseTypes
  <2>3. ThreadTypes'
    BY <2>1, MessageType, TypeParts, Zenon DEF ThreadTypes
  <2>4. QED
    BY <2>2, <2>3, TypeParts, PTL
<1>3. QED
  BY <1>1, <1>2

LEMMA TerminatedType ==
  ASSUME TypeOK, NEW w \in Threads, NEW left \in Terminated(w)
  PROVE  left \in Seq(Events)
<1>1. events[w] \in Seq(Events)
  BY TypeParts DEF ThreadTypes
<1>2. events[w] \o <<Exit>> \in Seq(Events) /\ <<Exit>> \in Seq(Events)
  BY <1>1, ExitComesLast
<1>3. QED
  BY <1>1, <1>2 DEF Terminated

LEMMA TimeoutTypes ==
  ASSUME TypeOK, NEW t \in Tasks, Timeout(t)
  PROVE  TypeOK'
<1>1. promise' = Settled(t, "rejected") /\ UNCHANGED <<timed, destroyed, crashes>>
  BY DEF Timeout
<1>2. PumpedTypes' /\ ThreadTypes' /\ pendingById' = Without(t)
  <2>1. ASSUME NEW i \in Slots, NEW left \in Terminated(workers[i]),
               Replace(workers[i], [Idle EXCEPT ![workers[i]] = TRUE],
                       [taskId EXCEPT ![workers[i]] = 0], Without(t), left)
        PROVE  PumpedTypes' /\ ThreadTypes' /\ pendingById' = Without(t)
    <3>1. PICK w \in Threads : w = workers[i]
      BY DEF TypeOK
    <3>2. left \in Seq(Events)
      BY <3>1, TerminatedType
    <3>3. Replace(w, [Idle EXCEPT ![w] = TRUE], [taskId EXCEPT ![w] = 0], Without(t), left)
      BY <2>1, <3>1
    <3>4. QED
      BY <3>2, <3>3, IdleType, ReplaceTypes
  <2>2. CASE /\ pendingById' = Without(t)
             /\ UNCHANGED <<workers, busy, taskId, queue, hand, events, alive>>
    BY <2>2, TypeParts, Zenon DEF PumpedTypes, Injective, ThreadTypes
  <2>3. QED
    BY <2>1, <2>2 DEF Timeout
<1>3. PromiseTypes'
  BY <1>1, <1>2, SettledFacts DEF PromiseTypes
<1>4. FlagTypes'
  BY <1>1, TypeParts, Zenon DEF FlagTypes
<1>5. QED
  BY <1>2, <1>3, <1>4, TypeParts, PTL

LEMMA DestroyTypes == TypeOK /\ Destroy => TypeOK'
<1> SUFFICES ASSUME TypeOK, Destroy PROVE TypeOK'
  OBVIOUS
<1>1. PumpedTypes'
  <2>1. /\ queue' = <<>> /\ UNCHANGED <<workers, busy, taskId>>
        /\ hand' = [w \in Threads |-> IF InSlot(w) THEN 0 ELSE hand[w]]
    BY DEF Destroy
  <2>2. queue' \in Seq(Tasks) /\ hand' \in [Threads -> {0} \cup Tasks]
    BY <2>1 DEF TypeOK
  <2>3. QED
    BY <2>1, <2>2, TypeParts, Zenon DEF PumpedTypes, Injective
<1>2. PromiseTypes'
  BY DEF Destroy, PromiseTypes, TypeOK
<1>3. ThreadTypes'
  <2>1. alive' \in [Threads -> BOOLEAN]
    BY Zenon DEF Destroy
  <2>2. \A w \in Threads : events[w] \in Seq(Events) /\ Append(events[w], Exit) \in Seq(Events)
    <3>1. Exit \in Events
      BY DEF Events
    <3>2. QED
      BY <3>1, TypeParts, EventFacts DEF ThreadTypes
  <2>3. events' \in [Threads -> Seq(Events)]
    BY <2>2 DEF Destroy
  <2>4. QED
    BY <2>1, <2>3 DEF ThreadTypes
<1>4. FlagTypes'
  <2>1. destroyed' = TRUE /\ UNCHANGED <<timed, crashes>>
    BY DEF Destroy
  <2>2. QED
    BY <2>1, TypeParts, Zenon DEF FlagTypes
<1>5. QED
  BY <1>1, <1>2, <1>3, <1>4, TypeParts, PTL

LEMMA ComputeTypes ==
  ASSUME TypeOK, NEW w \in Threads, Compute(w)
  PROVE  TypeOK'
<1>1. PICK ok \in BOOLEAN :
        events' = [events EXCEPT ![w] = Append(@, [kind |-> "message", id |-> hand[w], ok |-> ok])]
  BY DEF Compute
<1>2. /\ hand' = [hand EXCEPT ![w] = 0] /\ hand[w] # 0
      /\ UNCHANGED <<timed, workers, busy, taskId, queue, pendingById, promise, destroyed,
                     alive, crashes>>
  BY DEF Compute
<1>3. [kind |-> "message", id |-> hand[w], ok |-> ok] \in Events
  <2>1. hand[w] \in Tasks
    BY <1>2 DEF TypeOK
  <2>2. QED
    BY <2>1, Zenon DEF Events, Message
<1>4. ThreadTypes'
  <2>1. events \in [Threads -> Seq(Events)] /\ events[w] \in Seq(Events)
    BY TypeParts DEF ThreadTypes
  <2>2. Append(events[w], [kind |-> "message", id |-> hand[w], ok |-> ok]) \in Seq(Events)
    BY <1>3, <2>1, EventFacts
  <2>3. events' \in [Threads -> Seq(Events)]
    BY <1>1, <2>1, <2>2
  <2>4. QED
    BY <1>2, <2>3, TypeParts, Zenon DEF ThreadTypes
<1>5. PumpedTypes'
  <2>1. hand' \in [Threads -> {0} \cup Tasks]
    BY <1>2 DEF TypeOK
  <2>2. QED
    BY <1>2, <2>1, TypeParts, Zenon DEF PumpedTypes, Injective
<1>6. FlagTypes' /\ PromiseTypes'
  BY <1>2, TypeParts, Zenon DEF FlagTypes, PromiseTypes
<1>7. QED
  BY <1>4, <1>5, <1>6, TypeParts, PTL

LEMMA CrashTypes ==
  ASSUME TypeOK, NEW w \in Threads, Crash(w)
  PROVE  TypeOK'
<1>1. PICK news \in {events[w] \o <<Error, Exit>>, <<Error>> \o events[w] \o <<Exit>>,
                     <<Error, Exit>>, events[w] \o <<Exit>>, <<Exit>>} :
        events' = [events EXCEPT ![w] = news]
  BY DEF Crash
<1>2. /\ alive' = [alive EXCEPT ![w] = FALSE] /\ hand' = [hand EXCEPT ![w] = 0]
      /\ crashes < MaxCrashes /\ crashes' = crashes + 1
      /\ UNCHANGED <<timed, workers, busy, taskId, queue, pendingById, promise, destroyed>>
  BY DEF Crash
<1>3. ThreadTypes'
  <2>1. events \in [Threads -> Seq(Events)] /\ events[w] \in Seq(Events)
    BY TypeParts DEF ThreadTypes
  <2>2. news \in Seq(Events)
    BY <2>1, ExitComesLast
  <2>3. events' \in [Threads -> Seq(Events)]
    BY <1>1, <2>1, <2>2
  <2>4. alive' \in [Threads -> BOOLEAN]
    BY <1>2, TypeParts, Zenon DEF ThreadTypes
  <2>5. QED
    BY <2>3, <2>4 DEF ThreadTypes
<1>4. PumpedTypes'
  <2>1. hand' \in [Threads -> {0} \cup Tasks]
    BY <1>2 DEF TypeOK
  <2>2. QED
    BY <1>2, <2>1, TypeParts, Zenon DEF PumpedTypes, Injective
<1>5. FlagTypes'
  <2>1. crashes' \in 0..MaxCrashes
    BY <1>2 DEF TypeOK
  <2>2. QED
    BY <1>2, <2>1, TypeParts, Zenon DEF FlagTypes
<1>6. PromiseTypes'
  BY <1>2, TypeParts, Zenon DEF PromiseTypes
<1>7. QED
  BY <1>3, <1>4, <1>5, <1>6, TypeParts, PTL

LEMMA TypeStep == TypeOK /\ [Next]_vars => TypeOK'
<1> SUFFICES ASSUME TypeOK, [Next]_vars PROVE TypeOK'
  OBVIOUS
<1>1. CASE UNCHANGED vars
  BY <1>1, Zenon DEF TypeOK, vars
<1>2. QED
  BY <1>1, RunTypes, OnMessageTypes, OnExitTypes, TimeoutTypes, DestroyTypes, ComputeTypes,
     CrashTypes DEF Next

\* The types, and that what is pending is what callers wait for.
THEOREM WorkerPoolTypeCorrect == Spec => []TypeOK
  BY InitType, TypeStep, PTL DEF Spec

-----------------------------------------------------------------------------
\* The interface.

LEMMA InterfaceInit == Init => Interface!Init
  BY DEF Init, Interface!Init, Interface!Tasks

\* Settling a task is a step of the interface, or leaves what callers see alone.
LEMMA SettlesOnce ==
  ASSUME TypeOK, NEW t, NEW outcome \in {"resolved", "rejected"},
         promise' = Settled(t, outcome), UNCHANGED destroyed
  PROVE  [Interface!Next]_(Interface!vars)
<1>1. CASE t \in pendingById
  <2>1. t \in Tasks /\ promise[t] = "pending"
    BY <1>1 DEF TypeOK
  <2>2. promise' = [promise EXCEPT ![t] = outcome]
    BY <1>1, <2>1 DEF Settled, TypeOK
  <2>3. Interface!Settle(t)
    BY <2>1, <2>2 DEF Interface!Settle
  <2>4. QED
    BY <2>1, <2>3 DEF Interface!Next, Interface!Tasks
<1>2. CASE t \notin pendingById
  <2>1. promise' = promise
    BY <1>2 DEF Settled, TypeOK
  <2>2. QED
    BY <2>1 DEF Interface!vars
<1>3. QED
  BY <1>1, <1>2

LEMMA InterfaceStep == TypeOK /\ [Next]_vars => [Interface!Next]_(Interface!vars)
<1> SUFFICES ASSUME TypeOK, [Next]_vars PROVE [Interface!Next]_(Interface!vars)
  OBVIOUS
<1>1. Interface!Unsettled = pendingById
  BY DEF Interface!Unsettled, Interface!Tasks, TypeOK
<1>2. CASE UNCHANGED <<promise, destroyed>>
  BY <1>2 DEF Interface!vars
<1>3. ASSUME NEW t \in Tasks, Run(t) \/ RunRejected(t) PROVE Interface!Run(t)
  <2>1. (\A u \in Interface!Tasks : promise[u] = "none" <=> u >= t) /\ UNCHANGED destroyed
    BY <1>3 DEF Run, RunRejected, NextTask, Interface!Tasks
  <2>2. promise' = [promise EXCEPT ![t] =
          IF destroyed \/ Cardinality(pendingById) >= MaxQueueSize THEN "rejected" ELSE "pending"]
    BY <1>3 DEF Run, RunRejected, IsFull
  <2>3. QED
    BY <1>1, <2>1, <2>2, Zenon DEF Interface!Run, Cardinality, Interface!Cardinality
<1>4. ASSUME NEW t \in Tasks, Timeout(t) PROVE [Interface!Next]_(Interface!vars)
  BY <1>4, SettlesOnce DEF Timeout
<1>5. ASSUME NEW w \in Threads, OnMessage(w) PROVE [Interface!Next]_(Interface!vars)
  <2>1. /\ \/ promise' = Settled(Head(events[w]).id, "resolved")
           \/ promise' = Settled(Head(events[w]).id, "rejected")
        /\ UNCHANGED destroyed
    BY <1>5 DEF OnMessage
  <2>2. QED
    BY <2>1, SettlesOnce
<1>6. ASSUME NEW w \in Threads, Lost(w) PROVE [Interface!Next]_(Interface!vars)
  <2>1. promise' = Settled(taskId[w], "rejected") /\ UNCHANGED destroyed
    BY <1>6 DEF Lost
  <2>2. QED
    BY <2>1, SettlesOnce
<1>7. CASE Destroy
  <2>1. Interface!Destroy
    BY <1>1, <1>7 DEF Destroy, Interface!Destroy, Interface!Tasks
  <2>2. QED
    BY <2>1 DEF Interface!Next
<1>8. ASSUME NEW t \in Tasks, Interface!Run(t) PROVE [Interface!Next]_(Interface!vars)
  BY <1>8 DEF Interface!Next, Interface!Tasks
<1>9. QED
  BY <1>2, <1>3, <1>4, <1>5, <1>6, <1>7, <1>8
     DEF Next, vars, OnError, OnExit, Compute, Crash

\* The pool implements the interface, but for its fairness: it starts as the interface
\* does, and each of its steps is a step of the interface or one that callers do not see.
THEOREM WorkerPoolImplementsTaskPool ==
  Spec => Interface!Init /\ [][Interface!Next]_(Interface!vars)
<1>1. TypeOK /\ TypeOK' /\ [Next]_vars => [Interface!Next]_(Interface!vars)
  BY InterfaceStep
<1>2. QED
  BY <1>1, InterfaceInit, WorkerPoolTypeCorrect, PTL DEF Spec

-----------------------------------------------------------------------------
\* The invariant: what holds of the arguments of pump, and what it makes of it.

\* The worker w as pump finds it.
ReadyWorker(w, idle, ids) ==
  /\ alive'[w] => \/ idle[w] /\ hand[w] = 0 /\ events'[w] = <<>>
                  \/ ~idle[w] /\ ids[w] # 0 /\ hand[w] = ids[w] /\ events'[w] = <<>>
                  \/ ~idle[w] /\ hand[w] = 0 /\ Len(events'[w]) = 1
  /\ ~alive'[w] => events'[w] # <<>> /\ events'[w][Len(events'[w])] = Exit

PumpTyped(ws, idle, ids, q) ==
  /\ ws \in [Slots -> Threads] /\ idle \in [Threads -> BOOLEAN]
  /\ ids \in [Threads -> {0} \cup Tasks] /\ q \in Seq(Tasks)

PumpReady(ws, idle, ids, q) ==
  /\ UNCHANGED destroyed
  /\ \A w \in Threads : (idle[w] => ids[w] = 0) /\ ids[w] \in {0, taskId[w]}
  /\ \A k \in DOMAIN q : promise'[q[k]] # "none"
  /\ \A j, k \in DOMAIN q : j < k => q[j] < q[k]
  /\ ~destroyed => \A i \in Slots : ReadyWorker(ws[i], idle, ids)

LEMMA PumpKeeps ==
  ASSUME TypeOK, NEW ws, NEW idle, NEW ids, NEW q, NEW p,
         PumpTyped(ws, idle, ids, q), PumpReady(ws, idle, ids, q), Pump(ws, idle, ids, q, p)
  PROVE  /\ Ordered' /\ IdleHasNoTask' /\ OnlyLivingWork' /\ SlotsKept'
         /\ NoIdleWhileQueued' /\ InOrder
<1>1. /\ ws \in [Slots -> Threads] /\ idle \in [Threads -> BOOLEAN]
      /\ ids \in [Threads -> {0} \cup Tasks] /\ q \in Seq(Tasks)
      /\ hand \in [Threads -> {0} \cup Tasks]
  BY DEF PumpTyped, TypeOK
<1>2. PICK gets \in [Threads -> SUBSET Tasks], shifted \in 0..Len(q) :
        PumpGives(gets, shifted, ws, idle, ids, q, p)
  BY <1>1, PumpFacts
<1>3. /\ workers' = ws /\ pendingById' = p
      /\ \A w \in Threads :
           /\ busy'[w] <=> gets[w] # {} \/ ~idle[w]
           /\ taskId'[w] = Max({ids[w]} \cup gets[w])
           /\ hand'[w] = IF alive'[w] THEN Max({hand[w]} \cup gets[w]) ELSE 0
           /\ gets[w] # {} => idle[w]
           /\ \A t \in gets[w] : t \in p /\ \E k \in 1..shifted : q[k] = t
  BY <1>2, Zenon DEF PumpGives
<1>4. \A w \in Threads :
        /\ gets[w] = {} => taskId'[w] = ids[w]
        /\ gets[w] # {} => idle[w] /\ ids[w] = 0 /\ taskId'[w] \in gets[w]
  <2> SUFFICES ASSUME NEW w \in Threads
               PROVE  /\ gets[w] = {} => taskId'[w] = ids[w]
                      /\ gets[w] # {} => idle[w] /\ ids[w] = 0 /\ taskId'[w] \in gets[w]
    OBVIOUS
  <2>1. ids[w] \in {0} \cup Tasks /\ gets[w] \in SUBSET Tasks
    BY <1>1
  <2>2. /\ gets[w] = {} => Max({ids[w]} \cup gets[w]) = ids[w]
        /\ ids[w] = 0 /\ gets[w] # {} => Max({ids[w]} \cup gets[w]) \in gets[w]
    BY <2>1, MaxWith
  <2>3. QED
    BY <1>3, <2>2 DEF PumpReady
<1>4a. ASSUME NEW w \in Threads, alive'[w], gets[w] = {} PROVE hand'[w] = hand[w]
  <2>1. hand[w] \in {0} \cup Tasks /\ gets[w] \in SUBSET Tasks
    BY <1>1
  <2>2. Max({hand[w]} \cup gets[w]) = hand[w]
    BY <1>4a, <2>1, MaxWith
  <2>3. QED
    BY <1>3, <1>4a, <2>2
<1>5. Len(q) \in Nat /\ DOMAIN q = 1..Len(q) /\ \A k \in 1..Len(q) : q[k] \in Tasks
  BY <1>1
<1>6. /\ DOMAIN queue' = 1..(Len(q) - shifted)
      /\ Len(queue') = Len(q) - shifted
      /\ \A k \in 1..(Len(q) - shifted) : queue'[k] = q[shifted + k]
  <2>1. queue' = SubSeq(q, shifted + 1, Len(q))
    BY <1>2 DEF PumpGives
  <2>2. QED
    BY <1>1, <2>1, RestFacts
<1>7. Ordered'
  <2>1. ASSUME NEW k \in DOMAIN queue' PROVE shifted + k \in DOMAIN q /\ queue'[k] = q[shifted + k]
    BY <1>5, <1>6
  <2>2. ASSUME NEW j \in DOMAIN queue', NEW k \in DOMAIN queue', j < k PROVE queue'[j] < queue'[k]
    <3>1. shifted + j < shifted + k
      BY <1>5, <1>6, <2>2
    <3>2. QED
      BY <2>1, <3>1 DEF PumpReady
  <2>3. QED
    BY <2>1, <2>2 DEF Ordered, PumpReady
<1>8. IdleHasNoTask'
  BY <1>3, <1>4 DEF IdleHasNoTask, PumpReady
<1>9. OnlyLivingWork'
  BY <1>3 DEF OnlyLivingWork
<1>10. SlotsKept'
  <2> SUFFICES ASSUME ~destroyed, NEW w \in Threads, ReadyWorker(w, idle, ids)
               PROVE  /\ alive'[w] => LivingWorker(w)'
                      /\ ~alive'[w] => DyingWorker(w)'
    BY <1>1, <1>3 DEF SlotsKept, PumpReady
  <2>1. ~alive'[w] => DyingWorker(w)'
    BY DEF ReadyWorker, DyingWorker
  <2>2. CASE alive'[w] /\ idle[w] /\ hand[w] = 0 /\ events'[w] = <<>>
    <3>1. ids[w] = 0 /\ taskId'[w] = hand'[w]
      BY <1>3, <2>2 DEF PumpReady
    <3>2. CASE gets[w] = {}
      BY <1>3, <1>4, <2>2, <3>1, <3>2 DEF LivingWorker, IdleWorker
    <3>3. CASE gets[w] # {}
      <4>1. taskId'[w] \in Tasks /\ busy'[w]
        BY <1>3, <1>4, <3>3
      <4>2. taskId'[w] # 0
        BY <4>1
      <4>3. QED
        BY <2>2, <3>1, <4>1, <4>2 DEF LivingWorker, WorkingWorker
    <3>4. QED
      BY <2>2, <3>2, <3>3
  <2>3. CASE alive'[w] /\ ~idle[w]
    <3>1. gets[w] = {} /\ busy'[w] /\ taskId'[w] = ids[w] /\ hand'[w] = hand[w]
      BY <1>3, <1>4, <1>4a, <2>3
    <3>2. QED
      BY <2>3, <3>1 DEF ReadyWorker, LivingWorker, WorkingWorker, AnsweringWorker
  <2>4. QED
    BY <2>1, <2>2, <2>3 DEF ReadyWorker
<1>11. NoIdleWhileQueued'
  <2> SUFFICES ASSUME ~destroyed, NEW k \in 1..Len(queue'), NEW i \in Slots
               PROVE  busy'[ws[i]]
    BY <1>3 DEF NoIdleWhileQueued, Contains, PumpReady
  <2>1. shifted # Len(q)
    <3>1. k \in 1..(Len(q) - shifted)
      BY <1>6
    <3>2. QED
      BY <1>5, <3>1, NotAll, Zenon
  <2>2. idle[ws[i]] => gets[ws[i]] # {}
    BY <1>2, <2>1 DEF PumpGives
  <2>3. QED
    BY <1>1, <1>3, <2>2
<1>12. InOrder
  <2> SUFFICES ASSUME NEW w \in Threads, taskId'[w] \notin {0, taskId[w]}
               PROVE  /\ taskId'[w] \in pendingById'
                      /\ \A k \in DOMAIN queue' : taskId'[w] < queue'[k]
    BY DEF InOrder
  <2>1. taskId'[w] \in gets[w]
    BY <1>4 DEF PumpReady
  <2>2. PICK j \in 1..shifted : q[j] = taskId'[w]
    BY <1>3, <2>1
  <2>3. ASSUME NEW k \in DOMAIN queue' PROVE taskId'[w] < queue'[k]
    <3>1. j \in DOMAIN q /\ shifted + k \in DOMAIN q /\ j < shifted + k
      BY <1>5, <1>6
    <3>2. queue'[k] = q[shifted + k]
      BY <1>6
    <3>3. QED
      BY <2>2, <3>1, <3>2 DEF PumpReady
  <2>4. QED
    BY <1>3, <2>1, <2>3
<1>13. QED
  BY <1>7, <1>8, <1>9, <1>10, <1>11, <1>12

LEMMA InitInv == Init => WorkerInv
<1> SUFFICES ASSUME Init PROVE WorkerInv
  OBVIOUS
<1>1. TypeOK
  BY InitType
<1>2. /\ busy = [w \in Threads |-> FALSE] /\ taskId = [w \in Threads |-> 0]
      /\ hand = [w \in Threads |-> 0] /\ events = [w \in Threads |-> <<>>]
      /\ alive = [w \in Threads |-> \E i \in Slots : workers[i] = w]
      /\ queue = <<>> /\ pendingById = {}
  BY DEF Init
<1>3. Ordered /\ NoIdleWhileQueued
  BY <1>2 DEF Ordered, NoIdleWhileQueued
<1>4. IdleHasNoTask /\ OnlyLivingWork
  BY <1>2 DEF IdleHasNoTask, OnlyLivingWork
<1>5. SlotsKept
  <2>1. ASSUME NEW i \in Slots PROVE alive[workers[i]] /\ LivingWorker(workers[i])
    <3>1. PICK w \in Threads : w = workers[i]
      BY <1>1 DEF TypeOK
    <3>2. alive[w]
      BY <1>2, <3>1, Zenon
    <3>3. ~busy[w] /\ hand[w] = 0 /\ events[w] = <<>>
      BY <1>2
    <3>4. QED
      BY <3>1, <3>2, <3>3 DEF LivingWorker, IdleWorker
  <2>2. QED
    BY <2>1 DEF SlotsKept
<1>6. QED
  BY <1>1, <1>3, <1>4, <1>5 DEF WorkerInv

\* What the steps that do not replace a worker find in the slots.
LEMMA ReadyUnchanged ==
  ASSUME WorkerInv, NEW w \in Threads, ~destroyed, \E i \in Slots : workers[i] = w,
         UNCHANGED <<alive, events>>
  PROVE  ReadyWorker(w, Idle, taskId)
<1>1. /\ alive[w] => LivingWorker(w)
      /\ ~alive[w] => DyingWorker(w)
  BY DEF WorkerInv, SlotsKept
<1>2. Idle[w] <=> ~busy[w]
  BY DEF Idle
<1>3. QED
  BY <1>1, <1>2 DEF ReadyWorker, LivingWorker, IdleWorker, WorkingWorker, AnsweringWorker, DyingWorker

PumpKept == /\ Ordered' /\ IdleHasNoTask' /\ OnlyLivingWork' /\ SlotsKept'
            /\ NoIdleWhileQueued' /\ InOrder

LEMMA RunKeeps ==
  ASSUME WorkerInv, NEW t \in Tasks, Run(t)
  PROVE  PumpKept
<1>0. TypeOK
  BY DEF WorkerInv
<1>1. /\ promise' = [promise EXCEPT ![t] = "pending"]
      /\ UNCHANGED <<destroyed, events, alive>>
      /\ Pump(workers, Idle, taskId, Enqueue(t), pendingById \cup {t})
  BY DEF Run
<1>2. PumpTyped(workers, Idle, taskId, Enqueue(t))
  <2>1. Idle \in [Threads -> BOOLEAN]
    BY Zenon DEF Idle
  <2>2. Enqueue(t) \in Seq(Tasks)
    BY <1>0 DEF TypeOK, Enqueue
  <2>3. QED
    BY <1>0, <2>1, <2>2 DEF PumpTyped, TypeOK
<1>3. /\ \A k \in DOMAIN Enqueue(t) : promise'[Enqueue(t)[k]] # "none"
      /\ \A j, k \in DOMAIN Enqueue(t) : j < k => Enqueue(t)[j] < Enqueue(t)[k]
  <2>1. /\ queue \in Seq(Tasks) /\ Len(queue) \in Nat /\ DOMAIN queue = 1..Len(queue)
        /\ \A k \in 1..Len(queue) : queue[k] \in Tasks
    BY <1>0 DEF TypeOK
  <2>2. /\ DOMAIN Enqueue(t) = 1..(Len(queue) + 1)
        /\ Enqueue(t)[Len(queue) + 1] = t
        /\ \A k \in 1..Len(queue) : Enqueue(t)[k] = queue[k]
    BY <2>1 DEF Enqueue
  <2>3. \A u \in Tasks : promise[u] # "none" => u < t
    BY DEF Run, NextTask
  <2>4. \A k \in 1..Len(queue) : queue[k] < t /\ promise'[queue[k]] # "none"
    BY <1>0, <1>1, <2>1, <2>3 DEF WorkerInv, Ordered, TypeOK
  <2>5. promise'[t] # "none"
    BY <1>0, <1>1 DEF TypeOK
  <2>6. ASSUME NEW k \in DOMAIN Enqueue(t) PROVE promise'[Enqueue(t)[k]] # "none"
    <3>1. CASE k \in 1..Len(queue)
      BY <2>2, <2>4, <3>1
    <3>2. CASE k = Len(queue) + 1
      BY <2>2, <2>5, <3>2
    <3>3. QED
      BY <2>1, <2>2, <3>1, <3>2
  <2>7. ASSUME NEW j \in DOMAIN Enqueue(t), NEW k \in DOMAIN Enqueue(t), j < k
        PROVE  Enqueue(t)[j] < Enqueue(t)[k]
    <3>1. j \in 1..Len(queue)
      BY <2>1, <2>2, <2>7
    <3>2. CASE k \in 1..Len(queue)
      BY <2>1, <2>2, <2>7, <3>1, <3>2 DEF WorkerInv, Ordered
    <3>3. CASE k = Len(queue) + 1
      BY <2>2, <2>4, <3>1, <3>3
    <3>4. QED
      BY <2>1, <2>2, <3>2, <3>3
  <2>8. QED
    BY <2>6, <2>7
<1>4. PumpReady(workers, Idle, taskId, Enqueue(t))
  <2>1. \A w \in Threads : (Idle[w] => taskId[w] = 0) /\ taskId[w] \in {0, taskId[w]}
    BY DEF WorkerInv, IdleHasNoTask, Idle
  <2>2. ~destroyed => \A i \in Slots : ReadyWorker(workers[i], Idle, taskId)
    BY <1>0, <1>1, ReadyUnchanged DEF TypeOK
  <2>3. QED
    BY <1>1, <1>3, <2>1, <2>2 DEF PumpReady
<1>5. QED
  BY <1>0, <1>1, <1>2, <1>4, PumpKeeps DEF PumpKept

LEMMA QueueStaysOrdered ==
  ASSUME WorkerInv, \A u \in Tasks : promise[u] # "none" => promise'[u] # "none"
  PROVE  /\ \A k \in DOMAIN queue : promise'[queue[k]] # "none"
         /\ \A j, k \in DOMAIN queue : j < k => queue[j] < queue[k]
<1>1. \A k \in DOMAIN queue : queue[k] \in Tasks
  BY DEF WorkerInv, TypeOK
<1>2. QED
  BY <1>1 DEF WorkerInv, Ordered

LEMMA TailOfOne ==
  ASSUME NEW q \in Seq(Events), Len(q) = 1
  PROVE  Tail(q) = <<>>
<1>1. q # <<>>
  <2>1. Len(<<>>) # 1
    OBVIOUS
  <2>2. QED
    BY <2>1, Zenon
<1>2. Tail(q) \in Seq(Events) /\ Len(Tail(q)) = Len(q) - 1
  BY <1>1, EventFacts
<1>3. Len(Tail(q)) = 0
  BY <1>2
<1>4. \A s \in Seq(Events) : Len(s) = 0 => s = <<>>
  OBVIOUS
<1>5. QED
  BY <1>2, <1>3, <1>4, Zenon

LEMMA TailKeepsLast ==
  ASSUME NEW q \in Seq(Events), q # <<>>, q[Len(q)] = Exit, Head(q) # Exit
  PROVE  Tail(q) # <<>> /\ Tail(q)[Len(Tail(q))] = Exit
<1>1. Len(q) \in Nat /\ Len(q) # 0 /\ Head(q) = q[1]
  OBVIOUS
<1>2. Len(q) # 1
  BY <1>1
<1>3. Len(Tail(q)) = Len(q) - 1 /\ \A i \in 1..(Len(q) - 1) : Tail(q)[i] = q[i + 1]
  <2>1. q \in Seq(Events) /\ q # <<>>
    OBVIOUS
  <2>2. QED
    BY <2>1
<1>4. Len(q) - 1 \in 1..(Len(q) - 1) /\ Len(Tail(q)) # 0 /\ (Len(q) - 1) + 1 = Len(q)
  BY <1>1, <1>2, <1>3
<1>5. Tail(q)[Len(Tail(q))] = Exit
  BY <1>3, <1>4
<1>6. ASSUME Tail(q) = <<>> PROVE FALSE
  <2>1. Len(<<>>) = 0
    OBVIOUS
  <2>2. Len(Tail(q)) = 0
    BY <1>6, <2>1, Zenon
  <2>3. QED
    BY <1>4, <2>2
<1>7. QED
  BY <1>5, <1>6

LEMMA OnMessageKeeps ==
  ASSUME WorkerInv, NEW w \in Threads, OnMessage(w)
  PROVE  PumpKept
<1> DEFINE id   == Head(events[w]).id
           idle == [Idle EXCEPT ![w] = TRUE]
           ids  == [taskId EXCEPT ![w] = 0]
<1>0. TypeOK
  BY DEF WorkerInv
<1>1. PICK outcome \in {"resolved", "rejected"} : promise' = Settled(id, outcome)
  BY DEF OnMessage
<1>2. /\ events[w] # <<>> /\ Head(events[w]).kind = "message"
      /\ events' = [events EXCEPT ![w] = Tail(@)] /\ UNCHANGED <<destroyed, alive>>
      /\ Pump(workers, idle, ids, queue, Without(id))
  BY DEF OnMessage
<1>3. PumpTyped(workers, idle, ids, queue)
  BY <1>0, IdleType DEF PumpTyped, TypeOK
<1>4. \A u \in Tasks : promise[u] # "none" => promise'[u] # "none"
  BY <1>0, <1>1, SettledFacts
<1>5. \A v \in Threads : /\ idle[v] <=> v = w \/ ~busy[v]
                         /\ ids[v] = IF v = w THEN 0 ELSE taskId[v]
                         /\ events'[v] = IF v = w THEN Tail(events[v]) ELSE events[v]
  BY <1>0, <1>2 DEF Idle, TypeOK
<1> HIDE DEF idle, ids
<1>6. \A v \in Threads : (idle[v] => ids[v] = 0) /\ ids[v] \in {0, taskId[v]}
  BY <1>5 DEF WorkerInv, IdleHasNoTask
<1>7. ASSUME NEW i \in Slots, ~destroyed PROVE ReadyWorker(workers[i], idle, ids)
  <2>1. PICK v \in Threads : v = workers[i]
    BY <1>0 DEF TypeOK
  <2>2. (alive[v] => LivingWorker(v)) /\ (~alive[v] => DyingWorker(v))
    BY <1>7, <2>1 DEF WorkerInv, SlotsKept
  <2>3. CASE v # w
    <3>1. /\ alive'[v] <=> alive[v]
          /\ idle[v] <=> ~busy[v]
          /\ ids[v] = taskId[v] /\ events'[v] = events[v]
      BY <1>2, <1>5, <2>3
    <3>2. QED
      BY <2>1, <2>2, <3>1 DEF ReadyWorker, LivingWorker, IdleWorker, WorkingWorker,
         AnsweringWorker, DyingWorker
  <2>4. CASE v = w
    <3>1. events[w] \in Seq(Events)
      BY <1>0, TypeParts DEF ThreadTypes
    <3>2. ASSUME alive[w] PROVE hand[w] = 0 /\ events'[w] = <<>> /\ idle[w]
      <4>1. hand[w] = 0 /\ Len(events[w]) = 1
        BY <1>2, <2>2, <2>4, <3>2 DEF LivingWorker, IdleWorker, WorkingWorker, AnsweringWorker
      <4>2. QED
        BY <1>5, <3>1, <4>1, TailOfOne
    <3>3. ASSUME ~alive[w] PROVE events'[w] # <<>> /\ events'[w][Len(events'[w])] = Exit
      <4>1. events[w][Len(events[w])] = Exit
        BY <2>2, <2>4, <3>3 DEF DyingWorker
      <4>2. Head(events[w]) # Exit
        BY <1>2 DEF Exit
      <4>3. QED
        BY <1>2, <1>5, <3>1, <4>1, <4>2, TailKeepsLast
    <3>4. ReadyWorker(w, idle, ids)
      BY <1>2, <3>2, <3>3 DEF ReadyWorker
    <3>5. QED
      BY <2>1, <2>4, <3>4
  <2>5. QED
    BY <2>1, <2>3, <2>4
<1>8. PumpReady(workers, idle, ids, queue)
  BY <1>2, <1>4, <1>6, <1>7, QueueStaysOrdered DEF PumpReady
<1>9. QED
  BY <1>0, <1>2, <1>3, <1>8, PumpKeeps DEF PumpKept

\* The slot of a worker that is replaced goes to one that idles, with nothing to come.
LEMMA ReplaceKeeps ==
  ASSUME WorkerInv, NEW w \in Threads, NEW idle \in [Threads -> BOOLEAN], NEW p, NEW left,
         Replace(w, idle, [taskId EXCEPT ![w] = 0], p, left),
         \A v \in Threads : v # w => (idle[v] <=> ~busy[v]),
         \E i \in Slots : workers[i] = w,
         \A u \in Tasks : promise[u] # "none" => promise'[u] # "none",
         UNCHANGED destroyed
  PROVE  PumpKept
<1>0. TypeOK
  BY DEF WorkerInv
<1> DEFINE base == [taskId EXCEPT ![w] = 0]
<1>1. base \in [Threads -> {0} \cup Tasks]
  BY <1>0 DEF TypeOK
<1>2. PICK new \in Threads : ReplacedBy(new, w, idle, base, p, left)
  BY <1>0, <1>1, ReplaceFacts
<1> DEFINE ws   == Replaced(w, new)
           free == [idle EXCEPT ![new] = TRUE]
           ids  == [base EXCEPT ![new] = 0]
<1>3. /\ ~alive[new] /\ events[new] = <<>> /\ \A i \in Slots : workers[i] # new
      /\ alive' = [alive EXCEPT ![w] = FALSE, ![new] = TRUE]
      /\ events' = [events EXCEPT ![w] = left]
      /\ Pump(ws, free, ids, queue, p)
  BY <1>2, Zenon DEF ReplacedBy
<1>4. PumpTyped(ws, free, ids, queue)
  <2>1. queue \in Seq(Tasks)
    BY <1>0 DEF TypeOK
  <2>2. QED
    BY <1>2, <2>1, Zenon DEF ReplacedBy, PumpTyped
<1>5. new # w
  BY <1>3
<1>6. \A v \in Threads :
        /\ free[v] <=> v = new \/ idle[v]
        /\ ids[v] = IF v = new \/ v = w THEN 0 ELSE taskId[v]
        /\ alive'[v] <=> v = new \/ (v # w /\ alive[v])
        /\ events'[v] = IF v = w THEN left ELSE events[v]
  <2>1. \A v \in Threads : free[v] <=> v = new \/ idle[v]
    BY Zenon
  <2>2. \A v \in Threads : ids[v] = IF v = new \/ v = w THEN 0 ELSE taskId[v]
    BY <1>0 DEF TypeOK
  <2>3. \A v \in Threads : alive'[v] <=> v = new \/ (v # w /\ alive[v])
    <3>1. alive \in [Threads -> BOOLEAN]
      BY <1>0 DEF TypeOK
    <3>2. alive' = [alive EXCEPT ![w] = FALSE, ![new] = TRUE]
      BY <1>3
    <3>3. alive'[new] /\ ~alive'[w]
      BY <1>5, <3>1, <3>2
    <3>4. \A v \in Threads : v # new /\ v # w => (alive'[v] <=> alive[v])
      BY <3>1, <3>2
    <3>5. QED
      <4>1. ASSUME NEW v \in Threads PROVE alive'[v] <=> v = new \/ (v # w /\ alive[v])
        <5>1. CASE v = new
          BY <3>3, <5>1
        <5>2. CASE v = w
          BY <1>5, <3>3, <5>2
        <5>3. CASE v # new /\ v # w
          BY <3>4, <5>3
        <5>4. QED
          BY <5>1, <5>2, <5>3
      <4>2. QED
        BY <4>1
  <2>4. \A v \in Threads : events'[v] = IF v = w THEN left ELSE events[v]
    BY <1>0, <1>3 DEF TypeOK
  <2>5. QED
    BY <2>1, <2>2, <2>3, <2>4
<1>7. \A i \in Slots : ws[i] = IF workers[i] = w THEN new ELSE workers[i]
  BY DEF Replaced
<1> HIDE DEF ws, free, ids, base
<1>8. \A v \in Threads : (free[v] => ids[v] = 0) /\ ids[v] \in {0, taskId[v]}
  BY <1>6 DEF WorkerInv, IdleHasNoTask
<1>9. ASSUME NEW i \in Slots, ~destroyed PROVE ReadyWorker(ws[i], free, ids)
  <2>1. CASE workers[i] = w
    <3>1. ws[i] = new /\ hand[new] = 0
      BY <1>3, <1>7, <2>1 DEF WorkerInv, OnlyLivingWork
    <3>2. alive'[new] /\ free[new] /\ events'[new] = <<>>
      <4>1. events[new] = <<>>
        BY <1>3
      <4>2. events'[new] = events[new]
        BY <1>5, <1>6
      <4>3. alive'[new] <=> new = new \/ (new # w /\ alive[new])
        BY <1>6, Zenon
      <4>4. free[new] <=> new = new \/ idle[new]
        BY <1>6, Zenon
      <4>5. alive'[new]
        BY <4>3
      <4>6. free[new]
        BY <4>4
      <4>7. events'[new] = <<>>
        BY <4>1, <4>2
      <4>8. QED
        BY <4>5, <4>6, <4>7
    <3>3. QED
      BY <3>1, <3>2 DEF ReadyWorker
  <2>2. CASE workers[i] # w
    <3>1. PICK v \in Threads : v = workers[i]
      BY <1>0 DEF TypeOK
    <3>2. v # w /\ v # new /\ ws[i] = v
      BY <1>3, <1>7, <2>2, <3>1
    <3>3. (alive[v] => LivingWorker(v)) /\ (~alive[v] => DyingWorker(v))
      BY <1>9, <3>1 DEF WorkerInv, SlotsKept
    <3>4. /\ alive'[v] <=> alive[v]
          /\ free[v] <=> ~busy[v]
          /\ ids[v] = taskId[v] /\ events'[v] = events[v]
      BY <1>6, <3>2
    <3>5. QED
      BY <3>2, <3>3, <3>4 DEF ReadyWorker, LivingWorker, IdleWorker, WorkingWorker,
         AnsweringWorker, DyingWorker
  <2>3. QED
    BY <2>1, <2>2
<1>10. PumpReady(ws, free, ids, queue)
  BY <1>8, <1>9, QueueStaysOrdered DEF PumpReady
<1>11. QED
  BY <1>0, <1>3, <1>4, <1>10, PumpKeeps DEF PumpKept

-----------------------------------------------------------------------------
\* The invariant, step by step.

LEMMA LostKeeps ==
  ASSUME WorkerInv, NEW w \in Threads, Lost(w)
  PROVE  PumpKept
<1>0. TypeOK
  BY DEF WorkerInv
<1>1. promise' = Settled(taskId[w], "rejected") /\ UNCHANGED destroyed
  BY DEF Lost
<1>2. \A u \in Tasks : promise[u] # "none" => promise'[u] # "none"
  BY <1>0, <1>1, SettledFacts
<1>3. CASE InSlot(w) /\ Replace(w, Idle, [taskId EXCEPT ![w] = 0], Without(taskId[w]),
                                Tail(events[w]))
  <2>1. \E i \in Slots : workers[i] = w
    BY <1>3 DEF InSlot
  <2>2. Idle \in [Threads -> BOOLEAN] /\ \A v \in Threads : v # w => (Idle[v] <=> ~busy[v])
    BY <1>0, IdleType DEF Idle
  <2>3. QED
    BY <1>1, <1>2, <1>3, <2>1, <2>2, ReplaceKeeps
<1>4. CASE ~InSlot(w) /\ Unreplaced(w) /\ pendingById' = Without(taskId[w])
  <2>1. /\ events' = [events EXCEPT ![w] = Tail(@)] /\ taskId' = [taskId EXCEPT ![w] = 0]
        /\ UNCHANGED <<workers, busy, queue, hand, alive>>
    BY <1>4 DEF Unreplaced
  <2>2. \A v \in Threads : v # w => events'[v] = events[v] /\ taskId'[v] = taskId[v]
    BY <1>0, <2>1 DEF TypeOK
  <2>3. taskId'[w] = 0
    BY <1>0, <2>1 DEF TypeOK
  <2>4. Ordered'
    BY <1>2, <2>1, QueueStaysOrdered DEF Ordered
  <2>5. IdleHasNoTask' /\ OnlyLivingWork'
    BY <2>1, <2>2, <2>3 DEF WorkerInv, IdleHasNoTask, OnlyLivingWork
  <2>6. SlotsKept'
    <3>1. ASSUME ~destroyed, NEW i \in Slots
          PROVE  /\ alive'[workers'[i]] => LivingWorker(workers[i])'
                 /\ ~alive'[workers'[i]] => DyingWorker(workers[i])'
      <4>1. workers[i] # w /\ workers[i] \in Threads
        BY <1>0, <1>4, <3>1 DEF InSlot, TypeOK
      <4>2. events'[workers[i]] = events[workers[i]] /\ taskId'[workers[i]] = taskId[workers[i]]
        BY <2>2, <4>1
      <4>3. QED
        BY <2>1, <3>1, <4>2 DEF WorkerInv, SlotsKept, LivingWorker, IdleWorker, WorkingWorker,
           AnsweringWorker, DyingWorker
    <3>2. QED
      BY <1>1, <3>1 DEF SlotsKept
  <2>7. NoIdleWhileQueued'
    BY <1>1, <1>4, <2>1 DEF WorkerInv, NoIdleWhileQueued, Without
  <2>8. InOrder
    BY <2>2, <2>3 DEF InOrder
  <2>9. QED
    BY <2>4, <2>5, <2>6, <2>7, <2>8 DEF PumpKept
<1>5. QED
  BY <1>3, <1>4 DEF Lost

LEMMA TimeoutKeeps ==
  ASSUME WorkerInv, NEW t \in Tasks, Timeout(t)
  PROVE  PumpKept
<1>0. TypeOK
  BY DEF WorkerInv
<1>1. promise' = Settled(t, "rejected") /\ UNCHANGED destroyed
  BY DEF Timeout
<1>2. \A u \in Tasks : promise[u] # "none" => promise'[u] # "none"
  BY <1>0, <1>1, SettledFacts
<1>3. ASSUME NEW i \in Slots, NEW left,
             Replace(workers[i], [Idle EXCEPT ![workers[i]] = TRUE],
                     [taskId EXCEPT ![workers[i]] = 0], Without(t), left)
      PROVE  PumpKept
  <2>1. PICK w \in Threads : w = workers[i]
    BY <1>0 DEF TypeOK
  <2>2. Replace(w, [Idle EXCEPT ![w] = TRUE], [taskId EXCEPT ![w] = 0], Without(t), left)
    BY <1>3, <2>1
  <2>3. /\ [Idle EXCEPT ![w] = TRUE] \in [Threads -> BOOLEAN]
        /\ \A v \in Threads : v # w => ([Idle EXCEPT ![w] = TRUE][v] <=> ~busy[v])
    BY <1>0, IdleType DEF Idle
  <2>4. QED
    BY <1>1, <1>2, <2>1, <2>2, <2>3, ReplaceKeeps
<1>4. CASE /\ pendingById' = Without(t)
           /\ UNCHANGED <<workers, busy, taskId, queue, hand, events, alive>>
  <2>1. Ordered'
    BY <1>2, <1>4, QueueStaysOrdered DEF Ordered
  <2>2. IdleHasNoTask' /\ OnlyLivingWork' /\ SlotsKept'
    BY <1>1, <1>4 DEF WorkerInv, IdleHasNoTask, OnlyLivingWork, SlotsKept, LivingWorker,
       IdleWorker, WorkingWorker, AnsweringWorker, DyingWorker
  <2>3. NoIdleWhileQueued' /\ InOrder
    BY <1>1, <1>4 DEF WorkerInv, NoIdleWhileQueued, Without, InOrder
  <2>4. QED
    BY <2>1, <2>2, <2>3 DEF PumpKept
<1>5. QED
  BY <1>3, <1>4 DEF Timeout

LEMMA ComputeKeeps ==
  ASSUME WorkerInv, NEW w \in Threads, Compute(w)
  PROVE  PumpKept
<1>0. TypeOK
  BY DEF WorkerInv
<1>1. /\ alive[w] /\ hand[w] # 0 /\ hand' = [hand EXCEPT ![w] = 0]
      /\ UNCHANGED <<workers, busy, taskId, queue, pendingById, promise, destroyed, alive>>
  BY DEF Compute
<1>2. PICK e \in Events : events' = [events EXCEPT ![w] = Append(@, e)]
  <2>1. PICK ok \in BOOLEAN :
          events' = [events EXCEPT ![w] = Append(@, [kind |-> "message", id |-> hand[w], ok |-> ok])]
    BY DEF Compute
  <2>2. hand[w] \in Tasks
    BY <1>0, <1>1 DEF TypeOK
  <2>3. [kind |-> "message", id |-> hand[w], ok |-> ok] \in Events
    BY <2>2, Zenon DEF Events, Message
  <2>4. QED
    BY <2>1, <2>3
<1>3. /\ \A v \in Threads : v # w => events'[v] = events[v] /\ hand'[v] = hand[v]
      /\ hand'[w] = 0 /\ events'[w] = Append(events[w], e)
  BY <1>0, <1>1, <1>2 DEF TypeOK
<1>4. Ordered' /\ IdleHasNoTask' /\ NoIdleWhileQueued' /\ InOrder
  BY <1>1 DEF WorkerInv, Ordered, IdleHasNoTask, NoIdleWhileQueued, InOrder
<1>5. OnlyLivingWork'
  BY <1>1, <1>3 DEF WorkerInv, OnlyLivingWork
<1>6. SlotsKept'
  <2>1. ASSUME ~destroyed, NEW i \in Slots
        PROVE  /\ alive'[workers'[i]] => LivingWorker(workers[i])'
               /\ ~alive'[workers'[i]] => DyingWorker(workers[i])'
    <3>1. PICK v \in Threads : v = workers[i]
      BY <1>0 DEF TypeOK
    <3>2. (alive[v] => LivingWorker(v)) /\ (~alive[v] => DyingWorker(v))
      BY <2>1, <3>1 DEF WorkerInv, SlotsKept
    <3>3. CASE v # w
      BY <1>1, <1>3, <3>1, <3>2, <3>3 DEF LivingWorker, IdleWorker, WorkingWorker,
         AnsweringWorker, DyingWorker
    <3>4. CASE v = w
      <4>1. busy[w] /\ events[w] = <<>>
        BY <1>1, <3>2, <3>4 DEF LivingWorker, IdleWorker, WorkingWorker, AnsweringWorker
      <4>2. Len(events'[w]) = 1
        BY <1>3, <4>1
      <4>3. AnsweringWorker(w)'
        BY <1>1, <1>3, <4>1, <4>2 DEF AnsweringWorker
      <4>4. QED
        BY <1>1, <3>1, <3>4, <4>3 DEF LivingWorker
    <3>5. QED
      BY <3>3, <3>4
  <2>2. QED
    BY <1>1, <2>1 DEF SlotsKept
<1>7. QED
  BY <1>4, <1>5, <1>6 DEF PumpKept

LEMMA CrashKeeps ==
  ASSUME WorkerInv, NEW w \in Threads, Crash(w)
  PROVE  PumpKept
<1>0. TypeOK
  BY DEF WorkerInv
<1>1. PICK news \in {events[w] \o <<Error, Exit>>, <<Error>> \o events[w] \o <<Exit>>,
                     <<Error, Exit>>, events[w] \o <<Exit>>, <<Exit>>} :
        events' = [events EXCEPT ![w] = news]
  BY DEF Crash
<1>2. /\ alive' = [alive EXCEPT ![w] = FALSE] /\ hand' = [hand EXCEPT ![w] = 0]
      /\ UNCHANGED <<workers, busy, taskId, queue, pendingById, promise, destroyed>>
  BY DEF Crash
<1>3. news # <<>> /\ news[Len(news)] = Exit
  <2>1. events[w] \in Seq(Events)
    BY <1>0, TypeParts DEF ThreadTypes
  <2>2. QED
    BY <2>1, ExitComesLast
<1>4. /\ \A v \in Threads : v # w => events'[v] = events[v] /\ hand'[v] = hand[v]
                                     /\ (alive'[v] <=> alive[v])
      /\ hand'[w] = 0 /\ ~alive'[w] /\ events'[w] = news
  BY <1>0, <1>1, <1>2 DEF TypeOK
<1>5. Ordered' /\ IdleHasNoTask' /\ NoIdleWhileQueued' /\ InOrder
  BY <1>2 DEF WorkerInv, Ordered, IdleHasNoTask, NoIdleWhileQueued, InOrder
<1>6. OnlyLivingWork'
  BY <1>4 DEF WorkerInv, OnlyLivingWork
<1>7. SlotsKept'
  <2>1. ASSUME ~destroyed, NEW i \in Slots
        PROVE  /\ alive'[workers'[i]] => LivingWorker(workers[i])'
               /\ ~alive'[workers'[i]] => DyingWorker(workers[i])'
    <3>1. PICK v \in Threads : v = workers[i]
      BY <1>0 DEF TypeOK
    <3>2. (alive[v] => LivingWorker(v)) /\ (~alive[v] => DyingWorker(v))
      BY <2>1, <3>1 DEF WorkerInv, SlotsKept
    <3>3. CASE v # w
      BY <1>2, <1>4, <3>1, <3>2, <3>3 DEF LivingWorker, IdleWorker, WorkingWorker,
         AnsweringWorker, DyingWorker
    <3>4. CASE v = w
      BY <1>2, <1>3, <1>4, <3>1, <3>4 DEF DyingWorker
    <3>5. QED
      BY <3>3, <3>4
  <2>2. QED
    BY <1>2, <2>1 DEF SlotsKept
<1>8. QED
  BY <1>5, <1>6, <1>7 DEF PumpKept

LEMMA DestroyKeeps == WorkerInv /\ Destroy => PumpKept
<1> SUFFICES ASSUME WorkerInv, Destroy PROVE PumpKept
  OBVIOUS
<1>1. /\ destroyed' = TRUE /\ queue' = <<>>
      /\ alive' = [w \in Threads |-> alive[w] /\ ~InSlot(w)]
      /\ hand' = [w \in Threads |-> IF InSlot(w) THEN 0 ELSE hand[w]]
      /\ UNCHANGED <<workers, busy, taskId>>
  BY DEF Destroy
<1>2. Ordered' /\ IdleHasNoTask' /\ InOrder /\ SlotsKept' /\ NoIdleWhileQueued'
  BY <1>1 DEF WorkerInv, Ordered, IdleHasNoTask, InOrder, SlotsKept, NoIdleWhileQueued
<1>3. OnlyLivingWork'
  <2>1. ASSUME NEW w \in Threads, ~alive'[w] PROVE hand'[w] = 0
    <3>1. CASE InSlot(w)
      BY <1>1, <3>1
    <3>2. CASE ~InSlot(w)
      BY <1>1, <2>1, <3>2 DEF WorkerInv, OnlyLivingWork
    <3>3. QED
      BY <3>1, <3>2
  <2>2. QED
    BY <2>1 DEF OnlyLivingWork
<1>4. QED
  BY <1>2, <1>3 DEF PumpKept

\* A step that leaves the pool, its queue and its workers alone.
LEMMA OthersKeep ==
  ASSUME WorkerInv,
         UNCHANGED <<workers, busy, taskId, queue, pendingById, destroyed, hand, alive>>,
         ~destroyed => UNCHANGED events,
         \A u \in Tasks : promise[u] # "none" => promise'[u] # "none"
  PROVE  PumpKept
<1>1. Ordered'
  BY QueueStaysOrdered DEF Ordered
<1>2. IdleHasNoTask' /\ OnlyLivingWork' /\ SlotsKept'
  BY DEF WorkerInv, IdleHasNoTask, OnlyLivingWork, SlotsKept, LivingWorker,
     IdleWorker, WorkingWorker, AnsweringWorker, DyingWorker
<1>3. NoIdleWhileQueued' /\ InOrder
  BY DEF WorkerInv, NoIdleWhileQueued, InOrder
<1>4. QED
  BY <1>1, <1>2, <1>3 DEF PumpKept

LEMMA KeptStep == WorkerInv /\ [Next]_vars => PumpKept
<1> SUFFICES ASSUME WorkerInv, [Next]_vars PROVE PumpKept
  OBVIOUS
<1>0. TypeOK
  BY DEF WorkerInv
<1>1. CASE UNCHANGED vars
  BY <1>1, OthersKeep DEF vars
<1>2. ASSUME NEW t \in Tasks, RunRejected(t) PROVE PumpKept
  <2>1. /\ promise' = [promise EXCEPT ![t] = "rejected"]
        /\ UNCHANGED <<workers, busy, taskId, queue, pendingById, destroyed, hand, alive, events>>
    BY <1>2 DEF RunRejected
  <2>2. \A u \in Tasks : promise[u] # "none" => promise'[u] # "none"
    BY <1>0, <2>1 DEF TypeOK
  <2>3. QED
    BY <2>1, <2>2, OthersKeep
<1>3. ASSUME NEW w \in Threads, OnError(w) \/ OnExit(w) PROVE PumpKept
  <2>1. CASE Lost(w)
    BY <2>1, LostKeeps
  <2>2. CASE ~Lost(w)
    <3>1. destroyed /\ UNCHANGED <<workers, busy, taskId, queue, pendingById, promise,
                                   destroyed, hand, alive>>
      BY <1>3, <2>2 DEF OnError, OnExit
    <3>2. QED
      BY <3>1, OthersKeep
  <2>3. QED
    BY <2>1, <2>2
<1>4. QED
  BY <1>1, <1>2, <1>3, RunKeeps, TimeoutKeeps, OnMessageKeeps, ComputeKeeps, CrashKeeps,
     DestroyKeeps DEF Next

-----------------------------------------------------------------------------
\* Every reachable state of the pool satisfies the invariant above.
THEOREM WorkerPoolInvariant == Spec => []WorkerInv
<1>1. WorkerInv /\ [Next]_vars => WorkerInv'
  BY TypeStep, KeptStep DEF WorkerInv, PumpKept
<1>2. QED
  BY <1>1, InitInv, PTL DEF Spec

\* No slot idles while a task that somebody waits for is in the queue.
THEOREM NoIdleWhileQueuedHolds == Spec => []NoIdleWhileQueued
<1>1. WorkerInv => NoIdleWhileQueued
  BY DEF WorkerInv
<1>2. QED
  BY <1>1, WorkerPoolInvariant, PTL

\* The worker of each slot runs the task the pool thinks it runs, or news of it that
\* frees the slot is still to come.
THEOREM NoSlotIsLostHolds == Spec => []NoSlotIsLost
<1>1. WorkerInv => NoSlotIsLost
  <2> SUFFICES ASSUME WorkerInv, ~destroyed, NEW i \in Slots, NEW w, w = workers[i],
                      events[w] = <<>>
               PROVE  alive[w] /\ (busy[w] => taskId[w] # 0 /\ hand[w] = taskId[w])
    BY DEF NoSlotIsLost
  <2>1. alive[w] /\ LivingWorker(w)
    BY DEF WorkerInv, SlotsKept, DyingWorker
  <2>2. ~AnsweringWorker(w)
    BY DEF AnsweringWorker
  <2>3. QED
    BY <2>1, <2>2 DEF LivingWorker, IdleWorker, WorkingWorker
<1>2. QED
  BY <1>1, WorkerPoolInvariant, PTL

\* A worker is only given a task that is waited for, and none before one submitted
\* earlier that is still in the queue.
THEOREM StartsInOrderHolds == Spec => StartsInOrder
<1>1. WorkerInv /\ [Next]_vars => InOrder
  BY KeptStep DEF PumpKept
<1>2. QED
  BY <1>1, WorkerPoolInvariant, PTL DEF Spec, StartsInOrder, InOrder
=============================================================================
