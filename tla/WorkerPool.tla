---------------------------- MODULE WorkerPool ----------------------------
(***************************************************************************)
(* The worker_threads pool of roku-dev-studio-platform: a FIFO queue over  *)
(* a fixed number of slots, each held by a worker that is replaced when it *)
(* dies or is stuck.                                                       *)
(*                                                                         *)
(* Every handler of the pool is one macrotask.  The workers run beside it: *)
(* what a worker posts, and the news of its death, wait until the event    *)
(* loop delivers them, even if the worker has been replaced since.         *)
(***************************************************************************)
EXTENDS Naturals, Sequences, SequencesExt, FiniteSets

CONSTANTS
  MaxTasks, MaxQueueSize,   \* as in TaskPool
  PoolSize,
  Threads,                  \* bound: workers alive, or with events not yet delivered
  MaxCrashes                \* bound: workers that die by themselves

ASSUME SizesAssumption ==
  /\ MaxTasks \in Nat /\ MaxQueueSize \in Nat /\ MaxCrashes \in Nat
  /\ PoolSize \in Nat \ {0}
  /\ IsFiniteSet(Threads) /\ Cardinality(Threads) > PoolSize

Tasks == 1..MaxTasks
Slots == 1..PoolSize

VARIABLES
  timed,        \* taskTimeoutMs is given
  workers,      \* the worker in each slot
  busy, taskId, \* the pool's view of each worker (taskId: 0 for null)
  queue,        \* tasks not dispatched yet
  pendingById,  \* tasks whose promise the pool still has to settle
  promise,      \* what the caller of run sees
  destroyed,
  hand,         \* the task posted to a worker and not answered yet (0: none)
  events,       \* per worker, what the event loop has not delivered yet
  alive, crashes

vars == <<timed, workers, busy, taskId, queue, pendingById, promise, destroyed,
          hand, events, alive, crashes>>

Message == [kind : {"message"}, id : Tasks, ok : BOOLEAN]
Error == [kind |-> "error"]
Exit  == [kind |-> "exit"]     \* with a code other than 0: no worker ends by itself

\* The types, each slot its own worker, and the pool's record of what is pending
\* in step with what callers see.
TypeOK ==
  /\ timed \in BOOLEAN /\ destroyed \in BOOLEAN /\ crashes \in 0..MaxCrashes
  /\ workers \in [Slots -> Threads]
  /\ \A i, j \in Slots : workers[i] = workers[j] => i = j
  /\ busy \in [Threads -> BOOLEAN] /\ alive \in [Threads -> BOOLEAN]
  /\ taskId \in [Threads -> {0} \cup Tasks] /\ hand \in [Threads -> {0} \cup Tasks]
  /\ queue \in Seq(Tasks)
  /\ promise \in [Tasks -> {"none", "pending", "resolved", "rejected"}]
  /\ pendingById = {t \in Tasks : promise[t] = "pending"}
  /\ events \in [Threads -> Seq(Message \cup {Error, Exit})]

Init ==
  /\ timed \in BOOLEAN /\ destroyed = FALSE /\ crashes = 0
  /\ workers = CHOOSE ws \in [Slots -> Threads] : \A i, j \in Slots : ws[i] = ws[j] => i = j
  /\ busy = [w \in Threads |-> FALSE]
  /\ alive = [w \in Threads |-> \E i \in Slots : workers[i] = w]
  /\ taskId = [w \in Threads |-> 0] /\ hand = [w \in Threads |-> 0]
  /\ queue = <<>> /\ pendingById = {}
  /\ promise = [t \in Tasks |-> "none"]
  /\ events = [w \in Threads |-> <<>>]

-----------------------------------------------------------------------------
\* The places in the queue that pump does not skip.
Waiting(q, p) == {k \in DOMAIN q : q[k] \in p}

\* Used by a fault: pump is not called.
PumpNone(ws, idle, ids, q, p) ==
  /\ workers' = ws /\ taskId' = ids /\ queue' = q /\ pendingById' = p
  /\ busy' = [w \in Threads |-> ~idle[w]]
  /\ hand' = [w \in Threads |-> IF alive'[w] THEN hand[w] ELSE 0]

\* pump, where ws are the workers, idle the ones not busy, ids their tasks, q the
\* queue and p the pending tasks: idle slots in order take the waiting tasks in
\* order.  What is posted to a dead worker is lost.
Pump(ws, idle, ids, q, p) ==
  LET waiting == IF destroyed THEN {} ELSE Waiting(q, p)
      free    == {i \in Slots : idle[ws[i]]}
      upTo(S, n) == Cardinality({k \in S : k <= n})
      given   == {g \in free \X waiting : upTo(free, g[1]) = upTo(waiting, g[2])}
      gets(w) == {q[g[2]] : g \in {h \in given : ws[h[1]] = w}}
      shifted == IF Cardinality(free) > Cardinality(waiting) THEN Len(q)
                 ELSE Max({0} \cup {g[2] : g \in given})
  IN
  /\ workers' = ws /\ pendingById' = p
  /\ busy'   = [w \in Threads |-> gets(w) # {} \/ ~idle[w]]
  /\ taskId' = [w \in Threads |-> Max({ids[w]} \cup gets(w))]
  /\ hand'   = [w \in Threads |-> IF alive'[w] THEN Max({hand[w]} \cup gets(w)) ELSE 0]
  /\ queue'  = SubSeq(q, shifted + 1, Len(q))

Idle == [w \in Threads |-> ~busy[w]]

\* Fault: a settled task is not deleted.
StillPending(t) == pendingById

Without(t) == pendingById \ {t}

\* The promise of t, if t is a task that is still pending.
Settled(t, outcome) ==
  [u \in Tasks |-> IF u = t /\ t \in pendingById THEN outcome ELSE promise[u]]

-----------------------------------------------------------------------------
\* Fault: the newest task goes first.
EnqueueFirst(t) == <<t>> \o queue

Enqueue(t) == Append(queue, t)
IsFull == Cardinality(pendingById) >= MaxQueueSize

NextTask(t) == \A u \in Tasks : promise[u] = "none" <=> u >= t

RunRejected(t) ==
  /\ NextTask(t)
  /\ destroyed \/ IsFull
  /\ promise' = [promise EXCEPT ![t] = "rejected"]
  /\ UNCHANGED <<timed, workers, busy, taskId, queue, pendingById, destroyed,
                 hand, events, alive, crashes>>

Run(t) ==
  /\ NextTask(t)
  /\ ~destroyed /\ ~IsFull
  /\ promise' = [promise EXCEPT ![t] = "pending"]
  /\ UNCHANGED <<timed, destroyed, events, alive, crashes>>
  /\ Pump(workers, Idle, taskId, Enqueue(t), pendingById \cup {t})

-----------------------------------------------------------------------------
\* The worker threads.

\* The handler given to runWorkerLoop returns or throws.
Compute(w) ==
  /\ alive[w] /\ hand[w] # 0
  /\ hand' = [hand EXCEPT ![w] = 0]
  /\ \E ok \in BOOLEAN :
       events' = [events EXCEPT ![w] = Append(@, [kind |-> "message", id |-> hand[w], ok |-> ok])]
  /\ UNCHANGED <<timed, workers, busy, taskId, queue, pendingById, promise, destroyed,
                 alive, crashes>>

Spare == {w \in Threads : ~alive[w] /\ events[w] = <<>> /\ \A i \in Slots : workers[i] # w}
Dead  == {i \in Slots : ~alive[workers[i]]}

\* A worker dies by an uncaught error or by exiting.  What it has posted may be
\* lost, or overtaken by the error, which comes by another port.
Crash(w) ==
  /\ alive[w] /\ crashes < MaxCrashes
  /\ destroyed \/ Cardinality(Spare) > Cardinality(Dead)
  /\ alive' = [alive EXCEPT ![w] = FALSE]
  /\ hand' = [hand EXCEPT ![w] = 0]
  /\ \E news \in {events[w] \o <<Error, Exit>>, <<Error>> \o events[w] \o <<Exit>>,
                  <<Error, Exit>>, events[w] \o <<Exit>>, <<Exit>>} :
       events' = [events EXCEPT ![w] = news]
  /\ crashes' = crashes + 1
  /\ UNCHANGED <<timed, workers, busy, taskId, queue, pendingById, promise, destroyed>>

\* terminate: a living worker stops, what it has posted may be lost, and its exit
\* is announced.
Terminated(w) ==
  IF alive[w] THEN {events[w] \o <<Exit>>, <<Exit>>} ELSE {events[w]}

-----------------------------------------------------------------------------
\* The pool's handlers.

\* Fault: the new worker is not given a task.
ReplaceUnpumped(w, idle, ids, p, left) ==
  LET new == CHOOSE v \in Spare : TRUE IN
  /\ Spare # {}
  /\ alive'  = [alive EXCEPT ![w] = FALSE, ![new] = TRUE]
  /\ events' = [events EXCEPT ![w] = left]
  /\ PumpNone([i \in Slots |-> IF workers[i] = w THEN new ELSE workers[i]],
              [idle EXCEPT ![new] = TRUE], [ids EXCEPT ![new] = 0], queue, p)

\* replaceWorker, which the events after the first find already done: the old
\* worker keeps what is left of its events, the new one gets a task.
Replace(w, idle, ids, p, left) ==
  LET new == CHOOSE v \in Spare : TRUE IN
  /\ Spare # {}
  /\ alive'  = [alive EXCEPT ![w] = FALSE, ![new] = TRUE]
  /\ events' = [events EXCEPT ![w] = left]
  /\ Pump([i \in Slots |-> IF workers[i] = w THEN new ELSE workers[i]],
          [idle EXCEPT ![new] = TRUE], [ids EXCEPT ![new] = 0], queue, p)

OnMessage(w) ==
  LET msg == Head(events[w]) IN
  /\ events[w] # <<>> /\ msg.kind = "message"
  /\ events' = [events EXCEPT ![w] = Tail(@)]
  /\ promise' = Settled(msg.id, IF msg.ok THEN "resolved" ELSE "rejected")
  /\ UNCHANGED <<timed, destroyed, alive, crashes>>
  /\ Pump(workers, [Idle EXCEPT ![w] = TRUE], [taskId EXCEPT ![w] = 0], queue,
          Without(msg.id))

Unreplaced(w) ==
  /\ events' = [events EXCEPT ![w] = Tail(@)]
  /\ taskId' = [taskId EXCEPT ![w] = 0]
  /\ UNCHANGED <<workers, busy, queue, hand, alive>>

InSlot(w) == ~destroyed /\ \E i \in Slots : workers[i] = w

\* Faults: the task of a dead worker is forgotten; the worker is not replaced.
LostForgotten(w) ==
  /\ UNCHANGED <<timed, destroyed, crashes, promise>>
  /\ \/ /\ InSlot(w)
        /\ Replace(w, Idle, [taskId EXCEPT ![w] = 0], pendingById, Tail(events[w]))
     \/ ~InSlot(w) /\ Unreplaced(w) /\ UNCHANGED pendingById
LostUnreplaced(w) ==
  /\ promise' = Settled(taskId[w], "rejected")
  /\ pendingById' = Without(taskId[w])
  /\ UNCHANGED <<timed, destroyed, crashes>>
  /\ Unreplaced(w)

\* failCurrentTask and replaceWorker.
Lost(w) ==
  /\ promise' = Settled(taskId[w], "rejected")
  /\ UNCHANGED <<timed, destroyed, crashes>>
  /\ \/ /\ InSlot(w)
        /\ Replace(w, Idle, [taskId EXCEPT ![w] = 0], Without(taskId[w]),
                   Tail(events[w]))
     \/ ~InSlot(w) /\ Unreplaced(w) /\ pendingById' = Without(taskId[w])

OnError(w) ==
  /\ events[w] # <<>> /\ Head(events[w]) = Error
  /\ Lost(w)

OnExit(w) ==
  /\ events[w] # <<>> /\ Head(events[w]) = Exit
  /\ \/ ~destroyed /\ Lost(w)
     \/ /\ destroyed
        /\ events' = [events EXCEPT ![w] = Tail(@)]
        /\ UNCHANGED <<timed, workers, busy, taskId, queue, pendingById, promise,
                       destroyed, hand, alive, crashes>>

OnEvent(w) == OnMessage(w) \/ OnError(w) \/ OnExit(w)

\* The timer of a task whose promise is pending.  A task still in the queue is
\* left there for pump to skip.
Timeout(t) ==
  /\ timed /\ t \in pendingById
  /\ promise' = Settled(t, "rejected")
  /\ UNCHANGED <<timed, destroyed, crashes>>
  /\ \/ \E i \in Slots :
          LET w == workers[i] IN
          /\ taskId[w] = t
          /\ ~alive[w] \/ Cardinality(Spare) > Cardinality(Dead)
          /\ \E left \in Terminated(w) :
               Replace(w, [Idle EXCEPT ![w] = TRUE], [taskId EXCEPT ![w] = 0],
                       Without(t), left)
     \/ /\ \A i \in Slots : taskId[workers[i]] # t
        /\ pendingById' = Without(t)
        /\ UNCHANGED <<workers, busy, taskId, queue, hand, events, alive>>

\* Every worker is terminated; as no promise is left to settle, it makes no
\* difference whether what they have posted is lost.
Destroy ==
  /\ destroyed' = TRUE
  /\ queue' = <<>> /\ pendingById' = {}
  /\ promise' = [t \in Tasks |-> IF t \in pendingById THEN "rejected" ELSE promise[t]]
  /\ events' = [w \in Threads |-> IF InSlot(w) /\ alive[w] THEN Append(events[w], Exit)
                                 ELSE events[w]]
  /\ alive' = [w \in Threads |-> alive[w] /\ ~InSlot(w)]
  /\ hand' = [w \in Threads |-> IF InSlot(w) THEN 0 ELSE hand[w]]
  /\ UNCHANGED <<timed, workers, busy, taskId, crashes>>

-----------------------------------------------------------------------------
Next ==
  \/ \E t \in Tasks : RunRejected(t) \/ Run(t) \/ Timeout(t)
  \/ \E w \in Threads : Compute(w) \/ Crash(w) \/ OnMessage(w) \/ OnError(w) \/ OnExit(w)
  \/ Destroy

Spec == Init /\ [][Next]_vars

\* Events are delivered, timers fire, and in a pool without timeouts the handler
\* of a task ends, unless its worker does.
FairSpec ==
  /\ Spec
  /\ \A w \in Threads : WF_vars(OnEvent(w)) /\ WF_vars(~timed /\ Compute(w))
  /\ \A t \in Tasks : WF_vars(Timeout(t))

-----------------------------------------------------------------------------
\* The pool keeps the promise of its interface: every accepted run settles once,
\* by its own worker's answer or death, by its timeout or by destroy, whatever
\* comes late from workers that were replaced.
Interface == INSTANCE TaskPool WITH
  MaxTasks <- MaxTasks, MaxQueueSize <- MaxQueueSize, promise <- promise, destroyed <- destroyed
Refines == Interface!Spec

\* A worker is given a task only while somebody waits for its result, and never
\* before a task submitted earlier that still waits in the queue.
StartsInOrder ==
  [][\A w \in Threads : taskId'[w] \notin {0, taskId[w]} =>
       /\ taskId'[w] \in pendingById'
       /\ \A k \in DOMAIN queue' : taskId'[w] < queue'[k]]_vars

\* No slot idles while a task waits: whatever frees a slot pumps the queue.
NoIdleWhileQueued ==
  ~destroyed /\ (\E t \in pendingById : Contains(queue, t)) => \A i \in Slots : busy[workers[i]]

\* No slot is lost: its worker runs the task the pool thinks it runs, or news of
\* it is still to come that will free the slot or replace the worker.
NoSlotIsLost ==
  ~destroyed => \A i \in Slots : LET w == workers[i] IN
    \/ events[w] # <<>>
    \/ alive[w] /\ (busy[w] => taskId[w] # 0 /\ hand[w] = taskId[w])
=============================================================================
