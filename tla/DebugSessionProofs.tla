------------------------ MODULE DebugSessionProofs ------------------------
(***************************************************************************)
(* Theorems about DebugSession for any callers, handlers and locations.    *)
(***************************************************************************)
EXTENDS DebugSession, TLAPS, FiniteSetTheorems

-----------------------------------------------------------------------------
\* What the sending helpers leave in the client's variables.
ClientOK ==
  /\ toDevice \in Seq(Request)
  /\ pending \in SUBSET Tasks
  /\ answer \in [Tasks -> Answers]

LEMMA SendType ==
  ASSUME ClientOK, NEW t \in Tasks, NEW cmd \in Commands,
         NEW L \in SUBSET Locs, NEW I \in SUBSET Nat, Send(t, cmd, L, I)
  PROVE  ClientOK'
<1>1. [cmd |-> cmd, by |-> t, locs |-> L, ids |-> I] \in Request
  BY DEF Request
<1>2. toDevice' \in Seq(Request)
  BY <1>1 DEF ClientOK, Send
<1>3. QED BY <1>2 DEF ClientOK, Send, Answers

LEMMA ResolveType ==
  ASSUME ClientOK, NEW t \in Tasks, NEW a \in Answers, Resolve(t, a)
  PROVE  ClientOK'
BY DEF ClientOK, Resolve

LEMMA WhenHaltedType ==
  ASSUME ClientOK, NEW t \in Tasks, NEW cmd \in Commands, WhenHalted(t, cmd)
  PROVE  ClientOK'
<1>1. CASE isStopped
  BY <1>1, SendType DEF WhenHalted
<1>2. CASE ~isStopped
  BY <1>2, ResolveType DEF WhenHalted, Answers
<1>3. QED BY <1>1, <1>2

LEMMA StartFlushType ==
  ASSUME ClientOK, NEW t \in Tasks, NEW b \in BOOLEAN, StartFlush(t, b),
         cached \in SUBSET Locs, sent \in SUBSET Locs, batch \in [Tasks -> SUBSET Locs]
  PROVE  ClientOK' /\ sent' \in SUBSET Locs /\ batch' \in [Tasks -> SUBSET Locs]
<1> DEFINE due == cached \ sent
<1>1. CASE b /\ due # {}
  <2>1. Send(t, "AddBreakpoints", due, {}) /\ sent' = sent \cup due
        /\ batch' = [batch EXCEPT ![t] = due]
    BY <1>1 DEF StartFlush
  <2>2. ClientOK'
    BY <2>1, SendType DEF Commands, NeedsHalt, Guarded
  <2>3. QED BY <2>1, <2>2
<1>2. CASE ~(b /\ due # {})
  <2>1. Resolve(t, "void") /\ UNCHANGED <<sent, batch>>
    BY <1>2 DEF StartFlush
  <2>2. QED BY <2>1, ResolveType DEF Answers
<1>3. QED BY <1>1, <1>2

LEMMA DestroyType ==
  ASSUME TypeOK, Destroy
  PROVE  /\ toDevice' \in Seq(Request) /\ fromDevice' \in Seq(Reply \cup Stop)
         /\ pending' \in SUBSET Tasks
         /\ open' \in BOOLEAN /\ reading' \in BOOLEAN /\ isStopped' \in BOOLEAN
<1>1. \A S : <<>> \in Seq(S)
  OBVIOUS
<1>2. toDevice' = <<>> /\ fromDevice' = <<>> /\ pending' = {}
      /\ open' = FALSE /\ reading' = FALSE /\ isStopped' = isStopped
  BY DEF Destroy
<1>3. isStopped \in BOOLEAN
  BY DEF TypeOK
<1>4. QED BY <1>1, <1>2, <1>3

-----------------------------------------------------------------------------
\* The type invariant: every handler leaves every variable in its domain.
LEMMA CallType ==
  ASSUME TypeOK, NEW c \in Callers, Call(c)
  PROVE  TypeOK'
<1> c \in Tasks
  BY DEF Tasks
<1> ClientOK
  BY DEF TypeOK, ClientOK
<1> USE DEF Commands, NeedsHalt, Guarded, Resumes
<1>1. CASE Continue(c)
  <2>1. ClientOK'
    BY <1>1, WhenHaltedType DEF Continue, ResumeRequest
  <2>2. QED BY <1>1, <2>1 DEF TypeOK, ClientOK, Continue, ResumeRequest, Goto, CallerPcs,
                              bpVars, devVars
<1>2. CASE Step(c)
  <2>1. ClientOK'
    BY <1>2, WhenHaltedType DEF Step, ResumeRequest
  <2>2. QED BY <1>2, <2>1 DEF TypeOK, ClientOK, Step, ResumeRequest, Goto, CallerPcs,
                              bpVars, devVars
<1>3. CASE Pause(c)
  <2>1. ClientOK'
    BY <1>3, SendType, ResolveType DEF Pause, Answers
  <2>2. QED BY <1>3, <2>1 DEF TypeOK, ClientOK, Pause, Goto, CallerPcs, sessionVars,
                              bpVars, devVars
<1>4. CASE Inspect(c)
  <2>1. ClientOK'
    BY <1>4, WhenHaltedType DEF Inspect
  <2>2. pc' \in [Tasks -> {"idle"} \cup CallerPcs \cup HandlerPcs]
    <3>1. Goto(c, "vars") \/ Goto(c, "inspect")
      BY <1>4 DEF Inspect
    <3>2. QED BY <3>1 DEF Goto, CallerPcs, TypeOK
  <2>3. QED BY <1>4, <2>1, <2>2 DEF TypeOK, ClientOK, Inspect, sessionVars, bpVars, devVars
<1>5. CASE Detach(c)
  <2>1. ClientOK'
    BY <1>5, WhenHaltedType DEF Detach, ResumeRequest
  <2>2. QED BY <1>5, <2>1 DEF TypeOK, ClientOK, Detach, ResumeRequest, Goto, CallerPcs,
                              bpVars, devVars
<1>6. ASSUME NEW L \in SUBSET Locs, AddBreakpoints(c, L)
      PROVE  TypeOK'
  <2>1. ClientOK' /\ pc' \in [Tasks -> {"idle"} \cup CallerPcs \cup HandlerPcs]
                  /\ sent' \in SUBSET Locs /\ batch' \in [Tasks -> SUBSET Locs]
    <3>1. CASE isStopped
      <4>1. Send(c, "AddBreakpoints", L, {}) /\ Goto(c, "add") /\ sent' = sent \cup L
            /\ batch' = [batch EXCEPT ![c] = L]
        BY <1>6, <3>1 DEF AddBreakpoints
      <4>2. ClientOK'
        BY <4>1, SendType
      <4>3. QED BY <4>1, <4>2 DEF Goto, CallerPcs, TypeOK
    <3>2. CASE ~isStopped
      BY <1>6, <3>2 DEF AddBreakpoints, TypeOK, ClientOK
    <3>3. QED BY <3>1, <3>2
  <2>2. adds' \in [Locs -> Nat]
    BY <1>6 DEF AddBreakpoints, TypeOK
  <2>3. QED BY <1>6, <2>1, <2>2 DEF TypeOK, ClientOK, AddBreakpoints, sessionVars, devVars
<1>7. ASSUME NEW L \in SUBSET Locs, RemoveBreakpoints(c, L)
      PROVE  TypeOK'
  <2> DEFINE ids == {bpId[l] : l \in L} \ {0}
  <2>1. ids \in SUBSET Nat
    BY DEF TypeOK
  <2>2. ClientOK' /\ pc' \in [Tasks -> {"idle"} \cup CallerPcs \cup HandlerPcs]
    <3>1. CASE ids = {}
      BY <1>7, <3>1 DEF RemoveBreakpoints, TypeOK, ClientOK
    <3>2. CASE ids # {}
      <4>1. Send(c, "RemoveBreakpoints", {}, ids) /\ Goto(c, "remove")
        BY <1>7, <3>2 DEF RemoveBreakpoints
      <4>2. QED BY <4>1, <2>1, SendType DEF Goto, CallerPcs, TypeOK
    <3>3. QED BY <3>1, <3>2
  <2>3. bpId' \in [Locs -> Nat] /\ batch' \in [Tasks -> SUBSET Locs]
    BY <1>7 DEF RemoveBreakpoints, TypeOK
  <2>4. QED BY <1>7, <2>2, <2>3 DEF TypeOK, ClientOK, RemoveBreakpoints, sessionVars, devVars
<1>8. QED BY <1>1, <1>2, <1>3, <1>4, <1>5, <1>6, <1>7 DEF Call

LEMMA RetryType ==
  ASSUME TypeOK, NEW t \in Tasks, RetryVariables(t)
  PROVE  TypeOK'
<1>1. ClientOK /\ "VariablesRetry" \in Commands
  BY DEF TypeOK, ClientOK, Commands, NeedsHalt
<1>2. ClientOK'
  BY <1>1, SendType DEF RetryVariables
<1>3. QED BY <1>2 DEF TypeOK, ClientOK, RetryVariables, Goto, CallerPcs, sessionVars, bpVars, devVars

LEMMA CallerStepType ==
  ASSUME TypeOK, NEW c \in Callers, CallerStep(c)
  PROVE  TypeOK'
<1> c \in Tasks
  BY DEF Tasks
<1>1. ASSUME Return(c), state' \in {"attached", "stopped", "running"},
             lastStop' \in {"none", "current", "stale"}, fresh' \in SUBSET Callers,
             sent' \in SUBSET Locs, batch' \in [Tasks -> SUBSET Locs]
      PROVE  TypeOK'
  BY <1>1 DEF TypeOK, Return, Goto, clientVars, devVars, Answers
<1>2. MarkResumed(c) \/ SetState("stopped") \/ UNCHANGED <<state, lastStop, fresh>>
        => /\ state' \in {"attached", "stopped", "running"}
           /\ lastStop' \in {"none", "current", "stale"}
           /\ fresh' \in SUBSET Callers
  BY DEF TypeOK, MarkResumed, SetState
<1>3. CASE ResumeDone(c)
  BY <1>1, <1>2, <1>3 DEF ResumeDone, TypeOK
<1>4. CASE StepDone(c)
  BY <1>1, <1>2, <1>4 DEF StepDone, TypeOK
<1>5. CASE AddDone(c)
  BY <1>1, <1>2, <1>5 DEF AddDone, FinishAdd, TypeOK
<1>6. CASE CallDone(c)
  BY <1>1, <1>2, <1>6 DEF CallDone, TypeOK
<1>6a. CASE RetryVariables(c)
  BY <1>6a, RetryType
<1>7. CASE DetachDone(c)
  <2>1. answer' \in [Tasks -> Answers] /\ pc' \in [Tasks -> {"idle"} \cup CallerPcs \cup HandlerPcs]
    BY <1>7 DEF DetachDone, Failed, Goto, TypeOK, Answers
  <2>2. QED BY <1>7, <2>1, DestroyType DEF DetachDone, TypeOK, sessionVars, bpVars, devVars
<1>8. QED BY <1>3, <1>4, <1>5, <1>6, <1>6a, <1>7 DEF CallerStep, CallAnswered

LEMMA HandlerStepType ==
  ASSUME TypeOK, NEW h \in Handlers, HandlerStep(h)
  PROVE  TypeOK'
<1> h \in Tasks
  BY DEF Tasks
<1> ClientOK
  BY DEF TypeOK, ClientOK
<1> USE DEF Commands, NeedsHalt, Guarded, Resumes
<1>1. CASE GraceOver(h)
  <2>1. ClientOK' /\ sent' \in SUBSET Locs /\ batch' \in [Tasks -> SUBSET Locs]
    BY <1>1, StartFlushType DEF GraceOver, TypeOK
  <2>2. QED BY <1>1, <2>1 DEF TypeOK, ClientOK, GraceOver, Goto, HandlerPcs, sessionVars, devVars
<1>2. CASE AutoContinue(h)
  <2>1. ClientOK'
    BY <1>2, WhenHaltedType DEF AutoContinue, ResumeRequest
  <2>2. QED BY <1>2, <2>1 DEF TypeOK, ClientOK, AutoContinue, ResumeRequest, FinishAdd,
                              SetState, Goto, HandlerPcs, devVars
<1>3. CASE EntryDone(h)
  BY <1>3 DEF TypeOK, EntryDone, Return, Goto, clientVars, devVars, Answers
<1>4. CASE AskThreads(h)
  <2>1. ClientOK'
    BY <1>4, WhenHaltedType DEF AskThreads
  <2>2. QED BY <1>4, <2>1 DEF TypeOK, ClientOK, AskThreads, FinishAdd, Goto, HandlerPcs,
                              sessionVars, devVars
<1>5. CASE AskStack(h)
  <2>1. ClientOK'
    BY <1>5, WhenHaltedType DEF AskStack
  <2>2. QED BY <1>5, <2>1 DEF TypeOK, ClientOK, AskStack, Goto, HandlerPcs, sessionVars,
                              bpVars, devVars
<1>6. CASE AskVariables(h)
  <2>1. ClientOK'
    BY <1>6, WhenHaltedType DEF AskVariables
  <2>2. QED BY <1>6, <2>1 DEF TypeOK, ClientOK, AskVariables, Goto, HandlerPcs, sessionVars,
                              bpVars, devVars
<1>7. CASE PublishStop(h)
  BY <1>7 DEF TypeOK, PublishStop, Return, Goto, clientVars, devVars, Answers
<1>8. CASE RetryVariables(h)
  BY <1>8, RetryType
<1>9. QED BY <1>1, <1>2, <1>3, <1>4, <1>5, <1>6, <1>7, <1>8 DEF HandlerStep, VariablesAnswered

LEMMA ReceiveType ==
  ASSUME TypeOK, Receive
  PROVE  TypeOK'
<1> ClientOK
  BY DEF TypeOK, ClientOK
<1>1. ASSUME NextMessage
      PROVE  /\ fromDevice' \in Seq(Reply \cup Stop) /\ reading' \in BOOLEAN
             /\ Head(fromDevice) \in Reply \cup Stop
  BY <1>1 DEF NextMessage, TypeOK
<1>2. CASE Response
  <2> DEFINE m == Head(fromDevice)
  <2>1. NextMessage /\ m \in Reply
    BY <1>1, <1>2 DEF Response, Reply, Stop
  <2>2. m.to \in Tasks /\ m.ok \in BOOLEAN /\ m.ids \in [Locs -> Nat]
    BY <2>1 DEF Reply
  <2>3. answer' \in [Tasks -> Answers] /\ pending' \in SUBSET Tasks
    BY <1>2, <2>2 DEF Response, TypeOK, Answers
  <2>4. bpId' \in [Locs -> Nat]
    BY <1>2, <2>2 DEF Response, RecordBreakpointIds, TypeOK
  <2>5. QED BY <1>1, <1>2, <2>1, <2>3, <2>4 DEF Response, TypeOK, sessionVars, devVars
<1>3. CASE SilentStop
  BY <1>1, <1>3 DEF SilentStop, TypeOK, sessionVars, bpVars, taskVars, devVars
<1>4. ASSUME NEW h \in Handlers, EntrySuspend(h)
      PROVE  TypeOK'
  BY <1>1, <1>4 DEF EntrySuspend, TypeOK, Goto, HandlerPcs, bpVars, devVars, Tasks
<1>5. ASSUME NEW h \in Handlers, ReportStop(h)
      PROVE  TypeOK'
  <2>1. ClientOK' /\ sent' \in SUBSET Locs /\ batch' \in [Tasks -> SUBSET Locs]
    BY <1>5, StartFlushType DEF ReportStop, TypeOK, Tasks
  <2>2. QED BY <1>1, <1>5, <2>1 DEF ReportStop, TypeOK, ClientOK, Goto, HandlerPcs, devVars, Tasks
<1>6. QED BY <1>2, <1>3, <1>4, <1>5 DEF Receive

LEMMA DeviceType ==
  ASSUME TypeOK, IsFiniteSet(Locs), Device
  PROVE  TypeOK'
<1> USE DEF devVars, sessionVars, bpVars, taskVars, DeviceUnchanged
<1>1. \A t \in Tasks, b \in BOOLEAN, f \in [Locs -> Nat] : ReplyTo(t, b, f) \in Reply
  BY DEF ReplyTo, Reply
<1>2. NoIds \in [Locs -> Nat]
  BY DEF NoIds
<1>3. ASSUME NEW cmds, Serve(cmds)
      PROVE  /\ toDevice' \in Seq(Request) /\ Head(toDevice) \in Request
             /\ Head(toDevice).by \in Tasks /\ Head(toDevice).locs \in SUBSET Locs
             /\ UNCHANGED <<open, isStopped, pending, reading, sessionVars, bpVars, taskVars>>
  <2>1. toDevice \in Seq(Request) /\ toDevice # <<>> /\ toDevice' = Tail(toDevice)
    BY <1>3 DEF Serve, TypeOK
  <2>2. Head(toDevice) \in Request /\ Tail(toDevice) \in Seq(Request)
    BY <2>1
  <2>3. Head(toDevice).by \in Tasks /\ Head(toDevice).locs \in SUBSET Locs
    BY <2>2 DEF Request
  <2>4. QED BY <1>3, <2>1, <2>2, <2>3 DEF Serve
<1> DEFINE by == Head(toDevice).by
<1>reply. \A b \in BOOLEAN, f \in [Locs -> Nat] : by \in Tasks =>
         Append(fromDevice, ReplyTo(by, b, f)) \in Seq(Reply \cup Stop)
  BY <1>1 DEF TypeOK
<1>4. ASSUME NEW why \in Reasons, DeviceHalt(why)
      PROVE  TypeOK'
  BY <1>4 DEF DeviceHalt, TypeOK, Stop
<1>6. CASE DeviceResume
  <2>1. fromDevice' \in Seq(Reply \cup Stop)
    BY <1>2, <1>3, <1>6, <1>reply DEF DeviceResume
  <2>2. QED BY <1>3, <1>6, <2>1 DEF DeviceResume, TypeOK
<1>7. CASE DeviceRefuse
  <2>1. fromDevice' \in Seq(Reply \cup Stop)
    BY <1>2, <1>3, <1>7, <1>reply DEF DeviceRefuse
  <2>2. QED BY <1>3, <1>7, <2>1 DEF DeviceRefuse, TypeOK
<1>8. CASE DevicePause
  <2>1. ReplyTo(by, TRUE, NoIds) \in Reply /\ [kind |-> "stop", why |-> "suspend"] \in Stop
    BY <1>1, <1>2, <1>3, <1>8 DEF DevicePause, Stop, Reasons
  <2>2. fromDevice' \in Seq(Reply \cup Stop) /\ dev' \in {"entry", "running", "halted", "silent"}
    <3>1. Append(fromDevice, ReplyTo(by, TRUE, NoIds)) \in Seq(Reply \cup Stop)
      BY <1>2, <1>3, <1>reply, <1>8 DEF DevicePause
    <3>2. Append(Append(fromDevice, ReplyTo(by, TRUE, NoIds)), [kind |-> "stop", why |-> "suspend"])
            \in Seq(Reply \cup Stop)
      <4>1. [kind |-> "stop", why |-> "suspend"] \in Reply \cup Stop
        BY <2>1
      <4>2. \A s \in Seq(Reply \cup Stop) :
              Append(s, [kind |-> "stop", why |-> "suspend"]) \in Seq(Reply \cup Stop)
        BY <4>1
      <4>3. QED BY <3>1, <4>2, Zenon
    <3>3. QED BY <1>8, <3>1, <3>2 DEF DevicePause, TypeOK
  <2>3. QED BY <1>3, <1>8, <2>2 DEF DevicePause, TypeOK
<1>9. CASE DeviceAdd
  <2> DEFINE L == Head(toDevice).locs
  <2>1. L \in SUBSET Locs /\ by \in Tasks
    BY <1>3, <1>9 DEF DeviceAdd
  <2>2. Cardinality(L) \in Nat
    BY <2>1, FS_Subset, FS_CardinalityType
  <2>3. PICK id \in [L -> nextId..(nextId + Cardinality(L) - 1)] :
          /\ fromDevice' = Append(fromDevice, ReplyTo(by, TRUE,
                                    [l \in Locs |-> IF l \in L THEN id[l] ELSE 0]))
          /\ devBps' = IF dev = "running" THEN devBps
                       ELSE devBps \cup {[loc |-> l, id |-> id[l]] : l \in L}
    BY <1>9 DEF DeviceAdd
  <2>4. \A l \in L : id[l] \in Nat
    BY <2>2 DEF TypeOK
  <2>5. [l \in Locs |-> IF l \in L THEN id[l] ELSE 0] \in [Locs -> Nat]
    BY <2>4
  <2>6. fromDevice' \in Seq(Reply \cup Stop)
    BY <1>reply, <2>1, <2>3, <2>5
  <2>7. devBps' \in SUBSET [loc : Locs, id : Nat]
    BY <2>1, <2>3, <2>4 DEF TypeOK
  <2>8. nextId' \in Nat
    BY <1>9, <2>2 DEF DeviceAdd, TypeOK
  <2>9. QED BY <1>3, <1>9, <2>6, <2>7, <2>8 DEF DeviceAdd, TypeOK
<1>10. CASE DeviceRemove
  <2>1. fromDevice' \in Seq(Reply \cup Stop)
    BY <1>2, <1>3, <1>10, <1>reply DEF DeviceRemove
  <2>2. QED BY <1>3, <1>10, <2>1 DEF DeviceRemove, TypeOK
<1>11. CASE DeviceInspect
  <2>1. fromDevice' \in Seq(Reply \cup Stop)
    BY <1>2, <1>3, <1>11, <1>reply DEF DeviceInspect
  <2>2. QED BY <1>3, <1>11, <2>1 DEF DeviceInspect, TypeOK
<1>12. QED BY <1>4, <1>6, <1>7, <1>8, <1>9, <1>10, <1>11 DEF Device

LEMMA InitType == Init => TypeOK
<1> SUFFICES ASSUME Init PROVE TypeOK
  OBVIOUS
<1>1. fromDevice \in Seq(Reply \cup Stop)
  BY DEF Init, Stop, Reasons
<1>2. toDevice \in Seq(Request)
  BY DEF Init
<1>3. answer \in [Tasks -> Answers] /\ pc \in [Tasks -> {"idle"} \cup CallerPcs \cup HandlerPcs]
      /\ batch \in [Tasks -> SUBSET Locs]
  BY DEF Init, Answers
<1>4. QED BY <1>1, <1>2, <1>3 DEF Init, TypeOK

LEMMA NextType == ASSUME IsFiniteSet(Locs), TypeOK, [Next]_vars PROVE TypeOK'
<1>1. CASE \E c \in Callers : Call(c) \/ CallerStep(c)
  BY <1>1, CallType, CallerStepType
<1>2. CASE \E h \in Handlers : HandlerStep(h)
  BY <1>2, HandlerStepType
<1>3. CASE Receive
  BY <1>3, ReceiveType
<1>4. CASE SessionEnd
  <2>1. answer' \in [Tasks -> Answers] /\ live' \in BOOLEAN
    BY <1>4 DEF SessionEnd, Failed, TypeOK, Answers
  <2>2. QED BY <1>4, <2>1, DestroyType DEF SessionEnd, TypeOK, bpVars, devVars
<1>5. CASE Device
  BY <1>5, DeviceType
<1>6. CASE UNCHANGED vars
  BY <1>6 DEF TypeOK, vars, clientVars, sessionVars, bpVars, taskVars, devVars
<1>7. QED BY <1>1, <1>2, <1>3, <1>4, <1>5, <1>6 DEF Next

\* Every variable of the client, the controller, the tasks and the device keeps
\* its type, whatever the callers, handlers and (finitely many) locations are.
THEOREM TypeCorrect == ASSUME IsFiniteSet(Locs) PROVE Spec => []TypeOK
<1>1. TypeOK /\ [Next]_vars => TypeOK'
  BY NextType
<1>2. QED BY InitType, <1>1, PTL DEF Spec

-----------------------------------------------------------------------------
(***************************************************************************)
(* The client's belief is sound.  At most one of three tokens exists: the  *)
(* belief that a thread is halted, an announced stop that has not arrived, *)
(* a resume that has not been served; and a running device has none of     *)
(* them.  So whatever is sent while the belief holds is served before any  *)
(* resume.  The retry of getVariables is sent without the belief and is    *)
(* excused.  HaltInv is that argument as an inductive invariant; it needs  *)
(* a device that announces one stop per halt (LateAttach = FALSE).         *)
(***************************************************************************)
IsStop(i)   == fromDevice[i].kind = "stop"
IsResume(i) == toDevice[i].cmd \in Resumes
Excused(cmd) == LegacyCasing /\ cmd = "VariablesRetry"
Needy(i)    == toDevice[i].cmd \in NeedsHalt /\ ~Excused(toDevice[i].cmd)

RunningHasNoToken ==
  dev = "running" => /\ ~isStopped
                     /\ \A i \in 1..Len(fromDevice) : ~IsStop(i)
                     /\ \A i \in 1..Len(toDevice) : ~Needy(i)

BeliefIsTheOnlyToken ==
  isStopped => /\ \A i \in 1..Len(fromDevice) : ~IsStop(i)
               /\ \A i \in 1..Len(toDevice) : ~IsResume(i)

StopOrResume ==
  \A i \in 1..Len(fromDevice), j \in 1..Len(toDevice) : ~(IsStop(i) /\ IsResume(j))

NothingNeedyBehindResume ==
  \A i, j \in 1..Len(toDevice) : i < j /\ IsResume(i) => ~Needy(j)

OneStop ==
  \A i, j \in 1..Len(fromDevice) : IsStop(i) /\ IsStop(j) => i = j

HaltInv ==
  /\ RunningHasNoToken /\ BeliefIsTheOnlyToken
  /\ StopOrResume /\ NothingNeedyBehindResume /\ OneStop

LEMMA HaltInvImplies == ASSUME TypeOK, HaltInv PROVE HaltedAtReceipt
<1>1. toDevice # <<>> => 1 \in 1..Len(toDevice) /\ Head(toDevice) = toDevice[1]
  BY DEF TypeOK
<1>2. QED BY <1>1 DEF HaltInv, RunningHasNoToken, Needy, Excused, HaltedAtReceipt

USE DEF HaltInv, RunningHasNoToken, BeliefIsTheOnlyToken, StopOrResume,
        NothingNeedyBehindResume, OneStop, IsStop, IsResume, Needy

\* A step that sends nothing and receives nothing may only drop the belief.
LEMMA HaltQuiet ==
  ASSUME HaltInv, UNCHANGED <<toDevice, fromDevice, dev>>, isStopped' => isStopped
  PROVE  HaltInv'
<1>1. /\ toDevice' = toDevice /\ fromDevice' = fromDevice /\ dev' = dev
  OBVIOUS
<1>2. RunningHasNoToken' /\ BeliefIsTheOnlyToken'
  BY <1>1
<1>3. StopOrResume' /\ NothingNeedyBehindResume' /\ OneStop'
  BY <1>1
<1>4. QED BY <1>2, <1>3

LEMMA ResumesAreNeedy ==
  ASSUME NEW cmd \in Resumes
  PROVE  cmd \in NeedsHalt /\ ~Excused(cmd)
BY DEF Resumes, NeedsHalt, Guarded, Excused

\* Sending: what needs a halt only while believing in one, and a resume drops the belief.
LEMMA HaltSend ==
  ASSUME TypeOK, HaltInv, NEW t, NEW cmd, NEW L, NEW I, Send(t, cmd, L, I),
         cmd \in NeedsHalt => isStopped \/ Excused(cmd),
         isStopped' => isStopped, cmd \in Resumes => ~isStopped',
         UNCHANGED <<fromDevice, dev>>
  PROVE  HaltInv'
<1>1. CASE ~open
  BY <1>1, HaltQuiet DEF Send
<1>2. CASE open
  <2> DEFINE m == [cmd |-> cmd, by |-> t, locs |-> L, ids |-> I]
  <2>1. toDevice' = Append(toDevice, m)
    BY <1>2 DEF Send
  <2>2. /\ Len(toDevice') = Len(toDevice) + 1 /\ Len(toDevice) \in Nat
        /\ \A i \in 1..Len(toDevice) : toDevice'[i] = toDevice[i]
        /\ toDevice'[Len(toDevice) + 1].cmd = cmd
    BY <2>1 DEF TypeOK
  <2>3. RunningHasNoToken'
    BY <2>2
  <2>4. BeliefIsTheOnlyToken'
    BY <2>2
  <2>5. StopOrResume'
    BY <2>2, ResumesAreNeedy
  <2>6. NothingNeedyBehindResume'
    BY <2>2
  <2>7. OneStop'
    OBVIOUS
  <2>8. QED BY <2>3, <2>4, <2>5, <2>6, <2>7
<1>3. QED BY <1>1, <1>2

LEMMA HaltWhenHalted ==
  ASSUME TypeOK, HaltInv, NEW t, NEW cmd \in NeedsHalt, WhenHalted(t, cmd),
         isStopped' => isStopped, cmd \in Resumes => ~isStopped',
         UNCHANGED <<fromDevice, dev>>
  PROVE  HaltInv'
<1>1. CASE isStopped
  BY <1>1, HaltSend DEF WhenHalted
<1>2. CASE ~isStopped
  BY <1>2, HaltQuiet DEF WhenHalted, Resolve
<1>3. QED BY <1>1, <1>2

LEMMA HaltResume ==
  ASSUME TypeOK, HaltInv, NEW t, NEW cmd \in Resumes, ResumeRequest(t, cmd),
         UNCHANGED <<fromDevice, dev>>
  PROVE  HaltInv'
BY HaltWhenHalted DEF ResumeRequest, NeedsHalt, Guarded

LEMMA HaltFlush ==
  ASSUME TypeOK, HaltInv, NEW t, StartFlush(t, isStopped), UNCHANGED <<isStopped, fromDevice, dev>>
  PROVE  HaltInv'
<1> DEFINE due == cached \ sent
<1>1. CASE isStopped /\ due # {}
  <2>1. Send(t, "AddBreakpoints", due, {})
    BY <1>1 DEF StartFlush
  <2>2. QED BY <1>1, <2>1, HaltSend DEF Resumes
<1>2. CASE ~(isStopped /\ due # {})
  <2>1. Resolve(t, "void")
    BY <1>2 DEF StartFlush
  <2>2. QED BY <2>1, HaltQuiet DEF Resolve
<1>3. QED BY <1>1, <1>2

\* Hanging up empties both streams.
LEMMA HaltDestroy == ASSUME HaltInv, Destroy, UNCHANGED dev PROVE HaltInv'
<1>1. /\ Len(toDevice') = 0 /\ Len(fromDevice') = 0
      /\ isStopped' = isStopped /\ dev' = dev
  BY DEF Destroy
<1>2. QED BY <1>1

LEMMA HaltCall ==
  ASSUME TypeOK, HaltInv, NEW c \in Callers, Call(c)
  PROVE  HaltInv'
<1>1. CASE Continue(c)
  BY <1>1, HaltResume DEF Continue, Resumes, devVars
<1>2. CASE Step(c)
  BY <1>2, HaltResume DEF Step, Resumes, devVars
<1>3. CASE Detach(c)
  BY <1>3, HaltResume DEF Detach, Resumes, devVars
<1>4. CASE Pause(c)
  <2>1. CASE isStopped
    BY <1>4, <2>1, HaltQuiet DEF Pause, Resolve, devVars
  <2>2. CASE ~isStopped
    <3>1. Send(c, "Stop", {}, {})
      BY <1>4, <2>2 DEF Pause
    <3>2. QED BY <1>4, <3>1, HaltSend DEF Pause, NeedsHalt, Guarded, Resumes, devVars
  <2>3. QED BY <2>1, <2>2
<1>5. CASE Inspect(c)
  BY <1>5, HaltWhenHalted DEF Inspect, NeedsHalt, Guarded, Resumes, devVars
<1>6. ASSUME NEW L \in SUBSET Locs, AddBreakpoints(c, L)
      PROVE  HaltInv'
  <2>1. CASE isStopped
    <3>1. Send(c, "AddBreakpoints", L, {})
      BY <1>6, <2>1 DEF AddBreakpoints
    <3>2. QED BY <1>6, <2>1, <3>1, HaltSend DEF AddBreakpoints, Resumes, devVars
  <2>2. CASE ~isStopped
    BY <1>6, <2>2, HaltQuiet DEF AddBreakpoints, devVars
  <2>3. QED BY <2>1, <2>2
<1>7. ASSUME NEW L \in SUBSET Locs, RemoveBreakpoints(c, L)
      PROVE  HaltInv'
  <2> DEFINE ids == {bpId[l] : l \in L} \ {0}
  <2>1. CASE ids = {}
    BY <1>7, <2>1, HaltQuiet DEF RemoveBreakpoints, devVars
  <2>2. CASE ids # {}
    <3>1. Send(c, "RemoveBreakpoints", {}, ids)
      BY <1>7, <2>2 DEF RemoveBreakpoints
    <3>2. QED BY <1>7, <3>1, HaltSend DEF RemoveBreakpoints, NeedsHalt, Guarded, Resumes, devVars
  <2>3. QED BY <2>1, <2>2
<1>8. QED BY <1>1, <1>2, <1>3, <1>4, <1>5, <1>6, <1>7 DEF Call

LEMMA HaltRetry ==
  ASSUME TypeOK, HaltInv, NEW t, RetryDue(t), RetryVariables(t)
  PROVE  HaltInv'
<1>1. Excused("VariablesRetry") /\ "VariablesRetry" \notin Resumes
  BY DEF RetryDue, Excused, Resumes
<1>2. Send(t, "VariablesRetry", {}, {}) /\ UNCHANGED <<isStopped, fromDevice, dev>>
  BY DEF RetryVariables, devVars
<1>3. QED BY <1>1, <1>2, HaltSend

LEMMA HaltTasks ==
  ASSUME TypeOK, HaltInv,
         (\E c \in Callers : CallerStep(c)) \/ (\E h \in Handlers : HandlerStep(h))
  PROVE  HaltInv'
<1>1. ASSUME NEW t, Return(t)
      PROVE  HaltInv'
  BY <1>1, HaltQuiet DEF Return, clientVars, devVars
<1>2. ASSUME NEW c \in Callers, CallerStep(c)
      PROVE  HaltInv'
  <2>1. CASE DetachDone(c)
    BY <2>1, HaltDestroy DEF DetachDone, devVars
  <2>2. CASE RetryDue(c) /\ RetryVariables(c)
    BY <2>2, HaltRetry
  <2>3. CASE ~DetachDone(c) /\ ~(RetryDue(c) /\ RetryVariables(c))
    BY <1>1, <1>2, <2>3 DEF CallerStep, CallAnswered, ResumeDone, StepDone, AddDone, CallDone
  <2>4. QED BY <2>1, <2>2, <2>3
<1>3. ASSUME NEW h \in Handlers, HandlerStep(h)
      PROVE  HaltInv'
  <2>1. CASE GraceOver(h)
    BY <2>1, HaltFlush DEF GraceOver, devVars
  <2>2. CASE AutoContinue(h)
    BY <2>2, HaltResume DEF AutoContinue, Resumes, devVars
  <2>3. CASE EntryDone(h) \/ PublishStop(h)
    BY <1>1, <2>3 DEF EntryDone, PublishStop
  <2>4. CASE AskThreads(h)
    BY <2>4, HaltWhenHalted DEF AskThreads, NeedsHalt, Guarded, Resumes, devVars
  <2>5. CASE AskStack(h)
    BY <2>5, HaltWhenHalted DEF AskStack, NeedsHalt, Guarded, Resumes, devVars
  <2>6. CASE AskVariables(h)
    BY <2>6, HaltWhenHalted DEF AskVariables, NeedsHalt, Guarded, Resumes, devVars
  <2>7. CASE RetryDue(h) /\ RetryVariables(h)
    BY <2>7, HaltRetry
  <2>8. QED BY <1>3, <2>1, <2>2, <2>3, <2>4, <2>5, <2>6, <2>7 DEF HandlerStep, VariablesAnswered
<1>4. QED BY <1>2, <1>3

\* Receiving.  A stop that arrives was the only token, and becomes the belief.
LEMMA HaltReceive ==
  ASSUME TypeOK, HaltInv, Receive
  PROVE  HaltInv'
<1>1. ASSUME NextMessage
      PROVE  /\ Len(fromDevice) \in Nat /\ Len(fromDevice) > 0
             /\ Len(fromDevice') = Len(fromDevice) - 1
             /\ Head(fromDevice) = fromDevice[1]
             /\ \A i \in 1..Len(fromDevice') : fromDevice'[i] = fromDevice[i + 1]
  BY <1>1 DEF NextMessage, TypeOK
<1>2. CASE Response
  <2>1. NextMessage
    BY <1>2 DEF Response
  <2>2. toDevice' = toDevice /\ isStopped' = isStopped /\ dev' = dev
    BY <1>2 DEF Response, devVars
  <2>3. \A i \in 1..Len(fromDevice') : i + 1 \in 1..Len(fromDevice)
    BY <1>1, <2>1
  <2>4. \A i \in 1..Len(fromDevice') : fromDevice'[i] = fromDevice[i + 1]
    BY <1>1, <2>1
  <2>5. RunningHasNoToken' /\ BeliefIsTheOnlyToken' /\ StopOrResume'
    BY <2>2, <2>3, <2>4
  <2>6. NothingNeedyBehindResume'
    BY <2>2
  <2>7. OneStop'
    <3>1. \A i, j \in 1..Len(fromDevice') : i + 1 = j + 1 => i = j
      OBVIOUS
    <3>2. QED BY <2>3, <2>4, <3>1
  <2>8. QED BY <2>5, <2>6, <2>7
<1>3. ASSUME NextMessage, Head(fromDevice).kind = "stop"
      PROVE  /\ dev # "running" /\ ~isStopped
             /\ \A i \in 1..Len(fromDevice') : fromDevice'[i].kind # "stop"
             /\ \A i \in 1..Len(toDevice) : ~IsResume(i)
  <2>1. 1 \in 1..Len(fromDevice) /\ IsStop(1)
    BY <1>1, <1>3
  <2>2. \A i \in 1..Len(fromDevice') : i + 1 \in 1..Len(fromDevice) /\ i + 1 # 1
    BY <1>1, <1>3
  <2>3. QED BY <1>1, <1>3, <2>1, <2>2
<1>4. ASSUME NextMessage, Head(fromDevice).kind = "stop",
             UNCHANGED <<toDevice, dev>>
      PROVE  HaltInv'
  BY <1>3, <1>4
<1>5. CASE SilentStop
  BY <1>4, <1>5 DEF SilentStop, devVars
<1>6. ASSUME NEW h \in Handlers, EntrySuspend(h)
      PROVE  HaltInv'
  BY <1>4, <1>6 DEF EntrySuspend, devVars
<1>7. ASSUME NEW h \in Handlers, ReportStop(h)
      PROVE  HaltInv'
  <2> DEFINE due == cached \ sent
             m == [cmd |-> "AddBreakpoints", by |-> h, locs |-> due, ids |-> {}]
  <2>1. toDevice' = toDevice \/ toDevice' = Append(toDevice, m)
    BY <1>7 DEF ReportStop, StartFlush, Send, Resolve
  <2>2. CASE toDevice' = toDevice
    BY <1>4, <1>7, <2>2 DEF ReportStop, devVars
  <2>3. CASE toDevice' = Append(toDevice, m)
    <3>1. /\ Len(toDevice') = Len(toDevice) + 1 /\ Len(toDevice) \in Nat
          /\ \A i \in 1..Len(toDevice) : toDevice'[i] = toDevice[i]
          /\ toDevice'[Len(toDevice) + 1].cmd \notin Resumes
      BY <2>3 DEF TypeOK, Resumes
    <3>2. \A i \in 1..Len(toDevice') : toDevice'[i].cmd \notin Resumes
      BY <1>3, <1>7, <3>1 DEF ReportStop
    <3>3. /\ dev' # "running" /\ \A i \in 1..Len(fromDevice') : fromDevice'[i].kind # "stop"
      BY <1>3, <1>7 DEF ReportStop, devVars
    <3>4. QED BY <3>2, <3>3
  <2>4. QED BY <2>1, <2>2, <2>3
<1>8. QED BY <1>2, <1>5, <1>6, <1>7 DEF Receive

\* The device takes a request off the stream: what remains keeps its order.
LEMMA Served ==
  ASSUME TypeOK, toDevice # <<>>, toDevice' = Tail(toDevice)
  PROVE  /\ Len(toDevice) \in Nat /\ Len(toDevice) > 0
         /\ Len(toDevice') = Len(toDevice) - 1
         /\ Head(toDevice) = toDevice[1]
         /\ \A i \in 1..Len(toDevice') : toDevice'[i] = toDevice[i + 1]
         /\ \A i \in 1..Len(toDevice') : i + 1 \in 1..Len(toDevice)
BY DEF TypeOK

\* The device appends a message that announces no stop.
LEMMA Replied ==
  ASSUME TypeOK, NEW m, m.kind # "stop", fromDevice' = Append(fromDevice, m)
  PROVE  /\ Len(fromDevice) \in Nat /\ Len(fromDevice') = Len(fromDevice) + 1
         /\ \A i \in 1..Len(fromDevice) : fromDevice'[i] = fromDevice[i]
         /\ \A i \in 1..Len(fromDevice') :
              fromDevice'[i].kind = "stop" => i \in 1..Len(fromDevice) /\ IsStop(i)
BY DEF TypeOK

\* Serving a request without a change of the device's state creates no token.
LEMMA HaltServe ==
  ASSUME TypeOK, HaltInv, toDevice # <<>>, toDevice' = Tail(toDevice),
         NEW m, m.kind # "stop", fromDevice' = Append(fromDevice, m),
         UNCHANGED <<isStopped, dev>>
  PROVE  HaltInv'
<1>1. isStopped' = isStopped /\ dev' = dev
  OBVIOUS
<1>2. RunningHasNoToken'
  BY <1>1, Served, Replied
<1>3. BeliefIsTheOnlyToken'
  BY <1>1, Served, Replied
<1>4. StopOrResume'
  BY Served, Replied
<1>5. NothingNeedyBehindResume'
  BY Served
<1>6. OneStop'
  BY Replied
<1>7. QED BY <1>2, <1>3, <1>4, <1>5, <1>6

\* A running device halts: its announcement becomes the only token.
LEMMA HaltAnnounced ==
  ASSUME HaltInv, dev = "running", dev' # "running", isStopped' = isStopped,
         NEW n \in Nat, Len(fromDevice') = n,
         \A i \in 1..Len(fromDevice') : fromDevice'[i].kind = "stop" => i = n,
         \A j \in 1..Len(toDevice') : toDevice'[j].cmd \notin Resumes
  PROVE  HaltInv'
<1>1. ~isStopped'
  OBVIOUS
<1>2. RunningHasNoToken' /\ BeliefIsTheOnlyToken' /\ StopOrResume' /\ NothingNeedyBehindResume'
  BY <1>1
<1>3. OneStop'
  OBVIOUS
<1>4. QED BY <1>2, <1>3

LEMMA TwoAppended ==
  ASSUME NEW S, NEW s \in Seq(S), NEW x, NEW y, NEW g, NEW r,
         g = Append(s, x), r = Append(g, y)
  PROVE  /\ Len(s) \in Nat /\ Len(r) = Len(s) + 2
         /\ \A i \in 1..Len(s) : r[i] = s[i]
         /\ r[Len(s) + 1] = x
OBVIOUS

LEMMA HaltDevice ==
  ASSUME TypeOK, HaltInv, LateAttach = FALSE, Device
  PROVE  HaltInv'
<1>1. ASSUME NEW why \in Reasons, DeviceHalt(why)
      PROVE  HaltInv'
  <2>1. /\ dev = "running" /\ dev' # "running" /\ isStopped' = isStopped
        /\ toDevice' = toDevice
        /\ fromDevice' = Append(fromDevice, [kind |-> "stop", why |-> why])
    BY <1>1 DEF DeviceHalt, DeviceUnchanged
  <2>2. /\ Len(fromDevice) \in Nat /\ Len(fromDevice') = Len(fromDevice) + 1
        /\ \A i \in 1..Len(fromDevice) : fromDevice'[i] = fromDevice[i]
    BY <2>1 DEF TypeOK
  <2>3. \A i \in 1..Len(fromDevice') : fromDevice'[i].kind = "stop" => i = Len(fromDevice) + 1
    BY <2>1, <2>2
  <2>4. \A j \in 1..Len(toDevice') : toDevice'[j].cmd \notin Resumes
    BY <2>1, ResumesAreNeedy
  <2>5. QED BY <2>1, <2>2, <2>3, <2>4, HaltAnnounced
<1>2. CASE DeviceResume
  <2> DEFINE m == ReplyTo(Head(toDevice).by, TRUE, NoIds)
  <2>1. /\ toDevice # <<>> /\ toDevice' = Tail(toDevice)
        /\ Head(toDevice).cmd \in Resumes
        /\ isStopped' = isStopped /\ dev' = "running"
        /\ m.kind # "stop" /\ fromDevice' = Append(fromDevice, m)
    BY <1>2 DEF DeviceResume, Serve, DeviceUnchanged, ReplyTo
  <2>2. 1 \in 1..Len(toDevice) /\ IsResume(1)
    BY <2>1, Served
  <2>3. ~isStopped' /\ \A i \in 1..Len(fromDevice') : fromDevice'[i].kind # "stop"
    BY <2>1, <2>2, Replied
  <2>4. \A i \in 1..Len(toDevice') : toDevice'[i].cmd \notin NeedsHalt \/ Excused(toDevice'[i].cmd)
    BY <2>1, <2>2, Served
  <2>5. QED BY <2>3, <2>4, ResumesAreNeedy
<1>3. CASE DeviceRefuse
  <2>1. ReplyTo(Head(toDevice).by, FALSE, NoIds).kind # "stop"
    BY DEF ReplyTo
  <2>2. QED BY <1>3, <2>1, HaltServe DEF DeviceRefuse, Serve, DeviceUnchanged, devVars
<1>4. CASE DeviceRemove \/ DeviceInspect
  <2>1. ReplyTo(Head(toDevice).by, TRUE, NoIds).kind # "stop"
    BY DEF ReplyTo
  <2>2. QED BY <1>4, <2>1, HaltServe
            DEF DeviceRemove, DeviceInspect, Serve, DeviceUnchanged, devVars
<1>5. CASE DeviceAdd
  <2>1. PICK ids : fromDevice' = Append(fromDevice, ReplyTo(Head(toDevice).by, TRUE, ids))
    BY <1>5 DEF DeviceAdd
  <2>2. ReplyTo(Head(toDevice).by, TRUE, ids).kind # "stop"
    BY DEF ReplyTo
  <2>3. QED BY <1>5, <2>1, <2>2, HaltServe DEF DeviceAdd, Serve, DeviceUnchanged
<1>6. CASE DevicePause
  <2> DEFINE ack == ReplyTo(Head(toDevice).by, TRUE, NoIds)
             note == [kind |-> "stop", why |-> "suspend"]
  <2>1. /\ toDevice # <<>> /\ toDevice' = Tail(toDevice)
        /\ isStopped' = isStopped /\ ack.kind # "stop"
    BY <1>6 DEF DevicePause, Serve, DeviceUnchanged, ReplyTo
  <2>2. CASE dev = "running" /\ SpareHandler
    <3>1. dev' = "halted" /\ fromDevice' = Append(Append(fromDevice, ack), note)
      BY <1>6, <2>2 DEF DevicePause
    <3> DEFINE acked == Append(fromDevice, ack)
    <3>2. fromDevice' = Append(acked, note) /\ acked = Append(fromDevice, ack)
      BY <3>1, Zenon
    <3> HIDE DEF acked
    <3>3. /\ Len(fromDevice) \in Nat /\ Len(fromDevice') = Len(fromDevice) + 2
          /\ \A i \in 1..Len(fromDevice) : fromDevice'[i] = fromDevice[i]
          /\ fromDevice'[Len(fromDevice) + 1] = ack
      <4>1. PICK S : fromDevice \in Seq(S)
        BY DEF TypeOK
      <4> HIDE DEF ack, note
      <4>2. \A r : r = Append(acked, note) =>
              /\ Len(fromDevice) \in Nat /\ Len(r) = Len(fromDevice) + 2
              /\ \A i \in 1..Len(fromDevice) : r[i] = fromDevice[i]
              /\ r[Len(fromDevice) + 1] = ack
        BY <3>2, <4>1, TwoAppended
      <4>3. QED BY <3>2, <4>2
    <3>4. ASSUME NEW i \in 1..Len(fromDevice'), fromDevice'[i].kind = "stop"
          PROVE  i = Len(fromDevice) + 2
      <4>1. i \notin 1..Len(fromDevice)
        BY <2>2, <3>3, <3>4
      <4>2. i # Len(fromDevice) + 1
        BY <2>1, <3>3, <3>4
      <4>3. QED BY <3>3, <4>1, <4>2
    <3>5. \A j \in 1..Len(toDevice') : toDevice'[j].cmd \notin Resumes
      BY <2>1, <2>2, Served, ResumesAreNeedy
    <3>6. Len(fromDevice) + 2 \in Nat
      BY <3>3
    <3>7. QED BY <2>1, <2>2, <3>1, <3>3, <3>4, <3>5, <3>6, HaltAnnounced
  <2>3. CASE ~(dev = "running" /\ SpareHandler)
    <3>1. fromDevice' = Append(fromDevice, ack) /\ dev' = dev
      BY <1>6, <2>3 DEF DevicePause
    <3>2. QED BY <2>1, <3>1, HaltServe
  <2>4. QED BY <2>2, <2>3
<1>7. QED BY <1>1, <1>2, <1>3, <1>4, <1>5, <1>6 DEF Device

LEMMA HaltInit == ASSUME Init PROVE HaltInv
BY DEF Init

LEMMA HaltNext ==
  ASSUME TypeOK, HaltInv, LateAttach = FALSE, [Next]_vars
  PROVE  HaltInv'
<1>1. CASE \E c \in Callers : Call(c) \/ CallerStep(c)
  BY <1>1, HaltCall, HaltTasks
<1>2. CASE \E h \in Handlers : HandlerStep(h)
  BY <1>2, HaltTasks
<1>3. CASE Receive
  BY <1>3, HaltReceive
<1>4. CASE SessionEnd
  BY <1>4, HaltDestroy DEF SessionEnd, devVars
<1>5. CASE Device
  BY <1>5, HaltDevice
<1>6. CASE UNCHANGED vars
  BY <1>6, HaltQuiet DEF vars, clientVars, devVars
<1>7. QED BY <1>1, <1>2, <1>3, <1>4, <1>5, <1>6 DEF Next

\* Whatever needs a halted device is served by one, save the retry of getVariables
\* on an old protocol, for any number of callers, handlers and locations and
\* whatever the device refuses, if it announces one stop per halt.
THEOREM HaltedAtReceiptHolds ==
  ASSUME IsFiniteSet(Locs), LateAttach = FALSE
  PROVE  Spec => []HaltedAtReceipt
<1>1. TypeOK /\ HaltInv /\ [Next]_vars => HaltInv'
  BY HaltNext
<1>2. Spec => []HaltInv
  BY TypeCorrect, HaltInit, <1>1, PTL DEF Spec
<1>3. QED BY TypeCorrect, <1>2, HaltInvImplies, PTL

HIDE DEF HaltInv, RunningHasNoToken, BeliefIsTheOnlyToken, StopOrResume,
         NothingNeedyBehindResume, OneStop, IsStop, IsResume, Needy

-----------------------------------------------------------------------------
(***************************************************************************)
(* A session in the map.  It has its socket, so no request of it has been  *)
(* rejected, and it has not been detached.                                 *)
(***************************************************************************)
LiveInv ==
  live => /\ open
          /\ \A t \in Tasks : answer[t] # "reject" /\ pc[t] # "detach"

\* What the sending helpers leave in answer while the socket is open.
LEMMA Accepted ==
  ASSUME TypeOK, open, NEW t \in Tasks, NEW u \in Tasks, answer[u] # "reject",
         \/ \E cmd, L, I : Send(t, cmd, L, I)
         \/ \E a \in {"void", "none", "ok"} : Resolve(t, a)
         \/ \E cmd : WhenHalted(t, cmd)
         \/ \E b : StartFlush(t, b)
  PROVE  answer'[u] # "reject"
<1>0. answer \in [Tasks -> Answers]
  BY DEF TypeOK
<1>1. ASSUME NEW a \in {"void", "none", "ok"}, answer' = [answer EXCEPT ![t] = a]
      PROVE  answer'[u] # "reject"
  BY <1>0, <1>1
<1>2. ASSUME NEW cmd, NEW L, NEW I, Send(t, cmd, L, I) PROVE answer'[u] # "reject"
  BY <1>1, <1>2 DEF Send
<1>3. ASSUME NEW a \in {"void", "none", "ok"}, Resolve(t, a) PROVE answer'[u] # "reject"
  BY <1>1, <1>3 DEF Resolve
<1>4. ASSUME NEW cmd, WhenHalted(t, cmd) PROVE answer'[u] # "reject"
  BY <1>2, <1>3, <1>4 DEF WhenHalted
<1>5. ASSUME NEW b, StartFlush(t, b) PROVE answer'[u] # "reject"
  BY <1>2, <1>3, <1>5 DEF StartFlush
<1>6. QED BY <1>2, <1>3, <1>4, <1>5

LEMMA Went ==
  ASSUME TypeOK, NEW t, NEW l, l # "detach", Goto(t, l) \/ UNCHANGED pc,
         NEW u \in Tasks, pc[u] # "detach"
  PROVE  pc'[u] # "detach"
BY DEF TypeOK, Goto

LEMMA LiveCall ==
  ASSUME TypeOK, LiveInv, live', NEW c \in Callers, Call(c)
  PROVE  LiveInv'
<1>0. c \in Tasks
  BY DEF Tasks
<1>1. live /\ open /\ \A u \in Tasks : answer[u] # "reject" /\ pc[u] # "detach"
  BY DEF LiveInv, Call, CanCall, Continue, Step, Pause, Inspect, AddBreakpoints, RemoveBreakpoints,
     Detach
<1>2. SUFFICES /\ open'
               /\ \A u \in Tasks : answer'[u] # "reject"
               /\ \A u \in Tasks : pc'[u] # "detach"
  BY DEF LiveInv
<1>3. CASE Continue(c) \/ Step(c)
  BY <1>0, <1>1, <1>3, Accepted, Went DEF Continue, Step, ResumeRequest
<1>4. CASE Pause(c)
  BY <1>0, <1>1, <1>4, Accepted, Went DEF Pause
<1>5. CASE Inspect(c)
  BY <1>0, <1>1, <1>5, Accepted, Went DEF Inspect
<1>6. CASE Detach(c)
  BY <1>6 DEF Detach
<1>7. ASSUME NEW L \in SUBSET Locs, AddBreakpoints(c, L)
      PROVE  /\ open'
             /\ \A u \in Tasks : answer'[u] # "reject"
             /\ \A u \in Tasks : pc'[u] # "detach"
  <2>1. CASE isStopped
    BY <1>0, <1>1, <1>7, <2>1, Accepted, Went DEF AddBreakpoints
  <2>2. CASE ~isStopped
    BY <1>1, <1>7, <2>2 DEF AddBreakpoints
  <2>3. QED BY <2>1, <2>2
<1>8. ASSUME NEW L \in SUBSET Locs, RemoveBreakpoints(c, L)
      PROVE  /\ open'
             /\ \A u \in Tasks : answer'[u] # "reject"
             /\ \A u \in Tasks : pc'[u] # "detach"
  <2> DEFINE ids == {bpId[l] : l \in L} \ {0}
  <2>0. open' = open
    BY <1>8 DEF RemoveBreakpoints
  <2>1. CASE ids = {}
    BY <1>1, <1>8, <2>0, <2>1 DEF RemoveBreakpoints
  <2>2. CASE ids # {}
    <3>1. Send(c, "RemoveBreakpoints", {}, ids) /\ Goto(c, "remove")
      BY <1>8, <2>2 DEF RemoveBreakpoints
    <3>2. QED BY <1>0, <1>1, <2>0, <3>1, Accepted, Went
  <2>3. QED BY <2>1, <2>2
<1>9. QED BY <1>3, <1>4, <1>5, <1>6, <1>7, <1>8 DEF Call

LEMMA LiveTasks ==
  ASSUME TypeOK, LiveInv, live',
         (\E c \in Callers : CallerStep(c)) \/ (\E h \in Handlers : HandlerStep(h))
  PROVE  LiveInv'
<1>1. live
  BY DEF CallerStep, HandlerStep, ResumeDone, StepDone, AddDone, CallDone, DetachDone, Return,
     CallAnswered, VariablesAnswered, RetryVariables, GraceOver, AutoContinue, EntryDone, AskThreads, AskStack, AskVariables,
     PublishStop, sessionVars
<1>2. open /\ \A u \in Tasks : answer[u] # "reject" /\ pc[u] # "detach"
  BY <1>1 DEF LiveInv
<1>3. SUFFICES /\ open'
               /\ \A u \in Tasks : answer'[u] # "reject"
               /\ \A u \in Tasks : pc'[u] # "detach"
  BY DEF LiveInv
<1>4. ASSUME NEW t \in Tasks, Return(t)
      PROVE  /\ open'
             /\ \A u \in Tasks : answer'[u] # "reject"
             /\ \A u \in Tasks : pc'[u] # "detach"
  BY <1>2, <1>4, Went DEF Return, clientVars, TypeOK
<1>4a. ASSUME NEW t \in Tasks, RetryVariables(t)
      PROVE  /\ open'
             /\ \A u \in Tasks : answer'[u] # "reject"
             /\ \A u \in Tasks : pc'[u] # "detach"
  BY <1>2, <1>4a, Accepted, Went DEF RetryVariables
<1>5. ASSUME NEW c \in Callers, CallerStep(c)
      PROVE  c \in Tasks /\ (Return(c) \/ RetryVariables(c))
  BY <1>2, <1>5 DEF CallerStep, CallAnswered, ResumeDone, StepDone, AddDone, CallDone, DetachDone, Tasks
<1>6. ASSUME NEW h \in Handlers, HandlerStep(h)
      PROVE  /\ open'
             /\ \A u \in Tasks : answer'[u] # "reject"
             /\ \A u \in Tasks : pc'[u] # "detach"
  <2>0. h \in Tasks
    BY DEF Tasks
  <2>1. CASE GraceOver(h)
    BY <1>2, <2>0, <2>1, Accepted, Went DEF GraceOver
  <2>2. CASE AutoContinue(h)
    BY <1>2, <2>0, <2>2, Accepted, Went DEF AutoContinue, ResumeRequest
  <2>3. CASE EntryDone(h) \/ PublishStop(h)
    BY <1>4, <2>0, <2>3 DEF EntryDone, PublishStop
  <2>4. CASE AskThreads(h)
    BY <1>2, <2>0, <2>4, Accepted, Went DEF AskThreads
  <2>5. CASE AskStack(h)
    BY <1>2, <2>0, <2>5, Accepted, Went DEF AskStack
  <2>6. CASE AskVariables(h)
    BY <1>2, <2>0, <2>6, Accepted, Went DEF AskVariables
  <2>7. CASE RetryVariables(h)
    BY <1>4a, <2>0, <2>7
  <2>8. QED BY <1>6, <2>1, <2>2, <2>3, <2>4, <2>5, <2>6, <2>7 DEF HandlerStep, VariablesAnswered
<1>7. QED BY <1>4, <1>4a, <1>5, <1>6

LEMMA LiveReceive ==
  ASSUME TypeOK, LiveInv, live', Receive
  PROVE  LiveInv'
<1>1. live /\ open' = open
  BY DEF Receive, Response, SilentStop, EntrySuspend, ReportStop, sessionVars
<1>2. open /\ \A u \in Tasks : answer[u] # "reject" /\ pc[u] # "detach"
  BY <1>1 DEF LiveInv
<1>3. CASE Response
  <2>1. \A u \in Tasks : answer'[u] # "reject"
    BY <1>2, <1>3 DEF Response, TypeOK
  <2>2. QED BY <1>1, <1>2, <1>3, <2>1 DEF Response, LiveInv
<1>4. CASE SilentStop
  BY <1>1, <1>2, <1>4 DEF SilentStop, taskVars, LiveInv
<1>5. ASSUME NEW h \in Handlers, EntrySuspend(h) PROVE LiveInv'
  BY <1>1, <1>2, <1>5, Went DEF EntrySuspend, LiveInv
<1>6. ASSUME NEW h \in Handlers, ReportStop(h) PROVE LiveInv'
  <2>1. h \in Tasks /\ StartFlush(h, TRUE) /\ Goto(h, "flush")
    BY <1>6 DEF ReportStop, Tasks
  <2>2. QED BY <1>1, <1>2, <2>1, Accepted, Went DEF LiveInv
<1>7. QED BY <1>3, <1>4, <1>5, <1>6 DEF Receive

LEMMA DeviceLeaves ==
  ASSUME Device
  PROVE  UNCHANGED <<open, isStopped, pending, reading, sessionVars, bpVars, taskVars>>
BY DEF Device, DeviceHalt, DeviceResume, DeviceRefuse, DevicePause, DeviceAdd,
   DeviceRemove, DeviceInspect, Serve, DeviceUnchanged

LEMMA LiveNext ==
  ASSUME TypeOK, LiveInv, [Next]_vars
  PROVE  LiveInv'
<1> SUFFICES ASSUME live' PROVE LiveInv'
  BY DEF LiveInv
<1>1. CASE \E c \in Callers : Call(c) \/ CallerStep(c)
  BY <1>1, LiveCall, LiveTasks
<1>2. CASE \E h \in Handlers : HandlerStep(h)
  BY <1>2, LiveTasks
<1>3. CASE Receive
  BY <1>3, LiveReceive
<1>4. CASE SessionEnd
  BY <1>4 DEF SessionEnd
<1>5. CASE Device
  BY <1>5, DeviceLeaves DEF LiveInv, sessionVars, taskVars
<1>6. CASE UNCHANGED vars
  BY <1>6 DEF LiveInv, vars, clientVars, sessionVars, taskVars
<1>7. QED BY <1>1, <1>2, <1>3, <1>4, <1>5, <1>6 DEF Next

LEMMA LiveInit == ASSUME Init PROVE LiveInv
BY DEF Init, LiveInv

-----------------------------------------------------------------------------
(***************************************************************************)
(* What is shown of a halt.  The first stop is the entry halt, and nothing *)
(* is resumed before it was handled; an announcement tells the state of    *)
(* the device; and while a halt is believed in, no resumer's snapshot is   *)
(* fresh, so none of them can take "stopped" back.                         *)
(***************************************************************************)
EntryFirst ==
  ~entryHandled => /\ ~isStopped /\ dev = "entry"
                   /\ \A i \in 1..Len(toDevice) : ~IsResume(i)

StopTellsDevice ==
  \A i \in 1..Len(fromDevice) : IsStop(i) =>
    /\ fromDevice[i].why = "other" => dev = "silent"
    /\ fromDevice[i].why = "runtime-error" => dev = "halted"
    /\ fromDevice[i].why = "suspend" => dev \in {"entry", "halted"}

HaltIsShown == isStopped /\ dev = "halted" => state = "stopped" /\ fresh = {}

ShowInv == EntryFirst /\ StopTellsDevice /\ HaltIsShown

\* A step that leaves the streams, or adds a request that is no resume.
LEMMA ShowQuiet ==
  ASSUME TypeOK, ShowInv, UNCHANGED <<fromDevice, dev, entryHandled>>,
         \/ UNCHANGED toDevice
         \/ \E m : toDevice' = Append(toDevice, m) /\ (m.cmd \in Resumes => isStopped)
         \/ Len(toDevice') = 0,
         isStopped' => isStopped /\ state' = state /\ fresh' \subseteq fresh
  PROVE  ShowInv'
<1>1. EntryFirst'
  <2>1. SUFFICES ASSUME ~entryHandled PROVE EntryFirst'
    BY DEF EntryFirst
  <2>2. ~isStopped /\ dev = "entry" /\ \A i \in 1..Len(toDevice) : toDevice[i].cmd \notin Resumes
    BY <2>1 DEF ShowInv, EntryFirst, IsResume
  <2>3. \A i \in 1..Len(toDevice') : toDevice'[i].cmd \notin Resumes
    <3>1. CASE UNCHANGED toDevice
      BY <2>2, <3>1
    <3>2. ASSUME NEW m, toDevice' = Append(toDevice, m), m.cmd \notin Resumes
          PROVE  \A i \in 1..Len(toDevice') : toDevice'[i].cmd \notin Resumes
      <4>1. toDevice \in Seq(Request)
        BY DEF TypeOK
      <4>2. /\ Len(toDevice') = Len(toDevice) + 1 /\ Len(toDevice) \in Nat
            /\ \A i \in 1..Len(toDevice) : toDevice'[i] = toDevice[i]
            /\ toDevice'[Len(toDevice) + 1] = m
        BY <3>2, <4>1
      <4>3. QED BY <2>2, <3>2, <4>2
    <3>3. CASE Len(toDevice') = 0
      BY <3>3
    <3>4. QED BY <2>2, <3>1, <3>2, <3>3
  <2>4. QED BY <2>2, <2>3 DEF EntryFirst, IsResume
<1>2. StopTellsDevice'
  BY DEF ShowInv, StopTellsDevice, IsStop
<1>3. HaltIsShown'
  BY DEF ShowInv, HaltIsShown
<1>4. QED BY <1>1, <1>2, <1>3 DEF ShowInv

LEMMA ShowSend ==
  ASSUME TypeOK, ShowInv, NEW t, NEW cmd, NEW L, NEW I, Send(t, cmd, L, I),
         cmd \notin Resumes, UNCHANGED <<fromDevice, dev, entryHandled>>,
         isStopped' => isStopped /\ state' = state /\ fresh' \subseteq fresh
  PROVE  ShowInv'
<1> DEFINE m == [cmd |-> cmd, by |-> t, locs |-> L, ids |-> I]
<1>1. m.cmd \notin Resumes
  OBVIOUS
<1>2. UNCHANGED toDevice \/ toDevice' = Append(toDevice, m)
  BY DEF Send
<1>3. QED BY <1>1, <1>2, ShowQuiet

LEMMA ShowAsk ==
  ASSUME TypeOK, ShowInv, NEW t, NEW cmd, WhenHalted(t, cmd),
         cmd \notin Resumes, UNCHANGED <<fromDevice, dev, entryHandled>>,
         isStopped' => isStopped /\ state' = state /\ fresh' \subseteq fresh
  PROVE  ShowInv'
<1>1. CASE isStopped
  BY <1>1, ShowSend DEF WhenHalted
<1>2. CASE ~isStopped
  BY <1>2, ShowQuiet DEF WhenHalted, Resolve
<1>3. QED BY <1>1, <1>2

\* A resume is sent only by a client that believes in a halt, and gives the belief up.
LEMMA ShowResume ==
  ASSUME TypeOK, ShowInv, NEW t, NEW cmd \in Resumes, ResumeRequest(t, cmd),
         UNCHANGED <<fromDevice, dev, entryHandled>>
  PROVE  ShowInv'
<1> DEFINE m == [cmd |-> cmd, by |-> t, locs |-> {}, ids |-> {}]
<1>1. ~isStopped'
  BY DEF ResumeRequest
<1>2. UNCHANGED toDevice \/ (toDevice' = Append(toDevice, m) /\ isStopped)
  BY DEF ResumeRequest, WhenHalted, Send, Resolve
<1>3. m.cmd \in Resumes => isStopped \/ UNCHANGED toDevice
  BY <1>2
<1>4. QED BY <1>1, <1>2, ShowQuiet

LEMMA ShowFlush ==
  ASSUME TypeOK, ShowInv, NEW t, NEW b, StartFlush(t, b),
         UNCHANGED <<fromDevice, dev, entryHandled>>,
         isStopped' => isStopped /\ state' = state /\ fresh' \subseteq fresh
  PROVE  ShowInv'
<1>1. CASE b /\ cached \ sent # {}
  BY <1>1, ShowSend DEF StartFlush, Resumes
<1>2. CASE ~(b /\ cached \ sent # {})
  BY <1>2, ShowQuiet DEF StartFlush, Resolve
<1>3. QED BY <1>1, <1>2

LEMMA ShowCall ==
  ASSUME TypeOK, ShowInv, NEW c \in Callers, Call(c)
  PROVE  ShowInv'
<1>1. CASE Continue(c)
  BY <1>1, ShowResume DEF Continue, Resumes, devVars
<1>2. CASE Step(c)
  BY <1>2, ShowResume DEF Step, Resumes, devVars
<1>3. CASE Detach(c)
  BY <1>3, ShowResume DEF Detach, Resumes, devVars
<1>4. CASE Pause(c)
  <2>1. CASE isStopped
    BY <1>4, <2>1, ShowQuiet DEF Pause, Resolve, devVars, sessionVars
  <2>2. CASE ~isStopped
    <3>1. Send(c, "Stop", {}, {})
      BY <1>4, <2>2 DEF Pause
    <3>2. QED BY <1>4, <3>1, ShowSend DEF Pause, Resumes, devVars, sessionVars
  <2>3. QED BY <2>1, <2>2
<1>5. CASE Inspect(c)
  BY <1>5, ShowAsk DEF Inspect, Resumes, devVars, sessionVars
<1>6. ASSUME NEW L \in SUBSET Locs, AddBreakpoints(c, L)
      PROVE  ShowInv'
  <2>1. CASE isStopped
    <3>1. Send(c, "AddBreakpoints", L, {})
      BY <1>6, <2>1 DEF AddBreakpoints
    <3>2. QED BY <1>6, <3>1, ShowSend DEF AddBreakpoints, Resumes, devVars, sessionVars
  <2>2. CASE ~isStopped
    BY <1>6, <2>2, ShowQuiet DEF AddBreakpoints, devVars, sessionVars
  <2>3. QED BY <2>1, <2>2
<1>7. ASSUME NEW L \in SUBSET Locs, RemoveBreakpoints(c, L)
      PROVE  ShowInv'
  <2> DEFINE ids == {bpId[l] : l \in L} \ {0}
  <2>1. CASE ids = {}
    BY <1>7, <2>1, ShowQuiet DEF RemoveBreakpoints, devVars, sessionVars
  <2>2. CASE ids # {}
    <3>1. Send(c, "RemoveBreakpoints", {}, ids)
      BY <1>7, <2>2 DEF RemoveBreakpoints
    <3>2. QED BY <1>7, <3>1, ShowSend DEF RemoveBreakpoints, Resumes, devVars, sessionVars
  <2>3. QED BY <2>1, <2>2
<1>8. QED BY <1>1, <1>2, <1>3, <1>4, <1>5, <1>6, <1>7 DEF Call

\* A continuation shows "running" only if its resumer's snapshot is fresh, so not
\* while a halt is believed in.
LEMMA ShowMark ==
  ASSUME TypeOK, ShowInv, NEW c, UNCHANGED <<isStopped, toDevice, fromDevice, dev, entryHandled>>,
         MarkResumed(c) \/ SetState("stopped") \/ UNCHANGED <<state, lastStop, fresh>>
  PROVE  ShowInv'
<1>1. EntryFirst'
  BY DEF ShowInv, EntryFirst, IsResume
<1>2. StopTellsDevice'
  BY DEF ShowInv, StopTellsDevice, IsStop
<1>3. HaltIsShown'
  BY DEF ShowInv, HaltIsShown, MarkResumed, SetState
<1>4. QED BY <1>1, <1>2, <1>3 DEF ShowInv

LEMMA ShowHangUp ==
  ASSUME TypeOK, ShowInv, Destroy, UNCHANGED <<dev, entryHandled, state, fresh>>
  PROVE  ShowInv'
<1>1. Len(toDevice') = 0 /\ Len(fromDevice') = 0 /\ isStopped' = isStopped
  BY DEF Destroy
<1>2. EntryFirst' /\ StopTellsDevice' /\ HaltIsShown'
  BY <1>1 DEF ShowInv, EntryFirst, StopTellsDevice, HaltIsShown
<1>3. QED BY <1>2 DEF ShowInv

LEMMA ShowTasks ==
  ASSUME TypeOK, ShowInv,
         (\E c \in Callers : CallerStep(c)) \/ (\E h \in Handlers : HandlerStep(h))
  PROVE  ShowInv'
<1>1. ASSUME NEW c \in Callers, CallerStep(c)
      PROVE  ShowInv'
  <2>1. CASE DetachDone(c)
    BY <2>1, ShowHangUp DEF DetachDone, devVars, sessionVars
  <2>2. CASE ResumeDone(c)
    BY <2>2, ShowMark DEF ResumeDone, Return, clientVars, devVars
  <2>3. CASE StepDone(c)
    BY <2>3, ShowMark DEF StepDone, Return, clientVars, devVars
  <2>4. CASE AddDone(c) \/ CallDone(c)
    BY <2>4, ShowMark DEF AddDone, CallDone, Return, clientVars, devVars
  <2>5. CASE RetryVariables(c)
    BY <2>5, ShowSend DEF RetryVariables, Resumes, devVars, sessionVars
  <2>6. QED BY <1>1, <2>1, <2>2, <2>3, <2>4, <2>5 DEF CallerStep, CallAnswered
<1>2. ASSUME NEW h \in Handlers, HandlerStep(h)
      PROVE  ShowInv'
  <2>1. CASE GraceOver(h)
    BY <2>1, ShowFlush DEF GraceOver, devVars, sessionVars
  <2>2. CASE AutoContinue(h)
    BY <2>2, ShowResume DEF AutoContinue, Resumes, devVars
  <2>3. CASE EntryDone(h) \/ PublishStop(h)
    BY <2>3, ShowQuiet DEF EntryDone, PublishStop, Return, clientVars, devVars
  <2>4. CASE AskThreads(h)
    BY <2>4, ShowAsk DEF AskThreads, Resumes, devVars, sessionVars
  <2>5. CASE AskStack(h)
    BY <2>5, ShowAsk DEF AskStack, Resumes, devVars, sessionVars
  <2>6. CASE AskVariables(h)
    BY <2>6, ShowAsk DEF AskVariables, Resumes, devVars, sessionVars
  <2>7. CASE RetryVariables(h)
    BY <2>7, ShowSend DEF RetryVariables, Resumes, devVars, sessionVars
  <2>8. QED BY <1>2, <2>1, <2>2, <2>3, <2>4, <2>5, <2>6, <2>7 DEF HandlerStep, VariablesAnswered
<1>3. QED BY <1>1, <1>2

\* The next message is taken off: what remains keeps its order.
LEMMA Received ==
  ASSUME TypeOK, NextMessage
  PROVE  /\ Len(fromDevice) \in Nat /\ Len(fromDevice) > 0
         /\ Len(fromDevice') = Len(fromDevice) - 1
         /\ Head(fromDevice) = fromDevice[1]
         /\ \A i \in 1..Len(fromDevice') : fromDevice'[i] = fromDevice[i + 1]
         /\ \A i \in 1..Len(fromDevice') : i + 1 \in 1..Len(fromDevice)
BY DEF NextMessage, TypeOK

\* A stop is reported as the device stands; the first one is the entry halt.
LEMMA ShowReceive ==
  ASSUME TypeOK, ShowInv, Receive
  PROVE  ShowInv'
<1> DEFINE m == Head(fromDevice)
<1>1. NextMessage
  BY DEF Receive, Response, SilentStop, EntrySuspend, ReportStop
<1>2. dev' = dev
  BY DEF Receive, Response, SilentStop, EntrySuspend, ReportStop, devVars
<1>3. StopTellsDevice'
  BY <1>1, <1>2, Received DEF ShowInv, StopTellsDevice, IsStop
<1>4. m.kind = "stop" => /\ m.why = "other" => dev = "silent"
                         /\ m.why = "runtime-error" => dev = "halted"
                         /\ m.why = "suspend" => dev \in {"entry", "halted"}
  BY <1>1, Received DEF ShowInv, StopTellsDevice, IsStop
<1>5. CASE Response
  <2>1. UNCHANGED <<isStopped, toDevice, entryHandled, state, fresh>>
    BY <1>5 DEF Response, sessionVars
  <2>2. EntryFirst' /\ HaltIsShown'
    BY <1>2, <2>1 DEF ShowInv, EntryFirst, HaltIsShown, IsResume
  <2>3. QED BY <1>3, <2>2 DEF ShowInv
<1>6. CASE SilentStop
  <2>1. dev = "silent" /\ UNCHANGED <<toDevice, entryHandled, state, fresh>>
    BY <1>4, <1>6 DEF SilentStop, sessionVars
  <2>2. EntryFirst' /\ HaltIsShown'
    BY <1>2, <2>1 DEF ShowInv, EntryFirst, HaltIsShown
  <2>3. QED BY <1>3, <2>2 DEF ShowInv
<1>7. ASSUME NEW h \in Handlers, EntrySuspend(h)
      PROVE  ShowInv'
  <2>1. entryHandled' = TRUE /\ dev = "entry"
    BY <1>7 DEF EntrySuspend, ShowInv, EntryFirst
  <2>2. EntryFirst' /\ HaltIsShown'
    BY <1>2, <2>1 DEF EntryFirst, HaltIsShown
  <2>3. QED BY <1>3, <2>2 DEF ShowInv
<1>8. ASSUME NEW h \in Handlers, ReportStop(h)
      PROVE  ShowInv'
  <2>1. entryHandled' /\ state' = "stopped" /\ fresh' = {}
    BY <1>4, <1>8 DEF ReportStop, ShowInv, EntryFirst
  <2>2. EntryFirst' /\ HaltIsShown'
    BY <2>1 DEF EntryFirst, HaltIsShown
  <2>3. QED BY <1>3, <2>2 DEF ShowInv
<1>9. QED BY <1>5, <1>6, <1>7, <1>8 DEF Receive

\* The device answers: no announcement is added.
LEMMA ShowServe ==
  ASSUME TypeOK, ShowInv, toDevice # <<>>, toDevice' = Tail(toDevice),
         NEW m, m.kind # "stop", fromDevice' = Append(fromDevice, m),
         UNCHANGED <<isStopped, dev, entryHandled, state, fresh>>
  PROVE  ShowInv'
<1>1. EntryFirst'
  BY Served DEF ShowInv, EntryFirst, IsResume
<1>2. StopTellsDevice'
  <2>1. dev' = dev
    OBVIOUS
  <2>2. QED BY <2>1, Replied DEF ShowInv, StopTellsDevice, IsStop
<1>3. HaltIsShown'
  BY DEF ShowInv, HaltIsShown
<1>4. QED BY <1>1, <1>2, <1>3 DEF ShowInv

LEMMA ShowDevice ==
  ASSUME TypeOK, HaltInv, ShowInv, LateAttach = FALSE, Device
  PROVE  ShowInv'
<1>0. UNCHANGED <<isStopped, entryHandled, state, fresh>>
  BY DeviceLeaves DEF sessionVars
<1>1. ASSUME NEW why \in Reasons, DeviceHalt(why)
      PROVE  ShowInv'
  <2>1. /\ dev = "running" /\ dev' = IF why = "other" THEN "silent" ELSE "halted"
        /\ fromDevice' = Append(fromDevice, [kind |-> "stop", why |-> why])
        /\ fromDevice \in Seq(Reply \cup Stop)
    BY <1>1 DEF DeviceHalt, TypeOK
  <2>2. ~isStopped /\ \A i \in 1..Len(fromDevice) : ~IsStop(i)
    BY <2>1 DEF HaltInv, RunningHasNoToken
  <2>3. /\ Len(fromDevice) \in Nat /\ Len(fromDevice') = Len(fromDevice) + 1
        /\ \A i \in 1..Len(fromDevice) : fromDevice'[i] = fromDevice[i]
        /\ fromDevice'[Len(fromDevice) + 1] = [kind |-> "stop", why |-> why]
    BY <2>1
  <2>4. StopTellsDevice'
    <3>1. \A i \in 1..Len(fromDevice') : fromDevice'[i].kind = "stop" => i = Len(fromDevice) + 1
      BY <2>2, <2>3 DEF IsStop
    <3>2. fromDevice'[Len(fromDevice) + 1].why = why
      BY <2>3
    <3>3. QED BY <2>1, <3>1, <3>2 DEF StopTellsDevice, IsStop
  <2>5. EntryFirst' /\ HaltIsShown'
    BY <1>0, <2>1, <2>2 DEF ShowInv, EntryFirst, HaltIsShown
  <2>6. QED BY <2>4, <2>5 DEF ShowInv
<1>2. CASE DeviceResume
  <2>1. /\ toDevice # <<>> /\ toDevice' = Tail(toDevice) /\ Head(toDevice).cmd \in Resumes
        /\ dev' = "running"
        /\ fromDevice' = Append(fromDevice, ReplyTo(Head(toDevice).by, TRUE, NoIds))
    BY <1>2 DEF DeviceResume, Serve
  <2>2. 1 \in 1..Len(toDevice) /\ IsResume(1)
    BY <2>1, Served DEF IsResume
  <2>3. ReplyTo(Head(toDevice).by, TRUE, NoIds).kind # "stop"
    BY DEF ReplyTo
  <2>4. \A i \in 1..Len(fromDevice') : fromDevice'[i].kind # "stop"
    <3>1. \A i \in 1..Len(fromDevice) : ~IsStop(i)
      BY <2>2 DEF HaltInv, StopOrResume
    <3>2. QED BY <2>1, <2>3, <3>1, Replied
  <2>5. EntryFirst' /\ StopTellsDevice' /\ HaltIsShown'
    BY <1>0, <2>1, <2>2, <2>4 DEF ShowInv, EntryFirst, StopTellsDevice, HaltIsShown, IsStop
  <2>6. QED BY <2>5 DEF ShowInv
<1>3. CASE DeviceRefuse
  <2>1. ReplyTo(Head(toDevice).by, FALSE, NoIds).kind # "stop"
    BY DEF ReplyTo
  <2>2. QED BY <1>0, <1>3, <2>1, ShowServe DEF DeviceRefuse, Serve, devVars
<1>4. CASE DeviceRemove \/ DeviceInspect
  <2>1. ReplyTo(Head(toDevice).by, TRUE, NoIds).kind # "stop"
    BY DEF ReplyTo
  <2>2. QED BY <1>0, <1>4, <2>1, ShowServe DEF DeviceRemove, DeviceInspect, Serve, devVars
<1>5. CASE DeviceAdd
  <2>1. PICK ids : fromDevice' = Append(fromDevice, ReplyTo(Head(toDevice).by, TRUE, ids))
    BY <1>5 DEF DeviceAdd
  <2>2. ReplyTo(Head(toDevice).by, TRUE, ids).kind # "stop"
    BY DEF ReplyTo
  <2>3. QED BY <1>0, <1>5, <2>1, <2>2, ShowServe DEF DeviceAdd, Serve
<1>6. CASE DevicePause
  <2> DEFINE ack == ReplyTo(Head(toDevice).by, TRUE, NoIds)
             note == [kind |-> "stop", why |-> "suspend"]
  <2>1. toDevice # <<>> /\ toDevice' = Tail(toDevice) /\ ack.kind # "stop"
    BY <1>6 DEF DevicePause, Serve, ReplyTo
  <2>2. CASE dev = "running" /\ SpareHandler
    <3>1. dev' = "halted" /\ fromDevice' = Append(Append(fromDevice, ack), note)
      BY <1>6, <2>2 DEF DevicePause
    <3>2. entryHandled /\ ~isStopped /\ UNCHANGED <<isStopped, entryHandled>>
      BY <1>0, <2>2 DEF ShowInv, EntryFirst, HaltInv, RunningHasNoToken
    <3>3. StopTellsDevice'
      <4>1. SUFFICES ASSUME NEW i \in 1..Len(fromDevice'), fromDevice'[i].kind = "stop"
                     PROVE  fromDevice'[i].why = "suspend"
        BY <3>1 DEF StopTellsDevice, IsStop
      <4>2. \A j \in 1..Len(fromDevice) : fromDevice[j].kind # "stop"
        BY <2>2 DEF HaltInv, RunningHasNoToken, IsStop
      <4>3. PICK S : fromDevice \in Seq(S)
        BY DEF TypeOK
      <4> HIDE DEF ack
      <4>4. /\ Len(fromDevice) \in Nat /\ Len(fromDevice') = Len(fromDevice) + 2
            /\ \A j \in 1..Len(fromDevice) : fromDevice'[j] = fromDevice[j]
            /\ fromDevice'[Len(fromDevice) + 1] = ack
            /\ fromDevice'[Len(fromDevice) + 2] = note
        BY <3>1, <4>3
      <4>5. i = Len(fromDevice) + 2
        BY <2>1, <4>1, <4>2, <4>4
      <4>6. QED BY <4>4, <4>5
    <3>4. EntryFirst' /\ HaltIsShown'
      BY <3>2 DEF EntryFirst, HaltIsShown
    <3>5. QED BY <3>3, <3>4 DEF ShowInv
  <2>3. CASE ~(dev = "running" /\ SpareHandler)
    <3>1. fromDevice' = Append(fromDevice, ack) /\ dev' = dev
      BY <1>6, <2>3 DEF DevicePause
    <3>2. QED BY <1>0, <2>1, <3>1, ShowServe
  <2>4. QED BY <2>2, <2>3
<1>7. QED BY <1>1, <1>2, <1>3, <1>4, <1>5, <1>6 DEF Device

LEMMA ShowInit == ASSUME Init PROVE ShowInv
BY DEF Init, ShowInv, EntryFirst, StopTellsDevice, HaltIsShown, IsStop, IsResume

LEMMA ShowNext ==
  ASSUME TypeOK, HaltInv, ShowInv, LateAttach = FALSE, [Next]_vars
  PROVE  ShowInv'
<1>1. CASE \E c \in Callers : Call(c) \/ CallerStep(c)
  BY <1>1, ShowCall, ShowTasks
<1>2. CASE \E h \in Handlers : HandlerStep(h)
  BY <1>2, ShowTasks
<1>3. CASE Receive
  BY <1>3, ShowReceive
<1>4. CASE SessionEnd
  BY <1>4, ShowHangUp DEF SessionEnd, devVars
<1>5. CASE Device
  BY <1>5, ShowDevice
<1>6. CASE UNCHANGED vars
  BY <1>6, ShowQuiet DEF vars, clientVars, sessionVars, devVars
<1>7. QED BY <1>1, <1>2, <1>3, <1>4, <1>5, <1>6 DEF Next

\* A halt that the client knows of is shown as "stopped", however acknowledgements,
\* stops and the continuations of any number of resumers were interleaved, if the
\* device announces one stop per halt.
THEOREM StopNotLostHolds ==
  ASSUME IsFiniteSet(Locs), LateAttach = FALSE
  PROVE  Spec => []StopNotLost
<1>1. TypeOK /\ HaltInv /\ [Next]_vars => HaltInv'
  BY HaltNext
<1>2. TypeOK /\ HaltInv /\ ShowInv /\ [Next]_vars => ShowInv'
  BY ShowNext
<1>3. ShowInv => StopNotLost
  BY DEF ShowInv, HaltIsShown, StopNotLost
<1>4. QED BY TypeCorrect, HaltInit, ShowInit, <1>1, <1>2, <1>3, PTL DEF Spec
=============================================================================
