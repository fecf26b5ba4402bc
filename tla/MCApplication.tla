--------------------------- MODULE MCApplication ---------------------------
(***************************************************************************)
(* The services of MCServices, the debug session and the attaching to one  *)
(* device in one run: a behaviour is one of them at work while the others, *)
(* which share no state with it, rest.  The session comes with threads     *)
(* that attach late, and without.                                          *)
(***************************************************************************)
EXTENDS MCServices, DebugSession, DebugAttach

CONSTANTS d1, n1, b1, a1, a2

VARIABLE turn     \* whose it is

Debugging == turn \in {"session", "session without late threads"}

applicationVars == <<turn, servicesVars, vars, attachVars>>

ApplicationInit ==
  /\ turn \in {"services", "session", "session without late threads", "attaching"}
  /\ ServicesInit /\ Init /\ AttachInit
  /\ turn # "services" => subject = "store"       \* what rests is in one state
  /\ turn # "attaching" => port = "closed"

\* A session that is over need not go on: whatever stops elsewhere is a deadlock.
SessionIsOver == ~open /\ (\A t \in Tasks : pc[t] = "idle") /\ UNCHANGED vars

ApplicationNext ==
  /\ UNCHANGED turn
  /\ \/ turn = "services" /\ ServicesNext /\ UNCHANGED <<vars, attachVars>>
     \/ /\ Debugging /\ (Next \/ SessionIsOver)
        /\ turn = "session without late threads" /\ dev = "halted" => ~DeviceHalt("suspend")
        /\ UNCHANGED <<servicesVars, attachVars>>
     \/ turn = "attaching" /\ AttachNext /\ UNCHANGED <<servicesVars, vars>>

\* RelayRunFairness, LoopFairness and TimerFairness, each while it is the turn of
\* its part.
ApplicationFairness ==
  /\ RelayRunFairness
  /\ \A c \in Callers : WF_vars(Debugging /\ CallerStep(c))
  /\ \A h \in Handlers : WF_vars(Debugging /\ HandlerStep(h))
  /\ WF_vars(Debugging /\ Receive)
  /\ \A r \in AttachRuns :
       /\ WF_attachVars(turn = "attaching" /\ AttemptTimeout(r))
       /\ WF_attachVars(turn = "attaching" /\ (Retry(r) \/ DeadlinePassed(r)))
       /\ WF_attachVars(turn = "attaching" /\ GiveUp(r))

ApplicationSpec ==
  ApplicationInit /\ [][ApplicationNext]_applicationVars /\ ApplicationFairness

-----------------------------------------------------------------------------
\* If no thread attaches late, only the retry of getVariables reaches a running
\* channel, whatever the device refuses: HaltedAtReceipt of DebugSession, where
\* the retry is sent.
HaltedUnlessLate == turn = "session without late threads" => HaltedAtReceipt
=============================================================================
