------------------------------ MODULE TurnGate ------------------------------
(***************************************************************************)
(* The controller's turn gate and approval bridge,                         *)
(* internal/control/controller.go with harness_turn.go and harness/fsm.go: *)
(* one turn at a time on a goroutine (runGuarded), the plan flow of        *)
(* runTurnWithRaw, and the prompts (requestApproval, Ask) that block tool  *)
(* calls until the user, a mode switch or a cancelled context ends them.   *)
(*                                                                         *)
(* Callers of the gate are the foreground agent's tool calls (FgCalls,     *)
(* under the turn's context), background task agents that inherited the    *)
(* interactive gate (BgCalls, under a job's context, desktop only: see     *)
(* EffectiveSubagentGate) and the turn itself for a plan (PlanGate).  An   *)
(* action is one critical section of c.mu, one operation on promptMu or on *)
(* a reply channel, or one step of the turn's goroutine.  What a turn does *)
(* to the session and the files is in Checkpoints.                         *)
(***************************************************************************)
EXTENDS Naturals, FiniteSets

CONSTANTS
    FgCalls,     \* tool calls the foreground agent may have in flight
    BgCalls,     \* background agents that share the interactive gate
    PlanGate,    \* the turn's own request for plan approval
    Keys,        \* tool + subject of the gated calls
    PlanKey,     \* exit_plan_mode
    None,
    MaxTurns,    \* bound: turns sent
    MaxPrompts   \* bound: prompts shown

ASSUME TurnGateAssumption ==
    /\ PlanGate \notin FgCalls \cup BgCalls
    /\ FgCalls \cap BgCalls = {}
    /\ None \notin FgCalls \cup BgCalls \cup {PlanGate}
    /\ PlanKey \notin Keys
    /\ IsFiniteSet(FgCalls) /\ IsFiniteSet(BgCalls)
    /\ MaxTurns \in Nat
    /\ MaxPrompts \in Nat

Callers == FgCalls \cup BgCalls \cup {PlanGate}
Turns   == 1..MaxTurns
Ids     == 1..MaxPrompts
Verdict == {"no", "yes", "always"}   \* refused, allowed, allowed for the session
Reply   == [id : Ids, verdict : Verdict]

\* Where a turn is in runGuarded and runTurnWithRaw.
TurnPc == {"unsent", "begin", "scoring", "autoplan", "ready", "run", "gate", "planning",
           "unplan", "approved", "exec", "unauto", "ended", "closing", "done"}
InBody == TurnPc \ {"unsent", "closing", "done"}

\* Where a call is in gateApprover.Approve, requestApproval or Ask.
CallPc  == {"calm", "queued", "waiting"}
Kind    == {"tool", "ask", "plan"}
Outcome == {"none", "bypass", "auto", "grant", "yes", "no", "err"}
Call    == [pc : CallPc, kind : Kind, key : Keys \cup {PlanKey}, id : Ids \cup {0}]
Phases  == {"idle", "plan", "execute", "replan", "halt"}

VARIABLES
    tpc,        \* [Turns -> TurnPc]
    running,    \* c.running
    cancelFn,   \* the turn c.cancel belongs to, 0 for nil
    cancelling, \* turns whose cancel function Cancel has read and not yet called
    ctxDone,    \* turns whose context is cancelled
    agentOf,    \* [BgCalls -> the turn that started the agent, 0 before]
    stopped,    \* background agents whose job context is cancelled
    planMode,   \* c.planMode
    execPlan,   \* executor.planMode, the gate on writers
    autoApprove, bypass,
    granted,    \* c.granted
    modeCall,   \* a frontend's SetMode or SetPlanMode between its two halves
    call,       \* [Callers -> Call]
    batch,      \* calls of the model's batch the run has still to make
    last,       \* how the last request of PlanGate and of each agent ended (for
                \* the agents a history: nothing reads it)
    holder,     \* owner of promptMu
    approvals, asks, nextID,  \* the pending prompts
    sending,    \* replies taken off the maps and not yet sent
    replies,    \* replies in their buffered channels
    phase       \* the harness FSM

turnVars == <<tpc, running, cancelFn, cancelling, ctxDone>>
modeVars == <<planMode, execPlan, autoApprove, bypass, modeCall>>
promptVars == <<approvals, asks, nextID, sending, replies>>
jobVars == <<agentOf, stopped>>
callVars == <<call, batch>>
vars == <<turnVars, modeVars, promptVars, jobVars, granted, callVars, last, holder, phase>>

NoMode == [busy |-> FALSE, plan |-> FALSE, ids |-> {}]
Calm   == [pc |-> "calm", kind |-> "tool", key |-> PlanKey, id |-> 0]

Init ==
    /\ tpc = [t \in Turns |-> "unsent"]
    /\ running = FALSE
    /\ cancelFn = 0
    /\ cancelling = {}
    /\ ctxDone = {}
    /\ agentOf = [b \in BgCalls |-> 0]
    /\ stopped = {}
    /\ planMode = FALSE
    /\ execPlan = FALSE
    /\ autoApprove = FALSE
    /\ bypass = FALSE
    /\ granted = {}
    /\ modeCall = NoMode
    /\ call = [c \in Callers |-> Calm]
    /\ batch = {}
    /\ last = [c \in BgCalls \cup {PlanGate} |-> "none"]
    /\ holder = None
    /\ approvals = {}
    /\ asks = {}
    /\ nextID = 0
    /\ sending = {}
    /\ replies = {}
    /\ phase = "idle"

-----------------------------------------------------------------------------
(* The harness FSM: an event with no transition from here is ignored. *)

Transition(from, ev) ==
    CASE from = "plan"    /\ ev = "plan_rejected"    -> "replan"
      [] from = "plan"    /\ ev = "plan_approved"    -> "execute"
      [] from = "replan"  /\ ev = "turn_complete"    -> "idle"
      [] from = "execute" /\ ev = "turn_complete"    -> "idle"
      [] from = "execute" /\ ev = "verify_exhausted" -> "halt"
      [] from = "halt"    /\ ev = "turn_complete"    -> "idle"
      [] OTHER -> from

-----------------------------------------------------------------------------
(* The approval bridge *)

\* Mutant: the turn's context is not the one the prompts are waited under.
CancelledJobs(c) == c \in BgCalls /\ c \in stopped

\* Foreground calls run under the turn in flight, background ones under a job.
Cancelled(c) == IF c \in BgCalls THEN c \in stopped
                ELSE \E t \in ctxDone : tpc[t] \in InBody

\* Why a request needs no prompt: bypass answers everything, a plan being
\* executed and a session grant answer approvals.
Free(kind, key) == CASE bypass -> "bypass"
                     [] kind # "ask" /\ autoApprove -> "auto"
                     [] kind # "ask" /\ key \in granted -> "grant"
                     [] OTHER -> "none"

Queued == {c \in Callers : call[c].pc = "queued"}
\* n more calls may be shown a prompt, within the bound.
Room(n) == nextID + Cardinality(Queued) + Cardinality(batch) + n <= MaxPrompts

\* Record how a request of c ended.
Told(c, how) == last' = [k \in DOMAIN last |-> IF k = c THEN how ELSE last[k]]

\* The checks before promptMu (gateApprover's and requestApproval's own are one
\* here: a request let through by either is let through at that moment).
Enter(c, kind, key) ==
    /\ call[c].pc = "calm"
    /\ Told(c, Free(kind, key))
    /\ call' = IF Free(kind, key) # "none" THEN call
               ELSE [call EXCEPT ![c] = [pc |-> "queued", kind |-> kind,
                                         key |-> key, id |-> 0]]

Kinds == {"tool", "ask"}

\* A gated tool call of the batch, or a call of the ask tool.  (Ask reads bypass and
\* registers in two critical sections; no drain takes a question, so one step
\* stands for both.)
Request(c, kind, key) ==
    /\ c \in batch
    /\ batch' = batch \ {c}
    /\ Enter(c, kind, key)
    /\ UNCHANGED <<turnVars, modeVars, promptVars, jobVars, granted, holder, phase>>

\* A gated tool call of a background agent; a sub-agent has no asker.
AgentRequest(b, key) ==
    /\ agentOf[b] # 0
    /\ Room(1)
    /\ Enter(b, "tool", key)
    /\ UNCHANGED <<turnVars, modeVars, promptVars, jobVars, granted, batch, holder, phase>>

\* Mutant: a prompt does not wait for the one before it.
MutexIgnored(c) == holder' = c

MutexFree(c) == holder = None /\ holder' = c

\* promptMu.Lock returns.  It does not look at any context.
Lock(c) ==
    /\ call[c].pc = "queued"
    /\ holder # c
    /\ MutexFree(c)
    /\ UNCHANGED <<turnVars, modeVars, promptVars, jobVars, granted, callVars, last, phase>>

\* Mutant: the modes are not looked at again after the wait for promptMu.
NotAgain(c) == "none"

Again(c) == Free(call[c].kind, call[c].key)

\* Under promptMu and c.mu: what was allowed while the call queued needs no
\* prompt any more; otherwise a prompt is registered and shown.
Recheck(c) ==
    /\ call[c].pc = "queued"
    /\ holder = c
    /\ IF Again(c) # "none"
       THEN /\ Told(c, Again(c))
            /\ call' = [call EXCEPT ![c] = Calm]
            /\ holder' = None
            /\ UNCHANGED <<approvals, asks, nextID>>
       ELSE /\ nextID' = nextID + 1
            /\ call' = [call EXCEPT ![c].pc = "waiting", ![c].id = nextID + 1]
            /\ IF call[c].kind = "ask"
               THEN asks' = asks \cup {nextID + 1} /\ UNCHANGED approvals
               ELSE approvals' = approvals \cup {nextID + 1} /\ UNCHANGED asks
            /\ UNCHANGED <<last, holder>>
    /\ UNCHANGED <<batch, turnVars, modeVars, sending, replies, jobVars, granted, phase>>

\* Mutant: a session grant for a plan would approve every later plan.
GrantsAny(c, r) == r.verdict = "always" /\ call[c].kind # "ask"

Grants(c, r) == r.verdict = "always" /\ call[c].kind = "tool"

\* The select received the reply: remember a session grant, return, unlock.
Receive(c, r) ==
    /\ call[c].pc = "waiting"
    /\ r \in replies
    /\ r.id = call[c].id
    /\ replies' = replies \ {r}
    /\ granted' = granted \cup (IF Grants(c, r) THEN {call[c].key} ELSE {})
    /\ Told(c, IF r.verdict = "no" THEN "no" ELSE "yes")
    /\ call' = [call EXCEPT ![c] = Calm]
    /\ holder' = None
    /\ UNCHANGED <<batch, turnVars, modeVars, approvals, asks, nextID, sending, jobVars, phase>>

\* The select saw ctx.Done: withdraw the prompt, return the error, unlock.
Abort(c) ==
    /\ call[c].pc = "waiting"
    /\ Cancelled(c)
    /\ approvals' = approvals \ {call[c].id}
    /\ asks' = asks \ {call[c].id}
    /\ Told(c, "err")
    /\ call' = [call EXCEPT ![c] = Calm]
    /\ holder' = None
    /\ UNCHANGED <<batch, turnVars, modeVars, nextID, sending, replies, jobVars, granted, phase>>

-----------------------------------------------------------------------------
(* The frontend's commands *)

Taken(map, id) == map \ {id}

\* Approve, under c.mu: only a pending id is answered, and once.
Approve(id, verdict) ==
    /\ id \in approvals
    /\ approvals' = Taken(approvals, id)
    /\ sending' = sending \cup {[id |-> id, verdict |-> verdict]}
    /\ UNCHANGED <<turnVars, modeVars, asks, nextID, replies, jobVars, granted,
                   callVars, last, holder, phase>>

AnswerQuestion(id) ==
    /\ id \in asks
    /\ asks' = Taken(asks, id)
    /\ sending' = sending \cup {[id |-> id, verdict |-> "yes"]}
    /\ UNCHANGED <<turnVars, modeVars, approvals, nextID, replies, jobVars,
                   granted, callVars, last, holder, phase>>

\* The send on the buffered channel, after c.mu is released.
Deliver(r) ==
    /\ r \in sending
    /\ sending' = sending \ {r}
    /\ replies' = replies \cup {r}
    /\ UNCHANGED <<turnVars, modeVars, approvals, asks, nextID, jobVars, granted,
                   callVars, last, holder, phase>>

\* Mutant: the drained channels are dropped without a reply.
AllowNone(ids) == {}

AllowAll(ids) == {[id |-> i, verdict |-> "yes"] : i \in ids}

\* Mutant: turning bypass on leaves the prompts that are waiting alone.
NotDrained(on) == {}

Drained(on) == IF on THEN approvals ELSE {}

\* SetBypass: pending approvals are taken and allowed; questions are not.
SetBypass(on) ==
    /\ bypass # on
    /\ bypass' = on
    /\ approvals' = approvals \ Drained(on)
    /\ sending' = sending \cup AllowAll(Drained(on))
    /\ UNCHANGED <<turnVars, planMode, execPlan, autoApprove, modeCall, asks,
                   nextID, replies, jobVars, granted, callVars, last, holder, phase>>

\* SetMode, under c.mu: both modes at once.
SetMode(plan, on) ==
    /\ ~modeCall.busy
    /\ planMode' = plan
    /\ bypass' = on
    /\ approvals' = approvals \ Drained(on)
    /\ modeCall' = [busy |-> TRUE, plan |-> plan, ids |-> Drained(on)]
    /\ UNCHANGED <<turnVars, execPlan, autoApprove, asks, nextID, sending,
                   replies, jobVars, granted, callVars, last, holder, phase>>

\* SetPlanMode called by a frontend, under c.mu.
SetPlanMode(plan) ==
    /\ ~modeCall.busy
    /\ planMode # plan
    /\ planMode' = plan
    /\ modeCall' = [busy |-> TRUE, plan |-> plan, ids |-> {}]
    /\ UNCHANGED <<turnVars, execPlan, autoApprove, bypass, promptVars, jobVars,
                   granted, callVars, last, holder, phase>>

\* The rest of both, after c.mu is released: the executor's gate, the replies.
ModeReaches ==
    /\ modeCall.busy
    /\ execPlan' = modeCall.plan
    /\ sending' = sending \cup AllowAll(modeCall.ids)
    /\ modeCall' = NoMode
    /\ UNCHANGED <<turnVars, planMode, autoApprove, bypass, approvals, asks,
                   nextID, replies, jobVars, granted, callVars, last, holder, phase>>

\* Cancel reads c.cancel under c.mu and calls it afterwards.
Cancel ==
    /\ cancelFn # 0
    /\ cancelling' = cancelling \cup {cancelFn}
    /\ UNCHANGED <<tpc, running, cancelFn, ctxDone, modeVars, promptVars, jobVars,
                   granted, callVars, last, holder, phase>>

\* Nobody reads the context of a turn that has ended.
CancelCall(t) ==
    /\ t \in cancelling
    /\ cancelling' = cancelling \ {t}
    /\ ctxDone' = ctxDone \cup ({t} \cap {u \in Turns : tpc[u] \in InBody})
    /\ UNCHANGED <<tpc, running, cancelFn, modeVars, promptVars, jobVars, granted,
                   callVars, last, holder, phase>>

\* The foreground agent runs the task tool in the background.
StartJob(b, t) ==
    /\ tpc[t] \in {"run", "exec"}
    /\ agentOf[b] = 0
    /\ agentOf' = [agentOf EXCEPT ![b] = t]
    /\ UNCHANGED <<turnVars, modeVars, promptVars, stopped, granted, callVars, last, holder, phase>>

\* The agent's job is killed.
StopJob(b) ==
    /\ agentOf[b] # 0
    /\ b \notin stopped
    /\ stopped' = stopped \cup {b}
    /\ UNCHANGED <<agentOf, turnVars, modeVars, promptVars, granted, callVars, last, holder, phase>>

-----------------------------------------------------------------------------
(* The turn *)

Go(t, from, to) == /\ tpc[t] = from
                   /\ tpc' = [tpc EXCEPT ![t] = to]

\* Mutant: the busy check is dropped.
NeverBusy == TRUE

NotBusy == ~running

\* runGuarded; a Send while a turn runs only emits the busy notice.
Send(t) ==
    /\ NotBusy
    /\ \A u \in Turns : u < t => tpc[u] # "unsent"
    /\ Go(t, "unsent", "begin")
    /\ running' = TRUE
    /\ cancelFn' = t
    /\ UNCHANGED <<cancelling, ctxDone, modeVars, promptVars, jobVars, granted,
                   callVars, last, holder, phase>>

\* shouldAutoPlan reads the modes, then scores the task (a model may be asked).
Score(t) ==
    /\ Go(t, "begin", "scoring")
    /\ ~planMode
    /\ ~bypass
    /\ UNCHANGED <<running, cancelFn, cancelling, ctxDone, modeVars, promptVars,
                   jobVars, granted, callVars, last, holder, phase>>

\* The task scored, whatever the modes are by now: SetPlanMode(true).
AutoPlan(t) ==
    /\ Go(t, "scoring", "autoplan")
    /\ planMode' = TRUE
    /\ UNCHANGED <<running, cancelFn, cancelling, ctxDone, execPlan, autoApprove,
                   bypass, modeCall, promptVars, jobVars, granted, callVars, last,
                   holder, phase>>

AutoPlanReaches(t) ==
    /\ Go(t, "autoplan", "ready")
    /\ execPlan' = TRUE
    /\ UNCHANGED <<running, cancelFn, cancelling, ctxDone, planMode, autoApprove,
                   bypass, modeCall, promptVars, jobVars, granted, callVars, last,
                   holder, phase>>

NoAutoPlan(t) ==
    /\ Go(t, "begin", "ready") \/ Go(t, "scoring", "ready")
    /\ UNCHANGED <<running, cancelFn, cancelling, ctxDone, modeVars, promptVars,
                   jobVars, granted, callVars, last, holder, phase>>

\* FSM.BeginTurn, then a prompt hook may block the turn, else runner.Run.
StartRun(t, blocked) ==
    /\ Go(t, "ready", IF blocked THEN "ended" ELSE "run")
    /\ phase' = IF planMode THEN "plan" ELSE "execute"
    /\ UNCHANGED <<running, cancelFn, cancelling, ctxDone, modeVars, promptVars,
                   jobVars, granted, callVars, last, holder>>

FgCalm == batch = {} /\ \A c \in FgCalls : call[c].pc = "calm"

\* The model answers with tool calls.  The batch runs to its end (executeBatch does
\* not look at the context); under a cancelled one no further batch is streamed.
Stream(t, calls) ==
    /\ tpc[t] \in {"run", "exec"}
    /\ t \notin ctxDone
    /\ FgCalm
    /\ calls # {}
    /\ Room(Cardinality(calls))
    /\ batch' = calls
    /\ UNCHANGED <<turnVars, modeVars, promptVars, jobVars, granted, call, last,
                   holder, phase>>

AfterRun(err) == IF err = "exhausted" THEN Transition(phase, "verify_exhausted")
                                      ELSE phase

\* runner.Run returned: every tool call of the loop has.
RunEnds(t, err) ==
    /\ FgCalm
    /\ Go(t, "run", IF err = "nil" THEN "gate" ELSE "ended")
    /\ phase' = AfterRun(err)
    /\ UNCHANGED <<running, cancelFn, cancelling, ctxDone, modeVars, promptVars,
                   jobVars, granted, callVars, last, holder>>

NoPlan(t) ==
    /\ Go(t, "gate", "ended")
    /\ ~planMode
    /\ phase' = Transition(phase, "turn_complete")
    /\ UNCHANGED <<running, cancelFn, cancelling, ctxDone, modeVars, promptVars,
                   jobVars, granted, callVars, last, holder>>

\* In plan mode, and the model gave no text to approve.
NoProposal(t) ==
    /\ Go(t, "gate", "ended")
    /\ planMode
    /\ UNCHANGED <<running, cancelFn, cancelling, ctxDone, modeVars, promptVars,
                   jobVars, granted, callVars, last, holder, phase>>

Propose(t) ==
    /\ Go(t, "gate", "planning")
    /\ planMode
    /\ Room(1)
    /\ Enter(PlanGate, "plan", PlanKey)
    /\ UNCHANGED <<batch, running, cancelFn, cancelling, ctxDone, modeVars, promptVars,
                   jobVars, granted, holder, phase>>

PlanAnswered(t) == tpc[t] = "planning" /\ call[PlanGate].pc = "calm"

\* Rejected, or aborted by the context: plan mode stays on.
PlanRefused(t) ==
    /\ PlanAnswered(t)
    /\ last[PlanGate] \in {"no", "err"}
    /\ Go(t, "planning", "ended")
    /\ phase' = IF last[PlanGate] = "err" THEN phase
                ELSE Transition(Transition(phase, "plan_rejected"), "turn_complete")
    /\ UNCHANGED <<running, cancelFn, cancelling, ctxDone, modeVars, promptVars,
                   jobVars, granted, callVars, last, holder>>

\* Approved: SetPlanMode(false), its first half and then the executor's gate.
PlanAccepted(t) ==
    /\ PlanAnswered(t)
    /\ last[PlanGate] \notin {"no", "err"}
    /\ Go(t, "planning", "unplan")
    /\ planMode' = FALSE
    /\ UNCHANGED <<running, cancelFn, cancelling, ctxDone, execPlan, autoApprove,
                   bypass, modeCall, promptVars, jobVars, granted, callVars, last,
                   holder, phase>>

UnplanReaches(t) ==
    /\ Go(t, "unplan", "approved")
    /\ execPlan' = FALSE
    /\ phase' = Transition(phase, "plan_approved")
    /\ UNCHANGED <<running, cancelFn, cancelling, ctxDone, planMode, autoApprove,
                   bypass, modeCall, promptVars, jobVars, granted, callVars, last, holder>>

Execute(t) ==
    /\ Go(t, "approved", "exec")
    /\ autoApprove' = TRUE
    /\ UNCHANGED <<running, cancelFn, cancelling, ctxDone, planMode, execPlan,
                   bypass, modeCall, promptVars, jobVars, granted, callVars, last,
                   holder, phase>>

\* Mutant: the reset is not deferred, so a failing run skips it.
OnSuccessOnly(err) == IF err = "nil" THEN "unauto" ELSE "ended"

Deferred(err) == "unauto"

ExecEnds(t, err) ==
    /\ FgCalm
    /\ Go(t, "exec", Deferred(err))
    /\ phase' = IF err = "nil" THEN Transition(phase, "turn_complete") ELSE AfterRun(err)
    /\ UNCHANGED <<running, cancelFn, cancelling, ctxDone, modeVars, promptVars,
                   jobVars, granted, callVars, last, holder>>

AutoOff(t) ==
    /\ Go(t, "unauto", "ended")
    /\ autoApprove' = FALSE
    /\ UNCHANGED <<running, cancelFn, cancelling, ctxDone, planMode, execPlan,
                   bypass, modeCall, promptVars, jobVars, granted, callVars, last,
                   holder, phase>>

\* The body returned: under c.mu the gate opens and c.cancel is forgotten.
End(t) ==
    /\ Go(t, "ended", "closing")
    /\ running' = FALSE
    /\ cancelFn' = 0
    /\ ctxDone' = ctxDone \ {t}
    /\ UNCHANGED <<cancelling, modeVars, promptVars, jobVars, granted,
                   callVars, last, holder, phase>>

\* TurnDone, the last event of the turn.
TurnDone(t) ==
    /\ Go(t, "closing", "done")
    /\ UNCHANGED <<running, cancelFn, cancelling, ctxDone, modeVars, promptVars,
                   jobVars, granted, callVars, last, holder, phase>>

-----------------------------------------------------------------------------
Err == {"nil", "failed", "exhausted"}

Bridge(c) == \/ \E key \in Keys, kind \in Kinds : Request(c, kind, key)
             \/ c \in BgCalls /\ \E key \in Keys : AgentRequest(c, key)
             \/ Lock(c)
             \/ Recheck(c)
             \/ \E r \in replies : Receive(c, r)
             \/ Abort(c)

Frontend == \/ \E id \in approvals, verdict \in Verdict : Approve(id, verdict)
            \/ \E id \in asks : AnswerQuestion(id)
            \/ \E on \in BOOLEAN : SetBypass(on)
            \/ \E plan, on \in BOOLEAN : SetMode(plan, on)
            \/ \E plan \in BOOLEAN : SetPlanMode(plan)
            \/ ModeReaches
            \/ \E r \in sending : Deliver(r)
            \/ Cancel
            \/ \E t \in cancelling : CancelCall(t)
            \/ \E b \in BgCalls : StopJob(b) \/ \E t \in Turns : StartJob(b, t)

Turn(t) == \/ Send(t)
           \/ Score(t) \/ AutoPlan(t) \/ AutoPlanReaches(t) \/ NoAutoPlan(t)
           \/ \E blocked \in BOOLEAN : StartRun(t, blocked)
           \/ \E calls \in SUBSET FgCalls : Stream(t, calls)
           \/ \E err \in Err : RunEnds(t, err)
           \/ NoPlan(t) \/ NoProposal(t) \/ Propose(t)
           \/ PlanRefused(t) \/ PlanAccepted(t) \/ UnplanReaches(t)
           \/ Execute(t)
           \/ \E err \in Err : ExecEnds(t, err)
           \/ AutoOff(t) \/ End(t) \/ TurnDone(t)

Next == \/ \E c \in Callers : Bridge(c)
        \/ Frontend
        \/ \E t \in Turns : Turn(t)

Spec == Init /\ [][Next]_vars

\* A cancelled run returns once its batch has: the next stream fails.
CancelledRunEnds(t) ==
    t \in ctxDone /\ \E err \in Err : RunEnds(t, err) \/ ExecEnds(t, err)

\* The steps of the turn's goroutine that wait for nobody.
TurnStep(t) == \/ AutoPlanReaches(t) \/ NoAutoPlan(t) \/ NoPlan(t) \/ NoProposal(t)
               \/ \E blocked \in BOOLEAN : StartRun(t, blocked)
               \/ PlanRefused(t) \/ PlanAccepted(t) \/ UnplanReaches(t) \/ Execute(t)
               \/ AutoOff(t) \/ End(t) \/ TurnDone(t)

\* Goroutines are scheduled, and a Go mutex does not starve a waiter; nothing
\* obliges the user to answer, to cancel or to switch modes.
Fairness ==
    /\ \A c \in Callers : /\ WF_vars(\E key \in Keys, kind \in Kinds : Request(c, kind, key))
                          /\ SF_vars(Lock(c))
                          /\ WF_vars(Recheck(c))
                          /\ WF_vars((\E r \in replies : Receive(c, r)) \/ Abort(c))
    /\ WF_vars(\E r \in sending : Deliver(r))
    /\ WF_vars(ModeReaches)
    /\ \A t \in Turns : /\ WF_vars(CancelCall(t))
                        /\ WF_vars(TurnStep(t))
                        /\ WF_vars(CancelledRunEnds(t))

FairSpec == Spec /\ Fairness

-----------------------------------------------------------------------------
(* Properties *)

TypeOK ==
    /\ tpc \in [Turns -> TurnPc]
    /\ running \in BOOLEAN
    /\ cancelFn \in Turns \cup {0}
    /\ cancelling \in SUBSET Turns
    /\ ctxDone \in SUBSET Turns
    /\ agentOf \in [BgCalls -> Turns \cup {0}]
    /\ stopped \in SUBSET BgCalls
    /\ planMode \in BOOLEAN /\ execPlan \in BOOLEAN
    /\ autoApprove \in BOOLEAN /\ bypass \in BOOLEAN
    /\ granted \in SUBSET (Keys \cup {PlanKey})
    /\ modeCall \in [busy : BOOLEAN, plan : BOOLEAN, ids : SUBSET Ids]
    /\ call \in [Callers -> Call]
    /\ batch \in SUBSET FgCalls
    /\ last \in [BgCalls \cup {PlanGate} -> Outcome]
    /\ holder \in Callers \cup {None}
    /\ approvals \in SUBSET Ids
    /\ asks \in SUBSET Ids
    /\ nextID \in Ids \cup {0}
    /\ sending \in SUBSET Reply
    /\ replies \in SUBSET Reply
    /\ phase \in Phases

\* The user is never shown two prompts: every pending one belongs to the caller
\* that holds promptMu (promptMu's comment, controller.go:99).
OnePromptAtATime ==
    \A id \in approvals \cup asks :
        holder # None /\ call[holder].pc = "waiting" /\ call[holder].id = id

\* Under bypass no approval is pending: none was left waiting when it was
\* switched on, and none that queued meanwhile is shown.
BypassLeavesNothingPending == bypass => approvals = {}

\* A prompt is answered once, so the send on its channel never blocks.
OneReplyPerPrompt ==
    \A r \in sending \cup replies :
        /\ r.id \notin approvals \cup asks
        /\ \A q \in sending \cup replies : q.id = r.id => q = r

\* A call blocked on a prompt can always be released: its prompt is still there to
\* be answered, or its answer is on the way (the drains of SetBypass and SetMode
\* lose none).
EveryWaiterHasAnAnswer ==
    \A c \in Callers : call[c].pc = "waiting" =>
        \/ call[c].id \in approvals \cup asks \cup modeCall.ids
        \/ \E r \in sending \cup replies : r.id = call[c].id

\* Every call that waits gets one answer, through Approve, AnswerQuestion and the drains.
PromptsAreAnsweredOnce == OneReplyPerPrompt /\ EveryWaiterHasAnAnswer

\* One turn at a time, and Cancel is wired to that turn and to no other.
CancelIsWired ==
    \A t \in Turns : tpc[t] \in InBody => running /\ cancelFn = t

\* Auto-approval is on only while an approved plan executes, whatever the
\* outcome of the execution was.
AutoApproveEnds ==
    autoApprove => \E t \in Turns : tpc[t] \in {"exec", "unauto"}

\* A plan is executed only on its own yes, or under bypass: no session grant and
\* no earlier plan's window stands in for it.
PlanNeedsItsOwnYes ==
    \A t \in Turns : tpc[t] \in {"unplan", "approved", "exec"} =>
        last[PlanGate] \in {"yes", "bypass"}

\* Writers run on a plan's go-ahead only in the execute phase of the harness.
ExecutesInExecutePhase ==
    \A t \in Turns : tpc[t] = "exec" => phase = "execute"

\* A plan runs when it may: on its own yes, and with the harness told of it.
PlansRunWhenApproved == PlanNeedsItsOwnYes /\ ExecutesInExecutePhase

\* Switching bypass on releases every call that waits for an approval.
BypassReleases ==
    \A c \in Callers :
        (bypass /\ call[c].pc = "waiting" /\ call[c].kind # "ask") ~> call[c].pc # "waiting"

\* Cancel aborts the turn: a call blocked on a prompt unblocks through the
\* cancelled context and the turn reports TurnDone (Cancel, controller.go:825).
CancelEndsTurn ==
    \A t \in Turns : (t \in ctxDone /\ tpc[t] \in InBody) ~> tpc[t] = "done"
=============================================================================
