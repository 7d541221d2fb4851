---------------------------- MODULE TurnGateProofs ----------------------------
(***************************************************************************)
(* The turn gate, the plan flow and the approval bridge, for any calls,     *)
(* agents, turns and prompts: the types, one prompt at a time, bypass, one  *)
(* answer to each prompt, and plans that run on their own approval only.    *)
(*                                                                         *)
(* The invariant has four parts that lean on one another in one direction:  *)
(* the room left for prompts, the prompts themselves, the turn in flight,   *)
(* and the plan, which needs the turn.                                     *)
(***************************************************************************)
EXTENDS TurnGate, FiniteSetTheorems, TLAPS

-----------------------------------------------------------------------------
(* The invariant *)

\* Every call that queues, or is still to be made, has a number left for its prompt.
RoomLeft == nextID + Cardinality(Queued) + Cardinality(batch) <= MaxPrompts

\* promptMu is held by whoever waits; a prompt is pending, taken by a mode switch or
\* answered, and in one of these once; numbers are not reused.
Shown ==
    approvals \cup asks \cup modeCall.ids \cup {r.id : r \in sending \cup replies}
Prompting ==
    /\ \A c \in Callers : call[c].pc = "waiting" => holder = c
    /\ \A id \in Shown : id <= nextID
    /\ \A c \in Callers : call[c].id <= nextID
    /\ modeCall.ids \cap (approvals \cup asks) = {}
    /\ \A r \in sending \cup replies : r.id \notin modeCall.ids
    /\ approvals \cap asks = {}
    /\ ~modeCall.busy => modeCall.ids = {}
    /\ OnePromptAtATime
    /\ BypassLeavesNothingPending
    /\ PromptsAreAnsweredOnce

\* The turn in flight is the only one, and the harness is in a phase that fits.
InFlight ==
    /\ CancelIsWired
    /\ AutoApproveEnds
    /\ \A t \in Turns : tpc[t] \in {"run", "gate", "planning", "unplan"} => phase \in {"plan", "execute"}
    /\ \A t \in Turns : tpc[t] \in {"approved", "exec"} => phase = "execute"

\* Nothing grants a plan for the session, and only a planning turn asks for one.
Planned ==
    /\ PlanKey \notin granted
    /\ \A c \in Callers : call[c].pc # "calm" /\ call[c].kind = "tool" => call[c].key \in Keys
    /\ call[PlanGate].pc # "calm" =>
          /\ call[PlanGate].kind = "plan" /\ call[PlanGate].key = PlanKey
          /\ \E t \in Turns : tpc[t] = "planning"
    /\ \A t \in Turns : tpc[t] = "planning" /\ call[PlanGate].pc = "calm" =>
          last[PlanGate] \in {"bypass", "yes", "no", "err"}
    /\ PlanNeedsItsOwnYes

IInv == TypeOK /\ RoomLeft /\ Prompting /\ InFlight /\ Planned

-----------------------------------------------------------------------------
(* What the steps of a call do *)

Known == Keys \cup {PlanKey}
KindsOf == {"tool", "ask", "plan"}

LEMMA FreeIsOutcome ==
    ASSUME NEW kind, NEW key
    PROVE  /\ Free(kind, key) \in {"none", "bypass", "auto", "grant"}
           /\ Free(kind, key) = "none" => ~bypass
BY DEF Free

LEMMA CallerKinds ==
    /\ FgCalls \subseteq Callers /\ BgCalls \subseteq Callers /\ PlanGate \in Callers
    /\ None \notin Callers
    /\ PlanGate \notin FgCalls /\ PlanGate \notin BgCalls
    /\ BgCalls \cap FgCalls = {}
BY TurnGateAssumption DEF Callers

LEMMA EnterEffect ==
    ASSUME TypeOK, NEW c \in Callers, NEW kind \in KindsOf, NEW key \in Known, Enter(c, kind, key)
    PROVE  /\ call' \in [Callers -> Call] /\ last' \in [BgCalls \cup {PlanGate} -> Outcome]
           /\ call[c].pc = "calm" /\ \A d \in Callers \ {c} : call'[d] = call[d]
           /\ \/ Free(kind, key) # "none" /\ call' = call
              \/ /\ Free(kind, key) = "none"
                 /\ call'[c] = [pc |-> "queued", kind |-> kind, key |-> key, id |-> 0]
           /\ \A k \in (BgCalls \cup {PlanGate}) \ {c} : last'[k] = last[k]
           /\ c \in BgCalls \cup {PlanGate} => last'[c] = Free(kind, key)
<1>1. [pc |-> "queued", kind |-> kind, key |-> key, id |-> 0] \in Call
  BY DEF Call, CallPc, Kind, KindsOf, Known
<1>2. Free(kind, key) \in Outcome
  BY FreeIsOutcome DEF Outcome
<1>3. call \in [Callers -> Call] /\ last \in [BgCalls \cup {PlanGate} -> Outcome]
  BY DEF TypeOK
<1> QED BY <1>1, <1>2, <1>3 DEF Enter, Told

LEMMA EnterQueues ==
    ASSUME TypeOK, NEW c \in Callers, NEW kind \in KindsOf, NEW key \in Known, Enter(c, kind, key)
    PROVE  /\ call[c].pc = "calm" /\ \A d \in Callers \ {c} : call'[d] = call[d]
           /\ \/ call' = call
              \/ call'[c].pc = "queued" /\ call'[c].id = 0
<1>1. /\ call[c].pc = "calm" /\ \A d \in Callers \ {c} : call'[d] = call[d]
      /\ call' = call \/ call'[c] = [pc |-> "queued", kind |-> kind, key |-> key, id |-> 0]
  BY EnterEffect
<1> QED BY <1>1

LEMMA RecheckEffect ==
    ASSUME TypeOK, NEW c \in Callers, Recheck(c)
    PROVE  /\ call' \in [Callers -> Call \cup [pc : CallPc, kind : Kind, key : Known, id : {nextID + 1}]]
           /\ last' \in [BgCalls \cup {PlanGate} -> Outcome]
           /\ call[c].pc = "queued" /\ holder = c /\ \A d \in Callers \ {c} : call'[d] = call[d]
           /\ \/ /\ Again(c) # "none"
                 /\ call'[c] = Calm /\ holder' = None
                 /\ UNCHANGED <<approvals, asks, nextID>>
                 /\ \A k \in (BgCalls \cup {PlanGate}) \ {c} : last'[k] = last[k]
                 /\ c \in BgCalls \cup {PlanGate} => last'[c] = Again(c)
              \/ /\ Again(c) = "none"
                 /\ nextID' = nextID + 1
                 /\ call'[c].pc = "waiting" /\ call'[c].id = nextID + 1
                 /\ call'[c].kind = call[c].kind /\ call'[c].key = call[c].key
                 /\ UNCHANGED <<last, holder>>
                 /\ \/ asks' = asks \cup {nextID + 1} /\ UNCHANGED approvals
                    \/ approvals' = approvals \cup {nextID + 1} /\ UNCHANGED asks
           /\ UNCHANGED <<batch, turnVars, modeVars, sending, replies, jobVars, granted, phase>>
<1>1. /\ call \in [Callers -> Call] /\ last \in [BgCalls \cup {PlanGate} -> Outcome]
      /\ call[c] \in Call /\ Calm \in Call
  BY DEF TypeOK, Calm, Call, CallPc, Kind
<1>2. Again(c) \in Outcome
  BY FreeIsOutcome DEF Again, Outcome
<1>3. CASE Again(c) # "none"
  BY <1>1, <1>2, <1>3 DEF Recheck, Told
<1>4. CASE Again(c) = "none"
  <2>1. /\ nextID' = nextID + 1 /\ call' = [call EXCEPT ![c].pc = "waiting", ![c].id = nextID + 1]
        /\ UNCHANGED <<last, holder>> /\ call[c].pc = "queued" /\ holder = c
        /\ \/ asks' = asks \cup {nextID + 1} /\ UNCHANGED approvals
           \/ approvals' = approvals \cup {nextID + 1} /\ UNCHANGED asks
    BY <1>4 DEF Recheck
  <2>2. [[call[c] EXCEPT !.pc = "waiting"] EXCEPT !.id = nextID + 1]
           \in [pc : CallPc, kind : Kind, key : Known, id : {nextID + 1}]
    BY <1>1 DEF Call, CallPc, Known
  <2>3. /\ call' \in [Callers -> Call \cup [pc : CallPc, kind : Kind, key : Known, id : {nextID + 1}]]
        /\ call'[c] = [[call[c] EXCEPT !.pc = "waiting"] EXCEPT !.id = nextID + 1]
        /\ \A d \in Callers \ {c} : call'[d] = call[d]
    BY <1>1, <2>1, <2>2
  <2>4. /\ call'[c].pc = "waiting" /\ call'[c].id = nextID + 1
        /\ call'[c].kind = call[c].kind /\ call'[c].key = call[c].key
    BY <1>1, <2>3 DEF Call
  <2>5. UNCHANGED <<batch, turnVars, modeVars, sending, replies, jobVars, granted, phase>>
    BY DEF Recheck
  <2> QED BY <1>1, <1>4, <2>1, <2>3, <2>4, <2>5
<1> QED BY <1>3, <1>4

\* A call that received its reply or saw its context end is calm and lets go of promptMu.
LEMMA ReceiveEffect ==
    ASSUME TypeOK, NEW c \in Callers, NEW r \in replies, Receive(c, r)
    PROVE  /\ call' \in [Callers -> Call] /\ last' \in [BgCalls \cup {PlanGate} -> Outcome]
           /\ call[c].pc = "waiting" /\ r.id = call[c].id /\ call'[c] = Calm /\ holder' = None
           /\ \A d \in Callers \ {c} : call'[d] = call[d]
           /\ \A k \in (BgCalls \cup {PlanGate}) \ {c} : last'[k] = last[k]
           /\ c \in BgCalls \cup {PlanGate} => last'[c] \in {"no", "yes"}
           /\ replies' = replies \ {r}
           /\ granted' \in SUBSET Known
           /\ \A key \in granted' \ granted : key = call[c].key /\ call[c].kind = "tool"
           /\ UNCHANGED <<batch, turnVars, modeVars, approvals, asks, nextID, sending, jobVars, phase>>
<1>1. /\ call \in [Callers -> Call] /\ last \in [BgCalls \cup {PlanGate} -> Outcome]
      /\ Calm \in Call /\ granted \in SUBSET Known /\ call[c].key \in Known
  BY DEF TypeOK, Calm, Call, CallPc, Kind, Known
<1> QED BY <1>1 DEF Receive, Told, Outcome, Grants

LEMMA AbortEffect ==
    ASSUME TypeOK, NEW c \in Callers, Abort(c)
    PROVE  /\ call' \in [Callers -> Call] /\ last' \in [BgCalls \cup {PlanGate} -> Outcome]
           /\ call[c].pc = "waiting" /\ call'[c] = Calm /\ holder' = None
           /\ \A d \in Callers \ {c} : call'[d] = call[d]
           /\ \A k \in (BgCalls \cup {PlanGate}) \ {c} : last'[k] = last[k]
           /\ c \in BgCalls \cup {PlanGate} => last'[c] = "err"
           /\ approvals' = approvals \ {call[c].id} /\ asks' = asks \ {call[c].id}
           /\ UNCHANGED <<batch, turnVars, modeVars, nextID, sending, replies, jobVars, granted, phase>>
<1>1. /\ call \in [Callers -> Call] /\ last \in [BgCalls \cup {PlanGate} -> Outcome]
      /\ Calm \in Call
  BY DEF TypeOK, Calm, Call, CallPc, Kind
<1> QED BY <1>1 DEF Abort, Told, Outcome

-----------------------------------------------------------------------------
(* Types, and the room left for prompts *)

LEMMA Finite ==
    TypeOK => /\ IsFiniteSet(Queued) /\ Cardinality(Queued) \in Nat
              /\ IsFiniteSet(batch) /\ Cardinality(batch) \in Nat
<1> SUFFICES ASSUME TypeOK
             PROVE  IsFiniteSet(Queued) /\ IsFiniteSet(batch)
  BY FS_CardinalityType
<1>1. IsFiniteSet(Callers)
  BY FS_Union, FS_Singleton, TurnGateAssumption DEF Callers
<1>2. Queued \subseteq Callers /\ batch \subseteq FgCalls
  BY DEF Queued, TypeOK
<1> QED BY <1>1, <1>2, FS_Subset, TurnGateAssumption

\* A queued call has the next number within the bound.
LEMMA NextIsFree ==
    ASSUME TypeOK, RoomLeft, NEW c \in Callers, call[c].pc = "queued"
    PROVE  nextID + 1 \in Ids
<1>1. Queued # {} /\ Cardinality(Queued) # 0
  BY Finite, FS_EmptySet DEF Queued
<1> QED BY <1>1, Finite, TurnGateAssumption DEF RoomLeft, TypeOK, Ids

LEMMA TypeStep == TypeOK /\ RoomLeft /\ [Next]_vars => TypeOK'
<1> USE DEF turnVars, modeVars, promptVars, jobVars, callVars
<1> SUFFICES ASSUME TypeOK, RoomLeft, [Next]_vars PROVE TypeOK'
  OBVIOUS
<1>1. ASSUME NEW c \in Callers, NEW kind \in Kinds, NEW key \in Keys, Request(c, kind, key)
      PROVE  TypeOK'
  <2>1. Enter(c, kind, key) /\ kind \in KindsOf /\ key \in Known
    BY <1>1 DEF Request, Kinds, KindsOf, Known
  <2>2. call' \in [Callers -> Call] /\ last' \in [BgCalls \cup {PlanGate} -> Outcome]
    BY <2>1, EnterEffect
  <2> QED BY <1>1, <2>2 DEF Request, TypeOK
<1>2. ASSUME NEW b \in BgCalls, NEW key \in Keys, AgentRequest(b, key) PROVE TypeOK'
  <2>1. Enter(b, "tool", key) /\ "tool" \in KindsOf /\ key \in Known /\ b \in Callers
    BY <1>2, CallerKinds DEF AgentRequest, KindsOf, Known
  <2>2. call' \in [Callers -> Call] /\ last' \in [BgCalls \cup {PlanGate} -> Outcome]
    BY <2>1, EnterEffect
  <2> QED BY <1>2, <2>2 DEF AgentRequest, TypeOK
<1>3. ASSUME NEW c \in Callers, Lock(c) PROVE TypeOK'
  BY <1>3 DEF Lock, MutexFree, TypeOK
<1>4. ASSUME NEW c \in Callers, Recheck(c) PROVE TypeOK'
  <2>1. call[c].pc = "queued" /\ nextID + 1 \in Ids
    BY <1>4, RecheckEffect, NextIsFree
  <2>2. Call \cup [pc : CallPc, kind : Kind, key : Known, id : {nextID + 1}] = Call
    BY <2>1 DEF Call, Known
  <2>3. call' \in [Callers -> Call] /\ last' \in [BgCalls \cup {PlanGate} -> Outcome]
    BY <1>4, <2>2, RecheckEffect
  <2>4. holder' \in Callers \cup {None} /\ nextID' \in Ids \cup {0}
    BY <1>4, <2>1, RecheckEffect DEF TypeOK
  <2>5. approvals' \in SUBSET Ids /\ asks' \in SUBSET Ids
    BY <1>4, <2>1, RecheckEffect DEF TypeOK
  <2>6. UNCHANGED <<batch, turnVars, modeVars, sending, replies, jobVars, granted, phase>>
    BY <1>4, RecheckEffect
  <2> QED BY <2>3, <2>4, <2>5, <2>6 DEF TypeOK
<1>5. ASSUME NEW c \in Callers, NEW r \in replies, Receive(c, r) PROVE TypeOK'
  BY <1>5, ReceiveEffect DEF TypeOK, Known
<1>6. ASSUME NEW c \in Callers, Abort(c) PROVE TypeOK'
  BY <1>6, AbortEffect DEF TypeOK
<1>7. ASSUME NEW id \in approvals, NEW verdict \in Verdict, Approve(id, verdict) PROVE TypeOK'
  BY <1>7 DEF Approve, Taken, TypeOK, Reply
<1>8. ASSUME NEW id \in asks, AnswerQuestion(id) PROVE TypeOK'
  BY <1>8 DEF AnswerQuestion, Taken, TypeOK, Reply, Verdict
<1>9. ASSUME NEW on \in BOOLEAN, SetBypass(on) PROVE TypeOK'
  <2>1. Drained(on) \subseteq Ids /\ AllowAll(Drained(on)) \subseteq Reply
    BY DEF Drained, AllowAll, TypeOK, Reply, Verdict
  <2> QED BY <1>9, <2>1 DEF SetBypass, TypeOK
<1>10. ASSUME NEW plan \in BOOLEAN, NEW on \in BOOLEAN, SetMode(plan, on) PROVE TypeOK'
  <2>1. Drained(on) \subseteq Ids
    BY DEF Drained, TypeOK
  <2> QED BY <1>10, <2>1 DEF SetMode, TypeOK
<1>11. ASSUME NEW plan \in BOOLEAN, SetPlanMode(plan) PROVE TypeOK'
  BY <1>11 DEF SetPlanMode, TypeOK
<1>12. CASE ModeReaches
  <2>1. AllowAll(modeCall.ids) \subseteq Reply
    BY DEF AllowAll, TypeOK, Reply, Verdict
  <2> QED BY <1>12, <2>1 DEF ModeReaches, NoMode, TypeOK
<1>13. ASSUME NEW r \in sending, Deliver(r) PROVE TypeOK'
  BY <1>13 DEF Deliver, TypeOK
<1>14. CASE Cancel
  BY <1>14 DEF Cancel, TypeOK
<1>15. ASSUME NEW t \in cancelling, CancelCall(t) PROVE TypeOK'
  BY <1>15 DEF CancelCall, TypeOK
<1>16. ASSUME NEW b \in BgCalls, StopJob(b) PROVE TypeOK'
  BY <1>16 DEF StopJob, TypeOK
<1>17. ASSUME NEW b \in BgCalls, NEW t \in Turns, StartJob(b, t) PROVE TypeOK'
  BY <1>17 DEF StartJob, TypeOK
<1>18. ASSUME NEW t \in Turns, Send(t) PROVE TypeOK'
  BY <1>18 DEF Send, Go, TurnPc, TypeOK
<1>19. ASSUME NEW t \in Turns, Score(t) \/ AutoPlan(t) \/ AutoPlanReaches(t) \/ NoAutoPlan(t)
       PROVE  TypeOK'
  BY <1>19 DEF Score, AutoPlan, AutoPlanReaches, NoAutoPlan, Go, TurnPc, TypeOK
<1>20. ASSUME NEW t \in Turns, NEW blocked \in BOOLEAN, StartRun(t, blocked) PROVE TypeOK'
  BY <1>20 DEF StartRun, Go, TurnPc, Phases, TypeOK
<1>21. ASSUME NEW t \in Turns, NEW calls \in SUBSET FgCalls, Stream(t, calls) PROVE TypeOK'
  BY <1>21 DEF Stream, TypeOK
<1> HIDE DEF turnVars, modeVars, promptVars, jobVars, callVars
<1>0. \A from \in Phases : \A ev : Transition(from, ev) \in Phases
  BY DEF Transition, Phases
<1>22. ASSUME NEW t \in Turns, NEW err \in Err, RunEnds(t, err) \/ ExecEnds(t, err) PROVE TypeOK'
  <2>1. phase' \in Phases
    BY <1>0, <1>22 DEF RunEnds, ExecEnds, AfterRun, TypeOK
  <2>2. tpc' \in [Turns -> TurnPc]
    BY <1>22 DEF RunEnds, ExecEnds, Deferred, Go, TurnPc, TypeOK
  <2>3. UNCHANGED <<running, cancelFn, cancelling, ctxDone, modeVars, promptVars, jobVars, granted,
                    callVars, last, holder>>
    BY <1>22 DEF RunEnds, ExecEnds
  <2> QED BY <2>1, <2>2, <2>3 DEF TypeOK, modeVars, promptVars, jobVars, callVars
<1>23. ASSUME NEW t \in Turns, NoPlan(t) \/ NoProposal(t) PROVE TypeOK'
  <2>1. phase' \in Phases
    BY <1>0, <1>23 DEF NoPlan, NoProposal, TypeOK
  <2>2. tpc' \in [Turns -> TurnPc]
    BY <1>23 DEF NoPlan, NoProposal, Go, TurnPc, TypeOK
  <2>3. UNCHANGED <<running, cancelFn, cancelling, ctxDone, modeVars, promptVars, jobVars, granted,
                    callVars, last, holder>>
    BY <1>23 DEF NoPlan, NoProposal
  <2> QED BY <2>1, <2>2, <2>3 DEF TypeOK, modeVars, promptVars, jobVars, callVars
<1>24. ASSUME NEW t \in Turns, Propose(t) PROVE TypeOK'
  <2>1. Enter(PlanGate, "plan", PlanKey) /\ tpc' \in [Turns -> TurnPc]
    BY <1>24 DEF Propose, Go, TurnPc, TypeOK
  <2>2. call' \in [Callers -> Call] /\ last' \in [BgCalls \cup {PlanGate} -> Outcome]
    BY <2>1, EnterEffect, CallerKinds DEF KindsOf, Known
  <2>3. UNCHANGED <<batch, running, cancelFn, cancelling, ctxDone, modeVars, promptVars,
                    jobVars, granted, holder, phase>>
    BY <1>24 DEF Propose
  <2> QED BY <2>1, <2>2, <2>3 DEF TypeOK, modeVars, promptVars, jobVars
<1>25. ASSUME NEW t \in Turns, PlanRefused(t) PROVE TypeOK'
  <2>1. phase' \in Phases
    BY <1>0, <1>25 DEF PlanRefused, TypeOK
  <2>2. tpc' \in [Turns -> TurnPc]
    BY <1>25 DEF PlanRefused, Go, TurnPc, TypeOK
  <2>3. UNCHANGED <<running, cancelFn, cancelling, ctxDone, modeVars, promptVars, jobVars, granted,
                    callVars, last, holder>>
    BY <1>25 DEF PlanRefused
  <2> QED BY <2>1, <2>2, <2>3 DEF TypeOK, modeVars, promptVars, jobVars, callVars
<1>26. ASSUME NEW t \in Turns, PlanAccepted(t) \/ Execute(t) \/ AutoOff(t) \/ TurnDone(t) PROVE TypeOK'
  BY <1>26 DEF PlanAccepted, Execute, AutoOff, TurnDone, Go, TurnPc, TypeOK, modeVars, promptVars,
               jobVars, callVars
<1>27. ASSUME NEW t \in Turns, UnplanReaches(t) PROVE TypeOK'
  <2>1. phase' \in Phases /\ tpc' \in [Turns -> TurnPc] /\ execPlan' \in BOOLEAN
    BY <1>0, <1>27 DEF UnplanReaches, Go, TurnPc, TypeOK
  <2> QED BY <1>27, <2>1 DEF UnplanReaches, TypeOK, promptVars, jobVars, callVars
<1>28. ASSUME NEW t \in Turns, End(t) PROVE TypeOK'
  BY <1>28 DEF End, Go, TurnPc, TypeOK, modeVars, promptVars, jobVars, callVars
<1>29. CASE UNCHANGED vars
  BY <1>29 DEF vars, turnVars, modeVars, promptVars, jobVars, callVars, TypeOK
<1> QED BY <1>1, <1>2, <1>3, <1>4, <1>5, <1>6, <1>7, <1>8, <1>9, <1>10, <1>11, <1>12, <1>13, <1>14,
           <1>15, <1>16, <1>17, <1>18, <1>19, <1>20, <1>21, <1>22, <1>23, <1>24, <1>25, <1>26, <1>27,
           <1>28, <1>29
        DEF Next, Bridge, Frontend, Turn

\* The calls that queue and the batch, seen as one count.
LEMMA RoomStays ==
    ASSUME RoomLeft, UNCHANGED <<call, batch, nextID>>
    PROVE  RoomLeft'
BY DEF RoomLeft, Queued

\* A call leaves the queue, and takes a number or none.
LEMMA RoomKept ==
    ASSUME TypeOK, RoomLeft, NEW c \in Callers, call[c].pc = "queued", call'[c].pc # "queued",
           \A d \in Callers \ {c} : call'[d] = call[d], batch' = batch,
           nextID' \in {nextID, nextID + 1}
    PROVE  RoomLeft'
<1>1. Queued' = Queued \ {c} /\ c \in Queued
  BY DEF Queued
<1>2. Cardinality(Queued') = Cardinality(Queued) - 1
  BY <1>1, Finite, FS_RemoveElement
<1>3. nextID \in Nat /\ MaxPrompts \in Nat
  BY TurnGateAssumption DEF TypeOK, Ids
<1> QED BY <1>2, <1>3, Finite DEF RoomLeft

\* A call may join the queue: it was counted in the batch, or there was room for one more.
LEMMA RoomUsed ==
    ASSUME TypeOK, RoomLeft, NEW c \in Callers, call[c].pc = "calm",
           \A d \in Callers \ {c} : call'[d] = call[d], nextID' = nextID,
           \/ c \in batch /\ batch' = batch \ {c}
           \/ Room(1) /\ batch' = batch
    PROVE  RoomLeft'
<1>1. /\ c \notin Queued /\ (Queued' = Queued \/ Queued' = Queued \cup {c})
      /\ Queued' \subseteq Queued \cup {c}
  BY DEF Queued
<1>2. Cardinality(Queued') \in {Cardinality(Queued), Cardinality(Queued) + 1}
  BY <1>1, Finite, FS_AddElement
<1>3. nextID \in Nat /\ MaxPrompts \in Nat
  BY TurnGateAssumption DEF TypeOK, Ids
<1>4. CASE c \in batch /\ batch' = batch \ {c}
  <2>1. Cardinality(batch') = Cardinality(batch) - 1
    BY <1>4, Finite, FS_RemoveElement
  <2> QED BY <1>2, <1>3, <2>1, Finite DEF RoomLeft
<1>5. CASE Room(1) /\ batch' = batch
  BY <1>2, <1>3, <1>5, Finite DEF RoomLeft, Room
<1> QED BY <1>4, <1>5

LEMMA RoomStep == TypeOK /\ RoomLeft /\ [Next]_vars => RoomLeft'
<1> SUFFICES ASSUME TypeOK, RoomLeft, [Next]_vars PROVE RoomLeft'
  OBVIOUS
<1>1. ASSUME NEW c \in Callers, NEW kind \in Kinds, NEW key \in Keys, Request(c, kind, key)
      PROVE  RoomLeft'
  <2>1. Enter(c, kind, key) /\ kind \in KindsOf /\ key \in Known
    BY <1>1 DEF Request, Kinds, KindsOf, Known
  <2>2. c \in batch /\ batch' = batch \ {c} /\ nextID' = nextID
    BY <1>1 DEF Request, promptVars
  <2> QED BY <2>1, <2>2, EnterEffect, RoomUsed
<1>2. ASSUME NEW b \in BgCalls, NEW key \in Keys, AgentRequest(b, key) PROVE RoomLeft'
  <2>1. Enter(b, "tool", key) /\ key \in Known /\ b \in Callers
    BY <1>2, CallerKinds DEF AgentRequest, Known
  <2>2. Room(1) /\ batch' = batch /\ nextID' = nextID
    BY <1>2 DEF AgentRequest, promptVars
  <2> QED BY <2>1, <2>2, EnterEffect, RoomUsed DEF KindsOf
<1>3. ASSUME NEW c \in Callers, Recheck(c) PROVE RoomLeft'
  <2>1. nextID' \in {nextID, nextID + 1} /\ batch' = batch /\ call'[c].pc # "queued"
    BY <1>3, RecheckEffect DEF Calm
  <2> QED BY <1>3, <2>1, RecheckEffect, RoomKept
<1>4. ASSUME NEW c \in Callers, Abort(c) \/ \E r \in replies : Receive(c, r) PROVE RoomLeft'
  <2>1. /\ call[c].pc # "queued" /\ call'[c].pc # "queued"
        /\ \A d \in Callers \ {c} : call'[d] = call[d]
        /\ UNCHANGED <<nextID, batch>>
    BY <1>4, ReceiveEffect, AbortEffect DEF Calm
  <2>2. Queued' = Queued
    BY <2>1 DEF Queued
  <2> QED BY <2>1, <2>2 DEF RoomLeft
<1>5. ASSUME NEW t \in Turns, Propose(t) PROVE RoomLeft'
  <2>1. Enter(PlanGate, "plan", PlanKey) /\ Room(1) /\ batch' = batch /\ nextID' = nextID
    BY <1>5 DEF Propose, promptVars
  <2> QED BY <2>1, EnterEffect, RoomUsed, CallerKinds DEF KindsOf, Known
<1>6. ASSUME NEW t \in Turns, NEW calls \in SUBSET FgCalls, Stream(t, calls) PROVE RoomLeft'
  <2>1. /\ nextID' = nextID /\ call' = call /\ batch = {} /\ batch' = calls
        /\ Room(Cardinality(calls))
    BY <1>6 DEF Stream, promptVars, FgCalm
  <2>2. Queued' = Queued /\ Cardinality(batch) = 0
    BY <2>1, FS_EmptySet DEF Queued
  <2>3. IsFiniteSet(calls) /\ Cardinality(calls) \in Nat
    BY FS_Subset, FS_CardinalityType, TurnGateAssumption
  <2>4. nextID \in Nat /\ MaxPrompts \in Nat
    BY TurnGateAssumption DEF TypeOK, Ids
  <2> QED BY <2>1, <2>2, <2>3, <2>4, Finite DEF RoomLeft, Room
<1>7. CASE UNCHANGED <<call, batch, nextID>>
  BY <1>7, RoomStays
<1>8. ASSUME NEW c \in Callers, Lock(c) PROVE RoomLeft'
  BY <1>7, <1>8 DEF Lock, callVars, promptVars
<1>9. CASE Frontend
  <2>1. UNCHANGED <<call, batch, nextID>>
    BY <1>9 DEF Frontend, Approve, AnswerQuestion, SetBypass, SetMode, SetPlanMode, ModeReaches,
       Deliver, Cancel, CancelCall, StopJob, StartJob, callVars, promptVars
  <2> QED BY <1>7, <2>1
<1>10. ASSUME NEW t \in Turns, Turn(t), ~Propose(t), \A calls \in SUBSET FgCalls : ~Stream(t, calls)
       PROVE  RoomLeft'
  <2>1. UNCHANGED <<call, batch, nextID>>
    BY <1>10 DEF Turn, Send, Score, AutoPlan, AutoPlanReaches, NoAutoPlan, StartRun, RunEnds, NoPlan,
       NoProposal, PlanRefused, PlanAccepted, UnplanReaches, Execute, ExecEnds, AutoOff, End, TurnDone,
       callVars, promptVars
  <2> QED BY <1>7, <2>1
<1>11. CASE UNCHANGED vars
  BY <1>7, <1>11 DEF vars, callVars, promptVars
<1> QED BY <1>1, <1>2, <1>3, <1>4, <1>5, <1>6, <1>8, <1>9, <1>10, <1>11 DEF Next, Bridge

-----------------------------------------------------------------------------
(* The prompts *)

LEMMA PromptingStays ==
    ASSUME Prompting, UNCHANGED <<call, holder, approvals, asks, nextID, sending, replies, modeCall, bypass>>
    PROVE  Prompting'
BY DEF Prompting, Shown, OnePromptAtATime, BypassLeavesNothingPending, PromptsAreAnsweredOnce,
       OneReplyPerPrompt, EveryWaiterHasAnAnswer

\* Joining the queue, or being let through, shows nothing.
LEMMA PromptingQueues ==
    ASSUME TypeOK, Prompting, NEW c \in Callers, call[c].pc = "calm",
           \A d \in Callers \ {c} : call'[d] = call[d],
           \/ call' = call
           \/ call'[c].pc = "queued" /\ call'[c].id = 0,
           UNCHANGED <<holder, approvals, asks, nextID, sending, replies, modeCall, bypass>>
    PROVE  Prompting'
<1>1. nextID \in Nat
  BY DEF TypeOK, Ids
<1>2. Shown' = Shown
  BY DEF Shown
<1>3. OnePromptAtATime'
  BY DEF OnePromptAtATime, Prompting, TypeOK
<1>4. PromptsAreAnsweredOnce'
  BY DEF PromptsAreAnsweredOnce, OneReplyPerPrompt, EveryWaiterHasAnAnswer, Prompting
<1> QED BY <1>1, <1>2, <1>3, <1>4 DEF Prompting, BypassLeavesNothingPending

LEMMA PromptingLocks ==
    ASSUME TypeOK, Prompting, NEW c \in Callers, Lock(c)
    PROVE  Prompting'
<1>1. /\ holder = None /\ UNCHANGED <<call, approvals, asks, nextID, sending, replies, modeCall, bypass>>
  BY DEF Lock, MutexFree, promptVars, callVars, modeVars
<1>2. approvals \cup asks = {} /\ \A d \in Callers : call[d].pc # "waiting"
  BY <1>1, CallerKinds DEF Prompting, OnePromptAtATime
<1>3. Shown' = Shown
  BY <1>1 DEF Shown
<1> QED BY <1>1, <1>2, <1>3 DEF Prompting, OnePromptAtATime, BypassLeavesNothingPending,
     PromptsAreAnsweredOnce, OneReplyPerPrompt, EveryWaiterHasAnAnswer

LEMMA PromptingRechecks ==
    ASSUME TypeOK, Prompting, NEW c \in Callers, Recheck(c)
    PROVE  Prompting'
<1>1. /\ call[c].pc = "queued" /\ holder = c /\ \A d \in Callers \ {c} : call'[d] = call[d]
      /\ UNCHANGED <<sending, replies, modeCall, bypass>>
  BY RecheckEffect DEF modeVars
<1>2. approvals \cup asks = {} /\ \A d \in Callers : call[d].pc # "waiting"
  BY <1>1, CallerKinds DEF Prompting, OnePromptAtATime
<1>3. nextID \in Nat /\ \A d \in Callers : call[d].id \in Nat
  BY DEF TypeOK, Ids, Call
<1>4. CASE Again(c) # "none"
  <2>1. call'[c] = Calm /\ UNCHANGED <<approvals, asks, nextID>>
    BY <1>4, RecheckEffect
  <2>2. Shown' = Shown
    BY <1>1, <2>1 DEF Shown
  <2> QED BY <1>1, <1>2, <1>3, <2>1, <2>2 DEF Prompting, OnePromptAtATime, BypassLeavesNothingPending,
       PromptsAreAnsweredOnce, OneReplyPerPrompt, EveryWaiterHasAnAnswer, Calm
<1>5. CASE Again(c) = "none"
  <2>1. /\ nextID' = nextID + 1 /\ call'[c].pc = "waiting" /\ call'[c].id = nextID + 1 /\ holder' = c
        /\ \/ asks' = {nextID + 1} /\ approvals' = {}
           \/ approvals' = {nextID + 1} /\ asks' = {}
    BY <1>1, <1>2, <1>5, RecheckEffect
  <2>2. ~bypass
    BY <1>5, FreeIsOutcome DEF Again
  <2>3. /\ \A id \in Shown : id <= nextID /\ id \in Nat
        /\ Shown' = Shown \cup {nextID + 1}
    <3>1. Shown \subseteq Ids
      BY DEF Shown, TypeOK, Reply
    <3>2. Shown' = approvals' \cup asks' \cup modeCall.ids \cup {r.id : r \in sending \cup replies}
      BY <1>1 DEF Shown
    <3> QED BY <1>2, <2>1, <3>1, <3>2 DEF Shown, Prompting, Ids
  <2>4. nextID + 1 \notin Shown
    BY <1>3, <2>3
  <2>5. nextID + 1 \notin modeCall.ids /\ \A r \in sending \cup replies : r.id # nextID + 1
    BY <2>4 DEF Shown
  <2>6. (\A id \in Shown' : id <= nextID') /\ \A d \in Callers : call'[d].id <= nextID'
    BY <1>1, <1>3, <2>1, <2>3 DEF Prompting
  <2>7. OnePromptAtATime' /\ BypassLeavesNothingPending'
    BY <1>1, <2>1, <2>2, CallerKinds DEF OnePromptAtATime, BypassLeavesNothingPending
  <2>8. PromptsAreAnsweredOnce'
    BY <1>1, <1>2, <2>1, <2>5 DEF Prompting, PromptsAreAnsweredOnce, OneReplyPerPrompt, EveryWaiterHasAnAnswer
  <2> QED BY <1>1, <1>2, <2>1, <2>5, <2>6, <2>7, <2>8 DEF Prompting
<1> QED BY <1>4, <1>5

LEMMA PromptingReceives ==
    ASSUME TypeOK, Prompting, NEW c \in Callers, NEW r \in replies, Receive(c, r)
    PROVE  Prompting'
<1>1. /\ call[c].pc = "waiting" /\ r.id = call[c].id /\ call'[c] = Calm /\ holder' = None
      /\ \A d \in Callers \ {c} : call'[d] = call[d]
      /\ replies' = replies \ {r}
      /\ UNCHANGED <<approvals, asks, nextID, sending, modeCall, bypass>>
  BY ReceiveEffect DEF modeVars
<1>2. holder = c /\ \A d \in Callers \ {c} : call[d].pc # "waiting"
  BY <1>1 DEF Prompting
<1>3. approvals \cup asks = {}
  BY <1>1, <1>2 DEF Prompting, OnePromptAtATime, PromptsAreAnsweredOnce, OneReplyPerPrompt
<1>4. Shown' \subseteq Shown /\ nextID \in Nat
  BY <1>1 DEF Shown, TypeOK, Ids
<1> QED BY <1>1, <1>2, <1>3, <1>4 DEF Prompting, OnePromptAtATime, BypassLeavesNothingPending,
     PromptsAreAnsweredOnce, OneReplyPerPrompt, EveryWaiterHasAnAnswer, Calm

LEMMA PromptingAborts ==
    ASSUME TypeOK, Prompting, NEW c \in Callers, Abort(c)
    PROVE  Prompting'
<1>1. /\ call[c].pc = "waiting" /\ call'[c] = Calm /\ holder' = None
      /\ \A d \in Callers \ {c} : call'[d] = call[d]
      /\ approvals' = approvals \ {call[c].id} /\ asks' = asks \ {call[c].id}
      /\ UNCHANGED <<nextID, sending, replies, modeCall, bypass>>
  BY AbortEffect DEF modeVars
<1>2. holder = c /\ \A d \in Callers \ {c} : call[d].pc # "waiting"
  BY <1>1 DEF Prompting
<1>3. approvals' \cup asks' = {}
  BY <1>1, <1>2 DEF Prompting, OnePromptAtATime
<1>4. Shown' \subseteq Shown /\ nextID \in Nat
  BY <1>1 DEF Shown, TypeOK, Ids
<1> QED BY <1>1, <1>2, <1>3, <1>4 DEF Prompting, OnePromptAtATime, BypassLeavesNothingPending,
     PromptsAreAnsweredOnce, OneReplyPerPrompt, EveryWaiterHasAnAnswer, Calm

\* The prompts that a command takes: pending ones are answered, or kept by a mode switch
\* that answers them with its second half.
LEMMA PromptingTakes ==
    ASSUME TypeOK, Prompting, NEW taken \in SUBSET (approvals \cup asks), NEW verdict,
           approvals' \cup asks' = (approvals \cup asks) \ taken,
           approvals' \subseteq approvals, asks' \subseteq asks,
           bypass' => approvals' = {},
           UNCHANGED <<call, holder, nextID, replies>>,
           \/ /\ sending' = sending \cup {[id |-> i, verdict |-> verdict] : i \in taken}
              /\ UNCHANGED modeCall
           \/ /\ sending' = sending /\ ~modeCall.busy
              /\ modeCall'.busy /\ modeCall'.ids = taken
    PROVE  Prompting'
<1>1. /\ \A i \in taken : i \notin modeCall.ids /\ \A r \in sending \cup replies : r.id # i
      /\ taken \cap (approvals' \cup asks') = {}
  BY DEF Prompting, PromptsAreAnsweredOnce, OneReplyPerPrompt
<1>2. Shown' \subseteq Shown
  <2>1. CASE /\ sending' = sending \cup {[id |-> i, verdict |-> verdict] : i \in taken}
             /\ UNCHANGED modeCall
    BY <2>1 DEF Shown
  <2>2. CASE sending' = sending /\ modeCall'.ids = taken
    BY <2>2 DEF Shown
  <2> QED BY <2>1, <2>2
<1>3. OnePromptAtATime' /\ BypassLeavesNothingPending'
  BY DEF Prompting, OnePromptAtATime, BypassLeavesNothingPending
<1>4. OneReplyPerPrompt' /\ \A r \in (sending \cup replies)' : r.id \notin modeCall.ids' 
  <2>1. CASE /\ sending' = sending \cup {[id |-> i, verdict |-> verdict] : i \in taken}
             /\ UNCHANGED modeCall
    BY <1>1, <2>1 DEF Prompting, PromptsAreAnsweredOnce, OneReplyPerPrompt
  <2>2. CASE sending' = sending /\ modeCall'.ids = taken
    BY <1>1, <2>2 DEF Prompting, PromptsAreAnsweredOnce, OneReplyPerPrompt
  <2> QED BY <2>1, <2>2
<1>5. EveryWaiterHasAnAnswer'
  <2> SUFFICES ASSUME NEW c \in Callers, call[c].pc = "waiting"
               PROVE  \/ call[c].id \in approvals' \cup asks' \cup modeCall'.ids
                      \/ \E r \in sending' \cup replies' : r.id = call[c].id
    BY DEF EveryWaiterHasAnAnswer
  <2>1. \/ call[c].id \in approvals \cup asks \cup modeCall.ids
        \/ \E r \in sending \cup replies : r.id = call[c].id
    BY DEF Prompting, PromptsAreAnsweredOnce, EveryWaiterHasAnAnswer
  <2>2. CASE /\ sending' = sending \cup {[id |-> i, verdict |-> verdict] : i \in taken}
             /\ UNCHANGED modeCall
    <3>1. CASE call[c].id \in taken
      <4>1. [id |-> call[c].id, verdict |-> verdict] \in sending'
        BY <2>2, <3>1
      <4> QED BY <4>1
    <3> QED BY <2>1, <2>2, <3>1
  <2>3. CASE sending' = sending /\ ~modeCall.busy /\ modeCall'.ids = taken
    BY <2>1, <2>3 DEF Prompting
  <2> QED BY <2>2, <2>3
<1>6. modeCall'.ids \cap (approvals' \cup asks') = {} /\ (~modeCall'.busy => modeCall'.ids = {})
  BY <1>1 DEF Prompting
<1> QED BY <1>2, <1>3, <1>4, <1>5, <1>6 DEF Prompting, PromptsAreAnsweredOnce

\* The second half of a mode switch answers what its first half took.
LEMMA PromptingReaches ==
    ASSUME TypeOK, Prompting, ModeReaches
    PROVE  Prompting'
<1>1. /\ sending' = sending \cup {[id |-> i, verdict |-> "yes"] : i \in modeCall.ids}
      /\ modeCall'.ids = {} /\ ~modeCall'.busy
      /\ UNCHANGED <<call, holder, approvals, asks, nextID, replies, bypass>>
  BY DEF ModeReaches, AllowAll, NoMode, callVars
<1>2. Shown' \subseteq Shown
  BY <1>1 DEF Shown
<1>3. OneReplyPerPrompt'
  BY <1>1 DEF Prompting, PromptsAreAnsweredOnce, OneReplyPerPrompt
<1>4. EveryWaiterHasAnAnswer'
  <2> SUFFICES ASSUME NEW c \in Callers, call[c].pc = "waiting"
               PROVE  \/ call[c].id \in approvals \cup asks
                      \/ \E r \in sending' \cup replies : r.id = call[c].id
    BY <1>1 DEF EveryWaiterHasAnAnswer
  <2>1. \/ call[c].id \in approvals \cup asks \cup modeCall.ids
        \/ \E r \in sending \cup replies : r.id = call[c].id
    BY DEF Prompting, PromptsAreAnsweredOnce, EveryWaiterHasAnAnswer
  <2>2. CASE call[c].id \in modeCall.ids
    <3>1. [id |-> call[c].id, verdict |-> "yes"] \in sending'
      BY <1>1, <2>2
    <3> QED BY <3>1
  <2> QED BY <1>1, <2>1, <2>2
<1> QED BY <1>1, <1>2, <1>3, <1>4 DEF Prompting, PromptsAreAnsweredOnce, OnePromptAtATime,
     BypassLeavesNothingPending

LEMMA PromptingDelivers ==
    ASSUME TypeOK, Prompting, NEW r \in sending, Deliver(r)
    PROVE  Prompting'
<1>1. /\ sending' \cup replies' = sending \cup replies
      /\ UNCHANGED <<call, holder, approvals, asks, nextID, modeCall, bypass>>
  BY DEF Deliver, callVars, modeVars
<1>2. Shown' = Shown
  BY <1>1 DEF Shown
<1> QED BY <1>1, <1>2 DEF Prompting, OnePromptAtATime, BypassLeavesNothingPending,
     PromptsAreAnsweredOnce, OneReplyPerPrompt, EveryWaiterHasAnAnswer

LEMMA PromptingStep == TypeOK /\ Prompting /\ [Next]_vars => Prompting'
<1> SUFFICES ASSUME TypeOK, Prompting, [Next]_vars PROVE Prompting'
  OBVIOUS
<1>1. ASSUME NEW c \in Callers, NEW kind \in Kinds, NEW key \in Keys, Request(c, kind, key)
      PROVE  Prompting'
  <2>1. Enter(c, kind, key) /\ kind \in KindsOf /\ key \in Known
    BY <1>1 DEF Request, Kinds, KindsOf, Known
  <2>2. UNCHANGED <<holder, approvals, asks, nextID, sending, replies, modeCall, bypass>>
    BY <1>1 DEF Request, promptVars, modeVars
  <2>3. /\ call[c].pc = "calm" /\ \A d \in Callers \ {c} : call'[d] = call[d]
        /\ \/ call' = call
           \/ call'[c].pc = "queued" /\ call'[c].id = 0
    BY <2>1, EnterQueues
  <2> QED BY <2>2, <2>3, PromptingQueues
<1>2. ASSUME NEW b \in BgCalls, NEW key \in Keys, AgentRequest(b, key) PROVE Prompting'
  <2>1. Enter(b, "tool", key) /\ key \in Known /\ b \in Callers
    BY <1>2, CallerKinds DEF AgentRequest, Known
  <2>2. UNCHANGED <<holder, approvals, asks, nextID, sending, replies, modeCall, bypass>>
    BY <1>2 DEF AgentRequest, promptVars, modeVars
  <2>3. /\ call[b].pc = "calm" /\ \A d \in Callers \ {b} : call'[d] = call[d]
        /\ \/ call' = call
           \/ call'[b].pc = "queued" /\ call'[b].id = 0
    BY <2>1, EnterQueues DEF KindsOf
  <2> QED BY <2>1, <2>2, <2>3, PromptingQueues
<1>3. ASSUME NEW t \in Turns, Propose(t) PROVE Prompting'
  <2>1. /\ Enter(PlanGate, "plan", PlanKey)
        /\ UNCHANGED <<holder, approvals, asks, nextID, sending, replies, modeCall, bypass>>
    BY <1>3 DEF Propose, promptVars, modeVars
  <2>2. /\ call[PlanGate].pc = "calm" /\ \A d \in Callers \ {PlanGate} : call'[d] = call[d]
        /\ \/ call' = call
           \/ call'[PlanGate].pc = "queued" /\ call'[PlanGate].id = 0
    BY <2>1, EnterQueues, CallerKinds DEF KindsOf, Known
  <2> QED BY <2>1, <2>2, PromptingQueues, CallerKinds
<1>4. ASSUME NEW c \in Callers, Lock(c) \/ Recheck(c) \/ Abort(c) \/ (\E r \in replies : Receive(c, r))
      PROVE  Prompting'
  BY <1>4, PromptingLocks, PromptingRechecks, PromptingAborts, PromptingReceives
<1>5. ASSUME NEW id \in approvals, NEW verdict \in Verdict, Approve(id, verdict) PROVE Prompting'
  <2>1. /\ approvals' = approvals \ {id} /\ id \notin asks
        /\ sending' = sending \cup {[id |-> i, verdict |-> verdict] : i \in {id}}
        /\ UNCHANGED <<call, holder, nextID, replies, modeCall, asks, bypass>>
    BY <1>5 DEF Approve, Taken, callVars, modeVars, Prompting
  <2>2. bypass' => approvals' = {}
    BY <2>1 DEF Prompting, BypassLeavesNothingPending
  <2>3. {id} \in SUBSET (approvals \cup asks) /\ approvals' \cup asks' = (approvals \cup asks) \ {id}
    BY <2>1
  <2> QED BY <2>1, <2>2, <2>3, PromptingTakes
<1>6. ASSUME NEW id \in asks, AnswerQuestion(id) PROVE Prompting'
  <2>1. /\ asks' = asks \ {id} /\ id \notin approvals
        /\ sending' = sending \cup {[id |-> i, verdict |-> "yes"] : i \in {id}}
        /\ UNCHANGED <<call, holder, nextID, replies, modeCall, approvals, bypass>>
    BY <1>6 DEF AnswerQuestion, Taken, callVars, modeVars, Prompting
  <2>2. bypass' => approvals' = {}
    BY <2>1 DEF Prompting, BypassLeavesNothingPending
  <2>3. {id} \in SUBSET (approvals \cup asks) /\ approvals' \cup asks' = (approvals \cup asks) \ {id}
    BY <2>1
  <2> QED BY <2>1, <2>2, <2>3, PromptingTakes
<1>7. ASSUME NEW on \in BOOLEAN PROVE /\ Drained(on) \in SUBSET (approvals \cup asks)
                                      /\ (approvals \ Drained(on)) \cup asks = (approvals \cup asks) \ Drained(on)
                                      /\ on => approvals \ Drained(on) = {}
  BY DEF Drained, Prompting
<1>8. ASSUME NEW on \in BOOLEAN, SetBypass(on) PROVE Prompting'
  <2>1. /\ approvals' = approvals \ Drained(on) /\ bypass' = on
        /\ sending' = sending \cup {[id |-> i, verdict |-> "yes"] : i \in Drained(on)}
        /\ UNCHANGED <<call, holder, nextID, replies, modeCall, asks>>
    BY <1>8 DEF SetBypass, AllowAll, callVars
  <2>2. /\ Drained(on) \in SUBSET (approvals \cup asks)
        /\ approvals' \cup asks' = (approvals \cup asks) \ Drained(on)
        /\ approvals' \subseteq approvals /\ asks' \subseteq asks
        /\ bypass' => approvals' = {}
    BY <1>7, <2>1
  <2> QED BY <2>1, <2>2, PromptingTakes
<1>9. ASSUME NEW plan \in BOOLEAN, NEW on \in BOOLEAN, SetMode(plan, on) PROVE Prompting'
  <2>1. /\ approvals' = approvals \ Drained(on) /\ bypass' = on /\ ~modeCall.busy
        /\ modeCall' = [busy |-> TRUE, plan |-> plan, ids |-> Drained(on)]
        /\ UNCHANGED <<call, holder, nextID, replies, sending, asks>>
    BY <1>9 DEF SetMode, callVars
  <2>2. modeCall'.busy /\ modeCall'.ids = Drained(on)
    BY <2>1
  <2>3. /\ Drained(on) \in SUBSET (approvals \cup asks)
        /\ approvals' \cup asks' = (approvals \cup asks) \ Drained(on)
        /\ approvals' \subseteq approvals /\ asks' \subseteq asks
        /\ bypass' => approvals' = {}
    BY <1>7, <2>1
  <2> QED BY <2>1, <2>2, <2>3, PromptingTakes
<1>10. ASSUME NEW plan \in BOOLEAN, SetPlanMode(plan) PROVE Prompting'
  <2>1. /\ ~modeCall.busy /\ modeCall' = [busy |-> TRUE, plan |-> plan, ids |-> {}]
        /\ UNCHANGED <<call, holder, nextID, replies, sending, approvals, asks, bypass>>
    BY <1>10 DEF SetPlanMode, callVars, promptVars
  <2>2. modeCall'.busy /\ modeCall'.ids = {} /\ (bypass' => approvals' = {})
    BY <2>1 DEF Prompting, BypassLeavesNothingPending
  <2>3. {} \in SUBSET (approvals \cup asks) /\ approvals' \cup asks' = (approvals \cup asks) \ {}
    BY <2>1
  <2> QED BY <2>1, <2>2, <2>3, PromptingTakes
<1>11. ASSUME ModeReaches \/ \E r \in sending : Deliver(r) PROVE Prompting'
  BY <1>11, PromptingReaches, PromptingDelivers
<1>12. ASSUME \/ Cancel \/ (\E t \in cancelling : CancelCall(t))
              \/ (\E b \in BgCalls : StopJob(b) \/ \E t \in Turns : StartJob(b, t))
       PROVE  Prompting'
  <2>1. UNCHANGED <<call, holder, approvals, asks, nextID, sending, replies, modeCall, bypass>>
    BY <1>12 DEF Cancel, CancelCall, StopJob, StartJob, callVars, promptVars, modeVars
  <2> QED BY <2>1, PromptingStays
<1>13. ASSUME NEW t \in Turns, Turn(t), ~Propose(t) PROVE Prompting'
  <2>1. UNCHANGED <<call, holder, approvals, asks, nextID, sending, replies, modeCall, bypass>>
    BY <1>13 DEF Turn, Send, Score, AutoPlan, AutoPlanReaches, NoAutoPlan, StartRun, Stream, RunEnds,
       NoPlan, NoProposal, PlanRefused, PlanAccepted, UnplanReaches, Execute, ExecEnds, AutoOff, End,
       TurnDone, callVars, promptVars, modeVars
  <2> QED BY <2>1, PromptingStays
<1>14. CASE UNCHANGED vars
  BY <1>14, PromptingStays DEF vars, callVars, promptVars, modeVars
<1> QED BY <1>1, <1>2, <1>3, <1>4, <1>5, <1>6, <1>8, <1>9, <1>10, <1>11, <1>12, <1>13, <1>14
        DEF Next, Bridge, Frontend

-----------------------------------------------------------------------------
(* The turn in flight *)

LEMMA InFlightStays ==
    ASSUME InFlight, UNCHANGED <<tpc, running, cancelFn, autoApprove, phase>>
    PROVE  InFlight'
BY DEF InFlight, CancelIsWired, AutoApproveEnds

\* A turn is in flight alone.
LEMMA Alone ==
    ASSUME InFlight, NEW t \in Turns, NEW u \in Turns, tpc[t] \in InBody, tpc[u] \in InBody
    PROVE  t = u
BY DEF InFlight, CancelIsWired

\* The turn's goroutine goes from one place of its body to another.
LEMMA InFlightGoes ==
    ASSUME TypeOK, InFlight, NEW t \in Turns, NEW from \in InBody, NEW to \in InBody, Go(t, from, to),
           UNCHANGED <<running, cancelFn>>,
           to \in {"run", "gate", "planning", "unplan"} => phase' \in {"plan", "execute"},
           to \in {"approved", "exec"} => phase' = "execute",
           autoApprove' => to \in {"exec", "unauto"} \/ (autoApprove /\ from \notin {"exec", "unauto"})
    PROVE  InFlight'
<1>1. tpc[t] = from /\ tpc'[t] = to /\ \A u \in Turns \ {t} : tpc'[u] = tpc[u] /\ tpc[u] \notin InBody
  BY Alone DEF Go, TypeOK
<1>2. \A u \in Turns \ {t} : tpc'[u] \notin InBody
  BY <1>1
<1>3. CancelIsWired'
  BY <1>1, <1>2 DEF CancelIsWired, InFlight
<1>4. AutoApproveEnds'
  BY <1>1 DEF AutoApproveEnds, InFlight
<1>5. \A u \in Turns : tpc'[u] \in {"run", "gate", "planning", "unplan", "approved", "exec"} => u = t
  BY <1>2 DEF InBody, TurnPc
<1> QED BY <1>1, <1>3, <1>4, <1>5 DEF InFlight

LEMMA InFlightStep == TypeOK /\ InFlight /\ [Next]_vars => InFlight'
<1> SUFFICES ASSUME TypeOK, InFlight, [Next]_vars PROVE InFlight'
  OBVIOUS
<1>0. {"begin", "scoring", "autoplan", "ready", "run", "gate", "planning", "unplan", "approved", "exec",
       "unauto", "ended"} \subseteq InBody
  BY DEF InBody, TurnPc
<1>1. ASSUME NEW t \in Turns, Send(t) PROVE InFlight'
  <2>1. /\ ~running /\ running' /\ cancelFn' = t /\ UNCHANGED <<autoApprove, phase>>
        /\ tpc' = [tpc EXCEPT ![t] = "begin"] /\ tpc[t] = "unsent"
    BY <1>1 DEF Send, NotBusy, Go, modeVars
  <2>2. \A u \in Turns : tpc[u] \notin InBody
    BY <2>1 DEF InFlight, CancelIsWired
  <2>3. tpc'[t] = "begin" /\ \A u \in Turns \ {t} : tpc'[u] = tpc[u]
    BY <2>1 DEF TypeOK
  <2>4. AutoApproveEnds' /\ CancelIsWired'
    BY <2>1, <2>2, <2>3 DEF CancelIsWired, AutoApproveEnds, InFlight
  <2> QED BY <1>0, <2>2, <2>3, <2>4 DEF InFlight
<1>2. ASSUME NEW t \in Turns, Score(t) PROVE InFlight'
  BY <1>0, <1>2, InFlightGoes DEF Score, modeVars
<1>3. ASSUME NEW t \in Turns, AutoPlan(t) \/ AutoPlanReaches(t) PROVE InFlight'
  BY <1>0, <1>3, InFlightGoes DEF AutoPlan, AutoPlanReaches
<1>4. ASSUME NEW t \in Turns, NoAutoPlan(t) PROVE InFlight'
  BY <1>0, <1>4, InFlightGoes DEF NoAutoPlan, modeVars
<1>5. ASSUME NEW t \in Turns, NEW blocked \in BOOLEAN, StartRun(t, blocked) PROVE InFlight'
  <2>1. phase' \in {"plan", "execute"} /\ autoApprove' = autoApprove /\ UNCHANGED <<running, cancelFn>>
    BY <1>5 DEF StartRun, modeVars
  <2>2. Go(t, "ready", "ended") \/ Go(t, "ready", "run")
    BY <1>5 DEF StartRun
  <2> QED BY <1>0, <2>1, <2>2, InFlightGoes
<1>6. ASSUME NEW t \in Turns, NEW err \in Err, RunEnds(t, err) PROVE InFlight'
  <2>1. /\ autoApprove' = autoApprove /\ UNCHANGED <<running, cancelFn>>
        /\ tpc[t] = "run" /\ (err = "nil" => phase' = phase)
    BY <1>6 DEF RunEnds, AfterRun, Go, modeVars
  <2>2. phase \in {"plan", "execute"}
    BY <2>1 DEF InFlight
  <2>3. CASE err = "nil"
    BY <1>0, <1>6, <2>1, <2>2, <2>3, InFlightGoes DEF RunEnds
  <2>4. CASE err # "nil"
    BY <1>0, <1>6, <2>1, <2>4, InFlightGoes DEF RunEnds
  <2> QED BY <2>3, <2>4
<1>7. ASSUME NEW t \in Turns, NoPlan(t) \/ NoProposal(t) PROVE InFlight'
  BY <1>0, <1>7, InFlightGoes DEF NoPlan, NoProposal, modeVars
<1>8. ASSUME NEW t \in Turns, Propose(t) PROVE InFlight'
  <2>1. /\ Go(t, "gate", "planning") /\ tpc[t] = "gate"
        /\ UNCHANGED <<running, cancelFn, autoApprove, phase>>
    BY <1>8 DEF Propose, Go, modeVars
  <2>2. phase \in {"plan", "execute"}
    BY <2>1 DEF InFlight
  <2> QED BY <1>0, <2>1, <2>2, InFlightGoes
<1>9. ASSUME NEW t \in Turns, PlanRefused(t) PROVE InFlight'
  <2>1. Go(t, "planning", "ended") /\ UNCHANGED <<running, cancelFn, autoApprove>>
    BY <1>9 DEF PlanRefused, modeVars
  <2> QED BY <1>0, <2>1, InFlightGoes
<1>10. ASSUME NEW t \in Turns, PlanAccepted(t) PROVE InFlight'
  <2>1. /\ Go(t, "planning", "unplan") /\ tpc[t] = "planning"
        /\ UNCHANGED <<running, cancelFn, autoApprove, phase>>
    BY <1>10 DEF PlanAccepted, Go
  <2>2. phase \in {"plan", "execute"}
    BY <2>1 DEF InFlight
  <2> QED BY <1>0, <2>1, <2>2, InFlightGoes
<1>11. ASSUME NEW t \in Turns, UnplanReaches(t) PROVE InFlight'
  <2>1. /\ Go(t, "unplan", "approved") /\ tpc[t] = "unplan"
        /\ UNCHANGED <<running, cancelFn, autoApprove>> /\ phase' = Transition(phase, "plan_approved")
    BY <1>11 DEF UnplanReaches, Go
  <2>2. phase \in {"plan", "execute"}
    BY <2>1 DEF InFlight
  <2>3. phase' = "execute"
    BY <2>1, <2>2 DEF Transition
  <2> QED BY <1>0, <2>1, <2>3, InFlightGoes
<1>12. ASSUME NEW t \in Turns, Execute(t) PROVE InFlight'
  <2>1. /\ Go(t, "approved", "exec") /\ tpc[t] = "approved" /\ UNCHANGED <<running, cancelFn, phase>>
    BY <1>12 DEF Execute, Go
  <2>2. phase = "execute"
    BY <2>1 DEF InFlight
  <2> QED BY <1>0, <2>1, <2>2, InFlightGoes
<1>13. ASSUME NEW t \in Turns, NEW err \in Err, ExecEnds(t, err) PROVE InFlight'
  <2>1. Go(t, "exec", "unauto") /\ UNCHANGED <<running, cancelFn, autoApprove>>
    BY <1>13 DEF ExecEnds, Deferred, modeVars
  <2> QED BY <1>0, <2>1, InFlightGoes
<1>14. ASSUME NEW t \in Turns, AutoOff(t) PROVE InFlight'
  <2>1. Go(t, "unauto", "ended") /\ UNCHANGED <<running, cancelFn>> /\ ~autoApprove'
    BY <1>14 DEF AutoOff
  <2> QED BY <1>0, <2>1, InFlightGoes
<1>15. ASSUME NEW t \in Turns, End(t) \/ TurnDone(t) PROVE InFlight'
  <2>1. /\ tpc[t] \in {"ended", "closing"} /\ tpc'[t] \in {"closing", "done"}
        /\ \A u \in Turns \ {t} : tpc'[u] = tpc[u]
        /\ UNCHANGED <<autoApprove, phase>>
    BY <1>15 DEF End, TurnDone, Go, TypeOK, modeVars
  <2>2. CancelIsWired'
    <3>1. CASE tpc[t] = "ended"
      <4>1. \A u \in Turns : tpc'[u] \notin InBody
        BY <1>0, <2>1, <3>1, Alone DEF InBody
      <4> QED BY <4>1 DEF CancelIsWired
    <3>2. CASE tpc[t] = "closing"
      <4>1. UNCHANGED <<running, cancelFn>>
        BY <1>15, <3>2 DEF End, TurnDone, Go
      <4> QED BY <2>1, <4>1 DEF CancelIsWired, InFlight, InBody
    <3> QED BY <2>1, <3>1, <3>2
  <2>3. AutoApproveEnds'
    BY <2>1 DEF AutoApproveEnds, InFlight
  <2> QED BY <2>1, <2>2, <2>3 DEF InFlight
<1>16. ASSUME NEW t \in Turns, NEW calls \in SUBSET FgCalls, Stream(t, calls) PROVE InFlight'
  BY <1>16, InFlightStays DEF Stream, turnVars, modeVars
<1>17. ASSUME NEW c \in Callers, Bridge(c) PROVE InFlight'
  <2>1. UNCHANGED <<tpc, running, cancelFn, autoApprove, phase>>
    BY <1>17 DEF Bridge, Request, AgentRequest, Lock, Recheck, Receive, Abort, turnVars, modeVars
  <2> QED BY <2>1, InFlightStays
<1>18. CASE Frontend
  <2>1. UNCHANGED <<tpc, running, cancelFn, autoApprove, phase>>
    BY <1>18 DEF Frontend, Approve, AnswerQuestion, SetBypass, SetMode, SetPlanMode, ModeReaches,
       Deliver, Cancel, CancelCall, StopJob, StartJob, turnVars, modeVars
  <2> QED BY <2>1, InFlightStays
<1>19. CASE UNCHANGED vars
  BY <1>19, InFlightStays DEF vars, turnVars, modeVars
<1> QED BY <1>1, <1>2, <1>3, <1>4, <1>5, <1>6, <1>7, <1>8, <1>9, <1>10, <1>11, <1>12, <1>13, <1>14,
           <1>15, <1>16, <1>17, <1>18, <1>19
        DEF Next, Turn

-----------------------------------------------------------------------------
(* The plan *)

\* The turns move, and none to or from planning; none begins to execute a plan.
LEMMA PlannedMoves ==
    ASSUME Planned, UNCHANGED <<call, last, granted>>,
           \A u \in Turns : tpc'[u] = "planning" <=> tpc[u] = "planning",
           \A u \in Turns : tpc'[u] \in {"unplan", "approved", "exec"}
                                => tpc[u] \in {"unplan", "approved", "exec"}
    PROVE  Planned'
BY DEF Planned, PlanNeedsItsOwnYes

\* A tool call, or the plan's own while it is being asked for.
LEMMA PlannedCalls ==
    ASSUME Planned, NEW c \in Callers, tpc' = tpc,
           \A d \in Callers \ {c} : call'[d] = call[d],
           PlanKey \notin granted',
           c # PlanGate => /\ last'[PlanGate] = last[PlanGate]
                           /\ call'[c].pc # "calm" /\ call'[c].kind = "tool" => call'[c].key \in Keys,
           c = PlanGate => /\ \A t \in Turns : tpc[t] \notin {"unplan", "approved", "exec"}
                           /\ \/ /\ call'[c].pc = "calm"
                                 /\ last'[PlanGate] \in {"bypass", "yes", "no", "err"}
                              \/ /\ call'[c].pc # "calm" /\ last' = last
                                 /\ call'[c].kind = "plan" /\ call'[c].key = PlanKey
                                 /\ \E t \in Turns : tpc[t] = "planning"
    PROVE  Planned'
<1>1. CASE c # PlanGate
  <2>1. call'[PlanGate] = call[PlanGate]
    BY <1>1, CallerKinds
  <2> QED BY <1>1, <2>1 DEF Planned, PlanNeedsItsOwnYes
<1>2. CASE c = PlanGate
  BY <1>2 DEF Planned, PlanNeedsItsOwnYes
<1> QED BY <1>1, <1>2

\* While the plan is asked for, no turn executes one and nothing but bypass lets it through.
LEMMA Asking ==
    ASSUME TypeOK, InFlight, Planned, call[PlanGate].pc # "calm"
    PROVE  /\ \A t \in Turns : tpc[t] \notin {"unplan", "approved", "exec"}
           /\ Again(PlanGate) \in {"bypass", "none"}
           /\ call[PlanGate].kind = "plan" /\ call[PlanGate].key = PlanKey
           /\ \E t \in Turns : tpc[t] = "planning"
<1>1. PICK t \in Turns : tpc[t] = "planning"
  BY DEF Planned
<1>2. {"planning", "unplan", "approved", "exec", "unauto"} \subseteq InBody
  BY DEF InBody, TurnPc
<1>3. \A u \in Turns : tpc[u] \notin {"unplan", "approved", "exec", "unauto"}
  BY <1>1, <1>2, Alone
<1>4. ~autoApprove
  BY <1>3 DEF InFlight, AutoApproveEnds
<1>5. call[PlanGate].kind = "plan" /\ call[PlanGate].key = PlanKey /\ PlanKey \notin granted
  BY DEF Planned
<1> QED BY <1>1, <1>3, <1>4, <1>5 DEF Again, Free

LEMMA PlannedStep == TypeOK /\ InFlight /\ Planned /\ [Next]_vars => Planned'
<1> SUFFICES ASSUME TypeOK, InFlight, Planned, [Next]_vars PROVE Planned'
  OBVIOUS
<1>1. ASSUME NEW c \in Callers, NEW kind \in Kinds, NEW key \in Keys, Request(c, kind, key)
      PROVE  Planned'
  <2>1. Enter(c, kind, key) /\ kind \in KindsOf /\ key \in Known /\ c # PlanGate
    BY <1>1, CallerKinds DEF Request, Kinds, KindsOf, Known, TypeOK
  <2>2. tpc' = tpc /\ granted' = granted
    BY <1>1 DEF Request, turnVars
  <2>3. /\ \A d \in Callers \ {c} : call'[d] = call[d]
        /\ last'[PlanGate] = last[PlanGate]
        /\ call' = call \/ call'[c].key = key
    <3>1. /\ \A d \in Callers \ {c} : call'[d] = call[d]
          /\ \A k \in (BgCalls \cup {PlanGate}) \ {c} : last'[k] = last[k]
          /\ call' = call \/ call'[c] = [pc |-> "queued", kind |-> kind, key |-> key, id |-> 0]
      BY <2>1, EnterEffect
    <3> QED BY <2>1, <3>1
  <2> QED BY <2>1, <2>2, <2>3, PlannedCalls DEF Planned
<1>2. ASSUME NEW b \in BgCalls, NEW key \in Keys, AgentRequest(b, key) PROVE Planned'
  <2>1. Enter(b, "tool", key) /\ key \in Known /\ b \in Callers /\ b # PlanGate
    BY <1>2, CallerKinds DEF AgentRequest, Known
  <2>2. tpc' = tpc /\ granted' = granted
    BY <1>2 DEF AgentRequest, turnVars
  <2>3. /\ \A d \in Callers \ {b} : call'[d] = call[d]
        /\ last'[PlanGate] = last[PlanGate]
        /\ call' = call \/ call'[b].key = key
    <3>1. /\ \A d \in Callers \ {b} : call'[d] = call[d]
          /\ \A k \in (BgCalls \cup {PlanGate}) \ {b} : last'[k] = last[k]
          /\ call' = call \/ call'[b] = [pc |-> "queued", kind |-> "tool", key |-> key, id |-> 0]
      BY <2>1, EnterEffect DEF KindsOf
    <3> QED BY <2>1, <3>1
  <2> QED BY <2>1, <2>2, <2>3, PlannedCalls DEF Planned
<1>3. ASSUME NEW c \in Callers, Lock(c) PROVE Planned'
  <2>1. UNCHANGED <<tpc, call, last, granted>>
    BY <1>3 DEF Lock, turnVars, callVars
  <2> QED BY <2>1, PlannedMoves
<1>4. ASSUME NEW c \in Callers, Recheck(c) PROVE Planned'
  <2>1. /\ call[c].pc = "queued" /\ \A d \in Callers \ {c} : call'[d] = call[d]
        /\ tpc' = tpc /\ granted' = granted
    BY <1>4, RecheckEffect DEF turnVars
  <2>2. \/ call'[c] = Calm /\ Again(c) # "none"
        \/ call'[c].pc = "waiting" /\ call'[c].kind = call[c].kind /\ call'[c].key = call[c].key /\ last' = last
    BY <1>4, RecheckEffect
  <2>3. CASE c # PlanGate
    <3>1. last'[PlanGate] = last[PlanGate]
      BY <1>4, <2>3, RecheckEffect
    <3>2. call'[c].pc # "calm" /\ call'[c].kind = "tool" => call'[c].key \in Keys
      BY <2>1, <2>2 DEF Planned, Calm
    <3> QED BY <2>1, <2>3, <3>1, <3>2, PlannedCalls DEF Planned
  <2>4. CASE c = PlanGate
    <3>1. /\ \A t \in Turns : tpc[t] \notin {"unplan", "approved", "exec"}
          /\ Again(PlanGate) \in {"bypass", "none"}
          /\ call[PlanGate].kind = "plan" /\ call[PlanGate].key = PlanKey
          /\ \E t \in Turns : tpc[t] = "planning"
      BY <2>1, <2>4, Asking
    <3>2. call'[c] = Calm /\ Again(c) # "none" => last'[PlanGate] = Again(c)
      <4>1. SUFFICES ASSUME Again(c) # "none" PROVE last'[c] = Again(c)
        BY <2>4
      <4>2. c \in BgCalls \cup {PlanGate}
        BY <2>4
      <4> QED BY <1>4, <4>1, <4>2, RecheckEffect
    <3>3. \/ call'[c].pc = "calm" /\ last'[PlanGate] \in {"bypass", "yes", "no", "err"}
          \/ /\ call'[c].pc # "calm" /\ last' = last
             /\ call'[c].kind = "plan" /\ call'[c].key = PlanKey
      BY <2>2, <2>4, <3>1, <3>2 DEF Calm
    <3> QED BY <2>1, <2>4, <3>1, <3>3, PlannedCalls DEF Planned
  <2> QED BY <2>3, <2>4
<1>5. ASSUME NEW c \in Callers, Abort(c) \/ \E r \in replies : Receive(c, r) PROVE Planned'
  <2>1. /\ call[c].pc = "waiting" /\ call'[c].pc = "calm" /\ tpc' = tpc
        /\ \A d \in Callers \ {c} : call'[d] = call[d]
        /\ c # PlanGate => last'[PlanGate] = last[PlanGate]
        /\ c = PlanGate => last'[PlanGate] \in {"yes", "no", "err"}
    BY <1>5, ReceiveEffect, AbortEffect DEF Calm, turnVars
  <2>2. \A key \in granted' \ granted : key = call[c].key /\ call[c].kind = "tool"
    BY <1>5, ReceiveEffect, AbortEffect
  <2>3. PlanKey \notin granted'
    BY <2>1, <2>2, TurnGateAssumption DEF Planned
  <2>4. c = PlanGate => \A t \in Turns : tpc[t] \notin {"unplan", "approved", "exec"}
    BY <2>1, Asking
  <2> QED BY <2>1, <2>3, <2>4, PlannedCalls
<1>6. CASE Frontend
  <2>1. UNCHANGED <<tpc, call, last, granted>>
    BY <1>6 DEF Frontend, Approve, AnswerQuestion, SetBypass, SetMode, SetPlanMode, ModeReaches,
       Deliver, Cancel, CancelCall, StopJob, StartJob, turnVars, callVars
  <2> QED BY <2>1, PlannedMoves
<1>7. ASSUME NEW t \in Turns,
             \/ Send(t) \/ Score(t) \/ AutoPlan(t) \/ AutoPlanReaches(t) \/ NoAutoPlan(t)
             \/ (\E blocked \in BOOLEAN : StartRun(t, blocked))
             \/ (\E err \in Err : RunEnds(t, err)) \/ NoPlan(t) \/ NoProposal(t)
             \/ UnplanReaches(t) \/ Execute(t) \/ (\E err \in Err : ExecEnds(t, err))
             \/ AutoOff(t) \/ End(t) \/ TurnDone(t)
      PROVE  Planned'
  <2>1. UNCHANGED <<call, last, granted>>
    BY <1>7 DEF Send, Score, AutoPlan, AutoPlanReaches, NoAutoPlan, StartRun, RunEnds, NoPlan,
       NoProposal, UnplanReaches, Execute, ExecEnds, AutoOff, End, TurnDone, callVars
  <2>2. /\ tpc[t] # "planning" /\ tpc'[t] # "planning"
        /\ tpc'[t] \in {"unplan", "approved", "exec"} => tpc[t] \in {"unplan", "approved", "exec"}
        /\ \A u \in Turns \ {t} : tpc'[u] = tpc[u]
    BY <1>7 DEF Send, Score, AutoPlan, AutoPlanReaches, NoAutoPlan, StartRun, RunEnds, NoPlan,
       NoProposal, UnplanReaches, Execute, ExecEnds, Deferred, AutoOff, End, TurnDone, Go, TypeOK
  <2> QED BY <2>1, <2>2, PlannedMoves
<1>8. ASSUME NEW t \in Turns, NEW calls \in SUBSET FgCalls, Stream(t, calls) PROVE Planned'
  <2>1. UNCHANGED <<tpc, call, last, granted>>
    BY <1>8 DEF Stream, turnVars
  <2> QED BY <2>1, PlannedMoves
<1>9. ASSUME NEW t \in Turns, Propose(t) PROVE Planned'
  <2>1. /\ Enter(PlanGate, "plan", PlanKey) /\ granted' = granted
        /\ tpc[t] = "gate" /\ tpc'[t] = "planning" /\ \A u \in Turns \ {t} : tpc'[u] = tpc[u]
    BY <1>9 DEF Propose, Go, TypeOK
  <2>2. \A u \in Turns \ {t} : tpc[u] \notin InBody
    BY <2>1, Alone DEF InBody, TurnPc
  <2>3. \A u \in Turns \ {t} : tpc'[u] \notin {"planning", "unplan", "approved", "exec"}
    BY <2>1, <2>2 DEF InBody, TurnPc
  <2>4. Free("plan", PlanKey) \in {"none", "bypass"}
    <3>1. ~autoApprove
      BY <2>1, <2>2 DEF InFlight, AutoApproveEnds, InBody, TurnPc
    <3> QED BY <3>1 DEF Free, Planned
  <2>5. /\ call[PlanGate].pc = "calm" /\ \A d \in Callers \ {PlanGate} : call'[d] = call[d]
        /\ last'[PlanGate] = Free("plan", PlanKey)
        /\ \/ Free("plan", PlanKey) # "none" /\ call' = call
           \/ call'[PlanGate] = [pc |-> "queued", kind |-> "plan", key |-> PlanKey, id |-> 0]
    <3>1. "plan" \in KindsOf /\ PlanKey \in Known
      BY DEF KindsOf, Known
    <3> QED BY <2>1, <3>1, EnterEffect, CallerKinds
  <2>6. \A d \in Callers : call'[d].pc # "calm" /\ call'[d].kind = "tool" => call'[d].key \in Keys
    BY <2>5 DEF Planned
  <2>7. call'[PlanGate].pc # "calm" => /\ call'[PlanGate].kind = "plan" /\ call'[PlanGate].key = PlanKey
                                       /\ \E u \in Turns : tpc'[u] = "planning"
    BY <2>1, <2>5
  <2>8. call'[PlanGate].pc = "calm" => last'[PlanGate] \in {"bypass", "yes", "no", "err"}
    BY <2>4, <2>5
  <2>9. PlanNeedsItsOwnYes'
    BY <2>1, <2>3 DEF PlanNeedsItsOwnYes
  <2> QED BY <2>1, <2>6, <2>7, <2>8, <2>9 DEF Planned
<1>10. ASSUME NEW t \in Turns, PlanRefused(t) \/ PlanAccepted(t) PROVE Planned'
  <2>1. /\ tpc[t] = "planning" /\ call[PlanGate].pc = "calm" /\ UNCHANGED <<call, last, granted>>
        /\ tpc'[t] \in {"unplan", "ended"} /\ \A u \in Turns \ {t} : tpc'[u] = tpc[u]
        /\ tpc'[t] = "unplan" => last[PlanGate] \notin {"no", "err"}
    BY <1>10 DEF PlanRefused, PlanAccepted, PlanAnswered, Go, TypeOK, callVars
  <2>2. \A u \in Turns \ {t} : tpc'[u] # "planning"
    BY <2>1, Alone DEF InBody, TurnPc
  <2> QED BY <2>1, <2>2 DEF Planned, PlanNeedsItsOwnYes
<1>11. CASE UNCHANGED vars
  BY <1>11, PlannedMoves DEF vars, turnVars, callVars
<1> QED BY <1>1, <1>2, <1>3, <1>4, <1>5, <1>6, <1>7, <1>8, <1>9, <1>10, <1>11 DEF Next, Bridge, Turn

-----------------------------------------------------------------------------
(* The theorems *)

LEMMA Invariant == Spec => []IInv
<1>1. Init => IInv
  <2> SUFFICES ASSUME Init PROVE IInv
    OBVIOUS
  <2>1. Calm \in Call /\ Calm.pc = "calm" /\ Calm.id = 0
    BY DEF Calm, Call, CallPc, Kind
  <2>2. TypeOK
    BY <2>1 DEF Init, TypeOK, TurnPc, Outcome, NoMode, Phases
  <2>3. RoomLeft
    <3>1. Queued = {} /\ batch = {}
      BY <2>1 DEF Init, Queued
    <3> QED BY <3>1, FS_EmptySet, TurnGateAssumption DEF Init, RoomLeft
  <2>4. Prompting
    <3>1. Shown = {} /\ sending \cup replies = {} /\ approvals \cup asks = {}
      BY DEF Init, Shown, NoMode
    <3> QED BY <2>1, <3>1 DEF Init, Prompting, OnePromptAtATime, BypassLeavesNothingPending,
         PromptsAreAnsweredOnce, OneReplyPerPrompt, EveryWaiterHasAnAnswer, NoMode
  <2>5. InFlight
    BY DEF Init, InFlight, CancelIsWired, AutoApproveEnds, InBody
  <2>6. Planned
    BY <2>1, CallerKinds DEF Init, Planned, PlanNeedsItsOwnYes
  <2> QED BY <2>2, <2>3, <2>4, <2>5, <2>6 DEF IInv
<1>2. IInv /\ [Next]_vars => IInv'
  BY TypeStep, RoomStep, PromptingStep, InFlightStep, PlannedStep DEF IInv
<1> QED BY <1>1, <1>2, PTL DEF Spec

\* Every variable keeps its type: in particular, no prompt is numbered past the bound.
THEOREM TypeCorrect == Spec => []TypeOK
<1>1. IInv => TypeOK
  BY DEF IInv
<1> QED BY <1>1, Invariant, PTL

\* However many calls and agents ask, the user is shown one prompt at a time, the one of the
\* call that holds promptMu.
THEOREM OnePrompt == Spec => []OnePromptAtATime
<1>1. IInv => OnePromptAtATime
  BY DEF IInv, Prompting
<1> QED BY <1>1, Invariant, PTL

\* Under bypass no approval is pending, whenever it was switched on.
THEOREM BypassClears == Spec => []BypassLeavesNothingPending
<1>1. IInv => BypassLeavesNothingPending
  BY DEF IInv, Prompting
<1> QED BY <1>1, Invariant, PTL

\* A prompt is answered once, and a call that waits has its prompt or its answer.
THEOREM AnsweredOnce == Spec => []PromptsAreAnsweredOnce
<1>1. IInv => PromptsAreAnsweredOnce
  BY DEF IInv, Prompting
<1> QED BY <1>1, Invariant, PTL

\* One turn runs at a time, and Cancel reaches that turn.
THEOREM OneTurn == Spec => []CancelIsWired
<1>1. IInv => CancelIsWired
  BY DEF IInv, InFlight
<1> QED BY <1>1, Invariant, PTL

\* The window in which tool calls need no approval ends with the execution of the plan.
THEOREM WindowEnds == Spec => []AutoApproveEnds
<1>1. IInv => AutoApproveEnds
  BY DEF IInv, InFlight
<1> QED BY <1>1, Invariant, PTL

\* A plan runs on its own approval or under bypass, in the execute phase of the harness.
THEOREM PlansRunApproved == Spec => []PlansRunWhenApproved
<1>1. IInv => PlansRunWhenApproved
  BY DEF IInv, Planned, InFlight, PlansRunWhenApproved, ExecutesInExecutePhase
<1> QED BY <1>1, Invariant, PTL
=============================================================================
