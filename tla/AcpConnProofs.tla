---------------------------- MODULE AcpConnProofs ----------------------------
(***************************************************************************)
(* The ACP connection, for any sessions, calls and questions: a result for  *)
(* each request, permissions that were given, a cancel that reaches the     *)
(* turn of its session, and no controller left open.                        *)
(*                                                                         *)
(* The last two rest on how a session leads to its controller: it is        *)
(* registered once, by the call that built it, and a patient client has one *)
(* prompt and one load of it in flight.                                     *)
(***************************************************************************)
EXTENDS AcpConn, TLAPS

-----------------------------------------------------------------------------
(* The invariant *)

Frame   == [call : 0..MaxCalls, ask : 0..MaxAsks, allow : BOOLEAN]
CallPc  == {"none", "sent", "begin", "built", "found", "run", "ask", "over", "reply", "abort", "done"}
Request == [kind : {"none", "new", "load", "prompt", "cancel"}, sess : Sessions, pc : CallPc,
            ctl : 0..MaxCalls, ask : 0..MaxAsks, failed : BOOLEAN]
Question == [of : 0..MaxCalls, pc : {"none", "write", "wait", "approve", "done"}, allow : BOOLEAN]

\* The types, of what a step reads from the wire too.
Typed ==
    /\ wire \in Seq(Frame) /\ eof \in BOOLEAN /\ ctxDone \in BOOLEAN /\ closed \in BOOLEAN
    /\ reader \in {"read", "wait", "close", "teardown", "ended"}
    /\ call \in [Call -> Request]
    /\ answer \in [Call -> {"none", "ok", "error", "end", "cancelled"}]
    /\ registry \in [Sessions -> 0..MaxCalls] /\ cancelOf \in [Call -> 0..MaxCalls]
    /\ stopped \in SUBSET Call /\ open \in SUBSET Call /\ saved \in SUBSET Sessions
    /\ ask \in [Asks -> Question]
    /\ pending \in SUBSET Asks /\ approvals \in SUBSET Asks
    /\ sends \in [Asks -> Nat] /\ got \in [Asks -> BOOLEAN]
    /\ replied \in [Asks -> {"none", "allow", "deny"}]
    /\ chosen \in SUBSET Asks /\ ran \in SUBSET Asks

\* A frame is a call or a verdict; a turn that asks has asked; a call that is looked at again
\* has what it looked up.
Wired ==
    /\ \A i \in DOMAIN wire : wire[i].call # 0 => call[wire[i].call].pc = "sent"
    /\ \A i, j \in DOMAIN wire : wire[i].call # 0 /\ wire[i].call = wire[j].call => i = j
    /\ \A i \in DOMAIN wire : wire[i].call = 0 => wire[i].ask # 0
    /\ \A n \in Call : call[n].pc = "none" <=> call[n].kind = "none"
    /\ \A n \in Call : call[n].pc = "ask" => call[n].ask # 0
    /\ \A n \in Call : call[n].pc = "abort" => call[n].ctl # 0
    /\ \A n \in Call : call[n].pc \in {"found", "run", "ask", "over", "reply"} =>
          call[n].kind = "prompt" /\ call[n].ctl # 0
    /\ \A n \in Call : call[n].pc = "built" => call[n].kind \in {"new", "load"}

\* A request's channel is empty while it is pending.
OneResult ==
    /\ \A k \in Asks : sends[k] <= 1
    /\ \A k \in Asks : ask[k].pc \in {"none", "write"} \/ k \in pending => sends[k] = 0
    /\ pending \subseteq {k \in Asks : ask[k].pc = "wait"}

\* A permission comes from the client, on whatever way it is.
Allowed ==
    /\ \A i \in DOMAIN wire : wire[i].call = 0 /\ wire[i].allow => wire[i].ask \in chosen
    /\ \A k \in Asks : got[k] \/ ask[k].allow \/ replied[k] = "allow" => k \in chosen
    /\ ran \subseteq chosen

\* A call is unanswered while it is handled.
Answers == \A n \in Call : call[n].pc # "done" => answer[n] = "none"

\* A session that is being made has no other call; a patient client has one load and one
\* prompt of a session in flight; a session is known as long as it has a prompt.
InTurn ==
    /\ \A n, m \in Call :
          call[n].kind = "new" /\ call[n].pc # "done" /\ m # n /\ call[m].kind # "none" =>
              call[m].sess # call[n].sess
    /\ \A n \in Call : call[n].kind = "new" /\ call[n].pc # "done" => call[n].sess \notin saved
    /\ Patient => \A n, m \in Call :
          /\ call[n].kind = call[m].kind /\ call[n].kind \in {"load", "prompt"}
          /\ call[n].sess = call[m].sess /\ answer[n] = "none" /\ answer[m] = "none"
          => n = m

\* The registry leads to the call that built the controller, and each open controller is
\* registered or about to be.
Registered ==
    /\ \A s \in Sessions : registry[s] # 0 =>
          /\ call[registry[s]].kind \in {"new", "load"} /\ call[registry[s]].sess = s
          /\ call[registry[s]].pc = "done" /\ registry[s] \in open
    /\ \A n \in Call : call[n].pc = "built" => n \in open
    /\ Patient => /\ \A n \in Call : call[n].pc = "built" => registry[call[n].sess] = 0
                  /\ \A c \in open : call[c].pc = "built" \/ \E s \in Sessions : registry[s] = c

\* A turn runs on an open controller, its session's, which stops it; none is left when Serve
\* tears down.
Running ==
    /\ \A n \in Call : call[n].pc \in {"found", "run", "ask", "over"} =>
          call[n].ctl \in open /\ call[call[n].ctl].pc = "done"
    /\ Patient => \A n \in Call :
          /\ call[n].pc \in {"found", "run", "ask", "over"} => registry[call[n].sess] = call[n].ctl
          /\ call[n].pc \in {"run", "ask", "over"} => cancelOf[call[n].ctl] = n
    /\ reader \in {"close", "teardown", "ended"} =>
          \A n \in Call : call[n].pc \in {"none", "sent", "done"}

NothingLeft == Patient /\ reader = "ended" => open = {}

IInv == Typed /\ Wired /\ OneResult /\ Allowed /\ Answers /\ InTurn /\ Registered /\ Running /\ NothingLeft

-----------------------------------------------------------------------------
(* What the steps of a handler do to its call *)

\* The call goes to another step, with the controller and the question it has then.
Goes(n, pc, ctl, question) ==
    /\ call' \in [Call -> Request]
    /\ call'[n].pc = pc /\ call'[n].ctl = ctl /\ call'[n].ask = question
    /\ call'[n].kind = call[n].kind /\ call'[n].sess = call[n].sess
    /\ \A m \in Call \ {n} : call'[m] = call[m]
Steps(n, pc) == Goes(n, pc, call[n].ctl, call[n].ask)

LEMMA PcMoves ==
    ASSUME Typed, NEW n \in Call, NEW pc \in CallPc, call' = [call EXCEPT ![n].pc = pc]
    PROVE  Steps(n, pc)
<1>1. call \in [Call -> Request] /\ call[n] \in Request
  BY DEF Typed
<1>2. [call[n] EXCEPT !.pc = pc] \in Request
  BY <1>1 DEF Request
<1>3. call' \in [Call -> Request] /\ call'[n] = [call[n] EXCEPT !.pc = pc]
  BY <1>1, <1>2
<1> QED BY <1>1, <1>3 DEF Steps, Goes, Request

LEMMA CtlMoves ==
    ASSUME Typed, NEW n \in Call, NEW pc \in CallPc, NEW c \in 0..MaxCalls,
           call' = [call EXCEPT ![n].pc = pc, ![n].ctl = c]
    PROVE  Goes(n, pc, c, call[n].ask)
<1>1. call \in [Call -> Request] /\ call[n] \in Request
  BY DEF Typed
<1>2. [[call[n] EXCEPT !.pc = pc] EXCEPT !.ctl = c] \in Request
  BY <1>1 DEF Request
<1>3. call' \in [Call -> Request] /\ call'[n] = [[call[n] EXCEPT !.pc = pc] EXCEPT !.ctl = c]
  BY <1>1, <1>2
<1> QED BY <1>1, <1>3 DEF Goes, Request

LEMMA AskMoves ==
    ASSUME Typed, NEW n \in Call, NEW pc \in CallPc, NEW k \in 0..MaxAsks,
           call' = [call EXCEPT ![n].pc = pc, ![n].ask = k]
    PROVE  Goes(n, pc, call[n].ctl, k)
<1>1. call \in [Call -> Request] /\ call[n] \in Request
  BY DEF Typed
<1>2. [[call[n] EXCEPT !.pc = pc] EXCEPT !.ask = k] \in Request
  BY <1>1 DEF Request
<1>3. call' \in [Call -> Request] /\ call'[n] = [[call[n] EXCEPT !.pc = pc] EXCEPT !.ask = k]
  BY <1>1, <1>2
<1> QED BY <1>1, <1>3 DEF Goes, Request

LEMMA FailedMoves ==
    ASSUME Typed, NEW n \in Call, NEW pc \in CallPc, NEW f \in BOOLEAN,
           call' = [call EXCEPT ![n].pc = pc, ![n].failed = f]
    PROVE  Steps(n, pc)
<1>1. call \in [Call -> Request] /\ call[n] \in Request
  BY DEF Typed
<1>2. [[call[n] EXCEPT !.pc = pc] EXCEPT !.failed = f] \in Request
  BY <1>1 DEF Request
<1>3. call' \in [Call -> Request] /\ call'[n] = [[call[n] EXCEPT !.pc = pc] EXCEPT !.failed = f]
  BY <1>1, <1>2
<1> QED BY <1>1, <1>3 DEF Steps, Goes, Request

LEMMA SendEffect ==
    ASSUME Typed, NEW n \in Call, NEW kind \in {"new", "load", "prompt", "cancel"}, NEW s \in Sessions,
           Send(n, kind, s)
    PROVE  /\ call' \in [Call -> Request] /\ call[n].pc = "none"
           /\ call'[n].pc = "sent" /\ call'[n].kind = kind /\ call'[n].sess = s
           /\ \A m \in Call \ {n} : call'[m] = call[m]
           /\ wire' = Append(wire, [call |-> n, ask |-> 0, allow |-> FALSE])
           /\ [call |-> n, ask |-> 0, allow |-> FALSE] \in Frame
<1>1. call \in [Call -> Request]
  BY DEF Typed
<1>2. Unsent \in Request
  BY AcpConnAssumption DEF Unsent, Request, CallPc
<1> DEFINE sent == [[[Unsent EXCEPT !.kind = kind] EXCEPT !.sess = s] EXCEPT !.pc = "sent"]
<1>3. sent \in Request /\ sent.kind = kind /\ sent.sess = s /\ sent.pc = "sent"
  BY <1>2 DEF Request, CallPc
<1>4. /\ call' = [call EXCEPT ![n] = sent]
      /\ call[n].pc = "none" /\ wire' = Append(wire, [call |-> n, ask |-> 0, allow |-> FALSE])
  BY DEF Send
<1>5. [call |-> n, ask |-> 0, allow |-> FALSE] \in Frame
  BY AcpConnAssumption DEF Frame, Call
<1> HIDE DEF sent
<1> QED BY <1>1, <1>3, <1>4, <1>5

\* A frame is a call that begins, or a verdict.
LEMMA DispatchEffect ==
    ASSUME Typed, Wired, Dispatch
    PROVE  /\ wire # <<>> /\ reader = "read" /\ wire' = Tail(wire) /\ Head(wire) = wire[1] /\ 1 \in DOMAIN wire
           /\ \/ /\ Head(wire).call \in Call /\ call[Head(wire).call].pc = "sent"
                 /\ Steps(Head(wire).call, "begin")
                 /\ UNCHANGED <<pending, sends, got>>
              \/ /\ Head(wire).call = 0 /\ Head(wire).ask \in Asks
                 /\ call' = call
                 /\ Resolve(Head(wire).ask, Head(wire).allow)
<1>1. wire # <<>> /\ reader = "read" /\ wire' = Tail(wire)
  BY DEF Dispatch
<1>2. wire[1] \in Frame /\ Head(wire) = wire[1] /\ 1 \in DOMAIN wire
  BY <1>1 DEF Typed
<1>3. CASE Head(wire).call # 0
  <2>1. /\ Head(wire).call \in Call /\ call[Head(wire).call].pc = "sent"
        /\ call' = [call EXCEPT ![Head(wire).call].pc = "begin"] /\ UNCHANGED <<pending, sends, got>>
    BY <1>2, <1>3, AcpConnAssumption DEF Dispatch, Frame, Call, Wired
  <2> QED BY <1>1, <1>2, <2>1, PcMoves DEF CallPc
<1>4. CASE Head(wire).call = 0
  <2>1. Head(wire).ask \in Asks
    BY <1>2, <1>4, AcpConnAssumption DEF Frame, Asks, Wired
  <2> QED BY <1>1, <1>2, <1>4, <2>1 DEF Dispatch
<1> QED BY <1>3, <1>4

\* A call ends with an answer.
Ends(n, what) ==
    /\ Steps(n, "done") /\ answer' \in [Call -> {"none", "ok", "error", "end", "cancelled"}]
    /\ answer'[n] = what /\ \A m \in Call \ {n} : answer'[m] = answer[m]

LEMMA Finishes ==
    ASSUME Typed, NEW n \in Call, NEW what \in {"ok", "error", "end", "cancelled"}, Finish(n, what)
    PROVE  Ends(n, what)
<1>1. call' = [call EXCEPT ![n].pc = "done"] /\ answer' = [answer EXCEPT ![n] = what]
  BY DEF Finish
<1>2. Steps(n, "done")
  BY <1>1, PcMoves DEF CallPc
<1> QED BY <1>1, <1>2 DEF Typed, Ends

LEMMA BuildEffect ==
    ASSUME Typed, NEW n \in Call, Build(n)
    PROVE  /\ call[n].kind \in {"new", "load"} /\ call[n].pc = "begin"
           /\ call[n].kind = "load" => registry[call[n].sess] = 0
           /\ \/ Steps(n, "built") /\ open' = open \cup {n} /\ answer' = answer
              \/ Ends(n, "error") /\ open' = open
<1>1. CASE open' = open \cup {n} /\ call' = [call EXCEPT ![n].pc = "built"] /\ answer' = answer
  BY <1>1, PcMoves DEF Build, At, CallPc
<1>2. CASE Finish(n, "error") /\ open' = open
  BY <1>2, Finishes DEF Build, At
<1> QED BY <1>1, <1>2 DEF Build

LEMMA RegisterEffect ==
    ASSUME Typed, NEW n \in Call, Register(n)
    PROVE  /\ call[n].kind \in {"new", "load"} /\ call[n].pc = "built" /\ Ends(n, "ok")
           /\ registry' \in [Sessions -> 0..MaxCalls] /\ registry'[call[n].sess] = n
           /\ \A s \in Sessions \ {call[n].sess} : registry'[s] = registry[s]
<1>1. Ends(n, "ok")
  BY Finishes DEF Register
<1>2. call[n].sess \in Sessions /\ n \in 0..MaxCalls
  BY AcpConnAssumption DEF Typed, Request, Call
<1> QED BY <1>1, <1>2 DEF Register, At, Typed

LEMMA LoadFailsEffect ==
    ASSUME Typed, NEW n \in Call, LoadFails(n)
    PROVE  call[n].kind = "load" /\ call[n].pc = "built" /\ Ends(n, "error") /\ open' = open \ {n}
BY Finishes DEF LoadFails, At

LEMMA ReplayLiveEffect ==
    ASSUME Typed, NEW n \in Call, ReplayLive(n)
    PROVE  call[n].kind = "load" /\ call[n].pc = "begin" /\ registry[call[n].sess] # 0 /\ Ends(n, "ok")
BY Finishes DEF ReplayLive, At

LEMMA LookUpEffect ==
    ASSUME Typed, NEW n \in Call, LookUp(n)
    PROVE  /\ call[n].kind = "prompt" /\ call[n].pc = "begin"
           /\ \/ registry[call[n].sess] = 0 /\ Ends(n, "error")
              \/ /\ registry[call[n].sess] # 0 /\ answer' = answer
                 /\ Goes(n, "found", registry[call[n].sess], call[n].ask)
<1>1. registry[call[n].sess] \in 0..MaxCalls
  BY DEF Typed, Request
<1>2. CASE registry[call[n].sess] = 0
  BY <1>2, Finishes DEF LookUp, At
<1>3. CASE registry[call[n].sess] # 0
  BY <1>1, <1>3, CtlMoves DEF LookUp, At, CallPc
<1> QED BY <1>2, <1>3

LEMMA StartTurnEffect ==
    ASSUME Typed, Wired, NEW n \in Call, StartTurn(n)
    PROVE  /\ call[n].kind = "prompt" /\ call[n].pc = "found" /\ Steps(n, "run")
           /\ call[n].ctl \in Call /\ cancelOf' \in [Call -> 0..MaxCalls] /\ cancelOf'[call[n].ctl] = n
           /\ \A c \in Call \ {call[n].ctl} : cancelOf'[c] = cancelOf[c]
<1>1. call[n].kind = "prompt" /\ call[n].pc = "found" /\ call' = [call EXCEPT ![n].pc = "run"]
  BY DEF StartTurn, At
<1>2. call[n].ctl \in Call /\ n \in 0..MaxCalls
  BY <1>1, AcpConnAssumption DEF Typed, Request, Wired, Call
<1>3. Steps(n, "run")
  BY <1>1, PcMoves DEF CallPc
<1> QED BY <1>1, <1>2, <1>3 DEF StartTurn, Typed

LEMMA AskEffect ==
    ASSUME Typed, NEW n \in Call, Ask(n)
    PROVE  /\ call[n].kind = "prompt" /\ call[n].pc = "run"
           /\ \E k \in Asks : /\ ask[k].pc = "none" /\ Goes(n, "ask", call[n].ctl, k)
                              /\ ask' \in [Asks -> Question] /\ ask'[k].pc = "write" /\ ~ask'[k].allow
                              /\ \A j \in Asks \ {k} : ask'[j] = ask[j]
                              /\ approvals' = approvals \cup {k}
<1>1. PICK k \in Asks : /\ ask[k].pc = "none" /\ call' = [call EXCEPT ![n].pc = "ask", ![n].ask = k]
                        /\ ask' = [ask EXCEPT ![k] = [of |-> n, pc |-> "write", allow |-> FALSE]]
                        /\ approvals' = approvals \cup {k}
  BY DEF Ask
<1>2. k \in 0..MaxAsks /\ [of |-> n, pc |-> "write", allow |-> FALSE] \in Question
  BY AcpConnAssumption DEF Asks, Question, Call
<1>3. Goes(n, "ask", call[n].ctl, k)
  BY <1>1, <1>2, AskMoves DEF CallPc
<1>4. /\ ask' \in [Asks -> Question] /\ ask'[k] = [of |-> n, pc |-> "write", allow |-> FALSE]
      /\ \A j \in Asks \ {k} : ask'[j] = ask[j]
  BY <1>1, <1>2 DEF Typed
<1> QED BY <1>1, <1>3, <1>4 DEF Ask, At

LEMMA DecidedEffect ==
    ASSUME Typed, NEW n \in Call, Decided(n)
    PROVE  call[n].kind = "prompt" /\ call[n].pc = "ask" /\ Steps(n, "run")
BY PcMoves DEF Decided, At, CallPc

LEMMA TurnOverEffect ==
    ASSUME Typed, NEW n \in Call, AskCancelled(n) \/ EndTurn(n)
    PROVE  call[n].kind = "prompt" /\ call[n].pc \in {"run", "ask"} /\ Steps(n, "over")
BY FailedMoves DEF AskCancelled, EndTurn, At, CallPc

LEMMA ClearCancelEffect ==
    ASSUME Typed, Wired, NEW n \in Call, ClearCancel(n)
    PROVE  /\ call[n].kind = "prompt" /\ call[n].pc = "over" /\ Steps(n, "reply")
           /\ call[n].ctl \in Call /\ cancelOf' \in [Call -> 0..MaxCalls]
           /\ \A c \in Call \ {call[n].ctl} : cancelOf'[c] = cancelOf[c]
<1>1. call[n].kind = "prompt" /\ call[n].pc = "over" /\ call' = [call EXCEPT ![n].pc = "reply"]
  BY DEF ClearCancel, At
<1>2. call[n].ctl \in Call
  BY <1>1, AcpConnAssumption DEF Typed, Request, Wired, Call
<1>3. Steps(n, "reply")
  BY <1>1, PcMoves DEF CallPc
<1> QED BY <1>1, <1>2, <1>3, AcpConnAssumption DEF ClearCancel, Typed

LEMMA RespondEffect ==
    ASSUME Typed, NEW n \in Call, Respond(n)
    PROVE  /\ call[n].kind = "prompt" /\ call[n].pc = "reply"
           /\ (\E what \in {"ok", "error", "end", "cancelled"} : Ends(n, what))
           /\ saved' = saved \cup {call[n].sess} /\ call[n].sess \in Sessions
<1>1. \E what \in {"ok", "error", "end", "cancelled"} : Finish(n, what)
  BY DEF Respond
<1>2. call[n].sess \in Sessions
  BY DEF Typed, Request
<1> QED BY <1>1, <1>2, Finishes DEF Respond, At

LEMMA ReadCancelEffect ==
    ASSUME Typed, NEW n \in Call, ReadCancel(n)
    PROVE  /\ call[n].kind = "cancel" /\ call[n].pc = "begin"
           /\ \/ Steps(n, "done")
              \/ \E c \in Call : Goes(n, "abort", c, call[n].ask)
<1> DEFINE c == registry[call[n].sess]
<1>1. c \in 0..MaxCalls /\ (c # 0 => c \in Call)
  BY AcpConnAssumption DEF Typed, Request, Call
<1>2. CASE c = 0 \/ cancelOf[c] = 0
  BY <1>2, PcMoves DEF ReadCancel, At, CallPc
<1>3. CASE ~(c = 0 \/ cancelOf[c] = 0)
  <2>1. cancelOf[c] \in Call /\ cancelOf[c] \in 0..MaxCalls
    BY <1>1, <1>3, AcpConnAssumption DEF Typed, Call
  <2>2. call' = [call EXCEPT ![n].pc = "abort", ![n].ctl = cancelOf[c]]
    BY <1>3 DEF ReadCancel
  <2>3. Goes(n, "abort", cancelOf[c], call[n].ask)
    BY <2>1, <2>2, CtlMoves DEF CallPc
  <2> QED BY <2>1, <2>3 DEF ReadCancel, At
<1> QED BY <1>2, <1>3

LEMMA AbortEffect ==
    ASSUME Typed, Wired, NEW n \in Call, Abort(n)
    PROVE  /\ call[n].kind = "cancel" /\ call[n].pc = "abort" /\ Steps(n, "done")
           /\ call[n].ctl \in Call
<1>1. call[n].ctl \in Call
  BY AcpConnAssumption DEF Abort, At, Typed, Request, Wired, Call
<1> QED BY <1>1, PcMoves DEF Abort, At, CallPc

\* A question goes to another step.
LEMMA QuestionMoves ==
    ASSUME Typed, NEW k \in Asks, Permitting(k)
    PROVE  /\ ask' \in [Asks -> Question] /\ \A j \in Asks \ {k} : ask'[j] = ask[j]
           /\ \/ /\ ask[k].pc = "write" /\ ask'[k].pc = "wait" /\ ask'[k].allow = ask[k].allow
                 /\ pending' = pending \cup {k} /\ UNCHANGED <<approvals, replied>>
              \/ /\ ask[k].pc \in {"write", "wait"} /\ ask'[k].pc = "approve"
                 /\ ask'[k].allow => got[k] \/ ask[k].allow
                 /\ pending' = pending \ {k} /\ UNCHANGED <<approvals, replied>>
              \/ /\ ask[k].pc = "approve" /\ ask'[k].pc = "done" /\ ask'[k].allow = ask[k].allow
                 /\ pending' = pending /\ approvals' = approvals \ {k}
                 /\ replied' \in [Asks -> {"none", "allow", "deny"}]
                 /\ \A j \in Asks : replied'[j] = "allow" => replied[j] = "allow" \/ (j = k /\ ask[k].allow)
<1>1. ask \in [Asks -> Question] /\ ask[k] \in Question /\ got[k] \in BOOLEAN
  BY DEF Typed
<1>2. /\ [ask[k] EXCEPT !.pc = "wait"] \in Question /\ [ask[k] EXCEPT !.pc = "approve"] \in Question
      /\ [ask[k] EXCEPT !.pc = "done"] \in Question
      /\ [[ask[k] EXCEPT !.pc = "approve"] EXCEPT !.allow = got[k]] \in Question
  BY <1>1 DEF Question
<1>3. CASE WriteAsk(k)
  BY <1>1, <1>2, <1>3 DEF WriteAsk, Question
<1>4. CASE GiveUp(k)
  BY <1>1, <1>2, <1>4 DEF GiveUp, Question
<1>5. CASE Resolved(k)
  BY <1>1, <1>2, <1>5 DEF Resolved, Question
<1>6. CASE Approve(k)
  BY <1>1, <1>2, <1>6 DEF Approve, Question, Typed
<1> QED BY <1>3, <1>4, <1>5, <1>6 DEF Permitting

-----------------------------------------------------------------------------
(* Types *)

LEMMA TypedStep == Typed /\ Wired /\ [Next]_vars => Typed'
<1> SUFFICES ASSUME Typed, Wired, [Next]_vars PROVE Typed'
  OBVIOUS
<1> USE DEF serving, sessions, asking, history
<1>1. ASSUME NEW n \in Call, NEW kind \in {"new", "load", "prompt", "cancel"}, NEW s \in Sessions,
             Send(n, kind, s)
      PROVE  Typed'
  <2>1. wire' \in Seq(Frame) /\ call' \in [Call -> Request]
    <3>1. /\ call' \in [Call -> Request] /\ wire \in Seq(Frame)
          /\ wire' = Append(wire, [call |-> n, ask |-> 0, allow |-> FALSE])
          /\ [call |-> n, ask |-> 0, allow |-> FALSE] \in Frame
      BY <1>1, SendEffect DEF Typed
    <3> QED BY <3>1
  <2> QED BY <1>1, <2>1 DEF Send, Typed
<1>2. ASSUME NEW k \in Asks, NEW allow \in BOOLEAN, SendVerdict(k, allow) PROVE Typed'
  <2>1. [call |-> 0, ask |-> k, allow |-> allow] \in Frame
    BY AcpConnAssumption DEF Frame, Asks
  <2>2. wire' \in Seq(Frame) /\ chosen' \in SUBSET Asks
    BY <1>2, <2>1 DEF SendVerdict, Typed
  <2> QED BY <1>2, <2>2 DEF SendVerdict, Typed
<1>3. CASE CloseInput
  BY <1>3 DEF CloseInput, Typed
<1>4. CASE Dispatch
  <2> DEFINE frame == Head(wire)
  <2>0. /\ wire \in Seq(Frame) /\ wire # <<>> /\ wire' = Tail(wire) /\ call \in [Call -> Request]
        /\ \/ Steps(frame.call, "begin") /\ UNCHANGED <<pending, sends, got>>
           \/ frame.ask \in Asks /\ call' = call /\ Resolve(frame.ask, frame.allow)
    BY <1>4, DispatchEffect DEF Typed
  <2>1. wire' \in Seq(Frame) /\ call' \in [Call -> Request]
    BY <2>0 DEF Steps, Goes
  <2>2. pending' \in SUBSET Asks /\ sends' \in [Asks -> Nat] /\ got' \in [Asks -> BOOLEAN]
    <3>1. frame \in Frame
      BY <2>0
    <3>2. frame.allow \in BOOLEAN
      BY <3>1 DEF Frame
    <3>3. pending \in SUBSET Asks /\ sends \in [Asks -> Nat] /\ got \in [Asks -> BOOLEAN]
      BY DEF Typed
    <3> HIDE DEF frame
    <3>4. CASE UNCHANGED <<pending, sends, got>>
      BY <3>3, <3>4
    <3>5. CASE frame.ask \in Asks /\ Resolve(frame.ask, frame.allow)
      BY <3>2, <3>3, <3>5 DEF Resolve
    <3> QED BY <2>0, <3>4, <3>5
  <2> QED BY <1>4, <2>1, <2>2 DEF Dispatch, Typed
<1>5. CASE ReadEof \/ Drain
  BY <1>5 DEF ReadEof, Drain, Typed
<1>6. CASE Shutdown
  <2>1. sends' \in [Asks -> Nat]
    BY <1>6 DEF Shutdown, Typed
  <2> QED BY <1>6, <2>1 DEF Shutdown, Typed
<1>7. CASE CloseAll
  <2>1. stopped' \in SUBSET Call
    <3>1. \A c \in {registry[s] : s \in Sessions} \ {0} : cancelOf[c] \in 0..MaxCalls
      BY AcpConnAssumption DEF Typed, Call
    <3>2. 0..MaxCalls \ {0} = Call
      BY AcpConnAssumption DEF Call
    <3>3. stopped' = stopped \cup ({cancelOf[c] : c \in {registry[s] : s \in Sessions} \ {0}} \ {0})
      BY <1>7 DEF CloseAll
    <3>4. {cancelOf[c] : c \in {registry[s] : s \in Sessions} \ {0}} \subseteq 0..MaxCalls
      BY <3>1
    <3> QED BY <3>2, <3>3, <3>4 DEF Typed
  <2>2. open' \in SUBSET Call /\ registry' \in [Sessions -> 0..MaxCalls]
    BY <1>7, AcpConnAssumption DEF CloseAll, Typed
  <2> QED BY <1>7, <2>1, <2>2 DEF CloseAll, Typed
<1>8. ASSUME NEW n \in Call, Opening(n) PROVE Typed'
  <2>1. /\ call' \in [Call -> Request] /\ answer' \in [Call -> {"none", "ok", "error", "end", "cancelled"}]
        /\ open' \in SUBSET Call /\ registry' \in [Sessions -> 0..MaxCalls]
    <3>1. CASE ReplayLive(n)
      BY <3>1, ReplayLiveEffect DEF ReplayLive, Ends, Steps, Goes, Typed
    <3>2. CASE Build(n)
      BY <3>2, BuildEffect DEF Build, Ends, Steps, Goes, Typed
    <3>3. CASE Register(n)
      BY <3>3, RegisterEffect DEF Register, Ends, Steps, Goes, Typed
    <3>4. CASE LoadFails(n)
      BY <3>4, LoadFailsEffect DEF LoadFails, Ends, Steps, Goes, Typed
    <3> QED BY <1>8, <3>1, <3>2, <3>3, <3>4 DEF Opening
  <2>2. UNCHANGED <<serving, cancelOf, stopped, saved, asking, history>>
    BY <1>8 DEF Opening, ReplayLive, Build, Register, LoadFails
  <2> QED BY <2>1, <2>2 DEF Typed
<1>9. ASSUME NEW n \in Call, Prompting(n) \/ EndTurn(n) PROVE Typed'
  <2>1. call' \in [Call -> Request] /\ answer' \in [Call -> {"none", "ok", "error", "end", "cancelled"}]
    <3>1. CASE LookUp(n)
      BY <3>1, LookUpEffect DEF Ends, Steps, Goes, Typed
    <3>2. CASE StartTurn(n)
      BY <3>2, StartTurnEffect DEF StartTurn, Steps, Goes, Typed
    <3>3. CASE Decided(n)
      BY <3>3, DecidedEffect DEF Decided, Steps, Goes, Typed
    <3>4. CASE AskCancelled(n) \/ EndTurn(n)
      BY <3>4, TurnOverEffect DEF AskCancelled, EndTurn, Steps, Goes, Typed
    <3>5. CASE ClearCancel(n)
      BY <3>5, ClearCancelEffect DEF ClearCancel, Steps, Goes, Typed
    <3>6. CASE Respond(n)
      BY <3>6, RespondEffect DEF Ends, Steps, Goes, Typed
    <3> QED BY <1>9, <3>1, <3>2, <3>3, <3>4, <3>5, <3>6 DEF Prompting
  <2>2. cancelOf' \in [Call -> 0..MaxCalls] /\ stopped' \in SUBSET Call /\ saved' \in SUBSET Sessions
    <3>1. CASE LookUp(n) \/ Decided(n) \/ AskCancelled(n) \/ EndTurn(n)
      BY <3>1 DEF LookUp, Decided, AskCancelled, EndTurn, Typed
    <3>2. CASE StartTurn(n)
      BY <3>2, StartTurnEffect DEF StartTurn, Typed
    <3>3. CASE ClearCancel(n)
      BY <3>3, ClearCancelEffect DEF ClearCancel, Typed
    <3>4. CASE Respond(n)
      BY <3>4, RespondEffect DEF Respond, Typed
    <3> QED BY <1>9, <3>1, <3>2, <3>3, <3>4 DEF Prompting
  <2>3. approvals' \in SUBSET Asks /\ ran' \in SUBSET Asks
    <3>1. CASE Decided(n)
      <4>1. call[n].ask \in Asks
        BY <3>1, AcpConnAssumption DEF Decided, At, Wired, Typed, Request, Asks
      <4> QED BY <3>1, <4>1 DEF Decided, Typed
    <3>2. CASE ~Decided(n)
      BY <1>9, <3>2 DEF Prompting, LookUp, StartTurn, AskCancelled, EndTurn, ClearCancel, Respond, Typed
    <3> QED BY <3>1, <3>2
  <2>4. UNCHANGED <<serving, registry, open, ask, pending, sends, got, replied, chosen>>
    BY <1>9 DEF Prompting, LookUp, StartTurn, Decided, AskCancelled, EndTurn, ClearCancel, Respond
  <2> QED BY <2>1, <2>2, <2>3, <2>4 DEF Typed
<1>10. ASSUME NEW n \in Call, Ask(n) PROVE Typed'
  <2>1. call' \in [Call -> Request] /\ ask' \in [Asks -> Question] /\ approvals' \in SUBSET Asks
    BY <1>10, AskEffect DEF Goes, Typed
  <2> QED BY <1>10, <2>1 DEF Ask, Typed
<1>11. ASSUME NEW n \in Call, Cancelling(n) PROVE Typed'
  <2>1. call' \in [Call -> Request] /\ stopped' \in SUBSET Call
    BY <1>11, ReadCancelEffect, AbortEffect DEF Cancelling, ReadCancel, Abort, Steps, Goes, Typed
  <2> QED BY <1>11, <2>1 DEF Cancelling, ReadCancel, Abort, Typed
<1>12. ASSUME NEW k \in Asks, Permitting(k) PROVE Typed'
  <2>1. /\ ask' \in [Asks -> Question] /\ pending' \in SUBSET Asks /\ approvals' \in SUBSET Asks
        /\ replied' \in [Asks -> {"none", "allow", "deny"}]
    <3>1. /\ ask' \in [Asks -> Question]
          /\ \/ pending' = pending \cup {k} /\ UNCHANGED <<approvals, replied>>
             \/ pending' = pending \ {k} /\ UNCHANGED <<approvals, replied>>
             \/ /\ pending' = pending /\ approvals' = approvals \ {k}
                /\ replied' \in [Asks -> {"none", "allow", "deny"}]
      BY <1>12, QuestionMoves
    <3> QED BY <3>1 DEF Typed
  <2>2. UNCHANGED <<serving, call, answer, sessions, sends, got, history>>
    BY <1>12 DEF Permitting, WriteAsk, GiveUp, Resolved, Approve
  <2> QED BY <2>1, <2>2 DEF Typed
<1>13. CASE UNCHANGED vars
  BY <1>13 DEF vars, Typed
<1> QED BY <1>1, <1>2, <1>3, <1>4, <1>5, <1>6, <1>7, <1>8, <1>9, <1>10, <1>11, <1>12, <1>13
        DEF Next, Client, Serving

-----------------------------------------------------------------------------
(* Frames and calls *)

\* A handler takes its call on, from a step of its own and never back to the wire.
LEMMA HandlerMoves ==
    ASSUME Typed, Wired, NEW n \in Call,
           Opening(n) \/ Prompting(n) \/ Ask(n) \/ EndTurn(n) \/ Cancelling(n)
    PROVE  \E pc \in CallPc, c \in 0..MaxCalls, q \in 0..MaxAsks :
             /\ Goes(n, pc, c, q) /\ call[n].pc \notin {"none", "sent", "done"}
             /\ pc \notin {"none", "sent", "begin"}
             /\ pc = "ask" => q # 0
             /\ pc = "abort" => c # 0
             /\ pc \in {"found", "run", "ask", "over", "reply"} => call[n].kind = "prompt" /\ c # 0
             /\ pc = "built" => call[n].kind \in {"new", "load"}
<1> DEFINE Move(pc, c, q) ==
             /\ Goes(n, pc, c, q) /\ call[n].pc \notin {"none", "sent", "done"}
             /\ pc \notin {"none", "sent", "begin"}
             /\ pc = "ask" => q # 0
             /\ pc = "abort" => c # 0
             /\ pc \in {"found", "run", "ask", "over", "reply"} => call[n].kind = "prompt" /\ c # 0
             /\ pc = "built" => call[n].kind \in {"new", "load"}
<1>1. call[n].ctl \in 0..MaxCalls /\ call[n].ask \in 0..MaxAsks /\ registry[call[n].sess] \in 0..MaxCalls
  BY DEF Typed, Request
<1>2. call[n].pc \in {"found", "run", "ask", "over", "reply"} => call[n].ctl # 0
  BY DEF Wired
<1>3. CASE Opening(n)
  <2>1. Move("done", call[n].ctl, call[n].ask) \/ Move("built", call[n].ctl, call[n].ask)
    <3>1. CASE ReplayLive(n)
      BY <3>1, ReplayLiveEffect DEF Ends, Steps
    <3>2. CASE Build(n)
      BY <3>2, BuildEffect DEF Ends, Steps
    <3>3. CASE Register(n)
      BY <3>3, RegisterEffect DEF Ends, Steps
    <3>4. CASE LoadFails(n)
      BY <3>4, LoadFailsEffect DEF Ends, Steps
    <3> QED BY <1>3, <3>1, <3>2, <3>3, <3>4 DEF Opening
  <2> QED BY <1>1, <2>1 DEF CallPc
<1>4. CASE Prompting(n) \/ EndTurn(n)
  <2>1. \/ Move("done", call[n].ctl, call[n].ask) \/ Move("run", call[n].ctl, call[n].ask)
        \/ Move("over", call[n].ctl, call[n].ask) \/ Move("reply", call[n].ctl, call[n].ask)
        \/ Move("found", registry[call[n].sess], call[n].ask)
    <3>1. CASE LookUp(n)
      BY <3>1, LookUpEffect DEF Ends, Steps
    <3>2. CASE StartTurn(n)
      BY <1>2, <3>2, StartTurnEffect DEF Steps
    <3>3. CASE Decided(n)
      BY <1>2, <3>3, DecidedEffect DEF Steps
    <3>4. CASE AskCancelled(n) \/ EndTurn(n)
      BY <1>2, <3>4, TurnOverEffect DEF Steps
    <3>5. CASE ClearCancel(n)
      BY <1>2, <3>5, ClearCancelEffect DEF Steps
    <3>6. CASE Respond(n)
      BY <3>6, RespondEffect DEF Ends, Steps
    <3> QED BY <1>4, <3>1, <3>2, <3>3, <3>4, <3>5, <3>6 DEF Prompting
  <2> QED BY <1>1, <2>1 DEF CallPc
<1>5. CASE Ask(n)
  <2>1. PICK k \in Asks : Goes(n, "ask", call[n].ctl, k) /\ call[n].kind = "prompt" /\ call[n].pc = "run"
    BY <1>5, AskEffect
  <2>2. k \in 0..MaxAsks /\ k # 0
    BY AcpConnAssumption DEF Asks
  <2>3. Move("ask", call[n].ctl, k)
    BY <1>2, <2>1, <2>2
  <2> QED BY <1>1, <2>2, <2>3 DEF CallPc
<1>6. CASE Cancelling(n)
  <2>1. Move("done", call[n].ctl, call[n].ask) \/ \E c \in Call : Move("abort", c, call[n].ask)
    <3>0. \A c \in Call : c # 0
      BY DEF Call
    <3>1. CASE ReadCancel(n)
      BY <3>0, <3>1, ReadCancelEffect DEF Steps
    <3>2. CASE Abort(n)
      BY <3>2, AbortEffect DEF Steps
    <3> QED BY <1>6, <3>1, <3>2 DEF Cancelling
  <2>2. Call \subseteq 0..MaxCalls
    BY AcpConnAssumption DEF Call
  <2> QED BY <1>1, <2>1, <2>2 DEF CallPc
<1> QED BY <1>3, <1>4, <1>5, <1>6

\* A step that leaves the wire and the calls alone, or only takes one call on.
LEMMA HandlersLeaveTheWire ==
    ASSUME NEW n \in Call, Opening(n) \/ Prompting(n) \/ Ask(n) \/ EndTurn(n) \/ Cancelling(n)
    PROVE  UNCHANGED serving
BY DEF Opening, Prompting, Cancelling, ReplayLive, Build, Register, LoadFails, LookUp, StartTurn, Decided,
       AskCancelled, EndTurn, ClearCancel, Respond, ReadCancel, Abort, Ask

LEMMA OthersLeaveTheCalls ==
    ASSUME \/ CloseInput \/ ReadEof \/ Drain \/ Shutdown \/ CloseAll \/ UNCHANGED vars
           \/ \E k \in Asks : Permitting(k)
    PROVE  wire' = wire /\ call' = call
BY DEF CloseInput, ReadEof, Drain, Shutdown, CloseAll, Permitting, WriteAsk, GiveUp, Resolved, Approve, vars, serving

\* What the wire carries.
LEMMA OnTheWire ==
    ASSUME Typed, NEW i \in DOMAIN wire
    PROVE  /\ wire[i] \in Frame /\ wire[i].call \in 0..MaxCalls /\ wire[i].ask \in 0..MaxAsks
           /\ wire[i].call # 0 => wire[i].call \in Call
<1>1. wire \in Seq(Frame)
  BY DEF Typed
<1>2. wire[i] \in Frame
  BY <1>1
<1>3. wire[i].call \in 0..MaxCalls /\ wire[i].ask \in 0..MaxAsks
  BY <1>2 DEF Frame
<1> QED BY <1>2, <1>3, AcpConnAssumption DEF Call

LEMMA WiredStep == Typed /\ Wired /\ [Next]_vars => Wired'
<1> SUFFICES ASSUME Typed, Wired, [Next]_vars PROVE Wired'
  OBVIOUS
<1>0. wire \in Seq(Frame) /\ call \in [Call -> Request]
  BY DEF Typed
<1>1. ASSUME NEW n \in Call, NEW kind \in {"new", "load", "prompt", "cancel"}, NEW s \in Sessions,
             Send(n, kind, s)
      PROVE  Wired'
  <2> DEFINE f == [call |-> n, ask |-> 0, allow |-> FALSE]
  <2>1. /\ call[n].pc = "none" /\ call'[n].pc = "sent" /\ call'[n].kind = kind
        /\ \A m \in Call \ {n} : call'[m] = call[m]
        /\ wire' = Append(wire, f) /\ f \in Frame /\ f.call = n
    BY <1>1, SendEffect
  <2>2. \A i \in DOMAIN wire : wire[i].call # n
    BY <2>1 DEF Wired, Call
  <2> HIDE DEF f
  <2>3. /\ DOMAIN wire' = 1..(Len(wire) + 1) /\ DOMAIN wire = 1..Len(wire) /\ Len(wire) \in Nat
        /\ \A i \in DOMAIN wire : wire'[i] = wire[i] /\ wire[i] \in Frame
        /\ wire'[Len(wire) + 1] = f
    BY <1>0, <2>1
  <2>4. \A i \in DOMAIN wire' : i \in DOMAIN wire \/ i = Len(wire) + 1
    BY <2>3
  <2>5. \A i \in DOMAIN wire : wire[i].call # 0 => wire[i].call \in Call
    BY <2>3, AcpConnAssumption DEF Frame, Call
  <2>6. n # 0
    BY DEF Call
  <2>7. \A i \in DOMAIN wire' : wire'[i].call # 0 => call'[wire'[i].call].pc = "sent"
    BY <2>1, <2>2, <2>3, <2>4, <2>5 DEF Wired
  <2>8. \A i, j \in DOMAIN wire' : wire'[i].call # 0 /\ wire'[i].call = wire'[j].call => i = j
    BY <2>1, <2>2, <2>3, <2>4 DEF Wired
  <2>9. \A i \in DOMAIN wire' : wire'[i].call = 0 => wire'[i].ask # 0
    BY <2>1, <2>3, <2>4, <2>6 DEF Wired
  <2> QED BY <2>1, <2>7, <2>8, <2>9 DEF Wired
<1>2. ASSUME NEW k \in Asks, NEW allow \in BOOLEAN, SendVerdict(k, allow) PROVE Wired'
  <2> DEFINE f == [call |-> 0, ask |-> k, allow |-> allow]
  <2>1. wire' = Append(wire, f) /\ call' = call /\ f.call = 0 /\ f.ask # 0 /\ f \in Frame
    BY <1>2, AcpConnAssumption DEF SendVerdict, Asks, Frame
  <2> HIDE DEF f
  <2>2. /\ DOMAIN wire' = 1..(Len(wire) + 1) /\ DOMAIN wire = 1..Len(wire) /\ Len(wire) \in Nat
        /\ \A i \in DOMAIN wire : wire'[i] = wire[i]
        /\ wire'[Len(wire) + 1] = f
    BY <1>0, <2>1
  <2>3. \A i \in DOMAIN wire' : i \in DOMAIN wire \/ i = Len(wire) + 1
    BY <2>2
  <2>4. \A i \in DOMAIN wire' : wire'[i].call # 0 => call[wire'[i].call].pc = "sent"
    BY <2>1, <2>2, <2>3 DEF Wired
  <2>5. \A i, j \in DOMAIN wire' : wire'[i].call # 0 /\ wire'[i].call = wire'[j].call => i = j
    BY <2>1, <2>2, <2>3 DEF Wired
  <2>6. \A i \in DOMAIN wire' : wire'[i].call = 0 => wire'[i].ask # 0
    BY <2>1, <2>2, <2>3 DEF Wired
  <2> QED BY <2>1, <2>4, <2>5, <2>6 DEF Wired
<1>3. CASE Dispatch
  <2> DEFINE c == Head(wire).call
  <2>1. /\ wire # <<>> /\ wire' = Tail(wire) /\ c = wire[1].call /\ 1 \in DOMAIN wire
        /\ \/ c \in Call /\ call[c].pc = "sent" /\ Steps(c, "begin")
           \/ c = 0 /\ call' = call
    BY <1>3, DispatchEffect
  <2>2. /\ DOMAIN wire' = 1..(Len(wire) - 1) /\ DOMAIN wire = 1..Len(wire) /\ Len(wire) \in Nat
        /\ \A i \in DOMAIN wire' : i + 1 \in DOMAIN wire /\ wire'[i] = wire[i + 1] /\ i \in Nat /\ i + 1 # 1
    BY <1>0, <2>1
  <2>3. \A i \in DOMAIN wire : wire[i] \in Frame /\ (wire[i].call # 0 => wire[i].call \in Call)
    BY OnTheWire
  <2> HIDE DEF c
  <2>4. \A i \in DOMAIN wire' : wire'[i].call # 0 => wire'[i].call # c
    BY <2>1, <2>2 DEF Wired
  <2>5. \A i \in DOMAIN wire' : wire'[i].call # 0 => call'[wire'[i].call].pc = "sent"
    BY <2>1, <2>2, <2>3, <2>4 DEF Wired, Steps, Goes
  <2>6. \A i, j \in DOMAIN wire' : wire'[i].call # 0 /\ wire'[i].call = wire'[j].call => i = j
    BY <2>2 DEF Wired
  <2>7. \A i \in DOMAIN wire' : wire'[i].call = 0 => wire'[i].ask # 0
    BY <2>2 DEF Wired
  <2>8. CASE c \in Call /\ call[c].pc = "sent" /\ Steps(c, "begin")
    BY <2>5, <2>6, <2>7, <2>8 DEF Wired, Steps, Goes
  <2>9. CASE call' = call
    BY <2>5, <2>6, <2>7, <2>9 DEF Wired
  <2> QED BY <2>1, <2>8, <2>9
<1>4. ASSUME NEW n \in Call, Opening(n) \/ Prompting(n) \/ Ask(n) \/ EndTurn(n) \/ Cancelling(n) PROVE Wired'
  <2>1. wire' = wire
    BY <1>4, HandlersLeaveTheWire DEF serving
  <2>2. PICK pc \in CallPc, c \in 0..MaxCalls, q \in 0..MaxAsks :
             /\ Goes(n, pc, c, q) /\ call[n].pc \notin {"none", "sent", "done"}
             /\ pc \notin {"none", "sent", "begin"}
             /\ pc = "ask" => q # 0
             /\ pc = "abort" => c # 0
             /\ pc \in {"found", "run", "ask", "over", "reply"} => call[n].kind = "prompt" /\ c # 0
             /\ pc = "built" => call[n].kind \in {"new", "load"}
    BY <1>4, HandlerMoves
  <2>3. \A i \in DOMAIN wire : wire[i].call # 0 => wire[i].call \in Call /\ wire[i].call # n
    BY <2>2, OnTheWire DEF Wired
  <2>4. \A i \in DOMAIN wire' : wire'[i].call # 0 => call'[wire'[i].call].pc = "sent"
    BY <2>1, <2>2, <2>3 DEF Wired, Goes
  <2> QED BY <2>1, <2>2, <2>4 DEF Wired, Goes
<1>5. CASE \/ CloseInput \/ ReadEof \/ Drain \/ Shutdown \/ CloseAll \/ UNCHANGED vars
           \/ \E k \in Asks : Permitting(k)
  BY <1>5, OthersLeaveTheCalls DEF Wired
<1> QED BY <1>1, <1>2, <1>3, <1>4, <1>5 DEF Next, Client, Serving

-----------------------------------------------------------------------------
(* Results and permissions *)

LEMMA OneResultStep == Typed /\ Wired /\ OneResult /\ [Next]_vars => OneResult'
<1> SUFFICES ASSUME Typed, Wired, OneResult, [Next]_vars PROVE OneResult'
  OBVIOUS
<1>0. sends \in [Asks -> Nat] /\ pending \in SUBSET Asks
  BY DEF Typed
<1>1. CASE Dispatch
  <2> DEFINE k == Head(wire).ask
  <2>1. ask' = ask
    BY <1>1 DEF Dispatch
  <2>2. UNCHANGED <<pending, sends>> \/ (k \in Asks /\ Resolve(k, Head(wire).allow))
    BY <1>1, DispatchEffect
  <2> HIDE DEF k
  <2>3. CASE UNCHANGED <<pending, sends>>
    BY <2>1, <2>3 DEF OneResult
  <2>4. CASE k \in Asks /\ Resolve(k, Head(wire).allow) /\ k \in pending
    <3>1. pending' = pending \ {k} /\ sends' = [sends EXCEPT ![k] = @ + 1] /\ sends[k] = 0 /\ ask[k].pc = "wait"
      BY <2>4 DEF Resolve, OneResult
    <3>2. k \in Asks /\ sends'[k] = 0 + 1 /\ \A j \in Asks \ {k} : sends'[j] = sends[j]
      BY <1>0, <2>4, <3>1
    <3> QED BY <2>1, <3>1, <3>2 DEF OneResult
  <2> QED BY <2>1, <2>2, <2>3, <2>4 DEF Resolve
<1>2. CASE Shutdown
  <2>1. /\ pending' = {} /\ ask' = ask
        /\ \A k \in Asks : sends'[k] = IF k \in pending THEN sends[k] + 1 ELSE sends[k]
    BY <1>2 DEF Shutdown
  <2>2. \A k \in Asks : IF k \in pending THEN sends'[k] = 1 /\ ask[k].pc = "wait" ELSE sends'[k] = sends[k]
    BY <1>0, <2>1 DEF OneResult
  <2> QED BY <2>1, <2>2 DEF OneResult
<1>3. ASSUME NEW n \in Call, Ask(n) PROVE OneResult'
  <2>1. UNCHANGED <<pending, sends>>
    BY <1>3 DEF Ask
  <2>2. PICK k \in Asks : ask[k].pc = "none" /\ ask'[k].pc = "write" /\ \A j \in Asks \ {k} : ask'[j] = ask[j]
    BY <1>3, AskEffect
  <2> QED BY <2>1, <2>2 DEF OneResult
<1>4. ASSUME NEW k \in Asks, Permitting(k) PROVE OneResult'
  <2>1. sends' = sends
    BY <1>4 DEF Permitting, WriteAsk, GiveUp, Resolved, Approve
  <2>2. /\ \A j \in Asks \ {k} : ask'[j] = ask[j]
        /\ \/ ask[k].pc = "write" /\ ask'[k].pc = "wait" /\ pending' = pending \cup {k}
           \/ ask'[k].pc = "approve" /\ pending' = pending \ {k}
           \/ ask[k].pc = "approve" /\ ask'[k].pc = "done" /\ pending' = pending
    BY <1>4, QuestionMoves
  <2> QED BY <2>1, <2>2 DEF OneResult
<1>5. CASE /\ ~Dispatch /\ ~Shutdown /\ ~(\E n \in Call : Ask(n)) /\ ~(\E k \in Asks : Permitting(k))
  <2>1. UNCHANGED <<ask, pending, sends>>
    BY <1>5 DEF Next, Client, Serving, Opening, Prompting, Cancelling, Send, SendVerdict, CloseInput, ReadEof,
                Drain, CloseAll, ReplayLive, Build, Register, LoadFails, LookUp, StartTurn, Decided, AskCancelled,
                EndTurn, ClearCancel, Respond, ReadCancel, Abort, vars, asking
  <2> QED BY <2>1 DEF OneResult
<1> QED BY <1>1, <1>2, <1>3, <1>4, <1>5

LEMMA AllowedStep == Typed /\ Wired /\ Allowed /\ [Next]_vars => Allowed'
<1> SUFFICES ASSUME Typed, Wired, Allowed, [Next]_vars PROVE Allowed'
  OBVIOUS
<1>0. wire \in Seq(Frame) /\ got \in [Asks -> BOOLEAN]
  BY DEF Typed
<1>1. ASSUME NEW n \in Call, NEW kind \in {"new", "load", "prompt", "cancel"}, NEW s \in Sessions,
             Send(n, kind, s)
      PROVE  Allowed'
  <2> DEFINE f == [call |-> n, ask |-> 0, allow |-> FALSE]
  <2>1. wire' = Append(wire, f) /\ f \in Frame /\ f.allow = FALSE
    BY <1>1, SendEffect
  <2>2. UNCHANGED <<chosen, ran, got, ask, replied>>
    BY <1>1 DEF Send, asking, history
  <2> HIDE DEF f
  <2>3. \A i \in DOMAIN wire' : (i \in DOMAIN wire /\ wire'[i] = wire[i]) \/ wire'[i] = f
    BY <1>0, <2>1
  <2>4. \A i \in DOMAIN wire' : wire'[i].call = 0 /\ wire'[i].allow => wire'[i].ask \in chosen
    BY <2>1, <2>3 DEF Allowed
  <2> QED BY <2>2, <2>4 DEF Allowed
<1>2. ASSUME NEW k \in Asks, NEW allow \in BOOLEAN, SendVerdict(k, allow) PROVE Allowed'
  <2> DEFINE f == [call |-> 0, ask |-> k, allow |-> allow]
  <2>1. /\ wire' = Append(wire, f) /\ f \in Frame /\ f.ask = k /\ f.allow = allow
        /\ UNCHANGED <<ran, got, ask, replied>>
    BY <1>2, AcpConnAssumption DEF SendVerdict, asking, Asks, Frame
  <2>2. chosen \subseteq chosen' /\ (allow => k \in chosen')
    BY <1>2 DEF SendVerdict
  <2> HIDE DEF f
  <2>3. \A i \in DOMAIN wire' : (i \in DOMAIN wire /\ wire'[i] = wire[i]) \/ wire'[i] = f
    BY <1>0, <2>1
  <2>4. \A i \in DOMAIN wire' : wire'[i].call = 0 /\ wire'[i].allow => wire'[i].ask \in chosen'
    BY <2>1, <2>2, <2>3 DEF Allowed
  <2> QED BY <2>1, <2>2, <2>4 DEF Allowed
<1>3. CASE Dispatch
  <2> DEFINE f == Head(wire)
  <2>1. /\ wire # <<>> /\ wire' = Tail(wire) /\ f = wire[1] /\ 1 \in DOMAIN wire
        /\ got' = got \/ (f.call = 0 /\ f.ask \in Asks /\ Resolve(f.ask, f.allow))
    BY <1>3, DispatchEffect
  <2>2. UNCHANGED <<chosen, ran, ask, replied>>
    BY <1>3 DEF Dispatch, history
  <2> HIDE DEF f
  <2>3. \A i \in DOMAIN wire' : i + 1 \in DOMAIN wire /\ wire'[i] = wire[i + 1]
    BY <1>0, <2>1
  <2>4. \A i \in DOMAIN wire' : wire'[i].call = 0 /\ wire'[i].allow => wire'[i].ask \in chosen
    BY <2>3 DEF Allowed
  <2>5. \A k \in Asks : got'[k] => got[k] \/ k \in chosen
    BY <1>0, <2>1 DEF Resolve, Allowed
  <2> QED BY <2>2, <2>4, <2>5 DEF Allowed
<1>4. ASSUME NEW n \in Call, Ask(n) PROVE Allowed'
  <2>1. UNCHANGED <<wire, chosen, ran, got, replied>>
    BY <1>4 DEF Ask, serving, history
  <2>2. PICK k \in Asks : ~ask'[k].allow /\ \A j \in Asks \ {k} : ask'[j] = ask[j]
    BY <1>4, AskEffect
  <2> QED BY <2>1, <2>2 DEF Allowed
<1>5. ASSUME NEW n \in Call, Decided(n) PROVE Allowed'
  <2>1. /\ UNCHANGED <<wire, chosen, got, ask, replied>> /\ call[n].pc = "ask"
        /\ ran' = IF replied[call[n].ask] = "allow" THEN ran \cup {call[n].ask} ELSE ran
    BY <1>5 DEF Decided, At, serving, asking
  <2>2. call[n].ask \in Asks
    BY <2>1, AcpConnAssumption DEF Wired, Typed, Request, Asks
  <2> QED BY <2>1, <2>2 DEF Allowed
<1>6. ASSUME NEW k \in Asks, Permitting(k) PROVE Allowed'
  <2>1. UNCHANGED <<wire, chosen, ran, got>>
    BY <1>6 DEF Permitting, WriteAsk, GiveUp, Resolved, Approve, serving, history
  <2>2. /\ \A j \in Asks \ {k} : ask'[j] = ask[j]
        /\ ask'[k].allow => got[k] \/ ask[k].allow
        /\ \A j \in Asks : replied'[j] = "allow" => replied[j] = "allow" \/ (j = k /\ ask[k].allow)
    BY <1>6, QuestionMoves
  <2>3. \A j \in Asks : got[j] \/ ask'[j].allow \/ replied'[j] = "allow" => j \in chosen
    BY <2>2 DEF Allowed
  <2> QED BY <2>1, <2>3 DEF Allowed
<1>7. CASE /\ ~Dispatch /\ ~(\E n \in Call : Ask(n) \/ Decided(n)) /\ ~(\E k \in Asks : Permitting(k))
           /\ ~(\E n \in Call, kind \in {"new", "load", "prompt", "cancel"}, s \in Sessions : Send(n, kind, s))
           /\ ~(\E k \in Asks, allow \in BOOLEAN : SendVerdict(k, allow))
  <2>1. UNCHANGED <<wire, chosen, ran, got, ask, replied>>
    BY <1>7 DEF Next, Client, Serving, Opening, Prompting, Cancelling, CloseInput, ReadEof, Shutdown,
                Drain, CloseAll, ReplayLive, Build, Register, LoadFails, LookUp, StartTurn, AskCancelled,
                EndTurn, ClearCancel, Respond, ReadCancel, Abort, vars, serving, asking, history
  <2> QED BY <2>1 DEF Allowed
<1> QED BY <1>1, <1>2, <1>3, <1>4, <1>5, <1>6, <1>7

-----------------------------------------------------------------------------
(* Answers and turns *)

\* A call is taken on: what it is stays, and only its end is answered.
Advance(n) ==
    /\ call[n].pc \notin {"none", "done"} /\ call'[n].pc \notin {"none", "sent"}
    /\ call'[n].kind = call[n].kind /\ call'[n].sess = call[n].sess
    /\ \A m \in Call \ {n} : call'[m] = call[m] /\ answer'[m] = answer[m]
    /\ answer'[n] = answer[n] \/ (call'[n].pc = "done" /\ answer'[n] # "none")

LEMMA Advances ==
    ASSUME Typed, Wired, NEW n \in Call,
           Opening(n) \/ Prompting(n) \/ Ask(n) \/ EndTurn(n) \/ Cancelling(n)
    PROVE  Advance(n)
<1>1. PICK pc \in CallPc, c \in 0..MaxCalls, q \in 0..MaxAsks :
        Goes(n, pc, c, q) /\ call[n].pc \notin {"none", "sent", "done"} /\ pc \notin {"none", "sent", "begin"}
  BY HandlerMoves
<1>2. answer' = answer \/ \E what \in {"ok", "error", "end", "cancelled"} : Ends(n, what)
  <2>1. CASE ReplayLive(n) \/ Build(n) \/ Register(n) \/ LoadFails(n)
    BY <2>1, ReplayLiveEffect, BuildEffect, RegisterEffect, LoadFailsEffect
  <2>2. CASE LookUp(n) \/ Respond(n)
    BY <2>2, LookUpEffect, RespondEffect
  <2>3. CASE ~(ReplayLive(n) \/ Build(n) \/ Register(n) \/ LoadFails(n) \/ LookUp(n) \/ Respond(n))
    BY <2>3 DEF Opening, Prompting, Cancelling, StartTurn, Decided, AskCancelled, EndTurn, ClearCancel,
                ReadCancel, Abort, Ask
  <2> QED BY <2>1, <2>2, <2>3
<1> QED BY <1>1, <1>2 DEF Advance, Goes, Steps, Ends

\* What becomes of the calls and their answers in a step.
LEMMA CallsAndAnswers ==
    ASSUME Typed, Wired, [Next]_vars
    PROVE  \/ call' = call /\ answer' = answer
           \/ \E n \in Call : Advance(n)
           \/ /\ answer' = answer
              /\ \E n \in Call, kind \in {"new", "load", "prompt", "cancel"}, s \in Sessions : Send(n, kind, s)
<1>1. CASE Dispatch
  <2>1. answer' = answer /\ (call' = call \/ \E n \in Call : call[n].pc = "sent" /\ Steps(n, "begin"))
    BY <1>1, DispatchEffect DEF Dispatch
  <2> QED BY <2>1 DEF Advance, Steps, Goes
<1>2. CASE \/ CloseInput \/ ReadEof \/ Drain \/ Shutdown \/ CloseAll \/ UNCHANGED vars
           \/ (\E k \in Asks : Permitting(k)) \/ \E k \in Asks, allow \in BOOLEAN : SendVerdict(k, allow)
  BY <1>2 DEF CloseInput, ReadEof, Drain, Shutdown, CloseAll, SendVerdict, Permitting, WriteAsk, GiveUp,
              Resolved, Approve, vars
<1>3. CASE \E n \in Call, kind \in {"new", "load", "prompt", "cancel"}, s \in Sessions : Send(n, kind, s)
  BY <1>3 DEF Send
<1>4. CASE \E n \in Call : Opening(n) \/ Prompting(n) \/ Ask(n) \/ EndTurn(n) \/ Cancelling(n)
  BY <1>4, Advances
<1> QED BY <1>1, <1>2, <1>3, <1>4 DEF Next, Client, Serving

LEMMA AnswersStep == Typed /\ Wired /\ Answers /\ [Next]_vars => Answers'
<1> SUFFICES ASSUME Typed, Wired, Answers, [Next]_vars PROVE Answers'
  OBVIOUS
<1>1. CASE call' = call /\ answer' = answer
  BY <1>1 DEF Answers
<1>2. ASSUME NEW n \in Call, Advance(n) PROVE Answers'
  BY <1>2 DEF Answers, Advance
<1>3. ASSUME NEW n \in Call, NEW kind \in {"new", "load", "prompt", "cancel"}, NEW s \in Sessions,
             Send(n, kind, s), answer' = answer
      PROVE  Answers'
  <2>1. call[n].pc = "none" /\ \A m \in Call \ {n} : call'[m] = call[m]
    BY <1>3, SendEffect
  <2> QED BY <1>3, <2>1 DEF Answers
<1> QED BY <1>1, <1>2, <1>3, CallsAndAnswers

\* The sessions with a transcript: a prompt's answer adds its own.
LEMMA SavedBy ==
    ASSUME Typed, [Next]_vars
    PROVE  \/ saved' = saved
           \/ \E n \in Call : call[n].kind = "prompt" /\ saved' = saved \cup {call[n].sess}
<1>1. CASE \E n \in Call : Respond(n)
  BY <1>1, RespondEffect
<1>2. CASE ~(\E n \in Call : Respond(n))
  BY <1>2 DEF Next, Client, Serving, Opening, Prompting, Cancelling, Send, SendVerdict, CloseInput, Dispatch,
         ReadEof, Shutdown, Drain, CloseAll, ReplayLive, Build, Register, LoadFails, LookUp, StartTurn, Ask,
         Decided, AskCancelled, EndTurn, ClearCancel, ReadCancel, Abort, Permitting, WriteAsk, GiveUp, Resolved,
         Approve, vars, sessions
<1> QED BY <1>1, <1>2

\* What the client may send, where it matters for the sessions in the making.
LEMMA SendIsInTurn ==
    ASSUME Answers, InTurn, NEW n \in Call, NEW kind \in {"new", "load", "prompt", "cancel"}, NEW s \in Sessions,
           Send(n, kind, s), call[n].kind = "none"
    PROVE  /\ \A m \in Call : call[m].kind = "new" /\ call[m].pc # "done" => call[m].sess # s
           /\ kind = "new" => s \notin saved /\ \A m \in Call : call[m].kind # "none" => call[m].sess # s
           /\ Patient /\ kind \in {"load", "prompt"} =>
                 \A m \in Call : call[m].kind = kind /\ call[m].sess = s => answer[m] # "none"
<1>1. MaySend(kind, s)
  BY DEF Send
<1>2. CASE kind = "new"
  BY <1>1, <1>2 DEF MaySend
<1>3. CASE kind = "load"
  BY <1>1, <1>3 DEF MaySend, InTurn, Unanswered
<1>4. CASE kind = "prompt"
  BY <1>1, <1>4 DEF MaySend, InTurn, Unanswered, Known, Answers
<1>5. CASE kind = "cancel"
  BY <1>1, <1>5 DEF MaySend, InTurn, Unanswered
<1> QED BY <1>2, <1>3, <1>4, <1>5

LEMMA InTurnStep == Typed /\ Wired /\ Answers /\ InTurn /\ [Next]_vars => InTurn'
<1> SUFFICES ASSUME Typed, Wired, Answers, InTurn, [Next]_vars PROVE InTurn'
  OBVIOUS
<1>0. \A n \in Call : call[n].pc = "none" <=> call[n].kind = "none"
  BY DEF Wired
<1>1. CASE (call' = call /\ answer' = answer) \/ \E n \in Call : Advance(n)
  <2>1. /\ \A n \in Call : call'[n].kind = call[n].kind /\ call'[n].sess = call[n].sess
        /\ \A n \in Call : call[n].pc = "done" => call'[n].pc = "done"
        /\ \A n \in Call : answer'[n] = "none" => answer[n] = "none"
    BY <1>1 DEF Advance
  <2>2. \A n \in Call : call'[n].kind = "new" /\ call'[n].pc # "done" => call'[n].sess \notin saved'
    BY <2>1, SavedBy DEF InTurn
  <2> QED BY <2>1, <2>2 DEF InTurn
<1>2. ASSUME NEW n \in Call, NEW kind \in {"new", "load", "prompt", "cancel"}, NEW s \in Sessions,
             Send(n, kind, s), answer' = answer
      PROVE  InTurn'
  <2>1. /\ call[n].pc = "none" /\ call'[n].kind = kind /\ call'[n].sess = s
        /\ \A m \in Call \ {n} : call'[m] = call[m]
    BY <1>2, SendEffect
  <2>2. saved' = saved
    BY <1>2 DEF Send, sessions
  <2>3. /\ \A m \in Call : call[m].kind = "new" /\ call[m].pc # "done" => call[m].sess # s
        /\ kind = "new" => s \notin saved /\ \A m \in Call : call[m].kind # "none" => call[m].sess # s
        /\ Patient /\ kind \in {"load", "prompt"} =>
              \A m \in Call : call[m].kind = kind /\ call[m].sess = s => answer[m] # "none"
    BY <1>0, <1>2, <2>1, SendIsInTurn
  <2>4. \A m, o \in Call :
          call'[m].kind = "new" /\ call'[m].pc # "done" /\ o # m /\ call'[o].kind # "none" =>
              call'[o].sess # call'[m].sess
    BY <2>1, <2>3 DEF InTurn
  <2>5. \A m \in Call : call'[m].kind = "new" /\ call'[m].pc # "done" => call'[m].sess \notin saved'
    BY <2>1, <2>2, <2>3 DEF InTurn
  <2>6. Patient => \A m, o \in Call :
          /\ call'[m].kind = call'[o].kind /\ call'[m].kind \in {"load", "prompt"}
          /\ call'[m].sess = call'[o].sess /\ answer'[m] = "none" /\ answer'[o] = "none"
          => m = o
    BY <1>2, <2>1, <2>3 DEF InTurn
  <2> QED BY <2>4, <2>5, <2>6 DEF InTurn
<1> QED BY <1>1, <1>2, CallsAndAnswers

-----------------------------------------------------------------------------
(* Controllers *)

\* The calls that are done stay, and none becomes a built one but by Build.
LEMMA DoneStays ==
    ASSUME Typed, Wired, [Next]_vars
    PROVE  /\ \A n \in Call : call[n].pc = "done" =>
                call'[n].pc = "done" /\ call'[n].kind = call[n].kind /\ call'[n].sess = call[n].sess
           /\ \A n \in Call : call[n].pc # "none" =>
                call'[n].kind = call[n].kind /\ call'[n].sess = call[n].sess
<1>1. CASE (call' = call /\ answer' = answer) \/ \E n \in Call : Advance(n)
  BY <1>1 DEF Advance
<1>2. ASSUME NEW n \in Call, NEW kind \in {"new", "load", "prompt", "cancel"}, NEW s \in Sessions,
             Send(n, kind, s)
      PROVE  call[n].pc = "none" /\ \A m \in Call \ {n} : call'[m] = call[m]
  BY <1>2, SendEffect
<1> QED BY <1>1, <1>2, CallsAndAnswers

LEMMA BuiltStays ==
    ASSUME Typed, Wired, [Next]_vars, NEW n \in Call, call'[n].pc = "built", ~Build(n)
    PROVE  call[n].pc = "built" /\ ~Register(n) /\ ~LoadFails(n)
<1>0. call[n].pc = "built" => ~Build(n)
  BY DEF Build, At
<1>1. ASSUME Dispatch PROVE call[n].pc = "built"
  <2>1. call' = call \/ \E m \in Call : Steps(m, "begin")
    BY <1>1, DispatchEffect
  <2>2. call[n].pc = "built"
    BY <2>1 DEF Steps, Goes
  <2> QED BY <2>2
<1>2. ASSUME NEW m \in Call, Opening(m) \/ Prompting(m) \/ Ask(m) \/ EndTurn(m) \/ Cancelling(m)
      PROVE  call[n].pc = "built"
  <2>1. CASE m # n
    BY <1>2, <2>1, HandlerMoves DEF Goes
  <2>2. CASE m = n
    <3>1. ~ReplayLive(n) /\ ~Register(n) /\ ~LoadFails(n)
      BY ReplayLiveEffect, RegisterEffect, LoadFailsEffect DEF Ends, Steps, Goes
    <3>2. ~LookUp(n) /\ ~StartTurn(n) /\ ~Decided(n) /\ ~AskCancelled(n) /\ ~EndTurn(n)
      BY LookUpEffect, StartTurnEffect, DecidedEffect, TurnOverEffect DEF Ends, Steps, Goes
    <3>3. ~ClearCancel(n) /\ ~Respond(n) /\ ~Ask(n)
      BY ClearCancelEffect, RespondEffect, AskEffect DEF Ends, Steps, Goes
    <3>4. ~ReadCancel(n) /\ ~Abort(n)
      BY ReadCancelEffect, AbortEffect DEF Ends, Steps, Goes
    <3> QED BY <1>2, <2>2, <3>1, <3>2, <3>3, <3>4 DEF Opening, Prompting, Cancelling
  <2> QED BY <2>1, <2>2
<1>3. ASSUME NEW m \in Call, NEW kind \in {"new", "load", "prompt", "cancel"}, NEW s \in Sessions,
             Send(m, kind, s)
      PROVE  call[n].pc = "built"
  <2>1. call'[m].pc = "sent" /\ \A o \in Call \ {m} : call'[o] = call[o]
    BY <1>3, SendEffect
  <2> QED BY <2>1
<1>4. ASSUME \/ CloseInput \/ ReadEof \/ Drain \/ Shutdown \/ CloseAll \/ UNCHANGED vars
             \/ (\E k \in Asks : Permitting(k)) \/ \E k \in Asks, allow \in BOOLEAN : SendVerdict(k, allow)
      PROVE  call[n].pc = "built"
  <2>1. call' = call
    BY <1>4, OthersLeaveTheCalls DEF SendVerdict
  <2> QED BY <2>1
<1>5. call[n].pc = "built"
  BY <1>1, <1>2, <1>3, <1>4 DEF Next, Client, Serving
<1>6. ~Register(n) /\ ~LoadFails(n)
  BY RegisterEffect, LoadFailsEffect DEF Ends, Steps, Goes
<1> QED BY <1>5, <1>6

LEMMA BuiltWaits ==
    ASSUME Typed, Wired, [Next]_vars, NEW n \in Call, call[n].pc = "built", ~Register(n), ~LoadFails(n)
    PROVE  call'[n].pc = "built"
<1>1. ASSUME Dispatch PROVE call'[n].pc = "built"
  <2>1. call' = call \/ \E m \in Call : call[m].pc = "sent" /\ Steps(m, "begin")
    BY <1>1, DispatchEffect
  <2> QED BY <2>1 DEF Steps, Goes
<1>2. ASSUME NEW m \in Call, Opening(m) \/ Prompting(m) \/ Ask(m) \/ EndTurn(m) \/ Cancelling(m)
      PROVE  call'[n].pc = "built"
  <2>1. m # n
    BY <1>2 DEF Opening, Prompting, Cancelling, At, ReplayLive, Build, Register, LoadFails, LookUp, StartTurn,
                Ask, Decided, AskCancelled, EndTurn, ClearCancel, Respond, ReadCancel, Abort
  <2> QED BY <1>2, <2>1, HandlerMoves DEF Goes
<1>3. ASSUME NEW m \in Call, NEW kind \in {"new", "load", "prompt", "cancel"}, NEW s \in Sessions,
             Send(m, kind, s)
      PROVE  call'[n].pc = "built"
  <2>1. call[m].pc = "none" /\ \A o \in Call \ {m} : call'[o] = call[o]
    BY <1>3, SendEffect
  <2> QED BY <2>1
<1>4. ASSUME \/ CloseInput \/ ReadEof \/ Drain \/ Shutdown \/ CloseAll \/ UNCHANGED vars
             \/ (\E k \in Asks : Permitting(k)) \/ \E k \in Asks, allow \in BOOLEAN : SendVerdict(k, allow)
      PROVE  call'[n].pc = "built"
  <2>1. call' = call
    BY <1>4, OthersLeaveTheCalls DEF SendVerdict
  <2> QED BY <2>1
<1> QED BY <1>1, <1>2, <1>3, <1>4 DEF Next, Client, Serving

\* Who touches the registry and the controllers.
LEMMA OwnersOfControllers ==
    ASSUME [Next]_vars
    PROVE  \/ UNCHANGED <<registry, open>>
           \/ CloseAll
           \/ \E n \in Call : Build(n) \/ Register(n) \/ LoadFails(n)
BY DEF Next, Client, Serving, Opening, Prompting, Cancelling, Send, SendVerdict, CloseInput, Dispatch, ReadEof,
       Shutdown, Drain, ReplayLive, LookUp, StartTurn, Ask, Decided, AskCancelled, EndTurn, ClearCancel, Respond,
       ReadCancel, Abort, Permitting, WriteAsk, GiveUp, Resolved, Approve, vars, sessions

\* A session has one call that makes its controller, while none is registered.
LEMMA OneMaker ==
    ASSUME Patient, Wired, Answers, InTurn, Registered, NEW n \in Call, NEW m \in Call,
           call[n].kind \in {"new", "load"}, call[n].pc \in {"begin", "built"}, call[m].pc = "built",
           call[m].sess = call[n].sess
    PROVE  n = m
<1>1. call[m].kind \in {"new", "load"} /\ answer[n] = "none" /\ answer[m] = "none"
  BY DEF Wired, Answers
<1>2. CASE call[n].kind = "new" \/ call[m].kind = "new"
  BY <1>1, <1>2 DEF InTurn
<1>3. CASE call[n].kind = "load" /\ call[m].kind = "load"
  BY <1>1, <1>3 DEF InTurn
<1> QED BY <1>1, <1>2, <1>3

LEMMA RegisteredStep ==
    Typed /\ Wired /\ Answers /\ InTurn /\ Registered /\ [Next]_vars => Registered'
<1> SUFFICES ASSUME Typed, Wired, Answers, InTurn, Registered, [Next]_vars PROVE Registered'
  OBVIOUS
<1>1. /\ \A n \in Call : call[n].pc = "done" =>
             call'[n].pc = "done" /\ call'[n].kind = call[n].kind /\ call'[n].sess = call[n].sess
      /\ \A n \in Call : call[n].pc # "none" =>
             call'[n].kind = call[n].kind /\ call'[n].sess = call[n].sess
  BY DoneStays
<1>2. \A n \in Call : call'[n].pc = "built" /\ ~Build(n) =>
        call[n].pc = "built" /\ ~Register(n) /\ ~LoadFails(n)
  BY BuiltStays
<1>3. /\ registry \in [Sessions -> 0..MaxCalls] /\ open \in SUBSET Call
      /\ \A s \in Sessions : registry[s] # 0 => registry[s] \in Call
      /\ \A n \in Call : call[n].sess \in Sessions
  BY AcpConnAssumption DEF Typed, Call, Request
<1>4. CASE UNCHANGED <<registry, open>> /\ ~(\E n \in Call : Build(n) \/ Register(n) \/ LoadFails(n))
  <2>1. \A n \in Call : call'[n].pc = "built" => call[n].pc = "built" /\ call'[n].sess = call[n].sess
    BY <1>1, <1>2, <1>4
  <2>2. \A n \in Call : call[n].pc = "built" => call'[n].pc = "built"
    BY <1>4, BuiltWaits
  <2> QED BY <1>1, <1>3, <1>4, <2>1, <2>2 DEF Registered
<1>5. CASE CloseAll
  <2>1. /\ call' = call /\ registry' = [s \in Sessions |-> 0]
        /\ open' = open \ ({registry[s] : s \in Sessions} \ {0})
    BY <1>5 DEF CloseAll
  <2>2. \A n \in Call : call[n].pc = "built" => n \in open'
    BY <2>1 DEF Registered
  <2>3. Patient => \A c \in open' : call[c].pc = "built"
    BY <1>3, <2>1 DEF Registered, Call
  <2> QED BY <1>3, <2>1, <2>2, <2>3 DEF Registered
<1>6. ASSUME NEW n \in Call, Build(n) PROVE Registered'
  <2>1. /\ call[n].kind \in {"new", "load"} /\ call[n].pc = "begin"
        /\ call[n].kind = "load" => registry[call[n].sess] = 0
        /\ \/ Steps(n, "built") /\ open' = open \cup {n}
           \/ Ends(n, "error") /\ open' = open
        /\ registry' = registry
    BY <1>6, BuildEffect DEF Build
  <2>2. \A m \in Call \ {n} : call'[m] = call[m]
    BY <2>1 DEF Ends, Steps, Goes
  <2>3. call'[n].sess = call[n].sess /\ (call'[n].pc = "built" => n \in open') /\ (n \in open' \ open => call'[n].pc = "built")
    BY <2>1 DEF Ends, Steps, Goes
  <2>4. registry[call[n].sess] = 0
    <3>1. SUFFICES ASSUME call[n].kind = "new", registry[call[n].sess] # 0 PROVE FALSE
      BY <2>1
    <3>2. /\ registry[call[n].sess] \in Call /\ call[registry[call[n].sess]].pc = "done"
          /\ call[registry[call[n].sess]].kind \in {"new", "load"}
          /\ call[registry[call[n].sess]].sess = call[n].sess
      BY <1>3, <3>1 DEF Registered
    <3> QED BY <2>1, <3>1, <3>2 DEF InTurn
  <2> QED BY <1>1, <1>3, <2>1, <2>2, <2>3, <2>4 DEF Registered
<1>7. ASSUME NEW n \in Call, Register(n) PROVE Registered'
  <2>1. /\ call[n].kind \in {"new", "load"} /\ call[n].pc = "built" /\ Ends(n, "ok")
        /\ registry' \in [Sessions -> 0..MaxCalls] /\ registry'[call[n].sess] = n
        /\ \A s \in Sessions \ {call[n].sess} : registry'[s] = registry[s]
        /\ open' = open
    BY <1>7, RegisterEffect DEF Register
  <2>2. /\ call'[n].pc = "done" /\ call'[n].kind = call[n].kind /\ call'[n].sess = call[n].sess
        /\ \A m \in Call \ {n} : call'[m] = call[m]
    BY <2>1 DEF Ends, Steps, Goes
  <2>3. n \in open /\ (Patient => registry[call[n].sess] = 0)
    BY <2>1 DEF Registered
  <2>4. Patient => \A m \in Call : call'[m].pc = "built" => registry'[call'[m].sess] = 0
    <3>1. SUFFICES ASSUME Patient, NEW m \in Call, call'[m].pc = "built" PROVE registry'[call'[m].sess] = 0
      OBVIOUS
    <3>2. m # n /\ call'[m] = call[m] /\ call[m].pc = "built"
      BY <2>2, <3>1
    <3>3. call[m].sess # call[n].sess
      BY <2>1, <3>1, <3>2, OneMaker
    <3> QED BY <1>3, <2>1, <3>1, <3>2, <3>3 DEF Registered
  <2>5. Patient => \A c \in open : call'[c].pc = "built" \/ \E s \in Sessions : registry'[s] = c
    <3>1. SUFFICES ASSUME Patient, NEW c \in open, c # n, call[c].pc # "built" PROVE \E s \in Sessions : registry'[s] = c
      BY <1>3, <2>1, <2>2
    <3>2. PICK s \in Sessions : registry[s] = c
      BY <3>1 DEF Registered
    <3>3. c # 0
      BY <1>3 DEF Call
    <3>4. s # call[n].sess
      BY <2>3, <3>1, <3>2, <3>3
    <3> QED BY <2>1, <3>2, <3>4
  <2> QED BY <1>1, <1>3, <2>1, <2>2, <2>3, <2>4, <2>5 DEF Registered
<1>8. ASSUME NEW n \in Call, LoadFails(n) PROVE Registered'
  <2>1. /\ call[n].kind = "load" /\ call[n].pc = "built" /\ Ends(n, "error") /\ open' = open \ {n}
        /\ registry' = registry
    BY <1>8, LoadFailsEffect DEF LoadFails
  <2>2. /\ call'[n].pc = "done" /\ call'[n].sess = call[n].sess
        /\ \A m \in Call \ {n} : call'[m] = call[m]
    BY <2>1 DEF Ends, Steps, Goes
  <2>3. \A s \in Sessions : registry[s] # n
    BY <2>1 DEF Registered, Call
  <2> QED BY <1>1, <1>3, <2>1, <2>2, <2>3 DEF Registered
<1> QED BY <1>4, <1>5, <1>6, <1>7, <1>8, OwnersOfControllers

-----------------------------------------------------------------------------
(* Turns *)

InAgent == {"run", "ask", "over"}

\* A turn keeps its controller from the look-up to its end, and runs from StartTurn on.
LEMMA TurnKeepsController ==
    ASSUME Typed, Wired, [Next]_vars, NEW n \in Call, call'[n].pc \in {"found"} \cup InAgent
    PROVE  /\ call'[n].sess = call[n].sess
           /\ \/ /\ call[n].pc \in {"found"} \cup InAgent /\ call'[n].ctl = call[n].ctl
                 /\ call'[n].pc \in InAgent => call[n].pc \in InAgent \/ StartTurn(n)
              \/ /\ call'[n].pc = "found" /\ call[n].pc = "begin" /\ call[n].kind = "prompt"
                 /\ registry[call[n].sess] # 0 /\ call'[n].ctl = registry[call[n].sess]
                 /\ registry' = registry /\ open' = open
<1> DEFINE G == /\ call'[n].sess = call[n].sess
                /\ \/ /\ call[n].pc \in {"found"} \cup InAgent /\ call'[n].ctl = call[n].ctl
                      /\ call'[n].pc \in InAgent => call[n].pc \in InAgent \/ StartTurn(n)
                   \/ /\ call'[n].pc = "found" /\ call[n].pc = "begin" /\ call[n].kind = "prompt"
                      /\ registry[call[n].sess] # 0 /\ call'[n].ctl = registry[call[n].sess]
                      /\ registry' = registry /\ open' = open
<1>0. ASSUME call'[n] = call[n] PROVE G
  BY <1>0
<1>1. ASSUME Dispatch PROVE G
  <2>1. call' = call \/ \E m \in Call : Steps(m, "begin")
    BY <1>1, DispatchEffect
  <2> QED BY <1>0, <2>1 DEF Steps, Goes, InAgent
<1>2. ASSUME NEW m \in Call, m # n, Opening(m) \/ Prompting(m) \/ Ask(m) \/ EndTurn(m) \/ Cancelling(m) PROVE G
  BY <1>0, <1>2, HandlerMoves DEF Goes
<1>3. ASSUME Opening(n) \/ Cancelling(n) PROVE FALSE
  <2>1. CASE ReplayLive(n) \/ Build(n) \/ Register(n) \/ LoadFails(n)
    BY <2>1, ReplayLiveEffect, BuildEffect, RegisterEffect, LoadFailsEffect DEF Ends, Steps, Goes, InAgent
  <2>2. CASE ReadCancel(n) \/ Abort(n)
    BY <2>2, ReadCancelEffect, AbortEffect DEF Steps, Goes, InAgent
  <2> QED BY <1>3, <2>1, <2>2 DEF Opening, Cancelling
<1>4. ASSUME Prompting(n) \/ EndTurn(n) \/ Ask(n) PROVE G
  <2>1. CASE LookUp(n)
    BY <2>1, LookUpEffect DEF LookUp, sessions, Ends, Steps, Goes, InAgent
  <2>2. CASE StartTurn(n)
    BY <2>2, StartTurnEffect DEF Steps, Goes
  <2>3. CASE Decided(n)
    BY <2>3, DecidedEffect DEF Steps, Goes, InAgent
  <2>4. CASE AskCancelled(n) \/ EndTurn(n)
    BY <2>4, TurnOverEffect DEF Steps, Goes, InAgent
  <2>5. CASE ClearCancel(n) \/ Respond(n)
    BY <2>5, ClearCancelEffect, RespondEffect DEF Ends, Steps, Goes, InAgent
  <2>6. CASE Ask(n)
    BY <2>6, AskEffect DEF Goes, InAgent
  <2> QED BY <1>4, <2>1, <2>2, <2>3, <2>4, <2>5, <2>6 DEF Prompting
<1>5. ASSUME NEW m \in Call, NEW kind \in {"new", "load", "prompt", "cancel"}, NEW s \in Sessions,
             Send(m, kind, s)
      PROVE  G
  <2>1. call'[m].pc = "sent" /\ \A o \in Call \ {m} : call'[o] = call[o]
    BY <1>5, SendEffect
  <2> QED BY <1>0, <2>1 DEF InAgent
<1>6. ASSUME \/ CloseInput \/ ReadEof \/ Drain \/ Shutdown \/ CloseAll \/ UNCHANGED vars
             \/ (\E k \in Asks : Permitting(k)) \/ \E k \in Asks, allow \in BOOLEAN : SendVerdict(k, allow)
      PROVE  G
  <2>1. call' = call
    BY <1>6, OthersLeaveTheCalls DEF SendVerdict
  <2> QED BY <1>0, <2>1
<1> QED BY <1>1, <1>2, <1>3, <1>4, <1>5, <1>6 DEF Next, Client, Serving

\* Two turns of a patient client do not share a controller.
LEMMA OneTurn ==
    ASSUME Patient, Typed, Wired, Answers, InTurn, Registered, Running,
           NEW n \in Call, NEW m \in Call, call[n].pc \in {"found"} \cup InAgent,
           call[m].pc \in {"found"} \cup InAgent, call[n].ctl = call[m].ctl
    PROVE  n = m
<1>1. registry[call[n].sess] = call[n].ctl /\ registry[call[m].sess] = call[n].ctl /\ call[n].ctl # 0
  BY DEF Running, Wired, InAgent
<1>2. call[n].sess \in Sessions /\ call[m].sess \in Sessions
  BY DEF Typed, Request
<1>3. call[n].sess = call[m].sess
  BY <1>1, <1>2 DEF Registered
<1>4. call[n].kind = "prompt" /\ call[m].kind = "prompt" /\ answer[n] = "none" /\ answer[m] = "none"
  BY DEF Wired, Answers, InAgent
<1> QED BY <1>3, <1>4 DEF InTurn

LEMMA CancelOwners ==
    ASSUME [Next]_vars
    PROVE  cancelOf' = cancelOf \/ \E n \in Call : StartTurn(n) \/ ClearCancel(n)
BY DEF Next, Client, Serving, Opening, Prompting, Cancelling, Send, SendVerdict, CloseInput, Dispatch, ReadEof,
       Shutdown, Drain, CloseAll, ReplayLive, Build, Register, LoadFails, LookUp, Ask, Decided, AskCancelled,
       EndTurn, Respond, ReadCancel, Abort, Permitting, WriteAsk, GiveUp, Resolved, Approve, vars, sessions

\* Once the handlers are awaited none runs again.
LEMMA Awaited ==
    ASSUME Typed, Wired, Running, [Next]_vars, reader' \in {"close", "teardown", "ended"}
    PROVE  /\ \A n \in Call : call'[n].pc \in {"none", "sent", "done"}
           /\ ~(\E n \in Call : Opening(n) \/ Prompting(n) \/ Ask(n) \/ EndTurn(n) \/ Cancelling(n))
<1>1. ASSUME NEW n \in Call, Opening(n) \/ Prompting(n) \/ Ask(n) \/ EndTurn(n) \/ Cancelling(n) PROVE FALSE
  <2>1. reader' = reader
    BY <1>1, HandlersLeaveTheWire DEF serving
  <2>2. call[n].pc \notin {"none", "sent", "done"}
    BY <1>1, HandlerMoves
  <2> QED BY <2>1, <2>2 DEF Running
<1>2. CASE Drain
  BY <1>1, <1>2 DEF Drain
<1>3. ASSUME NEW n \in Call, NEW kind \in {"new", "load", "prompt", "cancel"}, NEW s \in Sessions,
             Send(n, kind, s)
      PROVE  \A m \in Call : call'[m].pc \in {"none", "sent", "done"}
  <2>1. call'[n].pc = "sent" /\ \A m \in Call \ {n} : call'[m] = call[m]
    BY <1>3, SendEffect
  <2>2. reader' = reader
    BY <1>3 DEF Send
  <2> QED BY <2>1, <2>2 DEF Running
<1>4. CASE Dispatch \/ ReadEof
  BY <1>4, DispatchEffect DEF Dispatch, ReadEof
<1>5. CASE CloseInput \/ Shutdown \/ CloseAll \/ UNCHANGED vars \/ (\E k \in Asks : Permitting(k))
           \/ \E k \in Asks, allow \in BOOLEAN : SendVerdict(k, allow)
  <2>1. call' = call
    BY <1>5, OthersLeaveTheCalls DEF SendVerdict
  <2>2. reader \in {"close", "teardown", "ended"}
    BY <1>5 DEF CloseInput, Shutdown, CloseAll, vars, serving, Permitting, WriteAsk, GiveUp, Resolved, Approve,
                SendVerdict
  <2> QED BY <1>1, <2>1, <2>2 DEF Running
<1> QED BY <1>1, <1>2, <1>3, <1>4, <1>5 DEF Next, Client, Serving

LEMMA RunningStep ==
    Typed /\ Wired /\ Answers /\ InTurn /\ Registered /\ Running /\ [Next]_vars => Running'
<1> SUFFICES ASSUME Typed, Wired, Answers, InTurn, Registered, Running, [Next]_vars PROVE Running'
  OBVIOUS
<1>0. /\ \A n \in Call : call[n].sess \in Sessions /\ call[n].ctl \in 0..MaxCalls
      /\ \A n \in Call : call[n].pc \in {"found"} \cup InAgent => call[n].ctl \in Call
      /\ \A s \in Sessions : registry[s] # 0 => registry[s] \in Call
  BY AcpConnAssumption DEF Typed, Request, Wired, InAgent, Call
<1>1. ASSUME NEW n \in Call, call'[n].pc \in {"found"} \cup InAgent
      PROVE  /\ call'[n].sess = call[n].sess
             /\ \/ /\ call[n].pc \in {"found"} \cup InAgent /\ call'[n].ctl = call[n].ctl
                   /\ call'[n].pc \in InAgent => call[n].pc \in InAgent \/ StartTurn(n)
                \/ /\ call'[n].pc = "found" /\ call[n].pc = "begin" /\ call[n].kind = "prompt"
                   /\ registry[call[n].sess] # 0 /\ call'[n].ctl = registry[call[n].sess]
                   /\ registry' = registry /\ open' = open
  BY <1>1, TurnKeepsController
<1>2. \A n \in Call : call[n].pc = "done" => call'[n].pc = "done"
  BY DoneStays
<1>3. ASSUME NEW n \in Call, call'[n].pc \in {"found"} \cup InAgent
      PROVE  call'[n].ctl \in open' /\ call'[call'[n].ctl].pc = "done"
  <2>1. CASE call[n].pc \in {"found"} \cup InAgent /\ call'[n].ctl = call[n].ctl
    <3>1. call[n].ctl \in Call /\ call[n].ctl \in open /\ call[call[n].ctl].pc = "done"
      BY <1>0, <2>1 DEF Running, InAgent
    <3>2. open' = open \/ CloseAll \/ \E m \in Call : Build(m) \/ Register(m) \/ LoadFails(m)
      BY OwnersOfControllers
    <3>3. ~CloseAll
      BY <2>1 DEF CloseAll, Running, InAgent
    <3>4. ASSUME NEW m \in Call, Build(m) \/ Register(m) \/ LoadFails(m) PROVE call[n].ctl \in open'
      BY <3>1, <3>4 DEF Build, Register, LoadFails, At
    <3> QED BY <1>2, <2>1, <3>1, <3>2, <3>3, <3>4
  <2>2. CASE call'[n].ctl = registry[call[n].sess] /\ registry[call[n].sess] # 0 /\ open' = open
    <3>1. registry[call[n].sess] \in Call /\ registry[call[n].sess] \in open /\ call[registry[call[n].sess]].pc = "done"
      BY <1>0, <2>2 DEF Registered
    <3> QED BY <1>2, <2>2, <3>1
  <2> QED BY <1>1, <1>3, <2>1, <2>2
<1>4. ASSUME Patient, NEW n \in Call, call'[n].pc \in {"found"} \cup InAgent
      PROVE  registry'[call'[n].sess] = call'[n].ctl
  <2>1. CASE call[n].pc \in {"found"} \cup InAgent /\ call'[n].ctl = call[n].ctl
    <3>1. registry[call[n].sess] = call[n].ctl /\ call[n].ctl # 0 /\ call'[n].sess = call[n].sess
      BY <1>1, <1>4, <2>1 DEF Running, Wired, InAgent
    <3>2. registry' = registry \/ CloseAll \/ \E m \in Call : Build(m) \/ Register(m) \/ LoadFails(m)
      BY OwnersOfControllers
    <3>3. ~CloseAll
      BY <2>1 DEF CloseAll, Running, InAgent
    <3>4. ASSUME NEW m \in Call, Register(m) PROVE registry'[call[n].sess] = registry[call[n].sess]
      <4>1. /\ call[m].pc = "built" /\ \A s \in Sessions \ {call[m].sess} : registry'[s] = registry[s]
        BY <3>4, RegisterEffect
      <4>2. registry[call[m].sess] = 0
        BY <1>4, <4>1 DEF Registered
      <4> QED BY <1>0, <3>1, <4>1, <4>2
    <3>5. ASSUME NEW m \in Call, Build(m) \/ LoadFails(m) PROVE registry' = registry
      BY <3>5 DEF Build, LoadFails
    <3> QED BY <2>1, <3>1, <3>2, <3>3, <3>4, <3>5
  <2>2. CASE call'[n].ctl = registry[call[n].sess] /\ registry' = registry
    BY <1>1, <1>4, <2>2
  <2> QED BY <1>1, <1>4, <2>1, <2>2
<1>5. ASSUME Patient, NEW n \in Call, call'[n].pc \in InAgent
      PROVE  cancelOf'[call'[n].ctl] = n
  <2>1. /\ call[n].pc \in {"found"} \cup InAgent /\ call'[n].ctl = call[n].ctl /\ call[n].ctl \in Call
        /\ call[n].pc \in InAgent \/ StartTurn(n)
    BY <1>0, <1>1, <1>5 DEF InAgent
  <2>2. CASE StartTurn(n)
    BY <2>1, <2>2, StartTurnEffect
  <2>3. CASE call[n].pc \in InAgent
    <3>1. cancelOf[call[n].ctl] = n
      BY <1>5, <2>3 DEF Running, InAgent
    <3>2. CASE cancelOf' = cancelOf
      BY <2>1, <3>1, <3>2
    <3>3. ASSUME NEW m \in Call, StartTurn(m) PROVE cancelOf'[call[n].ctl] = n
      <4>1. /\ call[m].pc \in {"found"} \cup InAgent /\ cancelOf'[call[m].ctl] = m
            /\ \A c \in Call \ {call[m].ctl} : cancelOf'[c] = cancelOf[c]
        BY <3>3, StartTurnEffect
      <4>2. CASE call[m].ctl = call[n].ctl
        BY <1>5, <2>1, <4>1, <4>2, OneTurn
      <4>3. CASE call[m].ctl # call[n].ctl
        BY <2>1, <3>1, <4>1, <4>3
      <4> QED BY <4>2, <4>3
    <3>4. ASSUME NEW m \in Call, ClearCancel(m) PROVE cancelOf'[call[n].ctl] = n
      <4>1. /\ call[m].pc = "over" /\ call'[m].pc = "reply"
            /\ \A c \in Call \ {call[m].ctl} : cancelOf'[c] = cancelOf[c]
        BY <3>4, ClearCancelEffect DEF Steps, Goes
      <4>2. n # m
        BY <1>5, <4>1 DEF InAgent
      <4>3. call[m].ctl # call[n].ctl
        BY <1>5, <2>1, <4>1, <4>2, OneTurn DEF InAgent
      <4> QED BY <2>1, <3>1, <4>1, <4>3
    <3> QED BY <2>1, <3>2, <3>3, <3>4, CancelOwners
  <2> QED BY <2>1, <2>2, <2>3
<1>6. reader' \in {"close", "teardown", "ended"} => \A n \in Call : call'[n].pc \in {"none", "sent", "done"}
  BY Awaited
<1> QED BY <1>3, <1>4, <1>5, <1>6 DEF Running, InAgent

LEMMA NothingLeftStep ==
    Typed /\ Wired /\ Registered /\ Running /\ NothingLeft /\ [Next]_vars => NothingLeft'
<1> SUFFICES ASSUME Typed, Wired, Registered, Running, NothingLeft, [Next]_vars, Patient, reader' = "ended"
             PROVE  open' = {}
  BY DEF NothingLeft
<1>1. CASE CloseAll
  <2>1. open' = open \ ({registry[s] : s \in Sessions} \ {0}) /\ reader = "teardown"
    BY <1>1 DEF CloseAll
  <2>2. ASSUME NEW c \in open PROVE c \in {registry[s] : s \in Sessions} \ {0}
    <3>1. c \in Call /\ c # 0
      BY DEF Typed, Call
    <3>2. call[c].pc # "built"
      BY <2>1, <3>1 DEF Running
    <3> QED BY <3>1, <3>2 DEF Registered
  <2> QED BY <2>1, <2>2
<1>2. CASE ~CloseAll
  <2>1. ~(\E n \in Call : Build(n) \/ Register(n) \/ LoadFails(n))
    BY Awaited DEF Opening
  <2>2. open' = open
    BY <1>2, <2>1, OwnersOfControllers
  <2>3. reader = "ended"
    BY <1>2 DEF Next, Client, Serving, Opening, Prompting, Cancelling, Send, SendVerdict, CloseInput, Dispatch,
                ReadEof, Shutdown, Drain, ReplayLive, Build, Register, LoadFails, LookUp, StartTurn, Ask, Decided,
                AskCancelled, EndTurn, ClearCancel, Respond, ReadCancel, Abort, Permitting, WriteAsk, GiveUp,
                Resolved, Approve, vars, serving
  <2> QED BY <2>2, <2>3 DEF NothingLeft
<1> QED BY <1>1, <1>2

-----------------------------------------------------------------------------
(* The theorems *)

LEMMA InitHolds == Init => IInv
<1> SUFFICES ASSUME Init PROVE IInv
  OBVIOUS
<1>1. Unsent \in Request /\ NoAsk \in Question /\ Unsent.pc = "none" /\ Unsent.kind = "none"
      /\ NoAsk.pc = "none" /\ NoAsk.allow = FALSE
  BY AcpConnAssumption DEF Unsent, NoAsk, Request, Question, CallPc
<1>2. Typed
  <2>1. /\ wire \in Seq(Frame) /\ call \in [Call -> Request] /\ ask \in [Asks -> Question]
        /\ answer \in [Call -> {"none", "ok", "error", "end", "cancelled"}]
        /\ replied \in [Asks -> {"none", "allow", "deny"}]
    BY <1>1 DEF Init
  <2>2. /\ registry \in [Sessions -> 0..MaxCalls] /\ cancelOf \in [Call -> 0..MaxCalls]
        /\ sends \in [Asks -> Nat] /\ got \in [Asks -> BOOLEAN]
    BY AcpConnAssumption DEF Init
  <2>3. /\ eof \in BOOLEAN /\ ctxDone \in BOOLEAN /\ closed \in BOOLEAN
        /\ reader \in {"read", "wait", "close", "teardown", "ended"}
        /\ stopped \in SUBSET Call /\ open \in SUBSET Call /\ saved \in SUBSET Sessions
        /\ pending \in SUBSET Asks /\ approvals \in SUBSET Asks /\ chosen \in SUBSET Asks /\ ran \in SUBSET Asks
    BY DEF Init
  <2> QED BY <2>1, <2>2, <2>3 DEF Typed
<1>3. /\ wire = <<>> /\ DOMAIN wire = {} /\ reader = "read" /\ pending = {} /\ ran = {} /\ open = {}
      /\ \A n \in Call : call[n] = Unsent /\ answer[n] = "none"
      /\ \A k \in Asks : ask[k] = NoAsk /\ sends[k] = 0 /\ ~got[k] /\ replied[k] = "none"
      /\ \A s \in Sessions : registry[s] = 0
  BY DEF Init
<1>4. Wired
  BY <1>1, <1>3 DEF Wired
<1>5. OneResult /\ Allowed /\ Answers
  BY <1>1, <1>3 DEF OneResult, Allowed, Answers
<1>6. InTurn
  BY <1>1, <1>3 DEF InTurn
<1>7. Registered /\ Running /\ NothingLeft
  BY <1>1, <1>3 DEF Registered, Running, NothingLeft
<1> QED BY <1>2, <1>4, <1>5, <1>6, <1>7 DEF IInv

LEMMA Invariance == Spec => []IInv
<1>1. IInv /\ [Next]_vars => IInv'
  BY TypedStep, WiredStep, OneResultStep, AllowedStep, AnswersStep, InTurnStep, RegisteredStep, RunningStep,
     NothingLeftStep DEF IInv
<1> QED BY InitHolds, <1>1, PTL DEF Spec

\* Every variable keeps its type, and a request is pending only while its goroutine is in it.
THEOREM TypeCorrect == Spec => []TypeOK
<1>1. IInv => TypeOK
  <2> SUFFICES ASSUME IInv PROVE TypeOK
    OBVIOUS
  <2>1. Typed /\ OneResult
    BY DEF IInv
  <2>2. \A n \in Call : call[n].ctl \in 0..MaxCalls /\ call[n].ask \in 0..MaxAsks
    BY <2>1 DEF Typed, Request
  <2> QED BY <2>1, <2>2 DEF TypeOK, Typed, OneResult
<1> QED BY Invariance, <1>1, PTL

\* Conn: the channel of a request, which holds one result, never gets a second: neither the
\* reader nor the shutdown waits on it with the lock held.
THEOREM OneResultEach == Spec => []OneResultPerRequest
<1>1. IInv => OneResultPerRequest
  BY DEF IInv, OneResult, OneResultPerRequest
<1> QED BY Invariance, <1>1, PTL

\* A tool runs on the permission the client gave for that very call.
THEOREM RanAllowed == Spec => []RanOnlyIfAllowed
<1>1. IInv => RanOnlyIfAllowed
  BY DEF IInv, Allowed, RanOnlyIfAllowed
<1> QED BY Invariance, <1>1, PTL

\* Whatever the client does, a turn runs on a controller that is not closed.
THEOREM OpenForTurns == Spec => []OpenWhileTurnRuns
<1>1. IInv => OpenWhileTurnRuns
  BY DEF IInv, Running, OpenWhileTurnRuns
<1> QED BY Invariance, <1>1, PTL

\* A patient client's cancel reaches the turn that runs on its session.
THEOREM CancelReaches == Spec => []CancelIsWired
<1>1. IInv => CancelIsWired
  BY DEF IInv, Running, CancelIsWired
<1> QED BY Invariance, <1>1, PTL

\* When Serve returns to a patient client, each controller that was built is closed.
THEOREM AllClosed == Spec => []NothingLeftOpen
<1>1. IInv => NothingLeftOpen
  BY DEF IInv, NothingLeft, NothingLeftOpen
<1> QED BY Invariance, <1>1, PTL
=============================================================================
