------------------------------ MODULE AcpConn ------------------------------
(***************************************************************************)
(* The agent as a server of an editor (internal/acp): one JSON-RPC          *)
(* connection over stdin and stdout on which both ends make requests.  The  *)
(* reader takes one frame after the other and starts a goroutine for each   *)
(* request and notification of the client; answers to the agent's own       *)
(* requests for permission it resolves itself.  A turn that needs a         *)
(* permission waits for a goroutine that asks the client.  When the input   *)
(* ends the handlers are cancelled, awaited, and everything is torn down.   *)
(*                                                                         *)
(* A controller is named by the number of the call that built it.  What a   *)
(* turn does between its questions is in AgentLoop, its approvals in        *)
(* TurnGate.  The client does as it likes within the protocol; a patient    *)
(* one awaits an answer before it loads or prompts the same session again.  *)
(***************************************************************************)
EXTENDS Integers, Sequences, FiniteSets

CONSTANTS
    Sessions,      \* session ids
    MaxCalls,      \* bound: requests and notifications of the client
    MaxAsks,       \* bound: requests for permission
    Patient        \* the client has one prompt and one load of a session in flight

ASSUME AcpConnAssumption ==
    /\ Sessions # {}
    /\ MaxCalls \in Nat /\ MaxAsks \in Nat
    /\ Patient \in BOOLEAN

Call == 1..MaxCalls
Asks == 1..MaxAsks

VARIABLES
    wire,       \* frames of the client that are not read yet
    eof,        \* the client has closed its end
    reader,     \* Conn.Serve: its step
    ctxDone,    \* Serve's context is cancelled
    closed,     \* Conn.closed
    call,       \* handlers by number: request, session, step, controller, question, outcome
    answer,     \* responses written to the client
    registry,   \* service.sessions: the controller of a session, 0 for none
    cancelOf,   \* acpSession.cancel: the turn it stops, 0 for nil
    stopped,    \* turns whose own context is cancelled
    open,       \* controllers that are built and not closed
    saved,      \* sessions with a transcript, at first those of earlier processes
    ask,        \* goroutines of requestPermission: the turn, the step, the verdict
    pending,    \* Conn.pending
    sends,      \* results sent to the channel of a request, which holds one
    got,        \* the first of them
    approvals,  \* Controller.approvals
    replied,    \* replies the turns have got
    chosen, ran \* history: permissions the client gave, tools that ran on one

serving  == <<wire, eof, reader, ctxDone, closed>>
sessions == <<registry, cancelOf, stopped, open, saved>>
asking   == <<ask, pending, sends, got, approvals, replied>>
history  == <<chosen, ran>>
vars     == <<serving, call, answer, sessions, asking, history>>

Unsent == [kind |-> "none", sess |-> CHOOSE s \in Sessions : TRUE, pc |-> "none",
           ctl |-> 0, ask |-> 0, failed |-> FALSE]
NoAsk  == [of |-> 0, pc |-> "none", allow |-> FALSE]

Init ==
    /\ wire = <<>> /\ eof = FALSE /\ reader = "read" /\ ctxDone = FALSE /\ closed = FALSE
    /\ call = [n \in Call |-> Unsent]
    /\ answer = [n \in Call |-> "none"]
    /\ registry = [s \in Sessions |-> 0]
    /\ cancelOf = [n \in Call |-> 0]
    /\ stopped = {} /\ open = {} /\ saved \in SUBSET Sessions
    /\ ask = [k \in Asks |-> NoAsk]
    /\ pending = {} /\ approvals = {}
    /\ sends = [k \in Asks |-> 0] /\ got = [k \in Asks |-> FALSE]
    /\ replied = [k \in Asks |-> "none"]
    /\ chosen = {} /\ ran = {}

Stopped(n) == ctxDone \/ n \in stopped
At(n, kinds, pc) == call[n].kind \in kinds /\ call[n].pc = pc

-----------------------------------------------------------------------------
(* The client *)

Unanswered(kind, s) == \E n \in Call : call[n].kind = kind /\ call[n].sess = s /\ answer[n] = "none"
Known(s) == \E n \in Call : call[n].kind \in {"new", "load"} /\ call[n].sess = s /\ answer[n] = "ok"

MaySend(kind, s) ==
    CASE kind = "new"    -> s \notin saved /\ \A n \in Call : call[n].sess = s => call[n].kind = "none"
      [] kind = "load"   -> s \in saved /\ (Patient => ~Unanswered("load", s))
      [] kind = "prompt" -> Known(s) /\ (Patient => ~Unanswered("prompt", s))
      [] kind = "cancel" -> Unanswered("prompt", s)

Send(n, kind, s) ==
    /\ ~eof /\ call[n].pc = "none"
    /\ \A m \in Call : m < n => call[m].pc # "none"
    /\ MaySend(kind, s)
    /\ wire' = Append(wire, [call |-> n, ask |-> 0, allow |-> FALSE])
    /\ call' = [call EXCEPT ![n] = [Unsent EXCEPT !.kind = kind, !.sess = s, !.pc = "sent"]]
    /\ UNCHANGED <<eof, reader, ctxDone, closed, answer, sessions, asking, history>>

\* The client answers a question it has been asked.
SendVerdict(k, allow) ==
    /\ ~eof /\ ask[k].pc \notin {"none", "write"} /\ k \notin chosen
    /\ \A i \in DOMAIN wire : wire[i].ask # k
    /\ sends[k] = 0
    /\ wire' = Append(wire, [call |-> 0, ask |-> k, allow |-> allow])
    /\ chosen' = IF allow THEN chosen \cup {k} ELSE chosen
    /\ UNCHANGED <<eof, reader, ctxDone, closed, call, answer, sessions, asking, ran>>

CloseInput ==
    /\ ~eof /\ eof' = TRUE
    /\ UNCHANGED <<wire, reader, ctxDone, closed, call, answer, sessions, asking, history>>

-----------------------------------------------------------------------------
(* Conn.Serve *)

\* Mutant: an answer goes to the oldest question.
ResolveOldest(k, allow) ==
    IF pending = {} THEN UNCHANGED <<pending, sends, got>>
    ELSE LET o == CHOOSE o \in pending : \A p \in pending : o <= p IN
         /\ pending' = pending \ {o}
         /\ sends' = [sends EXCEPT ![o] = @ + 1]
         /\ got' = [got EXCEPT ![o] = allow]

\* resolve: a response wakes the request of its id, once.
Resolve(k, allow) ==
    IF k \in pending
    THEN /\ pending' = pending \ {k}
         /\ sends' = [sends EXCEPT ![k] = @ + 1]
         /\ got' = [got EXCEPT ![k] = allow]
    ELSE UNCHANGED <<pending, sends, got>>

\* dispatch: one frame.
Dispatch ==
    /\ reader = "read" /\ wire # <<>>
    /\ LET frame == Head(wire) IN
       IF frame.call # 0
       THEN /\ call' = [call EXCEPT ![frame.call].pc = "begin"]
            /\ UNCHANGED <<pending, sends, got>>
       ELSE /\ Resolve(frame.ask, frame.allow)
            /\ UNCHANGED call
    /\ wire' = Tail(wire)
    /\ UNCHANGED <<eof, reader, ctxDone, closed, answer, sessions, ask, approvals, replied, history>>

ReadEof ==
    /\ reader = "read" /\ wire = <<>> /\ eof
    /\ reader' = "wait" /\ ctxDone' = TRUE
    /\ UNCHANGED <<wire, eof, closed, call, answer, sessions, asking, history>>

\* wg.Wait.
Drain ==
    /\ reader = "wait"
    /\ \A n \in Call : call[n].pc \in {"none", "sent", "done"}
    /\ reader' = "close"
    /\ UNCHANGED <<wire, eof, ctxDone, closed, call, answer, sessions, asking, history>>

\* shutdown fails what is pending.
Shutdown ==
    /\ reader = "close"
    /\ closed' = TRUE
    /\ sends' = [k \in Asks |-> IF k \in pending THEN sends[k] + 1 ELSE sends[k]]
    /\ pending' = {} /\ reader' = "teardown"
    /\ UNCHANGED <<wire, eof, ctxDone, call, answer, sessions, ask, got, approvals, replied, history>>

CloseAll ==
    /\ reader = "teardown"
    /\ LET live == {registry[s] : s \in Sessions} \ {0} IN
       /\ open' = open \ live
       /\ stopped' = stopped \cup ({cancelOf[c] : c \in live} \ {0})
    /\ registry' = [s \in Sessions |-> 0]
    /\ reader' = "ended"
    /\ UNCHANGED <<wire, eof, ctxDone, closed, call, answer, cancelOf, saved, asking, history>>

-----------------------------------------------------------------------------
(* Handlers *)

Finish(n, what) ==
    /\ call' = [call EXCEPT ![n].pc = "done"]
    /\ answer' = [answer EXCEPT ![n] = what]

\* session/load of a session that is live replays it from memory.
ReplayLive(n) ==
    /\ At(n, {"load"}, "begin") /\ registry[call[n].sess] # 0
    /\ Finish(n, "ok")
    /\ UNCHANGED <<serving, sessions, asking, history>>

\* The factory builds a controller, or fails.
Build(n) ==
    /\ At(n, {"new", "load"}, "begin")
    /\ call[n].kind = "load" => registry[call[n].sess] = 0
    /\ \/ /\ open' = open \cup {n}
          /\ call' = [call EXCEPT ![n].pc = "built"]
          /\ UNCHANGED answer
       \/ Finish(n, "error") /\ UNCHANGED open
    /\ UNCHANGED <<serving, registry, cancelOf, stopped, saved, asking, history>>

Register(n) ==
    /\ At(n, {"new", "load"}, "built")
    /\ registry' = [registry EXCEPT ![call[n].sess] = n]
    /\ Finish(n, "ok")
    /\ UNCHANGED <<serving, cancelOf, stopped, open, saved, asking, history>>

\* Mutant: the controller that was built for it is forgotten.
LoadFailsOpen(n) ==
    /\ At(n, {"load"}, "built")
    /\ Finish(n, "error")
    /\ UNCHANGED <<serving, sessions, asking, history>>

\* The transcript cannot be read.
LoadFails(n) ==
    /\ At(n, {"load"}, "built")
    /\ open' = open \ {n}
    /\ Finish(n, "error")
    /\ UNCHANGED <<serving, registry, cancelOf, stopped, saved, asking, history>>

LookUp(n) ==
    /\ At(n, {"prompt"}, "begin")
    /\ IF registry[call[n].sess] = 0 THEN Finish(n, "error")
       ELSE /\ call' = [call EXCEPT ![n].pc = "found", ![n].ctl = registry[call[n].sess]]
            /\ UNCHANGED answer
    /\ UNCHANGED <<serving, sessions, asking, history>>

\* Mutant: the turn runs before its cancel function is set.
StartTurnUnset(n) ==
    /\ At(n, {"prompt"}, "found")
    /\ call' = [call EXCEPT ![n].pc = "run"]
    /\ UNCHANGED <<serving, answer, sessions, asking, history>>

StartTurn(n) ==
    /\ At(n, {"prompt"}, "found")
    /\ cancelOf' = [cancelOf EXCEPT ![call[n].ctl] = n]
    /\ call' = [call EXCEPT ![n].pc = "run"]
    /\ UNCHANGED <<serving, answer, registry, stopped, open, saved, asking, history>>

\* A tool asks: the turn waits, a goroutine of its own asks the client.
Ask(n) ==
    /\ At(n, {"prompt"}, "run")
    /\ \E k \in Asks :
        /\ ask[k].pc = "none" /\ \A j \in Asks : j < k => ask[j].pc # "none"
        /\ ask' = [ask EXCEPT ![k] = [of |-> n, pc |-> "write", allow |-> FALSE]]
        /\ approvals' = approvals \cup {k}
        /\ call' = [call EXCEPT ![n].pc = "ask", ![n].ask = k]
    /\ UNCHANGED <<serving, answer, sessions, pending, sends, got, replied, history>>

Decided(n) ==
    /\ At(n, {"prompt"}, "ask") /\ replied[call[n].ask] # "none"
    /\ ran' = IF replied[call[n].ask] = "allow" THEN ran \cup {call[n].ask} ELSE ran
    /\ call' = [call EXCEPT ![n].pc = "run"]
    /\ UNCHANGED <<serving, answer, sessions, asking, chosen>>

\* Mutant: the wait looks at the connection and not at the turn's context.
AskCutByClose(n) ==
    /\ At(n, {"prompt"}, "ask") /\ closed
    /\ approvals' = approvals \ {call[n].ask}
    /\ call' = [call EXCEPT ![n].pc = "over", ![n].failed = TRUE]
    /\ UNCHANGED <<serving, answer, sessions, ask, pending, sends, got, replied, history>>

AskCancelled(n) ==
    /\ At(n, {"prompt"}, "ask") /\ Stopped(n)
    /\ approvals' = approvals \ {call[n].ask}
    /\ call' = [call EXCEPT ![n].pc = "over", ![n].failed = TRUE]
    /\ UNCHANGED <<serving, answer, sessions, ask, pending, sends, got, replied, history>>

\* Controller.Run returns.
EndTurn(n) ==
    /\ At(n, {"prompt"}, "run")
    /\ \E failed \in BOOLEAN :
        call' = [call EXCEPT ![n].pc = "over", ![n].failed = failed]
    /\ UNCHANGED <<serving, answer, sessions, asking, history>>

\* setCancel(nil) and cancel().
ClearCancel(n) ==
    /\ At(n, {"prompt"}, "over")
    /\ cancelOf' = [cancelOf EXCEPT ![call[n].ctl] = 0]
    /\ stopped' = stopped \cup {n}
    /\ call' = [call EXCEPT ![n].pc = "reply"]
    /\ UNCHANGED <<serving, answer, registry, open, saved, asking, history>>

\* The stop reason is read off the turn's context.
Respond(n) ==
    /\ At(n, {"prompt"}, "reply")
    /\ saved' = saved \cup {call[n].sess}
    /\ Finish(n, IF ~call[n].failed THEN "end" ELSE IF Stopped(n) THEN "cancelled" ELSE "error")
    /\ UNCHANGED <<serving, registry, cancelOf, stopped, open, asking, history>>

\* session/cancel reads the session's cancel function, then calls it.
ReadCancel(n) ==
    /\ At(n, {"cancel"}, "begin")
    /\ LET c == registry[call[n].sess] IN
       call' = IF c = 0 \/ cancelOf[c] = 0 THEN [call EXCEPT ![n].pc = "done"]
               ELSE [call EXCEPT ![n].pc = "abort", ![n].ctl = cancelOf[c]]
    /\ UNCHANGED <<serving, answer, sessions, asking, history>>

Abort(n) ==
    /\ At(n, {"cancel"}, "abort")
    /\ stopped' = stopped \cup {call[n].ctl}
    /\ call' = [call EXCEPT ![n].pc = "done"]
    /\ UNCHANGED <<serving, answer, registry, cancelOf, open, saved, asking, history>>

-----------------------------------------------------------------------------
(* requestPermission and Conn.Request *)

\* The request is registered and then written.
WriteAsk(k) ==
    /\ ask[k].pc = "write"
    /\ pending' = pending \cup {k}
    /\ ask' = [ask EXCEPT ![k].pc = "wait"]
    /\ UNCHANGED <<serving, call, answer, sessions, sends, got, approvals, replied, history>>

\* The write fails, or the connection is closed: the answer is no.
GiveUp(k) ==
    /\ ask[k].pc \in {"write", "wait"}
    /\ ask[k].pc = "wait" => closed
    /\ ask' = [ask EXCEPT ![k].pc = "approve"]
    /\ pending' = pending \ {k}
    /\ UNCHANGED <<serving, call, answer, sessions, sends, got, approvals, replied, history>>

Resolved(k) ==
    /\ ask[k].pc = "wait" /\ sends[k] > 0
    /\ ask' = [ask EXCEPT ![k].pc = "approve", ![k].allow = got[k]]
    /\ pending' = pending \ {k}
    /\ UNCHANGED <<serving, call, answer, sessions, sends, got, approvals, replied, history>>

\* Controller.Approve: an unknown id is ignored.
Approve(k) ==
    /\ ask[k].pc = "approve"
    /\ replied' = IF k \in approvals
                  THEN [replied EXCEPT ![k] = IF ask[k].allow THEN "allow" ELSE "deny"] ELSE replied
    /\ approvals' = approvals \ {k}
    /\ ask' = [ask EXCEPT ![k].pc = "done"]
    /\ UNCHANGED <<serving, call, answer, sessions, pending, sends, got, history>>

-----------------------------------------------------------------------------
Client ==
    \/ \E n \in Call, kind \in {"new", "load", "prompt", "cancel"}, s \in Sessions : Send(n, kind, s)
    \/ \E k \in Asks, allow \in BOOLEAN : SendVerdict(k, allow)
    \/ CloseInput
Serving == Dispatch \/ ReadEof \/ Drain \/ Shutdown \/ CloseAll
Opening(n)    == ReplayLive(n) \/ Build(n) \/ Register(n) \/ LoadFails(n)
Prompting(n)  == LookUp(n) \/ StartTurn(n) \/ Decided(n) \/ AskCancelled(n) \/ ClearCancel(n) \/ Respond(n)
Cancelling(n) == ReadCancel(n) \/ Abort(n)
Permitting(k) == WriteAsk(k) \/ GiveUp(k) \/ Resolved(k) \/ Approve(k)

Next ==
    \/ Client \/ Serving
    \/ \E n \in Call : Opening(n) \/ Prompting(n) \/ Ask(n) \/ EndTurn(n) \/ Cancelling(n)
    \/ \E k \in Asks : Permitting(k)

Spec == Init /\ [][Next]_vars

\* The scheduler runs every goroutine that can run; the factory and the agent loop return
\* when their context is cancelled.  Nothing is assumed of the client, and an agent that is
\* not cancelled may go on for ever.
Handling(n) == Opening(n) \/ Prompting(n) \/ Cancelling(n) \/ (Stopped(n) /\ EndTurn(n))
Fairness ==
    /\ WF_vars(Serving)
    /\ \A n \in Call : WF_vars(Handling(n))
    /\ \A k \in Asks : WF_vars(Permitting(k))

FairSpec == Spec /\ Fairness

-----------------------------------------------------------------------------
(* Properties *)

\* Every variable keeps its type; a request is pending only while its goroutine is in it.
TypeOK ==
    /\ reader \in {"read", "wait", "close", "teardown", "ended"}
    /\ \A n \in Call : call[n].ctl \in 0..MaxCalls /\ call[n].ask \in 0..MaxAsks
    /\ \A s \in Sessions : registry[s] \in 0..MaxCalls
    /\ \A c \in Call : cancelOf[c] \in 0..MaxCalls
    /\ stopped \subseteq Call /\ open \subseteq Call /\ saved \subseteq Sessions
    /\ approvals \subseteq Asks
    /\ pending \subseteq {k \in Asks : ask[k].pc = "wait"}

\* A request's channel gets one result at most, from the client or from the shutdown: it
\* holds one, and the sender of a second would wait with the lock held.
OneResultPerRequest == \A k \in Asks : sends[k] <= 1

\* A tool that needed a permission has run only if the client allowed that very call,
\* however late, out of order or after a shutdown the answers come.
RanOnlyIfAllowed == ran \subseteq chosen

\* No controller is closed while a turn runs on it: handlers are awaited before teardown.
OpenWhileTurnRuns ==
    \A n \in Call : call[n].kind = "prompt" /\ call[n].pc \in {"run", "ask"} => call[n].ctl \in open

\* When Serve has returned every controller that was built is closed, for a client that
\* does not load one session twice at a time.
NothingLeftOpen == Patient /\ reader = "ended" => open = {}

\* session/cancel "aborts a session's in-flight turn": while a turn runs, the session leads
\* to its controller and the controller to its cancel function, whatever loads, late
\* cancellations and turns before it have done (patient client).
CancelIsWired ==
    Patient /\ reader # "ended" =>
        \A n \in Call : call[n].kind = "prompt" /\ call[n].pc \in {"run", "ask"} =>
            registry[call[n].sess] = call[n].ctl /\ cancelOf[call[n].ctl] = n

\* When the client closes its end Serve returns, also with turns that wait for an answer.
ServeReturns == eof ~> reader = "ended"
=============================================================================
