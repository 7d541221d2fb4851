----------------------------- MODULE AgentLoop ------------------------------
(***************************************************************************)
(* One user turn of the agent, internal/agent/agent.go: Run asks the model, *)
(* runs the batch of tool calls it answers with, and asks again, until the  *)
(* model gives an answer without calls that the host accepts.  The host     *)
(* accepts it when the receipts of this turn (internal/evidence) show that  *)
(* the project's checks ran after the latest write, that the task list is   *)
(* finished and that the step was signed off, and when no phase of a plan   *)
(* (internal/planner) is open; it refuses a bounded number of times.  With  *)
(* two models, coordinator.go has the planner write the phases first.       *)
(*                                                                         *)
(* The model's replies, the verdicts of the permission gate, the hooks and  *)
(* the guardian, and the results of tools are choices.  The message log      *)
(* and its compaction are left to SessionLog, the wording of results (the     *)
(* guard against repeated failures, retry context) is left out.  A task list *)
(* has one item, named by every sign-off.                                   *)
(*                                                                         *)
(* A command counts as a check it contains: a longer command line, one of    *)
(* whose parts is the check, or a narrower run of it ("loose" below), leaves *)
(* the same receipt as the check, and its exit status says less.            *)
(***************************************************************************)
EXTENDS Integers, Sequences, FiniteSets, FiniteSetsExt

CONSTANTS
    Checks,       \* commands the project wants run before an answer
    Writes,       \* arguments of a writer tool, each with its own file
    Enforce,      \* verifyEnforceFinalAnswer
    Background,   \* whether bash offers run_in_background
    MaxRetries,   \* verifyMaxRetries
    Offers,       \* bound: the calls the model makes
    Limits,       \* values of maxSteps, 0 for none
    MaxPhases,    \* bound: phases of a plan
    MaxBatch,     \* bound: calls of one reply
    MaxCalls,     \* bound: calls of one turn without a limit on its rounds
    MaxTurns,     \* bound: turns
    None

Statuses == {"pending", "in_progress", "completed"}   \* of the item of a task list

\* The evidence a sign-off cites; an item that names several files is one for each.
Item(kind, of) == [kind |-> kind, of |-> of]
Items == {Item("verification", c) : c \in Checks} \cup {Item("manual", None)}
    \cup {Item(kind, w) : kind \in {"diff", "files"}, w \in Writes}

Commands == [kind : {"check", "loose"}, of : Checks]  \* the check, or a line that contains it
Args == [kind : {"file"}, of : Writes] \cup Commands \cup [kind : {"claim"}, of : SUBSET Items]
            \cup [kind : {"todo"}, of : Statuses] \cup [kind : {"plan"}, of : 0..MaxPhases]
            \cup [kind : {"none"}, of : {None}]

Call(tool, arg, bg) == [tool |-> tool, arg |-> arg, bg |-> bg]
Arg(kind, of) == [kind |-> kind, of |-> of]

\* The calls a model can make.
Calls == {Call("planner_complete_phase", Arg("none", None), FALSE)}
    \cup {Call(tool, Arg("file", w), FALSE) : tool \in {"read_file", "write_file"}, w \in Writes}
    \cup {Call("bash", command, bg) : command \in Commands, bg \in {FALSE, Background}}
    \cup {Call("todo_write", Arg("todo", s), FALSE) : s \in Statuses}
    \cup {Call("complete_step", Arg("claim", items), FALSE) : items \in SUBSET Items \ {{}}}
    \cup {Call("planner_load_plan", Arg("plan", n), FALSE) : n \in 0..MaxPhases}

Tool    == {call.tool : call \in Calls}
Receipt == [tool : Tool, arg : Args, ok : BOOLEAN]

ASSUME AgentLoopAssumption ==
    /\ Enforce \in BOOLEAN /\ Background \in BOOLEAN
    /\ MaxRetries \in Nat \ {0} /\ Limits \subseteq Nat /\ MaxPhases \in Nat
    /\ MaxBatch \in Nat /\ MaxCalls \in Nat /\ MaxTurns \in Nat
    /\ IsFiniteSet(Checks) /\ Offers \subseteq Calls
    /\ None \notin {"answer", "error", "exhausted", "paused"}

VARIABLES
    pc,           \* "idle", "model" or "tools"
    outcome,      \* how the last Run returned
    batch,        \* the calls of the last reply
    status,       \* of each call of the batch: "todo", "running", "done"
    ledger,       \* evidence.Ledger
    repeats,      \* repeatSuccessCounts
    step, blocks, \* Run's step and finalReadinessBlocks
    coordinated, limit,  \* a planner model is configured; maxSteps
    planMode,
    phases, current,  \* planner.Tracker: number of phases, the one worked on
    turns, calls, \* counted for the bounds
    passed,       \* history: commands that ran to a success since the last write
    failing       \* history: commands whose last run since the last write failed

loop   == <<pc, outcome, step, blocks>>
tools  == <<batch, status, ledger, repeats, calls>>
plan   == <<phases, current>>
config == <<coordinated, limit>>
truth  == <<passed, failing>>
vars   == <<loop, tools, planMode, plan, config, turns, truth>>

Init ==
    /\ pc = "idle" /\ outcome = None /\ step = 0 /\ blocks = 0
    /\ batch = <<>> /\ status = <<>> /\ ledger = <<>> /\ calls = 0
    /\ repeats = [w \in Writes |-> 0]
    /\ planMode \in BOOLEAN
    /\ phases = 0 /\ current = 0
    /\ coordinated \in BOOLEAN /\ limit \in Limits
    /\ turns = 0
    /\ passed = {} /\ failing = {}

-----------------------------------------------------------------------------
(* Receipts *)

Ok(tool) == {i \in DOMAIN ledger : ledger[i].ok /\ ledger[i].tool = tool}
Verifies == {i \in DOMAIN ledger : ledger[i].tool = "bash"}
Newest(receipts) == Max({0} \cup receipts)

\* Mutant: any success of the turn counts.
CommandEver(c, after) == \E i \in Ok("bash") : ledger[i].arg.of = c

\* CommandSatisfiesCheck: the receipt is of the check or of a line that contains it.
HasSuccessfulCommandAfter(c, after) ==
    \E i \in Ok("bash") : i > after /\ ledger[i].arg.of = c

\* 0 when there is none.
LatestWriter == Newest(Ok("write_file"))
LatestWriteOf(w) == Newest({i \in Ok("write_file") : ledger[i].arg.of = w})
HasTodo == Ok("todo_write") # {}
Todo == ledger[Newest(Ok("todo_write"))].arg.of
ProjectChecks == IF Enforce THEN Checks ELSE {}

\* Mutant: the last verify command of the turn, before the last write or after it.
LatestVerifyEver == Newest(Verifies)

\* 0 when there is none after the latest writer.
LatestVerifyAfterWriter == Newest({i \in Verifies : i > LatestWriter})

VerifyFailureShouldRollback ==
    /\ LatestWriter # 0
    /\ LatestVerifyAfterWriter # 0
    /\ ~ledger[LatestVerifyAfterWriter].ok

OfFile(item) == item.kind \in {"diff", "files"}

\* What verifyStepEvidence asks of an item.
ItemStands(item) ==
    CASE item.kind = "verification" -> HasSuccessfulCommandAfter(item.of, 0)
      [] item.kind = "diff"  -> LatestWriteOf(item.of) # 0
      [] item.kind = "files" -> \/ LatestWriteOf(item.of) # 0
                                \/ \E i \in Ok("read_file") : ledger[i].arg.of = item.of
      [] OTHER -> TRUE

\* Mutant: items are evidence enough.
ItemsSuffice(claim) == \A item \in claim : ItemStands(item)

\* complete_step: each item it cites, the project's checks after the latest write to a
\* file it cites, the item of the task list it names.
StepIsBacked(claim) ==
    LET written == Newest({LatestWriteOf(item.of) : item \in {it \in claim : OfFile(it)}})
    IN  /\ \A item \in claim : ItemStands(item)
        /\ HasTodo => Todo # "pending"
        /\ written # 0 => \A c \in ProjectChecks : HasSuccessfulCommandAfter(c, written)

\* todo_write: an item newly completed needs its sign-off, if there was a list.
TodoIsBacked(arg) ==
    HasTodo /\ arg.of = "completed" /\ Todo # "completed" => Ok("complete_step") # {}

-----------------------------------------------------------------------------
(* The final answer *)

PhaseOpen == current < phases

\* What finalReadinessFailure finds missing.
Missing ==
    IF PhaseOpen THEN {"phase"}
    ELSE {m \in {"todos"} : ~planMode /\ HasTodo /\ Todo # "completed"}
         \cup (IF LatestWriter = 0 THEN {}
               ELSE {c \in ProjectChecks : ~HasSuccessfulCommandAfter(c, LatestWriter)}
                    \cup {m \in {"step"} :
                            HasTodo /\ Newest(Ok("complete_step")) < LatestWriter})

-----------------------------------------------------------------------------
(* A turn *)

\* The loop goes on, unless that was the last round allowed.
NextRound ==
    /\ step' = IF limit = 0 THEN 0 ELSE step + 1
    /\ IF limit > 0 /\ step + 1 >= limit
       THEN pc' = "idle" /\ outcome' = "paused"
       ELSE pc' = "model" /\ UNCHANGED outcome

\* Agent.Run's preamble.
Begin ==
    /\ pc = "idle" /\ turns < MaxTurns
    /\ pc' = "model"
    /\ outcome' = None
    /\ step' = 0 /\ blocks' = 0
    /\ ledger' = <<>> /\ calls' = 0
    /\ repeats' = [w \in Writes |-> 0]
    /\ passed' = {} /\ failing' = {}
    /\ turns' = turns + 1
    /\ UNCHANGED <<batch, status, planMode, config>>

\* The runner is the agent alone: phases an earlier turn loaded stay.
RunAgent == ~coordinated /\ Begin /\ UNCHANGED plan

\* Coordinator.Run: the turn is not worth a plan and clears the phases, or the planner
\* writes a plan of n phases.  In plan mode too: Compose may put notes before the marker
\* that TaskWarrantsPlanner looks for.
RunPlanned(n) == coordinated /\ Begin /\ phases' = n /\ current' = 0

\* The planner's stream fails: the executor does not run, the phases stay.
PlannerFails ==
    /\ coordinated
    /\ pc = "idle" /\ turns < MaxTurns
    /\ outcome' = "error"
    /\ turns' = turns + 1
    /\ UNCHANGED <<pc, step, blocks, tools, planMode, plan, config, truth>>

\* The stream fails, is cancelled, or brings nothing.
StreamFails ==
    /\ pc = "model"
    /\ pc' = "idle" /\ outcome' = "error"
    /\ UNCHANGED <<step, blocks, tools, planMode, plan, config, turns, truth>>

\* The model answers and the host accepts it.
Accept ==
    /\ pc = "model"
    /\ Missing = {}
    /\ pc' = "idle" /\ outcome' = "answer"
    /\ UNCHANGED <<step, blocks, tools, planMode, plan, config, turns, truth>>

\* The host refuses the answer and says what is missing.
Refuse ==
    /\ pc = "model"
    /\ Missing # {}
    /\ blocks + 1 < MaxRetries
    /\ blocks' = blocks + 1
    /\ NextRound
    /\ UNCHANGED <<tools, planMode, plan, config, turns, truth>>

\* It has refused often enough: ErrVerifyExhausted.
Exhaust ==
    /\ pc = "model"
    /\ Missing # {}
    /\ blocks + 1 >= MaxRetries
    /\ blocks' = blocks + 1
    /\ pc' = "idle" /\ outcome' = "exhausted"
    /\ UNCHANGED <<step, tools, planMode, plan, config, turns, truth>>

\* The model asks for tools.
Ask(asked) ==
    /\ pc = "model"
    /\ asked # <<>>
    /\ limit = 0 => calls + Len(asked) <= MaxCalls
    /\ pc' = "tools"
    /\ batch' = asked
    /\ status' = [i \in DOMAIN asked |-> "todo"]
    /\ calls' = calls + Len(asked)
    /\ UNCHANGED <<outcome, step, blocks, ledger, repeats, planMode, plan, config, turns,
                   truth>>

-----------------------------------------------------------------------------
(* The batch *)

ReadOnly(tool) == tool \in {"read_file", "todo_write", "complete_step"}

\* Mutant: every reader joins the others.
AnyReader(tool) == ReadOnly(tool)

Parallelisable(tool) == ReadOnly(tool) /\ tool \notin {"todo_write", "complete_step"}

\* Mutant: readers wait for the other readers of the batch before they begin.
WaitsForPeers(i) ==
    /\ status[i] = "todo"
    /\ \A j \in DOMAIN batch \ {i} :
          j < i \/ Parallelisable(batch[j].tool) => status[j] = "done"

\* partitionToolCalls and the serial or parallel run of each part: a call may begin
\* when all before it have ended, or have begun and run in parallel with it.
MayBegin(i) ==
    /\ status[i] = "todo"
    /\ \A j \in 1..(i - 1) :
          \/ status[j] = "done"
          \/ /\ status[j] = "running"
             /\ \A k \in j..i : Parallelisable(batch[k].tool)

\* A writer that succeeded twice with the same arguments is refused.
Repeated(call) == call.tool = "write_file" /\ repeats[call.arg.of] >= 2

\* A call ends before Execute: no such tool, a repetition, plan mode, or the refusal of
\* the permission gate, of a hook or of the guardian.
BlockCall(i) ==
    /\ pc = "tools"
    /\ MayBegin(i)
    /\ status' = [status EXCEPT ![i] = "done"]
    /\ UNCHANGED <<loop, batch, ledger, repeats, calls, planMode, plan, config, turns,
                   truth>>

BeginCall(i) ==
    /\ pc = "tools"
    /\ MayBegin(i)
    /\ ~Repeated(batch[i])
    /\ planMode => ReadOnly(batch[i].tool)
    /\ status' = [status EXCEPT ![i] = "running"]
    /\ UNCHANGED <<loop, batch, ledger, repeats, calls, planMode, plan, config, turns,
                   truth>>

\* Whether Execute can return that result.
Results(call) ==
    CASE call.tool = "complete_step" -> {StepIsBacked(call.arg.of)}
      [] call.tool = "todo_write"    -> {TodoIsBacked(call.arg)}
      [] call.tool = "planner_complete_phase" -> {PhaseOpen}
      [] call.tool = "planner_load_plan" -> {TRUE}
      [] OTHER -> BOOLEAN

\* complete_step leaves no receipt of a failure.
Record(call, ok) ==
    ledger' = IF call.tool = "complete_step" /\ ~ok THEN ledger
              ELSE Append(ledger, [tool |-> call.tool, arg |-> call.arg, ok |-> ok])

\* Execute returns; a command started in the background has returned a job's name.
EndCall(i, ok) ==
    LET call == batch[i] IN
    /\ pc = "tools"
    /\ status[i] = "running"
    /\ ok \in Results(call)
    /\ status' = [status EXCEPT ![i] = "done"]
    /\ Record(call, ok)
    /\ repeats' = IF call.tool = "write_file" /\ ok
                  THEN [repeats EXCEPT ![call.arg.of] = @ + 1] ELSE repeats
    /\ CASE call.tool = "planner_complete_phase" /\ ok ->
               current' = current + 1 /\ UNCHANGED phases
         [] call.tool = "planner_load_plan" ->
               current' = 0 /\ phases' = call.arg.of
         [] OTHER -> UNCHANGED plan
    /\ passed' = IF call.tool = "write_file" /\ ok THEN {}
                 ELSE IF call.tool = "bash" /\ ok /\ ~call.bg
                      THEN passed \cup {call.arg} ELSE passed
    /\ failing' = IF call.tool = "write_file" /\ ok THEN {}
                  ELSE IF call.tool = "bash"
                       THEN IF ok THEN failing \ {call.arg}
                            ELSE failing \cup {call.arg}
                       ELSE failing
    /\ UNCHANGED <<loop, batch, calls, planMode, config, turns>>

\* The results are in the log.
EndBatch ==
    /\ pc = "tools"
    /\ \A i \in DOMAIN batch : status[i] = "done"
    /\ NextRound
    /\ batch' = <<>> /\ status' = <<>>
    /\ UNCHANGED <<blocks, ledger, repeats, calls, planMode, plan, config, turns, truth>>

\* The user, or the approval of a plan, at any time.
SetPlanMode(on) ==
    /\ planMode' = on
    /\ UNCHANGED <<loop, tools, plan, config, turns, truth>>

-----------------------------------------------------------------------------
Batches == UNION {[1..n -> Offers] : n \in 1..MaxBatch}

Model == StreamFails \/ Accept \/ Refuse \/ Exhaust \/ \E asked \in Batches : Ask(asked)

Tools ==
    \/ EndBatch
    \/ \E i \in DOMAIN batch :
          BlockCall(i) \/ BeginCall(i) \/ \E ok \in BOOLEAN : EndCall(i, ok)

Next == \/ RunAgent
        \/ \E n \in 0..MaxPhases : RunPlanned(n)
        \/ PlannerFails
        \/ Model
        \/ Tools
        \/ \E on \in BOOLEAN : SetPlanMode(on)

\* A request to the model ends, and every tool returns (timeouts, or the user
\* cancels); what the model says is its own choice.
Fairness == WF_vars(Model) /\ WF_vars(Tools)

Spec == Init /\ [][Next]_vars
FairSpec == Spec /\ Fairness

-----------------------------------------------------------------------------
(* Properties *)

\* Every variable keeps its type.
TypeOK ==
    /\ pc \in {"idle", "model", "tools"}
    /\ outcome \in {None, "answer", "error", "exhausted", "paused"}
    /\ batch \in Seq(Calls)
    /\ status \in [DOMAIN batch -> {"todo", "running", "done"}]
    /\ ledger \in Seq(Receipt)
    /\ repeats \in [Writes -> Nat]
    /\ step \in Nat /\ blocks \in Nat /\ turns \in Nat /\ calls \in Nat
    /\ coordinated \in BOOLEAN /\ limit \in Limits
    /\ planMode \in BOOLEAN
    /\ phases \in Nat /\ current \in 0..phases
    /\ passed \subseteq Commands /\ failing \subseteq Commands

\* When a turn that wrote files ends with an answer, each check of the project is satisfied
\* by a command that really ran, in the foreground, to a success after the last write:
\* finalReadinessFailure, which sees receipts only.  A command that contains the check
\* counts for it, whatever became of that part (CommandSatisfiesCheck).
AnswerRanItsChecks ==
    outcome = "answer" /\ Enforce /\ LatestWriter # 0 =>
        \A c \in Checks : \E command \in passed : command.of = c

\* The verdict that makes runGuarded undo a turn (VerifyFailureShouldRollback) is given
\* only when some command of the turn failed after the last write and was not repaired.
OnlyFailuresAreUndone ==
    outcome = "exhausted" /\ VerifyFailureShouldRollback => failing # {}

\* Two calls of a batch run at the same time only when both are readers and neither
\* consults the receipts: "every prior call's receipt must be recorded before they run"
\* (partitionToolCalls).
OnlyReadersOverlap ==
    \A i, j \in DOMAIN status :
        i < j /\ status[i] = "running" /\ status[j] # "todo" =>
            /\ ReadOnly(batch[i].tool)
            /\ status[j] = "running" => /\ ReadOnly(batch[j].tool)
                                        /\ batch[j].tool \notin {"todo_write", "complete_step"}

\* Receipts never run ahead of the batch: a sign-off that succeeded stands after the
\* receipts of every item it cites, and after a run of each check since the last write to
\* a file it cites.
SignOffFollowsItsEvidence ==
    \A n \in Ok("complete_step") :
        LET cited == ledger[n].arg.of
            Before(tool, of) == {i \in Ok(tool) : i < n /\ ledger[i].arg.of = of}
            w == Newest({Newest(Before("write_file", item.of)) :
                            item \in {it \in cited : OfFile(it)}})
        IN  /\ \A item \in cited :
                  /\ item.kind = "verification" => Before("bash", item.of) # {}
                  /\ item.kind = "diff" => Before("write_file", item.of) # {}
                  /\ item.kind = "files" =>
                        Before("write_file", item.of) \cup Before("read_file", item.of) # {}
            /\ w # 0 => \A c \in ProjectChecks : \E i \in Before("bash", c) : i > w

\* Batches end; a model that insists on an answer that is not ready is refused only so
\* often; and a turn with a limit on its rounds returns.  Without a limit (maxSteps 0) a
\* model that keeps asking for tools keeps the turn going: nothing is claimed of it.
TurnReturns ==
    /\ pc = "tools" ~> pc # "tools"
    /\ pc = "model" ~> pc # "model"
    /\ limit > 0 /\ pc # "idle" ~> pc = "idle"
=============================================================================
