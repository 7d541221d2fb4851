-------------------------------- MODULE Jobs --------------------------------
(***************************************************************************)
(* The session's background-job table, internal/jobs/jobs.go.              *)
(*                                                                         *)
(* Every job is one goroutine; Output, Kill, Wait, DrainCompletedNote and  *)
(* Close are called by tool calls and by the controller at any moment.  An *)
(* action is one critical section (j.mu or m.mu) or one channel or context *)
(* operation, so every interleaving of the Go program is one of the model. *)
(*                                                                         *)
(* Data kept: how many writes a job streamed (buf), how many Output has    *)
(* handed out (readOffset), and whether a terminal result text is set.     *)
(***************************************************************************)
EXTENDS Naturals

CONSTANTS
    BashJobs,   \* jobs started by bash(run_in_background): stream, return ""
    TaskJobs,   \* jobs started by task(run_in_background): return an answer
    Waiters,    \* concurrent calls of the wait tool
    MaxOut      \* bound: writes a bash job makes before it stops writing

ASSUME JobsAssumption == /\ BashJobs \cap TaskJobs = {}
                         /\ MaxOut \in Nat

Jobs     == BashJobs \cup TaskJobs
Terminal == {"Done", "Failed", "Killed"}
Status   == {"none", "Running"} \cup Terminal
Note     == Jobs \X Terminal      \* a summary "<tag> -- <status>"
Stage    == {"absent", "registered", "running", "returned",
             "marked", "noted", "closed"}

VARIABLES
    stage,         \* where Start and then the job's goroutine are
    status,        \* Job.status
    cancelled,     \* j.cancel was called
    rootCancelled, \* Manager.cancel was called
    ret,           \* what run returned, until Mark has used it
    buf,           \* number of writes in Job.buf
    readOffset,    \* number of writes Output has handed out
    result,        \* Job.result is not empty
    resultRead,    \* Job.resultRead
    killing,       \* jobs whose Kill unlocked j.mu and has yet to call cancel
    completed,     \* Manager.completed, as a bag of notes
    told,          \* the notes folded into turns so far (history), a bag
    wait           \* each waiter: [targets, timed], targets = {} when idle

jobVars == <<stage, status, cancelled, ret, buf, readOffset, result, resultRead>>
noteVars == <<completed, told>>
vars == <<jobVars, rootCancelled, killing, noteVars, wait>>

NoWait  == [targets |-> {}, timed |-> FALSE]
NoNotes == [n \in Note |-> 0]
NoRet   == [text |-> FALSE, err |-> FALSE]

Registered == {j \in Jobs : stage[j] # "absent"}
CtxErr(j)  == cancelled[j] \/ rootCancelled      \* ctx.Err() # nil

IsDone(j)  == stage[j] = "closed"                \* j.done is closed

Init ==
    /\ stage = [j \in Jobs |-> "absent"]
    /\ status = [j \in Jobs |-> "none"]
    /\ cancelled = [j \in Jobs |-> FALSE]
    /\ rootCancelled = FALSE
    /\ ret = [j \in Jobs |-> NoRet]
    /\ buf = [j \in Jobs |-> 0]
    /\ readOffset = [j \in Jobs |-> 0]
    /\ result = [j \in Jobs |-> FALSE]
    /\ resultRead = [j \in Jobs |-> FALSE]
    /\ killing = {}
    /\ completed = NoNotes
    /\ told = NoNotes
    /\ wait = [w \in Waiters |-> NoWait]

-----------------------------------------------------------------------------
(* Start and the job's goroutine *)

Advance(j, from, to) == /\ stage[j] = from
                        /\ stage' = [stage EXCEPT ![j] = to]

\* Under m.mu: allocate the id, derive the context, register the job.
Start(j) ==
    /\ Advance(j, "absent", "registered")
    /\ status' = [status EXCEPT ![j] = "Running"]
    /\ UNCHANGED <<cancelled, rootCancelled, ret, buf, readOffset, result,
                   resultRead, killing, noteVars, wait>>

\* The started notice is emitted, then the goroutine is spawned.
Launch(j) ==
    /\ Advance(j, "registered", "running")
    /\ UNCHANGED <<status, cancelled, rootCancelled, ret, buf, readOffset,
                   result, resultRead, killing, noteVars, wait>>

\* jobWriter.Write: only bash jobs are given the writer, and only while run runs.
Write(j) ==
    /\ j \in BashJobs
    /\ stage[j] = "running"
    /\ buf[j] < MaxOut
    /\ buf' = [buf EXCEPT ![j] = @ + 1]
    /\ UNCHANGED <<stage, status, cancelled, rootCancelled, ret, readOffset,
                   result, resultRead, killing, noteVars, wait>>

\* run(ctx, out) returns; a cancelled command may still exit 0.
Return(j, text, err) ==
    /\ Advance(j, "running", "returned")
    /\ j \in BashJobs => ~text
    /\ ret' = [ret EXCEPT ![j] = [text |-> text, err |-> err]]
    /\ UNCHANGED <<status, cancelled, rootCancelled, buf, readOffset, result,
                   resultRead, killing, noteVars, wait>>

\* Mutant: the verdict looks at the context only when run failed.
VerdictOfRun(j) == IF ~ret[j].err THEN "Done" ELSE IF CtxErr(j) THEN "Killed" ELSE "Failed"

\* Under j.mu: the goroutine sets the terminal status from the context first.
Verdict(j) == IF CtxErr(j) THEN "Killed"
              ELSE IF ret[j].err THEN "Failed" ELSE "Done"

Mark(j) ==
    /\ Advance(j, "returned", "marked")
    /\ status' = [status EXCEPT ![j] = Verdict(j)]
    /\ result' = [result EXCEPT ![j] = ret[j].text \/ Verdict(j) = "Failed"]
    /\ ret' = [ret EXCEPT ![j] = NoRet]
    /\ UNCHANGED <<cancelled, rootCancelled, buf, readOffset, resultRead,
                   killing, noteVars, wait>>

\* recordCompletion, under m.mu: queue the note with the status just set.
RecordCompletion(j) ==
    /\ Advance(j, "marked", "noted")
    /\ completed' = [completed EXCEPT ![<<j, status[j]>>] = @ + 1]
    /\ UNCHANGED <<status, cancelled, rootCancelled, ret, buf, readOffset,
                   result, resultRead, killing, told, wait>>

CloseDone(j) ==
    /\ Advance(j, "noted", "closed")
    /\ UNCHANGED <<status, cancelled, rootCancelled, ret, buf, readOffset,
                   result, resultRead, killing, noteVars, wait>>

-----------------------------------------------------------------------------
(* The callers *)

\* Nothing new was streamed and the job ended with a result text.
Surfaced(j) == readOffset[j] = buf[j] /\ status[j] # "Running" /\ result[j]

\* Output: the status and the new writes; a task's result once, when there is
\* nothing else.
Output(j) ==
    /\ j \in Registered
    /\ readOffset' = [readOffset EXCEPT ![j] = buf[j]]
    /\ resultRead' = [resultRead EXCEPT ![j] = @ \/ Surfaced(j)]
    /\ UNCHANGED <<stage, status, cancelled, rootCancelled, ret, buf, result,
                   killing, noteVars, wait>>

\* Mutant: Kill does not look whether the job is still running.
AnyJob(j) == j \in Registered

Killable(j) == j \in Registered /\ status[j] = "Running"

\* Kill, under j.mu: flip a running job to Killed; a finished one keeps its
\* status and Kill returns false.
Kill(j) ==
    /\ Killable(j)
    /\ status' = [status EXCEPT ![j] = "Killed"]
    /\ killing' = killing \cup {j}
    /\ UNCHANGED <<stage, cancelled, rootCancelled, ret, buf, readOffset,
                   result, resultRead, noteVars, wait>>

\* Mutant: Kill only flips the status.
KillForgetsCancel(j) ==
    /\ j \in killing
    /\ killing' = killing \ {j}
    /\ UNCHANGED <<jobVars, rootCancelled, noteVars, wait>>

\* Kill, after j.mu is released: cancel the context, return true.
KillCancel(j) ==
    /\ j \in killing
    /\ killing' = killing \ {j}
    /\ cancelled' = [cancelled EXCEPT ![j] = TRUE]
    /\ UNCHANGED <<stage, status, rootCancelled, ret, buf, readOffset, result,
                   resultRead, noteVars, wait>>

\* resolve: the named jobs that exist, or every running one for no names.
Resolve(ids) == IF ids = {} THEN {j \in Registered : status[j] = "Running"}
                            ELSE ids \cap Registered

\* Wait returns at once when nothing resolves.
WaitBegin(w, ids, timed) ==
    /\ wait[w] = NoWait
    /\ Resolve(ids) # {}
    /\ wait' = [wait EXCEPT ![w] = [targets |-> Resolve(ids), timed |-> timed]]
    /\ UNCHANGED <<jobVars, rootCancelled, killing, noteVars>>

\* The loop over targets saw every done channel closed (a closed channel stays
\* closed, so the order of the loop does not matter).  However a wait ends, its
\* snapshot tells the model each target's status, read under j.mu.
WaitDone(w) ==
    /\ wait[w] # NoWait
    /\ \A j \in wait[w].targets : IsDone(j)
    /\ wait' = [wait EXCEPT ![w] = NoWait]
    /\ UNCHANGED <<jobVars, rootCancelled, killing, noteVars>>

\* Mutant: the timer is only looked at once some job is done.
WaitTimeoutBetweenJobs(w) ==
    /\ wait[w].timed
    /\ \E j \in wait[w].targets : IsDone(j)
    /\ wait' = [wait EXCEPT ![w] = NoWait]
    /\ UNCHANGED <<jobVars, rootCancelled, killing, noteVars>>

\* The timer fired: the snapshot also names jobs that have not ended.
WaitTimeout(w) ==
    /\ wait[w].timed
    /\ wait' = [wait EXCEPT ![w] = NoWait]
    /\ UNCHANGED <<jobVars, rootCancelled, killing, noteVars>>

\* The tool call's context was cancelled (the user interrupted the turn).
WaitInterrupted(w) ==
    /\ wait[w] # NoWait
    /\ wait' = [wait EXCEPT ![w] = NoWait]
    /\ UNCHANGED <<jobVars, rootCancelled, killing, noteVars>>

\* Mutant: the drained notes stay queued.
DrainKeeps ==
    /\ completed # NoNotes
    /\ told' = [n \in Note |-> told[n] + completed[n]]
    /\ UNCHANGED <<completed, jobVars, rootCancelled, killing, wait>>

\* DrainCompletedNote, folded by Compose into the text of the next turn.
Drain ==
    /\ completed # NoNotes
    /\ told' = [n \in Note |-> told[n] + completed[n]]
    /\ completed' = NoNotes
    /\ UNCHANGED <<jobVars, rootCancelled, killing, wait>>

Close ==
    /\ ~rootCancelled
    /\ rootCancelled' = TRUE
    /\ UNCHANGED <<jobVars, killing, noteVars, wait>>

-----------------------------------------------------------------------------
Goroutine(j) == \/ Launch(j)
                \/ Write(j)
                \/ \E text, err \in BOOLEAN : Return(j, text, err)
                \/ Mark(j)
                \/ RecordCompletion(j)
                \/ CloseDone(j)

Caller(j) == Start(j) \/ Output(j) \/ Kill(j) \/ KillCancel(j)

Waiter(w) == \/ \E ids \in SUBSET Jobs, timed \in BOOLEAN : WaitBegin(w, ids, timed)
             \/ WaitDone(w)
             \/ WaitTimeout(w)
             \/ WaitInterrupted(w)

Next == \/ \E j \in Jobs : Goroutine(j) \/ Caller(j)
        \/ \E w \in Waiters : Waiter(w)
        \/ Drain
        \/ Close

Spec == Init /\ [][Next]_vars

\* A run whose context is cancelled returns: exec kills the process tree and
\* gives up after WaitDelay; a sub-agent's provider stream ends with its context.
ReturnsWhenCancelled(j) ==
    CtxErr(j) /\ \E text, err \in BOOLEAN : Return(j, text, err)

\* Goroutines and timers are scheduled; nothing obliges a command to finish, a
\* caller to call, or the user to interrupt.
Fairness ==
    /\ \A j \in Jobs : /\ WF_vars(Launch(j))
                       /\ WF_vars(ReturnsWhenCancelled(j))
                       /\ WF_vars(Mark(j))
                       /\ WF_vars(RecordCompletion(j))
                       /\ WF_vars(CloseDone(j))
                       /\ WF_vars(KillCancel(j))
    /\ \A w \in Waiters : WF_vars(WaitDone(w)) /\ WF_vars(WaitTimeout(w))

FairSpec == Spec /\ Fairness

-----------------------------------------------------------------------------
(* Properties *)

TypeOK ==
    /\ stage \in [Jobs -> Stage]
    /\ status \in [Jobs -> Status]
    /\ cancelled \in [Jobs -> BOOLEAN]
    /\ rootCancelled \in BOOLEAN
    /\ ret \in [Jobs -> [text : BOOLEAN, err : BOOLEAN]]
    /\ buf \in [Jobs -> 0..MaxOut]
    /\ readOffset \in [Jobs -> 0..MaxOut]
    /\ result \in [Jobs -> BOOLEAN]
    /\ resultRead \in [Jobs -> BOOLEAN]
    /\ killing \in SUBSET Jobs
    /\ completed \in [Note -> Nat]
    /\ told \in [Note -> Nat]
    /\ wait \in [Waiters -> [targets : SUBSET Jobs, timed : BOOLEAN]]

Noted(j) == \E s \in Terminal : completed[<<j, s>>] + told[<<j, s>>] > 0

\* A wait that unblocks on j.done finds the note already queued: no drain can
\* run between the end of a job and its bookkeeping (Start, jobs.go:142).
NoteBeforeDone == \A j \in Jobs : IsDone(j) => Noted(j)

\* The model hears of each completion once, with the status the job ended in,
\* however kills, drains and waits interleave with the goroutine.
OneTrueNote ==
    \A n \in Note : /\ completed[n] + told[n] <= 1
                    /\ completed[n] + told[n] > 0 => status[n[1]] = n[2]

\* The goroutine's own verdict on the job is in.
Decided(j) == stage[j] \in {"marked", "noted", "closed"}

\* Kill has flipped the status but not yet cancelled the context, and run has
\* returned: the goroutine is about to write a verdict of its own.
Overtakes(j) == stage[j] = "returned" /\ j \in killing /\ ~CtxErr(j)

\* Output, and a wait however it ends, tell the model the status they read under
\* j.mu.  A terminal status, whoever was told of it, is rewritten in one case
\* only: run returned between Kill's flip and its cancel.  A task's answer and
\* the report of a wait that ended by completion come after the verdict, and so
\* are final without exception.
ReportsAreFinal ==
    [][/\ \A j \in Jobs :
             /\ status[j] \in Terminal /\ status'[j] # status[j] => Overtakes(j)
             /\ resultRead'[j] # resultRead[j] => Decided(j)
       /\ \A w \in Waiters : WaitDone(w) => \A j \in wait[w].targets : Decided(j)]_vars

\* "The goroutine still sets Killed" (Kill, jobs.go:213): a job that was reported
\* killed ends killed.
KilledStaysKilled ==
    [][\A j \in Jobs : status[j] = "Killed" => status'[j] = "Killed"]_vars

\* Kill and Close reach every job: its goroutine ends and its waiters are
\* released, whatever its command was doing.
StoppedJobEnds ==
    \A j \in Jobs :
        (status[j] = "Killed" \/ (rootCancelled /\ j \in Registered)) ~> IsDone(j)

\* A wait ends when it has a timeout or when all its jobs were killed.
WaitEnds ==
    \A w \in Waiters :
        (wait[w] # NoWait /\ (wait[w].timed \/ \A j \in wait[w].targets : j \in killing \/ CtxErr(j)))
            ~> wait[w] = NoWait

\* The table keeps the contract of JobContract: one verdict, announced once,
\* before the job is over; the early flip of Kill is not a verdict.
Contract == INSTANCE JobContract WITH
    phase     <- [j \in Jobs |-> CASE stage[j] = "absent" -> "absent"
                                   [] stage[j] = "closed" -> "over"
                                   [] OTHER               -> "live"],
    verdict   <- [j \in Jobs |-> IF Decided(j) THEN status[j] ELSE "none"],
    announced <- {j \in Jobs : Noted(j)}

ImplementsContract == Contract!Spec
=============================================================================
