----------------------------- MODULE JobsProofs -----------------------------
(***************************************************************************)
(* Proofs about the job table, for any set of jobs and waiters.            *)
(*                                                                         *)
(* The properties are not inductive by themselves: that a note is queued   *)
(* once and tells the truth rests on where the goroutine is (it can only   *)
(* queue between Mark and CloseDone) and on Kill leaving a terminal status *)
(* alone; that a status is rewritten by a run that overtook Kill only, on  *)
(* every earlier flip having its cancel called or due.  IInv says so.      *)
(***************************************************************************)
EXTENDS Jobs, TLAPS

Queued(n) == completed[n] + told[n]

\* A registered job has a status, and a marked one a terminal status.
StatusFollowsStage ==
    \A j \in Jobs : /\ stage[j] = "absent" => status[j] = "none"
                    /\ Decided(j) => status[j] \in Terminal

\* From RecordCompletion on, exactly the note of the job's status is queued.
NotedByStage ==
    /\ \A j \in Jobs : stage[j] \in {"noted", "closed"} => Queued(<<j, status[j]>>) = 1
    /\ \A j \in Jobs, s \in Terminal :
          Queued(<<j, s>>) # 0 => /\ stage[j] \in {"noted", "closed"}
                                  /\ status[j] = s

\* Before the verdict a terminal status is Kill's, whose cancel is called or due.
FlipIsKills ==
    \A j \in Jobs :
        stage[j] \in {"registered", "running", "returned"} =>
            \/ status[j] = "Running"
            \/ status[j] = "Killed" /\ (j \in killing \/ CtxErr(j))

\* A result text is set, and hence read, only by or after Mark.
ResultAfterMark ==
    \A j \in Jobs : (result[j] \/ resultRead[j]) => Decided(j)

IInv == /\ TypeOK
        /\ StatusFollowsStage
        /\ NotedByStage
        /\ FlipIsKills
        /\ ResultAfterMark

-----------------------------------------------------------------------------
\* The lists of variables are only ever expanded together.
USE DEF jobVars, noteVars

\* Counting one more of k keeps a bag a bag.
LEMMA BumpType == ASSUME NEW S, NEW f \in [S -> Nat], NEW k
                  PROVE  [f EXCEPT ![k] = @ + 1] \in [S -> Nat]
<1>1. CASE k \in S
  BY <1>1
<1>2. CASE k \notin S
  BY <1>2
<1> QED BY <1>1, <1>2

\* Every step keeps every variable in its type.
LEMMA TypeStep == ASSUME TypeOK, [Next]_vars PROVE TypeOK'
<1> USE JobsAssumption DEF TypeOK, Stage, Status, Terminal, Note
<1>1. CASE UNCHANGED vars
  BY <1>1 DEF vars
<1>2. ASSUME NEW j \in Jobs, Start(j) PROVE TypeOK'
  BY <1>2 DEF Start, Advance
<1>3. ASSUME NEW j \in Jobs, Launch(j) PROVE TypeOK'
  BY <1>3 DEF Launch, Advance
<1>4. ASSUME NEW j \in Jobs, Write(j) PROVE TypeOK'
  BY <1>4 DEF Write
<1>5. ASSUME NEW j \in Jobs, NEW text \in BOOLEAN, NEW err \in BOOLEAN,
             Return(j, text, err) PROVE TypeOK'
  BY <1>5 DEF Return, Advance
<1>6. ASSUME NEW j \in Jobs, Mark(j) PROVE TypeOK'
  <2>1. Verdict(j) \in Status
    BY DEF Verdict
  <2>2. ret' \in [Jobs -> [text : BOOLEAN, err : BOOLEAN]]
    BY <1>6 DEF Mark, NoRet
  <2>3. result' \in [Jobs -> BOOLEAN]
    BY <1>6 DEF Mark
  <2>4. status' \in [Jobs -> Status]
    BY <1>6, <2>1 DEF Mark
  <2> QED BY <1>6, <2>2, <2>3, <2>4 DEF Mark, Advance
<1>7. ASSUME NEW j \in Jobs, RecordCompletion(j) PROVE TypeOK'
  <2>1. completed' \in [Note -> Nat]
    BY <1>7, BumpType DEF RecordCompletion
  <2>2. stage' \in [Jobs -> Stage]
    BY <1>7 DEF RecordCompletion, Advance
  <2> QED BY <1>7, <2>1, <2>2 DEF RecordCompletion
<1>8. ASSUME NEW j \in Jobs, CloseDone(j) PROVE TypeOK'
  BY <1>8 DEF CloseDone, Advance
<1>9. ASSUME NEW j \in Jobs, Output(j) PROVE TypeOK'
  BY <1>9 DEF Output
<1>10. ASSUME NEW j \in Jobs, Kill(j) PROVE TypeOK'
  BY <1>10 DEF Kill
<1>11. ASSUME NEW j \in Jobs, KillCancel(j) PROVE TypeOK'
  BY <1>11 DEF KillCancel
<1>12. ASSUME NEW w \in Waiters, NEW ids \in SUBSET Jobs, NEW timed \in BOOLEAN,
              WaitBegin(w, ids, timed) PROVE TypeOK'
  <2>1. Resolve(ids) \in SUBSET Jobs
    BY DEF Resolve, Registered
  <2> QED BY <1>12, <2>1 DEF WaitBegin
<1>13. ASSUME NEW w \in Waiters, WaitDone(w) PROVE TypeOK'
  <2>1. wait' \in [Waiters -> [targets : SUBSET Jobs, timed : BOOLEAN]]
    BY <1>13 DEF WaitDone, NoWait
  <2> QED BY <1>13, <2>1 DEF WaitDone
<1>14. ASSUME NEW w \in Waiters, WaitTimeout(w) \/ WaitInterrupted(w) PROVE TypeOK'
  <2>1. NoWait \in [targets : SUBSET Jobs, timed : BOOLEAN]
    BY DEF NoWait
  <2>2. wait' = [wait EXCEPT ![w] = NoWait]
    BY <1>14 DEF WaitTimeout, WaitInterrupted
  <2>3. wait' \in [Waiters -> [targets : SUBSET Jobs, timed : BOOLEAN]]
    BY <2>1, <2>2
  <2> QED BY <1>14, <2>3 DEF WaitTimeout, WaitInterrupted
<1>15. ASSUME Drain PROVE TypeOK'
  BY <1>15 DEF Drain, NoNotes
<1>16. ASSUME Close PROVE TypeOK'
  BY <1>16 DEF Close
<1> HIDE DEF TypeOK
<1> QED
  BY <1>1, <1>2, <1>3, <1>4, <1>5, <1>6, <1>7, <1>8, <1>9, <1>10, <1>11, <1>12,
     <1>13, <1>14, <1>15, <1>16 DEF Next, Goroutine, Caller, Waiter

-----------------------------------------------------------------------------
\* A terminal status is written once: no step rewrites it after Mark.
LEMMA MarkedStatusFixed ==
    ASSUME TypeOK, StatusFollowsStage, [Next]_vars, NEW j \in Jobs, Decided(j)
    PROVE  status'[j] = status[j]
<1> USE DEF TypeOK, StatusFollowsStage, Decided
<1>1. CASE UNCHANGED vars
  BY <1>1 DEF vars
<1>2. ASSUME NEW k \in Jobs, Start(k) \/ Mark(k) PROVE status'[j] = status[j]
  BY <1>2 DEF Start, Mark, Advance
<1>3. ASSUME NEW k \in Jobs, Kill(k) PROVE status'[j] = status[j]
  BY <1>3 DEF Kill, Killable, Terminal
<1>4. ASSUME NEW k \in Jobs, \/ Launch(k) \/ Write(k) \/ RecordCompletion(k)
                              \/ CloseDone(k) \/ Output(k) \/ KillCancel(k)
      PROVE  status'[j] = status[j]
  BY <1>4 DEF Launch, Write, RecordCompletion, CloseDone, Output, KillCancel
<1>5. ASSUME NEW k \in Jobs, NEW text \in BOOLEAN, NEW err \in BOOLEAN,
             Return(k, text, err) PROVE status'[j] = status[j]
  BY <1>5 DEF Return
<1>6. ASSUME NEW w \in Waiters, Waiter(w) PROVE status'[j] = status[j]
  BY <1>6 DEF Waiter, WaitBegin, WaitDone, WaitTimeout, WaitInterrupted
<1>7. CASE Drain \/ Close
  BY <1>7 DEF Drain, Close
<1> HIDE DEF TypeOK, StatusFollowsStage, Decided
<1> QED
  BY <1>1, <1>2, <1>3, <1>4, <1>5, <1>6, <1>7 DEF Next, Goroutine, Caller

\* The goroutine's stage only moves forward: it is noted for good.
LEMMA NotedStageStep ==
    ASSUME TypeOK, [Next]_vars, NEW j \in Jobs,
           ~ \E k \in Jobs : RecordCompletion(k)
    PROVE  stage'[j] \in {"noted", "closed"} <=> stage[j] \in {"noted", "closed"}
<1> USE DEF TypeOK
<1>1. CASE UNCHANGED vars
  BY <1>1 DEF vars
<1>2. ASSUME NEW k \in Jobs, \/ Start(k) \/ Launch(k) \/ Mark(k) \/ CloseDone(k)
                              \/ \E text, err \in BOOLEAN : Return(k, text, err)
      PROVE stage'[j] \in {"noted", "closed"} <=> stage[j] \in {"noted", "closed"}
  BY <1>2 DEF Start, Launch, Mark, CloseDone, Return, Advance
<1>3. ASSUME NEW k \in Jobs, Write(k) \/ Output(k) \/ Kill(k) \/ KillCancel(k)
      PROVE stage' = stage
  BY <1>3 DEF Write, Output, Kill, KillCancel
<1>4. ASSUME NEW w \in Waiters, Waiter(w) PROVE stage' = stage
  BY <1>4 DEF Waiter, WaitBegin, WaitDone, WaitTimeout, WaitInterrupted
<1>5. ASSUME Drain \/ Close PROVE stage' = stage
  BY <1>5 DEF Drain, Close
<1> HIDE DEF TypeOK
<1> QED BY <1>1, <1>2, <1>3, <1>4, <1>5 DEF Next, Goroutine, Caller

\* Only RecordCompletion and Drain touch the notes, and Drain keeps their sum.
LEMMA QueuedStep ==
    ASSUME TypeOK, [Next]_vars, ~ \E k \in Jobs : RecordCompletion(k), NEW n \in Note
    PROVE  Queued(n)' = Queued(n)
<1> USE DEF Queued
<1>1. CASE UNCHANGED vars
  BY <1>1 DEF vars
<1>2. ASSUME NEW k \in Jobs, \/ Start(k) \/ Launch(k) \/ Mark(k) \/ CloseDone(k)
                              \/ \E text, err \in BOOLEAN : Return(k, text, err)
                              \/ Write(k) \/ Output(k) \/ Kill(k) \/ KillCancel(k)
      PROVE UNCHANGED <<completed, told>>
  BY <1>2 DEF Start, Launch, Mark, CloseDone, Return, Write, Output, Kill, KillCancel
<1>3. ASSUME NEW w \in Waiters, Waiter(w) PROVE UNCHANGED <<completed, told>>
  BY <1>3 DEF Waiter, WaitBegin, WaitDone, WaitTimeout, WaitInterrupted
<1>4. CASE Drain
  <2>1. completed[n] \in Nat /\ told[n] \in Nat
    BY DEF TypeOK
  <2> QED BY <1>4, <2>1 DEF Drain, NoNotes
<1>5. CASE Close
  BY <1>5 DEF Close
<1> QED BY <1>1, <1>2, <1>3, <1>4, <1>5 DEF Next, Goroutine, Caller

\* RecordCompletion queues the first and only note of its job, and a true one.
LEMMA RecordStep ==
    ASSUME TypeOK, StatusFollowsStage, NotedByStage, NEW k \in Jobs, RecordCompletion(k)
    PROVE  NotedByStage'
<1>0. stage[k] = "marked" /\ status[k] \in Terminal
  BY DEF RecordCompletion, Advance, StatusFollowsStage, Decided
<1> PICK m \in Note : m = <<k, status[k]>>
  BY <1>0 DEF Note
<1>1. stage[k] = "marked" /\ stage' = [stage EXCEPT ![k] = "noted"]
  BY DEF RecordCompletion, Advance
<1>2. status' = status /\ told' = told
  BY DEF RecordCompletion
<1>3. completed' = [completed EXCEPT ![m] = @ + 1]
  BY DEF RecordCompletion
<1>4. \A s \in Terminal : Queued(<<k, s>>) = 0
  BY <1>1 DEF NotedByStage
<1>5. completed'[m] + told'[m] = 1
  BY <1>0, <1>2, <1>3, <1>4 DEF Queued, TypeOK
<1>6. ASSUME NEW n \in Note, n # m PROVE completed'[n] + told'[n] = Queued(n)
  BY <1>2, <1>3, <1>6 DEF Queued, TypeOK
<1>7. ASSUME NEW j \in Jobs, stage'[j] \in {"noted", "closed"}
      PROVE  completed'[<<j, status'[j]>>] + told'[<<j, status'[j]>>] = 1
  <2>1. CASE j = k
    BY <1>2, <1>5, <2>1
  <2>2. CASE j # k
    <3>1. stage[j] \in {"noted", "closed"}
      BY <1>1, <1>7, <2>2 DEF TypeOK
    <3>2. <<j, status[j]>> \in Note /\ <<j, status[j]>> # m
      BY <2>2, <3>1 DEF Note, StatusFollowsStage, Decided
    <3> QED BY <1>2, <1>6, <3>1, <3>2 DEF NotedByStage
  <2> QED BY <2>1, <2>2
<1>8. ASSUME NEW j \in Jobs, NEW s \in Terminal, completed'[<<j, s>>] + told'[<<j, s>>] # 0
      PROVE  stage'[j] \in {"noted", "closed"} /\ status'[j] = s
  <2>1. CASE <<j, s>> = m
    BY <1>0, <1>1, <1>2, <2>1 DEF TypeOK
  <2>2. CASE <<j, s>> # m
    <3>1. Queued(<<j, s>>) # 0
      BY <1>6, <1>8, <2>2 DEF Note
    <3> QED BY <1>1, <1>2, <3>1 DEF NotedByStage, TypeOK
  <2> QED BY <2>1, <2>2
<1> QED BY <1>7, <1>8 DEF NotedByStage, Queued

-----------------------------------------------------------------------------
\* Registration sets the first status and Mark the last; a Kill in between leaves no gap.
LEMMA StatusStep ==
    ASSUME TypeOK, StatusFollowsStage, [Next]_vars PROVE StatusFollowsStage'
<1> SUFFICES ASSUME NEW j \in Jobs
             PROVE  /\ stage'[j] = "absent" => status'[j] = "none"
                    /\ Decided(j)' => status'[j] \in Terminal
  BY DEF StatusFollowsStage
<1> USE DEF TypeOK, StatusFollowsStage, Decided
<1>1. CASE UNCHANGED vars
  BY <1>1 DEF vars
<1>2. ASSUME NEW k \in Jobs, Mark(k)
      PROVE  /\ stage'[j] = "absent" => status'[j] = "none"
             /\ Decided(j)' => status'[j] \in Terminal
  BY <1>2 DEF Mark, Advance, Verdict, Terminal
<1>3. ASSUME NEW k \in Jobs, \/ Start(k) \/ Launch(k) \/ CloseDone(k) \/ RecordCompletion(k)
                              \/ \E text, err \in BOOLEAN : Return(k, text, err)
      PROVE  /\ stage'[j] = "absent" => status'[j] = "none"
             /\ Decided(j)' => status'[j] \in Terminal
  BY <1>3 DEF Start, Launch, CloseDone, RecordCompletion, Return, Advance
<1>4. ASSUME NEW k \in Jobs, Kill(k)
      PROVE  /\ stage'[j] = "absent" => status'[j] = "none"
             /\ Decided(j)' => status'[j] \in Terminal
  BY <1>4 DEF Kill, Killable, Terminal, Registered
<1>5. ASSUME NEW k \in Jobs, Write(k) \/ Output(k) \/ KillCancel(k)
      PROVE  UNCHANGED <<stage, status>>
  BY <1>5 DEF Write, Output, KillCancel
<1>6. ASSUME NEW w \in Waiters, Waiter(w) PROVE UNCHANGED <<stage, status>>
  BY <1>6 DEF Waiter, WaitBegin, WaitDone, WaitTimeout, WaitInterrupted
<1>7. ASSUME Drain \/ Close PROVE UNCHANGED <<stage, status>>
  BY <1>7 DEF Drain, Close
<1>8. ASSUME UNCHANGED <<stage, status>>
      PROVE  /\ stage'[j] = "absent" => status'[j] = "none"
             /\ Decided(j)' => status'[j] \in Terminal
  BY <1>8
<1> HIDE DEF TypeOK, StatusFollowsStage, Decided
<1> QED BY <1>1, <1>2, <1>3, <1>4, <1>5, <1>6, <1>7, <1>8 DEF Next, Goroutine, Caller

\* RecordCompletion queues the note of the status Mark left, and no other step queues one.
LEMMA NotedStep ==
    ASSUME TypeOK, StatusFollowsStage, NotedByStage, [Next]_vars PROVE NotedByStage'
<1>1. CASE \E k \in Jobs : RecordCompletion(k)
  BY <1>1, RecordStep
<1>2. CASE ~ \E k \in Jobs : RecordCompletion(k)
  <2>1. \A j \in Jobs : stage'[j] \in {"noted", "closed"} <=> stage[j] \in {"noted", "closed"}
    BY <1>2, NotedStageStep
  <2>2. \A j \in Jobs : stage[j] \in {"noted", "closed"} =>
             status'[j] = status[j] /\ <<j, status[j]>> \in Note
    BY MarkedStatusFixed DEF Decided, StatusFollowsStage, Note
  <2>3. \A n \in Note : completed'[n] + told'[n] = Queued(n)
    BY <1>2, QueuedStep DEF Queued
  <2>4. ASSUME NEW j \in Jobs, stage'[j] \in {"noted", "closed"}
        PROVE  completed'[<<j, status'[j]>>] + told'[<<j, status'[j]>>] = 1
    BY <2>1, <2>2, <2>3, <2>4 DEF NotedByStage
  <2>5. ASSUME NEW j \in Jobs, NEW s \in Terminal, completed'[<<j, s>>] + told'[<<j, s>>] # 0
        PROVE  stage'[j] \in {"noted", "closed"} /\ status'[j] = s
    <3>1. Queued(<<j, s>>) # 0
      BY <2>3, <2>5 DEF Note
    <3> QED BY <2>1, <2>2, <3>1 DEF NotedByStage
  <2> QED BY <2>4, <2>5 DEF NotedByStage, Queued
<1> QED BY <1>1, <1>2

\* Kill flips a running job and owes it a cancel, until KillCancel pays.
LEMMA FlipStep ==
    ASSUME TypeOK, FlipIsKills, [Next]_vars PROVE FlipIsKills'
<1> DEFINE Flipped(j) == stage[j] \in {"registered", "running", "returned"} =>
                            \/ status[j] = "Running"
                            \/ status[j] = "Killed" /\ (j \in killing \/ CtxErr(j))
<1> SUFFICES ASSUME NEW j \in Jobs PROVE Flipped(j)'
  BY DEF FlipIsKills
<1> USE DEF TypeOK, FlipIsKills, CtxErr
<1>1. ASSUME NEW k \in Jobs, Start(k) \/ Launch(k) \/ CloseDone(k) \/ RecordCompletion(k)
      PROVE  Flipped(j)'
  BY <1>1 DEF Start, Launch, CloseDone, RecordCompletion, Advance
<1>2. ASSUME NEW k \in Jobs, NEW text \in BOOLEAN, NEW err \in BOOLEAN,
             Return(k, text, err) PROVE Flipped(j)'
  BY <1>2 DEF Return, Advance
<1>3. ASSUME NEW k \in Jobs, Mark(k) PROVE Flipped(j)'
  BY <1>3 DEF Mark, Advance
<1>4. ASSUME NEW k \in Jobs, Kill(k) \/ KillCancel(k) PROVE Flipped(j)'
  BY <1>4 DEF Kill, KillCancel
<1>5. ASSUME NEW k \in Jobs, Write(k) \/ Output(k) PROVE Flipped(j)'
  BY <1>5 DEF Write, Output
<1>6. ASSUME NEW w \in Waiters, Waiter(w) PROVE Flipped(j)'
  BY <1>6 DEF Waiter, WaitBegin, WaitDone, WaitTimeout, WaitInterrupted
<1>7. ASSUME Drain \/ Close \/ UNCHANGED vars PROVE Flipped(j)'
  BY <1>7 DEF Drain, Close, vars
<1> HIDE DEF Flipped, TypeOK, FlipIsKills
<1> QED BY <1>1, <1>2, <1>3, <1>4, <1>5, <1>6, <1>7 DEF Next, Goroutine, Caller

\* No step sets or reads a result before Mark.
LEMMA ResultStep ==
    ASSUME TypeOK, ResultAfterMark, [Next]_vars PROVE ResultAfterMark'
<1> SUFFICES ASSUME NEW j \in Jobs, result'[j] \/ resultRead'[j] PROVE Decided(j)'
  BY DEF ResultAfterMark
<1> USE DEF TypeOK, ResultAfterMark, Decided
<1>1. ASSUME NEW k \in Jobs, Mark(k) PROVE Decided(j)'
  BY <1>1 DEF Mark, Advance
<1>2. ASSUME NEW k \in Jobs, Output(k) PROVE Decided(j)'
  BY <1>2 DEF Output, Surfaced
<1>3. ASSUME NEW k \in Jobs, \/ Start(k) \/ Launch(k) \/ CloseDone(k) \/ RecordCompletion(k)
                              \/ \E text, err \in BOOLEAN : Return(k, text, err)
      PROVE Decided(j)'
  BY <1>3 DEF Start, Launch, CloseDone, RecordCompletion, Return, Advance
<1>4. ASSUME NEW k \in Jobs, Write(k) \/ Kill(k) \/ KillCancel(k) PROVE Decided(j)'
  BY <1>4 DEF Write, Kill, KillCancel
<1>5. ASSUME NEW w \in Waiters, Waiter(w) PROVE Decided(j)'
  BY <1>5 DEF Waiter, WaitBegin, WaitDone, WaitTimeout, WaitInterrupted
<1>6. ASSUME Drain \/ Close \/ UNCHANGED vars PROVE Decided(j)'
  BY <1>6 DEF Drain, Close, vars
<1> HIDE DEF TypeOK, ResultAfterMark, Decided
<1> QED BY <1>1, <1>2, <1>3, <1>4, <1>5, <1>6 DEF Next, Goroutine, Caller

-----------------------------------------------------------------------------
\* The empty table satisfies the invariant.
LEMMA IInvInit == Init => IInv
<1> HAVE Init
<1>1. TypeOK
  <2>1. completed \in [Note -> Nat] /\ told \in [Note -> Nat]
    BY DEF Init, NoNotes
  <2>2. wait \in [Waiters -> [targets : SUBSET Jobs, timed : BOOLEAN]]
    BY DEF Init, NoWait
  <2>3. /\ stage \in [Jobs -> Stage] /\ status \in [Jobs -> Status]
        /\ ret \in [Jobs -> [text : BOOLEAN, err : BOOLEAN]]
    BY DEF Init, Stage, Status, NoRet
  <2>4. buf \in [Jobs -> 0..MaxOut] /\ readOffset \in [Jobs -> 0..MaxOut]
    BY JobsAssumption DEF Init
  <2> QED BY <2>1, <2>2, <2>3, <2>4 DEF Init, TypeOK
<1>2. StatusFollowsStage /\ FlipIsKills /\ ResultAfterMark
  BY DEF Init, StatusFollowsStage, FlipIsKills, ResultAfterMark, Decided
<1>3. NotedByStage
  BY DEF Init, NotedByStage, Queued, NoNotes, Note
<1> QED BY <1>1, <1>2, <1>3 DEF IInv

\* Every step keeps it.
LEMMA IInvStep == IInv /\ [Next]_vars => IInv'
BY TypeStep, StatusStep, NotedStep, FlipStep, ResultStep DEF IInv

\* The inductive invariant, for any jobs and waiters.
THEOREM IInvHolds == Spec => []IInv
BY IInvInit, IInvStep, PTL DEF Spec

\* Every variable keeps its type.
THEOREM TypeCorrect == Spec => []TypeOK
BY IInvHolds, PTL DEF IInv

\* A completion is reported to the model once, with the status the job ended in.
THEOREM NotesAreTrueAndOnce == Spec => []OneTrueNote
<1>1. IInv => OneTrueNote
  <2> SUFFICES ASSUME IInv, NEW n \in Note
               PROVE  /\ completed[n] + told[n] <= 1
                      /\ completed[n] + told[n] > 0 => status[n[1]] = n[2]
    BY DEF OneTrueNote
  <2>1. PICK j \in Jobs, s \in Terminal : n = <<j, s>>
    BY DEF Note
  <2>2. completed[n] \in Nat /\ told[n] \in Nat
    BY DEF IInv, TypeOK
  <2>3. CASE completed[n] + told[n] = 0
    BY <2>2, <2>3
  <2>4. CASE completed[n] + told[n] # 0
    <3>1. stage[j] \in {"noted", "closed"} /\ status[j] = s
      BY <2>1, <2>4 DEF IInv, NotedByStage, Queued
    <3>2. completed[n] + told[n] = 1
      BY <2>1, <3>1 DEF IInv, NotedByStage, Queued
    <3> QED BY <2>1, <3>1, <3>2
  <2> QED BY <2>3, <2>4
<1> QED BY <1>1, IInvHolds, PTL

\* Whoever sees a job's done channel closed finds its note already queued.
THEOREM NoteIsQueuedBeforeDone == Spec => []NoteBeforeDone
<1>1. IInv => NoteBeforeDone
  <2> SUFFICES ASSUME IInv, NEW j \in Jobs, IsDone(j) PROVE Noted(j)
    BY DEF NoteBeforeDone
  <2>1. status[j] \in Terminal
    BY DEF IInv, StatusFollowsStage, Decided, IsDone
  <2>2. completed[<<j, status[j]>>] + told[<<j, status[j]>>] = 1
    BY DEF IInv, NotedByStage, Queued, IsDone
  <2> QED BY <2>1, <2>2 DEF Noted
<1> QED BY <1>1, IInvHolds, PTL

\* Only Kill and Mark rewrite a status that was set at registration.
LEMMA StatusWriters ==
    ASSUME TypeOK, [Next]_vars, NEW j \in Jobs, stage[j] # "absent", status'[j] # status[j]
    PROVE  Mark(j) \/ Kill(j)
<1> USE DEF TypeOK
<1>1. ASSUME NEW k \in Jobs, Start(k) PROVE FALSE
  BY <1>1 DEF Start, Advance
<1>2. ASSUME NEW k \in Jobs, Mark(k) \/ Kill(k) PROVE k = j
  BY <1>2 DEF Mark, Kill
<1>3. ASSUME NEW k \in Jobs, \/ Launch(k) \/ Write(k) \/ RecordCompletion(k)
                              \/ CloseDone(k) \/ Output(k) \/ KillCancel(k)
                              \/ \E text, err \in BOOLEAN : Return(k, text, err)
      PROVE FALSE
  BY <1>3 DEF Launch, Write, RecordCompletion, CloseDone, Output, KillCancel, Return
<1>4. ASSUME NEW w \in Waiters, Waiter(w) PROVE FALSE
  BY <1>4 DEF Waiter, WaitBegin, WaitDone, WaitTimeout, WaitInterrupted
<1>5. ASSUME Drain \/ Close \/ UNCHANGED vars PROVE FALSE
  BY <1>5 DEF Drain, Close, vars
<1> HIDE DEF TypeOK
<1> QED BY <1>1, <1>2, <1>3, <1>4, <1>5 DEF Next, Goroutine, Caller

\* A terminal status gives way to another only when run's return overtakes Kill.
LEMMA OnlyOvertakingRewrites ==
    ASSUME IInv, [Next]_vars, NEW j \in Jobs, status[j] \in Terminal, status'[j] # status[j]
    PROVE  Overtakes(j)
<1>1. stage[j] # "absent"
  BY DEF IInv, StatusFollowsStage, Terminal
<1>2. Mark(j) \/ Kill(j)
  BY <1>1, StatusWriters DEF IInv
<1>3. ~Kill(j)
  BY DEF Kill, Killable, Terminal
<1>4. stage[j] = "returned" /\ status'[j] = Verdict(j)
  BY <1>2, <1>3 DEF Mark, Advance, IInv, TypeOK
<1>5. status[j] = "Killed" /\ (j \in killing \/ CtxErr(j))
  BY <1>4 DEF IInv, FlipIsKills, Terminal
<1> QED BY <1>4, <1>5 DEF Overtakes, Verdict

\* Output hands out an answer only of a job whose verdict is in.
LEMMA AnswersComeDecided ==
    ASSUME IInv, [Next]_vars, NEW j \in Jobs, resultRead'[j] # resultRead[j]
    PROVE  Decided(j)
<1> USE DEF IInv, TypeOK
<1>1. ASSUME NEW k \in Jobs, Output(k) PROVE Decided(j)
  BY <1>1 DEF Output, Surfaced, ResultAfterMark
<1>2. ASSUME NEW k \in Jobs, \/ Start(k) \/ Launch(k) \/ Write(k) \/ Mark(k)
                              \/ RecordCompletion(k) \/ CloseDone(k) \/ Kill(k) \/ KillCancel(k)
                              \/ \E text, err \in BOOLEAN : Return(k, text, err)
      PROVE FALSE
  BY <1>2 DEF Start, Launch, Write, Mark, RecordCompletion, CloseDone, Kill, KillCancel, Return
<1>3. ASSUME NEW w \in Waiters, Waiter(w) PROVE FALSE
  BY <1>3 DEF Waiter, WaitBegin, WaitDone, WaitTimeout, WaitInterrupted
<1>4. ASSUME Drain \/ Close \/ UNCHANGED vars PROVE FALSE
  BY <1>4 DEF Drain, Close, vars
<1> HIDE DEF IInv, TypeOK
<1> QED BY <1>1, <1>2, <1>3, <1>4 DEF Next, Goroutine, Caller

\* Whatever status Output or a wait told the model, it is taken back in one case
\* only, a run that returns between Kill's flip and its cancel; answers, and waits
\* that end by completion, come after the verdict.
THEOREM ReportsFinal == Spec => ReportsAreFinal
<1> DEFINE Final == /\ \A j \in Jobs :
                          /\ status[j] \in Terminal /\ status'[j] # status[j] => Overtakes(j)
                          /\ resultRead'[j] # resultRead[j] => Decided(j)
                    /\ \A w \in Waiters :
                          WaitDone(w) => \A j \in wait[w].targets : Decided(j)
<1>1. IInv /\ [Next]_vars => Final
  BY OnlyOvertakingRewrites, AnswersComeDecided DEF WaitDone, IsDone, Decided
<1>2. IInv /\ [Next]_vars => [Final]_vars
  BY <1>1
<1> HIDE DEF Final
<1>3. Spec => [][Final]_vars
  BY <1>2, IInvHolds, PTL DEF Spec
<1> QED BY <1>3 DEF ReportsAreFinal, Final

-----------------------------------------------------------------------------
(* The table implements JobContract. *)

\* Under the invariant the announced jobs are read off the stage.
LEMMA NotedIffStage ==
    IInv => \A j \in Jobs : Noted(j) <=> stage[j] \in {"noted", "closed"}
<1> SUFFICES ASSUME IInv, NEW j \in Jobs
             PROVE  Noted(j) <=> stage[j] \in {"noted", "closed"}
  OBVIOUS
<1>1. \A s \in Terminal : completed[<<j, s>>] \in Nat /\ told[<<j, s>>] \in Nat
  BY DEF IInv, TypeOK, Note
<1>2. ASSUME Noted(j) PROVE stage[j] \in {"noted", "closed"}
  BY <1>1, <1>2 DEF IInv, NotedByStage, Queued, Noted
<1>3. ASSUME stage[j] \in {"noted", "closed"} PROVE Noted(j)
  BY <1>1, <1>3 DEF IInv, NotedByStage, Queued, Noted, StatusFollowsStage, Decided
<1> QED BY <1>2, <1>3

\* The abstract state as a function of stage and status alone.
Phase(st) == CASE st = "absent" -> "absent"
               [] st = "closed" -> "over"
               [] OTHER         -> "live"
Phases    == [j \in Jobs |-> Phase(stage[j])]
Verdicts  == [j \in Jobs |-> IF Decided(j) THEN status[j] ELSE "none"]
Announced == {j \in Jobs : stage[j] \in {"noted", "closed"}}

\* A step of the table is one of the contract's, or changes nothing of it.
ContractMove ==
    \/ \E k \in Jobs :
          \/ /\ Phases[k] = "absent"
             /\ Phases' = [Phases EXCEPT ![k] = "live"]
             /\ Verdicts' = Verdicts /\ Announced' = Announced
          \/ /\ Phases[k] = "live" /\ Verdicts[k] = "none"
             /\ \E v \in Terminal : Verdicts' = [Verdicts EXCEPT ![k] = v]
             /\ Phases' = Phases /\ Announced' = Announced
          \/ /\ Verdicts[k] # "none" /\ k \notin Announced
             /\ Announced' = Announced \cup {k}
             /\ Phases' = Phases /\ Verdicts' = Verdicts
          \/ /\ Phases[k] = "live" /\ k \in Announced
             /\ Phases' = [Phases EXCEPT ![k] = "over"]
             /\ Verdicts' = Verdicts /\ Announced' = Announced
    \/ Phases' = Phases /\ Verdicts' = Verdicts /\ Announced' = Announced

\* What a step of the table does to phases, verdicts and announcements.
LEMMA MoveStep == ASSUME IInv, [Next]_vars PROVE ContractMove
<1> USE DEF Phases, Verdicts, Announced, Phase, Decided
<1>0. TypeOK /\ StatusFollowsStage
  BY DEF IInv
<1>1. ASSUME NEW k \in Jobs, Start(k) PROVE ContractMove
  <2>1. Phases[k] = "absent" /\ Phases' = [Phases EXCEPT ![k] = "live"]
    BY <1>0, <1>1 DEF Start, Advance, TypeOK
  <2>2. Verdicts' = Verdicts /\ Announced' = Announced
    BY <1>0, <1>1 DEF Start, Advance, TypeOK
  <2> HIDE DEF Phases, Verdicts, Announced
  <2> QED BY <2>1, <2>2 DEF ContractMove
<1>2. ASSUME NEW k \in Jobs, Mark(k) PROVE ContractMove
  <2>1. Phases[k] = "live" /\ Verdicts[k] = "none"
    BY <1>0, <1>2 DEF Mark, Advance, TypeOK
  <2>2. Verdicts' = [Verdicts EXCEPT ![k] = Verdict(k)] /\ Verdict(k) \in Terminal
    BY <1>0, <1>2 DEF Mark, Advance, TypeOK, Verdict, Terminal
  <2>3. Phases' = Phases /\ Announced' = Announced
    BY <1>0, <1>2 DEF Mark, Advance, TypeOK
  <2> HIDE DEF Phases, Verdicts, Announced
  <2> QED BY <2>1, <2>2, <2>3 DEF ContractMove
<1>3. ASSUME NEW k \in Jobs, RecordCompletion(k) PROVE ContractMove
  <2>1. Verdicts[k] # "none" /\ k \notin Announced
    BY <1>0, <1>3 DEF RecordCompletion, Advance, StatusFollowsStage, Terminal
  <2>2. Announced' = Announced \cup {k}
    BY <1>0, <1>3 DEF RecordCompletion, Advance, TypeOK
  <2>3. Phases' = Phases /\ Verdicts' = Verdicts
    BY <1>0, <1>3 DEF RecordCompletion, Advance, TypeOK
  <2> HIDE DEF Phases, Verdicts, Announced
  <2> QED BY <2>1, <2>2, <2>3 DEF ContractMove
<1>4. ASSUME NEW k \in Jobs, CloseDone(k) PROVE ContractMove
  <2>1. Phases[k] = "live" /\ k \in Announced
    BY <1>4 DEF CloseDone, Advance
  <2>2. Phases' = [Phases EXCEPT ![k] = "over"]
    BY <1>0, <1>4 DEF CloseDone, Advance, TypeOK
  <2>3. Verdicts' = Verdicts /\ Announced' = Announced
    BY <1>0, <1>4 DEF CloseDone, Advance, TypeOK
  <2> HIDE DEF Phases, Verdicts, Announced
  <2> QED BY <2>1, <2>2, <2>3 DEF ContractMove
<1>5. ASSUME NEW k \in Jobs, \/ Launch(k)
                              \/ \E text, err \in BOOLEAN : Return(k, text, err)
      PROVE ContractMove
  <2>1. Phases' = Phases
    BY <1>0, <1>5 DEF Launch, Return, Advance, TypeOK
  <2>2. Verdicts' = Verdicts /\ Announced' = Announced
    BY <1>0, <1>5 DEF Launch, Return, Advance, TypeOK
  <2> HIDE DEF Phases, Verdicts, Announced
  <2> QED BY <2>1, <2>2 DEF ContractMove
<1>6. ASSUME NEW k \in Jobs, Kill(k) PROVE ContractMove
  <2>1. Verdicts' = Verdicts
    BY <1>0, <1>6 DEF Kill, Killable, StatusFollowsStage, TypeOK, Terminal
  <2> QED BY <1>6, <2>1 DEF ContractMove, Kill
<1>7. ASSUME UNCHANGED <<stage, status>> PROVE ContractMove
  BY <1>7 DEF ContractMove
<1>8. ASSUME NEW k \in Jobs, Write(k) \/ Output(k) \/ KillCancel(k)
      PROVE UNCHANGED <<stage, status>>
  BY <1>8 DEF Write, Output, KillCancel
<1>9. ASSUME NEW w \in Waiters, Waiter(w) PROVE UNCHANGED <<stage, status>>
  BY <1>9 DEF Waiter, WaitBegin, WaitDone, WaitTimeout, WaitInterrupted
<1>10. ASSUME Drain \/ Close \/ UNCHANGED vars PROVE UNCHANGED <<stage, status>>
  BY <1>10 DEF Drain, Close, vars
<1> QED
  BY <1>1, <1>2, <1>3, <1>4, <1>5, <1>6, <1>7, <1>8, <1>9, <1>10
     DEF Next, Goroutine, Caller

\* The initial states map to initial states, every step to a step or a stutter.
THEOREM TableKeepsContract == Spec => ImplementsContract
<1> DEFINE Mapped == /\ Phases = [j \in Jobs |-> CASE stage[j] = "absent" -> "absent"
                                                   [] stage[j] = "closed" -> "over"
                                                   [] OTHER               -> "live"]
                     /\ Verdicts = [j \in Jobs |->
                                      IF Decided(j) THEN status[j] ELSE "none"]
                     /\ Announced = {j \in Jobs : Noted(j)}
<1>1. IInv => Mapped
  BY NotedIffStage DEF Phases, Verdicts, Announced, Phase, Decided
<1>2. Init => Contract!Init
  <2>1. ASSUME Init, NEW j \in Jobs PROVE ~Noted(j)
    BY <2>1, IInvInit, NotedIffStage DEF Init
  <2> QED BY <2>1 DEF Init, Contract!Init
<1>3. Mapped /\ Mapped' /\ ContractMove => [Contract!Next]_(Contract!avars)
  <2> SUFFICES ASSUME Mapped, Mapped', ContractMove
               PROVE  Contract!Next \/ UNCHANGED Contract!avars
    OBVIOUS
  <2> QED BY DEF ContractMove, Contract!Next, Contract!Begin, Contract!Decide,
                 Contract!Announce, Contract!Finish, Contract!avars, Contract!Verdict, Terminal
<1>4. IInv /\ IInv' /\ [Next]_vars => [Contract!Next]_(Contract!avars)
  <2>1. IInv' => Mapped'
    BY <1>1, PTL
  <2> QED BY <1>1, <2>1, <1>3, MoveStep
<1> QED BY <1>2, <1>4, IInvHolds, PTL DEF Spec, ImplementsContract, Contract!Spec
=============================================================================
