---------------------------- MODULE Checkpoints -----------------------------
(***************************************************************************)
(* Rewind, internal/checkpoint/checkpoint.go with its use by the controller *)
(* (internal/control/controller.go): each user turn opens a checkpoint that *)
(* records the content of every file a tool is about to change, and the     *)
(* length of the message log, and a rewind goes back to a turn's start from *)
(* them.  Checkpoints are persisted as they change, one file per turn; the  *)
(* conversation is saved as a whole at a few points, and a crash or a       *)
(* resume rebuilds the store, the numbering and the boundaries from disk.   *)
(*                                                                         *)
(* One session and one action at a time: a rewind or a /compact beside a    *)
(* running turn is not modelled here.  The log leaves out the system        *)
(* message, so a boundary is one less than the code's index.  A message is  *)
(* the serial number of the turn that added it; Summary stands for a        *)
(* compacted region.                                                        *)
(* Files change only through tools that can preview their change; what bash *)
(* or an editor does to a file is never recorded (executeOne's onPreEdit).  *)
(***************************************************************************)
EXTENDS Integers, Sequences

CONSTANTS
    Files,
    Values,     \* contents a tool may write
    Absent,     \* the content of a file that does not exist
    None,
    Summary,    \* the message that replaces a compacted region
    MaxTurns    \* bound: turns begun

Turns    == 0..(MaxTurns - 1)           \* turn numbers
Contents == Values \cup {Absent}
Message  == (1..MaxTurns) \cup {Summary}
Checkpoint == [turn : Turns, at : Nat, files : [Files -> Contents \cup {None}]]
Moment     == [ws : [Files -> Contents], log : Seq(Message)]   \* a turn's start

ASSUME CheckpointsAssumption ==
    /\ Absent \notin Values
    /\ None \notin Contents \cup Checkpoint \cup Moment
    /\ MaxTurns \in Nat

VARIABLES
    ws,       \* the workspace, [Files -> Contents]
    log,      \* session.Messages
    saved,    \* the session file
    done,     \* finalized checkpoints
    cur,      \* the active turn's checkpoint, or None
    disk,     \* the turn-N.json files
    cpTurn,   \* the next turn's number
    cpBound,  \* [Turns -> the log's length at that turn's start, or None]
    running,
    serial,   \* turns begun so far
    begun,    \* history: workspace and log at the start of the turns that a rewind
              \* has not undone
    reused,   \* history: a turn took a number the store already had
    restructured  \* history: a region of the log was replaced by a summary

store == <<done, cur, disk>>
convo == <<log, saved>>
number == <<cpTurn, cpBound>>
history == <<begun, reused, restructured>>
vars == <<ws, convo, store, number, running, serial, history>>

Init ==
    /\ ws \in [Files -> Contents]
    /\ log = <<>>
    /\ saved = <<>>
    /\ done = {}
    /\ cur = None
    /\ disk = {}
    /\ cpTurn = 0
    /\ cpBound = [t \in Turns |-> None]
    /\ running = FALSE
    /\ serial = 0
    /\ begun = [t \in Turns |-> None]
    /\ reused = FALSE
    /\ restructured = FALSE

-----------------------------------------------------------------------------
(* checkpoint.Store *)

Untouched == [f \in Files |-> None]

\* Every checkpoint in memory.
All == done \cup (IF cur = None THEN {} ELSE {cur})

\* turn-N.json is written over.
Persist(c) == disk' = {d \in disk : d.turn # c.turn} \cup {c}

StoreBegin(turn, at) ==
    LET c == [turn |-> turn, at |-> at, files |-> Untouched]
    IN  /\ done' = All
        /\ cur' = c
        /\ Persist(c)

\* Mutant: every touch of a file is recorded, not the first.
LastTouch(c, f) == TRUE

FirstTouch(c, f) == c.files[f] = None

Snapshot(f) ==
    IF FirstTouch(cur, f)
    THEN LET c == [cur EXCEPT !.files[f] = ws[f]]
         IN  cur' = c /\ Persist(c) /\ UNCHANGED done
    ELSE UNCHANGED store

Above(cps) == {t \in 0..MaxTurns : \A c \in cps : c.turn < t}

\* Mutant: numbering resumes at the last turn.
LastTurn(cps) == IF cps = {} THEN 0
                 ELSE CHOOSE t \in 0..MaxTurns : t + 1 \in Above(cps) /\ t \notin Above(cps)

\* The lowest number above every turn.
NextTurn(cps) == CHOOSE t \in Above(cps) : \A u \in Above(cps) : t <= u

\* Each turn number is on disk once.
Bounds(cps) == [t \in Turns |-> IF \E c \in cps : c.turn = t
                                THEN (CHOOSE c \in cps : c.turn = t).at
                                ELSE None]

Sooner(d, e) == d.turn <= e.turn

\* The checkpoints RestoreCode(turn) looks at for f, and the contents it may write
\* back: that of the lowest turn, in no fixed order if two have the same number.
Touched(f, turn)  == {c \in All : c.turn >= turn /\ c.files[f] # None}
Earliest(f, turn) == {c.files[f] : c \in {d \in Touched(f, turn) :
                                          \A e \in Touched(f, turn) : Sooner(d, e)}}

Restored(f, turn) == IF Touched(f, turn) = {} THEN {ws[f]} ELSE Earliest(f, turn)

\* RestoreCode, where the file system refuses to change the files of fails.
RestoreCode(turn, fails) ==
    ws' \in {w \in [Files -> Contents] :
                \A f \in Files : w[f] \in IF f \in fails THEN {ws[f]} ELSE Restored(f, turn)}

-----------------------------------------------------------------------------
(* A turn *)

\* beginCheckpoint.
Begin ==
    /\ ~running
    /\ serial < MaxTurns
    /\ running' = TRUE
    /\ serial' = serial + 1
    /\ cpTurn' = cpTurn + 1
    /\ cpBound' = [cpBound EXCEPT ![cpTurn] = Len(log)]
    /\ StoreBegin(cpTurn, Len(log))
    /\ begun' = [begun EXCEPT ![cpTurn] = [ws |-> ws, log |-> log]]
    /\ reused' = (reused \/ \E c \in All : c.turn = cpTurn)
    /\ UNCHANGED <<ws, convo, restructured>>

Newest == IF log = <<>> THEN 0 ELSE log[Len(log)]

\* The run adds its messages (a bound: one block, unless the log was compacted).
Say ==
    /\ running
    /\ Newest # serial
    /\ log' = Append(log, serial)
    /\ UNCHANGED <<ws, saved, store, number, running, serial, history>>

\* A writer tool: the pre-edit hook, then the edit.  (A crash in between, or an edit
\* that fails, is the case v = ws[f].)
Edit(f, v) ==
    /\ running
    /\ Snapshot(f)
    /\ ws' = [ws EXCEPT ![f] = v]
    /\ UNCHANGED <<convo, number, running, serial, history>>

\* Everything but the first k messages is kept.
Compacted(k) == <<Summary>> \o SubSeq(log, k + 1, Len(log))

\* maybeCompact, between two steps of the run.
AutoCompact(k) ==
    /\ running
    /\ log' = Compacted(k)
    /\ restructured' = TRUE
    /\ UNCHANGED <<ws, saved, store, number, running, serial, begun, reused>>

Start(turn) == IF begun[turn] = None THEN <<>> ELSE begun[turn].log

\* The deferred snapshotActivityIfChanged: nothing is saved unless the log is longer
\* than when the turn began (it begins with the number cpTurn - 1).
End ==
    /\ running
    /\ running' = FALSE
    /\ saved' = IF Len(log) > Len(Start(cpTurn - 1)) THEN log ELSE saved
    /\ UNCHANGED <<ws, log, store, number, serial, history>>

-----------------------------------------------------------------------------
(* Between turns *)

\* Controller.Snapshot: an empty conversation is not written.
Save == saved' = IF log' = <<>> THEN saved ELSE log'

\* /compact and the snapshot its callers take.
CompactNow(k) ==
    /\ ~running
    /\ log' = Compacted(k)
    /\ Save
    /\ restructured' = TRUE
    /\ UNCHANGED <<ws, store, number, running, serial, begun, reused>>

Forget(turns) == begun' = [t \in Turns |-> IF t \in turns THEN None ELSE begun[t]]
From(turn) == {t \in Turns : t >= turn}
After(turn) == {t \in Turns : t > turn}

\* Only the code: the numbering and the log stay, and so does the store.
RewindCode(turn) ==
    /\ ~running
    /\ RestoreCode(turn, {})
    /\ Forget(After(turn))
    /\ UNCHANGED <<convo, store, number, running, serial, reused, restructured>>

\* A file could not be restored, or (for both) the turn has no boundary: the code
\* that was restored stays restored, the conversation is not touched.
RewindFails(turn, fails) ==
    /\ ~running
    /\ fails # {} \/ cpBound[turn] = None
    /\ RestoreCode(turn, fails)
    /\ Forget(After(turn))
    /\ UNCHANGED <<convo, store, number, running, serial, reused, restructured>>

\* Mutant: one message too many is cut.
CutBefore(at) == SubSeq(log, 1, at - 1)

CutAt(at) == SubSeq(log, 1, at)

\* The conversation part of a rewind.  The store keeps its checkpoints.
Truncate(turn) ==
    IF cpBound[turn] <= Len(log)
    THEN /\ log' = CutAt(cpBound[turn])
         /\ cpTurn' = turn
         /\ cpBound' = [t \in Turns |-> IF t >= turn THEN None ELSE cpBound[t]]
         /\ Save
         /\ Forget(From(turn))
    ELSE Forget(After(turn)) /\ UNCHANGED <<convo, number>>

RewindConversation(turn) ==
    /\ ~running
    /\ cpBound[turn] # None
    /\ Truncate(turn)
    /\ UNCHANGED <<ws, store, running, serial, reused, restructured>>

RewindBoth(turn) ==
    /\ ~running
    /\ cpBound[turn] # None
    /\ RestoreCode(turn, {})
    /\ Truncate(turn)
    /\ UNCHANGED <<store, running, serial, reused, restructured>>

SummaryFrom(at) == IF at < Len(log) THEN Append(SubSeq(log, 1, at), Summary) ELSE log
SummaryUpTo(at) == IF at \in 1..Len(log) THEN Compacted(at) ELSE log

\* summarizeAt: the boundaries in memory are dropped, those on disk are not.
Summarize(turn, messages) ==
    /\ ~running
    /\ cpBound[turn] # None
    /\ log' = messages
    /\ cpBound' = [t \in Turns |-> None]
    /\ Save
    /\ restructured' = TRUE
    /\ UNCHANGED <<ws, store, cpTurn, running, serial, begun, reused>>

\* rebindCheckpoints with the session read from file.
Rebind(file) ==
    /\ log' = file
    /\ done' = disk
    /\ cur' = None
    /\ cpTurn' = NextTurn(disk)
    /\ cpBound' = Bounds(disk)
    /\ running' = FALSE
    /\ UNCHANGED <<ws, disk, serial, history>>

\* The program stops at any point, and the session is resumed.
Crash == Rebind(saved) /\ UNCHANGED saved

\* SwitchBranch away and back: the conversation is saved first.
Reopen ==
    /\ ~running
    /\ saved' = IF log = <<>> THEN saved ELSE log
    /\ Rebind(saved')

-----------------------------------------------------------------------------
Rewind(turn) == \/ RewindCode(turn)
                \/ \E fails \in SUBSET Files : RewindFails(turn, fails)
                \/ RewindConversation(turn)
                \/ RewindBoth(turn)

Next == \/ Begin
        \/ Say
        \/ \E f \in Files : \E v \in Values \cup {ws[f]} : Edit(f, v)
        \/ \E k \in 1..(Len(log) - 1) : AutoCompact(k) \/ CompactNow(k)
        \/ End
        \/ \E turn \in Turns : Rewind(turn)
        \/ \E turn \in Turns : \/ Summarize(turn, SummaryFrom(cpBound[turn]))
                               \/ Summarize(turn, SummaryUpTo(cpBound[turn]))
        \/ Crash
        \/ Reopen

Spec == Init /\ [][Next]_vars

-----------------------------------------------------------------------------
(* Properties *)

TypeOK ==
    /\ ws \in [Files -> Contents]
    /\ log \in Seq(Message) /\ saved \in Seq(Message)
    /\ done \in SUBSET Checkpoint /\ disk \in SUBSET Checkpoint
    /\ cur \in Checkpoint \cup {None}
    /\ cpTurn \in 0..MaxTurns
    /\ cpBound \in [Turns -> Nat \cup {None}]
    /\ running \in BOOLEAN
    /\ serial \in 0..MaxTurns
    /\ begun \in [Turns -> Moment \cup {None}]
    /\ reused \in BOOLEAN /\ restructured \in BOOLEAN

Exact(turn) == \A f \in Files : Restored(f, turn) = {begun[turn].ws[f]}

\* As long as no turn number has been used twice, RestoreCode(turn) gives the
\* workspace of that turn's start, across later turns, crashes, failed and repeated
\* rewinds (RestoreCode, checkpoint.go:277).
RestoreIsExact == \A t \in Turns : begun[t] # None /\ ~reused => Exact(t)

\* The same promise, for good.
RestoreIsAlwaysExact == \A t \in Turns : begun[t] # None => Exact(t)

\* A turn that is still part of the session keeps its number, its checkpoint in
\* memory and its file on disk: no later turn takes them, whatever was rewound or
\* resumed (cpTurn's comment, controller.go:91).
LiveTurnsKeepTheirCheckpoint ==
    \A t \in Turns : begun[t] # None =>
        /\ t < cpTurn
        /\ \E c \in All : c.turn = t /\ c.at = Len(begun[t].log)
        /\ \E c \in disk : c.turn = t /\ c.at = Len(begun[t].log)

BoundaryFits(t) == /\ cpBound[t] <= Len(log)
                   /\ SubSeq(log, 1, cpBound[t]) = begun[t].log

\* While the log was only appended to and truncated, and no turn number was used
\* twice, the boundary of a turn cuts it where the turn began (Rewind,
\* controller.go:1051).  After a reuse, the boundary of an abandoned turn that a
\* resume brings back may cut into the messages of the turns that replaced it.
BoundaryCutsAtStart ==
    \A t \in Turns : begun[t] # None /\ cpBound[t] # None /\ ~restructured /\ ~reused
                        => BoundaryFits(t)
=============================================================================
