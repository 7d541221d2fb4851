-------------------------- MODULE CheckpointsProofs --------------------------
(***************************************************************************)
(* Proofs about checkpoints and rewind, for any files, contents and number *)
(* of turns.                                                               *)
(*                                                                         *)
(* A rewind is exact because of what the store keeps about turn numbers:   *)
(* they fill 0..k-1 for some k, memory and disk agree on them, and a turn  *)
(* that runs has the highest.  A boundary cuts at its turn's start because *)
(* the log and the session file extend the start of every live turn.       *)
(***************************************************************************)
EXTENDS Checkpoints, SequenceTheorems, WellFoundedInduction, TLAPS

\* A checkpoint of turn t is among cps.
Has(cps, t) == \E c \in cps : c.turn = t

\* One file per turn.
DiskUnique == \A c, d \in disk : c.turn = d.turn => c = d

\* The active checkpoint is persisted as it changes.
CurOnDisk == cur # None => cur \in disk

\* Memory and disk have the same turns, and the same checkpoints until a number is
\* used twice.
MemoryIsDisk ==
    /\ \A t \in Turns : Has(All, t) <=> Has(disk, t)
    /\ ~reused => All = disk /\ cur \notin done

StoreInv == DiskUnique /\ CurOnDisk /\ MemoryIsDisk

\* Every number below one that is taken is taken.
Contiguous ==
    \A t \in Turns : t < cpTurn \/ (\E c \in disk : t <= c.turn) => Has(disk, t)

\* Numbers are below the count of turns begun, without a gap; only numbers already
\* given out have a boundary.
NumberInv ==
    /\ cpTurn <= serial
    /\ \A c \in All \cup disk : c.turn < serial
    /\ Contiguous
    /\ \A t \in Turns : cpBound[t] # None => t < cpTurn

\* The turn that runs has the active checkpoint, the latest number and a start in
\* history; without reuse no checkpoint in the store is newer.
RunInv ==
    running => /\ cpTurn >= 1
               /\ cur # None
               /\ cur.turn = cpTurn - 1
               /\ begun[cpTurn - 1] # None
               /\ ~reused => \A c \in All : c.turn < cpTurn

Prefix(s, t) == Len(s) <= Len(t) /\ \A i \in 1..Len(s) : s[i] = t[i]

Live == {t \in Turns : begun[t] # None}

\* The log and the session file extend the start of every live turn, and between turns
\* the file has the whole log.
LogInv ==
    ~restructured /\ ~reused =>
        /\ \A t \in Live : Prefix(begun[t].log, log) /\ Prefix(begun[t].log, saved)
        /\ ~running => Prefix(log, saved)

\* Boundaries in memory are those of the checkpoints.
BoundOnDisk == \A t \in Turns : cpBound[t] # None =>
                    \E d \in disk : d.turn = t /\ d.at = cpBound[t]

\* A later turn began no earlier in the log than a live one.
BoundsGrow ==
    ~restructured /\ ~reused =>
        \A t \in Live : \A d \in disk : d.turn > t => Len(begun[t].log) <= d.at

IInv == /\ TypeOK
        /\ StoreInv
        /\ NumberInv
        /\ RunInv
        /\ LiveTurnsKeepTheirCheckpoint
        /\ RestoreIsExact
        /\ BoundOnDisk
        /\ LogInv
        /\ BoundsGrow

-----------------------------------------------------------------------------
(* Turn numbers *)

USE DEF store, convo, number, history

\* A nonempty set of numbers has a least one.
LEMMA Least == ASSUME NEW S, S \subseteq Nat, S # {}
               PROVE  \E t \in S : \A u \in S : t <= u
<1> DEFINE R == {ss \in Nat \X Nat : ss[1] < ss[2]}
<1>1. IsWellFoundedOn(R, Nat)
  BY NatLessThanWellFounded, Zenon DEF OpToRel
<1>2. PICK t \in S : \A u \in S : ~(<<u, t>> \in R)
  <2> HIDE DEF R
  <2> QED BY <1>1, WFMin
<1>3. ASSUME NEW u \in S, u < t PROVE FALSE
  <2>1. u \in Nat /\ t \in Nat
    OBVIOUS
  <2>2. <<u, t>> \in R
    BY <2>1, <1>3
  <2> QED BY <2>2, <1>2
<1> QED BY <1>3

\* NextTurn is the lowest number above every turn, whatever the bound on them.
LEMMA NextTurnIsLeast ==
    ASSUME NEW cps, NEW n \in 0..MaxTurns, \A c \in cps : c.turn < n
    PROVE  /\ NextTurn(cps) \in Above(cps)
           /\ \A u \in Above(cps) : NextTurn(cps) <= u
<1>1. n \in Above(cps)
  BY DEF Above
<1>2. Above(cps) \subseteq Nat
  BY CheckpointsAssumption DEF Above
<1>3. \E t \in Above(cps) : \A u \in Above(cps) : t <= u
  BY <1>1, <1>2, Least
<1> QED BY <1>3 DEF NextTurn

-----------------------------------------------------------------------------
(* Five kinds of steps *)

\* What every rewind has in common: files get back what RestoreCode found, or keep
\* what they have, and the log is left alone or cut at the turn's boundary.
Rewound(turn) ==
    /\ ~running
    /\ UNCHANGED <<store, running, serial, reused, restructured>>
    /\ ws' \in [Files -> Contents]
    /\ \A f \in Files : ws'[f] = ws[f] \/ ws'[f] \in Restored(f, turn)
    /\ \/ Forget(After(turn)) /\ UNCHANGED <<convo, number>>
       \/ /\ cpBound[turn] # None
          /\ cpBound[turn] <= Len(log)
          /\ log' = CutAt(cpBound[turn])
          /\ cpTurn' = turn
          /\ cpBound' = [t \in Turns |-> IF t >= turn THEN None ELSE cpBound[t]]
          /\ Save
          /\ Forget(From(turn))

\* The steps that leave the store, the workspace and the numbering alone.
Elsewhere ==
    /\ UNCHANGED <<ws, store, cpTurn, serial, begun, reused>>
    /\ running' => running
    /\ running' \in BOOLEAN
    /\ restructured' \in BOOLEAN
    /\ restructured => restructured'
    /\ cpBound' = cpBound \/ cpBound' = [t \in Turns |-> None]

Edited  == \E f \in Files : \E v \in Values \cup {ws[f]} : Edit(f, v)
Resumed == \E file : Rebind(file)

\* A file is restored from a checkpoint or left as it is (RestoreCode).
LEMMA RestoreCodeFacts ==
    ASSUME NEW turn \in Turns, NEW fails \in SUBSET Files, RestoreCode(turn, fails)
    PROVE  /\ ws' \in [Files -> Contents]
           /\ \A f \in Files : ws'[f] = ws[f] \/ ws'[f] \in Restored(f, turn)
BY DEF RestoreCode

\* Every form of Rewind is what Rewound describes.
LEMMA RewindFacts == ASSUME TypeOK, NEW turn \in Turns, Rewind(turn)
                     PROVE  Rewound(turn)
<1>1. CASE RewindCode(turn)
  BY <1>1, RestoreCodeFacts DEF RewindCode, Rewound
<1>2. ASSUME NEW fails \in SUBSET Files, RewindFails(turn, fails) PROVE Rewound(turn)
  BY <1>2, RestoreCodeFacts DEF RewindFails, Rewound
<1>3. CASE RewindConversation(turn)
  BY <1>3 DEF RewindConversation, Rewound, Truncate, TypeOK
<1>4. CASE RewindBoth(turn)
  BY <1>4, RestoreCodeFacts DEF RewindBoth, Rewound, Truncate
<1> QED BY <1>1, <1>2, <1>3, <1>4 DEF Rewind

\* Every step is of one of the five kinds.
LEMMA FiveKinds ==
    ASSUME TypeOK, [Next]_vars
    PROVE  Begin \/ Edited \/ (\E turn \in Turns : Rewound(turn)) \/ Resumed \/ Elsewhere
<1>1. CASE UNCHANGED vars
  BY <1>1 DEF vars, Elsewhere, TypeOK
<1>2. CASE Say
  BY <1>2 DEF Say, Elsewhere, TypeOK
<1>3. ASSUME NEW k, AutoCompact(k) \/ CompactNow(k) PROVE Elsewhere
  <2>1. UNCHANGED <<ws, store, number, running, serial, begun, reused>> /\ restructured' = TRUE
    BY <1>3 DEF AutoCompact, CompactNow
  <2> QED BY <2>1 DEF Elsewhere, TypeOK
<1>4. CASE End
  BY <1>4 DEF End, Elsewhere, TypeOK
<1>5. ASSUME NEW turn \in Turns, NEW messages, Summarize(turn, messages) PROVE Elsewhere
  BY <1>5 DEF Summarize, Elsewhere, TypeOK
<1>6. CASE Crash \/ Reopen
  BY <1>6 DEF Crash, Reopen, Resumed
<1>7. ASSUME NEW turn \in Turns, Rewind(turn) PROVE Rewound(turn)
  BY <1>7, RewindFacts
<1>8. CASE Next
  <2>1. CASE \E k \in 1..(Len(log) - 1) : AutoCompact(k) \/ CompactNow(k)
    BY <2>1, <1>3, Zenon
  <2>2. CASE \E turn \in Turns : \/ Summarize(turn, SummaryFrom(cpBound[turn]))
                                 \/ Summarize(turn, SummaryUpTo(cpBound[turn]))
    BY <2>2, <1>5, Zenon
  <2>3. CASE \E turn \in Turns : Rewind(turn)
    BY <2>3, <1>7, Zenon
  <2>4. CASE Edited
    BY <2>4
  <2> QED BY <1>8, <1>2, <1>4, <1>6, <2>1, <2>2, <2>3, <2>4, Zenon DEF Next, Edited
<1> QED BY <1>1, <1>8, Zenon

-----------------------------------------------------------------------------
(* Types *)

\* The new turn's number is one of the turns.
LEMMA BeginTurn == ASSUME TypeOK, NumberInv, Begin PROVE cpTurn \in Turns
BY CheckpointsAssumption DEF TypeOK, NumberInv, Begin, Turns

\* The checkpoint a turn opens.
Opened == [turn |-> cpTurn, at |-> Len(log), files |-> Untouched]

\* The opened checkpoint is one.
LEMMA OpenedType == ASSUME TypeOK, cpTurn \in Turns PROVE Opened \in Checkpoint
<1>1. Untouched \in [Files -> Contents \cup {None}]
  BY DEF Untouched
<1>2. Len(log) \in Nat
  BY DEF TypeOK
<1> QED BY <1>1, <1>2 DEF Opened, Checkpoint

\* Snapshot keeps the checkpoint's number and boundary.
LEMMA SnapshotFacts ==
    ASSUME TypeOK, cur # None, NEW f \in Files, Snapshot(f)
    PROVE  /\ cur \in Checkpoint
           /\ cur' \in Checkpoint
           /\ done' = done
           /\ cur'.turn = cur.turn
           /\ cur'.at = cur.at
           /\ \/ cur.files[f] # None /\ UNCHANGED store
              \/ /\ cur.files[f] = None
                 /\ cur'.files = [cur.files EXCEPT ![f] = ws[f]]
                 /\ disk' = {d \in disk : d.turn # cur.turn} \cup {cur'}
<1>1. cur \in Checkpoint
  BY DEF TypeOK
<1>2. CASE cur.files[f] # None
  BY <1>1, <1>2 DEF Snapshot, FirstTouch
<1>3. CASE cur.files[f] = None
  <2> DEFINE c == [cur EXCEPT !.files[f] = ws[f]]
  <2>1. c \in Checkpoint /\ c.turn = cur.turn /\ c.at = cur.at
        /\ c.files = [cur.files EXCEPT ![f] = ws[f]]
    BY <1>1 DEF Checkpoint, TypeOK
  <2>2. cur' = c /\ disk' = {d \in disk : d.turn # c.turn} \cup {c} /\ done' = done
    BY <1>3 DEF Snapshot, FirstTouch, Persist
  <2> QED BY <1>1, <1>3, <2>1, <2>2
<1> QED BY <1>2, <1>3

\* The run of a turn has an active checkpoint.
LEMMA EditFacts ==
    ASSUME TypeOK, RunInv, NEW f \in Files, NEW v \in Values \cup {ws[f]}, Edit(f, v)
    PROVE  /\ cur # None
           /\ Snapshot(f)
           /\ v \in Contents
           /\ ws' = [ws EXCEPT ![f] = v]
BY DEF TypeOK, RunInv, Edit, Contents

CoreTypes ==
    /\ ws \in [Files -> Contents]
    /\ done \in SUBSET Checkpoint /\ disk \in SUBSET Checkpoint
    /\ cur \in Checkpoint \cup {None}
    /\ cpTurn \in 0..MaxTurns
    /\ cpBound \in [Turns -> Nat \cup {None}]
    /\ running \in BOOLEAN
    /\ serial \in 0..MaxTurns
    /\ begun \in [Turns -> Moment \cup {None}]
    /\ reused \in BOOLEAN /\ restructured \in BOOLEAN

\* The numbering after a resume is that of the checkpoints on disk.
LEMMA RebindFacts ==
    ASSUME TypeOK, NumberInv, NEW file, Rebind(file)
    PROVE  /\ cpTurn' \in 0..MaxTurns
           /\ cpTurn' <= serial
           /\ \A c \in disk : c.turn < cpTurn'
           /\ \A t \in Turns : t < cpTurn' => \E c \in disk : t <= c.turn
           /\ \A t \in Turns : cpBound'[t] # None =>
                   \E c \in disk : c.turn = t /\ c.at = cpBound'[t]
           /\ cpBound' \in [Turns -> Nat \cup {None}]
<1>1. serial \in 0..MaxTurns /\ \A c \in disk : c.turn < serial
  BY DEF TypeOK, NumberInv
<1>2. cpTurn' \in Above(disk) /\ \A u \in Above(disk) : cpTurn' <= u
  BY <1>1, NextTurnIsLeast DEF Rebind
<1>3. cpTurn' \in 0..MaxTurns /\ \A c \in disk : c.turn < cpTurn'
  BY <1>2 DEF Above
<1>4. serial \in Above(disk)
  BY <1>1 DEF Above
<1>5. ASSUME NEW t \in Turns, t < cpTurn' PROVE \E c \in disk : t <= c.turn
  <2>1. t \in 0..MaxTurns /\ t \notin Above(disk)
    BY <1>2, <1>3, <1>5, CheckpointsAssumption DEF Turns
  <2>2. PICK c \in disk : ~(c.turn < t)
    BY <2>1 DEF Above
  <2>3. c.turn \in Int /\ t \in Int
    BY CheckpointsAssumption DEF TypeOK, Checkpoint, Turns
  <2> QED BY <2>2, <2>3
<1>6. ASSUME NEW t \in Turns
      PROVE  /\ cpBound'[t] \in Nat \cup {None}
             /\ cpBound'[t] # None => \E c \in disk : c.turn = t /\ c.at = cpBound'[t]
  <2>1. cpBound'[t] = IF \E c \in disk : c.turn = t
                      THEN (CHOOSE c \in disk : c.turn = t).at ELSE None
    BY DEF Rebind, Bounds
  <2>2. CASE \E c \in disk : c.turn = t
    <3>1. PICK d : d = (CHOOSE c \in disk : c.turn = t) /\ d \in disk /\ d.turn = t
      BY <2>2
    <3>2. d.at \in Nat
      BY <3>1 DEF TypeOK, Checkpoint
    <3> QED BY <2>1, <2>2, <3>1, <3>2
  <2> QED BY <2>1, <2>2
<1>7. DOMAIN cpBound' = Turns /\ cpBound' = [t \in Turns |-> cpBound'[t]]
  BY DEF Rebind, Bounds
<1> QED BY <1>2, <1>3, <1>4, <1>5, <1>6, <1>7

\* The start of a turn, as history keeps it.
LEMMA NewMoment == ASSUME TypeOK PROVE [ws |-> ws, log |-> log] \in Moment
BY DEF TypeOK, Moment

\* Forgetting turns keeps the type of history.
LEMMA ForgetType == ASSUME TypeOK, NEW turns, Forget(turns)
                    PROVE  begun' \in [Turns -> Moment \cup {None}]
BY DEF TypeOK, Forget

\* beginCheckpoint keeps the types.
LEMMA BeginTypes == ASSUME TypeOK, NumberInv, Begin PROVE CoreTypes'
<1>1. cpTurn \in Turns /\ Opened \in Checkpoint
  BY BeginTurn, OpenedType
<1>2. cur' = Opened /\ done' = All /\ disk' = {d \in disk : d.turn # cpTurn} \cup {Opened}
  BY DEF Begin, StoreBegin, Persist, Opened
<1>3. cur' \in Checkpoint \cup {None} /\ done' \in SUBSET Checkpoint /\ disk' \in SUBSET Checkpoint
  BY <1>1, <1>2 DEF All, TypeOK
<1>4. cpTurn' \in 0..MaxTurns /\ serial' \in 0..MaxTurns
  BY <1>1, CheckpointsAssumption DEF Begin, Turns, TypeOK
<1>5. cpBound' \in [Turns -> Nat \cup {None}]
  <2>1. Len(log) \in Nat /\ cpBound \in [Turns -> Nat \cup {None}]
    BY DEF TypeOK
  <2> QED BY <2>1 DEF Begin
<1>6. begun' \in [Turns -> Moment \cup {None}]
  BY NewMoment DEF Begin, TypeOK
<1>7. ws' \in [Files -> Contents] /\ running' \in BOOLEAN
      /\ reused' \in BOOLEAN /\ restructured' \in BOOLEAN
  BY DEF Begin, TypeOK
<1> QED BY <1>3, <1>4, <1>5, <1>6, <1>7 DEF CoreTypes

\* An edit with its pre-edit hook keeps the types.
LEMMA EditTypes == ASSUME TypeOK, RunInv, Edited PROVE CoreTypes'
<1> PICK f \in Files : \E v \in Values \cup {ws[f]} : Edit(f, v)
  BY DEF Edited
<1> PICK v \in Values \cup {ws[f]} : Edit(f, v)
  OBVIOUS
<1>1. cur # None /\ Snapshot(f) /\ v \in Contents /\ ws' = [ws EXCEPT ![f] = v]
  BY EditFacts
<1>2. cur' \in Checkpoint /\ done' = done
      /\ (disk' = disk \/ disk' = {d \in disk : d.turn # cur.turn} \cup {cur'})
  BY <1>1, SnapshotFacts
<1>3. ws' \in [Files -> Contents]
  BY <1>1 DEF TypeOK
<1>4. disk' \in SUBSET Checkpoint /\ done' \in SUBSET Checkpoint
  BY <1>2 DEF TypeOK
<1>5. UNCHANGED <<cpTurn, cpBound, running, serial, begun, reused, restructured>>
  BY DEF Edit
<1> QED BY <1>2, <1>3, <1>4, <1>5 DEF CoreTypes, TypeOK

\* A rewind keeps the types.
LEMMA RewindTypes == ASSUME TypeOK, NEW turn \in Turns, Rewound(turn) PROVE CoreTypes'
<1>1. begun' \in [Turns -> Moment \cup {None}]
  BY ForgetType DEF Rewound
<1>2. cpTurn' \in 0..MaxTurns /\ cpBound' \in [Turns -> Nat \cup {None}]
  BY CheckpointsAssumption DEF Rewound, TypeOK, Turns
<1> QED BY <1>1, <1>2 DEF Rewound, CoreTypes, TypeOK

\* rebindCheckpoints keeps the types.
LEMMA ResumeTypes == ASSUME TypeOK, NumberInv, Resumed PROVE CoreTypes'
<1> PICK file : Rebind(file)
  BY DEF Resumed
<1>1. cpTurn' \in 0..MaxTurns /\ cpBound' \in [Turns -> Nat \cup {None}]
  BY RebindFacts
<1> QED BY <1>1 DEF Rebind, CoreTypes, TypeOK

\* So do the steps that only touch the log.
LEMMA ElsewhereTypes == ASSUME TypeOK, Elsewhere PROVE CoreTypes'
<1>1. cpBound' \in [Turns -> Nat \cup {None}]
  BY DEF Elsewhere, TypeOK
<1> QED BY <1>1 DEF Elsewhere, CoreTypes, TypeOK

\* Compacting, cutting and appending keep the log a sequence of messages.
LEMMA LogTypes == ASSUME TypeOK, NumberInv, RunInv, [Next]_vars
                  PROVE  log' \in Seq(Message) /\ saved' \in Seq(Message)
<1> USE DEF TypeOK
<1>s. Summary \in Message /\ <<Summary>> \in Seq(Message)
  BY DEF Message
<1>c. ASSUME NEW k \in 1..Len(log) PROVE Compacted(k) \in Seq(Message)
  <2>1. SubSeq(log, k + 1, Len(log)) \in Seq(Message)
    OBVIOUS
  <2> QED BY <2>1, <1>s DEF Compacted
<1>f. ASSUME NEW at \in Nat PROVE SummaryFrom(at) \in Seq(Message) /\ SummaryUpTo(at) \in Seq(Message)
  <2>1. CASE at < Len(log)
    <3>1. SubSeq(log, 1, at) \in Seq(Message)
      BY <2>1
    <3> QED BY <2>1, <3>1, <1>s, <1>c DEF SummaryFrom, SummaryUpTo
  <2>2. CASE ~(at < Len(log))
    BY <2>2, <1>c DEF SummaryFrom, SummaryUpTo
  <2> QED BY <2>1, <2>2
<1>1. CASE Begin \/ Edited
  BY <1>1 DEF Begin, Edited, Edit
<1>2. CASE Say
  <2>1. serial \in Message
    BY <1>2, CheckpointsAssumption DEF Say, NumberInv, RunInv, Message
  <2> QED BY <1>2, <2>1 DEF Say
<1>3. ASSUME NEW k \in 1..(Len(log) - 1), AutoCompact(k) \/ CompactNow(k)
      PROVE  log' \in Seq(Message) /\ saved' \in Seq(Message)
  <2>1. Compacted(k) \in Seq(Message)
    BY <1>c
  <2>2. log' = Compacted(k) /\ saved' \in {saved, log'}
    BY <1>3 DEF AutoCompact, CompactNow, Save
  <2> QED BY <2>1, <2>2
<1>4. CASE End
  BY <1>4 DEF End
<1>5. ASSUME NEW turn \in Turns, Rewound(turn)
      PROVE  log' \in Seq(Message) /\ saved' \in Seq(Message)
  <2>1. CASE UNCHANGED convo
    BY <2>1
  <2>2. CASE cpBound[turn] # None /\ cpBound[turn] <= Len(log)
             /\ log' = CutAt(cpBound[turn]) /\ Save
    <3>1. CutAt(cpBound[turn]) \in Seq(Message)
      BY <2>2 DEF CutAt
    <3> QED BY <2>2, <3>1 DEF Save
  <2> QED BY <1>5, <2>1, <2>2 DEF Rewound
<1>6. ASSUME NEW turn \in Turns, NEW messages,
             messages \in {SummaryFrom(cpBound[turn]), SummaryUpTo(cpBound[turn])},
             Summarize(turn, messages)
      PROVE  log' \in Seq(Message) /\ saved' \in Seq(Message)
  <2>1. cpBound[turn] \in Nat /\ log' = messages /\ Save
    BY <1>6 DEF Summarize
  <2>2. messages \in Seq(Message)
    BY <2>1, <1>6, <1>f
  <2> QED BY <2>1, <2>2 DEF Save
<1>7. CASE Crash \/ Reopen
  BY <1>7 DEF Crash, Reopen, Rebind
<1>8. CASE UNCHANGED vars
  BY <1>8 DEF vars
<1>9. CASE Next
  <2>1. CASE \E k \in 1..(Len(log) - 1) : AutoCompact(k) \/ CompactNow(k)
    BY <2>1, <1>3, Zenon
  <2>2. CASE \E turn \in Turns : \/ Summarize(turn, SummaryFrom(cpBound[turn]))
                                 \/ Summarize(turn, SummaryUpTo(cpBound[turn]))
    BY <2>2, <1>6, Zenon
  <2>3. CASE \E turn \in Turns : Rewind(turn)
    BY <2>3, <1>5, RewindFacts, Zenon
  <2>4. CASE \E f \in Files : \E v \in Values \cup {ws[f]} : Edit(f, v)
    BY <2>4, <1>1 DEF Edited
  <2> HIDE DEF TypeOK
  <2> QED BY <1>9, <1>1, <1>2, <1>4, <1>7, <2>1, <2>2, <2>3, <2>4, Zenon DEF Next
<1> QED BY <1>8, <1>9, Zenon

\* Every step keeps the types.
LEMMA TypeStep == ASSUME TypeOK, NumberInv, RunInv, [Next]_vars PROVE TypeOK'
<1>1. CoreTypes'
  BY FiveKinds, BeginTypes, EditTypes, RewindTypes, ResumeTypes, ElsewhereTypes
<1>2. log' \in Seq(Message) /\ saved' \in Seq(Message)
  BY LogTypes
<1> QED BY <1>1, <1>2 DEF TypeOK, CoreTypes

-----------------------------------------------------------------------------
(* The store and the numbering *)

\* What a new turn does to the store.
LEMMA BeginFacts ==
    ASSUME TypeOK, NumberInv, Begin
    PROVE  /\ cpTurn \in Turns
           /\ Opened \in Checkpoint /\ Opened # None
           /\ Opened.turn = cpTurn /\ Opened.at = Len(log)
           /\ Opened.files = Untouched
           /\ cur' = Opened
           /\ done' = All
           /\ All' = All \cup {Opened}
           /\ disk' = {d \in disk : d.turn # cpTurn} \cup {Opened}
<1>1. cpTurn \in Turns /\ Opened \in Checkpoint
  BY BeginTurn, OpenedType
<1>2. Opened # None
  BY <1>1, CheckpointsAssumption
<1>3. cur' = Opened /\ done' = All /\ disk' = {d \in disk : d.turn # cpTurn} \cup {Opened}
  BY DEF Begin, StoreBegin, Persist, Opened
<1>4. All' = All \cup {Opened}
  BY <1>2, <1>3 DEF All
<1> QED BY <1>1, <1>2, <1>3, <1>4 DEF Opened

\* beginCheckpoint writes the same checkpoint to memory and disk.
LEMMA StoreBegins == ASSUME TypeOK, StoreInv, NumberInv, Begin PROVE StoreInv'
<1> USE BeginFacts
<1>1. DiskUnique'
  BY DEF StoreInv, DiskUnique
<1>2. CurOnDisk'
  BY DEF CurOnDisk
<1>3. \A t \in Turns : Has(All, t)' <=> Has(disk, t)'
  BY DEF StoreInv, MemoryIsDisk, Has
<1>4. ASSUME ~reused' PROVE All' = disk' /\ cur' \notin done'
  <2>1. ~reused /\ \A c \in All : c.turn # cpTurn
    BY <1>4 DEF Begin
  <2>2. All = disk
    BY <2>1 DEF StoreInv, MemoryIsDisk
  <2> QED BY <2>1, <2>2
<1> QED BY <1>1, <1>2, <1>3, <1>4 DEF StoreInv, MemoryIsDisk

\* What an edit does to the store: the active checkpoint is replaced, if at all.
LEMMA EditStore ==
    ASSUME TypeOK, RunInv, NEW f \in Files, NEW v \in Values \cup {ws[f]}, Edit(f, v)
    PROVE  \/ cur.files[f] # None /\ UNCHANGED store
           \/ /\ cur.files[f] = None
              /\ cur \in Checkpoint /\ cur # None
              /\ cur' \in Checkpoint /\ cur' # None
              /\ cur'.turn = cur.turn /\ cur'.at = cur.at
              /\ cur'.files = [cur.files EXCEPT ![f] = ws[f]]
              /\ done' = done
              /\ All = done \cup {cur}
              /\ All' = done \cup {cur'}
              /\ disk' = {d \in disk : d.turn # cur.turn} \cup {cur'}
BY EditFacts, SnapshotFacts, CheckpointsAssumption DEF All

\* So does Snapshot.
LEMMA StoreEdits == ASSUME TypeOK, StoreInv, RunInv, Edited PROVE StoreInv'
<1> PICK f \in Files : \E v \in Values \cup {ws[f]} : Edit(f, v)
  BY DEF Edited
<1> PICK v \in Values \cup {ws[f]} : Edit(f, v)
  OBVIOUS
<1>1. reused' = reused
  BY DEF Edit
<1>2. CASE UNCHANGED store
  BY <1>1, <1>2 DEF StoreInv, DiskUnique, CurOnDisk, MemoryIsDisk, Has, All
<1>3. CASE ~UNCHANGED store
  <2> USE EditStore, <1>3
  <2>1. DiskUnique'
    <3>1. disk' = {d \in disk : d.turn # cur.turn} \cup {cur'} /\ cur'.turn = cur.turn
      OBVIOUS
    <3>2. \A c, d \in disk : c.turn = d.turn => c = d
      BY DEF StoreInv, DiskUnique
    <3> QED BY ONLY <3>1, <3>2 DEF DiskUnique
  <2>2. CurOnDisk'
    BY DEF CurOnDisk
  <2>3. \A t \in Turns : Has(All, t)' <=> Has(disk, t)'
    BY DEF StoreInv, MemoryIsDisk, CurOnDisk, Has
  <2>4. ASSUME ~reused PROVE All' = disk' /\ cur' \notin done'
    <3>1. All = disk /\ cur \notin done
      BY <2>4 DEF StoreInv, MemoryIsDisk
    <3>2. \A d \in done : d.turn # cur.turn
      BY <3>1 DEF StoreInv, DiskUnique
    <3> QED BY <3>1, <3>2
  <2> QED BY <1>1, <2>1, <2>2, <2>3, <2>4 DEF StoreInv, MemoryIsDisk
<1> QED BY <1>2, <1>3

\* Every step keeps memory and disk in agreement.
LEMMA StoreStep ==
    ASSUME TypeOK, StoreInv, NumberInv, RunInv, [Next]_vars PROVE StoreInv'
<1>1. ASSUME NEW turn \in Turns, Rewound(turn) PROVE StoreInv'
  BY <1>1 DEF Rewound, StoreInv, DiskUnique, CurOnDisk, MemoryIsDisk, Has, All
<1>2. CASE Resumed
  <2>1. done' = disk /\ cur' = None /\ disk' = disk
    BY <1>2 DEF Resumed, Rebind
  <2>2. All' = disk /\ cur' \notin done'
    BY <2>1, CheckpointsAssumption DEF All, TypeOK
  <2> QED BY <2>1, <2>2 DEF StoreInv, DiskUnique, CurOnDisk, MemoryIsDisk, Has
<1>3. CASE Elsewhere
  BY <1>3 DEF Elsewhere, StoreInv, DiskUnique, CurOnDisk, MemoryIsDisk, Has, All
<1> QED BY FiveKinds, StoreBegins, StoreEdits, <1>1, <1>2, <1>3

\* The turns in memory and on disk, before and after an edit, are the same.
LEMMA EditTurns ==
    ASSUME TypeOK, StoreInv, RunInv, Edited
    PROVE  /\ \A c \in All' \cup disk' : \E d \in All \cup disk : d.turn = c.turn
           /\ \A c \in disk' : \E d \in disk : d.turn = c.turn
           /\ \A c \in disk : \E d \in disk' : d.turn = c.turn
           /\ \A c \in All' : \E d \in All : d.turn = c.turn
           /\ cur # None /\ cur' # None /\ cur'.turn = cur.turn
<1> PICK f \in Files : \E v \in Values \cup {ws[f]} : Edit(f, v)
  BY DEF Edited
<1> PICK v \in Values \cup {ws[f]} : Edit(f, v)
  OBVIOUS
<1>1. cur # None
  BY EditFacts
<1>2. CASE UNCHANGED store
  BY <1>1, <1>2 DEF All
<1>3. CASE ~UNCHANGED store
  BY <1>1, <1>3, EditStore DEF StoreInv, CurOnDisk
<1> QED BY <1>2, <1>3

\* Turn numbers are integers.
LEMMA TurnInt == ASSUME TypeOK
                 PROVE  /\ Turns \subseteq Int /\ cpTurn \in Int /\ serial \in Int
                        /\ \A c \in All \cup disk : c.turn \in Turns
BY CheckpointsAssumption DEF TypeOK, Turns, Checkpoint, All

\* Every step leaves the taken numbers without a gap.
LEMMA NumberStep ==
    ASSUME TypeOK, StoreInv, NumberInv, RunInv, [Next]_vars PROVE NumberInv'
<1> USE TurnInt
<1>1. CASE Begin
  <2>1. cpTurn' = cpTurn + 1 /\ serial' = serial + 1
        /\ cpBound' = [cpBound EXCEPT ![cpTurn] = Len(log)]
    BY <1>1 DEF Begin
  <2>2. cpTurn' <= serial'
    BY <2>1 DEF NumberInv
  <2>3. \A c \in All' \cup disk' : c.turn < serial'
    BY <1>1, <2>1, BeginFacts DEF NumberInv
  <2>4. Contiguous'
    <3>1. ASSUME NEW t \in Turns, t < cpTurn' \/ \E c \in disk' : t <= c.turn
          PROVE  \E d \in disk' : d.turn = t
      <4>1. CASE t = cpTurn
        BY <1>1, <4>1, BeginFacts
      <4>2. CASE t # cpTurn
        <5>1. t < cpTurn \/ \E c \in disk : t <= c.turn
          BY <1>1, <2>1, <3>1, <4>2, BeginFacts
        <5>2. PICK d \in disk : d.turn = t
          BY <5>1 DEF NumberInv, Contiguous, Has
        <5> QED BY <1>1, <4>2, <5>2, BeginFacts
      <4> QED BY <4>1, <4>2
    <3> QED BY <3>1 DEF Contiguous, Has
  <2>5. \A t \in Turns : cpBound'[t] # None => t < cpTurn'
    BY <2>1 DEF NumberInv, TypeOK
  <2> QED BY <2>2, <2>3, <2>4, <2>5 DEF NumberInv
<1>2. CASE Edited
  <2>1. UNCHANGED <<cpTurn, cpBound, serial>>
    BY <1>2 DEF Edited, Edit
  <2>2. \A c \in All' \cup disk' : c.turn < serial'
    BY <1>2, <2>1, EditTurns DEF NumberInv
  <2>3. Contiguous'
    BY <1>2, <2>1, EditTurns DEF NumberInv, Contiguous, Has
  <2> QED BY <2>1, <2>2, <2>3 DEF NumberInv
<1>3. ASSUME NEW turn \in Turns, Rewound(turn) PROVE NumberInv'
  <2>1. UNCHANGED <<All, disk, serial>>
    BY <1>3 DEF Rewound, All
  <2>2. CASE UNCHANGED number
    BY <2>1, <2>2 DEF NumberInv, Contiguous, Has
  <2>3. CASE cpBound[turn] # None /\ cpTurn' = turn
             /\ cpBound' = [t \in Turns |-> IF t >= turn THEN None ELSE cpBound[t]]
    <3>1. cpTurn' < cpTurn
      BY <2>3 DEF NumberInv
    <3>2. Contiguous'
      BY <2>1, <3>1, <2>3 DEF NumberInv, Contiguous, Has
    <3> QED BY <2>1, <2>3, <3>1, <3>2 DEF NumberInv
  <2> QED BY <1>3, <2>2, <2>3 DEF Rewound
<1>4. CASE Resumed
  <2> PICK file : Rebind(file)
    BY <1>4 DEF Resumed
  <2>1. All' = disk /\ disk' = disk /\ serial' = serial
    BY DEF Rebind, All
  <2>2. Contiguous'
    BY <2>1, RebindFacts DEF NumberInv, Contiguous, Has
  <2> QED BY <2>1, <2>2, RebindFacts DEF NumberInv
<1>5. CASE Elsewhere
  <2>1. UNCHANGED <<cpTurn, serial, All, disk>>
    BY <1>5 DEF Elsewhere, All
  <2>2. \A t \in Turns : cpBound'[t] # None => cpBound[t] # None
    BY <1>5 DEF Elsewhere
  <2> QED BY <2>1, <2>2 DEF NumberInv, Contiguous, Has
<1> QED BY FiveKinds, <1>1, <1>2, <1>3, <1>4, <1>5

\* A turn that runs is the newest: nothing that an unused number could hide.
LEMMA RunStep ==
    ASSUME TypeOK, StoreInv, NumberInv, RunInv, [Next]_vars PROVE RunInv'
<1> USE TurnInt
<1>1. CASE Begin
  <2>1. cpTurn' = cpTurn + 1 /\ cpTurn' - 1 = cpTurn /\ cpTurn >= 0
    BY <1>1 DEF Begin, TypeOK
  <2>2. begun'[cpTurn' - 1] # None
    <3>1. begun'[cpTurn] = [ws |-> ws, log |-> log]
      BY <1>1, BeginFacts DEF Begin, TypeOK
    <3> QED BY <2>1, <3>1, NewMoment, CheckpointsAssumption
  <2>3. ASSUME ~reused', NEW c \in All' PROVE c.turn < cpTurn'
    <3>1. \A d \in All : d.turn # cpTurn
      BY <1>1, <2>3 DEF Begin
    <3>2. ASSUME c \in All, c.turn > cpTurn PROVE FALSE
      <4>1. PICK d \in disk : d.turn = c.turn
        BY <3>2 DEF StoreInv, MemoryIsDisk, Has
      <4>2. Has(disk, cpTurn)
        BY <4>1, <3>2, <1>1, BeginFacts DEF NumberInv, Contiguous
      <4> QED BY <4>2, <3>1, <1>1, BeginFacts DEF StoreInv, MemoryIsDisk, Has
    <3> QED BY <1>1, <2>1, <3>1, <3>2, BeginFacts
  <2> QED BY <1>1, <2>1, <2>2, <2>3, BeginFacts DEF RunInv
<1>2. CASE Edited
  <2>1. UNCHANGED <<cpTurn, running, begun, reused>>
    BY <1>2 DEF Edited, Edit
  <2> QED BY <1>2, <2>1, EditTurns DEF RunInv
<1>3. ASSUME NEW turn \in Turns, Rewound(turn) PROVE RunInv'
  BY <1>3 DEF Rewound, RunInv
<1>4. CASE Resumed
  BY <1>4 DEF Resumed, Rebind, RunInv
<1>5. CASE Elsewhere
  BY <1>5 DEF Elsewhere, RunInv, All
<1> QED BY FiveKinds, <1>1, <1>2, <1>3, <1>4, <1>5

-----------------------------------------------------------------------------
(* Live turns keep their checkpoint *)

\* An edit changes neither number nor boundary of any checkpoint.
LEMMA EditKeeps ==
    ASSUME TypeOK, StoreInv, RunInv, Edited
    PROVE  /\ \A c \in disk : \E d \in disk' : d.turn = c.turn /\ d.at = c.at
           /\ \A c \in disk' : \E d \in disk : d.turn = c.turn /\ d.at = c.at
           /\ \A c \in All : \E d \in All' : d.turn = c.turn /\ d.at = c.at
<1> PICK f \in Files : \E v \in Values \cup {ws[f]} : Edit(f, v)
  BY DEF Edited
<1> PICK v \in Values \cup {ws[f]} : Edit(f, v)
  OBVIOUS
<1>1. CASE UNCHANGED store
  BY <1>1 DEF All
<1>2. CASE ~UNCHANGED store
  <2>1. cur \in disk /\ \A c \in disk : c.turn = cur.turn => c = cur
    BY EditFacts DEF StoreInv, CurOnDisk, DiskUnique
  <2> QED BY <1>2, <2>1, EditStore
<1> QED BY <1>1, <1>2

\* No step takes the number or the checkpoint of a turn that is live.
LEMMA LiveStep ==
    ASSUME TypeOK, StoreInv, NumberInv, RunInv, LiveTurnsKeepTheirCheckpoint, [Next]_vars
    PROVE  LiveTurnsKeepTheirCheckpoint'
<1> USE TurnInt
<1>1. CASE Begin
  <2>1. begun' = [begun EXCEPT ![cpTurn] = [ws |-> ws, log |-> log]] /\ cpTurn' = cpTurn + 1
    BY <1>1 DEF Begin
  <2>2. ASSUME NEW t \in Turns, begun'[t] # None
        PROVE  /\ t < cpTurn'
               /\ \E c \in All' : c.turn = t /\ c.at = Len(begun'[t].log)
               /\ \E c \in disk' : c.turn = t /\ c.at = Len(begun'[t].log)
    <3>1. CASE t = cpTurn
      <4>1. begun'[t].log = log
        BY <2>1, <3>1 DEF TypeOK
      <4> QED BY <1>1, <2>1, <3>1, <4>1, BeginFacts
    <3>2. CASE t # cpTurn
      <4>1. begun'[t] = begun[t]
        BY <2>1, <3>2 DEF TypeOK
      <4> QED BY <1>1, <2>1, <2>2, <3>2, <4>1, BeginFacts DEF LiveTurnsKeepTheirCheckpoint
    <3> QED BY <3>1, <3>2
  <2> QED BY <2>2 DEF LiveTurnsKeepTheirCheckpoint
<1>2. CASE Edited
  <2>1. UNCHANGED <<begun, cpTurn>>
    BY <1>2 DEF Edited, Edit
  <2> QED BY <1>2, <2>1, EditKeeps DEF LiveTurnsKeepTheirCheckpoint
<1>3. ASSUME NEW turn \in Turns, Rewound(turn) PROVE LiveTurnsKeepTheirCheckpoint'
  <2>1. UNCHANGED <<All, disk>>
    BY <1>3 DEF Rewound, All
  <2>2. ASSUME NEW t \in Turns, begun'[t] # None PROVE begun'[t] = begun[t] /\ t < cpTurn'
    BY <1>3, <2>2 DEF Rewound, Forget, From, After, LiveTurnsKeepTheirCheckpoint
  <2> QED BY <2>1, <2>2 DEF LiveTurnsKeepTheirCheckpoint
<1>4. CASE Resumed
  <2> PICK file : Rebind(file)
    BY <1>4 DEF Resumed
  <2>1. All' = disk /\ disk' = disk /\ begun' = begun
    BY DEF Rebind, All
  <2> QED BY <2>1, RebindFacts DEF LiveTurnsKeepTheirCheckpoint
<1>5. CASE Elsewhere
  BY <1>5 DEF Elsewhere, LiveTurnsKeepTheirCheckpoint, All
<1> QED BY FiveKinds, <1>1, <1>2, <1>3, <1>4, <1>5

-----------------------------------------------------------------------------
(* A restore is exact *)

\* Touched and Earliest of a given set of checkpoints.
TouchedIn(cps, f, t)  == {c \in cps : c.turn >= t /\ c.files[f] # None}
EarliestIn(cps, f, t) == {c.files[f] : c \in {d \in TouchedIn(cps, f, t) :
                                     \A e \in TouchedIn(cps, f, t) : d.turn <= e.turn}}

Same(A, B, f) ==
    /\ \A c \in A : \E d \in B : d.turn = c.turn /\ d.files[f] = c.files[f]
    /\ \A c \in B : \E d \in A : d.turn = c.turn /\ d.files[f] = c.files[f]

\* They depend only on the numbers and on what was recorded of f.
LEMMA SameRecords ==
    ASSUME NEW A, NEW B, NEW f, NEW t, Same(A, B, f)
    PROVE  /\ TouchedIn(A, f, t) = {} <=> TouchedIn(B, f, t) = {}
           /\ EarliestIn(A, f, t) = EarliestIn(B, f, t)
<1> USE DEF Same
<1>1. TouchedIn(A, f, t) = {} <=> TouchedIn(B, f, t) = {}
  BY DEF TouchedIn
<1>2. ASSUME NEW x \in EarliestIn(A, f, t) PROVE x \in EarliestIn(B, f, t)
  <2>1. PICK c \in TouchedIn(A, f, t) :
             x = c.files[f] /\ \A e \in TouchedIn(A, f, t) : c.turn <= e.turn
    BY <1>2 DEF EarliestIn
  <2>2. PICK d \in B : d.turn = c.turn /\ d.files[f] = c.files[f]
    BY <2>1 DEF TouchedIn
  <2>3. d \in TouchedIn(B, f, t)
    BY <2>1, <2>2 DEF TouchedIn
  <2>4. ASSUME NEW e \in TouchedIn(B, f, t) PROVE d.turn <= e.turn
    <3>1. PICK g \in A : g.turn = e.turn /\ g.files[f] = e.files[f]
      BY DEF TouchedIn
    <3> QED BY <2>1, <2>2, <3>1 DEF TouchedIn
  <2> QED BY <2>1, <2>2, <2>3, <2>4 DEF EarliestIn
<1>3. ASSUME NEW x \in EarliestIn(B, f, t) PROVE x \in EarliestIn(A, f, t)
  <2>1. PICK c \in TouchedIn(B, f, t) :
             x = c.files[f] /\ \A e \in TouchedIn(B, f, t) : c.turn <= e.turn
    BY <1>3 DEF EarliestIn
  <2>2. PICK d \in A : d.turn = c.turn /\ d.files[f] = c.files[f]
    BY <2>1 DEF TouchedIn
  <2>3. d \in TouchedIn(A, f, t)
    BY <2>1, <2>2 DEF TouchedIn
  <2>4. ASSUME NEW e \in TouchedIn(A, f, t) PROVE d.turn <= e.turn
    <3>1. PICK g \in B : g.turn = e.turn /\ g.files[f] = e.files[f]
      BY DEF TouchedIn
    <3> QED BY <2>1, <2>2, <3>1 DEF TouchedIn
  <2> QED BY <2>1, <2>2, <2>3, <2>4 DEF EarliestIn
<1> QED BY <1>1, <1>2, <1>3

Newer(A, c, f, t) == /\ t \in Int /\ c.turn >= t /\ c.files[f] # None
                     /\ \A d \in A \cup {c} : d.turn \in Int
                     /\ \A d \in A : d.turn < c.turn

OlderWins(A, c, f, t) ==
    /\ TouchedIn(A, f, t) = {} => EarliestIn(A \cup {c}, f, t) = {c.files[f]}
    /\ EarliestIn(A, f, t) # {} => EarliestIn(A \cup {c}, f, t) = EarliestIn(A, f, t)
    /\ TouchedIn(A \cup {c}, f, t) # {}

\* A checkpoint newer than all the others does not change what a restore writes,
\* unless it is the only one that recorded the file.
LEMMA NewestRecord ==
    ASSUME NEW A, NEW c, NEW f, NEW t, Newer(A, c, f, t)
    PROVE  OlderWins(A, c, f, t)
<1> USE DEF Newer
<1>1. TouchedIn(A \cup {c}, f, t) = TouchedIn(A, f, t) \cup {c}
  BY DEF TouchedIn
<1>2. ASSUME TouchedIn(A, f, t) = {} PROVE EarliestIn(A \cup {c}, f, t) = {c.files[f]}
  <2>1. TouchedIn(A \cup {c}, f, t) = {c}
    BY <1>1, <1>2
  <2>2. c.turn <= c.turn
    OBVIOUS
  <2> QED BY ONLY <2>1, <2>2 DEF EarliestIn
<1>3. ASSUME EarliestIn(A, f, t) # {}
      PROVE  EarliestIn(A \cup {c}, f, t) = EarliestIn(A, f, t)
  <2>1. PICK m \in TouchedIn(A, f, t) : TRUE
    BY <1>3 DEF EarliestIn
  <2>2. \A d \in TouchedIn(A, f, t) : d.turn < c.turn /\ d.turn \in Int
    BY DEF TouchedIn
  <2> DEFINE T == TouchedIn(A, f, t)
             U == TouchedIn(A \cup {c}, f, t)
  <2>3. U = T \cup {c} /\ m \in T /\ \A d \in T : d.turn < c.turn /\ d.turn \in Int
    BY <1>1, <2>1, <2>2
  <2>4. {d \in U : \A e \in U : d.turn <= e.turn} = {d \in T : \A e \in T : d.turn <= e.turn}
    <3> HIDE DEF T, U
    <3>1. ASSUME NEW d \in U, \A e \in U : d.turn <= e.turn
          PROVE  d \in T /\ \A e \in T : d.turn <= e.turn
      <4>1. d # c
        <5>1. d.turn <= m.turn /\ m.turn < c.turn /\ m.turn \in Int
          BY <2>3, <3>1
        <5> QED BY <5>1
      <4> QED BY <2>3, <3>1, <4>1
    <3>2. ASSUME NEW d \in T, \A e \in T : d.turn <= e.turn
          PROVE  d \in U /\ \A e \in U : d.turn <= e.turn
      BY <2>3, <3>2
    <3> QED BY <3>1, <3>2
  <2> QED BY <2>4 DEF EarliestIn
<1> QED BY <1>1, <1>2, <1>3 DEF OlderWins

\* With the store cps and the workspace w, restoring f at t gives what moment m had.
Right(cps, w, m, f, t) == IF TouchedIn(cps, f, t) = {} THEN w[f] = m.ws[f]
                          ELSE EarliestIn(cps, f, t) = {m.ws[f]}

\* RestoreIsExact, in terms of Right.
LEMMA ExactIsRight ==
    /\ RestoreIsExact <=> \A t \in Turns : begun[t] # None /\ ~reused =>
            \A f \in Files : Right(All, ws, begun[t], f, t)
    /\ RestoreIsExact' <=> \A t \in Turns : begun'[t] # None /\ ~reused' =>
            \A f \in Files : Right(All', ws', begun'[t], f, t)
<1>1. ASSUME NEW t \in Turns, NEW f \in Files
      PROVE  /\ Restored(f, t) = {begun[t].ws[f]} <=> Right(All, ws, begun[t], f, t)
             /\ (Restored(f, t) = {begun[t].ws[f]})' <=> Right(All', ws', begun'[t], f, t)
  BY DEF Restored, Earliest, Touched, Sooner, EarliestIn, TouchedIn, Right
<1> QED BY <1>1 DEF RestoreIsExact, Exact

\* The new turn has recorded nothing, and no older checkpoint has its number or more.
LEMMA ExactBegins ==
    ASSUME TypeOK, NumberInv, RestoreIsExact, RunInv', Begin,
           NEW t \in Turns, begun'[t] # None, ~reused', NEW f \in Files
    PROVE  Right(All', ws', begun'[t], f, t)
<1> USE TurnInt, BeginFacts
<1>1. ws' = ws /\ begun' = [begun EXCEPT ![cpTurn] = [ws |-> ws, log |-> log]]
      /\ cpTurn' = cpTurn + 1 /\ running' /\ ~reused /\ \A c \in All : c.turn # cpTurn
  BY DEF Begin
<1>2. Opened.files[f] = None
  BY DEF Untouched
<1>3. CASE t = cpTurn
  <2>1. begun'[t].ws = ws
    BY <1>1, <1>3 DEF TypeOK
  <2>2. TouchedIn(All', f, t) = {}
    BY <1>1, <1>2, <1>3 DEF RunInv, TouchedIn
  <2> QED BY <1>1, <2>1, <2>2 DEF Right
<1>4. CASE t # cpTurn
  <2>1. begun'[t] = begun[t]
    BY <1>1, <1>4 DEF TypeOK
  <2>2. TouchedIn(All', f, t) = TouchedIn(All, f, t)
    BY <1>2 DEF TouchedIn
  <2>3. EarliestIn(All', f, t) = EarliestIn(All, f, t)
    BY <2>2 DEF EarliestIn
  <2> QED BY <1>1, <2>1, <2>2, <2>3, ExactIsRight DEF Right
<1> QED BY <1>3, <1>4

\* The content recorded before an edit is the one the edit changes.
LEMMA ExactEdits ==
    ASSUME TypeOK, StoreInv, NumberInv, RunInv, LiveTurnsKeepTheirCheckpoint, RestoreIsExact,
           NEW g \in Files, NEW v \in Values \cup {ws[g]}, Edit(g, v),
           NEW t \in Turns, begun'[t] # None, ~reused', NEW f \in Files
    PROVE  Right(All', ws', begun'[t], f, t)
<1> USE TurnInt
<1>1. begun' = begun /\ reused' = reused /\ running
  BY DEF Edit
<1>2. ws' = [ws EXCEPT ![g] = v] /\ cur # None
  BY EditFacts
<1>3. Right(All, ws, begun[t], f, t)
  BY <1>1, ExactIsRight
<1>4. cur \in All /\ cur.turn >= t /\ cur.turn \in Int /\ \A c \in All : c.turn <= cur.turn
  <2>1. cur \in All
    BY <1>2 DEF All
  <2>2. cur.turn = cpTurn - 1 /\ t < cpTurn /\ \A c \in All : c.turn < cpTurn
    BY <1>1 DEF RunInv, LiveTurnsKeepTheirCheckpoint
  <2> QED BY <2>1, <2>2
<1>5. CASE f # g
  <2>1. ws'[f] = ws[f]
    BY <1>2, <1>5 DEF TypeOK
  <2>2. /\ \A c \in All : \E d \in All' : d.turn = c.turn /\ d.files[f] = c.files[f]
        /\ \A c \in All' : \E d \in All : d.turn = c.turn /\ d.files[f] = c.files[f]
    <3>1. CASE UNCHANGED store
      BY <3>1 DEF All
    <3>2. CASE ~UNCHANGED store
      <4>1. All = done \cup {cur} /\ All' = done \cup {cur'} /\ cur'.turn = cur.turn
            /\ cur'.files = [cur.files EXCEPT ![g] = ws[g]] /\ cur \in Checkpoint
        BY <3>2, EditStore
      <4>2. cur'.files[f] = cur.files[f]
        BY <4>1, <1>5 DEF Checkpoint
      <4> QED BY <4>1, <4>2
    <3> QED BY <3>1, <3>2
  <2>3. /\ TouchedIn(All, f, t) = {} <=> TouchedIn(All', f, t) = {}
        /\ EarliestIn(All, f, t) = EarliestIn(All', f, t)
    <3>1. PICK A, B : A = All /\ B = All'
      OBVIOUS
    <3>2. Same(A, B, f)
      BY <2>2, <3>1 DEF Same
    <3>3. /\ TouchedIn(A, f, t) = {} <=> TouchedIn(B, f, t) = {}
          /\ EarliestIn(A, f, t) = EarliestIn(B, f, t)
      BY ONLY <3>2, SameRecords
    <3> QED BY <3>1, <3>3
  <2> QED BY <1>1, <1>3, <2>1, <2>3 DEF Right
<1>6. CASE f = g /\ cur.files[f] # None
  <2>1. All' = All
    BY <1>6, EditStore DEF All
  <2>2. TouchedIn(All, f, t) # {}
    BY <1>4, <1>6 DEF TouchedIn
  <2> QED BY <1>1, <1>3, <2>1, <2>2 DEF Right
<1>7. CASE f = g /\ cur.files[f] = None
  <2>1. All = done \cup {cur} /\ All' = done \cup {cur'} /\ cur'.turn = cur.turn
        /\ cur'.files = [cur.files EXCEPT ![f] = ws[f]] /\ cur \in Checkpoint
    BY <1>7, EditStore
  <2>2. cur'.files[f] = ws[f] /\ ws[f] # None
    BY <2>1, CheckpointsAssumption DEF Checkpoint, TypeOK
  <2>3. TouchedIn(All, f, t) = TouchedIn(done, f, t)
    BY <1>7, <2>1 DEF TouchedIn
  <2>4. EarliestIn(All, f, t) = EarliestIn(done, f, t)
    BY <2>3 DEF EarliestIn
  <2>5. \A d \in done : d.turn \in Int /\ d.turn < cur'.turn
    <3>1. cur \notin done /\ All = disk /\ cur \in disk
      BY <1>1, <1>2 DEF StoreInv, MemoryIsDisk, CurOnDisk
    <3>2. \A d \in done : d.turn # cur.turn
      BY <2>1, <3>1 DEF StoreInv, DiskUnique
    <3> QED BY <1>4, <2>1, <3>2
  <2>6. /\ TouchedIn(done, f, t) = {} => EarliestIn(All', f, t) = {ws[f]}
        /\ EarliestIn(done, f, t) # {} => EarliestIn(All', f, t) = EarliestIn(done, f, t)
        /\ TouchedIn(All', f, t) # {}
    <3>1. PICK A, c : A = done /\ c = cur'
      OBVIOUS
    <3>2. Newer(A, c, f, t)
      BY <1>4, <2>1, <2>2, <2>5, <3>1 DEF Newer
    <3>3. OlderWins(A, c, f, t)
      BY ONLY <3>2, NewestRecord
    <3> QED BY <2>1, <2>2, <3>1, <3>3 DEF OlderWins
  <2> QED BY <1>1, <1>3, <2>3, <2>4, <2>6 DEF Right
<1> QED BY <1>5, <1>6, <1>7

\* A restore of a later turn writes back what a restore of this one would.
LEMMA ExactRewinds ==
    ASSUME TypeOK, RestoreIsExact, NEW turn \in Turns, Rewound(turn),
           NEW t \in Turns, begun'[t] # None, ~reused', NEW f \in Files
    PROVE  Right(All', ws', begun'[t], f, t)
<1> USE TurnInt
<1>1. All' = All /\ reused' = reused
  BY DEF Rewound, All
<1>2. begun'[t] = begun[t] /\ t <= turn
  BY DEF Rewound, Forget, From, After
<1>3. Right(All, ws, begun[t], f, t)
  BY <1>1, <1>2, ExactIsRight
<1>4. CASE TouchedIn(All, f, t) # {}
  BY <1>1, <1>2, <1>3, <1>4 DEF Right
<1>5. CASE TouchedIn(All, f, t) = {}
  <2>1. Touched(f, turn) = {}
    BY <1>2, <1>5 DEF TouchedIn, Touched
  <2>2. ws'[f] = ws[f]
    BY <2>1 DEF Rewound, Restored
  <2> QED BY <1>1, <1>2, <1>3, <1>5, <2>2 DEF Right
<1> QED BY <1>4, <1>5

\* No step makes a restore of a live turn inexact.
LEMMA ExactStep ==
    ASSUME TypeOK, StoreInv, NumberInv, RunInv, RunInv', LiveTurnsKeepTheirCheckpoint,
           RestoreIsExact, [Next]_vars
    PROVE  RestoreIsExact'
<1> SUFFICES ASSUME NEW t \in Turns, begun'[t] # None, ~reused', NEW f \in Files
             PROVE  Right(All', ws', begun'[t], f, t)
  BY ExactIsRight
<1>1. CASE Edited
  BY <1>1, ExactEdits DEF Edited
<1>2. CASE Resumed
  <2>1. UNCHANGED <<ws, begun, reused>> /\ done' = disk /\ cur' = None
    BY <1>2 DEF Resumed, Rebind
  <2>2. All' = All
    BY <2>1 DEF All, StoreInv, MemoryIsDisk
  <2> QED BY <2>1, <2>2, ExactIsRight
<1>3. CASE Elsewhere
  <2>1. UNCHANGED <<ws, begun, reused, All>>
    BY <1>3 DEF Elsewhere, All
  <2> QED BY <2>1, ExactIsRight
<1> QED BY FiveKinds, ExactBegins, ExactRewinds, <1>1, <1>2, <1>3

-----------------------------------------------------------------------------
(* The log, the session file and the boundaries *)

\* A boundary in memory is always one that a checkpoint on disk has.
LEMMA BoundStep ==
    ASSUME TypeOK, StoreInv, NumberInv, RunInv, BoundOnDisk, [Next]_vars
    PROVE  BoundOnDisk'
<1>1. CASE Begin
  <2>1. cpBound' = [cpBound EXCEPT ![cpTurn] = Len(log)]
    BY <1>1 DEF Begin
  <2>2. ASSUME NEW t \in Turns, cpBound'[t] # None
        PROVE  \E d \in disk' : d.turn = t /\ d.at = cpBound'[t]
    <3>1. CASE t = cpTurn
      BY <1>1, <2>1, <3>1, BeginFacts DEF TypeOK
    <3>2. CASE t # cpTurn
      <4>1. cpBound'[t] = cpBound[t]
        BY <2>1, <3>2 DEF TypeOK
      <4> QED BY <1>1, <2>2, <3>2, <4>1, BeginFacts DEF BoundOnDisk
    <3> QED BY <3>1, <3>2
  <2> QED BY <2>2 DEF BoundOnDisk
<1>2. CASE Edited
  <2>1. UNCHANGED cpBound
    BY <1>2 DEF Edited, Edit
  <2> QED BY <1>2, <2>1, EditKeeps DEF BoundOnDisk
<1>3. ASSUME NEW turn \in Turns, Rewound(turn) PROVE BoundOnDisk'
  <2>1. disk' = disk
    BY <1>3 DEF Rewound
  <2>2. ASSUME NEW t \in Turns, cpBound'[t] # None PROVE cpBound'[t] = cpBound[t]
    BY <1>3, <2>2 DEF Rewound
  <2> QED BY <2>1, <2>2 DEF BoundOnDisk
<1>4. CASE Resumed
  BY <1>4, RebindFacts DEF Resumed, Rebind, BoundOnDisk
<1>5. CASE Elsewhere
  BY <1>5 DEF Elsewhere, BoundOnDisk
<1> QED BY FiveKinds, <1>1, <1>2, <1>3, <1>4, <1>5

\* Once set, the flags of history stay set.
LEMMA FlagsStay == ASSUME TypeOK, [Next]_vars, ~restructured', ~reused'
                   PROVE  ~restructured /\ ~reused
<1>1. CASE Begin
  BY <1>1 DEF Begin
<1>2. CASE Edited
  BY <1>2 DEF Edited, Edit
<1>3. ASSUME NEW turn \in Turns, Rewound(turn) PROVE ~restructured /\ ~reused
  BY <1>3 DEF Rewound
<1>4. CASE Resumed
  BY <1>4 DEF Resumed, Rebind
<1>5. CASE Elsewhere
  BY <1>5 DEF Elsewhere
<1> QED BY FiveKinds, <1>1, <1>2, <1>3, <1>4, <1>5

\* Lengths are numbers, and live turns have a start.
LEMMA LogFacts ==
    ASSUME TypeOK
    PROVE  /\ Len(log) \in Nat /\ Len(saved) \in Nat
           /\ \A t \in Live : begun[t].log \in Seq(Message) /\ Len(begun[t].log) \in Nat
BY DEF TypeOK, Live, Moment

\* Later turns have boundaries no lower than the start of a live turn.
LEMMA GrowStep ==
    ASSUME TypeOK, StoreInv, NumberInv, RunInv, RunInv', LogInv, BoundsGrow, [Next]_vars
    PROVE  BoundsGrow'
<1> USE TurnInt
<1> SUFFICES ASSUME ~restructured', ~reused', NEW t \in Live', NEW d \in disk', d.turn > t
             PROVE  Len(begun'[t].log) <= d.at
  BY DEF BoundsGrow
<1>0. ~restructured /\ ~reused
  BY FlagsStay
<1>1. CASE Begin
  <2>1. begun' = [begun EXCEPT ![cpTurn] = [ws |-> ws, log |-> log]] /\ running'
        /\ cpTurn' = cpTurn + 1
    BY <1>1 DEF Begin
  <2>2. d.turn \in Turns /\ d.turn < cpTurn'
    <3>1. CASE d = Opened
      BY <1>1, <2>1, <3>1, BeginFacts
    <3>2. CASE d # Opened
      <4>1. d \in disk
        BY <1>1, <3>2, BeginFacts
      <4>2. d \in All'
        BY <1>0, <1>1, <4>1, BeginFacts DEF StoreInv, MemoryIsDisk
      <4> QED BY <2>1, <4>1, <4>2 DEF RunInv
    <3> QED BY <3>1, <3>2
  <2>3. t \in Turns /\ t < cpTurn
    BY <2>1, <2>2 DEF Live
  <2>4. begun'[t] = begun[t] /\ t \in Live
    BY <2>1, <2>3 DEF TypeOK, Live
  <2>5. CASE d = Opened
    BY <1>0, <1>1, <2>4, <2>5, BeginFacts DEF LogInv, Prefix
  <2>6. CASE d # Opened
    BY <1>0, <1>1, <2>4, <2>6, BeginFacts DEF BoundsGrow
  <2> QED BY <2>5, <2>6
<1>2. CASE Edited
  <2>1. begun' = begun
    BY <1>2 DEF Edited, Edit
  <2> QED BY <1>0, <1>2, <2>1, EditKeeps DEF BoundsGrow, Live
<1>3. ASSUME NEW turn \in Turns, Rewound(turn) PROVE Len(begun'[t].log) <= d.at
  <2>1. disk' = disk /\ begun'[t] = begun[t] /\ t \in Live
    BY <1>3 DEF Rewound, Live, Forget, From, After
  <2> QED BY <1>0, <2>1 DEF BoundsGrow
<1>4. CASE Resumed
  BY <1>0, <1>4 DEF Resumed, Rebind, BoundsGrow, Live
<1>5. CASE Elsewhere
  BY <1>0, <1>5 DEF Elsewhere, BoundsGrow, Live
<1> QED BY FiveKinds, <1>1, <1>2, <1>3, <1>4, <1>5

-----------------------------------------------------------------------------
(* Prefixes *)

\* A prefix of a prefix is a prefix; a log is a prefix of itself and of what is
\* appended to it, and stays one of a log cut no shorter.
LEMMA PrefixFacts ==
    ASSUME NEW s \in Seq(Message), NEW t \in Seq(Message), NEW u \in Seq(Message),
           NEW m \in Message, NEW n \in 0..Len(t)
    PROVE  /\ Prefix(s, s)
           /\ Prefix(s, t) /\ Prefix(t, u) => Prefix(s, u)
           /\ Prefix(s, t) => Prefix(s, Append(t, m))
           /\ Prefix(s, t) /\ Len(s) <= n => Prefix(s, SubSeq(t, 1, n))
           /\ Prefix(<<>>, u)
<1>1. Len(s) \in Nat /\ Len(t) \in Nat /\ Len(u) \in Nat /\ n \in Int
  OBVIOUS
<1>2. Prefix(s, s)
  BY <1>1 DEF Prefix
<1>3. Prefix(s, t) /\ Prefix(t, u) => Prefix(s, u)
  BY <1>1 DEF Prefix
<1>4. Prefix(s, t) => Prefix(s, Append(t, m))
  <2>1. Len(Append(t, m)) = Len(t) + 1 /\ \A i \in 1..Len(t) : Append(t, m)[i] = t[i]
    BY AppendProperties
  <2> QED BY <1>1, <2>1 DEF Prefix
<1>5. Prefix(s, t) /\ Len(s) <= n => Prefix(s, SubSeq(t, 1, n))
  <2>1. Len(SubSeq(t, 1, n)) = n /\ \A i \in 1..n : SubSeq(t, 1, n)[i] = t[i]
    BY <1>1
  <2> QED BY <1>1, <2>1 DEF Prefix
<1>6. Prefix(<<>>, u)
  BY <1>1 DEF Prefix
<1> QED BY <1>2, <1>3, <1>4, <1>5, <1>6

\* A log and the start of a turn that is as long are each a prefix of the other.
LEMMA PrefixFlips ==
    ASSUME NEW s \in Seq(Message), NEW t \in Seq(Message), Prefix(s, t), Len(t) <= Len(s)
    PROVE  Prefix(t, s)
BY DEF Prefix

-----------------------------------------------------------------------------
(* The log and the session file *)

\* A step that changes neither log nor file, and may undo turns.
LEMMA LogSame ==
    ASSUME TypeOK, LogInv, UNCHANGED <<log, saved>>, running' = running,
           \A t \in Turns : begun'[t] # None => begun'[t] = begun[t],
           ~restructured, ~reused
    PROVE  LogInv'
BY DEF LogInv, Live

\* A turn begins with the log, and the session file has all of it.
LEMMA LogBegins == ASSUME TypeOK, NumberInv, LogInv, Begin PROVE LogInv'
<1>1. begun' = [begun EXCEPT ![cpTurn] = [ws |-> ws, log |-> log]] /\ running' /\ ~running
      /\ UNCHANGED <<log, saved, restructured>> /\ (reused => reused')
  BY DEF Begin
<1> SUFFICES ASSUME ~restructured', ~reused', NEW t \in Live'
             PROVE  Prefix(begun'[t].log, log') /\ Prefix(begun'[t].log, saved')
  BY <1>1 DEF LogInv
<1>2. ~restructured /\ ~reused
  BY <1>1
<1>3. CASE t = cpTurn
  <2>1. begun'[t].log = log
    BY <1>1, <1>3, BeginTurn DEF TypeOK
  <2>2. Prefix(log, log) /\ Prefix(log, saved)
    BY <1>1, <1>2 DEF LogInv, Prefix, TypeOK
  <2> QED BY <1>1, <2>1, <2>2
<1>4. CASE t # cpTurn
  <2>1. begun'[t] = begun[t] /\ t \in Live
    BY <1>1, <1>4 DEF TypeOK, Live
  <2> QED BY <1>1, <1>2, <2>1 DEF LogInv
<1> QED BY <1>3, <1>4

\* A message is added at the end.
LEMMA LogSays == ASSUME TypeOK, NumberInv, RunInv, LogInv, Say PROVE LogInv'
<1>1. serial \in Message /\ log' = Append(log, serial) /\ running'
      /\ UNCHANGED <<saved, begun, restructured, reused>>
  BY CheckpointsAssumption DEF Say, NumberInv, RunInv, Message, TypeOK
<1>2. ASSUME ~restructured, ~reused, NEW t \in Live
      PROVE  Prefix(begun[t].log, log')
  <2>1. begun[t].log \in Seq(Message) /\ log \in Seq(Message) /\ Prefix(begun[t].log, log)
        /\ 0 \in 0..Len(log)
    BY <1>2, LogFacts DEF LogInv, TypeOK
  <2> QED BY <1>1, <2>1, PrefixFacts
<1> QED BY <1>1, <1>2 DEF LogInv, Live

\* A turn that ends without having made the log longer has left it as it was.
LEMMA LogEnds == ASSUME TypeOK, NumberInv, RunInv, LogInv, End PROVE LogInv'
<1>1. UNCHANGED <<log, begun, restructured, reused>> /\ running
      /\ saved' = IF Len(log) > Len(Start(cpTurn - 1)) THEN log ELSE saved
  BY DEF End
<1> SUFFICES ASSUME ~restructured, ~reused
             PROVE  /\ \A t \in Live : Prefix(begun[t].log, log) /\ Prefix(begun[t].log, saved')
                    /\ Prefix(log, saved')
  BY <1>1 DEF LogInv, Live
<1>2. log \in Seq(Message) /\ saved \in Seq(Message) /\ Len(log) \in Nat
  BY LogFacts DEF TypeOK
<1>3. CASE Len(log) > Len(Start(cpTurn - 1))
  BY <1>1, <1>2, <1>3 DEF LogInv, Prefix
<1>4. CASE ~(Len(log) > Len(Start(cpTurn - 1)))
  <2>1. PICK t : t = cpTurn - 1
    OBVIOUS
  <2>2. t \in Live
    BY <1>1, <2>1, CheckpointsAssumption DEF RunInv, Live, TypeOK, Turns
  <2>3. begun[t].log \in Seq(Message) /\ Len(begun[t].log) \in Nat /\ Start(t) = begun[t].log
    BY <2>2, LogFacts DEF Start, Live
  <2>4. Prefix(begun[t].log, log) /\ Prefix(begun[t].log, saved) /\ Len(log) <= Len(begun[t].log)
    BY <1>2, <1>4, <2>1, <2>2, <2>3 DEF LogInv
  <2>5. Prefix(log, begun[t].log)
    BY <1>2, <2>3, <2>4, PrefixFlips
  <2>6. Prefix(log, saved)
    BY <1>2, <2>3, <2>4, <2>5 DEF Prefix
  <2> QED BY <1>1, <1>4, <2>6 DEF LogInv
<1> QED BY <1>3, <1>4

\* Crash and Reopen make the log the session file.
LEMMA LogResumes == ASSUME TypeOK, LogInv, Crash \/ Reopen PROVE LogInv'
<1>1. log' = saved' /\ UNCHANGED <<begun, restructured, reused>> /\ saved' \in {saved, log}
  BY DEF Crash, Reopen, Rebind
<1>2. Prefix(saved', saved')
  BY <1>1 DEF Prefix, TypeOK
<1> QED BY <1>1, <1>2 DEF LogInv, Live

\* A cut at a turn's boundary leaves what the earlier turns began with: their
\* boundaries are lower.
LEMMA LogRewinds ==
    ASSUME TypeOK, BoundOnDisk, LogInv, BoundsGrow, NEW turn \in Turns, Rewound(turn)
    PROVE  LogInv'
<1> USE TurnInt
<1>1. UNCHANGED <<running, reused, restructured>> /\ ~running
  BY DEF Rewound
<1> SUFFICES ASSUME ~restructured, ~reused PROVE LogInv'
  BY <1>1 DEF LogInv
<1>2. \A t \in Turns : begun'[t] # None => begun'[t] = begun[t] /\ t \in Live
  BY DEF Rewound, Forget, From, After, Live
<1>3. CASE UNCHANGED convo
  BY <1>1, <1>2, <1>3, LogSame
<1>4. CASE cpBound[turn] # None /\ cpBound[turn] <= Len(log)
           /\ log' = CutAt(cpBound[turn]) /\ Save /\ Forget(From(turn))
  <2>1. PICK n : n = cpBound[turn]
    OBVIOUS
  <2>2. n \in 0..Len(log) /\ log \in Seq(Message) /\ saved \in Seq(Message)
    BY <1>4, <2>1 DEF TypeOK
  <2>3. log' = SubSeq(log, 1, n) /\ log' \in Seq(Message)
    BY <1>4, <2>1, <2>2 DEF CutAt
  <2>4. PICK d \in disk : d.turn = turn /\ d.at = n
    BY <1>4, <2>1 DEF BoundOnDisk
  <2>5. ASSUME NEW t \in Live'
        PROVE  Prefix(begun'[t].log, log') /\ Prefix(begun'[t].log, saved')
    <3>1. begun'[t] = begun[t] /\ t \in Live /\ t < turn
      BY <1>2, <1>4 DEF Live, Forget, From
    <3>2. Len(begun[t].log) <= n
      BY <2>4, <3>1 DEF BoundsGrow
    <3>3. begun[t].log \in Seq(Message) /\ Prefix(begun[t].log, log) /\ Prefix(begun[t].log, saved)
      BY <3>1, LogFacts DEF LogInv
    <3>4. Prefix(begun[t].log, log')
      <4>1. Summary \in Message
        BY DEF Message
      <4> QED BY <2>2, <2>3, <3>2, <3>3, <4>1, PrefixFacts
    <3> QED BY <1>4, <3>1, <3>3, <3>4 DEF Save
  <2>6. Prefix(log', saved')
    <3>1. Prefix(log', log')
      BY <2>3 DEF Prefix
    <3>2. Prefix(<<>>, saved)
      BY <2>2 DEF Prefix
    <3> QED BY <1>4, <3>1, <3>2 DEF Save
  <2> QED BY <2>5, <2>6 DEF LogInv
<1> QED BY <1>3, <1>4 DEF Rewound

\* The log and the session file extend the start of every live turn.
LEMMA LogStep ==
    ASSUME TypeOK, NumberInv, RunInv, BoundOnDisk, LogInv, BoundsGrow, [Next]_vars
    PROVE  LogInv'
<1>1. CASE Edited
  BY <1>1, LogSame DEF Edited, Edit, LogInv
<1>2. ASSUME NEW k, AutoCompact(k) \/ CompactNow(k) PROVE LogInv'
  BY <1>2 DEF AutoCompact, CompactNow, LogInv
<1>3. ASSUME NEW turn \in Turns, NEW messages, Summarize(turn, messages) PROVE LogInv'
  BY <1>3 DEF Summarize, LogInv
<1>4. CASE UNCHANGED vars
  BY <1>4 DEF vars, LogInv, Live
<1>5. ASSUME NEW turn \in Turns, Rewind(turn) PROVE LogInv'
  BY <1>5, RewindFacts, LogRewinds
<1>6. CASE Next
  <2>1. CASE \E k \in 1..(Len(log) - 1) : AutoCompact(k) \/ CompactNow(k)
    BY <2>1, <1>2, Zenon
  <2>2. CASE \E turn \in Turns : \/ Summarize(turn, SummaryFrom(cpBound[turn]))
                                 \/ Summarize(turn, SummaryUpTo(cpBound[turn]))
    BY <2>2, <1>3, Zenon
  <2>3. CASE \E turn \in Turns : Rewind(turn)
    BY <2>3, <1>5, Zenon
  <2>4. CASE Begin \/ Say \/ End \/ Crash \/ Reopen
    BY <2>4, LogBegins, LogSays, LogEnds, LogResumes
  <2> QED BY <1>6, <1>1, <2>1, <2>2, <2>3, <2>4, Zenon DEF Next, Edited
<1> QED BY <1>4, <1>6, Zenon

-----------------------------------------------------------------------------
(* The theorems *)

\* A new session has no turns, no checkpoints and no messages.
LEMMA InitIInv == ASSUME Init PROVE IInv
<1> USE DEF Init
<1>1. TypeOK
  <2>1. 0 \in 0..MaxTurns
    BY CheckpointsAssumption
  <2>2. log \in Seq(Message) /\ saved \in Seq(Message)
    OBVIOUS
  <2>3. cpBound \in [Turns -> Nat \cup {None}] /\ begun \in [Turns -> Moment \cup {None}]
    OBVIOUS
  <2> QED BY <2>1, <2>2, <2>3 DEF TypeOK
<1>2. All = {}
  BY DEF All
<1>3. StoreInv
  BY <1>2 DEF StoreInv, DiskUnique, CurOnDisk, MemoryIsDisk, Has, All
<1>4. NumberInv
  BY <1>2, CheckpointsAssumption DEF NumberInv, Contiguous, Turns
<1>5. RunInv
  BY DEF RunInv
<1>6. LiveTurnsKeepTheirCheckpoint /\ RestoreIsExact
  BY DEF LiveTurnsKeepTheirCheckpoint, RestoreIsExact
<1>7. BoundOnDisk /\ LogInv /\ BoundsGrow
  BY DEF BoundOnDisk, LogInv, BoundsGrow, Live, Prefix
<1> QED BY <1>1, <1>3, <1>4, <1>5, <1>6, <1>7 DEF IInv

\* The conjuncts of IInv hold in every reachable state.
LEMMA IInvHolds == Spec => []IInv
<1>1. Init => IInv
  BY InitIInv
<1>2. IInv /\ [Next]_vars => IInv'
  <2> SUFFICES ASSUME IInv, [Next]_vars PROVE IInv'
    OBVIOUS
  <2> USE DEF IInv
  <2>1. TypeOK'
    BY TypeStep
  <2>2. StoreInv'
    BY StoreStep
  <2>3. NumberInv'
    BY NumberStep
  <2>4. RunInv'
    BY RunStep
  <2>5. LiveTurnsKeepTheirCheckpoint'
    BY LiveStep
  <2>6. RestoreIsExact'
    BY <2>4, ExactStep
  <2>7. BoundOnDisk' /\ LogInv'
    BY BoundStep, LogStep
  <2>8. BoundsGrow'
    BY <2>4, GrowStep
  <2> QED BY <2>1, <2>2, <2>3, <2>4, <2>5, <2>6, <2>7, <2>8
<1> QED BY <1>1, <1>2, PTL DEF Spec

\* The boundary of a live turn is the length of its start, which the log extends.
LEMMA BoundaryFollows == ASSUME IInv PROVE BoundaryCutsAtStart
<1> SUFFICES ASSUME NEW t \in Turns, begun[t] # None, cpBound[t] # None, ~restructured, ~reused
             PROVE  BoundaryFits(t)
  BY DEF BoundaryCutsAtStart
<1>1. PICK s : s = begun[t].log
  OBVIOUS
<1>2. t \in Live /\ s \in Seq(Message) /\ log \in Seq(Message) /\ Prefix(s, log)
  BY <1>1, LogFacts DEF IInv, LogInv, Live, TypeOK
<1>3. PICK c \in disk : c.turn = t /\ c.at = cpBound[t]
  BY DEF IInv, BoundOnDisk
<1>4. PICK d \in disk : d.turn = t /\ d.at = Len(s)
  BY <1>1 DEF IInv, LiveTurnsKeepTheirCheckpoint
<1>5. cpBound[t] = Len(s)
  BY <1>3, <1>4 DEF IInv, StoreInv, DiskUnique
<1>6. Len(s) \in Nat /\ Len(s) <= Len(log) /\ \A i \in 1..Len(s) : s[i] = log[i]
  BY <1>2 DEF Prefix
<1>7. SubSeq(log, 1, Len(s)) = s
  <2>1. PICK u : u = SubSeq(log, 1, Len(s))
    OBVIOUS
  <2>2. u \in Seq(Message) /\ Len(u) = Len(s) /\ \A i \in 1..Len(u) : u[i] = s[i]
    BY <1>2, <1>6, <2>1
  <2>3. u = s
    BY <1>2, <2>2, SeqEqual
  <2> QED BY <2>1, <2>3
<1> QED BY <1>1, <1>5, <1>6, <1>7 DEF BoundaryFits

\* Every variable keeps its type.
THEOREM TypeCorrect == Spec => []TypeOK
BY IInvHolds, PTL DEF IInv

\* Whatever is rewound, resumed or crashed, a turn that is part of the session keeps
\* its number, its checkpoint in memory and its file on disk (cpTurn's comment,
\* controller.go:91).
THEOREM LiveTurnsKeep == Spec => []LiveTurnsKeepTheirCheckpoint
BY IInvHolds, PTL DEF IInv

\* Until a number is used twice, RestoreCode gives the workspace of the turn's start.
THEOREM RestoreExact == Spec => []RestoreIsExact
BY IInvHolds, PTL DEF IInv

\* Until a number is used twice or the log is restructured, a conversation rewind cuts
\* the log exactly where the turn began.
THEOREM BoundaryCuts == Spec => []BoundaryCutsAtStart
<1>1. IInv => BoundaryCutsAtStart
  BY BoundaryFollows
<1> QED BY <1>1, IInvHolds, PTL

=============================================================================
