------------------------- MODULE DesktopTabsProofs -------------------------
(***************************************************************************)
(* The kit of a workspace is shared and its waiters are woken, for any      *)
(* holders and any number of entries; and what the tabs do to it, for any   *)
(* tabs, holders and files.                                                 *)
(*                                                                         *)
(* Every step of the application is a step of the pool or leaves it alone,  *)
(* so that the pool's promises hold of the tabs.  That a controller that    *)
(* runs has an open kit follows from them once each live controller is      *)
(* known to hold it: a controller is made by one build or one rebuild, and  *)
(* released by whoever closes it.                                          *)
(*                                                                         *)
(* That a tab writes the file it has leased, that no turn is lost and that   *)
(* nothing outlives its tab are proved together: Ties says whose each        *)
(* controller is, what a build and a rebuild have claimed, and that one      *)
(* thing at a time is done on a tab where nothing overlapped.               *)
(***************************************************************************)
EXTENDS DesktopTabs, FiniteSetTheorems, TLAPS

-----------------------------------------------------------------------------
(* The pool by itself: its inductive invariant *)

\* Holders on their way and the map lead to entries that were made; the others are fresh.
Placed ==
    /\ entry <= made.entries /\ invalidating <= made.entries
    /\ \A h \in Holders : call[h].pc \notin {"idle", "gone"} =>
          call[h].at \in 1..made.entries
    /\ \A e \in Entries : e > made.entries =>
          ent[e].refs = 0 /\ ent[e].kit = 0 /\ ~ent[e].preparing

\* An entry is marked while exactly one holder makes its kit; the waiters are at marked ones.
OnePreparer ==
    /\ \A e \in Entries : ent[e].preparing =>
          ent[e].kit = 0 /\ \E g \in Holders : call[g].pc = "prepare" /\ call[g].at = e
    /\ \A g \in Holders : call[g].pc \in {"prepare", "wait"} => ent[call[g].at].preparing
    /\ \A g, h \in Holders :
          call[g].pc = "prepare" /\ call[h].pc = "prepare" /\ call[g].at = call[h].at => g = h

\* As long as no entry was deleted under a holder, every holder is at the map's entry, which
\* counts those that hold its kit, and no other kit is open.
Counted ==
    ~orphaned =>
        /\ \A h \in Holders : call[h].pc \notin {"idle", "gone"} => entry # 0 /\ call[h].at = entry
        /\ entry # 0 => ent[entry].refs = Cardinality(Holding)
        /\ \A k \in open : entry # 0 /\ k = ent[entry].kit /\ k # 0

\* As long as, besides, no kit was closed under its holders, they hold the entry's kit, which
\* is open, and there is none without them.
Shared ==
    ~orphaned /\ ~invalidated =>
        /\ \A h \in Holding : ent[entry].kit # 0 /\ uses[h] = ent[entry].kit
        /\ entry # 0 /\ ent[entry].kit # 0 => ent[entry].kit \in open /\ Holding # {}

IInv == PoolTypeOK /\ Placed /\ OnePreparer /\ Counted /\ Shared

-----------------------------------------------------------------------------
(* What a step does to a holder and to an entry *)

\* Holder h moves; the others stay where they are.
Moves(h, pc, e) ==
    /\ call' \in [Holders -> [pc : Where, at : 0..MaxEntries]]
    /\ call'[h].pc = pc /\ call'[h].at = e
    /\ \A g \in Holders \ {h} : call'[g] = call[g]

\* Holder h moves on from the entry it is at, whose waiters look at it again.
Wakes(h, pc) ==
    /\ call' \in [Holders -> [pc : Where, at : 0..MaxEntries]]
    /\ \A g \in Holders : call'[g].at = call[g].at
    /\ call'[h].pc = pc
    /\ \A g \in Holders \ {h} :
          call'[g].pc = IF call[g].pc = "wait" /\ call[g].at = call[h].at THEN "enter" ELSE call[g].pc

\* Entry e changes; the others stay as they are.
Becomes(e, refs, kit, preparing) ==
    /\ ent' \in [Entries -> [refs : Nat, kit : Nat, preparing : BOOLEAN]]
    /\ ent'[e].refs = refs /\ ent'[e].kit = kit /\ ent'[e].preparing = preparing
    /\ \A f \in Entries \ {e} : ent'[f] = ent[f]

Enters(h) ==
    LET e == call[h].at IN
    /\ e \in Entries /\ call[h].pc = "enter"
    /\ UNCHANGED <<entry, made, open, invalidating, invalidated, orphaned>>
    /\ \/ ent[e].preparing /\ Moves(h, "wait", e) /\ UNCHANGED <<ent, uses>>
       \/ /\ ~ent[e].preparing /\ ent[e].kit # 0 /\ Moves(h, "has", e)
          /\ Becomes(e, ent[e].refs + 1, ent[e].kit, FALSE)
          /\ uses' = [uses EXCEPT ![h] = ent[e].kit]
       \/ /\ ~ent[e].preparing /\ ent[e].kit = 0 /\ Moves(h, "prepare", e)
          /\ Becomes(e, ent[e].refs, 0, TRUE) /\ UNCHANGED uses

Prepares(h) ==
    LET e == call[h].at  k == made.kits + 1 IN
    /\ e \in Entries /\ k \in Nat /\ k # 0 /\ call[h].pc = "prepare"
    /\ made' = [made EXCEPT !.kits = k]
    /\ Becomes(e, ent[e].refs + 1, k, FALSE)
    /\ uses' = [uses EXCEPT ![h] = k] /\ open' = open \cup {k}
    /\ Wakes(h, "has")
    /\ UNCHANGED <<entry, invalidating, invalidated, orphaned>>

FailsToPrepare(h) ==
    LET e == call[h].at IN
    /\ e \in Entries /\ call[h].pc = "prepare"
    /\ Becomes(e, ent[e].refs, ent[e].kit, FALSE)
    /\ Wakes(h, "gone")
    /\ UNCHANGED <<entry, uses, made, open, invalidating, invalidated, orphaned>>

Leaves(h) ==
    LET e    == call[h].at
        refs == IF ent[e].refs > 0 THEN ent[e].refs - 1 ELSE 0
    IN /\ e \in Entries /\ call[h].pc = "leave" /\ refs \in Nat
       /\ Moves(h, "gone", e)
       /\ \/ /\ refs = 0 /\ ent[e].kit # 0
             /\ Becomes(e, 0, 0, ent[e].preparing)
             /\ open' = open \ {ent[e].kit} /\ entry' = 0
             /\ orphaned' = (orphaned \/ \E g \in Holders : call[g] = [pc |-> "enter", at |-> e])
          \/ /\ ~(refs = 0 /\ ent[e].kit # 0)
             /\ Becomes(e, refs, ent[e].kit, ent[e].preparing)
             /\ UNCHANGED <<entry, open, orphaned>>
       /\ UNCHANGED <<uses, made, invalidating, invalidated>>

Invalidates ==
    LET e == invalidating IN
    /\ e \in Entries /\ invalidating' = 0
    /\ \/ ent[e].kit = 0 /\ UNCHANGED <<ent, open, invalidated>>
       \/ /\ ent[e].kit # 0
          /\ Becomes(e, ent[e].refs, 0, ent[e].preparing)
          /\ open' = open \ {ent[e].kit} /\ invalidated' = TRUE
    /\ UNCHANGED <<entry, call, uses, made, orphaned>>

LEMMA StepMoves ==
    ASSUME PoolTypeOK, NEW h \in Holders, NEW pc \in Where, call' = Step(h, pc)
    PROVE  Moves(h, pc, call[h].at)
BY DEF PoolTypeOK, Step, Moves

LEMMA WokenWakes ==
    ASSUME PoolTypeOK, NEW h \in Holders, NEW pc \in Where, call' = Woken(h, pc)
    PROVE  Wakes(h, pc)
<1> DEFINE c == [g \in Holders |-> IF g = h THEN [call[h] EXCEPT !.pc = pc]
                       ELSE IF call[g].pc = "wait" /\ call[g].at = call[h].at
                            THEN [call[g] EXCEPT !.pc = "enter"] ELSE call[g]]
<1>1. call' = c
  BY DEF Woken
<1>2. \A g \in Holders : c[g] \in [pc : Where, at : 0..MaxEntries]
  BY DEF PoolTypeOK, Where
<1> QED BY <1>1, <1>2 DEF PoolTypeOK, Wakes

\* A holder on its way is at an entry.
LEMMA AtAnEntry ==
    ASSUME PoolTypeOK, Placed, NEW h \in Holders, call[h].pc \notin {"idle", "gone"}
    PROVE  call[h].at \in Entries /\ call[h].at <= made.entries
<1>1. call[h].at \in 1..made.entries
  BY DEF Placed
<1>2. made.entries \in 0..MaxEntries
  BY DEF PoolTypeOK
<1> QED BY <1>1, <1>2, PoolAssumption DEF Entries

LEMMA EnterEffect ==
    ASSUME PoolTypeOK, Placed, NEW h \in Holders, Enter(h)
    PROVE  Enters(h)
<1> DEFINE e == call[h].at
<1>1. e \in Entries /\ call[h].pc = "enter"
  BY AtAnEntry DEF Enter
<1>2. CASE At(h).preparing
  BY <1>1, <1>2, StepMoves DEF Enter, At, Where, Enters
<1>3. CASE ~At(h).preparing /\ At(h).kit # 0
  <2>1. ent' = [ent EXCEPT ![e].refs = @ + 1]
    BY <1>3 DEF Enter
  <2>2. Becomes(e, ent[e].refs + 1, ent[e].kit, FALSE)
    BY <1>1, <1>3, <2>1 DEF Becomes, At, PoolTypeOK
  <2> QED BY <1>1, <1>3, <2>2, StepMoves DEF Enter, At, Where, Enters
<1>4. CASE ~At(h).preparing /\ At(h).kit = 0
  <2>1. ent' = [ent EXCEPT ![e].preparing = TRUE]
    BY <1>4 DEF Enter
  <2>2. Becomes(e, ent[e].refs, 0, TRUE)
    BY <1>1, <1>4, <2>1 DEF Becomes, At, PoolTypeOK
  <2> QED BY <1>1, <1>4, <2>2, StepMoves DEF Enter, At, Where, Enters
<1> QED BY <1>2, <1>3, <1>4 DEF Enters

LEMMA PreparedEffect ==
    ASSUME PoolTypeOK, Placed, NEW h \in Holders, Prepared(h)
    PROVE  Prepares(h)
<1> DEFINE e == call[h].at
<1>1. e \in Entries /\ call[h].pc = "prepare"
  BY AtAnEntry DEF Prepared
<1>2. made' = [made EXCEPT !.kits = made.kits + 1] /\ made'.kits = made.kits + 1
  BY DEF Prepared, PoolTypeOK
<1>3. ent' = [ent EXCEPT ![e] = [refs |-> @.refs + 1, kit |-> made.kits + 1, preparing |-> FALSE]]
  BY <1>2 DEF Prepared
<1>4. Becomes(e, ent[e].refs + 1, made.kits + 1, FALSE)
  BY <1>1, <1>3 DEF Becomes, PoolTypeOK
<1>5. made.kits + 1 \in Nat /\ made.kits + 1 # 0
  BY DEF PoolTypeOK
<1> QED BY <1>1, <1>2, <1>4, <1>5, WokenWakes DEF Prepared, Where, Prepares

LEMMA PrepareFailsEffect ==
    ASSUME PoolTypeOK, Placed, NEW h \in Holders, PrepareFails(h)
    PROVE  FailsToPrepare(h)
<1> DEFINE e == call[h].at
<1>1. e \in Entries /\ call[h].pc = "prepare"
  BY AtAnEntry DEF PrepareFails
<1>2. ent' = [ent EXCEPT ![e].preparing = FALSE]
  BY DEF PrepareFails
<1>3. Becomes(e, ent[e].refs, ent[e].kit, FALSE)
  BY <1>1, <1>2 DEF Becomes, PoolTypeOK
<1> QED BY <1>1, <1>3, WokenWakes DEF PrepareFails, Where, FailsToPrepare

LEMMA LeaveEffect ==
    ASSUME PoolTypeOK, Placed, NEW h \in Holders, Leave(h)
    PROVE  Leaves(h)
<1> DEFINE e    == call[h].at
           refs == IF ent[e].refs > 0 THEN ent[e].refs - 1 ELSE 0
<1>1. e \in Entries /\ call[h].pc = "leave"
  BY AtAnEntry DEF Leave
<1>2. refs \in Nat
  BY <1>1 DEF PoolTypeOK
<1>3. Moves(h, "gone", e)
  BY StepMoves DEF Leave, Where
<1>4. CASE refs = 0 /\ ent[e].kit # 0
  <2>1. /\ ent' = [ent EXCEPT ![e].refs = 0, ![e].kit = 0]
        /\ open' = open \ {ent[e].kit} /\ entry' = 0
        /\ orphaned' = (orphaned \/ \E g \in Holders : call[g] = [pc |-> "enter", at |-> e])
    BY <1>4 DEF Leave
  <2>2. Becomes(e, 0, 0, ent[e].preparing)
    BY <1>1, <2>1 DEF Becomes, PoolTypeOK
  <2> QED BY <1>1, <1>2, <1>3, <1>4, <2>1, <2>2 DEF Leave, Leaves
<1>5. CASE ~(refs = 0 /\ ent[e].kit # 0)
  <2>1. ent' = [ent EXCEPT ![e].refs = refs] /\ UNCHANGED <<entry, open, orphaned>>
    BY <1>5 DEF Leave
  <2>2. Becomes(e, refs, ent[e].kit, ent[e].preparing)
    BY <1>1, <1>2, <2>1 DEF Becomes, PoolTypeOK
  <2> QED BY <1>1, <1>2, <1>3, <1>5, <2>1, <2>2 DEF Leave, Leaves
<1> QED BY <1>4, <1>5 DEF Leaves

LEMMA InvalidatedEffect ==
    ASSUME PoolTypeOK, Placed, Invalidated
    PROVE  Invalidates
<1>1. invalidating \in Entries
  BY PoolAssumption DEF Invalidated, PoolTypeOK, Entries
<1>2. CASE ent[invalidating].kit # 0
  <2>1. ent' = [ent EXCEPT ![invalidating].kit = 0]
    BY <1>2 DEF Invalidated
  <2>2. Becomes(invalidating, ent[invalidating].refs, 0, ent[invalidating].preparing)
    BY <1>1, <2>1 DEF Becomes, PoolTypeOK
  <2> QED BY <1>1, <1>2, <2>2 DEF Invalidated, Invalidates
<1> QED BY <1>1, <1>2 DEF Invalidated, Invalidates

-----------------------------------------------------------------------------
(* The parts of the invariant, step by step *)

LEMMA TypeStep == PoolTypeOK /\ Placed /\ [PoolNext]_pool => PoolTypeOK'
<1> USE PoolAssumption
<1> SUFFICES ASSUME PoolTypeOK, Placed, [PoolNext]_pool PROVE PoolTypeOK'
  OBVIOUS
<1>1. ASSUME NEW h \in Holders, Acquire(h) PROVE PoolTypeOK'
  <2>1. entry' \in 0..MaxEntries /\ made' \in [entries : 0..MaxEntries, kits : Nat]
    BY <1>1 DEF PoolTypeOK, Acquire
  <2>2. call' \in [Holders -> [pc : Where, at : 0..MaxEntries]]
    BY <1>1, <2>1 DEF PoolTypeOK, Acquire, Where
  <2> QED BY <1>1, <2>1, <2>2 DEF PoolTypeOK, Acquire
<1>2. ASSUME NEW h \in Holders, Enter(h) PROVE PoolTypeOK'
  <2>1. ent[call[h].at].kit \in Nat
    BY <1>2, EnterEffect DEF Enters, PoolTypeOK
  <2>0. Enters(h)
    BY <1>2, EnterEffect
  <2> QED BY <2>0, <2>1 DEF Enters, PoolTypeOK, Moves, Becomes
<1>3. ASSUME NEW h \in Holders, Prepared(h) PROVE PoolTypeOK'
  <2>0. Prepares(h)
    BY <1>3, PreparedEffect
  <2> QED BY <2>0 DEF Prepares, PoolTypeOK, Wakes, Becomes
<1>4. ASSUME NEW h \in Holders, PrepareFails(h) PROVE PoolTypeOK'
  <2>0. FailsToPrepare(h)
    BY <1>4, PrepareFailsEffect
  <2> QED BY <2>0 DEF FailsToPrepare, PoolTypeOK, Wakes, Becomes
<1>5. ASSUME NEW h \in Holders, Release(h) PROVE PoolTypeOK'
  BY <1>5 DEF PoolTypeOK, Release, Step, Where
<1>6. ASSUME NEW h \in Holders, Leave(h) PROVE PoolTypeOK'
  <2>0. Leaves(h)
    BY <1>6, LeaveEffect
  <2>1. open' \in SUBSET Nat
    BY <2>0 DEF Leaves, PoolTypeOK
  <2>2. orphaned' \in BOOLEAN
    BY <2>0 DEF Leaves, PoolTypeOK
  <2> QED BY <2>0, <2>1, <2>2 DEF Leaves, PoolTypeOK, Moves, Becomes
<1>7. CASE Invalidate
  BY <1>7 DEF PoolTypeOK, Invalidate
<1>8. CASE Invalidated
  <2>0. Invalidates
    BY <1>8, InvalidatedEffect
  <2>1. open' \in SUBSET Nat
    BY <2>0 DEF Invalidates, PoolTypeOK
  <2>2. invalidated' \in BOOLEAN
    BY <2>0 DEF Invalidates, PoolTypeOK
  <2> QED BY <2>0, <2>1, <2>2 DEF Invalidates, PoolTypeOK, Becomes
<1>9. CASE UNCHANGED pool
  BY <1>9 DEF PoolTypeOK, pool
<1> QED BY <1>1, <1>2, <1>3, <1>4, <1>5, <1>6, <1>7, <1>8, <1>9 DEF PoolNext

\* An entry a holder is at may change, and holders may move to it or to the map's.
LEMMA StillPlaced ==
    ASSUME PoolTypeOK, Placed, made'.entries = made.entries,
           entry' \in {0, entry}, invalidating' \in {0, invalidating, entry},
           \A g \in Holders : call'[g].pc \notin {"idle", "gone"} =>
               call'[g].at = call[g].at /\ call[g].pc \notin {"idle", "gone"},
           \A f \in Entries : f > made.entries => ent'[f] = ent[f]
    PROVE  Placed'
BY PoolAssumption DEF PoolTypeOK, Placed

\* Nobody is sent to an entry that was not made.
LEMMA PlacedStep == PoolTypeOK /\ Placed /\ [PoolNext]_pool => Placed'
<1> SUFFICES ASSUME PoolTypeOK, Placed, [PoolNext]_pool PROVE Placed'
  OBVIOUS
<1>0. made.entries \in 0..MaxEntries
  BY DEF PoolTypeOK
<1>1. ASSUME NEW h \in Holders, Acquire(h) PROVE Placed'
  <2>1. entry' \in 1..made'.entries /\ made.entries <= made'.entries /\ made'.entries \in Nat
    BY <1>1, <1>0, PoolAssumption DEF PoolTypeOK, Placed, Acquire
  <2>2. call'[h].at = entry' /\ \A g \in Holders \ {h} : call'[g] = call[g]
    BY <1>1 DEF PoolTypeOK, Acquire
  <2>3. UNCHANGED <<ent, invalidating>>
    BY <1>1 DEF Acquire
  <2>4. \A g \in Holders : call'[g].pc \notin {"idle", "gone"} => call'[g].at \in 1..made'.entries
    BY <1>0, <2>1, <2>2, PoolAssumption DEF Placed
  <2>5. \A f \in Entries : f > made'.entries => f > made.entries
    BY <1>0, <2>1, PoolAssumption DEF Entries
  <2>6. entry' <= made'.entries /\ invalidating' <= made'.entries
    BY <1>0, <2>1, <2>3, PoolAssumption DEF Placed, PoolTypeOK
  <2> QED BY <2>3, <2>4, <2>5, <2>6 DEF Placed
<1>2. ASSUME NEW h \in Holders, Enter(h) PROVE Placed'
  <2>1. Enters(h) /\ call[h].at <= made.entries
    BY <1>2, EnterEffect, AtAnEntry DEF Enter
  <2>2. \A f \in Entries : f > made.entries => f # call[h].at
    BY <1>0, <2>1, PoolAssumption DEF Entries, Enters
  <2>3. \A f \in Entries : f > made.entries => ent'[f] = ent[f]
    BY <2>1, <2>2 DEF Enters, Becomes
  <2>4. \A g \in Holders : call'[g].pc \notin {"idle", "gone"} =>
            call'[g].at = call[g].at /\ call[g].pc \notin {"idle", "gone"}
    BY <2>1 DEF Enters, Moves
  <2> QED BY <2>1, <2>3, <2>4, StillPlaced DEF Enters
<1>3. ASSUME NEW h \in Holders, Prepared(h) PROVE Placed'
  <2>1. Prepares(h) /\ call[h].at <= made.entries
    BY <1>3, PreparedEffect, AtAnEntry DEF Prepared
  <2>2. \A f \in Entries : f > made.entries => f # call[h].at
    BY <1>0, <2>1, PoolAssumption DEF Entries, Prepares
  <2>3. \A f \in Entries : f > made.entries => ent'[f] = ent[f]
    BY <2>1, <2>2 DEF Prepares, Becomes
  <2>4. \A g \in Holders : call'[g].pc \notin {"idle", "gone"} =>
            call'[g].at = call[g].at /\ call[g].pc \notin {"idle", "gone"}
    BY <2>1 DEF Prepares, Wakes
  <2>5. made'.entries = made.entries
    BY <2>1 DEF Prepares, PoolTypeOK
  <2> QED BY <2>1, <2>3, <2>4, <2>5, StillPlaced DEF Prepares
<1>4. ASSUME NEW h \in Holders, PrepareFails(h) PROVE Placed'
  <2>1. FailsToPrepare(h) /\ call[h].at <= made.entries
    BY <1>4, PrepareFailsEffect, AtAnEntry DEF PrepareFails
  <2>2. \A f \in Entries : f > made.entries => f # call[h].at
    BY <1>0, <2>1, PoolAssumption DEF Entries, FailsToPrepare
  <2>3. \A f \in Entries : f > made.entries => ent'[f] = ent[f]
    BY <2>1, <2>2 DEF FailsToPrepare, Becomes
  <2>4. \A g \in Holders : call'[g].pc \notin {"idle", "gone"} =>
            call'[g].at = call[g].at /\ call[g].pc \notin {"idle", "gone"}
    BY <2>1 DEF FailsToPrepare, Wakes
  <2> QED BY <2>1, <2>3, <2>4, StillPlaced DEF FailsToPrepare
<1>5. ASSUME NEW h \in Holders, Release(h) PROVE Placed'
  BY <1>5, <1>0, PoolAssumption DEF Placed, Release, Step, PoolTypeOK
<1>6. ASSUME NEW h \in Holders, Leave(h) PROVE Placed'
  <2>1. Leaves(h) /\ call[h].at <= made.entries
    BY <1>6, LeaveEffect, AtAnEntry DEF Leave
  <2>2. \A f \in Entries : f > made.entries => f # call[h].at
    BY <1>0, <2>1, PoolAssumption DEF Entries, Leaves
  <2>3. \A f \in Entries : f > made.entries => ent'[f] = ent[f]
    BY <2>1, <2>2 DEF Leaves, Becomes
  <2>4. \A g \in Holders : call'[g].pc \notin {"idle", "gone"} =>
            call'[g].at = call[g].at /\ call[g].pc \notin {"idle", "gone"}
    BY <2>1 DEF Leaves, Moves
  <2> QED BY <2>1, <2>3, <2>4, StillPlaced DEF Leaves
<1>7. CASE Invalidate
  BY <1>7 DEF Placed, Invalidate
<1>8. CASE Invalidated
  <2>1. Invalidates /\ invalidating <= made.entries
    BY <1>8, InvalidatedEffect DEF Placed
  <2>2. \A f \in Entries : f > made.entries => f # invalidating
    BY <1>0, <2>1, PoolAssumption DEF Entries, Invalidates
  <2>3. \A f \in Entries : f > made.entries => ent'[f] = ent[f]
    BY <2>1, <2>2 DEF Invalidates, Becomes
  <2> QED BY <2>1, <2>3, StillPlaced DEF Invalidates
<1>9. CASE UNCHANGED pool
  BY <1>9 DEF Placed, pool
<1> QED BY <1>1, <1>2, <1>3, <1>4, <1>5, <1>6, <1>7, <1>8, <1>9 DEF PoolNext

\* An entry is marked and unmarked by the holder that makes its kit, and unmarking wakes
\* the waiters.
LEMMA PreparerStep == PoolTypeOK /\ Placed /\ OnePreparer /\ [PoolNext]_pool => OnePreparer'
<1> SUFFICES ASSUME PoolTypeOK, Placed, OnePreparer, [PoolNext]_pool PROVE OnePreparer'
  OBVIOUS
<1>1. ASSUME NEW h \in Holders, Acquire(h) PROVE OnePreparer'
  <2>1. /\ call[h].pc = "idle" /\ call'[h].pc = "enter"
        /\ \A g \in Holders \ {h} : call'[g] = call[g]
        /\ ent' = ent
    BY <1>1 DEF PoolTypeOK, Acquire
  <2> QED BY <2>1 DEF OnePreparer
<1>2. ASSUME NEW h \in Holders, Enter(h) PROVE OnePreparer'
  <2>1. \A g \in Holders : call[g].pc \in {"prepare", "wait"} => call[g].at \in Entries
    BY AtAnEntry
  <2>0. Enters(h)
    BY <1>2, EnterEffect
  <2> QED BY <2>0, <2>1 DEF Enters, OnePreparer, Moves, Becomes
<1>3. ASSUME NEW h \in Holders, Prepared(h) PROVE OnePreparer'
  <2>1. \A g \in Holders : call[g].pc \in {"prepare", "wait"} => call[g].at \in Entries
    BY AtAnEntry
  <2>2. Prepares(h)
    BY <1>3, PreparedEffect
  <2>3. /\ ~ent'[call[h].at].preparing
        /\ \A f \in Entries \ {call[h].at} : ent'[f] = ent[f]
    BY <2>2 DEF Prepares, Becomes
  <2>4. /\ call[h].pc = "prepare" /\ call'[h].pc = "has"
        /\ \A g \in Holders : call'[g].at = call[g].at
        /\ \A g \in Holders \ {h} : call'[g].pc =
              IF call[g].pc = "wait" /\ call[g].at = call[h].at THEN "enter" ELSE call[g].pc
    BY <2>2 DEF Prepares, Wakes
  <2> QED BY <2>1, <2>3, <2>4 DEF OnePreparer
<1>4. ASSUME NEW h \in Holders, PrepareFails(h) PROVE OnePreparer'
  <2>1. \A g \in Holders : call[g].pc \in {"prepare", "wait"} => call[g].at \in Entries
    BY AtAnEntry
  <2>0. FailsToPrepare(h)
    BY <1>4, PrepareFailsEffect
  <2>3. /\ ~ent'[call[h].at].preparing
        /\ \A f \in Entries \ {call[h].at} : ent'[f] = ent[f]
    BY <2>0 DEF FailsToPrepare, Becomes
  <2>4. /\ call[h].pc = "prepare" /\ call'[h].pc = "gone"
        /\ \A g \in Holders : call'[g].at = call[g].at
        /\ \A g \in Holders \ {h} : call'[g].pc =
              IF call[g].pc = "wait" /\ call[g].at = call[h].at THEN "enter" ELSE call[g].pc
    BY <2>0 DEF FailsToPrepare, Wakes
  <2> QED BY <2>1, <2>3, <2>4 DEF OnePreparer
<1>5. ASSUME NEW h \in Holders, Release(h) PROVE OnePreparer'
  <2>1. /\ call[h].pc = "has" /\ call'[h].pc \in {"gone", "leave"}
        /\ \A g \in Holders \ {h} : call'[g] = call[g]
        /\ ent' = ent
    BY <1>5 DEF PoolTypeOK, Release, Step
  <2> QED BY <2>1 DEF OnePreparer
<1>6. ASSUME NEW h \in Holders, Leave(h) PROVE OnePreparer'
  <2>1. \A g \in Holders : call[g].pc \in {"prepare", "wait"} => call[g].at \in Entries
    BY AtAnEntry
  <2>2. Leaves(h)
    BY <1>6, LeaveEffect
  <2>3. \A f \in Entries : ent'[f].preparing = ent[f].preparing /\ (ent[f].kit = 0 => ent'[f].kit = 0)
    BY <2>2 DEF Leaves, Becomes
  <2>4. \A g \in Holders : call'[g] = call[g] \/ (call'[g].pc = "gone" /\ call[g].pc = "leave")
    <3>1. call[h].pc = "leave" /\ Moves(h, "gone", call[h].at)
      BY <2>2 DEF Leaves
    <3>2. call'[h].pc = "gone" /\ \A g \in Holders \ {h} : call'[g] = call[g]
      BY <3>1 DEF Moves
    <3> QED BY <3>1, <3>2
  <2> QED BY <2>1, <2>3, <2>4 DEF OnePreparer
<1>7. CASE Invalidate
  BY <1>7 DEF OnePreparer, Invalidate
<1>8. CASE Invalidated
  <2>1. \A g \in Holders : call[g].pc \in {"prepare", "wait"} => call[g].at \in Entries
    BY AtAnEntry
  <2>0. Invalidates
    BY <1>8, InvalidatedEffect
  <2> QED BY <2>0, <2>1 DEF Invalidates, OnePreparer, Becomes
<1>9. CASE UNCHANGED pool
  BY <1>9 DEF OnePreparer, pool
<1> QED BY <1>1, <1>2, <1>3, <1>4, <1>5, <1>6, <1>7, <1>8, <1>9 DEF PoolNext

\* The entry's count is the number of its holders: it grows with the holder that is given
\* the kit and shrinks with the one that leaves.
LEMMA HoldingGrows ==
    ASSUME PoolTypeOK, NEW h \in Holders, call[h].pc \notin {"has", "leave"}, call'[h].pc = "has",
           \A g \in Holders \ {h} : call'[g].pc \in {"has", "leave"} <=> call[g].pc \in {"has", "leave"}
    PROVE  /\ Holding' = Holding \cup {h}
           /\ Cardinality(Holding') = Cardinality(Holding) + 1
           /\ Cardinality(Holding) \in Nat
<1>1. Holding' = Holding \cup {h} /\ h \notin Holding
  BY DEF Holding
<1>2. IsFiniteSet(Holding)
  BY FS_Subset, PoolAssumption DEF Holding
<1> QED BY <1>1, <1>2, FS_AddElement, FS_CardinalityType

LEMMA HoldingShrinks ==
    ASSUME PoolTypeOK, NEW h \in Holding, call'[h].pc = "gone",
           \A g \in Holders \ {h} : call'[g].pc = call[g].pc
    PROVE  /\ Holding' = Holding \ {h}
           /\ Cardinality(Holding') = Cardinality(Holding) - 1
           /\ Cardinality(Holding) \in Nat \ {0}
<1>1. Holding' = Holding \ {h} /\ h \in Holding
  BY DEF Holding
<1>2. IsFiniteSet(Holding)
  BY FS_Subset, PoolAssumption DEF Holding
<1>3. Cardinality(Holding) \in Nat /\ Cardinality(Holding) # 0
  BY <1>1, <1>2, FS_CardinalityType, FS_EmptySet
<1> QED BY <1>1, <1>2, <1>3, FS_RemoveElement

LEMMA HoldingStays ==
    ASSUME \A g \in Holders : call'[g].pc \in {"has", "leave"} <=> call[g].pc \in {"has", "leave"}
    PROVE  Holding' = Holding
BY DEF Holding
LEMMA CountedStep ==
    PoolTypeOK /\ Placed /\ OnePreparer /\ Counted /\ [PoolNext]_pool => Counted'
<1> SUFFICES ASSUME PoolTypeOK, Placed, OnePreparer, Counted, [PoolNext]_pool, ~orphaned'
             PROVE  Counted'
  BY DEF Counted
<1> DEFINE OnWay(g) == call[g].pc \notin {"idle", "gone"}
<1>0. entry # 0 => entry \in Entries
  BY PoolAssumption DEF PoolTypeOK, Entries
<1>1. ASSUME NEW h \in Holders, Acquire(h) PROVE Counted'
  <2>1. /\ ~orphaned /\ ent' = ent /\ open' = open
        /\ call[h].pc = "idle" /\ call'[h].pc = "enter" /\ call'[h].at = entry'
        /\ \A g \in Holders \ {h} : call'[g] = call[g]
    BY <1>1 DEF PoolTypeOK, Acquire
  <2>2. Holding' = Holding
    BY <2>1, HoldingStays
  <2>3. CASE entry # 0
    BY <1>1, <2>1, <2>2, <2>3 DEF Counted, Acquire
  <2>4. CASE entry = 0
    <3>1. Holding = {} /\ open = {} /\ \A g \in Holders : ~OnWay(g)
      BY <2>1, <2>4 DEF Counted, Holding
    <3>2. entry' \in Entries /\ entry' # 0 /\ entry' > made.entries
      BY <1>1, <2>4, PoolAssumption DEF Acquire, PoolTypeOK, Entries
    <3>3. ent[entry'].refs = 0
      BY <3>2 DEF Placed
    <3> QED BY <2>1, <2>2, <3>1, <3>2, <3>3, FS_EmptySet DEF Counted
  <2> QED BY <2>3, <2>4
<1>2. ASSUME NEW h \in Holders, Enter(h) PROVE Counted'
  <2>0. Enters(h) /\ ~orphaned /\ entry' = entry /\ open' = open
    BY <1>2, EnterEffect DEF Enters
  <2>1. entry # 0 /\ call[h].at = entry /\ call[h].pc = "enter"
    BY <2>0 DEF Enters, Counted
  <2>2. \A g \in Holders : call'[g].pc \notin {"idle", "gone"} => call'[g].at = entry
    BY <2>0, <2>1 DEF Enters, Moves, Counted
  <2>3. CASE ent[entry].preparing \/ ent[entry].kit = 0
    <3>1. call'[h].pc \in {"wait", "prepare"} /\ \A g \in Holders \ {h} : call'[g] = call[g]
      BY <2>0, <2>1, <2>3 DEF Enters, Moves
    <3>2. Holding' = Holding
      BY <2>1, <3>1, HoldingStays
    <3>3. ent'[entry].refs = ent[entry].refs /\ ent'[entry].kit = ent[entry].kit
      BY <2>0, <2>1, <2>3 DEF Enters, Becomes
    <3> QED BY <2>0, <2>1, <2>2, <3>2, <3>3 DEF Counted
  <2>4. CASE ~(ent[entry].preparing \/ ent[entry].kit = 0)
    <3>1. call'[h].pc = "has" /\ \A g \in Holders \ {h} : call'[g] = call[g]
      BY <2>0, <2>1, <2>4 DEF Enters, Moves
    <3>2. Cardinality(Holding') = Cardinality(Holding) + 1
      BY <2>1, <3>1, HoldingGrows
    <3>3. ent'[entry].refs = ent[entry].refs + 1 /\ ent'[entry].kit = ent[entry].kit
      BY <2>0, <2>1, <2>4 DEF Enters, Becomes
    <3> QED BY <2>0, <2>1, <2>2, <3>2, <3>3 DEF Counted
  <2> QED BY <2>3, <2>4
<1>3. ASSUME NEW h \in Holders, Prepared(h) PROVE Counted'
  <2>0. Prepares(h) /\ ~orphaned /\ entry' = entry
    BY <1>3, PreparedEffect DEF Prepares
  <2>1. entry # 0 /\ call[h].at = entry /\ call[h].pc = "prepare"
    BY <2>0 DEF Prepares, Counted
  <2>2. /\ \A g \in Holders : call'[g].at = call[g].at
        /\ call'[h].pc = "has"
        /\ \A g \in Holders \ {h} : call'[g].pc = call[g].pc \/ (call[g].pc = "wait" /\ call'[g].pc = "enter")
    <3>1. Wakes(h, "has")
      BY <2>0 DEF Prepares
    <3> QED BY <3>1 DEF Wakes
  <2>3. \A g \in Holders : call'[g].pc \notin {"idle", "gone"} => call'[g].at = entry
    BY <2>0, <2>1, <2>2 DEF Counted
  <2>4. Cardinality(Holding') = Cardinality(Holding) + 1
    BY <2>1, <2>2, HoldingGrows
  <2>5. ent[entry].kit = 0
    BY <1>0, <2>1 DEF OnePreparer
  <2>6. open = {}
    BY <2>0, <2>5 DEF Counted
  <2>7. ent'[entry].refs = ent[entry].refs + 1 /\ ent'[entry].kit # 0 /\ open' = {ent'[entry].kit}
    BY <2>0, <2>1, <2>6 DEF Prepares, Becomes
  <2> QED BY <2>0, <2>1, <2>3, <2>4, <2>7 DEF Counted
<1>4. ASSUME NEW h \in Holders, PrepareFails(h) PROVE Counted'
  <2>0. FailsToPrepare(h) /\ ~orphaned /\ entry' = entry /\ open' = open
    BY <1>4, PrepareFailsEffect DEF FailsToPrepare
  <2>1. entry # 0 /\ call[h].at = entry /\ call[h].pc = "prepare"
    BY <2>0 DEF FailsToPrepare, Counted
  <2>2. /\ \A g \in Holders : call'[g].at = call[g].at
        /\ call'[h].pc = "gone"
        /\ \A g \in Holders \ {h} : call'[g].pc = call[g].pc \/ (call[g].pc = "wait" /\ call'[g].pc = "enter")
    <3>1. Wakes(h, "gone")
      BY <2>0 DEF FailsToPrepare
    <3> QED BY <3>1 DEF Wakes
  <2>3. \A g \in Holders : call'[g].pc \notin {"idle", "gone"} => call'[g].at = entry
    BY <2>0, <2>1, <2>2 DEF Counted
  <2>4. Holding' = Holding
    BY <2>1, <2>2, HoldingStays
  <2>5. ent'[entry].refs = ent[entry].refs /\ ent'[entry].kit = ent[entry].kit
    BY <2>0, <2>1 DEF FailsToPrepare, Becomes
  <2> QED BY <2>0, <2>1, <2>3, <2>4, <2>5 DEF Counted
<1>5. ASSUME NEW h \in Holders, Release(h) PROVE Counted'
  <2>1. ~orphaned /\ call[h].pc = "has" /\ UNCHANGED <<entry, ent, open>>
    BY <1>5 DEF Release
  <2>2. entry # 0
    BY <2>1 DEF Counted
  <2>3. call'[h].pc = "leave" /\ call'[h].at = entry /\ \A g \in Holders \ {h} : call'[g] = call[g]
    BY <1>5, <2>2 DEF Release, PoolTypeOK
  <2>4. Holding' = Holding
    BY <2>1, <2>3, HoldingStays
  <2> QED BY <2>1, <2>2, <2>3, <2>4 DEF Counted
<1>6. ASSUME NEW h \in Holders, Leave(h) PROVE Counted'
  <2>0. Leaves(h) /\ ~orphaned
    BY <1>6, LeaveEffect DEF Leaves
  <2>1. entry # 0 /\ call[h].at = entry /\ call[h].pc = "leave"
    BY <2>0 DEF Leaves, Counted
  <2>2. call'[h].pc = "gone" /\ \A g \in Holders \ {h} : call'[g] = call[g]
    BY <2>0 DEF Leaves, Moves
  <2>3. h \in Holding
    BY <2>1 DEF Holding
  <2>4. /\ Holding' = Holding \ {h}
        /\ Cardinality(Holding') = Cardinality(Holding) - 1
        /\ Cardinality(Holding) \in Nat \ {0}
    BY <2>2, <2>3, HoldingShrinks
  <2>5. ent[entry].refs = Cardinality(Holding)
    BY <2>0, <2>1 DEF Counted
  <2>6. CASE ent[entry].refs = 1 /\ ent[entry].kit # 0
    <3>1. /\ entry' = 0 /\ open' = open \ {ent[entry].kit}
          /\ orphaned' = (orphaned \/ \E g \in Holders : call[g] = [pc |-> "enter", at |-> entry])
      BY <2>0, <2>1, <2>6 DEF Leaves
    <3>6. ~\E g \in Holders : call[g] = [pc |-> "enter", at |-> entry]
      BY <3>1
    <3>2. Holding \subseteq {h}
      BY <2>3, <2>4, <2>5, <2>6, FS_EmptySet, FS_Subset, PoolAssumption DEF Holding
    <3>3. ~ent[entry].preparing
      BY <1>0, <2>1, <2>6 DEF OnePreparer
    <3>4. \A g \in Holders \ {h} : ~OnWay(g)
      <4> SUFFICES ASSUME NEW g \in Holders \ {h}, OnWay(g) PROVE FALSE
        OBVIOUS
      <4>1. call[g].at = entry
        BY <2>0 DEF Counted
      <4>2. call[g].pc \notin {"has", "leave"}
        BY <3>2 DEF Holding
      <4>3. call[g].pc \notin {"wait", "prepare"}
        BY <3>3, <4>1 DEF OnePreparer
      <4>4. call[g] = [pc |-> call[g].pc, at |-> call[g].at] /\ call[g].pc \in Where
        BY DEF PoolTypeOK
      <4>5. call[g].pc = "enter"
        BY <4>2, <4>3, <4>4 DEF Where
      <4> QED BY <3>6, <4>1, <4>4, <4>5
    <3>5. open' = {}
      BY <2>0, <3>1 DEF Counted
    <3> QED BY <2>2, <3>1, <3>4, <3>5 DEF Counted
  <2>7. CASE ~(ent[entry].refs = 1 /\ ent[entry].kit # 0)
    <3>1. /\ entry' = entry /\ open' = open
          /\ ent'[entry].refs = ent[entry].refs - 1 /\ ent'[entry].kit = ent[entry].kit
      BY <2>0, <2>1, <2>4, <2>5, <2>7 DEF Leaves, Becomes
    <3> QED BY <2>0, <2>1, <2>2, <2>4, <2>5, <3>1 DEF Counted
  <2> QED BY <2>6, <2>7
<1>7. CASE Invalidate
  <2>1. UNCHANGED <<entry, ent, call, open, orphaned>>
    BY <1>7 DEF Invalidate
  <2> QED BY <2>1 DEF Counted, Holding
<1>8. CASE Invalidated
  <2>0. Invalidates
    BY <1>8, InvalidatedEffect
  <2>1. UNCHANGED <<entry, call, orphaned>> /\ Holding' = Holding
    BY <2>0 DEF Invalidates, Holding
  <2>2. entry # 0 => ent'[entry].refs = ent[entry].refs
    BY <1>0, <2>0 DEF Invalidates, Becomes
  <2>3. \A k \in open' : entry # 0 /\ k = ent'[entry].kit /\ k # 0
    BY <1>0, <2>0, <2>1 DEF Invalidates, Becomes, Counted
  <2> QED BY <2>1, <2>2, <2>3 DEF Counted
<1>9. CASE UNCHANGED pool
  BY <1>9 DEF Counted, Holding, pool
<1> QED BY <1>1, <1>2, <1>3, <1>4, <1>5, <1>6, <1>7, <1>8, <1>9 DEF PoolNext
LEMMA SharedStep ==
    PoolTypeOK /\ Placed /\ OnePreparer /\ Counted /\ Shared /\ [PoolNext]_pool => Shared'
<1> SUFFICES ASSUME PoolTypeOK, Placed, OnePreparer, Counted, Shared, [PoolNext]_pool,
                    ~orphaned', ~invalidated'
             PROVE  Shared'
  BY DEF Shared
<1>0. entry # 0 => entry \in Entries
  BY PoolAssumption DEF PoolTypeOK, Entries
<1>1. ASSUME NEW h \in Holders, Acquire(h) PROVE Shared'
  <2>1. /\ ~orphaned /\ ~invalidated /\ UNCHANGED <<ent, open, uses>>
        /\ call[h].pc = "idle" /\ call'[h].pc = "enter"
        /\ \A g \in Holders \ {h} : call'[g] = call[g]
    BY <1>1 DEF PoolTypeOK, Acquire
  <2>2. Holding' = Holding
    BY <2>1, HoldingStays
  <2>3. CASE entry # 0
    BY <1>1, <2>1, <2>2, <2>3 DEF Shared, Acquire
  <2>4. CASE entry = 0
    <3>1. Holding = {}
      BY <2>1, <2>4 DEF Counted, Holding
    <3>2. entry' \in Entries /\ entry' > made.entries
      BY <1>1, <2>4, PoolAssumption DEF Acquire, PoolTypeOK, Entries
    <3>3. ent[entry'].kit = 0
      BY <3>2 DEF Placed
    <3> QED BY <2>1, <2>2, <3>1, <3>3 DEF Shared
  <2> QED BY <2>3, <2>4
<1>2. ASSUME NEW h \in Holders, Enter(h) PROVE Shared'
  <2>0. Enters(h) /\ ~orphaned /\ ~invalidated /\ entry' = entry /\ open' = open
    BY <1>2, EnterEffect DEF Enters
  <2>1. entry # 0 /\ call[h].at = entry /\ call[h].pc = "enter"
    BY <2>0 DEF Enters, Counted
  <2>3. CASE ent[entry].preparing \/ ent[entry].kit = 0
    <3>1. call'[h].pc \in {"wait", "prepare"} /\ \A g \in Holders \ {h} : call'[g] = call[g]
      BY <2>0, <2>1, <2>3 DEF Enters, Moves
    <3>2. Holding' = Holding
      BY <2>1, <3>1, HoldingStays
    <3>3. ent'[entry].kit = ent[entry].kit /\ uses' = uses
      BY <2>0, <2>1, <2>3 DEF Enters, Becomes
    <3> QED BY <2>0, <2>1, <3>2, <3>3 DEF Shared
  <2>4. CASE ~(ent[entry].preparing \/ ent[entry].kit = 0)
    <3>1. call'[h].pc = "has" /\ \A g \in Holders \ {h} : call'[g] = call[g]
      BY <2>0, <2>1, <2>4 DEF Enters, Moves
    <3>2. Holding' = Holding \cup {h}
      BY <2>1, <3>1, HoldingGrows
    <3>3. ent'[entry].kit = ent[entry].kit
      BY <2>0, <2>1, <2>4 DEF Enters, Becomes
    <3>4. uses'[h] = ent[entry].kit /\ \A g \in Holders \ {h} : uses'[g] = uses[g]
      BY <2>0, <2>1, <2>4 DEF Enters, PoolTypeOK
    <3> QED BY <2>0, <2>1, <2>4, <3>2, <3>3, <3>4 DEF Shared, Holding
  <2> QED BY <2>3, <2>4
<1>3. ASSUME NEW h \in Holders, Prepared(h) PROVE Shared'
  <2>0. Prepares(h) /\ ~orphaned /\ ~invalidated /\ entry' = entry
    BY <1>3, PreparedEffect DEF Prepares
  <2>1. entry # 0 /\ call[h].at = entry /\ call[h].pc = "prepare"
    BY <2>0 DEF Prepares, Counted
  <2>2. /\ call'[h].pc = "has"
        /\ \A g \in Holders \ {h} : call'[g].pc = call[g].pc \/ (call[g].pc = "wait" /\ call'[g].pc = "enter")
    <3>1. Wakes(h, "has")
      BY <2>0 DEF Prepares
    <3> QED BY <3>1 DEF Wakes
  <2>3. Holding' = Holding \cup {h}
    BY <2>1, <2>2, HoldingGrows
  <2>4. Holding = {}
    BY <1>0, <2>0, <2>1 DEF OnePreparer, Shared
  <2>5. uses'[h] = ent'[entry].kit /\ ent'[entry].kit # 0 /\ ent'[entry].kit \in open'
    BY <2>0, <2>1 DEF Prepares, Becomes, PoolTypeOK
  <2> QED BY <2>0, <2>1, <2>3, <2>4, <2>5 DEF Shared
<1>4. ASSUME NEW h \in Holders, PrepareFails(h) PROVE Shared'
  <2>0. FailsToPrepare(h) /\ ~orphaned /\ ~invalidated /\ UNCHANGED <<entry, open, uses>>
    BY <1>4, PrepareFailsEffect DEF FailsToPrepare
  <2>1. entry # 0 /\ call[h].at = entry /\ call[h].pc = "prepare"
    BY <2>0 DEF FailsToPrepare, Counted
  <2>2. /\ call'[h].pc = "gone"
        /\ \A g \in Holders \ {h} : call'[g].pc = call[g].pc \/ (call[g].pc = "wait" /\ call'[g].pc = "enter")
    <3>1. Wakes(h, "gone")
      BY <2>0 DEF FailsToPrepare
    <3> QED BY <3>1 DEF Wakes
  <2>3. Holding' = Holding
    BY <2>1, <2>2, HoldingStays
  <2>4. ent'[entry].kit = ent[entry].kit
    BY <2>0, <2>1 DEF FailsToPrepare, Becomes
  <2> QED BY <2>0, <2>3, <2>4 DEF Shared
<1>5. ASSUME NEW h \in Holders, Release(h) PROVE Shared'
  <2>1. ~orphaned /\ ~invalidated /\ call[h].pc = "has" /\ UNCHANGED <<entry, ent, open, uses>>
    BY <1>5 DEF Release
  <2>2. entry # 0
    BY <2>1 DEF Counted
  <2>3. call'[h].pc = "leave" /\ \A g \in Holders \ {h} : call'[g] = call[g]
    BY <1>5, <2>2 DEF Release, PoolTypeOK
  <2>4. Holding' = Holding
    BY <2>1, <2>3, HoldingStays
  <2> QED BY <2>1, <2>4 DEF Shared
<1>6. ASSUME NEW h \in Holders, Leave(h) PROVE Shared'
  <2>0. Leaves(h) /\ ~orphaned /\ ~invalidated /\ uses' = uses
    BY <1>6, LeaveEffect DEF Leaves
  <2>1. entry # 0 /\ call[h].at = entry /\ call[h].pc = "leave" /\ h \in Holding
    BY <2>0 DEF Leaves, Counted, Holding
  <2>2. call'[h].pc = "gone" /\ \A g \in Holders \ {h} : call'[g] = call[g]
    <3>1. Moves(h, "gone", call[h].at)
      BY <2>0 DEF Leaves
    <3> QED BY <3>1 DEF Moves
  <2>3. /\ Holding' = Holding \ {h}
        /\ Cardinality(Holding') = Cardinality(Holding) - 1
        /\ Cardinality(Holding) \in Nat \ {0}
    BY <2>1, <2>2, HoldingShrinks
  <2>4. ent[entry].refs = Cardinality(Holding) /\ ent[entry].kit # 0
    BY <2>0, <2>1 DEF Counted, Shared
  <2>5. CASE ent[entry].refs = 1
    <3>1. entry' = 0
      BY <2>0, <2>1, <2>4, <2>5 DEF Leaves
    <3>2. Holding' = {}
      <4>1. IsFiniteSet(Holding')
        BY FS_Subset, PoolAssumption DEF Holding
      <4>2. Cardinality(Holding') = 0
        BY <2>3, <2>4, <2>5
      <4> QED BY <4>1, <4>2, FS_EmptySet
    <3> QED BY <3>1, <3>2 DEF Shared
  <2>6. CASE ent[entry].refs # 1
    <3>1. entry' = entry /\ open' = open /\ ent'[entry].kit = ent[entry].kit
      BY <2>0, <2>1, <2>3, <2>4, <2>6 DEF Leaves, Becomes
    <3>2. Holding' # {}
      BY <2>3, <2>4, <2>6, FS_EmptySet
    <3> QED BY <2>0, <2>1, <2>3, <3>1, <3>2 DEF Shared
  <2> QED BY <2>5, <2>6
<1>7. CASE Invalidate
  BY <1>7 DEF Shared, Holding, Invalidate
<1>8. CASE Invalidated
  <2>1. Invalidates
    BY <1>8, InvalidatedEffect
  <2>2. UNCHANGED <<entry, ent, call, uses, open, orphaned, invalidated>>
    BY <2>1 DEF Invalidates
  <2> QED BY <2>2 DEF Shared, Holding
<1>9. CASE UNCHANGED pool
  BY <1>9 DEF Shared, Holding, pool
<1> QED BY <1>1, <1>2, <1>3, <1>4, <1>5, <1>6, <1>7, <1>8, <1>9 DEF PoolNext

-----------------------------------------------------------------------------
(* What the pool promises *)

LEMMA IInvInit == PoolInit => IInv
<1> SUFFICES ASSUME PoolInit PROVE IInv
  OBVIOUS
<1>1. PoolTypeOK
  <2>1. 0 \in 0..MaxEntries /\ 0 \in Nat /\ "idle" \in Where
    BY PoolAssumption DEF Where
  <2>2. /\ ent \in [Entries -> [refs : Nat, kit : Nat, preparing : BOOLEAN]]
        /\ call \in [Holders -> [pc : Where, at : 0..MaxEntries]]
        /\ made \in [entries : 0..MaxEntries, kits : Nat]
    BY <2>1 DEF PoolInit
  <2> QED BY <2>1, <2>2 DEF PoolInit, PoolTypeOK
<1>2. Placed
  BY PoolAssumption DEF PoolInit, Placed, Entries
<1>3. OnePreparer
  BY DEF PoolInit, OnePreparer
<1>4. Counted
  BY DEF PoolInit, Counted
<1>5. Shared
  BY DEF PoolInit, Shared, Holding
<1> QED BY <1>1, <1>2, <1>3, <1>4, <1>5 DEF IInv

LEMMA IInvStep == IInv /\ [PoolNext]_pool => IInv'
BY TypeStep, PlacedStep, PreparerStep, CountedStep, SharedStep DEF IInv

\* Until a kit is closed under its holders or an entry deleted under one on its way, the kit
\* of a workspace is open exactly while somebody holds it, and all hold the same one.
LEMMA IInvShares == IInv => KitIsShared
<1> SUFFICES ASSUME IInv PROVE KitIsShared
  OBVIOUS
<1>1. KitLivesWhileHeld
  <2> SUFFICES ASSUME ~orphaned, ~invalidated PROVE open = {uses[h] : h \in Holding}
    BY DEF KitLivesWhileHeld
  <2>1. \A h \in Holding : entry # 0
    BY DEF IInv, Counted, Holding
  <2>2. \A h \in Holding : uses[h] \in open
    BY <2>1 DEF IInv, Shared
  <2>3. \A k \in open : \E h \in Holding : uses[h] = k
    BY DEF IInv, Counted, Shared
  <2> QED BY <2>2, <2>3
<1>2. OneKitPerWorkspace
  BY DEF IInv, Counted, OneKitPerWorkspace
<1> QED BY <1>1, <1>2 DEF KitIsShared

\* Somebody makes the kit a holder waits for.
LEMMA IInvWakes == IInv => WaitersAreWoken
<1> SUFFICES ASSUME IInv, NEW h \in Holders, call[h].pc = "wait"
             PROVE  At(h).preparing /\ \E g \in Holders : call[g] = [pc |-> "prepare", at |-> call[h].at]
  BY DEF WaitersAreWoken
<1>1. At(h).preparing /\ call[h].at \in Entries
  BY AtAnEntry DEF IInv, OnePreparer, At
<1>2. PICK g \in Holders : call[g].pc = "prepare" /\ call[g].at = call[h].at
  BY <1>1 DEF IInv, OnePreparer, At
<1>3. call[g] = [pc |-> call[g].pc, at |-> call[g].at]
  BY DEF IInv, PoolTypeOK
<1> QED BY <1>1, <1>2, <1>3

\* The invariant holds in every state of the pool.
THEOREM PoolInvariant == PoolSpec => []IInv
BY IInvInit, IInvStep, PTL DEF PoolSpec

\* Every variable of the pool keeps its type.
THEOREM PoolTypeCorrect == PoolSpec => []PoolTypeOK
<1>1. IInv => PoolTypeOK
  BY DEF IInv
<1> QED BY <1>1, PoolInvariant, PTL

\* The kit is shared by the holders that have it, closed with the last, and made once.
THEOREM PoolSharesTheKit == PoolSpec => []KitIsShared
BY IInvShares, PoolInvariant, PTL

\* A holder that waits for the kit waits for somebody.
THEOREM PoolWakesWaiters == PoolSpec => []WaitersAreWoken
BY IInvWakes, PoolInvariant, PTL

-----------------------------------------------------------------------------
(* Types *)

\* A build, and a rebuild that has a controller, has one of the holders.
Owned ==
    /\ \A t \in Tabs : build[t].pc # "none" => build[t].c \in Holders
    /\ \A t \in Tabs : cmd[t].pc \in {"drop", "kit", "undo", "carry"} => cmd[t].c \in Holders

\* The type invariant without the pool's part.
TabsTyped ==
    /\ st \in [Tabs -> {"new", "open", "teardown", "unlease", "closed", "trashing", "trashed"}]
    /\ ctrl \in [Tabs -> Holders \cup {None}] /\ path \in [Tabs -> 0..MaxPaths]
    /\ build \in [Tabs -> Job] /\ cmd \in [Tabs -> Job]
    /\ live \in SUBSET Holders /\ at \in [Holders -> 0..MaxPaths]
    /\ lease \in [Paths -> Tabs \cup {None}] /\ topic \in [Paths -> Tabs \cup {None}]
    /\ file \in SUBSET Paths /\ trash \in SUBSET Paths /\ deleting \in 0..MaxPaths
    /\ saver \in [Tabs -> {"none", "snap", "settle"}] /\ again \in SUBSET Tabs
    /\ dirty \in SUBSET Holders /\ turns \in [Tabs -> SUBSET Holders] /\ cut \in SUBSET Holders
    /\ named \in 0..MaxPaths /\ given \in 0..MaxCommands
    /\ moved \in SUBSET Tabs /\ unsaved \in SUBSET Tabs /\ crossed \in SUBSET Tabs

\* A snapshot writes files and cleans controllers, or fails.
SavesTyped == file' \in SUBSET Paths /\ dirty' \in SUBSET Holders
LEMMA SnapshotTyped ==
    ASSUME TabsTyped, NEW t \in Tabs, ctrl[t] \in Holders
    PROVE  /\ Snapshot(t) \/ SnapshotFails(t) => SavesTyped
           /\ LastSnapshot(t) => SavesTyped /\ cut' \in SUBSET Holders
<1>1. ({at[ctrl[t]]} \ {0}) \subseteq Paths
  BY TabsAssumption DEF TabsTyped, Paths
<1>2. Snapshot(t) \/ SnapshotFails(t) => SavesTyped
  BY <1>1 DEF Snapshot, SnapshotFails, TabsTyped, SavesTyped
<1>3. LastSnapshot(t) => (Snapshot(t) \/ SnapshotFails(t)) /\ cut' \in SUBSET Holders
  BY DEF LastSnapshot, TabsTyped
<1> QED BY <1>2, <1>3

LEMMA TypedStep == TabsTyped /\ Owned /\ [Next]_vars => TabsTyped' /\ Owned'
<1> USE TabsAssumption DEF TabsTyped, Owned, tabs, disk, saves, past, Paths
<1> SUFFICES ASSUME TabsTyped, Owned, [Next]_vars PROVE TabsTyped' /\ Owned'
  OBVIOUS
<1>1. ASSUME NEW t \in Tabs, OpenTab(t) PROVE TabsTyped' /\ Owned'
  BY <1>1 DEF OpenTab, Idle, Job, Steps
<1>2. ASSUME NEW t \in Tabs, NEW c \in Holders, StartBuild(t, c) PROVE TabsTyped' /\ Owned'
  BY <1>2 DEF StartBuild, Idle, Job, Steps
<1>3. ASSUME NEW t \in Tabs, KitMissing(t) PROVE TabsTyped' /\ Owned'
  <2>1. build' = [build EXCEPT ![t] = Idle]
    BY <1>3 DEF KitMissing
  <2>2. build' \in [Tabs -> Job]
    BY <2>1 DEF Idle, Job, Steps
  <2>3. Owned'
    BY <1>3, <2>1 DEF KitMissing, Idle
  <2> QED BY <1>3, <2>2, <2>3 DEF KitMissing
<1>4. ASSUME NEW t \in Tabs, Boot(t) PROVE TabsTyped' /\ Owned'
  <2>1. /\ build' \in [Tabs -> Job] /\ \A u \in Tabs \ {t} : build'[u] = build[u]
        /\ build'[t].c = build[t].c /\ build'[t].pc # "none"
    <3>1. build' = [build EXCEPT ![t].pc = "claim"] \/ build' = [build EXCEPT ![t].pc = "undo"]
      BY <1>4 DEF Boot
    <3>2. build[t].pc = "kit"
      BY <1>4 DEF Boot
    <3>3. build[t] \in Job /\ build \in [Tabs -> Job]
      OBVIOUS
    <3> HIDE DEF TabsTyped, Owned
    <3>4. [build[t] EXCEPT !.pc = "claim"] \in Job /\ [build[t] EXCEPT !.pc = "undo"] \in Job
      BY <3>2, <3>3 DEF Job, Steps
    <3> QED BY <3>1, <3>2, <3>3, <3>4 DEF Job
  <2>2. live' \in SUBSET Holders
    BY <1>4 DEF Boot, Idle, Job, Steps
  <2>3. Owned'
    <3>1. cmd' = cmd /\ build[t].pc = "kit"
      BY <1>4 DEF Boot
    <3> QED BY <2>1, <3>1
  <2>4. UNCHANGED <<st, ctrl, path, cmd, disk, saves, past, at, named, given>>
    BY <1>4 DEF Boot
  <2> QED BY <2>1, <2>2, <2>3, <2>4
<1>5. ASSUME NEW t \in Tabs, Claim(t) PROVE TabsTyped' /\ Owned'
  <2>1. /\ build' \in [Tabs -> Job] /\ \A u \in Tabs \ {t} : build'[u] = build[u]
        /\ build'[t].c = build[t].c /\ build'[t].pc # "none"
    <3>1. PICK raw \in (IF path[t] # 0 THEN {path[t]} ELSE file \cup {0}) :
            \/ build' = [build EXCEPT ![t].pc = "fresh"]
            \/ build' = [build EXCEPT ![t].pc = "load", ![t].path = raw]
      BY <1>5 DEF Claim
    <3>2. raw \in 0..MaxPaths /\ build[t] \in Job /\ build \in [Tabs -> Job]
      <4>1. path[t] \in 0..MaxPaths /\ file \subseteq 1..MaxPaths /\ MaxPaths \in Nat
        OBVIOUS
      <4>2. build[t] \in Job /\ build \in [Tabs -> Job]
        OBVIOUS
      <4> HIDE DEF TabsTyped, Owned
      <4>3. raw = path[t] \/ raw \in file \/ raw = 0
        BY <3>1
      <4>4. raw \in 0..MaxPaths
        <5>1. ASSUME NEW r \in 1..MaxPaths PROVE r \in 0..MaxPaths
          BY <4>1
        <5>2. CASE raw \in file
          BY <4>1, <5>1, <5>2, Zenon
        <5>3. CASE raw = 0
          BY <4>1, <5>3
        <5> QED BY <4>1, <4>3, <5>2, <5>3, Zenon
      <4> QED BY <4>2, <4>4
    <3> HIDE DEF TabsTyped, Owned
    <3>3. CASE build' = [build EXCEPT ![t].pc = "fresh"]
      <4>1. [build[t] EXCEPT !.pc = "fresh"] \in Job
        BY <3>2 DEF Job, Steps
      <4> QED BY <3>2, <3>3, <4>1 DEF Job
    <3>4. CASE build' = [build EXCEPT ![t].pc = "load", ![t].path = raw]
      <4>1. [[build[t] EXCEPT !.pc = "load"] EXCEPT !.path = raw] \in Job
        BY <3>2 DEF Job, Steps
      <4> QED BY <3>2, <3>4, <4>1 DEF Job
    <3> QED BY <3>1, <3>3, <3>4
  <2>2. lease' \in [Paths -> Tabs \cup {None}]
    <3>1. lease' = lease \/ \E raw : lease' = [lease EXCEPT ![raw] = t]
      BY <1>5 DEF Claim
    <3> QED BY <3>1
  <2>3. Owned'
    <3>1. cmd' = cmd /\ build[t].pc = "claim"
      BY <1>5 DEF Claim
    <3> QED BY <2>1, <3>1
  <2>4. UNCHANGED <<st, ctrl, path, cmd, file, trash, topic, deleting, saves, past, live, at, named, given>>
    BY <1>5 DEF Claim
  <2> QED BY <2>1, <2>2, <2>3, <2>4
<1>6. ASSUME NEW t \in Tabs, Load(t) PROVE TabsTyped' /\ Owned'
  <2>1. /\ build' \in [Tabs -> Job] /\ \A u \in Tabs \ {t} : build'[u] = build[u]
        /\ build'[t].c = build[t].c /\ build'[t].pc # "none"
    <3>1. build' = [build EXCEPT ![t].pc = "install"] \/ build' = [build EXCEPT ![t].pc = "fresh"]
      BY <1>6 DEF Load
    <3>2. build[t].pc = "load"
      BY <1>6 DEF Load
    <3>3. build[t] \in Job /\ build \in [Tabs -> Job]
      OBVIOUS
    <3> HIDE DEF TabsTyped, Owned
    <3>4. [build[t] EXCEPT !.pc = "install"] \in Job /\ [build[t] EXCEPT !.pc = "fresh"] \in Job
      BY <3>2, <3>3 DEF Job, Steps
    <3> QED BY <3>1, <3>2, <3>3, <3>4 DEF Job
  <2>2. at' \in [Holders -> 0..MaxPaths]
    BY <1>6 DEF Load, Idle, Job, Steps
  <2>3. lease' \in [Paths -> Tabs \cup {None}]
    <3>1. lease' = lease \/ lease' = Released(t)
      BY <1>6 DEF Load
    <3> QED BY <3>1 DEF Released
  <2>4. Owned'
    <3>1. cmd' = cmd /\ build[t].pc = "load"
      BY <1>6 DEF Load
    <3> QED BY <2>1, <3>1
  <2>5. UNCHANGED <<st, ctrl, path, cmd, file, trash, topic, deleting, saves, past, live, named, given>>
    BY <1>6 DEF Load
  <2> QED BY <2>1, <2>2, <2>3, <2>4, <2>5
<1>7. ASSUME NEW t \in Tabs, Fresh(t) PROVE TabsTyped' /\ Owned'
  <2>1. /\ build' \in [Tabs -> Job] /\ \A u \in Tabs \ {t} : build'[u] = build[u]
        /\ build'[t].c = build[t].c /\ build'[t].pc # "none"
    <3>1. build' = [build EXCEPT ![t].pc = "install", ![t].path = named']
      BY <1>7 DEF Fresh
    <3>2. build[t].pc = "fresh" /\ named' \in 0..MaxPaths
      BY <1>7 DEF Fresh
    <3>3. build[t] \in Job /\ build \in [Tabs -> Job]
      OBVIOUS
    <3> HIDE DEF TabsTyped, Owned
    <3>4. [[build[t] EXCEPT !.pc = "install"] EXCEPT !.path = named'] \in Job
      BY <3>2, <3>3 DEF Job, Steps
    <3> QED BY <3>1, <3>2, <3>3, <3>4 DEF Job
  <2>2. at' \in [Holders -> 0..MaxPaths]
    BY <1>7 DEF Fresh, Idle, Job, Steps
  <2>3. lease' \in [Paths -> Tabs \cup {None}]
    BY <1>7 DEF Fresh, Idle, Job, Steps
  <2>4. named' \in 0..MaxPaths
    BY <1>7 DEF Fresh, Idle, Job, Steps
  <2>5. Owned'
    <3>1. cmd' = cmd /\ build[t].pc = "fresh"
      BY <1>7 DEF Fresh
    <3> QED BY <2>1, <3>1
  <2>6. UNCHANGED <<st, ctrl, path, cmd, file, trash, topic, deleting, saves, past, live, given>>
    BY <1>7 DEF Fresh
  <2> QED BY <2>1, <2>2, <2>3, <2>4, <2>5, <2>6
<1>8. ASSUME NEW t \in Tabs, Install(t) PROVE TabsTyped' /\ Owned'
  <2>1. ctrl' \in [Tabs -> Holders \cup {None}]
    BY <1>8 DEF Install, Idle, Job, Steps
  <2>2. path' \in [Tabs -> 0..MaxPaths]
    BY <1>8 DEF Install, Idle, Job, Steps
  <2>3. build' \in [Tabs -> Job]
    BY <1>8 DEF Install, Idle, Job, Steps
  <2>4. topic' \in [Paths -> Tabs \cup {None}]
    BY <1>8 DEF Install, Idle, Job, Steps
  <2>5. moved' \in SUBSET Tabs
    BY <1>8 DEF Install, Idle, Job, Steps
  <2>6. Owned'
    BY <1>8 DEF Install, Idle, Job, Steps
  <2>7. UNCHANGED <<st, cmd, lease, file, trash, deleting, saves, crossed, live, at, named, given>>
    BY <1>8 DEF Install
  <2> QED BY <2>1, <2>2, <2>3, <2>4, <2>5, <2>6, <2>7
<1>9. ASSUME NEW t \in Tabs, CloseTab(t) PROVE TabsTyped' /\ Owned'
  BY <1>9 DEF CloseTab, Cross, Command, Idle, Job, Steps
<1>10. ASSUME NEW t \in Tabs, Teardown(t) PROVE TabsTyped' /\ Owned'
  <2>1. st' \in [Tabs -> {"new", "open", "teardown", "unlease", "closed", "trashing", "trashed"}]
    <3>1. st' = [st EXCEPT ![t] = "unlease"]
      BY <1>10 DEF Teardown
    <3> QED BY <3>1
  <2>2. ctrl' \in [Tabs -> Holders \cup {None}]
    BY <1>10 DEF Teardown
  <2>3. live' \in SUBSET Holders
    BY <1>10 DEF Teardown
  <2>4. SavesTyped /\ cut' \in SUBSET Holders
    <3>1. \/ UNCHANGED <<file, dirty, cut>>
          \/ ctrl[t] \in Holders /\ LastSnapshot(t)
      BY <1>10 DEF Teardown
    <3>2. CASE UNCHANGED <<file, dirty, cut>>
      BY <3>2 DEF SavesTyped
    <3> HIDE DEF TabsTyped
    <3>3. CASE ctrl[t] \in Holders /\ LastSnapshot(t)
      BY <3>3, SnapshotTyped
    <3> QED BY <3>1, <3>2, <3>3
  <2>5. Owned'
    BY <1>10 DEF Teardown
  <2>6. UNCHANGED <<path, build, cmd, lease, trash, topic, deleting, saver, again, turns, unsaved, past, at, named,
                    given>>
    BY <1>10 DEF Teardown
  <2> QED BY <2>1, <2>2, <2>3, <2>4, <2>5, <2>6 DEF SavesTyped
<1>11. ASSUME NEW t \in Tabs, Unlease(t) PROVE TabsTyped' /\ Owned'
  BY <1>11 DEF Unlease, Released, Idle, Job, Steps
<1>12. ASSUME NEW t \in Tabs, TrashTopic(t) PROVE TabsTyped' /\ Owned'
  <2>1. st' \in [Tabs -> {"new", "open", "teardown", "unlease", "closed", "trashing", "trashed"}]
    BY <1>12 DEF TrashTopic
  <2>2. live' \in SUBSET Holders
    BY <1>12 DEF TrashTopic
  <2>3. SavesTyped
    <3>1. \/ UNCHANGED <<file, dirty>>
          \/ ctrl[t] \in Holders /\ Snapshot(t)
          \/ /\ ctrl[t] \in Holders /\ dirty' = dirty \cup {ctrl[t]}
             /\ file' \in {file, file \cup ({at[ctrl[t]]} \ {0})}
      BY <1>12 DEF TrashTopic, SnapshotFails
    <3>2. ctrl[t] \in Holders => ({at[ctrl[t]]} \ {0}) \subseteq Paths
      OBVIOUS
    <3>3. CASE ctrl[t] \in Holders /\ Snapshot(t)
      BY <3>3, SnapshotTyped
    <3>4. CASE UNCHANGED <<file, dirty>>
      BY <3>4 DEF SavesTyped
    <3>5. CASE /\ ctrl[t] \in Holders /\ dirty' = dirty \cup {ctrl[t]}
               /\ file' \in {file, file \cup ({at[ctrl[t]]} \ {0})}
      BY <3>2, <3>5 DEF SavesTyped
    <3> QED BY <3>1, <3>3, <3>4, <3>5
  <2>4. turns' \in [Tabs -> SUBSET Holders] /\ cut' \in SUBSET Holders
    <3>1. \/ UNCHANGED <<turns, cut>>
          \/ /\ ctrl[t] \in Holders /\ cut' = cut \cup {ctrl[t]}
             /\ turns' = [turns EXCEPT ![t] = @ \cup {ctrl[t]}]
      BY <1>12 DEF TrashTopic
    <3>2. turns \in [Tabs -> SUBSET Holders] /\ cut \in SUBSET Holders
      OBVIOUS
    <3> HIDE DEF TabsTyped, Owned
    <3>3. CASE /\ ctrl[t] \in Holders /\ cut' = cut \cup {ctrl[t]}
               /\ turns' = [turns EXCEPT ![t] = @ \cup {ctrl[t]}]
      <4>1. turns[t] \cup {ctrl[t]} \in SUBSET Holders
        BY <3>2, <3>3
      <4> QED BY <3>2, <3>3, <4>1
    <3> QED BY <3>1, <3>2, <3>3
  <2>5. given' \in 0..MaxCommands
    BY <1>12 DEF TrashTopic, Command
  <2>6. crossed' \in SUBSET Tabs
    BY <1>12 DEF TrashTopic, Cross
  <2>7. Owned'
    BY <1>12 DEF TrashTopic
  <2>8. UNCHANGED <<ctrl, path, build, cmd, lease, trash, topic, deleting, saver, again, unsaved, moved, at, named>>
    BY <1>12 DEF TrashTopic
  <2> QED BY <2>1, <2>2, <2>3, <2>4, <2>5, <2>6, <2>7, <2>8 DEF SavesTyped
<1>13. ASSUME NEW t \in Tabs, Trashed(t) PROVE TabsTyped' /\ Owned'
  BY <1>13 DEF Trashed, Idle, Job, Steps
<1>14. ASSUME NEW t \in Tabs, NewSession(t) PROVE TabsTyped' /\ Owned'
  <2>1. /\ cmd' \in [Tabs -> Job] /\ \A u \in Tabs \ {t} : cmd'[u] = cmd[u]
        /\ cmd'[t].pc = "sync"
    <3>1. cmd' = [cmd EXCEPT ![t].pc = "sync"]
      BY <1>14 DEF NewSession
    <3>2. TRUE
      BY <1>14 DEF NewSession
    <3>3. cmd[t] \in Job /\ cmd \in [Tabs -> Job]
      OBVIOUS
    <3> HIDE DEF TabsTyped, Owned
    <3>4. [cmd[t] EXCEPT !.pc = "sync"] \in Job
      BY <3>2, <3>3 DEF Job, Steps
    <3> QED BY <3>1, <3>2, <3>3, <3>4 DEF Job
  <2>2. at' \in [Holders -> 0..MaxPaths]
    BY <1>14 DEF NewSession, Begin, Command, Snapshot, Idle, Job, Steps
  <2>3. ctrl[t] \in Holders /\ Snapshot(t)
    BY <1>14 DEF NewSession
  <2>4. SavesTyped
    BY <2>3, SnapshotTyped
  <2>5. named' \in 0..MaxPaths
    BY <1>14 DEF NewSession, Begin, Command, Snapshot, Idle, Job, Steps
  <2>6. given' \in 0..MaxCommands
    BY <1>14 DEF NewSession, Begin, Command, Snapshot, Idle, Job, Steps
  <2>7. moved' \in SUBSET Tabs
    BY <1>14 DEF NewSession, Begin, Command, Snapshot, Idle, Job, Steps
  <2>8. Owned'
    <3>1. build' = build
      BY <1>14 DEF NewSession
    <3> QED BY <2>1, <3>1
  <2>9. UNCHANGED <<st, ctrl, path, build, lease, trash, topic, deleting, saver, again, turns, unsaved, cut, crossed, live>>
    BY <1>14 DEF NewSession
  <2> QED BY <2>1, <2>2, <2>4, <2>5, <2>6, <2>7, <2>8, <2>9 DEF SavesTyped
<1>15. ASSUME NEW t \in Tabs, NEW p \in Paths, ResumeSession(t, p) PROVE TabsTyped' /\ Owned'
  <2>1. /\ cmd' \in [Tabs -> Job] /\ \A u \in Tabs \ {t} : cmd'[u] = cmd[u]
        /\ cmd'[t].pc = "sync"
    <3>1. cmd' = [cmd EXCEPT ![t].pc = "sync"]
      BY <1>15 DEF ResumeSession
    <3>2. TRUE
      BY <1>15 DEF ResumeSession
    <3>3. cmd[t] \in Job /\ cmd \in [Tabs -> Job]
      OBVIOUS
    <3> HIDE DEF TabsTyped, Owned
    <3>4. [cmd[t] EXCEPT !.pc = "sync"] \in Job
      BY <3>2, <3>3 DEF Job, Steps
    <3> QED BY <3>1, <3>2, <3>3, <3>4 DEF Job
  <2>2. at' \in [Holders -> 0..MaxPaths]
    BY <1>15 DEF ResumeSession, Begin, Command, Snapshot, Idle, Job, Steps
  <2>3. SavesTyped /\ unsaved' \in SUBSET Tabs
    <3>1. CASE Snapshot(t) /\ UNCHANGED unsaved
      <4>1. ctrl[t] \in Holders
        BY <1>15 DEF ResumeSession
      <4> QED BY <3>1, <4>1, SnapshotTyped
    <3>2. CASE /\ UNCHANGED file /\ unsaved' = unsaved \cup {t}
               /\ dirty' = (IF ctrl[t] \in turns[t] THEN dirty ELSE dirty \ {ctrl[t]})
      BY <3>2 DEF SavesTyped
    <3> QED BY <1>15, <3>1, <3>2 DEF ResumeSession
  <2>5. given' \in 0..MaxCommands
    BY <1>15 DEF ResumeSession, Begin, Command, Snapshot, Idle, Job, Steps
  <2>6. moved' \in SUBSET Tabs
    BY <1>15 DEF ResumeSession, Begin, Command, Snapshot, Idle, Job, Steps
  <2>7. Owned'
    <3>1. build' = build
      BY <1>15 DEF ResumeSession
    <3> QED BY <2>1, <3>1
  <2>8. UNCHANGED <<st, ctrl, path, build, lease, trash, topic, deleting, saver, again, turns, cut, crossed, live, named>>
    BY <1>15 DEF ResumeSession
  <2> QED BY <2>1, <2>2, <2>3, <2>5, <2>6, <2>7, <2>8 DEF SavesTyped
<1>16. ASSUME NEW t \in Tabs, Sync(t) PROVE TabsTyped' /\ Owned'
  BY <1>16 DEF Sync, Idle, Job, Steps
<1>17. ASSUME NEW t \in Tabs, Rebuild(t) PROVE TabsTyped' /\ Owned'
  <2>1. /\ cmd' \in [Tabs -> Job] /\ \A u \in Tabs \ {t} : cmd'[u] = cmd[u]
        /\ cmd'[t].pc = "retire"
    <3>1. cmd' = [cmd EXCEPT ![t].pc = "retire"]
      BY <1>17 DEF Rebuild
    <3>2. TRUE
      BY <1>17 DEF Rebuild
    <3>3. cmd[t] \in Job /\ cmd \in [Tabs -> Job]
      OBVIOUS
    <3> HIDE DEF TabsTyped, Owned
    <3>4. [cmd[t] EXCEPT !.pc = "retire"] \in Job
      BY <3>2, <3>3 DEF Job, Steps
    <3> QED BY <3>1, <3>2, <3>3, <3>4 DEF Job
  <2>2. given' \in 0..MaxCommands
    BY <1>17 DEF Rebuild, Begin, Command, Idle, Job, Steps
  <2>3. crossed' \in SUBSET Tabs
    BY <1>17 DEF Rebuild, Begin, Command, Idle, Job, Steps
  <2>4. Owned'
    <3>1. build' = build
      BY <1>17 DEF Rebuild
    <3> QED BY <2>1, <3>1
  <2>5. UNCHANGED <<st, ctrl, path, build, disk, saves, moved, live, at, named>>
    BY <1>17 DEF Rebuild
  <2> QED BY <2>1, <2>2, <2>3, <2>4, <2>5
<1>18. ASSUME NEW t \in Tabs, Reconfigure(t) PROVE TabsTyped' /\ Owned'
  <2>1. /\ cmd' \in [Tabs -> Job] /\ \A u \in Tabs \ {t} : cmd'[u] = cmd[u]
        /\ cmd'[t].pc = "invalidate"
    <3>1. cmd' = [cmd EXCEPT ![t].pc = "invalidate"]
      BY <1>18 DEF Reconfigure
    <3>2. TRUE
      BY <1>18 DEF Reconfigure
    <3>3. cmd[t] \in Job /\ cmd \in [Tabs -> Job]
      OBVIOUS
    <3> HIDE DEF TabsTyped, Owned
    <3>4. [cmd[t] EXCEPT !.pc = "invalidate"] \in Job
      BY <3>2, <3>3 DEF Job, Steps
    <3> QED BY <3>1, <3>2, <3>3, <3>4 DEF Job
  <2>2. given' \in 0..MaxCommands
    BY <1>18 DEF Reconfigure, Begin, Command, Idle, Job, Steps
  <2>3. crossed' \in SUBSET Tabs
    BY <1>18 DEF Reconfigure, Begin, Command, Idle, Job, Steps
  <2>4. Owned'
    <3>1. build' = build
      BY <1>18 DEF Reconfigure
    <3> QED BY <2>1, <3>1
  <2>5. UNCHANGED <<st, ctrl, path, build, disk, saves, moved, live, at, named>>
    BY <1>18 DEF Reconfigure
  <2> QED BY <2>1, <2>2, <2>3, <2>4, <2>5
<1>19. ASSUME NEW t \in Tabs, Reconfigured(t) PROVE TabsTyped' /\ Owned'
  <2>1. /\ cmd' \in [Tabs -> Job] /\ \A u \in Tabs \ {t} : cmd'[u] = cmd[u]
        /\ cmd'[t].pc = "retire"
    <3>1. cmd' = [cmd EXCEPT ![t].pc = "retire"]
      BY <1>19 DEF Reconfigured
    <3>2. TRUE
      BY <1>19 DEF Reconfigured
    <3>3. cmd[t] \in Job /\ cmd \in [Tabs -> Job]
      OBVIOUS
    <3> HIDE DEF TabsTyped, Owned
    <3>4. [cmd[t] EXCEPT !.pc = "retire"] \in Job
      BY <3>2, <3>3 DEF Job, Steps
    <3> QED BY <3>1, <3>2, <3>3, <3>4 DEF Job
  <2>2. Owned'
    <3>1. build' = build
      BY <1>19 DEF Reconfigured
    <3> QED BY <2>1, <3>1
  <2>3. UNCHANGED <<st, ctrl, path, build, disk, saves, past, live, at, named, given>>
    BY <1>19 DEF Reconfigured
  <2> QED BY <2>1, <2>2, <2>3
<1>20. ASSUME NEW t \in Tabs, Retire(t) PROVE TabsTyped' /\ Owned'
  <2>1. ctrl' \in [Tabs -> Holders \cup {None}]
    BY <1>20 DEF Retire
  <2>2. /\ cmd' \in [Tabs -> Job] /\ \A u \in Tabs \ {t} : cmd'[u] = cmd[u]
        /\ cmd'[t].pc = "drop" => cmd'[t].c \in Holders
        /\ cmd'[t].pc \in {"acquire", "drop"}
    <3>1. CASE ctrl[t] = None
      <4>1. cmd' = [cmd EXCEPT ![t] = [pc |-> "acquire", c |-> None, path |-> 0]]
        BY <1>20, <3>1 DEF Retire
      <4>2. [pc |-> "acquire", c |-> None, path |-> 0] \in Job
        BY DEF Job, Steps
      <4> QED BY <4>1, <4>2
    <3>2. CASE ctrl[t] # None
      <4>1. cmd' = [cmd EXCEPT ![t] = [pc |-> "drop", c |-> ctrl[t], path |-> at[ctrl[t]]]]
        BY <1>20, <3>2 DEF Retire
      <4>2. ctrl[t] \in Holders /\ at[ctrl[t]] \in 0..MaxPaths
        BY <3>2
      <4>3. [pc |-> "drop", c |-> ctrl[t], path |-> at[ctrl[t]]] \in Job
        BY <4>2 DEF Job, Steps
      <4> QED BY <4>1, <4>2, <4>3
    <3> QED BY <3>1, <3>2
  <2>3. live' \in SUBSET Holders
    BY <1>20 DEF Retire
  <2>4. SavesTyped /\ cut' \in SUBSET Holders
    <3>1. UNCHANGED <<file, dirty, cut>> \/ (ctrl[t] \in Holders /\ LastSnapshot(t))
      BY <1>20 DEF Retire
    <3>2. CASE UNCHANGED <<file, dirty, cut>>
      BY <3>2 DEF SavesTyped
    <3> HIDE DEF TabsTyped
    <3>3. CASE ctrl[t] \in Holders /\ LastSnapshot(t)
      BY <3>3, SnapshotTyped
    <3> QED BY <3>1, <3>2, <3>3
  <2>7. unsaved' \in SUBSET Tabs
    BY <1>20 DEF Retire, Unsaved
  <2>5. Owned'
    <3>1. build' = build
      BY <1>20 DEF Retire
    <3> QED BY <2>2, <3>1
  <2>6. UNCHANGED <<st, path, build, lease, trash, topic, deleting, saver, again, turns, past, at, named, given>>
    BY <1>20 DEF Retire
  <2> QED BY <2>1, <2>2, <2>3, <2>4, <2>5, <2>6, <2>7 DEF SavesTyped
<1>21. ASSUME NEW t \in Tabs, NEW c \in Holders, Again(t, c) PROVE TabsTyped' /\ Owned'
  <2>1. /\ cmd' \in [Tabs -> Job] /\ \A u \in Tabs \ {t} : cmd'[u] = cmd[u]
        /\ cmd'[t].c \in Holders
    <3>1. cmd' = [cmd EXCEPT ![t].pc = "kit", ![t].c = c]
      BY <1>21 DEF Again
    <3>2. TRUE
      BY <1>21 DEF Again
    <3>3. cmd[t] \in Job /\ cmd \in [Tabs -> Job]
      OBVIOUS
    <3> HIDE DEF TabsTyped, Owned
    <3>4. [[cmd[t] EXCEPT !.pc = "kit"] EXCEPT !.c = c] \in Job
      BY <3>2, <3>3 DEF Job, Steps
    <3> QED BY <3>1, <3>2, <3>3, <3>4 DEF Job
  <2>2. Owned'
    <3>1. build' = build
      BY <1>21 DEF Again
    <3> QED BY <2>1, <3>1
  <2>3. UNCHANGED <<st, ctrl, path, build, disk, saves, past, live, at, named, given>>
    BY <1>21 DEF Again
  <2> QED BY <2>1, <2>2, <2>3
<1>22. ASSUME NEW t \in Tabs, Reboot(t) PROVE TabsTyped' /\ Owned'
  <2>1. ctrl' \in [Tabs -> Holders \cup {None}]
    BY <1>22 DEF Reboot, Idle, Job, Steps
  <2>2. /\ cmd' \in [Tabs -> Job] /\ \A u \in Tabs \ {t} : cmd'[u] = cmd[u]
        /\ cmd'[t].c = cmd[t].c
    <3>1. cmd' = [cmd EXCEPT ![t].pc = "carry"] \/ cmd' = [cmd EXCEPT ![t].pc = "undo"]
      BY <1>22 DEF Reboot
    <3>2. cmd[t].pc = "kit"
      BY <1>22 DEF Reboot
    <3>3. cmd[t] \in Job /\ cmd \in [Tabs -> Job]
      OBVIOUS
    <3> HIDE DEF TabsTyped, Owned
    <3>4. [cmd[t] EXCEPT !.pc = "carry"] \in Job /\ [cmd[t] EXCEPT !.pc = "undo"] \in Job
      BY <3>2, <3>3 DEF Job, Steps
    <3> QED BY <3>1, <3>2, <3>3, <3>4 DEF Job
  <2>3. live' \in SUBSET Holders
    BY <1>22 DEF Reboot, Idle, Job, Steps
  <2>4. Owned'
    <3>1. build' = build /\ cmd[t].pc = "kit"
      BY <1>22 DEF Reboot
    <3> QED BY <2>2, <3>1
  <2>5. UNCHANGED <<st, path, build, disk, saves, past, at, named, given>>
    BY <1>22 DEF Reboot
  <2> QED BY <2>1, <2>2, <2>3, <2>4, <2>5
<1>23. ASSUME NEW t \in Tabs, RebuildFails(t) PROVE TabsTyped' /\ Owned'
  BY <1>23 DEF RebuildFails, Idle, Job, Steps
<1>24. ASSUME NEW t \in Tabs, Carry(t) PROVE TabsTyped' /\ Owned'
  <2>1. cmd' \in [Tabs -> Job]
    BY <1>24 DEF Carry, Idle, Job, Steps
  <2>2. at' \in [Holders -> 0..MaxPaths]
    <3>1. cmd[t].path \in 0..MaxPaths
      BY DEF Job
    <3>2. \E q \in 0..MaxPaths : at' = [at EXCEPT ![cmd[t].c] = q]
      BY <1>24, <3>1 DEF Carry
    <3> QED BY <3>2
  <2>3. named' \in 0..MaxPaths
    BY <1>24 DEF Carry, Idle, Job, Steps
  <2>4. moved' \in SUBSET Tabs
    BY <1>24 DEF Carry, Idle, Job, Steps
  <2>5. Owned'
    BY <1>24 DEF Carry, Idle, Job, Steps
  <2>6. UNCHANGED <<st, ctrl, path, build, disk, saver, again, turns, unsaved, cut, crossed, live, given>>
    BY <1>24 DEF Carry
  <2>7. dirty' \in SUBSET Holders
    BY <1>24 DEF Carry
  <2> QED BY <2>1, <2>2, <2>3, <2>4, <2>5, <2>6, <2>7
<1>25. ASSUME NEW t \in Tabs, StartTurn(t) PROVE TabsTyped' /\ Owned'
  <2>1. /\ turns' \in [Tabs -> SUBSET Holders] /\ dirty' \in SUBSET Holders
        /\ given' \in 0..MaxCommands /\ crossed' \in SUBSET Tabs
    BY <1>25 DEF StartTurn, Command
  <2>2. UNCHANGED <<tabs, disk, saver, again, unsaved, cut, moved, live, at, named>>
    BY <1>25 DEF StartTurn
  <2> QED BY <2>1, <2>2
<1>26. ASSUME NEW t \in Tabs, NEW c \in Holders, TurnDone(t, c) PROVE TabsTyped' /\ Owned'
  <2>1. saver' \in [Tabs -> {"none", "snap", "settle"}] /\ again' \in SUBSET Tabs
    BY <1>26 DEF TurnDone
  <2>2. file' \in SUBSET Paths /\ dirty' \in SUBSET Holders
    <3>1. at[c] # 0 => {at[c]} \subseteq Paths
      OBVIOUS
    <3> QED BY <1>26, <3>1 DEF TurnDone
  <2>3. turns' \in [Tabs -> SUBSET Holders] /\ unsaved' \in SUBSET Tabs
    BY <1>26 DEF TurnDone
  <2>4. UNCHANGED <<tabs, lease, trash, topic, deleting, cut, past, live, at, named, given>>
    BY <1>26 DEF TurnDone
  <2> QED BY <2>1, <2>2, <2>3, <2>4
<1>27. ASSUME NEW t \in Tabs, Snap(t) PROVE TabsTyped' /\ Owned'
  <2>1. path' \in [Tabs -> 0..MaxPaths]
    <3>1. path' = path \/ (ctrl[t] \in Holders /\ path' = [path EXCEPT ![t] = at[ctrl[t]]])
      BY <1>27 DEF Snap
    <3>2. ctrl[t] \in Holders => at[ctrl[t]] \in 0..MaxPaths
      OBVIOUS
    <3> QED BY <3>1, <3>2
  <2>2. SavesTyped
    <3>1. \/ UNCHANGED <<file, dirty>>
          \/ ctrl[t] \in Holders /\ (Snapshot(t) \/ SnapshotFails(t))
      BY <1>27 DEF Snap
    <3>2. CASE UNCHANGED <<file, dirty>>
      BY <3>2 DEF SavesTyped
    <3> HIDE DEF TabsTyped
    <3>3. CASE ctrl[t] \in Holders /\ (Snapshot(t) \/ SnapshotFails(t))
      BY <3>3, SnapshotTyped
    <3> QED BY <3>1, <3>2, <3>3
  <2>3. saver' \in [Tabs -> {"none", "snap", "settle"}] /\ unsaved' \in SUBSET Tabs
    BY <1>27 DEF Snap
  <2>4. Owned'
    BY <1>27 DEF Snap
  <2>5. UNCHANGED <<st, ctrl, build, cmd, lease, trash, topic, deleting, again, turns, cut, past, live, at, named, given>>
    BY <1>27 DEF Snap
  <2> QED BY <2>1, <2>2, <2>3, <2>4, <2>5 DEF SavesTyped
<1>28. ASSUME NEW t \in Tabs, Settle(t) PROVE TabsTyped' /\ Owned'
  BY <1>28 DEF Settle, Idle, Job, Steps
<1>29. CASE Pool
  BY <1>29 DEF Pool
<1>30. ASSUME NEW p \in Paths, DeleteSession(p) PROVE TabsTyped' /\ Owned'
  BY <1>30 DEF DeleteSession, Command
<1>31. ASSUME NEW p \in Paths, RestoreSession(p) PROVE TabsTyped' /\ Owned'
  BY <1>31 DEF RestoreSession, Command
<1>32. CASE Deleted
  <2>1. path' \in [Tabs -> 0..MaxPaths]
    <3>1. path \in [Tabs -> 0..MaxPaths] /\ MaxPaths \in Nat
      OBVIOUS
    <3>2. path' = path \/ path' = [t \in Tabs |-> IF path[t] = deleting /\ st[t] \in {"open", "trashing"}
                                                 THEN 0 ELSE path[t]]
      BY <1>32 DEF Deleted
    <3> HIDE DEF TabsTyped, Owned
    <3> QED BY <3>1, <3>2
  <2>2. file' \in SUBSET Paths
    BY <1>32 DEF Deleted
  <2>3. trash' \in SUBSET Paths
    BY <1>32 DEF Deleted
  <2>4. deleting' \in 0..MaxPaths
    BY <1>32 DEF Deleted
  <2>5. Owned'
    BY <1>32 DEF Deleted
  <2>6. UNCHANGED <<st, ctrl, build, cmd, lease, topic, saves, past, live, at, named, given>>
    BY <1>32 DEF Deleted
  <2> QED BY <2>1, <2>2, <2>3, <2>4, <2>5, <2>6
<1>33. CASE UNCHANGED vars
  BY <1>33 DEF vars
<1> QED BY <1>1, <1>2, <1>3, <1>4, <1>5, <1>6, <1>7, <1>8, <1>9, <1>10, <1>11, <1>12, <1>13, <1>14, <1>15, <1>16, <1>17, <1>18, <1>19, <1>20, <1>21, <1>22, <1>23, <1>24, <1>26, <1>27, <1>28, <1>29, <1>30, <1>31, <1>32, <1>33, <1>25
  DEF Next, BuildStep, End, Commanded, Sessions, Autosave

-----------------------------------------------------------------------------
(* The tabs use the pool as WorkspacePool says *)

\* A step of a tab acquires or releases a kit, invalidates it or leaves the pool alone.
LEMMA StepUsesPool == TabsTyped /\ Owned /\ [Next]_vars => [PoolNext]_pool
<1> SUFFICES ASSUME TabsTyped, Owned, [Next]_vars PROVE [PoolNext]_pool
  OBVIOUS
<1>1. ASSUME NEW t \in Tabs, BuildStep(t) PROVE [PoolNext]_pool
  <2>1. ASSUME NEW c \in Holders, StartBuild(t, c) PROVE [PoolNext]_pool
    BY <2>1 DEF StartBuild, PoolNext
  <2>2. ASSUME Boot(t) PROVE [PoolNext]_pool
    <3>1. build[t].c \in Holders
      BY <2>2 DEF Boot, Owned
    <3>2. UNCHANGED pool \/ Release(build[t].c)
      BY <2>2 DEF Boot
    <3> QED BY <3>1, <3>2 DEF PoolNext
  <2> QED BY <1>1, <2>1, <2>2 DEF BuildStep, KitMissing, Claim, Load, Fresh, Install
<1>2. ASSUME NEW t \in Tabs, End(t) PROVE [PoolNext]_pool
  <2>1. ASSUME Teardown(t) PROVE [PoolNext]_pool
    <3>1. UNCHANGED pool \/ (ctrl[t] # None /\ Release(ctrl[t]))
      BY <2>1 DEF Teardown
    <3> QED BY <3>1 DEF PoolNext, TabsTyped
  <2> QED BY <1>2, <2>1 DEF End, CloseTab, Unlease, TrashTopic, Trashed
<1>3. ASSUME NEW t \in Tabs, Commanded(t) PROVE [PoolNext]_pool
  <2>1. ASSUME NEW c \in Holders, Again(t, c) PROVE [PoolNext]_pool
    BY <2>1 DEF Again, PoolNext
  <2>2. ASSUME Reconfigure(t) \/ Reconfigured(t) PROVE [PoolNext]_pool
    BY <2>2 DEF Reconfigure, Reconfigured, PoolNext
  <2>3. ASSUME Retire(t) PROVE [PoolNext]_pool
    <3>1. UNCHANGED pool \/ (ctrl[t] # None /\ Release(ctrl[t]))
      BY <2>3 DEF Retire
    <3> QED BY <3>1 DEF PoolNext, TabsTyped
  <2>4. ASSUME Reboot(t) PROVE [PoolNext]_pool
    <3>1. cmd[t].c \in Holders
      BY <2>4 DEF Reboot, Owned
    <3>2. UNCHANGED pool \/ Release(cmd[t].c)
      BY <2>4 DEF Reboot
    <3> QED BY <3>1, <3>2 DEF PoolNext
  <2> QED BY <1>3, <2>1, <2>2, <2>3, <2>4
          DEF Commanded, NewSession, ResumeSession, Sync, Rebuild, RebuildFails, Carry
<1>4. ASSUME NEW t \in Tabs, OpenTab(t) \/ Autosave(t) PROVE [PoolNext]_pool
  BY <1>4 DEF OpenTab, Autosave, StartTurn, TurnDone, Snap, Settle
<1>5. CASE Pool
  BY <1>5 DEF Pool, PoolNext
<1>6. CASE Sessions
  BY <1>6 DEF Sessions, DeleteSession, RestoreSession, Deleted
<1>7. CASE UNCHANGED vars
  BY <1>7 DEF vars
<1> QED BY <1>1, <1>2, <1>3, <1>4, <1>5, <1>6, <1>7 DEF Next

\* The types, the pool's invariant and who has which controller hold in every state.
Settled == TabsTyped /\ Owned /\ IInv

LEMMA SettledHolds == Spec => []Settled
<1>1. Init => Settled
  <2> SUFFICES ASSUME Init PROVE Settled
    OBVIOUS
  <2>1. IInv
    BY IInvInit DEF Init
  <2>2. Idle \in Job /\ Idle.pc = "none"
    BY TabsAssumption DEF Idle, Job, Steps
  <2>3. TabsTyped
    BY <2>2, TabsAssumption DEF Init, TabsTyped, Paths
  <2>4. Owned
    BY <2>2 DEF Init, Owned
  <2> QED BY <2>1, <2>3, <2>4 DEF Settled
<1>2. Settled /\ [Next]_vars => Settled'
  BY TypedStep, StepUsesPool, IInvStep DEF Settled
<1> QED BY <1>1, <1>2, PTL DEF Spec

\* Every variable keeps its type, for any tabs, holders and files.
THEOREM TypeCorrect == Spec => []TypeOK
<1>1. Settled => TypeOK
  BY DEF Settled, IInv, TabsTyped, TypeOK
<1> QED BY <1>1, SettledHolds, PTL

\* The application is one of the pool's behaviours: no tab takes or gives back a kit but as
\* WorkspacePool does.
THEOREM TabsUseThePool == Spec => PoolSpec
<1>1. Init => PoolInit
  BY DEF Init
<1>2. Settled /\ [Next]_vars => [PoolNext]_pool
  BY StepUsesPool DEF Settled
<1> QED BY <1>1, <1>2, SettledHolds, PTL DEF Spec, PoolSpec

\* The tabs of a workspace share one kit, which is open exactly while a controller holds it.
THEOREM TabsShareTheKit == Spec => []KitIsShared
BY TabsUseThePool, PoolSharesTheKit, PTL

\* A build that waits for the kit waits for another that makes it.
THEOREM TabsWakeWaiters == Spec => []WaitersAreWoken
BY TabsUseThePool, PoolWakesWaiters, PTL

-----------------------------------------------------------------------------
(* A controller that runs holds its kit *)

\* Who makes a controller is the only one to make it, and it is live only afterwards; a live
\* controller holds the kit.
Kept ==
    /\ \A t \in Tabs : build[t].pc = "kit" => call[build[t].c].pc # "idle" /\ build[t].c \notin live
    /\ \A t \in Tabs : cmd[t].pc = "kit" => call[cmd[t].c].pc # "idle" /\ cmd[t].c \notin live
    /\ \A t, u \in Tabs : build[t].pc = "kit" /\ build[u].pc = "kit" /\ build[t].c = build[u].c => t = u
    /\ \A t, u \in Tabs : cmd[t].pc = "kit" /\ cmd[u].pc = "kit" /\ cmd[t].c = cmd[u].c => t = u
    /\ \A t, u \in Tabs : build[t].pc = "kit" /\ cmd[u].pc = "kit" => build[t].c # cmd[u].c
    /\ \A c \in live : call[c].pc = "has"

\* No holder goes back to the start, and none but those released loses its kit.
Steady(released) ==
    /\ \A h \in Holders : call[h].pc # "idle" => call'[h].pc # "idle"
    /\ \A h \in Holders \ released : call[h].pc = "has" => call'[h].pc = "has"

\* No build and no rebuild begins to wait for a kit.
NoneBegins ==
    /\ \A t \in Tabs : build'[t].pc = "kit" => build[t].pc = "kit" /\ build'[t].c = build[t].c
    /\ \A t \in Tabs : cmd'[t].pc = "kit" => cmd[t].pc = "kit" /\ cmd'[t].c = cmd[t].c

LEMMA PoolIsSteady == ASSUME PoolTypeOK, Placed, Pool PROVE Steady({})
<1>1. PICK h \in Holders : Enter(h) \/ Prepared(h) \/ PrepareFails(h) \/ Leave(h)
  BY DEF Pool
<1>2. CASE Enter(h)
  BY <1>2, EnterEffect DEF Enters, Moves, Steady
<1>3. CASE Prepared(h)
  BY <1>3, PreparedEffect DEF Prepares, Wakes, Steady
<1>4. CASE PrepareFails(h)
  BY <1>4, PrepareFailsEffect DEF FailsToPrepare, Wakes, Steady
<1>5. CASE Leave(h)
  BY <1>5, LeaveEffect DEF Leaves, Moves, Steady
<1> QED BY <1>1, <1>2, <1>3, <1>4, <1>5

LEMMA AcquireIsSteady ==
    ASSUME PoolTypeOK, NEW c \in Holders, Acquire(c)
    PROVE  Steady({}) /\ call[c].pc = "idle" /\ call'[c].pc # "idle"
BY DEF PoolTypeOK, Acquire, Steady

LEMMA ReleaseIsSteady ==
    ASSUME PoolTypeOK, NEW c \in Holders, Release(c)
    PROVE  Steady({c}) /\ call[c].pc = "has"
BY DEF PoolTypeOK, Release, Step, Steady

LEMMA KeptShrinks ==
    ASSUME Kept, Owned, live \in SUBSET Holders, NEW released, Steady(released),
           live' \subseteq live \ released, NoneBegins
    PROVE  Kept'
BY DEF Kept, Owned, Steady, NoneBegins

LEMMA StillSteady == ASSUME call' = call PROVE Steady({})
BY DEF Steady

\* Steps that leave the pool alone, but for an invalidation, and close what they close.
LEMMA KeptByRest ==
    ASSUME TabsTyped, Owned, Kept, call' = call, live' \subseteq live, NoneBegins
    PROVE  Kept'
BY KeptShrinks, StillSteady DEF TabsTyped

LEMMA NoneBeginsStep ==
    ASSUME TabsTyped, NEW t \in Tabs,
           \/ OpenTab(t) \/ KitMissing(t) \/ Boot(t) \/ Claim(t) \/ Load(t) \/ Fresh(t) \/ Install(t)
           \/ End(t) \/ Autosave(t)
           \/ NewSession(t) \/ (\E p \in Paths : ResumeSession(t, p)) \/ Sync(t) \/ Rebuild(t)
           \/ Reconfigure(t) \/ Reconfigured(t) \/ Retire(t) \/ Reboot(t) \/ RebuildFails(t) \/ Carry(t)
    PROVE  NoneBegins
<1>1. /\ build \in [Tabs -> Job] /\ \A u \in Tabs : build[u] \in Job
      /\ cmd \in [Tabs -> Job] /\ \A u \in Tabs : cmd[u] \in Job
  BY DEF TabsTyped
<1> HIDE DEF TabsTyped
<1>2. CASE UNCHANGED <<build, cmd>>
  BY <1>2 DEF NoneBegins
<1>3. CASE KitMissing(t) \/ Boot(t) \/ Claim(t) \/ Load(t) \/ Fresh(t) \/ Install(t)
  <2>1. cmd' = cmd
    BY <1>3 DEF KitMissing, Boot, Claim, Load, Fresh, Install
  <2>2. CASE KitMissing(t) \/ Install(t)
    BY <1>1, <2>1, <2>2 DEF NoneBegins, KitMissing, Install, Idle
  <2>3. CASE Boot(t)
    <3>1. PICK s \in {"claim", "undo"} : build' = [build EXCEPT ![t].pc = s]
      BY <2>3 DEF Boot
    <3> QED BY <1>1, <2>1, <3>1 DEF NoneBegins, Job
  <2>4. CASE Claim(t)
    <3>1. PICK raw : \/ build' = [build EXCEPT ![t].pc = "fresh"]
                     \/ build' = [build EXCEPT ![t].pc = "load", ![t].path = raw]
      BY <2>4 DEF Claim
    <3> QED BY <1>1, <2>1, <3>1 DEF NoneBegins, Job
  <2>5. CASE Load(t)
    <3>1. PICK s \in {"install", "fresh"} : build' = [build EXCEPT ![t].pc = s]
      BY <2>5 DEF Load
    <3> QED BY <1>1, <2>1, <3>1 DEF NoneBegins, Job
  <2>6. CASE Fresh(t)
    <3>1. build' = [build EXCEPT ![t].pc = "install", ![t].path = named']
      BY <2>6 DEF Fresh
    <3> QED BY <1>1, <2>1, <3>1 DEF NoneBegins, Job
  <2> QED BY <1>3, <2>2, <2>3, <2>4, <2>5, <2>6
<1>4. CASE End(t) \/ Autosave(t) \/ OpenTab(t)
  <2>1. UNCHANGED <<build, cmd>>
    <3>1. CASE End(t)
      BY <3>1 DEF End, CloseTab, Teardown, Unlease, TrashTopic, Trashed
    <3>2. CASE Autosave(t)
      BY <3>2 DEF Autosave, StartTurn, TurnDone, Snap, Settle, tabs
    <3>3. CASE OpenTab(t)
      BY <3>3 DEF OpenTab
    <3> QED BY <1>4, <3>1, <3>2, <3>3
  <2> QED BY <1>2, <2>1
<1>5. CASE NewSession(t) \/ (\E p \in Paths : ResumeSession(t, p)) \/ Sync(t) \/ Rebuild(t)
           \/ Reconfigure(t) \/ Reconfigured(t) \/ Retire(t) \/ Reboot(t) \/ RebuildFails(t) \/ Carry(t)
  <2>1. build' = build
    <3>1. CASE NewSession(t) \/ (\E p \in Paths : ResumeSession(t, p)) \/ Sync(t) \/ Rebuild(t)
      BY <3>1 DEF NewSession, ResumeSession, Sync, Rebuild
    <3>2. CASE Reconfigure(t) \/ Reconfigured(t) \/ Retire(t)
      BY <3>2 DEF Reconfigure, Reconfigured, Retire
    <3>3. CASE Reboot(t) \/ RebuildFails(t) \/ Carry(t)
      BY <3>3 DEF Reboot, RebuildFails, Carry
    <3> QED BY <1>5, <3>1, <3>2, <3>3
  <2>2. CASE NewSession(t) \/ \E p \in Paths : ResumeSession(t, p)
    <3>1. cmd' = [cmd EXCEPT ![t].pc = "sync"]
      BY <2>2 DEF NewSession, ResumeSession
    <3> QED BY <1>1, <2>1, <3>1 DEF NoneBegins, Job
  <2>3. CASE Sync(t) \/ RebuildFails(t) \/ Carry(t)
    BY <1>1, <2>1, <2>3 DEF NoneBegins, Sync, RebuildFails, Carry, Idle
  <2>4. CASE Rebuild(t) \/ Reconfigure(t) \/ Reconfigured(t)
    BY <1>1, <2>1, <2>4 DEF NoneBegins, Rebuild, Reconfigure, Reconfigured, Job
  <2>5. CASE Retire(t)
    BY <1>1, <2>1, <2>5 DEF NoneBegins, Retire
  <2>6. CASE Reboot(t)
    BY <1>1, <2>1, <2>6 DEF NoneBegins, Reboot, Job
  <2> QED BY <1>5, <2>2, <2>3, <2>4, <2>5, <2>6
<1> QED BY <1>3, <1>4, <1>5

LEMMA KeptStep ==
    ASSUME PoolTypeOK, Placed, TabsTyped, Owned, Kept, [Next]_vars
    PROVE  Kept'
<1>1. /\ build \in [Tabs -> Job] /\ \A u \in Tabs : build[u] \in Job
      /\ cmd \in [Tabs -> Job] /\ \A u \in Tabs : cmd[u] \in Job
      /\ live \in SUBSET Holders /\ \A u \in Tabs : ctrl[u] # None => ctrl[u] \in Holders
  BY DEF TabsTyped
\* A build or a rebuild begins with a holder that nobody has.
<1>2. ASSUME NEW t \in Tabs, NEW c \in Holders, StartBuild(t, c) PROVE Kept'
  <2>1. Steady({}) /\ call[c].pc = "idle" /\ call'[c].pc # "idle"
    BY <1>2, AcquireIsSteady DEF StartBuild
  <2>2. cmd' = cmd /\ live' = live /\ build' = [build EXCEPT ![t] = [pc |-> "kit", c |-> c, path |-> 0]]
    BY <1>2 DEF StartBuild
  <2>3. /\ build'[t].c = c
        /\ \A u \in Tabs \ {t} : build'[u] = build[u]
    BY <1>1, <2>2
  <2> QED BY <1>1, <2>1, <2>2, <2>3 DEF Kept, Steady, Owned
<1>3. ASSUME NEW t \in Tabs, NEW c \in Holders, Again(t, c) PROVE Kept'
  <2>1. Steady({}) /\ call[c].pc = "idle" /\ call'[c].pc # "idle"
    BY <1>3, AcquireIsSteady DEF Again
  <2>2. build' = build /\ live' = live /\ cmd' = [cmd EXCEPT ![t].pc = "kit", ![t].c = c]
    BY <1>3 DEF Again
  <2>3. /\ cmd'[t].c = c
        /\ \A u \in Tabs \ {t} : cmd'[u] = cmd[u]
    BY <1>1, <2>2 DEF Job
  <2>4. /\ \A u \in Tabs : build[u].pc = "kit" => build[u].c # c
        /\ \A u \in Tabs : cmd[u].pc = "kit" => cmd[u].c # c
        /\ c \notin live
    BY <2>1 DEF Kept
  <2>5. \A d \in Holders : call[d].pc # "idle" => call'[d].pc # "idle"
    BY <2>1 DEF Steady
  <2>6. \A d \in live : call'[d].pc = "has"
    BY <1>1, <2>1 DEF Kept, Steady
  <2>7. \A u \in Tabs : /\ build[u].pc = "kit" => build[u].c \in Holders
                        /\ u # t /\ cmd[u].pc = "kit" => cmd[u].c \in Holders
    BY DEF Owned
  <2>8. \A u \in Tabs : build'[u].pc = "kit" => call'[build'[u].c].pc # "idle" /\ build'[u].c \notin live'
    <3> SUFFICES ASSUME NEW u \in Tabs, build[u].pc = "kit"
                 PROVE  call'[build[u].c].pc # "idle" /\ build[u].c \notin live
      BY <2>2
    <3>1. call[build[u].c].pc # "idle" /\ build[u].c \notin live
      BY DEF Kept
    <3>2. build[u].c \in Holders
      BY <2>7
    <3> QED BY <2>5, <3>1, <3>2
  <2>9. \A u \in Tabs : cmd'[u].pc = "kit" => call'[cmd'[u].c].pc # "idle" /\ cmd'[u].c \notin live'
    <3> SUFFICES ASSUME NEW u \in Tabs, cmd'[u].pc = "kit"
                 PROVE  call'[cmd'[u].c].pc # "idle" /\ cmd'[u].c \notin live'
      OBVIOUS
    <3>1. CASE u = t
      BY <2>1, <2>2, <2>3, <2>4, <3>1
    <3>2. CASE u # t
      <4>1. cmd'[u] = cmd[u]
        BY <2>3, <3>2
      <4>2. call[cmd[u].c].pc # "idle" /\ cmd[u].c \notin live
        BY <4>1 DEF Kept
      <4>3. cmd[u].c \in Holders
        BY <2>7, <3>2, <4>1
      <4>4. live' = live
        BY <2>2
      <4> QED BY <2>5, <4>1, <4>2, <4>3, <4>4
    <3> QED BY <3>1, <3>2
  <2>10. ASSUME NEW u \in Tabs, NEW v \in Tabs,
                cmd'[u].pc = "kit", cmd'[v].pc = "kit", cmd'[u].c = cmd'[v].c
         PROVE  u = v
    <3>1. \A w \in Tabs : w # t => cmd'[w] = cmd[w]
      BY <2>3
    <3>2. CASE u # t /\ v # t
      BY <2>10, <3>1, <3>2 DEF Kept
    <3>3. CASE u = t \/ v = t
      BY <2>3, <2>4, <2>10, <3>1, <3>3
    <3> QED BY <3>2, <3>3
  <2>11. ASSUME NEW u \in Tabs, NEW v \in Tabs, build'[u].pc = "kit", cmd'[v].pc = "kit"
         PROVE  build'[u].c # cmd'[v].c
    <3>1. build[u].pc = "kit" /\ build'[u].c = build[u].c
      BY <2>2, <2>11
    <3>2. CASE v = t
      BY <2>3, <2>4, <3>1, <3>2
    <3>3. CASE v # t
      <4>1. cmd'[v] = cmd[v]
        BY <2>3, <3>3
      <4> QED BY <2>11, <3>1, <4>1 DEF Kept
    <3> QED BY <3>2, <3>3
  <2> QED BY <2>2, <2>6, <2>8, <2>9, <2>10, <2>11 DEF Kept
\* It makes the controller, or gives the kit back; either way it waits no more.
<1>4. ASSUME NEW t \in Tabs, Boot(t) PROVE Kept'
  <2>1. build[t].pc = "kit" /\ call[build[t].c].pc = "has" /\ build[t].c \in Holders /\ cmd' = cmd
    BY <1>4 DEF Boot, Owned
  <2>2. NoneBegins
    BY <1>4, NoneBeginsStep
  <2>3. CASE call' = call /\ live' = live \cup {build[t].c} /\ build' = [build EXCEPT ![t].pc = "claim"]
    <3>1. /\ build'[t].pc # "kit"
          /\ \A u \in Tabs \ {t} : build'[u] = build[u]
      BY <1>1, <2>3 DEF Job
    <3> QED BY <1>1, <2>1, <2>3, <3>1 DEF Kept
  <2>4. CASE Release(build[t].c) /\ live' = live
    <3>1. Steady({build[t].c})
      BY <2>1, <2>4, ReleaseIsSteady
    <3>2. live' \subseteq live \ {build[t].c}
      BY <2>1, <2>4 DEF Kept
    <3> QED BY <1>1, <2>2, <3>1, <3>2, KeptShrinks
  <2> QED BY <1>4, <2>3, <2>4 DEF Boot, pool
<1>5. ASSUME NEW t \in Tabs, Reboot(t) PROVE Kept'
  <2>1. cmd[t].pc = "kit" /\ call[cmd[t].c].pc = "has" /\ cmd[t].c \in Holders /\ build' = build
    BY <1>5 DEF Reboot, Owned
  <2>2. NoneBegins
    BY <1>5, NoneBeginsStep
  <2>3. CASE call' = call /\ live' = live \cup {cmd[t].c} /\ cmd' = [cmd EXCEPT ![t].pc = "carry"]
    <3>1. /\ cmd'[t].pc # "kit"
          /\ \A u \in Tabs \ {t} : cmd'[u] = cmd[u]
      BY <1>1, <2>3 DEF Job
    <3> QED BY <1>1, <2>1, <2>3, <3>1 DEF Kept
  <2>4. CASE Release(cmd[t].c) /\ live' = live
    <3>1. Steady({cmd[t].c})
      BY <2>1, <2>4, ReleaseIsSteady
    <3>2. live' \subseteq live \ {cmd[t].c}
      BY <2>1, <2>4 DEF Kept
    <3> QED BY <1>1, <2>2, <3>1, <3>2, KeptShrinks
  <2> QED BY <1>5, <2>3, <2>4 DEF Reboot, pool
\* Who releases the kit of a controller has closed it.
<1>6. ASSUME NEW t \in Tabs, Teardown(t) \/ Retire(t) PROVE Kept'
  <2>1. NoneBegins
    BY <1>6, NoneBeginsStep DEF End
  <2>2. CASE call' = call /\ live' = live
    BY <2>1, <2>2, KeptByRest
  <2>3. CASE ctrl[t] # None /\ Release(ctrl[t]) /\ live' = live \ {ctrl[t]}
    <3>1. Steady({ctrl[t]})
      BY <1>1, <2>3, ReleaseIsSteady
    <3> QED BY <1>1, <2>1, <2>3, <3>1, KeptShrinks
  <2> QED BY <1>6, <2>2, <2>3 DEF Teardown, Retire, pool
<1>7. CASE Pool
  <2>1. Steady({}) /\ live' = live /\ UNCHANGED <<build, cmd>>
    BY <1>7, PoolIsSteady DEF Pool, tabs
  <2>2. NoneBegins
    BY <2>1 DEF NoneBegins
  <2> QED BY <1>1, <2>1, <2>2, KeptShrinks
<1>8. CASE Sessions \/ UNCHANGED vars
  <2>1. UNCHANGED <<call, live, build, cmd>>
    BY <1>8 DEF Sessions, DeleteSession, RestoreSession, Deleted, vars, pool, tabs
  <2>2. NoneBegins
    BY <2>1 DEF NoneBegins
  <2> QED BY <2>1, <2>2, KeptByRest
<1>9. ASSUME NEW t \in Tabs,
             \/ OpenTab(t) \/ KitMissing(t) \/ Claim(t) \/ Load(t) \/ Fresh(t) \/ Install(t)
             \/ CloseTab(t) \/ Unlease(t) \/ TrashTopic(t) \/ Trashed(t) \/ Autosave(t)
             \/ NewSession(t) \/ (\E p \in Paths : ResumeSession(t, p)) \/ Sync(t) \/ Rebuild(t)
             \/ Reconfigure(t) \/ Reconfigured(t) \/ RebuildFails(t) \/ Carry(t)
      PROVE  Kept'
  <2>1. NoneBegins
    BY <1>9, NoneBeginsStep DEF End
  <2>2. call' = call
    BY <1>9 DEF OpenTab, KitMissing, Claim, Load, Fresh, Install, CloseTab, Unlease, TrashTopic,
       Trashed, Autosave, StartTurn, TurnDone, Snap, Settle, NewSession, ResumeSession, Sync, Rebuild,
       Reconfigure, Reconfigured, Invalidate, Invalidated, RebuildFails, Carry, pool
  <2>3. live' \subseteq live
    BY <1>9 DEF OpenTab, KitMissing, Claim, Load, Fresh, Install, CloseTab, Unlease, TrashTopic,
       Trashed, Autosave, StartTurn, TurnDone, Snap, Settle, NewSession, ResumeSession, Sync, Rebuild,
       Reconfigure, Reconfigured, RebuildFails, Carry
  <2> QED BY <2>1, <2>2, <2>3, KeptByRest
<1> QED BY <1>2, <1>3, <1>4, <1>5, <1>6, <1>7, <1>8, <1>9
        DEF Next, BuildStep, End, Commanded

\* Every controller that runs holds its kit.
LEMMA KeptHolds == Spec => [](Settled /\ Kept)
<1>1. Init => Kept
  BY DEF Init, Kept, Idle
<1>2. Settled /\ Kept /\ [Next]_vars => Kept'
  BY KeptStep DEF Settled, IInv
<1> QED BY <1>1, <1>2, SettledHolds, PTL DEF Spec

\* A controller that runs works with an open kit, for any tabs, holders and entries: nobody
\* closes a kit under one that holds it, and every live controller holds its own.
THEOREM LiveHaveTheirKit == Spec => []LiveControllersHaveTheirKit
<1>1. Settled /\ Kept => LiveControllersHaveTheirKit
  <2> SUFFICES ASSUME Settled, Kept, ~orphaned, ~invalidated, NEW c \in live
               PROVE  uses[c] \in open
    BY DEF LiveControllersHaveTheirKit
  <2>1. c \in Holding
    BY DEF Settled, TabsTyped, Kept, Holding
  <2>2. KitLivesWhileHeld
    BY IInvShares DEF Settled, KitIsShared
  <2> QED BY <2>1, <2>2 DEF KitLivesWhileHeld
<1> QED BY <1>1, KeptHolds, PTL

-----------------------------------------------------------------------------
(* One conversation for one writer, no turn lost and nothing left behind *)

\* A rebuild that has asked for a controller has it until it is carried over.
Remaking(t) == cmd[t].pc \in {"kit", "undo", "carry"}
Booted == {"claim", "load", "fresh", "install"}

\* A tab that was not opened yet is empty.
New == \A t \in Tabs : st[t] = "new" => ctrl[t] = None /\ ~Building(t) /\ cmd[t].pc = "none"

\* A controller belongs to one build, one rebuild or one tab.
Apart ==
    /\ \A t, u \in Tabs : Building(t) /\ Building(u) /\ build[t].c = build[u].c => t = u
    /\ \A t, u \in Tabs : Remaking(t) /\ Remaking(u) /\ cmd[t].c = cmd[u].c => t = u
    /\ \A t, u \in Tabs : Building(t) /\ Remaking(u) => build[t].c # cmd[u].c
    /\ \A t, u \in Tabs : ctrl[t] # None /\ ctrl[t] = ctrl[u] => t = u
    /\ \A t, u \in Tabs : Building(t) => build[t].c # ctrl[u]
    /\ \A t, u \in Tabs : Remaking(u) /\ cmd[u].c = ctrl[t] => t = u /\ cmd[u].pc = "carry"

\* It is no holder that has yet to come, which has written nothing.
Taken ==
    /\ \A t \in Tabs : Building(t) => call[build[t].c].pc # "idle"
    /\ \A t \in Tabs : Remaking(t) => call[cmd[t].c].pc # "idle"
    /\ \A t \in Tabs : ctrl[t] # None => call[ctrl[t]].pc # "idle"
    /\ \A c \in Holders : call[c].pc = "idle" => at[c] = 0 /\ c \notin dirty

\* Before it is the tab's it has run no turn, and before it is carried over it has no path.
Clean ==
    /\ \A t \in Tabs : Building(t) => build[t].c \notin dirty
    /\ \A t \in Tabs : cmd[t].pc \in {"kit", "undo"} => cmd[t].c \notin dirty
    /\ \A t \in Tabs : Remaking(t) => at[cmd[t].c] = 0
    /\ \A t \in Tabs : build[t].pc = "install" => at[build[t].c] = build[t].path

\* What is booted, and what an open tab has, runs.
Alive ==
    /\ \A t \in Tabs : build[t].pc \in Booted => build[t].c \in live
    /\ \A t \in Tabs : st[t] \in {"open", "teardown"} /\ ctrl[t] # None => ctrl[t] \in live

\* Paths in use were named.
Named ==
    /\ \A p \in Paths : lease[p] # None => p <= named
    /\ \A p \in file \cup trash : p <= named
    /\ \A t \in Tabs : path[t] <= named /\ build[t].path <= named /\ cmd[t].path <= named
    /\ \A c \in Holders : at[c] <= named

\* As long as nothing overlapped on a tab, one thing at a time is done with it.
Still ==
    \A t \in Tabs \ crossed :
        /\ Building(t) => st[t] = "open" /\ ctrl[t] = None /\ ~Rebuilding(t)
        /\ Rebuilding(t) => st[t] = "open"
        /\ cmd[t].pc \in {"drop", "acquire", "kit", "undo"} => ctrl[t] = None
        /\ cmd[t].pc = "carry" => ctrl[t] = cmd[t].c

\* The leases that a build and a rebuild bring to the tab's next controller.
Leased ==
    \A t \in Tabs \ crossed :
        /\ build[t].pc \in {"load", "install"} =>
              build[t].path \in Paths /\ lease[build[t].path] = t
        /\ t \notin moved /\ cmd[t].pc \in {"drop", "acquire", "kit", "undo", "carry"} /\ cmd[t].path # 0 =>
              lease[cmd[t].path] = t
        /\ st[t] = "closed" => \A p \in Paths : lease[p] # t

\* A turn that is not saved yet is of a controller with a path.
Saves == \A t \in Tabs \ crossed :
            st[t] \in {"open", "teardown"} /\ ctrl[t] \in dirty => at[ctrl[t]] # 0

\* Every controller that runs is in some tab's hands.
Seen ==
    crossed = {} => \A c \in live : \E t \in Tabs :
        \/ ctrl[t] = c /\ st[t] \in {"open", "teardown"}
        \/ build[t].pc \in Booted /\ build[t].c = c


\* What the three properties need of each other, and of what runs on a tab.
Ties == /\ New /\ Apart /\ Taken /\ Clean /\ Alive /\ Named /\ Still /\ Leased /\ Saves /\ Seen
        /\ WritersHoldTheirLease /\ TurnsAreSaved

\* What the steps below need of the types.
Typed ==
    /\ build \in [Tabs -> Job] /\ cmd \in [Tabs -> Job]
    /\ \A u \in Tabs : build[u] \in Job /\ cmd[u] \in Job
    /\ \A u \in Tabs : Building(u) => build[u].c \in Holders
    /\ \A u \in Tabs : cmd[u].pc \in {"drop", "kit", "undo", "carry"} => cmd[u].c \in Holders
    /\ ctrl \in [Tabs -> Holders \cup {None}] /\ \A u \in Tabs : ctrl[u] # None => ctrl[u] \in Holders
    /\ at \in [Holders -> 0..MaxPaths] /\ named \in 0..MaxPaths
    /\ live \in SUBSET Holders /\ dirty \in SUBSET Holders
    /\ turns \in [Tabs -> SUBSET Holders] /\ cut \in SUBSET Holders
    /\ file \in SUBSET Paths /\ trash \in SUBSET Paths /\ path \in [Tabs -> 0..MaxPaths]
    /\ lease \in [Paths -> Tabs \cup {None}] /\ saver \in [Tabs -> {"none", "snap", "settle"}]
    /\ st \in [Tabs -> {"new", "open", "teardown", "unlease", "closed", "trashing", "trashed"}]
    /\ None \notin Tabs /\ None \notin Holders /\ MaxPaths \in Nat

Known ==
    /\ \A u \in Tabs : Building(u) => build[u].c \in Holders
    /\ \A u \in Tabs : cmd[u].pc \in {"drop", "kit", "undo", "carry"} => cmd[u].c \in Holders
    /\ \A u \in Tabs : ctrl[u] # None => ctrl[u] \in Holders
    /\ \A c \in live \cup dirty : c \in Holders
    /\ None \notin Tabs /\ None \notin Holders

Numbers ==
    /\ \A u \in Tabs : path[u] \in 0..MaxPaths /\ build[u].path \in 0..MaxPaths /\ cmd[u].path \in 0..MaxPaths
    /\ \A c \in Holders : at[c] \in 0..MaxPaths
    /\ \A p \in file \cup trash : p \in Paths
    /\ \A p : p \in Paths <=> p \in 0..MaxPaths /\ p # 0
    /\ named \in Nat /\ MaxPaths \in Nat

LEMMA TypedFacts == ASSUME TabsTyped, Owned PROVE Typed /\ Known /\ Numbers
<1>1. /\ \A u \in Tabs : build[u] \in Job /\ cmd[u] \in Job
      /\ \A u \in Tabs : ctrl[u] # None => ctrl[u] \in Holders
  BY TabsAssumption DEF TabsTyped
<1>2. /\ \A u \in Tabs : Building(u) => build[u].c \in Holders
      /\ \A u \in Tabs : cmd[u].pc \in {"drop", "kit", "undo", "carry"} => cmd[u].c \in Holders
  BY DEF Owned, Building
<1>3. Typed
  BY <1>1, <1>2, TabsAssumption DEF TabsTyped, Typed
<1>4. Known
  BY <1>3 DEF Typed, Known
<1>5. Numbers
  <2>1. \A p : p \in Paths <=> p \in 0..MaxPaths /\ p # 0
    BY <1>3 DEF Typed, Paths
  <2>2. \A u \in Tabs : path[u] \in 0..MaxPaths /\ build[u].path \in 0..MaxPaths /\ cmd[u].path \in 0..MaxPaths
    BY <1>1, <1>3 DEF Typed, Job
  <2>3. (\A c \in Holders : at[c] \in 0..MaxPaths) /\ named \in Nat /\ MaxPaths \in Nat
    BY <1>3 DEF Typed
  <2> QED BY <1>3, <2>1, <2>2, <2>3 DEF Typed, Numbers
<1> QED BY <1>3, <1>4, <1>5

-----------------------------------------------------------------------------
(* The build *)

\* A tab is opened empty.
LEMMA OpenTabKeeps ==
    ASSUME TabsTyped, Owned, PoolTypeOK, Ties, NEW t \in Tabs, OpenTab(t)
    PROVE  Ties'
<1>1. Typed /\ Known /\ Numbers
  BY TypedFacts
<1>2. /\ st[t] = "new"
      /\ \A u \in Tabs : st'[u] = IF u = t THEN "open" ELSE st[u]
  BY <1>1, TabsAssumption DEF Typed, OpenTab, disk, saves, past, pool
<1>3. UNCHANGED <<ctrl, path, build, cmd, live, at, lease, file, trash, named, dirty, saver, again,
                  turns, unsaved, cut, moved, crossed, call>>
  BY <1>1 DEF OpenTab, disk, saves, past, pool
<1>4. Apart' /\ Taken' /\ Clean' /\ Named'
  BY <1>3 DEF Ties, Apart, Taken, Clean, Named, Building, Remaking
<1>11. Saves' /\ TurnsAreSaved'
  BY <1>1, <1>2, <1>3 DEF Ties, Saves, TurnsAreSaved, New, Known
<1>5. New'
  BY <1>2, <1>3 DEF Ties, New, Building
<1>6. Alive'
  BY <1>2, <1>3 DEF Ties, Alive, New, Booted, Building
<1>7. Still'
  BY <1>2, <1>3 DEF Ties, Still, Building, Rebuilding
<1>8. Leased'
  BY <1>2, <1>3 DEF Ties, Leased
<1>9. Seen'
  BY <1>2, <1>3 DEF Ties, Seen, Booted
<1>10. WritersHoldTheirLease'
  BY <1>1, <1>2, <1>3 DEF Ties, WritersHoldTheirLease, New, Writes, Building, Known
<1> QED BY <1>4, <1>5, <1>6, <1>7, <1>8, <1>9, <1>10, <1>11 DEF Ties

\* The holder of a new build is nobody else's: it was idle.
LEMMA StartBuildKeeps ==
    ASSUME TabsTyped, Owned, PoolTypeOK, Ties, NEW t \in Tabs, NEW c \in Holders, StartBuild(t, c)
    PROVE  Ties'
<1>1. Typed /\ Known /\ Numbers
  BY TypedFacts
<1>2. /\ st[t] = "open" /\ ctrl[t] = None /\ ~Building(t)
      /\ call[c].pc = "idle" /\ call'[c].pc # "idle"
      /\ \A h \in Holders \ {c} : call'[h].pc = call[h].pc
      /\ build'[t].pc = "kit" /\ build'[t].c = c /\ build'[t].path = 0
      /\ \A u \in Tabs \ {t} : build'[u] = build[u]
      /\ crossed' = IF Rebuilding(t) THEN crossed \cup {t} ELSE crossed
  BY <1>1, TabsAssumption DEF Typed, StartBuild, Job, disk, saves, Acquire, PoolTypeOK
<1>3. UNCHANGED <<st, ctrl, path, cmd, live, at, lease, file, trash, named, dirty, saver, again,
                  turns, unsaved, cut, moved>>
  BY <1>1 DEF StartBuild, disk, saves, Acquire, PoolTypeOK
<1>4. New'
  BY <1>2, <1>3 DEF Ties, New, Building
<1>5. Apart'
  BY <1>1, <1>2, <1>3 DEF Ties, Apart, Taken, Building, Remaking, Known
<1>6. Taken'
  BY <1>1, <1>2, <1>3 DEF Ties, Taken, Building, Remaking, Known
<1>7. Clean'
  BY <1>2, <1>3 DEF Ties, Clean, Taken, Building, Remaking
<1>8. Alive'
  BY <1>2, <1>3 DEF Ties, Alive, Booted
<1>9. Named'
  BY <1>1, <1>2, <1>3 DEF Ties, Named, Numbers
<1>10. Still'
  BY <1>2, <1>3 DEF Ties, Still, Building, Rebuilding
<1>11. Leased'
  BY <1>2, <1>3 DEF Ties, Leased
<1>12. Saves'
  BY <1>2, <1>3 DEF Ties, Saves
<1>13. Seen'
  BY <1>2, <1>3 DEF Ties, Seen, Still, Booted, Building, Rebuilding
<1>14. WritersHoldTheirLease'
  BY <1>2, <1>3 DEF Ties, WritersHoldTheirLease, Writes
<1>15. TurnsAreSaved'
  BY <1>2, <1>3 DEF Ties, TurnsAreSaved
<1> QED BY <1>4, <1>5, <1>6, <1>7, <1>8, <1>9, <1>10, <1>11, <1>12, <1>13, <1>14, <1>15 DEF Ties

LEMMA KitMissingKeeps ==
    ASSUME TabsTyped, Owned, PoolTypeOK, Ties, NEW t \in Tabs, KitMissing(t)
    PROVE  Ties'
<1>1. Typed /\ Known /\ Numbers
  BY TypedFacts
<1>2. /\ build[t].pc \in {"kit", "undo"}
      /\ build'[t].pc = "none" /\ build'[t].c = None /\ build'[t].path = 0
      /\ \A u \in Tabs \ {t} : build'[u] = build[u]
  BY <1>1, TabsAssumption DEF Typed, KitMissing, Idle, Job, disk, saves, past, pool
<1>3. UNCHANGED <<st, ctrl, path, cmd, live, at, lease, file, trash, named, dirty, saver, again,
                  turns, unsaved, cut, moved, crossed, call>>
  BY <1>1 DEF KitMissing, disk, saves, past, pool
<1>4. Saves' /\ WritersHoldTheirLease' /\ TurnsAreSaved'
  BY <1>3 DEF Ties, Saves, WritersHoldTheirLease, TurnsAreSaved, Writes
<1>5. New'
  BY <1>2, <1>3 DEF Ties, New, Building
<1>6. Apart'
  BY <1>2, <1>3 DEF Ties, Apart, Building, Remaking
<1>7. Taken'
  BY <1>2, <1>3 DEF Ties, Taken, Building, Remaking
<1>8. Clean'
  BY <1>2, <1>3 DEF Ties, Clean, Building, Remaking
<1>9. Alive'
  BY <1>2, <1>3 DEF Ties, Alive, Booted
<1>10. Named'
  BY <1>1, <1>2, <1>3 DEF Ties, Named, Numbers
<1>11. Still'
  BY <1>2, <1>3 DEF Ties, Still, Building, Rebuilding
<1>12. Leased'
  BY <1>2, <1>3 DEF Ties, Leased
<1>13. Seen'
  BY <1>2, <1>3 DEF Ties, Seen, Booted
<1> QED BY <1>4, <1>5, <1>6, <1>7, <1>8, <1>9, <1>10, <1>11, <1>12, <1>13 DEF Ties

LEMMA BootKeeps ==
    ASSUME TabsTyped, Owned, PoolTypeOK, Ties, NEW t \in Tabs, Boot(t)
    PROVE  Ties'
<1>1. Typed /\ Known /\ Numbers
  BY TypedFacts
<1>2. CASE /\ live' = live \cup {build[t].c}
           /\ build' = [build EXCEPT ![t].pc = "claim"]
           /\ UNCHANGED pool
  <2>1. /\ build[t].pc = "kit" /\ build[t].c \in Holders
        /\ live' = live \cup {build[t].c}
        /\ build'[t].pc = "claim" /\ build'[t].c = build[t].c /\ build'[t].path = build[t].path
        /\ \A u \in Tabs \ {t} : build'[u] = build[u]
    BY <1>1, <1>2, TabsAssumption DEF Typed, Boot, Job, disk, saves, past, pool, Owned
  <2>2. UNCHANGED <<st, ctrl, path, cmd, at, lease, file, trash, named, dirty, saver, again,
                    turns, unsaved, cut, moved, crossed, call>>
    BY <1>1, <1>2 DEF Boot, disk, saves, past, pool, Owned
  <2>3. Saves'
    BY <2>2 DEF Ties, Saves
  <2>4. New'
    BY <2>1, <2>2 DEF Ties, New, Building
  <2>5. Apart'
    BY <2>1, <2>2 DEF Ties, Apart, Building, Remaking
  <2>6. Taken'
    BY <2>1, <2>2 DEF Ties, Taken, Building, Remaking
  <2>7. Clean'
    BY <2>1, <2>2 DEF Ties, Clean, Building, Remaking
  <2>8. Alive'
    BY <2>1, <2>2 DEF Ties, Alive, Booted
  <2>9. Named'
    BY <2>1, <2>2 DEF Ties, Named
  <2>10. Still'
    BY <2>1, <2>2 DEF Ties, Still, Building, Rebuilding
  <2>11. Leased'
    BY <2>1, <2>2 DEF Ties, Leased
  <2>12. Seen'
    BY <2>1, <2>2 DEF Ties, Seen, Booted
  <2>13. WritersHoldTheirLease'
    BY <2>1, <2>2 DEF Ties, WritersHoldTheirLease, Apart, Writes, Building, Remaking
  <2>14. TurnsAreSaved'
    BY <2>1, <2>2 DEF Ties, TurnsAreSaved
  <2> QED BY <2>3, <2>4, <2>5, <2>6, <2>7, <2>8, <2>9, <2>10, <2>11, <2>12, <2>13, <2>14 DEF Ties
<1>3. CASE Release(build[t].c) /\ build' = [build EXCEPT ![t].pc = "undo"] /\ UNCHANGED live
  <2>1. /\ build[t].pc = "kit" /\ build[t].c \in Holders
        /\ build'[t].pc = "undo" /\ build'[t].c = build[t].c /\ build'[t].path = build[t].path
        /\ \A u \in Tabs \ {t} : build'[u] = build[u]
        /\ \A h \in Holders : call'[h].pc = "idle" <=> call[h].pc = "idle"
    BY <1>1, <1>3, TabsAssumption DEF Typed, Boot, Job, disk, saves, past, pool, Owned, Release,
       PoolTypeOK, Step
  <2>2. UNCHANGED <<st, ctrl, path, cmd, live, at, lease, file, trash, named, dirty, saver, again,
                    turns, unsaved, cut, moved, crossed>>
    BY <1>1, <1>3 DEF Boot, disk, saves, past, pool, Owned, Release, PoolTypeOK, Step
  <2>3. Saves' /\ WritersHoldTheirLease' /\ TurnsAreSaved'
    BY <2>2 DEF Ties, Saves, WritersHoldTheirLease, TurnsAreSaved, Writes
  <2>4. New'
    BY <2>1, <2>2 DEF Ties, New, Building
  <2>5. Apart'
    BY <2>1, <2>2 DEF Ties, Apart, Building, Remaking
  <2>6. Taken'
    BY <1>1, <2>1, <2>2 DEF Ties, Taken, Building, Remaking, Known
  <2>7. Clean'
    BY <2>1, <2>2 DEF Ties, Clean, Building, Remaking
  <2>8. Alive'
    BY <2>1, <2>2 DEF Ties, Alive, Booted
  <2>9. Named'
    BY <2>1, <2>2 DEF Ties, Named
  <2>10. Still'
    BY <2>1, <2>2 DEF Ties, Still, Building, Rebuilding
  <2>11. Leased'
    BY <2>1, <2>2 DEF Ties, Leased
  <2>12. Seen'
    BY <2>1, <2>2 DEF Ties, Seen, Booted
  <2> QED BY <2>3, <2>4, <2>5, <2>6, <2>7, <2>8, <2>9, <2>10, <2>11, <2>12 DEF Ties
<1> QED BY <1>2, <1>3 DEF Boot

LEMMA ClaimKeeps ==
    ASSUME TabsTyped, Owned, PoolTypeOK, Ties, NEW t \in Tabs, Claim(t)
    PROVE  Ties'
<1>1. Typed /\ Known /\ Numbers
  BY TypedFacts
<1>2. CASE build' = [build EXCEPT ![t].pc = "fresh"] /\ UNCHANGED lease
  <2>1. /\ build[t].pc = "claim"
        /\ build'[t].pc = "fresh" /\ build'[t].c = build[t].c /\ build'[t].path = build[t].path
        /\ \A u \in Tabs \ {t} : build'[u] = build[u]
    BY <1>1, <1>2, TabsAssumption DEF Typed, Claim, Job, saves, past, pool
  <2>2. UNCHANGED <<st, ctrl, path, cmd, live, at, lease, file, trash, named, dirty, saver, again,
                    turns, unsaved, cut, moved, crossed, call>>
    BY <1>1, <1>2 DEF Claim, saves, past, pool
  <2>3. Saves' /\ WritersHoldTheirLease' /\ TurnsAreSaved'
    BY <2>2 DEF Ties, Saves, WritersHoldTheirLease, TurnsAreSaved, Writes
  <2>4. New'
    BY <2>1, <2>2 DEF Ties, New, Building
  <2>5. Apart'
    BY <2>1, <2>2 DEF Ties, Apart, Building, Remaking
  <2>6. Taken'
    BY <2>1, <2>2 DEF Ties, Taken, Building, Remaking
  <2>7. Clean'
    BY <2>1, <2>2 DEF Ties, Clean, Building, Remaking
  <2>8. Alive'
    BY <2>1, <2>2 DEF Ties, Alive, Booted
  <2>9. Named'
    BY <2>1, <2>2 DEF Ties, Named
  <2>10. Still'
    BY <2>1, <2>2 DEF Ties, Still, Building, Rebuilding
  <2>11. Leased'
    BY <2>1, <2>2 DEF Ties, Leased
  <2>12. Seen'
    BY <2>1, <2>2 DEF Ties, Seen, Booted
  <2> QED BY <2>3, <2>4, <2>5, <2>6, <2>7, <2>8, <2>9, <2>10, <2>11, <2>12 DEF Ties
<1>3. CASE \E raw \in (IF path[t] # 0 THEN {path[t]} ELSE file \cup {0}) :
          /\ raw # 0 /\ lease[raw] \in {None, t} /\ lease' = [lease EXCEPT ![raw] = t]
          /\ build' = [build EXCEPT ![t].pc = "load", ![t].path = raw]
  <2>1. PICK raw \in (IF path[t] # 0 THEN {path[t]} ELSE file \cup {0}) :
          /\ raw # 0 /\ lease[raw] \in {None, t} /\ lease' = [lease EXCEPT ![raw] = t]
          /\ build' = [build EXCEPT ![t].pc = "load", ![t].path = raw]
    BY <1>3
  <2>2. raw = path[t] \/ raw \in file
    BY <2>1
  <2>3. raw \in Paths
    BY <1>1, <2>1, <2>2 DEF Typed, Paths
  <2>4. /\ build[t].pc = "claim"
        /\ lease[raw] \in {None, t} /\ raw \in Paths /\ (raw = path[t] \/ raw \in file)
        /\ build'[t].pc = "load" /\ build'[t].c = build[t].c /\ build'[t].path = raw
        /\ \A u \in Tabs \ {t} : build'[u] = build[u]
        /\ \A u \in Paths : lease'[u] = IF u = raw THEN t ELSE lease[u]
    BY <1>1, <1>3, <2>1, <2>2, <2>3, TabsAssumption DEF Typed, Claim, Job, saves, past, pool
  <2>5. UNCHANGED <<st, ctrl, path, cmd, live, at, file, trash, named, dirty, saver, again,
                    turns, unsaved, cut, moved, crossed, call>>
    BY <1>1, <1>3, <2>1, <2>2, <2>3 DEF Claim, saves, past, pool
  <2>6. Saves' /\ TurnsAreSaved'
    BY <2>5 DEF Ties, Saves, TurnsAreSaved
  <2>7. New'
    BY <2>4, <2>5 DEF Ties, New, Building
  <2>8. Apart'
    BY <2>4, <2>5 DEF Ties, Apart, Building, Remaking
  <2>9. Taken'
    BY <2>4, <2>5 DEF Ties, Taken, Building, Remaking
  <2>10. Clean'
    BY <2>4, <2>5 DEF Ties, Clean, Building, Remaking
  <2>11. Alive'
    BY <2>4, <2>5 DEF Ties, Alive, Booted
  <2>12. Named'
    BY <2>4, <2>5 DEF Ties, Named
  <2>13. Still'
    BY <2>4, <2>5 DEF Ties, Still, Building, Rebuilding
  <2>14. Leased'
    BY <1>1, <2>4, <2>5 DEF Ties, Leased, Still, Building, Rebuilding, Known, Numbers
  <2>15. Seen'
    BY <2>4, <2>5 DEF Ties, Seen, Booted
  <2>16. WritersHoldTheirLease'
    BY <1>1, <2>4, <2>5 DEF Ties, WritersHoldTheirLease, Writes, Known, Numbers
  <2> QED BY <2>6, <2>7, <2>8, <2>9, <2>10, <2>11, <2>12, <2>13, <2>14, <2>15, <2>16 DEF Ties
<1> QED BY <1>2, <1>3 DEF Claim

LEMMA LoadKeeps ==
    ASSUME TabsTyped, Owned, PoolTypeOK, Ties, NEW t \in Tabs, Load(t)
    PROVE  Ties'
<1>1. Typed /\ Known /\ Numbers
  BY TypedFacts
<1>2. CASE /\ at' = [at EXCEPT ![build[t].c] = build[t].path]
           /\ build' = [build EXCEPT ![t].pc = "install"]
           /\ UNCHANGED lease
  <2>1. /\ build[t].pc = "load" /\ build[t].c \in Holders
        /\ build'[t].pc = "install" /\ build'[t].c = build[t].c /\ build'[t].path = build[t].path
        /\ \A u \in Tabs \ {t} : build'[u] = build[u]
        /\ \A u \in Holders : at'[u] = IF u = build[t].c THEN build[t].path ELSE at[u]
    BY <1>1, <1>2, TabsAssumption DEF Typed, Load, Job, saves, past, pool, Owned
  <2>2. UNCHANGED <<st, ctrl, path, cmd, live, lease, file, trash, named, dirty, saver, again,
                    turns, unsaved, cut, moved, crossed, call>>
    BY <1>1, <1>2 DEF Load, saves, past, pool, Owned
  <2>3. TurnsAreSaved'
    BY <2>2 DEF Ties, TurnsAreSaved
  <2>4. New'
    BY <2>1, <2>2 DEF Ties, New, Building
  <2>5. Apart'
    BY <2>1, <2>2 DEF Ties, Apart, Building, Remaking
  <2>6. Taken'
    BY <2>1, <2>2 DEF Ties, Taken, Building, Remaking
  <2>7. Clean'
    BY <1>1, <2>1, <2>2 DEF Ties, Clean, Apart, Building, Remaking, Known
  <2>8. Alive'
    BY <2>1, <2>2 DEF Ties, Alive, Booted
  <2>9. Named'
    BY <2>1, <2>2 DEF Ties, Named
  <2>10. Still'
    BY <2>1, <2>2 DEF Ties, Still, Building, Rebuilding
  <2>11. Leased'
    BY <2>1, <2>2 DEF Ties, Leased
  <2>12. Saves'
    BY <1>1, <2>1, <2>2 DEF Ties, Saves, Apart, Building, Remaking, Known
  <2>13. Seen'
    BY <2>1, <2>2 DEF Ties, Seen, Booted
  <2>14. WritersHoldTheirLease'
    BY <1>1, <2>1, <2>2 DEF Ties, WritersHoldTheirLease, Apart, Writes, Building, Remaking, Known
  <2> QED BY <2>3, <2>4, <2>5, <2>6, <2>7, <2>8, <2>9, <2>10, <2>11, <2>12, <2>13, <2>14 DEF Ties
<1>3. CASE lease' = Released(t) /\ build' = [build EXCEPT ![t].pc = "fresh"] /\ UNCHANGED at
  <2>1. /\ build[t].pc = "load"
        /\ build'[t].pc = "fresh" /\ build'[t].c = build[t].c /\ build'[t].path = build[t].path
        /\ \A u \in Tabs \ {t} : build'[u] = build[u]
        /\ \A p \in Paths : lease'[p] = IF lease[p] = t THEN None ELSE lease[p]
    BY <1>1, <1>3, TabsAssumption DEF Typed, Load, Job, saves, past, pool, Released
  <2>2. UNCHANGED <<st, ctrl, path, cmd, live, at, file, trash, named, dirty, saver, again,
                    turns, unsaved, cut, moved, crossed, call>>
    BY <1>1, <1>3 DEF Load, saves, past, pool, Released
  <2>3. Saves' /\ TurnsAreSaved'
    BY <2>2 DEF Ties, Saves, TurnsAreSaved
  <2>4. New'
    BY <2>1, <2>2 DEF Ties, New, Building
  <2>5. Apart'
    BY <2>1, <2>2 DEF Ties, Apart, Building, Remaking
  <2>6. Taken'
    BY <2>1, <2>2 DEF Ties, Taken, Building, Remaking
  <2>7. Clean'
    BY <2>1, <2>2 DEF Ties, Clean, Building, Remaking
  <2>8. Alive'
    BY <2>1, <2>2 DEF Ties, Alive, Booted
  <2>9. Named'
    BY <2>1, <2>2 DEF Ties, Named
  <2>10. Still'
    BY <2>1, <2>2 DEF Ties, Still, Building, Rebuilding
  <2>11. Leased'
    BY <1>1, <2>1, <2>2 DEF Ties, Leased, Still, Building, Rebuilding, Known, Numbers
  <2>12. Seen'
    BY <2>1, <2>2 DEF Ties, Seen, Booted
  <2>13. WritersHoldTheirLease'
    BY <1>1, <2>1, <2>2 DEF Ties, WritersHoldTheirLease, Still, Writes, Building, Rebuilding,
       Known, Numbers
  <2> QED BY <2>3, <2>4, <2>5, <2>6, <2>7, <2>8, <2>9, <2>10, <2>11, <2>12, <2>13 DEF Ties
<1> QED BY <1>2, <1>3 DEF Load

LEMMA FreshKeeps ==
    ASSUME TabsTyped, Owned, PoolTypeOK, Ties, NEW t \in Tabs, Fresh(t)
    PROVE  Ties'
<1>1. Typed /\ Known /\ Numbers
  BY TypedFacts
<1>2. /\ build[t].pc = "fresh" /\ build[t].c \in Holders
      /\ named' = named + 1 /\ named + 1 \in Paths
      /\ build'[t].pc = "install" /\ build'[t].c = build[t].c /\ build'[t].path = named + 1
      /\ \A u \in Tabs \ {t} : build'[u] = build[u]
      /\ \A u \in Holders : at'[u] = IF u = build[t].c THEN named + 1 ELSE at[u]
      /\ \A u \in Paths : lease'[u] = IF u = named + 1 THEN t ELSE lease[u]
  BY <1>1, TabsAssumption DEF Typed, Fresh, Job, saves, past, pool, Owned, Paths
<1>3. UNCHANGED <<st, ctrl, path, cmd, live, file, trash, dirty, saver, again, turns, unsaved, cut, moved,
                  crossed, call>>
  BY <1>1 DEF Fresh, saves, past, pool, Owned, Paths
<1>4. TurnsAreSaved'
  BY <1>3 DEF Ties, TurnsAreSaved
<1>5. New'
  BY <1>2, <1>3 DEF Ties, New, Building
<1>6. Apart'
  BY <1>2, <1>3 DEF Ties, Apart, Building, Remaking
<1>7. Taken'
  BY <1>2, <1>3 DEF Ties, Taken, Building, Remaking
<1>8. Clean'
  BY <1>1, <1>2, <1>3 DEF Ties, Clean, Apart, Building, Remaking, Known
<1>9. Alive'
  BY <1>2, <1>3 DEF Ties, Alive, Booted
<1>10. Named'
  BY <1>1, <1>2, <1>3 DEF Ties, Named, Numbers
<1>11. Still'
  BY <1>2, <1>3 DEF Ties, Still, Building, Rebuilding
<1>12. Leased'
  BY <1>1, <1>2, <1>3 DEF Ties, Leased, Still, Named, Building, Rebuilding, Known, Numbers
<1>13. Saves'
  BY <1>1, <1>2, <1>3 DEF Ties, Saves, Apart, Building, Remaking, Known
<1>14. Seen'
  BY <1>2, <1>3 DEF Ties, Seen, Booted
<1>15. WritersHoldTheirLease'
  BY <1>1, <1>2, <1>3 DEF Ties, WritersHoldTheirLease, Named, Apart, Writes, Building, Remaking,
     Known, Numbers
<1> QED BY <1>4, <1>5, <1>6, <1>7, <1>8, <1>9, <1>10, <1>11, <1>12, <1>13, <1>14, <1>15 DEF Ties

\* The controller that a tab is given writes the path its build has claimed.
LEMMA InstallKeeps ==
    ASSUME TabsTyped, Owned, PoolTypeOK, Ties, NEW t \in Tabs, Install(t)
    PROVE  Ties'
<1>1. Typed /\ Known /\ Numbers
  BY TypedFacts
<1>2. /\ build[t].pc = "install" /\ build[t].c \in Holders
      /\ \A u \in Tabs : ctrl'[u] = IF u = t THEN build[t].c ELSE ctrl[u]
      /\ \A u \in Tabs : path'[u] = IF u = t THEN build[t].path ELSE path[u]
      /\ build'[t].pc = "none" /\ build'[t].c = None /\ build'[t].path = 0
      /\ \A u \in Tabs \ {t} : build'[u] = build[u]
      /\ moved' = moved \ {t}
  BY <1>1, TabsAssumption DEF Typed, Install, Idle, Job, saves, pool, Owned
<1>3. UNCHANGED <<st, cmd, live, at, lease, file, trash, named, dirty, saver, again, turns, unsaved, cut,
                  crossed, call>>
  BY <1>1 DEF Install, saves, pool, Owned
<1>4. New'
  BY <1>2, <1>3 DEF Ties, New, Building
<1>5. Apart'
  BY <1>2, <1>3 DEF Ties, Apart, Building, Remaking
<1>6. Taken'
  BY <1>2, <1>3 DEF Ties, Taken, Building, Remaking
<1>7. Clean'
  BY <1>2, <1>3 DEF Ties, Clean, Building, Remaking
<1>8. Alive'
  BY <1>2, <1>3 DEF Ties, Alive, Booted
<1>9. Named'
  BY <1>1, <1>2, <1>3 DEF Ties, Named, Numbers
<1>10. Still'
  BY <1>2, <1>3 DEF Ties, Still, Building, Rebuilding
<1>11. Leased'
  BY <1>1, <1>2, <1>3 DEF Ties, Leased, Still, Building, Rebuilding, Known
<1>12. Saves'
  BY <1>2, <1>3 DEF Ties, Saves, Clean, Building, Remaking
<1>13. Seen'
  BY <1>1, <1>2, <1>3 DEF Ties, Seen, Still, Booted, Building, Rebuilding, Known
<1>14. WritersHoldTheirLease'
  BY <1>1, <1>2, <1>3 DEF Ties, WritersHoldTheirLease, Clean, Leased, Writes, Building, Remaking,
     Known
<1>15. TurnsAreSaved'
  BY <1>2, <1>3 DEF Ties, TurnsAreSaved, Clean, Building, Remaking
<1> QED BY <1>4, <1>5, <1>6, <1>7, <1>8, <1>9, <1>10, <1>11, <1>12, <1>13, <1>14, <1>15 DEF Ties

-----------------------------------------------------------------------------
(* The end *)

\* What is being done on a tab that ends crosses its end.
LEMMA CloseTabKeeps ==
    ASSUME TabsTyped, Owned, PoolTypeOK, Ties, NEW t \in Tabs, CloseTab(t)
    PROVE  Ties'
<1>1. Typed /\ Known /\ Numbers
  BY TypedFacts
<1>2. /\ st[t] = "open"
      /\ \A u \in Tabs : st'[u] = IF u = t THEN "teardown" ELSE st[u]
      /\ crossed' = IF Building(t) \/ Rebuilding(t) THEN crossed \cup {t} ELSE crossed
  BY <1>1, TabsAssumption DEF Typed, CloseTab, disk, saves, pool, Cross
<1>3. UNCHANGED <<ctrl, path, build, cmd, live, at, lease, file, trash, named, dirty, saver, again,
                  turns, unsaved, cut, moved, call>>
  BY <1>1 DEF CloseTab, disk, saves, pool, Cross
<1>4. Apart' /\ Taken' /\ Clean' /\ Named'
  BY <1>3 DEF Ties, Apart, Taken, Clean, Named, Building, Remaking
<1>5. New'
  BY <1>2, <1>3 DEF Ties, New, Building
<1>6. Alive'
  BY <1>2, <1>3 DEF Ties, Alive, Booted
<1>7. Still'
  BY <1>2, <1>3 DEF Ties, Still, Building, Rebuilding
<1>8. Leased'
  BY <1>2, <1>3 DEF Ties, Leased
<1>9. Saves'
  BY <1>2, <1>3 DEF Ties, Saves
<1>10. Seen'
  BY <1>2, <1>3 DEF Ties, Seen, Booted
<1>11. WritersHoldTheirLease'
  BY <1>2, <1>3 DEF Ties, WritersHoldTheirLease, Writes
<1>12. TurnsAreSaved'
  BY <1>2, <1>3 DEF Ties, TurnsAreSaved
<1> QED BY <1>4, <1>5, <1>6, <1>7, <1>8, <1>9, <1>10, <1>11, <1>12 DEF Ties

\* The last snapshot of a controller has seen its last turn, or it is cut.
Settles(t) ==
    /\ dirty' \subseteq dirty /\ cut \subseteq cut'
    /\ ctrl[t] \in dirty' /\ at[ctrl[t]] # 0 => ctrl[t] \in cut'
    /\ \A c \in dirty : c = ctrl[t] \/ c \in dirty'
    /\ \A p \in file' : p \in file \/ p = at[ctrl[t]]

LEMMA LastSnapshotSettles ==
    ASSUME NEW t \in Tabs, LastSnapshot(t) PROVE Settles(t)
<1>1. /\ dirty' \subseteq dirty
      /\ \A c \in dirty : c = ctrl[t] \/ c \in dirty'
      /\ \A p \in file' : p \in file \/ p = at[ctrl[t]]
      /\ ctrl[t] \notin dirty' \/ at[ctrl[t]] = 0 \/ ctrl[t] \in cut'
  BY DEF LastSnapshot, Snapshot, SnapshotFails
<1>2. cut \subseteq cut'
  BY DEF LastSnapshot
<1> QED BY <1>1, <1>2 DEF Settles

\* Whoever closes it, its last turn is saved or cut.
LEMMA TeardownKeeps ==
    ASSUME TabsTyped, Owned, PoolTypeOK, Ties, NEW t \in Tabs, Teardown(t)
    PROVE  Ties'
<1>1. Typed /\ Known /\ Numbers
  BY TypedFacts
<1>2. CASE ctrl[t] = None /\ UNCHANGED <<pool, ctrl, file, dirty, cut, live>>
  <2>1. /\ st[t] = "teardown" /\ ctrl[t] = None
        /\ \A u \in Tabs : st'[u] = IF u = t THEN "unlease" ELSE st[u]
    BY <1>1, <1>2, TabsAssumption DEF Typed, Teardown, past, pool
  <2>2. UNCHANGED <<ctrl, path, build, cmd, live, at, lease, file, trash, named, dirty, saver,
                    again, turns, unsaved, cut, moved, crossed, call>>
    BY <1>1, <1>2 DEF Teardown, past, pool
  <2>3. Apart' /\ Taken' /\ Clean' /\ Named'
    BY <2>2 DEF Ties, Apart, Taken, Clean, Named, Building, Remaking
  <2>10. Saves' /\ TurnsAreSaved'
    BY <2>1, <2>2 DEF Ties, Saves, TurnsAreSaved
  <2>4. New'
    BY <2>1, <2>2 DEF Ties, New, Building
  <2>5. Alive'
    BY <2>1, <2>2 DEF Ties, Alive, Booted
  <2>6. Still'
    BY <2>1, <2>2 DEF Ties, Still, Building, Rebuilding
  <2>7. Leased'
    BY <2>1, <2>2 DEF Ties, Leased
  <2>8. Seen'
    BY <1>1, <2>1, <2>2 DEF Ties, Seen, Booted, Known
  <2>9. WritersHoldTheirLease'
    BY <2>1, <2>2 DEF Ties, WritersHoldTheirLease, Writes
  <2> QED BY <2>3, <2>4, <2>5, <2>6, <2>7, <2>8, <2>9, <2>10 DEF Ties
<1>3. CASE /\ ctrl[t] # None
           /\ LastSnapshot(t)
           /\ live' = live \ {ctrl[t]}
           /\ ctrl' = [ctrl EXCEPT ![t] = None]
           /\ Release(ctrl[t])
  <2>0. ctrl[t] \in Holders /\ Settles(t)
    BY <1>1, <1>3, LastSnapshotSettles DEF Typed
  <2>1. /\ st[t] = "teardown" /\ ctrl[t] \in Holders
        /\ \A u \in Tabs : st'[u] = IF u = t THEN "unlease" ELSE st[u]
        /\ \A u \in Tabs : ctrl'[u] = IF u = t THEN None ELSE ctrl[u]
        /\ live' = live \ {ctrl[t]}
        /\ Settles(t)
        /\ \A h \in Holders : call'[h].pc = "idle" <=> call[h].pc = "idle"
    BY <1>1, <1>3, <2>0, TabsAssumption DEF Typed, Teardown, past, pool, Release, PoolTypeOK, Step
  <2>2. UNCHANGED <<path, build, cmd, at, lease, trash, named, saver, again, turns, unsaved, moved,
                    crossed>>
    BY <1>1, <1>3 DEF Teardown, past, pool, Release, PoolTypeOK, Step
  <2>3. New'
    BY <2>1, <2>2 DEF Ties, New, Building
  <2>4. Apart'
    BY <1>1, <2>1, <2>2 DEF Ties, Apart, Building, Remaking, Known
  <2>5. Taken'
    BY <1>1, <2>1, <2>2 DEF Ties, Settles, Taken, Building, Remaking, Known
  <2>6. Clean'
    BY <2>1, <2>2 DEF Ties, Settles, Clean, Building, Remaking
  <2>7. Alive'
    BY <2>1, <2>2 DEF Ties, Alive, Apart, Booted, Building, Remaking
  <2>8. Named'
    BY <2>1, <2>2 DEF Ties, Settles, Named
  <2>9. Still'
    BY <2>1, <2>2 DEF Ties, Still, Building, Rebuilding
  <2>10. Leased'
    BY <2>1, <2>2 DEF Ties, Leased
  <2>11. Saves'
    BY <1>1, <2>1, <2>2 DEF Ties, Settles, Saves, Known
  <2>12. Seen'
    BY <2>1, <2>2 DEF Ties, Seen, Booted
  <2>13. WritersHoldTheirLease'
    BY <2>1, <2>2 DEF Ties, WritersHoldTheirLease, Writes
  <2>14. TurnsAreSaved'
    BY <1>1, <2>1, <2>2 DEF Ties, Settles, TurnsAreSaved, Saves, Known
  <2> QED BY <2>3, <2>4, <2>5, <2>6, <2>7, <2>8, <2>9, <2>10, <2>11, <2>12, <2>13, <2>14 DEF Ties
<1> QED BY <1>2, <1>3 DEF Teardown

LEMMA UnleaseKeeps ==
    ASSUME TabsTyped, Owned, PoolTypeOK, Ties, NEW t \in Tabs, Unlease(t)
    PROVE  Ties'
<1>1. Typed /\ Known /\ Numbers
  BY TypedFacts
<1>2. /\ st[t] = "unlease"
      /\ \A u \in Tabs : st'[u] = IF u = t THEN "closed" ELSE st[u]
      /\ \A p \in Paths : lease'[p] = IF lease[p] = t THEN None ELSE lease[p]
  BY <1>1, TabsAssumption DEF Typed, Unlease, saves, past, pool, Released
<1>3. UNCHANGED <<ctrl, path, build, cmd, live, at, file, trash, named, dirty, saver, again,
                  turns, unsaved, cut, moved, crossed, call>>
  BY <1>1 DEF Unlease, saves, past, pool, Released
<1>4. Apart' /\ Taken' /\ Clean'
  BY <1>3 DEF Ties, Apart, Taken, Clean, Building, Remaking
<1>12. Saves' /\ TurnsAreSaved'
  BY <1>2, <1>3 DEF Ties, Saves, TurnsAreSaved
<1>5. New'
  BY <1>2, <1>3 DEF Ties, New, Building
<1>6. Alive'
  BY <1>2, <1>3 DEF Ties, Alive, Booted
<1>7. Named'
  BY <1>2, <1>3 DEF Ties, Named
<1>8. Still'
  BY <1>2, <1>3 DEF Ties, Still, Building, Rebuilding
<1>9. Leased'
  BY <1>1, <1>2, <1>3 DEF Ties, Leased, Still, Building, Rebuilding, Known, Numbers
<1>10. Seen'
  BY <1>2, <1>3 DEF Ties, Seen, Booted
<1>11. WritersHoldTheirLease'
  BY <1>1, <1>2, <1>3 DEF Ties, WritersHoldTheirLease, Writes, Known, Numbers
<1> QED BY <1>4, <1>5, <1>6, <1>7, <1>8, <1>9, <1>10, <1>11, <1>12 DEF Ties

LEMMA TrashTopicKeeps ==
    ASSUME TabsTyped, Owned, PoolTypeOK, Ties, NEW t \in Tabs, TrashTopic(t)
    PROVE  Ties'
<1>1. Typed /\ Known /\ Numbers
  BY TypedFacts
<1>2. CASE /\ ctrl[t] = None
           /\ UNCHANGED <<file, dirty, turns, cut, live>>
           /\ st' = [st EXCEPT ![t] = "trashing"] /\ Cross(t)
  <2>1. /\ st[t] = "open" /\ ctrl[t] = None
        /\ \A u \in Tabs : st'[u] = IF u = t THEN "trashing" ELSE st[u]
        /\ crossed' = IF Building(t) \/ Rebuilding(t) THEN crossed \cup {t} ELSE crossed
    BY <1>1, <1>2, TabsAssumption DEF Typed, TrashTopic, pool, Cross
  <2>2. UNCHANGED <<ctrl, path, build, cmd, live, at, lease, file, trash, named, dirty, saver,
                    again, turns, unsaved, cut, moved, call>>
    BY <1>1, <1>2 DEF TrashTopic, pool, Cross
  <2>3. Apart' /\ Taken' /\ Clean' /\ Named'
    BY <2>2 DEF Ties, Apart, Taken, Clean, Named, Building, Remaking
  <2>4. New'
    BY <2>1, <2>2 DEF Ties, New, Building
  <2>5. Alive'
    BY <2>1, <2>2 DEF Ties, Alive, Booted
  <2>6. Still'
    BY <2>1, <2>2 DEF Ties, Still, Building, Rebuilding
  <2>7. Leased'
    BY <2>1, <2>2 DEF Ties, Leased
  <2>8. Saves'
    BY <2>1, <2>2 DEF Ties, Saves
  <2>9. Seen'
    BY <1>1, <2>1, <2>2 DEF Ties, Seen, Booted, Known
  <2>10. WritersHoldTheirLease'
    BY <2>1, <2>2 DEF Ties, WritersHoldTheirLease, Writes
  <2>11. TurnsAreSaved'
    BY <2>1, <2>2 DEF Ties, TurnsAreSaved
  <2> QED BY <2>3, <2>4, <2>5, <2>6, <2>7, <2>8, <2>9, <2>10, <2>11 DEF Ties
<1>3. ASSUME ctrl[t] # None, live' = live \ {ctrl[t]}, st' = [st EXCEPT ![t] = "trashing"], Cross(t),
             \/ Snapshot(t) /\ UNCHANGED <<turns, cut>>
             \/ /\ file' \in {file, file \cup ({at[ctrl[t]]} \ {0})}
                /\ turns' = [turns EXCEPT ![t] = @ \cup {ctrl[t]}]
                /\ dirty' = dirty \cup {ctrl[t]} /\ cut' = cut \cup {ctrl[t]}
      PROVE  Ties'
  <2>1. /\ st[t] = "open" /\ ctrl[t] \in Holders
        /\ \A u \in Tabs : st'[u] = IF u = t THEN "trashing" ELSE st[u]
        /\ live' = live \ {ctrl[t]}
        /\ crossed' = IF Building(t) \/ Rebuilding(t) THEN crossed \cup {t} ELSE crossed
    BY <1>1, <1>3 DEF Typed, TrashTopic, Cross
  <2>2. /\ \A u \in Tabs \ {t} : turns'[u] = turns[u]
        /\ \A c \in dirty' : c \in dirty \/ c = ctrl[t]
        /\ ctrl[t] \in dirty' => ctrl[t] \in cut' \/ (at[ctrl[t]] = 0 /\ ctrl[t] \in dirty)
        /\ cut \subseteq cut'
        /\ \A p \in file' : p \in file \/ p = at[ctrl[t]]
    BY <1>1, <1>3 DEF Typed, TrashTopic, Snapshot
  <2>3. UNCHANGED <<ctrl, path, build, cmd, at, lease, trash, named, saver, again, unsaved, moved, call>>
    BY DEF TrashTopic, pool
  <2>4. Apart'
    BY <2>3 DEF Ties, Apart, Building, Remaking
  <2>5. New'
    BY <2>1, <2>3 DEF Ties, New, Building
  <2>6. Taken'
    BY <1>1, <2>1, <2>2, <2>3 DEF Ties, Taken, Building, Remaking, Known
  <2>7. Clean'
    BY <2>1, <2>2, <2>3 DEF Ties, Clean, Apart, Building, Remaking
  <2>8. Alive'
    BY <2>1, <2>3 DEF Ties, Alive, Apart, Booted, Building, Remaking
  <2>9. Named'
    BY <2>1, <2>2, <2>3 DEF Ties, Named
  <2>10. Still'
    BY <2>1, <2>3 DEF Ties, Still, Building, Rebuilding
  <2>11. Leased'
    BY <2>1, <2>3 DEF Ties, Leased
  <2>12. Saves'
    BY <1>1, <2>1, <2>2, <2>3 DEF Ties, Saves, Apart, Known
  <2>13. Seen'
    BY <2>1, <2>3 DEF Ties, Seen, Booted
  <2>14. WritersHoldTheirLease'
    BY <2>1, <2>3 DEF Ties, WritersHoldTheirLease, Writes
  <2>15. TurnsAreSaved'
    BY <1>1, <2>1, <2>2, <2>3 DEF Ties, TurnsAreSaved, Saves, Apart, Known
  <2> QED BY <2>4, <2>5, <2>6, <2>7, <2>8, <2>9, <2>10, <2>11, <2>12, <2>13, <2>14, <2>15 DEF Ties
<1>4. CASE SnapshotFails(t) /\ UNCHANGED <<st, turns, cut, live, crossed>>
  <2>1. UNCHANGED <<st, ctrl, path, build, cmd, live, at, lease, file, trash, named, dirty, saver,
                    again, turns, unsaved, cut, moved, crossed, call>>
    BY <1>4 DEF TrashTopic, SnapshotFails, pool
  <2> QED BY <2>1 DEF Ties, New, Apart, Taken, Clean, Alive, Named, Still, Leased, Saves, Seen,
       WritersHoldTheirLease, TurnsAreSaved, Building, Remaking, Booted, Rebuilding, Writes
<1> QED BY <1>2, <1>3, <1>4 DEF TrashTopic

LEMMA TrashedKeeps ==
    ASSUME TabsTyped, Owned, PoolTypeOK, Ties, NEW t \in Tabs, Trashed(t)
    PROVE  Ties'
<1>1. Typed /\ Known /\ Numbers
  BY TypedFacts
<1>2. /\ st[t] = "trashing"
      /\ \A u \in Tabs : st'[u] = IF u = t THEN "trashed" ELSE st[u]
      /\ \A p \in file' \cup trash' : p \in file \cup trash
  BY <1>1, TabsAssumption DEF Typed, Trashed, saves, past, pool
<1>3. UNCHANGED <<ctrl, path, build, cmd, live, at, lease, named, dirty, saver, again, turns, unsaved, cut,
                  moved, crossed, call>>
  BY <1>1 DEF Trashed, saves, past, pool
<1>4. Apart' /\ Taken' /\ Clean'
  BY <1>3 DEF Ties, Apart, Taken, Clean, Building, Remaking
<1>12. Saves' /\ TurnsAreSaved'
  BY <1>2, <1>3 DEF Ties, Saves, TurnsAreSaved
<1>5. New'
  BY <1>2, <1>3 DEF Ties, New, Building
<1>6. Alive'
  BY <1>2, <1>3 DEF Ties, Alive, Booted
<1>7. Named'
  BY <1>2, <1>3 DEF Ties, Named
<1>8. Still'
  BY <1>2, <1>3 DEF Ties, Still, Building, Rebuilding
<1>9. Leased'
  BY <1>2, <1>3 DEF Ties, Leased
<1>10. Seen'
  BY <1>2, <1>3 DEF Ties, Seen, Booted
<1>11. WritersHoldTheirLease'
  BY <1>2, <1>3 DEF Ties, WritersHoldTheirLease, Writes
<1> QED BY <1>4, <1>5, <1>6, <1>7, <1>8, <1>9, <1>10, <1>11, <1>12 DEF Ties

-----------------------------------------------------------------------------
(* The commands *)

\* The tab is moved: its controller writes a file that nobody claims.
LEMMA NewSessionKeeps ==
    ASSUME TabsTyped, Owned, PoolTypeOK, Ties, NEW t \in Tabs, NewSession(t)
    PROVE  Ties'
<1>1. Typed /\ Known /\ Numbers
  BY TypedFacts
<1>2. /\ st[t] = "open" /\ cmd[t].pc = "none" /\ ctrl[t] \in Holders
      /\ named' = named + 1 /\ named + 1 \in Paths
      /\ \A u \in Holders : at'[u] = IF u = ctrl[t] THEN named + 1 ELSE at[u]
      /\ moved' = moved \cup {t}
      /\ cmd'[t].pc = "sync" /\ cmd'[t].c = cmd[t].c /\ cmd'[t].path = cmd[t].path
      /\ \A u \in Tabs \ {t} : cmd'[u] = cmd[u]
      /\ dirty' \subseteq dirty
      /\ \A p \in file' : p \in file \/ p = at[ctrl[t]]
  BY <1>1, TabsAssumption DEF Typed, NewSession, Job, pool, Begin, Snapshot, Paths
<1>3. UNCHANGED <<st, ctrl, path, build, live, lease, trash, saver, again, turns, unsaved, cut, crossed, call>>
  BY <1>1 DEF NewSession, pool, Begin, Snapshot, Paths
<1>4. Alive' /\ Seen'
  BY <1>3 DEF Ties, Alive, Seen, Booted
<1>5. New'
  BY <1>2, <1>3 DEF Ties, New, Building
<1>6. Apart'
  BY <1>2, <1>3 DEF Ties, Apart, Building, Remaking
<1>7. Taken'
  BY <1>1, <1>2, <1>3 DEF Ties, Taken, Building, Remaking, Known
<1>8. Clean'
  BY <1>1, <1>2, <1>3 DEF Ties, Clean, Apart, Building, Remaking, Known
<1>9. Named'
  BY <1>1, <1>2, <1>3 DEF Ties, Named, Numbers
<1>10. Still'
  BY <1>2, <1>3 DEF Ties, Still, Building, Rebuilding
<1>11. Leased'
  BY <1>2, <1>3 DEF Ties, Leased
<1>12. Saves'
  BY <1>1, <1>2, <1>3 DEF Ties, Saves, Known, Numbers
<1>13. WritersHoldTheirLease'
  BY <1>1, <1>2, <1>3 DEF Ties, WritersHoldTheirLease, Apart, Writes, Building, Remaking, Known
<1>14. TurnsAreSaved'
  BY <1>2, <1>3 DEF Ties, TurnsAreSaved
<1> QED BY <1>4, <1>5, <1>6, <1>7, <1>8, <1>9, <1>10, <1>11, <1>12, <1>13, <1>14 DEF Ties

LEMMA ResumeSessionKeeps ==
    ASSUME TabsTyped, Owned, PoolTypeOK, Ties, NEW t \in Tabs, NEW p \in Paths, ResumeSession(t, p)
    PROVE  Ties'
<1>1. Typed /\ Known /\ Numbers
  BY TypedFacts
<1>2. /\ st[t] = "open" /\ cmd[t].pc = "none" /\ ctrl[t] \in Holders /\ p \in file
      /\ \A u \in Holders : at'[u] = IF u = ctrl[t] THEN p ELSE at[u]
      /\ moved' = moved \cup {t}
      /\ cmd'[t].pc = "sync" /\ cmd'[t].c = cmd[t].c /\ cmd'[t].path = cmd[t].path
      /\ \A u \in Tabs \ {t} : cmd'[u] = cmd[u]
      /\ dirty' \subseteq dirty /\ unsaved \subseteq unsaved'
      /\ \A q \in file' : q \in file \/ q = at[ctrl[t]]
  BY <1>1, TabsAssumption DEF Typed, ResumeSession, Job, pool, Begin, Snapshot
<1>3. UNCHANGED <<st, ctrl, path, build, live, lease, trash, named, saver, again, turns, cut, crossed, call>>
  BY <1>1 DEF ResumeSession, pool, Begin, Snapshot
<1>4. Alive' /\ Seen'
  BY <1>3 DEF Ties, Alive, Seen, Booted
<1>5. New'
  BY <1>2, <1>3 DEF Ties, New, Building
<1>6. Apart'
  BY <1>2, <1>3 DEF Ties, Apart, Building, Remaking
<1>7. Taken'
  BY <1>1, <1>2, <1>3 DEF Ties, Taken, Building, Remaking, Known
<1>8. Clean'
  BY <1>1, <1>2, <1>3 DEF Ties, Clean, Apart, Building, Remaking, Known
<1>9. Named'
  BY <1>2, <1>3 DEF Ties, Named
<1>10. Still'
  BY <1>2, <1>3 DEF Ties, Still, Building, Rebuilding
<1>11. Leased'
  BY <1>2, <1>3 DEF Ties, Leased
<1>12. Saves'
  BY <1>1, <1>2, <1>3 DEF Ties, Saves, Known, Numbers
<1>13. WritersHoldTheirLease'
  BY <1>1, <1>2, <1>3 DEF Ties, WritersHoldTheirLease, Apart, Writes, Building, Remaking, Known
<1>14. TurnsAreSaved'
  BY <1>2, <1>3 DEF Ties, TurnsAreSaved
<1> QED BY <1>4, <1>5, <1>6, <1>7, <1>8, <1>9, <1>10, <1>11, <1>12, <1>13, <1>14 DEF Ties

LEMMA SyncKeeps ==
    ASSUME TabsTyped, Owned, PoolTypeOK, Ties, NEW t \in Tabs, Sync(t)
    PROVE  Ties'
<1>1. Typed /\ Known /\ Numbers
  BY TypedFacts
<1>2. /\ cmd[t].pc = "sync"
      /\ cmd'[t].pc = "none" /\ cmd'[t].c = None /\ cmd'[t].path = 0
      /\ \A u \in Tabs \ {t} : cmd'[u] = cmd[u]
      /\ \A u \in Tabs : path'[u] = path[u] \/ (ctrl[t] \in Holders /\ path'[u] = at[ctrl[t]])
  BY <1>1, TabsAssumption DEF Typed, Sync, Idle, Job, disk, saves, past, pool
<1>3. UNCHANGED <<st, ctrl, build, live, at, lease, file, trash, named, dirty, saver, again,
                  turns, unsaved, cut, moved, crossed, call>>
  BY <1>1 DEF Sync, disk, saves, past, pool
<1>4. Alive' /\ Saves' /\ Seen' /\ WritersHoldTheirLease' /\ TurnsAreSaved'
  BY <1>3 DEF Ties, Alive, Saves, Seen, WritersHoldTheirLease, TurnsAreSaved, Booted, Writes
<1>5. New'
  BY <1>2, <1>3 DEF Ties, New, Building
<1>6. Apart'
  BY <1>2, <1>3 DEF Ties, Apart, Building, Remaking
<1>7. Taken'
  BY <1>2, <1>3 DEF Ties, Taken, Building, Remaking
<1>8. Clean'
  BY <1>2, <1>3 DEF Ties, Clean, Building, Remaking
<1>9. Named'
  BY <1>1, <1>2, <1>3 DEF Ties, Named, Numbers
<1>10. Still'
  BY <1>2, <1>3 DEF Ties, Still, Building, Rebuilding
<1>11. Leased'
  BY <1>2, <1>3 DEF Ties, Leased
<1> QED BY <1>4, <1>5, <1>6, <1>7, <1>8, <1>9, <1>10, <1>11 DEF Ties

LEMMA RebuildKeeps ==
    ASSUME TabsTyped, Owned, PoolTypeOK, Ties, NEW t \in Tabs, Rebuild(t)
    PROVE  Ties'
<1>1. Typed /\ Known /\ Numbers
  BY TypedFacts
<1>2. /\ st[t] = "open" /\ cmd[t].pc = "none"
      /\ cmd'[t].pc = "retire" /\ cmd'[t].c = cmd[t].c /\ cmd'[t].path = cmd[t].path
      /\ \A u \in Tabs \ {t} : cmd'[u] = cmd[u]
      /\ crossed' = IF Building(t) THEN crossed \cup {t} ELSE crossed
  BY <1>1, TabsAssumption DEF Typed, Rebuild, Job, disk, saves, pool, Begin
<1>3. UNCHANGED <<st, ctrl, path, build, live, at, lease, file, trash, named, dirty, saver, again,
                  turns, unsaved, cut, moved, call>>
  BY <1>1 DEF Rebuild, disk, saves, pool, Begin
<1>4. Alive'
  BY <1>3 DEF Ties, Alive, Booted
<1>5. New'
  BY <1>2, <1>3 DEF Ties, New, Building
<1>6. Apart'
  BY <1>2, <1>3 DEF Ties, Apart, Building, Remaking
<1>7. Taken'
  BY <1>2, <1>3 DEF Ties, Taken, Building, Remaking
<1>8. Clean'
  BY <1>2, <1>3 DEF Ties, Clean, Building, Remaking
<1>9. Named'
  BY <1>2, <1>3 DEF Ties, Named
<1>10. Still'
  BY <1>2, <1>3 DEF Ties, Still, Building, Rebuilding
<1>11. Leased'
  BY <1>2, <1>3 DEF Ties, Leased
<1>12. Saves'
  BY <1>2, <1>3 DEF Ties, Saves
<1>13. Seen'
  BY <1>2, <1>3 DEF Ties, Seen, Booted
<1>14. WritersHoldTheirLease'
  BY <1>2, <1>3 DEF Ties, WritersHoldTheirLease, Writes
<1>15. TurnsAreSaved'
  BY <1>2, <1>3 DEF Ties, TurnsAreSaved
<1> QED BY <1>4, <1>5, <1>6, <1>7, <1>8, <1>9, <1>10, <1>11, <1>12, <1>13, <1>14, <1>15 DEF Ties

LEMMA ReconfigureKeeps ==
    ASSUME TabsTyped, Owned, PoolTypeOK, Ties, NEW t \in Tabs, Reconfigure(t)
    PROVE  Ties'
<1>1. Typed /\ Known /\ Numbers
  BY TypedFacts
<1>2. /\ st[t] = "open" /\ cmd[t].pc = "none"
      /\ cmd'[t].pc = "invalidate" /\ cmd'[t].c = cmd[t].c /\ cmd'[t].path = cmd[t].path
      /\ \A u \in Tabs \ {t} : cmd'[u] = cmd[u]
      /\ crossed' = IF Building(t) THEN crossed \cup {t} ELSE crossed
  BY <1>1, TabsAssumption DEF Typed, Reconfigure, Job, disk, saves, Begin, Invalidate
<1>3. UNCHANGED <<st, ctrl, path, build, live, at, lease, file, trash, named, dirty, saver, again,
                  turns, unsaved, cut, moved, call>>
  BY <1>1 DEF Reconfigure, disk, saves, Begin, Invalidate
<1>4. Alive'
  BY <1>3 DEF Ties, Alive, Booted
<1>5. New'
  BY <1>2, <1>3 DEF Ties, New, Building
<1>6. Apart'
  BY <1>2, <1>3 DEF Ties, Apart, Building, Remaking
<1>7. Taken'
  BY <1>2, <1>3 DEF Ties, Taken, Building, Remaking
<1>8. Clean'
  BY <1>2, <1>3 DEF Ties, Clean, Building, Remaking
<1>9. Named'
  BY <1>2, <1>3 DEF Ties, Named
<1>10. Still'
  BY <1>2, <1>3 DEF Ties, Still, Building, Rebuilding
<1>11. Leased'
  BY <1>2, <1>3 DEF Ties, Leased
<1>12. Saves'
  BY <1>2, <1>3 DEF Ties, Saves
<1>13. Seen'
  BY <1>2, <1>3 DEF Ties, Seen, Booted
<1>14. WritersHoldTheirLease'
  BY <1>2, <1>3 DEF Ties, WritersHoldTheirLease, Writes
<1>15. TurnsAreSaved'
  BY <1>2, <1>3 DEF Ties, TurnsAreSaved
<1> QED BY <1>4, <1>5, <1>6, <1>7, <1>8, <1>9, <1>10, <1>11, <1>12, <1>13, <1>14, <1>15 DEF Ties

LEMMA ReconfiguredKeeps ==
    ASSUME TabsTyped, Owned, PoolTypeOK, Ties, NEW t \in Tabs, Reconfigured(t)
    PROVE  Ties'
<1>1. Typed /\ Known /\ Numbers
  BY TypedFacts
<1>2. /\ cmd[t].pc = "invalidate"
      /\ cmd'[t].pc = "retire" /\ cmd'[t].c = cmd[t].c /\ cmd'[t].path = cmd[t].path
      /\ \A u \in Tabs \ {t} : cmd'[u] = cmd[u]
  BY <1>1, TabsAssumption DEF Typed, Reconfigured, Job, disk, saves, past, Invalidated
<1>3. UNCHANGED <<st, ctrl, path, build, live, at, lease, file, trash, named, dirty, saver, again,
                  turns, unsaved, cut, moved, crossed, call>>
  BY <1>1 DEF Reconfigured, disk, saves, past, Invalidated
<1>4. Alive' /\ Saves' /\ Seen' /\ WritersHoldTheirLease' /\ TurnsAreSaved'
  BY <1>3 DEF Ties, Alive, Saves, Seen, WritersHoldTheirLease, TurnsAreSaved, Booted, Writes
<1>5. New'
  BY <1>2, <1>3 DEF Ties, New, Building
<1>6. Apart'
  BY <1>2, <1>3 DEF Ties, Apart, Building, Remaking
<1>7. Taken'
  BY <1>2, <1>3 DEF Ties, Taken, Building, Remaking
<1>8. Clean'
  BY <1>2, <1>3 DEF Ties, Clean, Building, Remaking
<1>9. Named'
  BY <1>2, <1>3 DEF Ties, Named
<1>10. Still'
  BY <1>2, <1>3 DEF Ties, Still, Building, Rebuilding
<1>11. Leased'
  BY <1>2, <1>3 DEF Ties, Leased
<1> QED BY <1>4, <1>5, <1>6, <1>7, <1>8, <1>9, <1>10, <1>11 DEF Ties

\* The path a rebuild remembers is one the tab holds the lease of, if its controller wrote there.
LEMMA RetireKeeps ==
    ASSUME TabsTyped, Owned, PoolTypeOK, Ties, NEW t \in Tabs, Retire(t)
    PROVE  Ties'
<1>1. Typed /\ Known /\ Numbers
  BY TypedFacts
<1>2. CASE /\ ctrl[t] = None
           /\ cmd' = [cmd EXCEPT ![t] = [pc |-> "acquire", c |-> None, path |-> 0]]
           /\ unsaved' = unsaved \ {t}
           /\ UNCHANGED <<pool, ctrl, file, dirty, cut, live>>
  <2>1. /\ cmd[t].pc = "retire" /\ ctrl[t] = None
        /\ cmd'[t].pc = "acquire" /\ cmd'[t].c = None /\ cmd'[t].path = 0
        /\ \A u \in Tabs \ {t} : cmd'[u] = cmd[u]
        /\ unsaved' = unsaved \ {t}
    BY <1>1, <1>2, TabsAssumption DEF Typed, Retire, Job, past, pool
  <2>2. UNCHANGED <<st, ctrl, path, build, live, at, lease, file, trash, named, dirty, saver,
                    again, turns, cut, moved, crossed, call>>
    BY <1>1, <1>2 DEF Retire, past, pool
  <2>3. Alive' /\ Saves' /\ Seen' /\ WritersHoldTheirLease'
    BY <2>2 DEF Ties, Alive, Saves, Seen, WritersHoldTheirLease, Booted, Writes
  <2>11. TurnsAreSaved'
    BY <1>1, <2>1, <2>2 DEF Ties, TurnsAreSaved, Known
  <2>4. New'
    BY <2>1, <2>2 DEF Ties, New, Building
  <2>5. Apart'
    BY <2>1, <2>2 DEF Ties, Apart, Building, Remaking
  <2>6. Taken'
    BY <2>1, <2>2 DEF Ties, Taken, Building, Remaking
  <2>7. Clean'
    BY <2>1, <2>2 DEF Ties, Clean, Building, Remaking
  <2>8. Named'
    BY <1>1, <2>1, <2>2 DEF Ties, Named, Numbers
  <2>9. Still'
    BY <1>1, <2>1, <2>2 DEF Ties, Still, Building, Rebuilding, Known
  <2>10. Leased'
    BY <2>1, <2>2 DEF Ties, Leased
  <2> QED BY <2>3, <2>4, <2>5, <2>6, <2>7, <2>8, <2>9, <2>10, <2>11 DEF Ties
<1>3. CASE /\ ctrl[t] # None
           /\ LastSnapshot(t) /\ Unsaved(t)
           /\ live' = live \ {ctrl[t]}
           /\ ctrl' = [ctrl EXCEPT ![t] = None]
           /\ Release(ctrl[t])
           /\ cmd' = [cmd EXCEPT ![t] = [pc |-> "drop", c |-> ctrl[t], path |-> at[ctrl[t]]]]
  <2>0. ctrl[t] \in Holders /\ Settles(t)
    BY <1>1, <1>3, LastSnapshotSettles DEF Typed
  <2>1. /\ cmd[t].pc = "retire" /\ ctrl[t] \in Holders
        /\ cmd'[t].pc = "drop" /\ cmd'[t].c = ctrl[t] /\ cmd'[t].path = at[ctrl[t]]
        /\ \A u \in Tabs \ {t} : cmd'[u] = cmd[u]
        /\ \A u \in Tabs : ctrl'[u] = IF u = t THEN None ELSE ctrl[u]
        /\ live' = live \ {ctrl[t]}
        /\ Settles(t) /\ unsaved \ {t} \subseteq unsaved'
        /\ \A h \in Holders : call'[h].pc = "idle" <=> call[h].pc = "idle"
    BY <1>1, <1>3, <2>0, TabsAssumption DEF Typed, Retire, Unsaved, Job, past, pool, Release,
       PoolTypeOK, Step
  <2>2. UNCHANGED <<st, path, build, at, lease, trash, named, saver, again, turns, moved,
                    crossed>>
    BY <1>1, <1>3 DEF Retire, past, pool, Release, PoolTypeOK, Step
  <2>3. New'
    BY <2>1, <2>2 DEF Ties, New, Building
  <2>4. Apart'
    BY <1>1, <2>1, <2>2 DEF Ties, Apart, Building, Remaking, Known
  <2>5. Taken'
    BY <1>1, <2>1, <2>2 DEF Ties, Settles, Taken, Building, Remaking, Known
  <2>6. Clean'
    BY <2>1, <2>2 DEF Ties, Settles, Clean, Building, Remaking
  <2>7. Alive'
    BY <2>1, <2>2 DEF Ties, Alive, Apart, Booted, Building, Remaking
  <2>8. Named'
    BY <2>1, <2>2 DEF Ties, Settles, Named
  <2>9. Still'
    BY <2>1, <2>2 DEF Ties, Still, Building, Rebuilding
  <2>10. Leased'
    BY <1>1, <2>1, <2>2 DEF Ties, Leased, Still, Alive, WritersHoldTheirLease, Building,
       Rebuilding, Booted, Writes, Known
  <2>11. Saves'
    BY <1>1, <2>1, <2>2 DEF Ties, Settles, Saves, Known
  <2>12. Seen'
    BY <2>1, <2>2 DEF Ties, Seen, Booted
  <2>13. WritersHoldTheirLease'
    BY <1>1, <2>1, <2>2 DEF Ties, WritersHoldTheirLease, Writes, Known
  <2>14. TurnsAreSaved'
    BY <1>1, <2>1, <2>2 DEF Ties, Settles, TurnsAreSaved, Saves, Still, Rebuilding, Known
  <2> QED BY <2>3, <2>4, <2>5, <2>6, <2>7, <2>8, <2>9, <2>10, <2>11, <2>12, <2>13, <2>14 DEF Ties
<1> QED BY <1>2, <1>3 DEF Retire

LEMMA AgainKeeps ==
    ASSUME TabsTyped, Owned, PoolTypeOK, Ties, NEW t \in Tabs, NEW c \in Holders, Again(t, c)
    PROVE  Ties'
<1>1. Typed /\ Known /\ Numbers
  BY TypedFacts
<1>2. /\ cmd[t].pc \in {"acquire", "drop"}
      /\ call[c].pc = "idle" /\ call'[c].pc # "idle"
      /\ \A h \in Holders \ {c} : call'[h].pc = call[h].pc
      /\ cmd'[t].pc = "kit" /\ cmd'[t].c = c /\ cmd'[t].path = cmd[t].path
      /\ \A u \in Tabs \ {t} : cmd'[u] = cmd[u]
  BY <1>1, TabsAssumption DEF Typed, Again, Job, disk, saves, past, Acquire, PoolTypeOK
<1>3. UNCHANGED <<st, ctrl, path, build, live, at, lease, file, trash, named, dirty, saver, again,
                  turns, unsaved, cut, moved, crossed>>
  BY <1>1 DEF Again, disk, saves, past, Acquire, PoolTypeOK
<1>4. Alive' /\ Saves' /\ Seen' /\ WritersHoldTheirLease' /\ TurnsAreSaved'
  BY <1>3 DEF Ties, Alive, Saves, Seen, WritersHoldTheirLease, TurnsAreSaved, Booted, Writes
<1>5. New'
  BY <1>2, <1>3 DEF Ties, New, Building
<1>6. Apart'
  BY <1>1, <1>2, <1>3 DEF Ties, Apart, Taken, Building, Remaking, Known
<1>7. Taken'
  BY <1>1, <1>2, <1>3 DEF Ties, Taken, Building, Remaking, Known
<1>8. Clean'
  BY <1>2, <1>3 DEF Ties, Clean, Taken, Building, Remaking
<1>9. Named'
  BY <1>2, <1>3 DEF Ties, Named
<1>10. Still'
  BY <1>2, <1>3 DEF Ties, Still, Building, Rebuilding
<1>11. Leased'
  BY <1>2, <1>3 DEF Ties, Leased
<1> QED BY <1>4, <1>5, <1>6, <1>7, <1>8, <1>9, <1>10, <1>11 DEF Ties

LEMMA RebootKeeps ==
    ASSUME TabsTyped, Owned, PoolTypeOK, Ties, NEW t \in Tabs, Reboot(t)
    PROVE  Ties'
<1>1. Typed /\ Known /\ Numbers
  BY TypedFacts
<1>2. CASE /\ live' = live \cup {cmd[t].c}
           /\ ctrl' = [ctrl EXCEPT ![t] = cmd[t].c]
           /\ cmd' = [cmd EXCEPT ![t].pc = "carry"]
           /\ UNCHANGED pool
  <2>1. /\ cmd[t].pc = "kit" /\ cmd[t].c \in Holders
        /\ live' = live \cup {cmd[t].c}
        /\ \A u \in Tabs : ctrl'[u] = IF u = t THEN cmd[t].c ELSE ctrl[u]
        /\ cmd'[t].pc = "carry" /\ cmd'[t].c = cmd[t].c /\ cmd'[t].path = cmd[t].path
        /\ \A u \in Tabs \ {t} : cmd'[u] = cmd[u]
    BY <1>1, <1>2, TabsAssumption DEF Typed, Reboot, Job, disk, saves, past, pool, Owned
  <2>2. UNCHANGED <<st, path, build, at, lease, file, trash, named, dirty, saver, again, turns, unsaved, cut,
                    moved, crossed, call>>
    BY <1>1, <1>2 DEF Reboot, disk, saves, past, pool, Owned
  <2>3. New'
    BY <2>1, <2>2 DEF Ties, New, Building
  <2>4. Apart'
    BY <2>1, <2>2 DEF Ties, Apart, Building, Remaking
  <2>5. Taken'
    BY <2>1, <2>2 DEF Ties, Taken, Building, Remaking
  <2>6. Clean'
    BY <2>1, <2>2 DEF Ties, Clean, Building, Remaking
  <2>7. Alive'
    BY <2>1, <2>2 DEF Ties, Alive, Booted
  <2>8. Named'
    BY <2>1, <2>2 DEF Ties, Named
  <2>9. Still'
    BY <2>1, <2>2 DEF Ties, Still, Building, Rebuilding
  <2>10. Leased'
    BY <2>1, <2>2 DEF Ties, Leased
  <2>11. Saves'
    BY <2>1, <2>2 DEF Ties, Saves, Clean, Building, Remaking
  <2>12. Seen'
    BY <1>1, <2>1, <2>2 DEF Ties, Seen, Still, Booted, Building, Rebuilding, Known
  <2>13. WritersHoldTheirLease'
    BY <1>1, <2>1, <2>2 DEF Ties, WritersHoldTheirLease, Clean, Writes, Building, Remaking, Known
  <2>14. TurnsAreSaved'
    BY <2>1, <2>2 DEF Ties, TurnsAreSaved, Clean, Building, Remaking
  <2> QED BY <2>3, <2>4, <2>5, <2>6, <2>7, <2>8, <2>9, <2>10, <2>11, <2>12, <2>13, <2>14 DEF Ties
<1>3. CASE Release(cmd[t].c) /\ cmd' = [cmd EXCEPT ![t].pc = "undo"] /\ UNCHANGED <<ctrl, live>>
  <2>1. /\ cmd[t].pc = "kit" /\ cmd[t].c \in Holders
        /\ cmd'[t].pc = "undo" /\ cmd'[t].c = cmd[t].c /\ cmd'[t].path = cmd[t].path
        /\ \A u \in Tabs \ {t} : cmd'[u] = cmd[u]
        /\ \A h \in Holders : call'[h].pc = "idle" <=> call[h].pc = "idle"
    BY <1>1, <1>3, TabsAssumption DEF Typed, Reboot, Job, disk, saves, past, pool, Owned, Release,
       PoolTypeOK, Step
  <2>2. UNCHANGED <<st, ctrl, path, build, live, at, lease, file, trash, named, dirty, saver,
                    again, turns, unsaved, cut, moved, crossed>>
    BY <1>1, <1>3 DEF Reboot, disk, saves, past, pool, Owned, Release, PoolTypeOK, Step
  <2>3. Alive' /\ Saves' /\ Seen' /\ WritersHoldTheirLease' /\ TurnsAreSaved'
    BY <2>2 DEF Ties, Alive, Saves, Seen, WritersHoldTheirLease, TurnsAreSaved, Booted, Writes
  <2>4. New'
    BY <2>1, <2>2 DEF Ties, New, Building
  <2>5. Apart'
    BY <2>1, <2>2 DEF Ties, Apart, Building, Remaking
  <2>6. Taken'
    BY <1>1, <2>1, <2>2 DEF Ties, Taken, Building, Remaking, Known
  <2>7. Clean'
    BY <2>1, <2>2 DEF Ties, Clean, Building, Remaking
  <2>8. Named'
    BY <2>1, <2>2 DEF Ties, Named
  <2>9. Still'
    BY <2>1, <2>2 DEF Ties, Still, Building, Rebuilding
  <2>10. Leased'
    BY <2>1, <2>2 DEF Ties, Leased
  <2> QED BY <2>3, <2>4, <2>5, <2>6, <2>7, <2>8, <2>9, <2>10 DEF Ties
<1> QED BY <1>2, <1>3 DEF Reboot

LEMMA RebuildFailsKeeps ==
    ASSUME TabsTyped, Owned, PoolTypeOK, Ties, NEW t \in Tabs, RebuildFails(t)
    PROVE  Ties'
<1>1. Typed /\ Known /\ Numbers
  BY TypedFacts
<1>2. /\ cmd[t].pc \in {"kit", "undo"}
      /\ cmd'[t].pc = "none" /\ cmd'[t].c = None /\ cmd'[t].path = 0
      /\ \A u \in Tabs \ {t} : cmd'[u] = cmd[u]
  BY <1>1, TabsAssumption DEF Typed, RebuildFails, Idle, Job, disk, saves, past, pool
<1>3. UNCHANGED <<st, ctrl, path, build, live, at, lease, file, trash, named, dirty, saver, again,
                  turns, unsaved, cut, moved, crossed, call>>
  BY <1>1 DEF RebuildFails, disk, saves, past, pool
<1>4. Alive' /\ Saves' /\ Seen' /\ WritersHoldTheirLease' /\ TurnsAreSaved'
  BY <1>3 DEF Ties, Alive, Saves, Seen, WritersHoldTheirLease, TurnsAreSaved, Booted, Writes
<1>5. New'
  BY <1>2, <1>3 DEF Ties, New, Building
<1>6. Apart'
  BY <1>2, <1>3 DEF Ties, Apart, Building, Remaking
<1>7. Taken'
  BY <1>2, <1>3 DEF Ties, Taken, Building, Remaking
<1>8. Clean'
  BY <1>2, <1>3 DEF Ties, Clean, Building, Remaking
<1>9. Named'
  BY <1>1, <1>2, <1>3 DEF Ties, Named, Numbers
<1>10. Still'
  BY <1>2, <1>3 DEF Ties, Still, Building, Rebuilding
<1>11. Leased'
  BY <1>2, <1>3 DEF Ties, Leased
<1> QED BY <1>4, <1>5, <1>6, <1>7, <1>8, <1>9, <1>10, <1>11 DEF Ties

LEMMA CarryKeeps ==
    ASSUME TabsTyped, Owned, PoolTypeOK, Ties, NEW t \in Tabs, Carry(t)
    PROVE  Ties'
<1>1. Typed /\ Known /\ Numbers
  BY TypedFacts
<1>2. CASE /\ cmd[t].path # 0
           /\ at' = [at EXCEPT ![cmd[t].c] = cmd[t].path]
           /\ UNCHANGED <<named, moved>>
  <2>1. /\ cmd[t].pc = "carry" /\ cmd[t].path # 0 /\ cmd[t].c \in Holders
        /\ \A u \in Holders : at'[u] = IF u = cmd[t].c THEN cmd[t].path ELSE at[u]
        /\ cmd'[t].pc = "none" /\ cmd'[t].c = None /\ cmd'[t].path = 0
        /\ \A u \in Tabs \ {t} : cmd'[u] = cmd[u]
        /\ dirty' = IF t \in unsaved THEN dirty \cup {cmd[t].c} ELSE dirty
    BY <1>1, <1>2, TabsAssumption DEF Typed, Carry, Idle, Job, disk, saves, pool, Owned
  <2>2. UNCHANGED <<st, ctrl, path, build, live, lease, file, trash, named, saver, again,
                    turns, unsaved, cut, moved, crossed, call>>
    BY <1>1, <1>2 DEF Carry, disk, saves, pool, Owned
  <2>3. Alive' /\ Seen'
    BY <2>2 DEF Ties, Alive, Seen, Booted
  <2>13. TurnsAreSaved'
    BY <1>1, <2>1, <2>2 DEF Ties, TurnsAreSaved, Apart, Still, Alive, Remaking, Rebuilding, Known
  <2>4. New'
    BY <2>1, <2>2 DEF Ties, New, Building
  <2>5. Apart'
    BY <2>1, <2>2 DEF Ties, Apart, Building, Remaking
  <2>6. Taken'
    BY <1>1, <2>1, <2>2 DEF Ties, Taken, Building, Remaking, Known
  <2>7. Clean'
    BY <1>1, <2>1, <2>2 DEF Ties, Clean, Apart, Building, Remaking, Known
  <2>8. Named'
    BY <1>1, <2>1, <2>2 DEF Ties, Named, Numbers
  <2>9. Still'
    BY <2>1, <2>2 DEF Ties, Still, Building, Rebuilding
  <2>10. Leased'
    BY <2>1, <2>2 DEF Ties, Leased
  <2>11. Saves'
    BY <1>1, <2>1, <2>2 DEF Ties, Saves, Apart, Remaking, Known
  <2>12. WritersHoldTheirLease'
    BY <1>1, <2>1, <2>2 DEF Ties, WritersHoldTheirLease, Apart, Leased, Writes, Building, Remaking,
       Known
  <2> QED BY <2>3, <2>4, <2>5, <2>6, <2>7, <2>8, <2>9, <2>10, <2>11, <2>12, <2>13 DEF Ties
<1>3. CASE /\ cmd[t].path = 0
           /\ named < MaxPaths
           /\ named' = named + 1
           /\ at' = [at EXCEPT ![cmd[t].c] = named']
           /\ moved' = moved \cup {t}
  <2>1. /\ cmd[t].pc = "carry" /\ cmd[t].c \in Holders
        /\ named' = named + 1 /\ named + 1 \in Paths
        /\ \A u \in Holders : at'[u] = IF u = cmd[t].c THEN named + 1 ELSE at[u]
        /\ moved' = moved \cup {t}
        /\ cmd'[t].pc = "none" /\ cmd'[t].c = None /\ cmd'[t].path = 0
        /\ \A u \in Tabs \ {t} : cmd'[u] = cmd[u]
        /\ dirty' = IF t \in unsaved THEN dirty \cup {cmd[t].c} ELSE dirty
    BY <1>1, <1>3, TabsAssumption DEF Typed, Carry, Idle, Job, disk, saves, pool, Owned, Paths
  <2>2. UNCHANGED <<st, ctrl, path, build, live, lease, file, trash, saver, again, turns, unsaved, cut,
                    crossed, call>>
    BY <1>1, <1>3 DEF Carry, disk, saves, pool, Owned, Paths
  <2>3. Alive' /\ Seen'
    BY <2>2 DEF Ties, Alive, Seen, Booted
  <2>13. TurnsAreSaved'
    BY <1>1, <2>1, <2>2 DEF Ties, TurnsAreSaved, Apart, Still, Alive, Remaking, Rebuilding, Known
  <2>4. New'
    BY <2>1, <2>2 DEF Ties, New, Building
  <2>5. Apart'
    BY <2>1, <2>2 DEF Ties, Apart, Building, Remaking
  <2>6. Taken'
    BY <1>1, <2>1, <2>2 DEF Ties, Taken, Building, Remaking, Known
  <2>7. Clean'
    BY <1>1, <2>1, <2>2 DEF Ties, Clean, Apart, Building, Remaking, Known
  <2>8. Named'
    BY <1>1, <2>1, <2>2 DEF Ties, Named, Numbers
  <2>9. Still'
    BY <2>1, <2>2 DEF Ties, Still, Building, Rebuilding
  <2>10. Leased'
    BY <2>1, <2>2 DEF Ties, Leased
  <2>11. Saves'
    BY <1>1, <2>1, <2>2 DEF Ties, Saves, Apart, Remaking, Known, Numbers
  <2>12. WritersHoldTheirLease'
    BY <1>1, <2>1, <2>2 DEF Ties, WritersHoldTheirLease, Apart, Writes, Building, Remaking, Known
  <2> QED BY <2>3, <2>4, <2>5, <2>6, <2>7, <2>8, <2>9, <2>10, <2>11, <2>12, <2>13 DEF Ties
<1> QED BY <1>2, <1>3 DEF Carry

-----------------------------------------------------------------------------
(* Autosave *)

\* A turn is the controller's that begins it, which runs.
LEMMA StartTurnKeeps ==
    ASSUME TabsTyped, Owned, PoolTypeOK, Ties, NEW t \in Tabs, StartTurn(t)
    PROVE  Ties'
<1>1. Typed /\ Known /\ Numbers
  BY TypedFacts
<1>2. /\ st[t] = "open" /\ ctrl[t] \in live
      /\ dirty' = dirty \cup {ctrl[t]}
      /\ ctrl[t] \in turns'[t] /\ \A u \in Tabs \ {t} : turns'[u] = turns[u]
      /\ crossed' = IF at[ctrl[t]] = 0 THEN crossed \cup {t} ELSE crossed
  BY <1>1 DEF Typed, StartTurn
<1>3. UNCHANGED <<st, ctrl, path, build, cmd, live, at, lease, file, trash, named, saver, again,
                  unsaved, cut, moved, call>>
  BY DEF StartTurn, tabs, disk, pool
<1>4. New' /\ Apart' /\ Alive' /\ Named'
  BY <1>3 DEF Ties, New, Apart, Alive, Named, Building, Remaking, Booted
<1>5. Taken'
  BY <1>1, <1>2, <1>3 DEF Ties, Taken, Building, Remaking, Known
<1>6. Clean'
  BY <1>2, <1>3 DEF Ties, Clean, Apart, Building, Remaking
<1>7. Still'
  BY <1>2, <1>3 DEF Ties, Still, Building, Rebuilding
<1>8. Leased'
  BY <1>2, <1>3 DEF Ties, Leased
<1>9. Saves'
  BY <1>1, <1>2, <1>3 DEF Ties, Saves, Apart, Building, Remaking, Known
<1>10. Seen'
  BY <1>2, <1>3 DEF Ties, Seen, Booted
<1>11. WritersHoldTheirLease'
  BY <1>2, <1>3 DEF Ties, WritersHoldTheirLease, Writes
<1>12. TurnsAreSaved'
  BY <1>1, <1>2, <1>3 DEF Ties, TurnsAreSaved, Apart, Building, Remaking, Known
<1> QED BY <1>4, <1>5, <1>6, <1>7, <1>8, <1>9, <1>10, <1>11, <1>12 DEF Ties

\* A turn that ends on an open tab is one for the next pass of the autosave loop, and on a
\* controller that is gone it only adds to what is saved.
LEMMA TurnDoneKeeps ==
    ASSUME TabsTyped, Owned, PoolTypeOK, Ties, NEW t \in Tabs, NEW c \in Holders, TurnDone(t, c)
    PROVE  Ties'
<1>1. Typed /\ Known /\ Numbers
  BY TypedFacts
<1>2. /\ dirty' \subseteq dirty
      /\ \A u \in Tabs \ {t} : turns'[u] = turns[u] /\ saver'[u] = saver[u]
      /\ turns[t] \subseteq turns'[t] \cup {c}
      /\ unsaved' = IF c = ctrl[t] THEN unsaved \ {t} ELSE unsaved
      /\ again \subseteq again' /\ (saver'[t] = saver[t] \/ saver'[t] = "snap")
      /\ st[t] = "open" => saver'[t] = "snap" \/ t \in again'
      /\ \A p \in file' : p \in file \/ p = at[c]
  BY <1>1 DEF Typed, TurnDone
<1>3. UNCHANGED <<st, ctrl, path, build, cmd, live, at, lease, trash, named, cut, moved, crossed, call>>
  BY DEF TurnDone, tabs, past, pool
<1>4. New' /\ Apart' /\ Alive' /\ Still' /\ Leased' /\ Seen' /\ WritersHoldTheirLease'
  BY <1>3 DEF Ties, New, Apart, Alive, Still, Leased, Seen, WritersHoldTheirLease, Building,
     Remaking, Booted, Rebuilding, Writes
<1>5. Taken' /\ Clean'
  BY <1>2, <1>3 DEF Ties, Taken, Clean, Building, Remaking
<1>6. Named'
  BY <1>2, <1>3 DEF Ties, Named
<1>7. Saves'
  BY <1>2, <1>3 DEF Ties, Saves
<1>8. TurnsAreSaved'
  BY <1>2, <1>3 DEF Ties, TurnsAreSaved
<1> QED BY <1>4, <1>5, <1>6, <1>7, <1>8 DEF Ties

LEMMA SnapKeeps ==
    ASSUME TabsTyped, Owned, PoolTypeOK, Ties, NEW t \in Tabs, Snap(t)
    PROVE  Ties'
<1>1. Typed /\ Known /\ Numbers
  BY TypedFacts
<1>2. /\ \A u \in Tabs : saver'[u] = IF u = t THEN "settle" ELSE saver[u]
      /\ \A u \in Tabs : path'[u] = path[u] \/ (ctrl[t] \in Holders /\ path'[u] = at[ctrl[t]])
      /\ dirty' \subseteq dirty /\ unsaved \ {t} \subseteq unsaved'
      /\ \A p \in file' : p \in file \/ (ctrl[t] \in Holders /\ p = at[ctrl[t]])
  BY <1>1 DEF Typed, Snap, Snapshot, SnapshotFails
<1>3. ctrl[t] \in dirty' \ turns[t] => t \in unsaved' \/ at[ctrl[t]] = 0
  BY <1>1 DEF Known, Snap, Snapshot, SnapshotFails
<1>4. UNCHANGED <<st, ctrl, build, cmd, live, at, lease, trash, named, again, turns, cut, moved,
                  crossed, call>>
  BY DEF Snap, past, pool
<1>5. New' /\ Apart' /\ Alive' /\ Still' /\ Leased' /\ Seen' /\ WritersHoldTheirLease'
  BY <1>4 DEF Ties, New, Apart, Alive, Still, Leased, Seen, WritersHoldTheirLease, Building,
     Remaking, Booted, Rebuilding, Writes
<1>6. Taken' /\ Clean'
  BY <1>2, <1>4 DEF Ties, Taken, Clean, Building, Remaking
<1>7. Named'
  BY <1>2, <1>4 DEF Ties, Named
<1>8. Saves'
  BY <1>2, <1>4 DEF Ties, Saves
<1>9. TurnsAreSaved'
  BY <1>2, <1>3, <1>4 DEF Ties, TurnsAreSaved, Saves
<1> QED BY <1>5, <1>6, <1>7, <1>8, <1>9 DEF Ties

LEMMA SettleKeeps ==
    ASSUME TabsTyped, Owned, PoolTypeOK, Ties, NEW t \in Tabs, Settle(t)
    PROVE  Ties'
<1>1. Typed /\ Known /\ Numbers
  BY TypedFacts
<1>2. /\ saver[t] = "settle"
      /\ \A u \in Tabs : saver'[u] = IF u = t THEN (IF t \in again THEN "snap" ELSE "none") ELSE saver[u]
      /\ again' = again \ {t}
  BY <1>1, TabsAssumption DEF Typed, Settle, tabs, disk, past, pool
<1>3. UNCHANGED <<st, ctrl, path, build, cmd, live, at, lease, file, trash, named, dirty, turns, unsaved, cut,
                  moved, crossed, call>>
  BY <1>1 DEF Settle, tabs, disk, past, pool
<1>4. New' /\ Apart' /\ Taken' /\ Clean' /\ Alive' /\ Named' /\ Still' /\ Leased' /\ Saves'
      /\ Seen' /\ WritersHoldTheirLease'
  BY <1>3 DEF Ties, New, Apart, Taken, Clean, Alive, Named, Still, Leased, Saves, Seen,
     WritersHoldTheirLease, Building, Remaking, Booted, Rebuilding, Writes
<1>5. TurnsAreSaved'
  BY <1>2, <1>3 DEF Ties, TurnsAreSaved
<1> QED BY <1>4, <1>5 DEF Ties

-----------------------------------------------------------------------------
(* The other steps, and the three theorems *)

\* The pool's own steps and those on files in use by nobody.
LEMMA RestKeeps ==
    ASSUME TabsTyped, Owned, PoolTypeOK, Placed, Ties, Pool \/ Sessions \/ UNCHANGED vars
    PROVE  Ties'
<1>1. Typed /\ Known /\ Numbers
  BY TypedFacts
<1>2. \A h \in Holders : call[h].pc # "idle" => call'[h].pc # "idle"
  <2>1. CASE Pool
    BY <2>1, PoolIsSteady DEF Steady
  <2>2. CASE Sessions \/ UNCHANGED vars
    BY <2>2 DEF Sessions, DeleteSession, RestoreSession, Deleted, vars, pool
  <2> QED BY <2>1, <2>2
<1>3. /\ \A p \in file' \cup trash' : p \in file \cup trash
      /\ \A u \in Tabs : path'[u] = path[u] \/ path'[u] = 0
  <2>1. CASE Deleted
    BY <1>1, <2>1 DEF Typed, Deleted
  <2>2. CASE Pool \/ UNCHANGED vars
    BY <2>2 DEF Pool, vars, tabs, disk
  <2>3. CASE Sessions /\ ~Deleted
    BY <2>3 DEF Sessions, DeleteSession, RestoreSession, tabs
  <2> QED BY <2>1, <2>2, <2>3
<1>4. UNCHANGED <<st, ctrl, build, cmd, live, at, lease, named, dirty, saver, again, turns, unsaved, cut,
                  moved, crossed>>
  BY DEF Pool, Sessions, DeleteSession, RestoreSession, Deleted, vars, tabs, disk, saves, past
<1>5. New' /\ Apart' /\ Clean' /\ Alive' /\ Still' /\ Leased' /\ Saves' /\ Seen'
      /\ WritersHoldTheirLease' /\ TurnsAreSaved'
  BY <1>4 DEF Ties, New, Apart, Clean, Alive, Still, Leased, Saves, Seen, WritersHoldTheirLease,
              TurnsAreSaved, Building, Rebuilding, Remaking, Booted, Writes
<1>6. Taken'
  BY <1>1, <1>2, <1>4 DEF Ties, Taken, Known, Building, Remaking
<1>7. Named'
  BY <1>1, <1>3, <1>4 DEF Ties, Named, Numbers
<1> QED BY <1>5, <1>6, <1>7 DEF Ties

LEMMA TiesStep ==
    ASSUME TabsTyped, Owned, PoolTypeOK, Placed, Ties, [Next]_vars
    PROVE  Ties'
<1>1. ASSUME NEW t \in Tabs, OpenTab(t) \/ BuildStep(t) PROVE Ties'
  BY <1>1, OpenTabKeeps, StartBuildKeeps, KitMissingKeeps, BootKeeps, ClaimKeeps, LoadKeeps,
     FreshKeeps,
     InstallKeeps DEF BuildStep
<1>2. ASSUME NEW t \in Tabs, End(t) PROVE Ties'
  BY <1>2, CloseTabKeeps, TeardownKeeps, UnleaseKeeps, TrashTopicKeeps, TrashedKeeps DEF End
<1>3. ASSUME NEW t \in Tabs, Commanded(t) PROVE Ties'
  BY <1>3, NewSessionKeeps, ResumeSessionKeeps, SyncKeeps, RebuildKeeps, ReconfigureKeeps,
     ReconfiguredKeeps, RetireKeeps, AgainKeeps, RebootKeeps, RebuildFailsKeeps, CarryKeeps DEF Commanded
<1>4. ASSUME NEW t \in Tabs, Autosave(t) PROVE Ties'
  BY <1>4, StartTurnKeeps, TurnDoneKeeps, SnapKeeps, SettleKeeps DEF Autosave
<1>5. CASE Pool \/ Sessions \/ UNCHANGED vars
  BY <1>5, RestKeeps
<1> QED BY <1>1, <1>2, <1>3, <1>4, <1>5 DEF Next

\* The ties hold in every state.
LEMMA TiesHold == Spec => []Ties
<1>1. Init => Ties
  <2> SUFFICES ASSUME Init PROVE Ties
    OBVIOUS
  <2>1. /\ \A t \in Tabs : /\ st[t] = "new" /\ ctrl[t] = None /\ path[t] = 0
                           /\ build[t].pc = "none" /\ build[t].path = 0
                           /\ cmd[t].pc = "none" /\ cmd[t].path = 0
        /\ \A c \in Holders : at[c] = 0
        /\ \A p \in Paths : lease[p] = None
        /\ live = {} /\ dirty = {} /\ file = {1} /\ trash = {} /\ named = 1
    BY DEF Init, Idle
  <2>2. New /\ Apart /\ Taken /\ Clean /\ Alive /\ Still
    BY <2>1 DEF New, Apart, Taken, Clean, Alive, Still, Building, Rebuilding, Remaking, Booted
  <2>3. Named
    BY <2>1 DEF Named
  <2>4. Leased /\ Saves /\ Seen
    BY <2>1 DEF Leased, Saves, Seen
  <2>5. WritersHoldTheirLease /\ TurnsAreSaved
    BY <2>1 DEF WritersHoldTheirLease, TurnsAreSaved, Writes
  <2> QED BY <2>2, <2>3, <2>4, <2>5 DEF Ties
<1>2. Settled /\ Ties /\ [Next]_vars => Ties'
  BY TiesStep DEF Settled, IInv
<1> QED BY <1>1, <1>2, SettledHolds, PTL DEF Spec

\* A tab that was not moved by hand, and on which nothing overlapped, writes a session file it
\* holds the lease of, for any tabs and files: it claims what it resumes before it reads it,
\* carries its claim through a rebuild, and nobody takes a lease that another holds.
THEOREM LeasesHeld == Spec => []WritersHoldTheirLease
<1>1. Ties => WritersHoldTheirLease
  BY DEF Ties
<1> QED BY <1>1, TiesHold, PTL

\* For any tabs, controllers and turns, a turn that has ended is lost only with a snapshot that
\* failed: whoever closes a controller has saved its last turn, if it had ended and the
\* snapshot worked, and the autosave loop passes once more after a turn it has not seen.
THEOREM TurnsSaved == Spec => []TurnsAreSaved
<1>1. Ties => TurnsAreSaved
  BY DEF Ties
<1> QED BY <1>1, TiesHold, PTL

\* A closed tab has neither lease nor controller left, for any tabs: every controller that runs
\* is an open tab's or one that a build is about to install.
THEOREM NothingLeft == Spec => []NothingOutlivesItsTab
<1>1. Ties => NothingOutlivesItsTab
  BY DEF Ties, Leased, Seen, NothingOutlivesItsTab
<1> QED BY <1>1, TiesHold, PTL
=============================================================================
