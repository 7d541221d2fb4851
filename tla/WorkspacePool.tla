--------------------------- MODULE WorkspacePool ---------------------------
(***************************************************************************)
(* The shared runtime of one workspace (desktop/workspace_runtime.go): a kit *)
(* of indexes and MCP connections, made by the first controller that asks,  *)
(* shared by the others and closed with the last.  The pool maps the        *)
(* workspace to an entry; the entry counts its holders under a lock of its  *)
(* own, which a holder takes after it has let go of the pool's lock.        *)
(*                                                                         *)
(* A holder is a controller: it acquires once and releases once.  Entries   *)
(* and kits are numbered as they are made.  Other workspaces have entries   *)
(* of their own and share nothing with this one but the map's lock.         *)
(***************************************************************************)
EXTENDS Naturals, FiniteSets

CONSTANTS
    Holders,
    MaxEntries      \* bound: entries made; a kit needs a holder of its own

ASSUME PoolAssumption == MaxEntries \in Nat /\ IsFiniteSet(Holders)

Entries == 1..MaxEntries
VARIABLES
    entry,        \* the map's entry of the workspace, 0 for none
    ent,          \* entries: refs, kit (0 for none), preparing
    call,         \* where each holder is in acquire or release
    uses,         \* the kit each holder was given, 0 for none
    made,         \* entries and kits made so far
    open,         \* kits not closed
    invalidating, \* the entry an invalidation has looked up, 0 for none
    invalidated,  \* history: a kit was closed by an invalidation
    orphaned      \* history: an entry was deleted under a holder on its way to it

pool == <<entry, ent, call, uses, made, open, invalidating, invalidated, orphaned>>

\* Before acquire ("idle"); having looked up the entry ("enter"); on a channel of its
\* waiters ("wait"); making the kit ("prepare"); with the kit ("has"); in release, having
\* looked up the entry ("leave"); after a failure or a release ("gone").
Where == {"idle", "enter", "wait", "prepare", "has", "leave", "gone"}
Step(h, pc) == [call EXCEPT ![h].pc = pc]
At(h)       == ent[call[h].at]
Woken(h, pc) ==
    [g \in Holders |-> IF g = h THEN [call[h] EXCEPT !.pc = pc]
                       ELSE IF call[g].pc = "wait" /\ call[g].at = call[h].at
                            THEN [call[g] EXCEPT !.pc = "enter"] ELSE call[g]]

PoolInit ==
    /\ entry = 0 /\ invalidating = 0
    /\ ent = [e \in Entries |-> [refs |-> 0, kit |-> 0, preparing |-> FALSE]]
    /\ call = [h \in Holders |-> [pc |-> "idle", at |-> 0]]
    /\ uses = [h \in Holders |-> 0]
    /\ made = [entries |-> 0, kits |-> 0]
    /\ open = {} /\ invalidated = FALSE /\ orphaned = FALSE

-----------------------------------------------------------------------------
(* acquire *)

Acquire(h) ==
    /\ call[h].pc = "idle"
    /\ \/ entry # 0 /\ UNCHANGED <<entry, made>>
       \/ entry = 0 /\ made.entries < MaxEntries
          /\ entry' = made.entries + 1 /\ made' = [made EXCEPT !.entries = @ + 1]
    /\ call' = [call EXCEPT ![h] = [pc |-> "enter", at |-> entry']]
    /\ UNCHANGED <<ent, uses, open, invalidating, invalidated, orphaned>>

\* A holder that found the kit being made waits, and looks again when it is woken.
Enter(h) ==
    /\ call[h].pc = "enter"
    /\ LET e == call[h].at IN
       \/ /\ At(h).preparing
          /\ call' = Step(h, "wait") /\ UNCHANGED <<ent, uses>>
       \/ /\ ~At(h).preparing /\ At(h).kit # 0
          /\ ent' = [ent EXCEPT ![e].refs = @ + 1]
          /\ uses' = [uses EXCEPT ![h] = At(h).kit]
          /\ call' = Step(h, "has")
       \/ /\ ~At(h).preparing /\ At(h).kit = 0
          /\ ent' = [ent EXCEPT ![e].preparing = TRUE]
          /\ call' = Step(h, "prepare") /\ UNCHANGED uses
    /\ UNCHANGED <<entry, made, open, invalidating, invalidated, orphaned>>

Prepared(h) ==
    /\ call[h].pc = "prepare"
    /\ made' = [made EXCEPT !.kits = @ + 1]
    /\ ent' = [ent EXCEPT ![call[h].at] =
                  [refs |-> @.refs + 1, kit |-> made'.kits, preparing |-> FALSE]]
    /\ uses' = [uses EXCEPT ![h] = made'.kits]
    /\ open' = open \cup {made'.kits}
    /\ call' = Woken(h, "has")
    /\ UNCHANGED <<entry, invalidating, invalidated, orphaned>>

\* The variant that wakes nobody when the kit cannot be made.
PrepareFailsQuietly(h) ==
    /\ call[h].pc = "prepare"
    /\ ent' = [ent EXCEPT ![call[h].at].preparing = FALSE]
    /\ call' = Step(h, "gone")
    /\ UNCHANGED <<entry, uses, made, open, invalidating, invalidated, orphaned>>

PrepareFails(h) ==
    /\ call[h].pc = "prepare"
    /\ ent' = [ent EXCEPT ![call[h].at].preparing = FALSE]
    /\ call' = Woken(h, "gone")
    /\ UNCHANGED <<entry, uses, made, open, invalidating, invalidated, orphaned>>

-----------------------------------------------------------------------------
(* release, invalidate *)

\* An entry that is no longer in the map is not released.
Release(h) ==
    /\ call[h].pc = "has"
    /\ call' = IF entry = 0 THEN Step(h, "gone")
               ELSE [call EXCEPT ![h] = [pc |-> "leave", at |-> entry]]
    /\ UNCHANGED <<entry, ent, uses, made, open, invalidating, invalidated, orphaned>>

\* The variant that closes the kit whoever else holds it.
LeaveAndClose(h) ==
    /\ call[h].pc = "leave"
    /\ LET e == call[h].at IN
          /\ open' = open \ {ent[e].kit}
          /\ ent' = [ent EXCEPT ![e].refs = @ - 1, ![e].kit = 0]
          /\ entry' = 0
    /\ call' = Step(h, "gone")
    /\ UNCHANGED <<uses, made, invalidating, invalidated, orphaned>>

\* The last holder closes the kit and deletes the workspace from the map, whichever
\* entry the map holds by then.
Leave(h) ==
    /\ call[h].pc = "leave"
    /\ LET e    == call[h].at
           refs == IF ent[e].refs > 0 THEN ent[e].refs - 1 ELSE 0
       IN \/ /\ refs = 0 /\ ent[e].kit # 0
             /\ open' = open \ {ent[e].kit}
             /\ ent' = [ent EXCEPT ![e].refs = 0, ![e].kit = 0]
             /\ entry' = 0
             /\ orphaned' = (orphaned \/ \E g \in Holders : call[g] = [pc |-> "enter", at |-> e])
          \/ /\ ~(refs = 0 /\ ent[e].kit # 0)
             /\ ent' = [ent EXCEPT ![e].refs = refs]
             /\ UNCHANGED <<entry, open, orphaned>>
    /\ call' = Step(h, "gone")
    /\ UNCHANGED <<uses, made, invalidating, invalidated>>

\* After a change of the configuration the kit is closed under its holders.
Invalidate ==
    /\ invalidating = 0 /\ entry # 0
    /\ invalidating' = entry
    /\ UNCHANGED <<entry, ent, call, uses, made, open, invalidated, orphaned>>

Invalidated ==
    /\ invalidating # 0
    /\ invalidating' = 0
    /\ IF ent[invalidating].kit = 0 THEN UNCHANGED <<ent, open, invalidated>>
       ELSE /\ open' = open \ {ent[invalidating].kit}
            /\ ent' = [ent EXCEPT ![invalidating].kit = 0]
            /\ invalidated' = TRUE
    /\ UNCHANGED <<entry, call, uses, made, orphaned>>

-----------------------------------------------------------------------------
PoolNext ==
    \/ \E h \in Holders : \/ Acquire(h) \/ Enter(h) \/ Prepared(h) \/ PrepareFails(h)
                          \/ Release(h) \/ Leave(h)
    \/ Invalidate \/ Invalidated

PoolSpec == PoolInit /\ [][PoolNext]_pool

-----------------------------------------------------------------------------
(* Properties *)

Holding == {h \in Holders : call[h].pc \in {"has", "leave"}}

\* Every variable of the pool keeps its type.
PoolTypeOK ==
    /\ entry \in 0..MaxEntries /\ invalidating \in 0..MaxEntries
    /\ ent \in [Entries -> [refs : Nat, kit : Nat, preparing : BOOLEAN]]
    /\ call \in [Holders -> [pc : Where, at : 0..MaxEntries]]
    /\ uses \in [Holders -> Nat]
    /\ made \in [entries : 0..MaxEntries, kits : Nat]
    /\ open \in SUBSET Nat
    /\ invalidated \in BOOLEAN /\ orphaned \in BOOLEAN

\* The kit is "shared across desktop tabs ... once per workspace" (WorkspaceKit): it is open
\* exactly as long as someone holds it, and everyone holds the same one, however acquires,
\* failures and releases of the tabs interleave; until an invalidation closes it under its
\* holders or an entry is deleted under a holder that has looked it up and not locked it.
KitLivesWhileHeld ==
    ~orphaned /\ ~invalidated => open = {uses[h] : h \in Holding}
OneKitPerWorkspace == ~orphaned => \A k, l \in open : k = l
KitIsShared == KitLivesWhileHeld /\ OneKitPerWorkspace

\* Whoever waits for the kit is woken: somebody is making it.
WaitersAreWoken ==
    \A h \in Holders : call[h].pc = "wait" =>
        At(h).preparing /\ \E g \in Holders : call[g] = [pc |-> "prepare", at |-> call[h].at]
=============================================================================
