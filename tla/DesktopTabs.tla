---------------------------- MODULE DesktopTabs ----------------------------
(***************************************************************************)
(* The tabs of the desktop application on one workspace (desktop/tabs.go,    *)
(* app.go, settings_app.go): each is given a controller in the background,  *)
(* by the first message that needs one, and the controller saves its        *)
(* conversation in a session file.  A lease says which tab writes a file;   *)
(* the workspace's kit comes from WorkspacePool.  The bound methods run     *)
(* concurrently: a tab can be closed, rebuilt, moved to another session or  *)
(* trashed while its controller is being built.                             *)
(*                                                                         *)
(* A session file is a number, and what is in it is left out.  Which of the *)
(* workspace's files is the latest is left open.  A controller is one of    *)
(* the pool's holders.  Titles, telemetry, the tab order, the file of open  *)
(* tabs and the end of the application are left out.                        *)
(***************************************************************************)
EXTENDS WorkspacePool

CONSTANTS
    Tabs,
    MaxPaths,       \* bound: session files named
    MaxCommands,    \* bound: commands given and turns run
    None

ASSUME TabsAssumption ==
    MaxPaths \in Nat \ {0} /\ MaxCommands \in Nat /\ None \notin Tabs \cup Holders

Paths == 1..MaxPaths

VARIABLES
    st,        \* "new", "open", the steps of CloseTab and TrashTopic, "closed", "trashed"
    ctrl,      \* tab.Ctrl, or None
    path,      \* tab.sessionPath, 0 for none
    build,     \* the background build of the tab: tab.booting and where it is
    cmd,       \* the command that runs on the tab beside it
    live,      \* controllers made and not closed
    at,        \* the session path of each controller, 0 for none
    lease,     \* sessionLeases: the tab that owns each path, or None
    file,      \* the session files
    trash,     \* the files in the trash
    topic,     \* the tab whose topic a file is filed under, or None
    deleting,  \* the file a deletion has checked, 0 for none
    saver,     \* the autosave loop of the tab: none, "snap", "settle"
    again,     \* tab.saveAgain
    dirty,     \* controllers with a turn that no snapshot has seen whole
    turns,     \* the controllers made for each tab on which a turn runs
    named,     \* session files named so far
    given,     \* commands given and turns run so far
    moved,     \* history: tabs whose controller writes a path it did not claim
    unsaved,   \* tabs whose last snapshot left out a turn: it failed, or the turn ran on
    cut,       \* history: controllers closed under a turn, or after a snapshot that failed
    crossed    \* history: tabs on which two of build, rebuild and end overlapped, or a
               \* turn began before its rebuilt controller had a path

tabs  == <<st, ctrl, path, build, cmd>>
disk  == <<lease, file, trash, topic, deleting>>
saves == <<saver, again, dirty, turns, unsaved, cut>>
past  == <<moved, crossed>>
vars  == <<pool, tabs, disk, saves, past, live, at, named, given>>

Idle == [pc |-> "none", c |-> None, path |-> 0]
\* Controller.Snapshot of the tab's controller: without a path nothing is written, a
\* conversation without a turn may be empty, and a turn that runs has more to come.  One that
\* fails with nothing to save is as one of an empty conversation.
Snapshot(t) ==
    LET c == ctrl[t] IN
        /\ file' \in {file \cup ({at[c]} \ {0})} \cup (IF c \in dirty THEN {} ELSE {file})
        /\ dirty' = IF at[c] = 0 \/ c \in turns[t] THEN dirty ELSE dirty \ {c}
SnapshotFails(t) == at[ctrl[t]] # 0 /\ ctrl[t] \in dirty /\ UNCHANGED <<file, dirty>>
\* The snapshot before a controller is closed: its error is dropped, and the turn that runs
\* is only told to stop, or not even that.
LastSnapshot(t) ==
    \/ Snapshot(t) /\ ctrl[t] \notin turns[t] /\ UNCHANGED cut
    \/ /\ SnapshotFails(t) \/ (Snapshot(t) /\ ctrl[t] \in turns[t])
       /\ cut' = cut \cup {ctrl[t]}
\* What the rebuilt controller will carry of it.
Unsaved(t) == unsaved' = IF ctrl[t] \in dirty' THEN unsaved \cup {t} ELSE unsaved \ {t}
Released(t) == [p \in Paths |-> IF lease[p] = t THEN None ELSE lease[p]]
Building(t) == build[t].pc # "none"
Rebuilding(t) == cmd[t].pc \in {"retire", "drop", "invalidate", "acquire", "kit", "undo", "carry"}
Cross(t) == crossed' = IF Building(t) \/ Rebuilding(t) THEN crossed \cup {t} ELSE crossed
Command == given < MaxCommands /\ given' = given + 1

Init ==
    /\ PoolInit
    /\ st = [t \in Tabs |-> "new"] /\ ctrl = [t \in Tabs |-> None]
    /\ path = [t \in Tabs |-> 0]
    /\ build = [t \in Tabs |-> Idle] /\ cmd = [t \in Tabs |-> Idle]
    /\ live = {} /\ at = [c \in Holders |-> 0]
    /\ lease = [p \in Paths |-> None] /\ topic = [p \in Paths |-> None]
    /\ trash = {} /\ deleting = 0
    /\ saver = [t \in Tabs |-> "none"] /\ again = {} /\ dirty = {}
    /\ turns = [t \in Tabs |-> {}] /\ cut = {}
    /\ given = 0
    /\ moved = {} /\ unsaved = {} /\ crossed = {}
    /\ named = 1 /\ file = {1}

-----------------------------------------------------------------------------
(* The background build: startTabControllerBuild, buildTabController *)

OpenTab(t) ==
    /\ st[t] = "new"
    /\ st' = [st EXCEPT ![t] = "open"]
    /\ UNCHANGED <<pool, ctrl, path, build, cmd, disk, saves, past, live, at, named, given>>

StartBuild(t, c) ==
    /\ st[t] = "open" /\ ctrl[t] = None /\ ~Building(t)
    /\ Acquire(c)
    /\ build' = [build EXCEPT ![t] = [pc |-> "kit", c |-> c, path |-> 0]]
    /\ crossed' = IF Rebuilding(t) THEN crossed \cup {t} ELSE crossed
    /\ UNCHANGED <<st, ctrl, path, cmd, disk, saves, moved, live, at, named, given>>

KitMissing(t) ==
    /\ build[t].pc \in {"kit", "undo"} /\ call[build[t].c].pc = "gone"
    /\ build' = [build EXCEPT ![t] = Idle]
    /\ UNCHANGED <<pool, st, ctrl, path, cmd, disk, saves, past, live, at, named, given>>

Boot(t) ==
    /\ build[t].pc = "kit" /\ call[build[t].c].pc = "has"
    /\ \/ /\ live' = live \cup {build[t].c}
          /\ build' = [build EXCEPT ![t].pc = "claim"]
          /\ UNCHANGED pool
       \/ /\ Release(build[t].c)
          /\ build' = [build EXCEPT ![t].pc = "undo"]
          /\ UNCHANGED live
    /\ UNCHANGED <<st, ctrl, path, cmd, disk, saves, past, at, named, given>>

\* The variant that resumes a file whoever owns it.
ClaimAny(t) ==
    /\ build[t].pc = "claim"
    /\ \E raw \in (IF path[t] # 0 THEN {path[t]} ELSE file \cup {0}) :
          IF raw # 0
          THEN /\ lease' = [lease EXCEPT ![raw] = t]
               /\ build' = [build EXCEPT ![t].pc = "load", ![t].path = raw]
          ELSE /\ build' = [build EXCEPT ![t].pc = "fresh"]
               /\ UNCHANGED lease
    /\ UNCHANGED <<pool, st, ctrl, path, cmd, file, trash, topic, deleting, saves, past, live, at,
                   named, given>>

\* The file the tab had, or the latest of the workspace: it is claimed before it is read.
Claim(t) ==
    /\ build[t].pc = "claim"
    /\ \E raw \in (IF path[t] # 0 THEN {path[t]} ELSE file \cup {0}) :
          IF raw # 0 /\ lease[raw] \in {None, t}
          THEN /\ lease' = [lease EXCEPT ![raw] = t]
               /\ build' = [build EXCEPT ![t].pc = "load", ![t].path = raw]
          ELSE /\ build' = [build EXCEPT ![t].pc = "fresh"]
               /\ UNCHANGED lease
    /\ UNCHANGED <<pool, st, ctrl, path, cmd, file, trash, topic, deleting, saves, past, live, at,
                   named, given>>

\* A file that cannot be read gives up every lease of the tab.
Load(t) ==
    /\ build[t].pc = "load"
    /\ IF build[t].path \in file
       THEN /\ at' = [at EXCEPT ![build[t].c] = build[t].path]
            /\ build' = [build EXCEPT ![t].pc = "install"]
            /\ UNCHANGED lease
       ELSE /\ lease' = Released(t)
            /\ build' = [build EXCEPT ![t].pc = "fresh"]
            /\ UNCHANGED at
    /\ UNCHANGED <<pool, st, ctrl, path, cmd, file, trash, topic, deleting, saves, past, live,
                   named, given>>

\* NewSessionPath, and the claim of the new name.
Fresh(t) ==
    /\ build[t].pc = "fresh" /\ named < MaxPaths
    /\ named' = named + 1
    /\ at' = [at EXCEPT ![build[t].c] = named']
    /\ lease' = [lease EXCEPT ![named'] = t]
    /\ build' = [build EXCEPT ![t].pc = "install", ![t].path = named']
    /\ UNCHANGED <<pool, st, ctrl, path, cmd, file, trash, topic, deleting, saves, past, live, given>>

Install(t) ==
    /\ build[t].pc = "install"
    /\ ctrl' = [ctrl EXCEPT ![t] = build[t].c]
    /\ path' = [path EXCEPT ![t] = build[t].path]
    /\ topic' = [topic EXCEPT ![build[t].path] = t]
    /\ moved' = moved \ {t}
    /\ build' = [build EXCEPT ![t] = Idle]
    /\ UNCHANGED <<pool, st, cmd, lease, file, trash, deleting, saves, crossed, live, at, named, given>>

-----------------------------------------------------------------------------
(* CloseTab and TrashTopic end a tab; a build or a rebuild that runs goes on *)

CloseTab(t) ==
    /\ st[t] = "open" /\ Command
    /\ st' = [st EXCEPT ![t] = "teardown"]
    /\ Cross(t)
    /\ UNCHANGED <<pool, ctrl, path, build, cmd, disk, saves, moved, live, at, named>>

\* Cancel, which waits for nobody, the last snapshot and the end of the controller, whatever
\* tab.Ctrl is by now.
Teardown(t) ==
    /\ st[t] = "teardown"
    /\ \/ /\ ctrl[t] = None
          /\ st' = [st EXCEPT ![t] = "unlease"]
          /\ UNCHANGED <<pool, ctrl, file, dirty, cut, live>>
       \/ /\ ctrl[t] # None
          /\ LastSnapshot(t)
          /\ live' = live \ {ctrl[t]}
          /\ ctrl' = [ctrl EXCEPT ![t] = None]
          /\ Release(ctrl[t])
          /\ st' = [st EXCEPT ![t] = "unlease"]
    /\ UNCHANGED <<path, build, cmd, lease, trash, topic, deleting, saver, again, turns, unsaved,
                   past, at, named, given>>

\* The variant that closes the controller and keeps the leases.
UnleaseNothing(t) ==
    /\ st[t] = "unlease"
    /\ st' = [st EXCEPT ![t] = "closed"]
    /\ UNCHANGED <<pool, ctrl, path, build, cmd, disk, saves, past, live, at, named, given>>

Unlease(t) ==
    /\ st[t] = "unlease"
    /\ lease' = Released(t)
    /\ st' = [st EXCEPT ![t] = "closed"]
    /\ UNCHANGED <<pool, ctrl, path, build, cmd, file, trash, topic, deleting, saves, past, live,
                   at, named, given>>

\* Refused while a turn runs; a snapshot that fails leaves the tab open.  The controller is
\* closed and stays the tab's until the tab is removed; neither the lease nor the kit is
\* released.  A turn that begins behind the check goes on.
TrashTopic(t) ==
    /\ st[t] = "open" /\ ctrl[t] \notin turns[t] /\ Command
    /\ \/ /\ ctrl[t] = None
          /\ UNCHANGED <<file, dirty, turns, cut, live>>
          /\ st' = [st EXCEPT ![t] = "trashing"] /\ Cross(t)
       \/ /\ ctrl[t] # None /\ Snapshot(t) /\ live' = live \ {ctrl[t]}
          /\ UNCHANGED <<turns, cut>>
          /\ st' = [st EXCEPT ![t] = "trashing"] /\ Cross(t)
       \/ /\ ctrl[t] # None /\ live' = live \ {ctrl[t]}
          /\ file' \in {file, file \cup ({at[ctrl[t]]} \ {0})}
          /\ turns' = [turns EXCEPT ![t] = @ \cup {ctrl[t]}]
          /\ dirty' = dirty \cup {ctrl[t]} /\ cut' = cut \cup {ctrl[t]}
          /\ st' = [st EXCEPT ![t] = "trashing"] /\ Cross(t)
       \/ /\ ctrl[t] # None /\ SnapshotFails(t)
          /\ UNCHANGED <<st, turns, cut, live, crossed>>
    /\ UNCHANGED <<pool, ctrl, path, build, cmd, lease, trash, topic, deleting, saver, again,
                   unsaved, moved, at, named>>

\* A file that is already in the trash stops the move.
Trashed(t) ==
    /\ st[t] = "trashing"
    /\ st' = [st EXCEPT ![t] = "trashed"]
    /\ LET filed == {p \in file : topic[p] = t} IN
          \E gone \in SUBSET (filed \ trash) :
             /\ filed \cap trash = {} => gone = filed
             /\ file' = file \ gone /\ trash' = trash \cup gone
    /\ UNCHANGED <<pool, ctrl, path, build, cmd, lease, topic, deleting, saves, past, live, at,
                   named, given>>

-----------------------------------------------------------------------------
(* Commands on a tab: NewSession, ResumeSessionForTab, and the rebuilds *)

Begin(t) == st[t] = "open" /\ cmd[t].pc = "none" /\ Command

\* The controller goes on with a file that was just named, and the tab with it; a snapshot
\* that fails leaves both as they are.
NewSession(t) ==
    /\ Begin(t) /\ ctrl[t] # None /\ named < MaxPaths
    /\ Snapshot(t)
    /\ named' = named + 1
    /\ at' = [at EXCEPT ![ctrl[t]] = named']
    /\ moved' = moved \cup {t}
    /\ cmd' = [cmd EXCEPT ![t].pc = "sync"]
    /\ UNCHANGED <<pool, st, ctrl, path, build, lease, trash, topic, deleting, saver, again,
                   turns, unsaved, cut, crossed, live>>

\* A snapshot that fails stops nothing, and the conversation that is left goes unsaved.
ResumeSession(t, p) ==
    /\ Begin(t) /\ ctrl[t] # None /\ p \in file
    /\ \/ Snapshot(t) /\ UNCHANGED unsaved
       \/ /\ at[ctrl[t]] # 0 /\ ctrl[t] \in dirty /\ UNCHANGED file
          /\ dirty' = IF ctrl[t] \in turns[t] THEN dirty ELSE dirty \ {ctrl[t]}
          /\ unsaved' = unsaved \cup {t}
    /\ at' = [at EXCEPT ![ctrl[t]] = p]
    /\ moved' = moved \cup {t}
    /\ cmd' = [cmd EXCEPT ![t].pc = "sync"]
    /\ UNCHANGED <<pool, st, ctrl, path, build, lease, trash, topic, deleting, saver, again,
                   turns, cut, crossed, live, named>>

Sync(t) ==
    /\ cmd[t].pc = "sync"
    /\ path' = IF ctrl[t] # None /\ at[ctrl[t]] # 0
               THEN [path EXCEPT ![t] = at[ctrl[t]]] ELSE path
    /\ cmd' = [cmd EXCEPT ![t] = Idle]
    /\ UNCHANGED <<pool, st, ctrl, build, disk, saves, past, live, at, named, given>>

\* SetModel, SetEffort and rebuild: the old controller is saved and closed first.  The first
\* two refuse while a turn runs, and one can begin behind their check; rebuild does not look
\* for a turn.  A change of the configuration has the kit invalidated before.
Rebuild(t) ==
    /\ Begin(t)
    /\ cmd' = [cmd EXCEPT ![t].pc = "retire"]
    /\ crossed' = IF Building(t) THEN crossed \cup {t} ELSE crossed
    /\ UNCHANGED <<pool, st, ctrl, path, build, disk, saves, moved, live, at, named>>

Reconfigure(t) ==
    /\ st[t] = "open" /\ cmd[t].pc = "none" /\ Invalidate
    /\ given + 2 <= MaxCommands /\ given' = given + 2  \* the bound counts it as two commands
    /\ cmd' = [cmd EXCEPT ![t].pc = "invalidate"]
    /\ crossed' = IF Building(t) THEN crossed \cup {t} ELSE crossed
    /\ UNCHANGED <<st, ctrl, path, build, disk, saves, moved, live, at, named>>

Reconfigured(t) ==
    /\ cmd[t].pc = "invalidate" /\ Invalidated
    /\ cmd' = [cmd EXCEPT ![t].pc = "retire"]
    /\ UNCHANGED <<st, ctrl, path, build, disk, saves, past, live, at, named, given>>

\* The variant that releases the kit and does not close the old controller.
RetireOpen(t) ==
    /\ cmd[t].pc = "retire" /\ ctrl[t] # None
    /\ cmd' = [cmd EXCEPT ![t] = [pc |-> "drop", c |-> ctrl[t], path |-> at[ctrl[t]]]]
    /\ LastSnapshot(t) /\ Unsaved(t)
    /\ ctrl' = [ctrl EXCEPT ![t] = None]
    /\ Release(ctrl[t])
    /\ UNCHANGED <<st, path, build, lease, trash, topic, deleting, saver, again, turns, past, at,
                   live, named, given>>

Retire(t) ==
    /\ cmd[t].pc = "retire"
    /\ \/ /\ ctrl[t] = None
          /\ cmd' = [cmd EXCEPT ![t] = [pc |-> "acquire", c |-> None, path |-> 0]]
          /\ unsaved' = unsaved \ {t}
          /\ UNCHANGED <<pool, ctrl, file, dirty, cut, live>>
       \/ /\ ctrl[t] # None
          /\ cmd' = [cmd EXCEPT ![t] = [pc |-> "drop", c |-> ctrl[t], path |-> at[ctrl[t]]]]
          /\ LastSnapshot(t) /\ Unsaved(t)
          /\ live' = live \ {ctrl[t]}
          /\ ctrl' = [ctrl EXCEPT ![t] = None]
          /\ Release(ctrl[t])
    /\ UNCHANGED <<st, path, build, lease, trash, topic, deleting, saver, again, turns, past, at,
                   named, given>>

Again(t, c) ==
    /\ \/ cmd[t].pc = "acquire"
       \/ cmd[t].pc = "drop" /\ call[cmd[t].c].pc = "gone"
    /\ Acquire(c)
    /\ cmd' = [cmd EXCEPT ![t].pc = "kit", ![t].c = c]
    /\ UNCHANGED <<st, ctrl, path, build, disk, saves, past, live, at, named, given>>

Reboot(t) ==
    /\ cmd[t].pc = "kit" /\ call[cmd[t].c].pc = "has"
    /\ \/ /\ live' = live \cup {cmd[t].c}
          /\ ctrl' = [ctrl EXCEPT ![t] = cmd[t].c]
          /\ cmd' = [cmd EXCEPT ![t].pc = "carry"]
          /\ UNCHANGED pool
       \/ /\ Release(cmd[t].c)
          /\ cmd' = [cmd EXCEPT ![t].pc = "undo"]
          /\ UNCHANGED <<ctrl, live>>
    /\ UNCHANGED <<st, path, build, disk, saves, past, at, named, given>>

RebuildFails(t) ==
    /\ cmd[t].pc \in {"kit", "undo"} /\ call[cmd[t].c].pc = "gone"
    /\ cmd' = [cmd EXCEPT ![t] = Idle]
    /\ UNCHANGED <<pool, st, ctrl, path, build, disk, saves, past, live, at, named, given>>

\* ContinueSessionPath: the file the old controller had, or a new one, which nobody claims.
\* The conversation comes along in memory, what the last snapshot did not save of it too.
Carry(t) ==
    /\ cmd[t].pc = "carry"
    /\ IF cmd[t].path # 0
       THEN /\ at' = [at EXCEPT ![cmd[t].c] = cmd[t].path]
            /\ UNCHANGED <<named, moved>>
       ELSE /\ named < MaxPaths /\ named' = named + 1
            /\ at' = [at EXCEPT ![cmd[t].c] = named']
            /\ moved' = moved \cup {t}
    /\ dirty' = IF t \in unsaved THEN dirty \cup {cmd[t].c} ELSE dirty
    /\ cmd' = [cmd EXCEPT ![t] = Idle]
    /\ UNCHANGED <<pool, st, ctrl, path, build, disk, saver, again, turns, unsaved, cut, crossed,
                   live, given>>

-----------------------------------------------------------------------------
(* DeleteSession and RestoreSession *)

OpenPaths == {at[ctrl[t]] : t \in {u \in Tabs : st[u] \in {"open", "trashing"} /\ ctrl[u] # None}}

\* It "refuses any open session": what a tab without a controller has claimed is not open.
DeleteSession(p) ==
    /\ deleting = 0 /\ p \in file \ OpenPaths /\ Command
    /\ deleting' = p
    /\ UNCHANGED <<pool, tabs, lease, file, trash, topic, saves, past, live, at, named>>

Deleted ==
    /\ deleting # 0
    /\ deleting' = 0
    /\ IF deleting \in file \cap trash THEN UNCHANGED <<file, trash, path>>
       ELSE /\ file' = file \ {deleting}
            /\ trash' = trash \cup ({deleting} \cap file)
            /\ path' = [t \in Tabs |-> IF path[t] = deleting /\ st[t] \in {"open", "trashing"}
                                       THEN 0 ELSE path[t]]
    /\ UNCHANGED <<pool, st, ctrl, build, cmd, lease, topic, saves, past, live, at, named, given>>

RestoreSession(p) ==
    /\ p \in trash \ file /\ Command
    /\ trash' = trash \ {p} /\ file' = file \cup {p}
    /\ UNCHANGED <<pool, tabs, lease, topic, deleting, saves, past, live, at, named>>

-----------------------------------------------------------------------------
(* Turns, and autosave: scheduleTabSnapshot, tabSnapshotLoop *)

StartTurn(t) ==
    /\ st[t] = "open" /\ ctrl[t] \in live \ turns[t] /\ Command
    /\ turns' = [turns EXCEPT ![t] = @ \cup {ctrl[t]}]
    /\ dirty' = dirty \cup {ctrl[t]}
    /\ crossed' = IF at[ctrl[t]] = 0 THEN crossed \cup {t} ELSE crossed
    /\ UNCHANGED <<pool, tabs, disk, saver, again, unsaved, cut, moved, live, at, named>>

\* A turn ends, on whatever has become of its controller.  The controller saves the
\* conversation, unless that fails or the turn has compacted it (snapshotActivityIfChanged,
\* controller.go); the event has the tab's present controller saved once more, if the tab
\* is still there.
TurnDone(t, c) ==
    /\ c \in turns[t]
    /\ turns' = [turns EXCEPT ![t] = @ \ {c}]
    /\ \/ file' = file \cup {at[c]} /\ dirty' = dirty \ {c} /\ at[c] # 0
       \/ UNCHANGED <<file, dirty>>
    /\ unsaved' = IF c = ctrl[t] THEN unsaved \ {t} ELSE unsaved
    /\ IF st[t] \notin {"open", "trashing"} THEN UNCHANGED <<saver, again>>
       ELSE IF saver[t] = "none"
       THEN saver' = [saver EXCEPT ![t] = "snap"] /\ UNCHANGED again
       ELSE again' = again \cup {t} /\ UNCHANGED saver
    /\ UNCHANGED <<pool, tabs, lease, trash, topic, deleting, cut, past, live, at, named, given>>

Snap(t) ==
    /\ saver[t] = "snap"
    /\ saver' = [saver EXCEPT ![t] = "settle"]
    /\ \/ /\ ctrl[t] # None /\ Snapshot(t)
          /\ path' = IF at[ctrl[t]] = 0 THEN path ELSE [path EXCEPT ![t] = at[ctrl[t]]]
          /\ unsaved' = IF at[ctrl[t]] = 0 \/ ctrl[t] \in turns[t] THEN unsaved ELSE unsaved \ {t}
       \/ /\ ctrl[t] # None /\ SnapshotFails(t)
          /\ unsaved' = unsaved \cup {t}
          /\ UNCHANGED path
       \/ /\ ctrl[t] = None \/ ctrl[t] \notin dirty
          /\ UNCHANGED <<path, file, dirty, unsaved>>
    /\ UNCHANGED <<pool, st, ctrl, build, cmd, lease, trash, topic, deleting, again, turns, cut,
                   past, live, at, named, given>>

\* The variant that ends the loop after a snapshot that worked.
SettleOnce(t) ==
    /\ saver[t] = "settle"
    /\ saver' = [saver EXCEPT ![t] = "none"]
    /\ again' = again \ {t}
    /\ UNCHANGED <<pool, tabs, disk, dirty, turns, unsaved, cut, past, live, at, named, given>>

Settle(t) ==
    /\ saver[t] = "settle"
    /\ saver' = [saver EXCEPT ![t] = IF t \in again THEN "snap" ELSE "none"]
    /\ again' = again \ {t}
    /\ UNCHANGED <<pool, tabs, disk, dirty, turns, unsaved, cut, past, live, at, named, given>>

-----------------------------------------------------------------------------
\* The pool's own steps, which the controllers' builds and ends wait for.
Pool ==
    /\ \E h \in Holders : Enter(h) \/ Prepared(h) \/ PrepareFails(h) \/ Leave(h)
    /\ UNCHANGED <<tabs, disk, saves, past, live, at, named, given>>

BuildStep(t) == \/ \E c \in Holders : StartBuild(t, c)
                \/ KitMissing(t) \/ Boot(t) \/ Claim(t) \/ Load(t) \/ Fresh(t) \/ Install(t)
End(t) == CloseTab(t) \/ Teardown(t) \/ Unlease(t) \/ TrashTopic(t) \/ Trashed(t)
Commanded(t) == \/ NewSession(t) \/ \E p \in Paths : ResumeSession(t, p)
                \/ Sync(t) \/ Rebuild(t) \/ Reconfigure(t) \/ Reconfigured(t)
                \/ Retire(t) \/ \E c \in Holders : Again(t, c)
                \/ Reboot(t) \/ RebuildFails(t) \/ Carry(t)
Sessions == \/ \E p \in Paths : DeleteSession(p) \/ RestoreSession(p)
            \/ Deleted
Autosave(t) == \/ StartTurn(t) \/ \E c \in Holders : TurnDone(t, c)
               \/ Snap(t) \/ Settle(t)

Next == \/ \E t \in Tabs : OpenTab(t) \/ BuildStep(t) \/ End(t) \/ Commanded(t) \/ Autosave(t)
        \/ Pool \/ Sessions

Spec == Init /\ [][Next]_vars

-----------------------------------------------------------------------------
(* Properties *)

Steps == {"none", "kit", "undo", "claim", "load", "fresh", "install", "sync", "invalidate",
          "retire", "drop", "acquire", "carry"}
Job == [pc : Steps, c : Holders \cup {None}, path : 0..MaxPaths]

\* Every variable keeps its type.
TypeOK ==
    /\ PoolTypeOK
    /\ st \in [Tabs -> {"new", "open", "teardown", "unlease", "closed", "trashing", "trashed"}]
    /\ ctrl \in [Tabs -> Holders \cup {None}] /\ path \in [Tabs -> 0..MaxPaths]
    /\ build \in [Tabs -> Job] /\ cmd \in [Tabs -> Job]
    /\ live \in SUBSET Holders /\ at \in [Holders -> 0..MaxPaths]
    /\ lease \in [Paths -> Tabs \cup {None}] /\ topic \in [Paths -> Tabs \cup {None}]
    /\ file \in SUBSET Paths /\ trash \in SUBSET Paths /\ deleting \in 0..MaxPaths
    /\ saver \in [Tabs -> {"none", "snap", "settle"}] /\ again \in SUBSET Tabs
    /\ dirty \in SUBSET Holders /\ turns \in [Tabs -> SUBSET Holders] /\ cut \in SUBSET Holders
    /\ named \in 0..MaxPaths /\ given \in 0..MaxCommands
    /\ moved \in SUBSET Tabs /\ unsaved \in SUBSET Tabs /\ crossed \in SUBSET Tabs

Writes(t) == st[t] = "open" /\ ctrl[t] \in live /\ at[ctrl[t]] # 0

\* A tab writes the session file it owns the lease of (sessionLeases), through closings,
\* failed loads, deletions and rebuilds of either tab: as long as the user has not moved it
\* to another session by hand and nothing overlapped on it.
WritersHoldTheirLease ==
    \A t \in Tabs \ (moved \cup crossed) : Writes(t) => lease[at[ctrl[t]]] = t

\* A turn that has ended is lost only with a snapshot that failed, wherever it ends: a
\* controller is closed only after a snapshot has seen its last turn, unless that snapshot
\* failed or the turn still ran (CloseTab, rebuild and a late start do not wait for it); and
\* an open tab's controller with a turn that is not saved is in the middle of it, or the
\* autosave loop has one more pass to go, however turns, passes and rebuilds follow.
TurnsAreSaved ==
    /\ crossed = {} => dirty \subseteq live \cup cut
    /\ \A t \in Tabs \ (unsaved \cup crossed) :
          st[t] = "open" /\ ctrl[t] \in dirty \ turns[t] => saver[t] = "snap" \/ t \in again

\* A closed tab leaves neither lease nor controller behind, whatever was being done on it;
\* a trashed tab leaves no controller; and no rebuild loses sight of one.
NothingOutlivesItsTab ==
    /\ \A t \in Tabs \ crossed : st[t] = "closed" => \A p \in Paths : lease[p] # t
    /\ crossed = {} => \A c \in live : \E t \in Tabs :
          \/ ctrl[t] = c /\ st[t] \in {"open", "teardown"}
          \/ c \in {build[t].c, cmd[t].c}

\* A controller that runs works with an open kit, however the other tabs of the workspace
\* are built, rebuilt and closed around it.
LiveControllersHaveTheirKit ==
    ~orphaned /\ ~invalidated => \A c \in live : uses[c] \in open
=============================================================================
