----------------------------- MODULE SessionLog -----------------------------
(***************************************************************************)
(* The conversation of a session: the agent's message log, what compaction  *)
(* makes of it, and the files it is saved in (agent.Session, compact.go and *)
(* control.Controller).  Three goroutines work on it: a turn of the agent,  *)
(* a compaction asked for by the user, and a command that moves the session *)
(* to another file.  The program may be killed at any moment and started    *)
(* again on one of the files.                                               *)
(*                                                                         *)
(* The terminal frontend gives commands and starts turns one at a time and  *)
(* lets only /compact run beside them; an HTTP client is not held back.     *)
(* What the model says and calls, how large the prompt is and where the     *)
(* kept tail begins are choices.  Rewinding is modelled in Checkpoints, the *)
(* turn itself in AgentLoop.                                                *)
(***************************************************************************)
EXTENDS ToolPairing, FiniteSets

CONSTANTS
    MaxMessages,   \* bound: messages said, results not counted
    MaxPaths,      \* bound: session files
    MaxCommands,   \* bound: commands and compactions of the user
    MaxCrashes,    \* bound: crashes
    Width,         \* calls in an answer that has calls
    Naming,        \* whether the provider gives its tool calls ids
    Held           \* the frontend holds commands back while a turn or another command runs

ASSUME SessionLogAssumption ==
    /\ MaxMessages \in Nat /\ MaxPaths \in Nat \ {0}
    /\ MaxCommands \in Nat /\ MaxCrashes \in Nat
    /\ Width \in Nat \ {0} /\ Held \in BOOLEAN /\ Naming \subseteq BOOLEAN

Paths == 1..MaxPaths
Procs == {"turn", "compact", "command"}

VARIABLES
    named,      \* the provider gives its tool calls ids
    log,        \* messages of the executor's session
    path,       \* Controller.sessionPath
    file,       \* content of the session files, <<>> for none
    archived,   \* messages in the compaction archive
    said,       \* messages said so far, and their number
    turn,       \* the turn: its step, its length and first message at the start, its results
    fold,       \* compactions under way, of the turn and of the user: what they read, the cut,
                \* whether the session they read has been put away since
    save,       \* snapshots under way: where to, what, and the file when it was read
    command,    \* the command: its step, which, and the file it leads to
    noticed, runs, stuck,   \* Agent.softCompactNoticed, consecutiveCompacts, compactStuck
    home,       \* history: the session file in use when a message was said
    stems,      \* history: for each file the files its conversation comes from
    stale,      \* history: a log or a file was replaced on the strength of an older one
    skipped,    \* history: the last turn ended without being saved
    given, crashes   \* counted for the bounds

latch   == <<noticed, runs, stuck>>
history == <<home, stems, stale, skipped>>
counted == <<given, crashes>>
vars    == <<named, log, path, file, archived, said, turn, fold, save, command, latch, history, counted>>

Resting   == [pc |-> "idle", start |-> 0, first |-> 0, calls |-> 0, results |-> 0]
NoFold    == [pc |-> "none", base |-> <<>>, cut |-> 0, lost |-> FALSE]
NoSave    == [pc |-> "none", to |-> 1, what |-> <<>>, seen |-> <<>>]
NoCommand == [pc |-> "idle", what |-> "new", to |-> 1]

Init ==
    /\ named \in Naming
    /\ log = <<>> /\ path = 1
    /\ file = [p \in Paths |-> <<>>]
    /\ archived = {} /\ said = 0
    /\ turn = Resting
    /\ fold = [w \in {"turn", "compact"} |-> NoFold]
    /\ save = [w \in Procs |-> NoSave]
    /\ command = NoCommand
    /\ noticed = FALSE /\ runs = 0 /\ stuck = FALSE
    /\ home = [n \in 1..MaxMessages |-> 0]
    /\ stems = [p \in Paths |-> {p}]
    /\ stale = FALSE /\ skipped = FALSE
    /\ given = 0 /\ crashes = 0

Message(kind, n) == [kind |-> kind, n |-> n, ids |-> <<>>, id |-> 0]
CallId(n, k)     == IF named THEN 10 * n + k ELSE 0
Calls(n)         == [Message("calls", n) EXCEPT !.ids = [k \in 1..Width |-> CallId(n, k)]]
Result(n, k)     == [Message("result", n) EXCEPT !.id = CallId(n, k)]

\* Session.Add.
Say(message) ==
    /\ said < MaxMessages
    /\ said' = said + 1
    /\ log' = Append(log, message)
    /\ home' = [home EXCEPT ![said + 1] = path]

-----------------------------------------------------------------------------
(* Snapshots: read the log, write a new file, put it in the old one's place *)

TakeSnapshot == [pc |-> "write", to |-> path, what |-> log, seen |-> file[path]]

\* A conversation nobody has said anything in is not saved.
Worth(what) == what # <<>>

Write(w) ==
    LET s == save[w] IN
    /\ file' = [file EXCEPT ![s.to] = s.what]
    /\ stale' = (stale \/ file[s.to] # s.seen)
    /\ save' = [save EXCEPT ![w] = NoSave]

-----------------------------------------------------------------------------
(* Compaction *)

\* Mutant: the tail begins where the budget ends.
Unaligned(msgs, start) == start

\* tailStart: where the kept tail may begin.  It is never inside an exchange.
Aligned(msgs, start) ==
    LET outside == {k \in 1..start : msgs[k+1].kind # "result"}
    IN  IF outside = {} THEN 0 ELSE CHOOSE k \in outside : \A j \in outside : j <= k

Cuts(msgs) ==
    IF Len(msgs) <= 1 THEN {Len(msgs)} \ {0}
    ELSE {Aligned(msgs, s) : s \in {i \in 1..(Len(msgs) - 1) : i = 1 \/ i <= Len(msgs) - 2}} \ {0}

\* Mutant: the originals are dropped without being archived.
BeginFoldUnarchived(w, cut) ==
    /\ fold' = [fold EXCEPT ![w] = [NoFold EXCEPT !.pc = "fold", !.base = log, !.cut = cut]]
    /\ UNCHANGED archived

\* compact, up to the summary: the region is archived, then the model is asked.
BeginFold(w, cut) ==
    /\ fold' = [fold EXCEPT ![w] = [NoFold EXCEPT !.pc = "fold", !.base = log, !.cut = cut]]
    /\ archived' = archived \cup ToSet(SubSeq(log, 1, cut))

\* The summary replaces the region of the log that was read.
EndFold(w) ==
    LET f == fold[w] IN
    /\ said < MaxMessages
    /\ said' = said + 1
    /\ home' = [home EXCEPT ![said + 1] = path]
    /\ log' = <<Message("summary", said + 1)>> \o SubSeq(f.base, f.cut + 1, Len(f.base))
    /\ stale' = (stale \/ log # f.base \/ f.lost)
    /\ fold' = [fold EXCEPT ![w] = NoFold]

-----------------------------------------------------------------------------
(* The turn *)

Free == command.pc = "idle" /\ save["command"].pc = "none"

StartTurn ==
    /\ turn.pc = "idle"
    /\ Held => Free /\ save["compact"].pc = "none"
    /\ said < MaxMessages
    /\ turn' = [pc |-> "prompt", start |-> Len(log), first |-> said + 1, calls |-> 0, results |-> 0]
    /\ UNCHANGED <<named, log, path, file, archived, said, fold, save, command, latch, history, counted>>

\* The prompt, an answer or what the harness says to a refused answer.
Speak(at, kind, next) ==
    /\ turn.pc = at
    /\ Say(Message(kind, said + 1))
    /\ turn' = [turn EXCEPT !.pc = next]
    /\ UNCHANGED <<named, path, file, archived, fold, save, command, latch, stems, stale, skipped, counted>>

Prompt  == Speak("prompt", "user", "ask")
Answer  == \E next \in {"end", "refused"} : Speak("ask", "answer", next)
Refusal == Speak("refused", "user", "room")

\* The stream fails or is cancelled, the steps are used up, or a hook refused the prompt.
Fail ==
    /\ turn.pc \in {"prompt", "ask"}
    /\ turn' = [turn EXCEPT !.pc = "end"]
    /\ UNCHANGED <<named, log, path, file, archived, said, fold, save, command, latch, history, counted>>

CallTools ==
    /\ turn.pc = "ask"
    /\ Say(Calls(said + 1))
    /\ turn' = [turn EXCEPT !.pc = "tools", !.calls = said + 1, !.results = 0]
    /\ UNCHANGED <<named, path, file, archived, fold, save, command, latch, stems, stale, skipped, counted>>

\* The results come one by one.
AddResult ==
    LET k == turn.results + 1 IN
    /\ turn.pc = "tools"
    /\ log' = Append(log, Result(turn.calls, k))
    /\ turn' = [turn EXCEPT !.results = k, !.pc = IF k = Width THEN "room" ELSE "tools"]
    /\ UNCHANGED <<named, path, file, archived, said, fold, save, command, latch, history, counted>>

\* maybeCompact, by how large the last prompt was: nothing is known of it, or it is below
\* the soft mark, between it and the trigger, or over the trigger.
StayUnder ==
    /\ turn.pc = "room"
    /\ turn' = [turn EXCEPT !.pc = "ask"]
    /\ \/ UNCHANGED latch
       \/ ~noticed /\ noticed' = TRUE /\ UNCHANGED <<runs, stuck>>
       \/ noticed' = FALSE /\ runs' = 0 /\ stuck' = FALSE
    /\ UNCHANGED <<named, log, path, file, archived, said, fold, save, command, home, stems, stale, skipped, counted>>

CountPass ==
    /\ runs' = runs + 1
    /\ stuck' = (runs + 1 >= 2)
    /\ UNCHANGED noticed

\* Over the trigger: paused, or a pass that finds nothing worth folding, or one that begins.
Over ==
    /\ turn.pc = "room"
    /\ \/ /\ turn' = [turn EXCEPT !.pc = "ask"]
          /\ IF stuck THEN UNCHANGED latch ELSE CountPass
          /\ UNCHANGED <<fold, archived>>
       \/ /\ ~stuck
          /\ \E cut \in Cuts(log) : BeginFold("turn", cut)
          /\ turn' = [turn EXCEPT !.pc = "fold"]
          /\ UNCHANGED latch
    /\ UNCHANGED <<named, log, path, file, said, save, command, home, stems, stale, skipped, counted>>

AutoFold ==
    /\ turn.pc = "fold"
    /\ EndFold("turn")
    /\ CountPass
    /\ turn' = [turn EXCEPT !.pc = "ask"]
    /\ UNCHANGED <<named, path, file, archived, save, command, stems, skipped, counted>>

AutoFoldFails ==
    /\ turn.pc = "fold"
    /\ fold' = [fold EXCEPT !["turn"] = NoFold]
    /\ turn' = [turn EXCEPT !.pc = "ask"]
    /\ UNCHANGED <<named, log, path, file, archived, said, save, command, latch, history, counted>>

\* Mutant: the turn returns without its snapshot.
EndUnsaved ==
    /\ turn.pc = "end"
    /\ turn' = Resting
    /\ UNCHANGED <<named, log, path, file, archived, said, fold, save, command, latch, history, counted>>

\* snapshotActivityIfChanged: a log that has not grown since the start is not saved.
EndTurn ==
    /\ turn.pc = "end"
    /\ IF Len(log) > turn.start
       THEN /\ save' = [save EXCEPT !["turn"] = TakeSnapshot]
            /\ turn' = [turn EXCEPT !.pc = "save"]
            /\ UNCHANGED skipped
       ELSE /\ turn' = Resting
            /\ skipped' = TRUE
            /\ UNCHANGED save
    /\ UNCHANGED <<named, log, path, file, archived, said, fold, command, latch, home, stems, stale, counted>>

TurnSaved ==
    /\ turn.pc = "save"
    /\ Write("turn")
    /\ turn' = Resting
    /\ skipped' = FALSE
    /\ UNCHANGED <<named, log, path, archived, said, fold, command, latch, home, stems, counted>>

-----------------------------------------------------------------------------
(* /compact *)

BeginCompact ==
    /\ fold["compact"].pc = "none" /\ save["compact"].pc = "none"
    /\ Held => Free /\ turn.pc = "idle"
    /\ given < MaxCommands
    /\ given' = given + 1
    /\ \E cut \in Cuts(log) : BeginFold("compact", cut)
    /\ UNCHANGED <<named, log, path, file, said, turn, save, command, latch, history, crashes>>

Compacted ==
    /\ fold["compact"].pc = "fold"
    /\ EndFold("compact")
    /\ save' = [save EXCEPT !["compact"] = [NoSave EXCEPT !.pc = "take"]]
    /\ UNCHANGED <<named, path, file, archived, turn, command, latch, stems, skipped, counted>>

CompactFails ==
    /\ fold["compact"].pc = "fold"
    /\ fold' = [fold EXCEPT !["compact"] = NoFold]
    /\ UNCHANGED <<named, log, path, file, archived, said, turn, save, command, latch, history, counted>>

\* Mutant: it does not wait for a command under way.
CompactSnapshotAnyTime ==
    /\ save["compact"].pc = "take"
    /\ save' = [save EXCEPT !["compact"] = IF Worth(log) THEN TakeSnapshot ELSE NoSave]
    /\ UNCHANGED <<named, log, path, file, archived, said, turn, fold, command, latch, history, counted>>

\* The snapshot that follows.
CompactSnapshot ==
    /\ save["compact"].pc = "take"
    /\ Held => Free
    /\ save' = [save EXCEPT !["compact"] = IF Worth(log) THEN TakeSnapshot ELSE NoSave]
    /\ UNCHANGED <<named, log, path, file, archived, said, turn, fold, command, latch, history, counted>>

CompactSaved ==
    /\ save["compact"].pc = "write"
    /\ Write("compact")
    /\ UNCHANGED <<named, log, path, archived, said, turn, fold, command, latch, home, stems, skipped, counted>>

-----------------------------------------------------------------------------
(* Commands that move the session to another file *)

Fresh(p) == file[p] = <<>> /\ p # path

\* SetSession: a compaction under way has read the session that is put away.
SetSession(msgs) ==
    /\ log' = msgs
    /\ fold' = [w \in DOMAIN fold |-> [fold[w] EXCEPT !.lost = (fold[w].pc = "fold")]]

\* NewSession and serve's resume do not look whether a turn runs; SwitchBranch and Branch do.
Command(what, to) ==
    /\ Free
    /\ Held \/ what \in {"switch", "branch"} => turn.pc = "idle"
    /\ Held => save["compact"].pc # "write"
    /\ given < MaxCommands
    /\ given' = given + 1
    /\ IF what \in {"new", "branch"} THEN Fresh(to) ELSE file[to] # <<>>
    /\ Held /\ what = "resume" => to # path
    /\ what = "branch" => Worth(log)
    /\ command' = [pc |-> "saved", what |-> what, to |-> to]
    /\ save' = [save EXCEPT !["command"] = IF Worth(log) THEN TakeSnapshot ELSE NoSave]
    /\ UNCHANGED <<named, log, path, file, archived, said, turn, fold, latch, history, crashes>>

CommandSaved ==
    /\ save["command"].pc = "write"
    /\ Write("command")
    /\ UNCHANGED <<named, log, path, archived, said, turn, fold, command, latch, home, stems, skipped, counted>>

\* NewSession: the path first, then the session.
NewPath ==
    /\ command.pc = "saved" /\ command.what = "new" /\ save["command"].pc = "none"
    /\ path' = command.to
    /\ command' = [command EXCEPT !.pc = "half"]
    /\ UNCHANGED <<named, log, file, archived, said, turn, fold, save, latch, history, counted>>

NewLog ==
    /\ command.pc = "half" /\ command.what = "new"
    /\ SetSession(<<>>)
    /\ command' = NoCommand
    /\ skipped' = FALSE
    /\ UNCHANGED <<named, path, file, archived, said, turn, save, latch, home, stems, stale, counted>>

\* Resume, SwitchBranch and the end of Branch: the session first, then the path.
LoadLog ==
    /\ \/ command.pc = "saved" /\ command.what \in {"resume", "switch"} /\ save["command"].pc = "none"
       \/ command.pc = "copied"
    /\ SetSession(file[command.to])
    /\ command' = [command EXCEPT !.pc = "half"]
    /\ UNCHANGED <<named, path, file, archived, said, turn, save, latch, history, counted>>

\* Branch: the log is copied into a file of its own; the copy becomes the session.
BranchLog ==
    /\ command.pc = "saved" /\ command.what = "branch" /\ save["command"].pc = "none"
    /\ file' = [file EXCEPT ![command.to] = log]
    /\ stems' = [stems EXCEPT ![command.to] = stems[path] \cup {command.to}]
    /\ command' = [command EXCEPT !.pc = "copied"]
    /\ UNCHANGED <<named, log, path, archived, said, turn, fold, save, latch, home, stale, skipped, counted>>

MovePath ==
    /\ command.pc = "half" /\ command.what # "new"
    /\ path' = command.to
    /\ command' = NoCommand
    /\ skipped' = FALSE
    /\ UNCHANGED <<named, log, file, archived, said, turn, fold, save, latch, home, stems, stale, counted>>

\* The program is killed and started on a session file, an old one or a new one.
Crash(to) ==
    /\ crashes < MaxCrashes
    /\ crashes' = crashes + 1
    /\ log' = file[to] /\ path' = to
    /\ turn' = Resting /\ command' = NoCommand
    /\ fold' = [w \in {"turn", "compact"} |-> NoFold]
    /\ save' = [w \in Procs |-> NoSave]
    /\ noticed' = FALSE /\ runs' = 0 /\ stuck' = FALSE
    /\ skipped' = FALSE
    /\ UNCHANGED <<named, file, archived, said, home, stems, stale, given>>

-----------------------------------------------------------------------------
Turning ==
    \/ StartTurn \/ Prompt \/ Answer \/ Refusal \/ Fail \/ CallTools \/ AddResult
    \/ StayUnder \/ Over \/ AutoFold \/ AutoFoldFails \/ EndTurn \/ TurnSaved
Compacting == BeginCompact \/ Compacted \/ CompactFails \/ CompactSnapshot \/ CompactSaved
Moving ==
    \/ \E what \in {"new", "resume", "switch", "branch"}, to \in Paths : Command(what, to)
    \/ CommandSaved \/ NewPath \/ NewLog \/ LoadLog \/ BranchLog \/ MovePath

Next == Turning \/ Compacting \/ Moving \/ \E to \in Paths : Crash(to)

Spec == Init /\ [][Next]_vars

-----------------------------------------------------------------------------
(* Properties *)

\* Every variable keeps its type.
TypeOK ==
    /\ named \in BOOLEAN
    /\ path \in Paths /\ said \in 0..MaxMessages
    /\ \A n \in {m.n : m \in ToSet(log) \cup archived} : n \in 1..said
    /\ \A p \in Paths : \A m \in ToSet(file[p]) : m.n \in 1..said
    /\ turn.pc \in {"idle", "prompt", "ask", "refused", "tools", "room", "fold", "end", "save"}
    /\ turn.results \in 0..Width
    /\ \A w \in {"turn", "compact"} : fold[w].cut \in 0..Len(fold[w].base)
    /\ \A w \in Procs : save[w].to \in Paths /\ save[w].pc \in {"none", "take", "write"}
    /\ command.pc \in {"idle", "saved", "copied", "half"}
    /\ runs \in 0..2 /\ stuck \in BOOLEAN /\ noticed \in BOOLEAN
    /\ given \in 0..MaxCommands /\ crashes \in 0..MaxCrashes

\* Whatever compactions, snapshots, commands and crashes have made of the log, the request
\* built from it answers every call and holds no other tool message, and leaves out nothing
\* that was said; a log in order is sent as it is.
SentIsPaired ==
    LET sent == Sanitize(log) IN
    /\ Paired(sent)
    /\ Spoken(sent) = Spoken(log)
    /\ named /\ Paired(log) => sent = log

\* Compaction takes exchanges as a whole: with commands held back and nothing overwritten,
\* no result stands in the log without its calls.
ResultsFollowCalls ==
    Held /\ ~stale =>
        \A i \in DOMAIN log : log[i].kind = "result" =>
            i > 1 /\ log[i-1].kind \in {"calls", "result"} /\ log[i-1].n = log[i].n

\* "A crash loses at most one in-flight prompt" (Snapshot), as far as it holds: what is in
\* the log and not in its file belongs to the turn that runs, unless the last turn was not
\* saved because compaction had made the log shorter, or something was overwritten.
Unsaved == {m \in ToSet(log) : m.kind # "summary"} \ ToSet(file[path])
AtMostOnePromptAtRisk ==
    Held /\ ~stale /\ ~skipped /\ command.pc = "idle" =>
        \A m \in Unsaved : turn.pc # "idle" /\ m.n >= turn.first

\* "The dropped originals are archived first, so the full history stays traceable": what
\* leaves the log is in the archive or in a session file.
OnDisk == UNION {ToSet(file[p]) : p \in Paths}
DroppedIsKept ==
    [][Held /\ ~stale' /\ crashes' = crashes =>
          \A m \in ToSet(log) \ (ToSet(log') \cup archived' \cup OnDisk') : m.kind = "summary"]_vars

\* A session file holds messages of its own conversation and of those it was branched from.
OneConversationPerFile ==
    Held /\ ~stale =>
        \A p \in Paths : \A m \in ToSet(file[p]) : home[m.n] \in stems[p]
=============================================================================
