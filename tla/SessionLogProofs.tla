-------------------------- MODULE SessionLogProofs --------------------------
(***************************************************************************)
(* What the session log promises, for any number of messages, files,        *)
(* commands and crashes.                                                    *)
(***************************************************************************)
EXTENDS SessionLog, SequenceTheorems, WellFoundedInduction, TLAPS

-----------------------------------------------------------------------------
(* Sequences and the sets of their elements *)

LEMMA ElementsIn ==
    ASSUME NEW S, NEW s \in Seq(S)
    PROVE  /\ ToSet(s) \subseteq S /\ Len(s) \in Nat
           /\ \A i \in 1..Len(s) : s[i] \in ToSet(s) /\ s[i] \in S
           /\ DOMAIN s = 1..Len(s) /\ (s = <<>> <=> Len(s) = 0)
           /\ \A m \in ToSet(s) : \E i \in 1..Len(s) : m = s[i]
  BY DEF ToSet

LEMMA EmptyLog == ASSUME NEW S PROVE <<>> \in Seq(S) /\ ToSet(<<>>) = {} /\ Len(<<>>) = 0
  BY DEF ToSet

LEMMA Appended ==
    ASSUME NEW S, NEW s \in Seq(S), NEW e \in S
    PROVE  /\ Append(s, e) \in Seq(S)
           /\ ToSet(Append(s, e)) = ToSet(s) \cup {e}
           /\ Len(Append(s, e)) = Len(s) + 1
           /\ Append(s, e)[Len(s) + 1] = e
           /\ \A i \in 1..Len(s) : Append(s, e)[i] = s[i]
<1>1. /\ Append(s, e) \in Seq(S) /\ Len(Append(s, e)) = Len(s) + 1
      /\ Append(s, e)[Len(s) + 1] = e /\ \A i \in 1..Len(s) : Append(s, e)[i] = s[i]
  BY AppendProperties
<1>2. DOMAIN Append(s, e) = 1..(Len(s) + 1) /\ DOMAIN s = 1..Len(s) /\ Len(s) \in Nat
  BY <1>1
<1>3. ToSet(Append(s, e)) = ToSet(s) \cup {e}
  <2>1. ASSUME NEW i \in 1..(Len(s) + 1) PROVE Append(s, e)[i] \in ToSet(s) \cup {e}
    BY <1>1, <1>2 DEF ToSet
  <2>2. ASSUME NEW i \in 1..Len(s) PROVE s[i] \in ToSet(Append(s, e))
    <3>1. i \in 1..(Len(s) + 1) /\ Append(s, e)[i] = s[i]
      BY <1>1, <1>2
    <3> QED BY <3>1, <1>2 DEF ToSet
  <2>3. e \in ToSet(Append(s, e))
    <3>1. Len(s) + 1 \in 1..(Len(s) + 1)
      BY <1>2
    <3> QED BY <3>1, <1>1, <1>2 DEF ToSet
  <2> QED BY <1>2, <2>1, <2>2, <2>3 DEF ToSet
<1> QED BY <1>1, <1>3

\* What compaction makes of a log.
LEMMA Folded ==
    ASSUME NEW S, NEW s \in Seq(S), NEW e \in S, NEW cut \in 0..Len(s)
    PROVE  LET t == <<e>> \o SubSeq(s, cut + 1, Len(s)) IN
           /\ t \in Seq(S) /\ Len(t) = Len(s) - cut + 1
           /\ t[1] = e /\ \A i \in 2..Len(t) : t[i] = s[cut + i - 1]
           /\ e \in ToSet(t) /\ ToSet(t) \subseteq ToSet(s) \cup {e}
           /\ ToSet(s) \subseteq ToSet(t) \cup ToSet(SubSeq(s, 1, cut))
<1> DEFINE tail == SubSeq(s, cut + 1, Len(s))
           t == <<e>> \o tail
           front == SubSeq(s, 1, cut)
<1>1. Len(s) \in Nat /\ cut \in Nat /\ cut <= Len(s) /\ \A i \in 1..Len(s) : s[i] \in S
  BY ElementsIn
<1>2. /\ tail \in Seq(S) /\ Len(tail) = Len(s) - cut
      /\ \A i \in 1..(Len(s) - cut) : tail[i] = s[cut + i]
  <2>1. /\ tail \in Seq(S) /\ Len(tail) = IF cut + 1 <= Len(s) THEN Len(s) - (cut + 1) + 1 ELSE 0
        /\ \A i \in 1..(Len(s) - (cut + 1) + 1) : tail[i] = s[(cut + 1) + i - 1]
    BY <1>1, SubSeqProperties
  <2> HIDE DEF tail
  <2>2. \A i \in 1..(Len(s) - cut) : tail[i] = s[cut + i]
    <3> TAKE i \in 1..(Len(s) - cut)
    <3>1. (cut + 1) + i - 1 = cut + i /\ i \in 1..(Len(s) - (cut + 1) + 1)
      BY <1>1
    <3> QED BY <2>1, <3>1
  <2> QED BY <1>1, <2>1, <2>2
<1>3. /\ front \in Seq(S) /\ Len(front) = cut
      /\ \A i \in 1..cut : front[i] = s[i]
  <2>1. /\ front \in Seq(S) /\ Len(front) = IF 1 <= cut THEN cut - 1 + 1 ELSE 0
        /\ \A i \in 1..(cut - 1 + 1) : front[i] = s[1 + i - 1]
    BY <1>1, SubSeqProperties
  <2> HIDE DEF front
  <2>2. \A i \in 1..cut : front[i] = s[i]
    <3> TAKE i \in 1..cut
    <3>1. 1 + i - 1 = i /\ i \in 1..(cut - 1 + 1)
      BY <1>1
    <3> QED BY <2>1, <3>1
  <2> QED BY <1>1, <2>1, <2>2
<1> HIDE DEF tail, front
<1>4. /\ t \in Seq(S) /\ Len(t) = Len(s) - cut + 1
      /\ t[1] = e /\ \A i \in 2..Len(t) : t[i] = tail[i - 1]
  <2>1. <<e>> \in Seq(S) /\ Len(<<e>>) = 1 /\ <<e>>[1] = e
    OBVIOUS
  <2>2. /\ t \in Seq(S) /\ Len(t) = 1 + Len(tail)
        /\ \A i \in 1..(1 + Len(tail)) : t[i] = IF i <= 1 THEN <<e>>[i] ELSE tail[i - 1]
    BY <1>2, <2>1, ConcatProperties
  <2> HIDE DEF t
  <2> QED BY <1>1, <1>2, <2>1, <2>2
<1> HIDE DEF t
<1>5. \A i \in 2..Len(t) : t[i] = s[cut + i - 1]
  <2> TAKE i \in 2..Len(t)
  <2>1. i - 1 \in 1..(Len(s) - cut) /\ cut + (i - 1) = cut + i - 1
    BY <1>1, <1>4
  <2> QED BY <1>2, <1>4, <2>1
<1>6. e \in ToSet(t) /\ ToSet(t) \subseteq ToSet(s) \cup {e}
  <2>1. DOMAIN t = 1..Len(t) /\ 1 \in 1..Len(t)
    BY <1>1, <1>4
  <2>2. ASSUME NEW i \in 1..Len(t) PROVE t[i] \in ToSet(s) \cup {e}
    <3>1. CASE i = 1
      BY <3>1, <1>4
    <3>2. CASE i # 1
      <4>1. i \in 2..Len(t) /\ cut + i - 1 \in 1..Len(s)
        BY <1>1, <1>4, <3>2
      <4> QED BY <1>5, <4>1, ElementsIn
    <3> QED BY <3>1, <3>2
  <2> QED BY <1>4, <2>1, <2>2 DEF ToSet
<1>7. ToSet(s) \subseteq ToSet(t) \cup ToSet(front)
  <2> SUFFICES ASSUME NEW j \in 1..Len(s) PROVE s[j] \in ToSet(t) \cup ToSet(front)
    BY ElementsIn
  <2>1. CASE j <= cut
    BY <1>1, <1>3, <2>1, ElementsIn
  <2>2. CASE j > cut
    <3>1. j - cut + 1 \in 2..Len(t) /\ cut + (j - cut + 1) - 1 = j
      BY <1>1, <1>4, <2>2
    <3>2. t[j - cut + 1] = s[j] /\ j - cut + 1 \in 1..Len(t)
      BY <1>5, <3>1
    <3> QED BY <1>4, <3>2, ElementsIn
  <2> QED BY <1>1, <2>1, <2>2
<1> QED BY <1>4, <1>5, <1>6, <1>7 DEF t, tail, front

-----------------------------------------------------------------------------
(* The inductive invariant *)

Folders == {"turn", "compact"}
Kinds   == {"user", "answer", "calls", "result", "summary"}
Msgs    == [kind : Kinds, n : 1..MaxMessages, ids : Seq(Nat), id : Nat]
\* What has been said so far, with ids of its own for each call where the provider gives
\* them, and the logs that can be made of it.
Heard   == {m \in Msgs : m.n <= said /\ (named /\ m.kind = "calls" => IdDistinct(m.ids))}
Logs    == Seq(Heard)

\* What the records hold.
Turns == [pc : {"idle", "prompt", "ask", "refused", "tools", "room", "fold", "end", "save"},
          start : Nat, first : 0..(MaxMessages + 1), calls : 0..MaxMessages, results : 0..Width]
Folds == [pc : {"none", "fold"}, base : Logs, cut : Nat, lost : BOOLEAN]
Saves == [pc : {"none", "take", "write"}, to : Paths, what : Logs, seen : Logs]
Moves == [pc : {"idle", "saved", "copied", "half"}, what : {"new", "resume", "switch", "branch"},
    to : Paths]

Typed ==
    /\ named \in BOOLEAN /\ path \in Paths /\ said \in 0..MaxMessages
    /\ log \in Logs /\ file \in [Paths -> Logs] /\ archived \in SUBSET Heard
    /\ turn \in Turns
    /\ fold \in [Folders -> Folds]
    /\ save \in [Procs -> Saves]
    /\ command \in Moves
    /\ noticed \in BOOLEAN /\ runs \in Nat /\ stuck \in BOOLEAN
    /\ home \in [1..MaxMessages -> 0..MaxPaths] /\ stems \in [Paths -> SUBSET Paths]
    /\ stale \in BOOLEAN /\ skipped \in BOOLEAN
    /\ given \in 0..MaxCommands /\ crashes \in 0..MaxCrashes

\* Where the turn is, what it waits for and how far it has got.
Phases ==
    /\ turn.pc = "fold" <=> fold["turn"].pc = "fold"
    /\ save["turn"].pc = (IF turn.pc = "save" THEN "write" ELSE "none")
    /\ turn.pc # "idle" => turn.first \in 1..(said + 1)
    /\ turn.pc = "tools" => turn.calls \in turn.first..said /\ turn.results < Width
    /\ save["command"].pc # "none" => command.pc = "saved" /\ save["command"].pc = "write"
    /\ fold["compact"].pc = "fold" => save["compact"].pc = "none"
    /\ command.pc = "copied" => command.what = "branch"
    /\ runs <= 2 /\ (stuck <=> runs = 2)
    /\ turn.pc = "fold" => ~stuck

\* A compaction under way ends the region in front of an exchange and has archived it.
Cut ==
    \A w \in Folders :
        IF fold[w].pc = "none" THEN fold[w].cut = 0
        ELSE /\ fold[w].cut \in 1..Len(fold[w].base)
             /\ fold[w].cut < Len(fold[w].base) => fold[w].base[fold[w].cut + 1].kind # "result"
             /\ ToSet(SubSeq(fold[w].base, 1, fold[w].cut)) \subseteq archived

\* What the frontend's holding back comes to.
Alone ==
    Held =>
        /\ turn.pc # "idle" => command.pc = "idle"
        /\ command.pc # "idle" => save["compact"].pc # "write"
        /\ \A w \in Procs : save[w].pc = "write" => save[w].to = path
        /\ command.pc = "half" /\ command.what # "new" /\ fold["compact"].pc = "fold" =>
              fold["compact"].lost

\* Nothing has been overwritten and the frontend holds commands back.
Sound == Held /\ ~stale

\* Every result in a log or a file stands behind its calls.
Orderly(s) == \A i \in DOMAIN s : s[i].kind = "result" =>
                  i > 1 /\ s[i-1].kind \in {"calls", "result"} /\ s[i-1].n = s[i].n
InOrder ==
    /\ Orderly(log)
    /\ \A p \in Paths : Orderly(file[p])
    /\ Orderly(fold["turn"].base) /\ Orderly(fold["compact"].base)
    /\ Orderly(save["turn"].what) /\ Orderly(save["compact"].what) /\ Orderly(save["command"].what)
    /\ turn.pc = "tools" =>
          log # <<>> /\ log[Len(log)].kind \in {"calls", "result"} /\ log[Len(log)].n = turn.calls

\* A /compact beside a turn has read the log of before the turn.
Early(s, first) == \A m \in ToSet(s) : m.n < first
ReadBefore ==
    turn.pc # "idle" =>
        /\ fold["compact"].pc = "fold" => Early(fold["compact"].base, turn.first)
        /\ fold["compact"].pc = "fold" \/ save["compact"].pc = "take" => Early(file[path], turn.first)
        /\ save["compact"].pc = "write" => Early(save["compact"].seen, turn.first)
        /\ Early(log, turn.first) => Len(log) <= turn.start
        /\ turn.pc = "save" => ~Early(log, turn.first)

\* Logs, files and snapshots are of one conversation.
Own(s, names, said_in) == \A m \in ToSet(s) : said_in[m.n] \in names
OneEach ==
    /\ \A p \in Paths : p \in stems[p] /\ Own(file[p], stems[p], home)
    /\ save["turn"].pc = "write" => Own(save["turn"].what, stems[path], home)
    /\ save["compact"].pc = "write" => Own(save["compact"].what, stems[path], home)
    /\ save["command"].pc = "write" => Own(save["command"].what, stems[path], home)
    /\ command.pc # "half" => Own(log, stems[path], home)
    /\ command.pc = "half" /\ command.what # "new" => Own(log, stems[command.to], home)

\* What the log holds is on disk, or the turn that runs will save it.
Words(s)      == {m \in ToSet(s) : m.kind # "summary"}
Old(s, first) == {m \in Words(s) : m.n < first}
Kept ==
    /\ ~skipped /\ command.pc = "idle" /\ turn.pc = "idle" => Words(log) \subseteq ToSet(file[path])
    /\ ~skipped /\ command.pc = "idle" /\ turn.pc # "idle" => Old(log,
        turn.first) \subseteq ToSet(file[path])
    /\ turn.pc = "save" => save["turn"].what = log
    /\ save["compact"].pc = "write" /\ turn.pc # "idle" =>
          Old(log, turn.first) \subseteq ToSet(save["compact"].what)
    /\ save["compact"].pc = "write" /\ turn.pc = "idle" /\ ~skipped =>
          Words(log) \subseteq ToSet(save["compact"].what) \/ file[path] # save["compact"].seen
    /\ save["command"].pc = "write" => Words(log) \subseteq ToSet(save["command"].what)
    /\ command.pc = "saved" /\ save["command"].pc = "none" => Words(log) \subseteq OnDisk \cup archived
    /\ command.pc = "half" /\ command.what = "new" => Words(log) \subseteq OnDisk \cup archived
    /\ command.pc = "copied" \/ (command.pc = "half" /\ command.what # "new") =>
          Words(log) \subseteq ToSet(file[command.to])

Safe == InOrder /\ ReadBefore /\ OneEach /\ Kept

IInv == Typed /\ Phases /\ Cut /\ Alone /\ (Sound => Safe)
-----------------------------------------------------------------------------
(* Types *)

\* A message said adds to the logs that can be made.
LEMMA SaidMore ==
    ASSUME Typed, said < MaxMessages, said' = said + 1, named' = named
    PROVE  /\ said' \in 0..MaxMessages /\ Heard \subseteq Heard' /\ Logs \subseteq Logs'
           /\ \A kind \in Kinds : Message(kind, said + 1) \in Heard'
           /\ Calls(said + 1) \in Heard'
<1>1. said \in Nat /\ MaxMessages \in Nat /\ said + 1 \in 1..MaxMessages /\ Width \in Nat /\ named \in BOOLEAN
  BY SessionLogAssumption DEF Typed, Turns, Folds, Saves, Moves
<1>2. Heard \subseteq Heard'
  BY <1>1 DEF Heard, Msgs
<1>3. Logs \subseteq Logs'
  BY <1>2, SeqMonotonic DEF Logs
<1>4. \A kind \in Kinds : Message(kind, said + 1) \in Heard'
  <2>1. ASSUME NEW kind \in Kinds
        PROVE  /\ Message(kind, said + 1) \in Msgs /\ Message(kind, said + 1).n = said + 1
               /\ IdDistinct(Message(kind, said + 1).ids)
    <3>1. Message(kind, said + 1).ids = <<>> /\ DOMAIN <<>> = {}
      BY DEF Message
    <3>2. IdDistinct(Message(kind, said + 1).ids)
      BY <3>1 DEF IdDistinct
    <3>3. Message(kind, said + 1) \in Msgs /\ Message(kind, said + 1).n = said + 1
      BY <1>1 DEF Message, Msgs
    <3> QED BY <3>2, <3>3
  <2> QED BY <1>1, <2>1 DEF Heard
<1>5. Calls(said + 1) \in Heard'
  <2>1. [k \in 1..Width |-> CallId(said + 1, k)] \in Seq(Nat)
    <3>1. \A k \in 1..Width : CallId(said + 1, k) \in Nat
      BY <1>1 DEF CallId
    <3> QED BY <1>1, <3>1
  <2>2. Message("calls", said + 1) \in Msgs
    BY <1>1 DEF Message, Msgs, Kinds
  <2>3. Calls(said + 1) \in Msgs /\ Calls(said + 1).n = said + 1
    BY <1>1, <2>1, <2>2 DEF Calls, Msgs, Message
  <2>4. named => IdDistinct(Calls(said + 1).ids)
    <3> DEFINE ids == [k \in 1..Width |-> CallId(said + 1, k)]
    <3>1. Calls(said + 1).ids = ids
      BY DEF Calls, Message
    <3>2. ASSUME named, NEW i \in 1..Width
          PROVE  ids[i] = 10 * (said + 1) + i /\ i \in Nat /\ i # 0
      BY <1>1, <3>2 DEF CallId
    <3>3. DOMAIN ids = 1..Width
      OBVIOUS
    <3> HIDE DEF ids
    <3> SUFFICES ASSUME named, NEW i \in 1..Width, NEW j \in 1..Width
                 PROVE  ids[i] # 0 /\ (ids[i] = ids[j] => i = j)
      BY <3>1, <3>3 DEF IdDistinct
    <3>4. ids[i] = 10 * (said + 1) + i /\ ids[j] = 10 * (said + 1) + j
      BY <3>2
    <3>5. i \in Nat /\ j \in Nat /\ i # 0 /\ 10 * (said + 1) \in Nat
      BY <1>1
    <3> QED BY <3>4, <3>5
  <2> QED BY <1>1, <2>3, <2>4 DEF Heard
<1> QED BY <1>1, <1>2, <1>3, <1>4, <1>5

LEMMA SaidSame ==
    ASSUME said' = said, named' = named
    PROVE  Heard' = Heard /\ Logs' = Logs /\ Folds' = Folds /\ Saves' = Saves
  BY DEF Heard, Logs, Folds, Saves

LEMMA ResultHeard ==
    ASSUME Typed, turn.calls \in 1..said, NEW k \in Nat
    PROVE  Result(turn.calls, k) \in Heard
<1>1. /\ turn.calls \in Nat /\ said \in Nat /\ MaxMessages \in Nat /\ said <= MaxMessages
      /\ named \in BOOLEAN
  BY SessionLogAssumption DEF Typed, Turns, Folds, Saves, Moves
<1>2. turn.calls \in 1..MaxMessages /\ turn.calls <= said
  BY <1>1
<1>3. CallId(turn.calls, k) \in Nat
  BY <1>1 DEF CallId
<1>4. Message("result", turn.calls) \in Msgs /\ Message("result", turn.calls).n = turn.calls
  BY <1>2 DEF Message, Msgs, Kinds
<1>5. Result(turn.calls, k) \in Msgs /\ Result(turn.calls, k).n = turn.calls
      /\ Result(turn.calls, k).kind = "result"
  BY <1>3, <1>4 DEF Result, Message, Msgs
<1> QED BY <1>2, <1>5 DEF Heard

\* A set of numbers has a least one, and a bounded one a greatest.
LEMMA Least ==
    ASSUME NEW T, T \subseteq Nat, T # {}
    PROVE  \E x \in T : \A y \in T : x <= y
<1> DEFINE R == {ss \in Nat \X Nat : ss[1] < ss[2]}
<1>1. IsWellFoundedOn(R, Nat)
  BY NatLessThanWellFounded, SMT DEF OpToRel
<1> HIDE DEF R
<1>2. PICK x \in T : \A y \in T : ~ (<<y, x>> \in R)
  BY <1>1, WFMin
<1>3. ASSUME NEW y \in T PROVE x <= y
  <2>1. x \in Nat /\ y \in Nat /\ ~ (<<y, x>> \in R)
    BY <1>2
  <2> QED BY <2>1 DEF R
<1> QED BY <1>2, <1>3

LEMMA Greatest ==
    ASSUME NEW n \in Nat, NEW T, T \subseteq 0..n, T # {}
    PROVE  \E x \in T : \A y \in T : y <= x
<1> DEFINE below == {i \in Nat : n - i \in T}
<1>1. below # {}
  <2>1. PICK x \in T : TRUE
    OBVIOUS
  <2>2. x \in 0..n /\ n - x \in Nat /\ n - (n - x) = x
    BY <2>1
  <2> QED BY <2>1, <2>2
<1>2. PICK i \in below : \A j \in below : i <= j
  BY <1>1, Least
<1>3. ASSUME NEW y \in T PROVE y <= n - i
  <2>1. y \in 0..n /\ n - y \in Nat /\ n - (n - y) = y
    OBVIOUS
  <2>2. n - y \in below
    BY <2>1
  <2> QED BY <1>2, <2>1, <2>2
<1> QED BY <1>2, <1>3

\* tailStart never ends inside an exchange, and planCompaction folds something.
LEMMA AlignedCuts ==
    ASSUME NEW s \in Seq(Msgs), NEW cut \in Cuts(s)
    PROVE  cut \in 1..Len(s) /\ (cut < Len(s) => s[cut + 1].kind # "result")
<1>1. Len(s) \in Nat
  OBVIOUS
<1>2. CASE Len(s) <= 1
  BY <1>1, <1>2 DEF Cuts
<1>3. CASE Len(s) > 1
  <2>1. PICK start \in 1..(Len(s) - 1) : cut = Aligned(s, start) /\ cut # 0
    BY <1>1, <1>3 DEF Cuts
  <2> DEFINE outside == {k \in 1..start : s[k+1].kind # "result"}
  <2>2. outside # {} /\ cut = CHOOSE k \in outside : \A j \in outside : j <= k
    BY <2>1 DEF Aligned
  <2>3. \E k \in outside : \A j \in outside : j <= k
    <3>1. outside \subseteq 0..start /\ start \in Nat
      BY <1>1, <2>1
    <3> QED BY <2>2, <3>1, Greatest
  <2>4. cut \in outside
    BY <2>2, <2>3
  <2> QED BY <1>1, <2>1, <2>4
<1> QED BY <1>1, <1>2, <1>3


\* What was typed before is typed after.
LEMMA StillTyped ==
    ASSUME Typed, said < MaxMessages, said' = said + 1, named' = named
    PROVE  /\ log \in Logs' /\ file \in [Paths -> Logs'] /\ archived \in SUBSET Heard'
           /\ \A w \in Folders : fold[w] \in Folds'
           /\ fold \in [Folders -> Folds']
           /\ save \in [Procs -> Saves']
<1>1. Heard \subseteq Heard' /\ Logs \subseteq Logs'
  BY SaidMore
<1> QED BY <1>1 DEF Typed, Turns, Folds, Saves, Moves

\* Session.Add and the end of a compaction add a message.
LEMMA SayTyped ==
    ASSUME Typed, NEW m \in Heard', Say(m), named' = named
    PROVE  log' \in Logs' /\ home' \in [1..MaxMessages -> 0..MaxPaths] /\ said' \in 0..MaxMessages
<1>1. said < MaxMessages /\ said' = said + 1 /\ log' = Append(log, m)
      /\ home' = [home EXCEPT ![said + 1] = path]
  BY DEF Say
<1>2. log \in Logs' /\ said' \in 0..MaxMessages
  BY <1>1, StillTyped, SaidMore
<1>3. log' \in Logs'
  BY <1>1, <1>2, Appended DEF Logs
<1>4. home' \in [1..MaxMessages -> 0..MaxPaths]
  BY <1>1, SessionLogAssumption DEF Typed, Paths, Turns, Folds, Saves, Moves
<1> QED BY <1>2, <1>3, <1>4

LEMMA EndFoldTyped ==
    ASSUME Typed, Cut, NEW w \in Folders, fold[w].pc = "fold", EndFold(w), named' = named
    PROVE  /\ log' \in Logs' /\ home' \in [1..MaxMessages -> 0..MaxPaths] /\ said' \in 0..MaxMessages
           /\ fold' \in [Folders -> Folds']
           /\ stale' \in BOOLEAN
<1>1. /\ said < MaxMessages /\ said' = said + 1 /\ home' = [home EXCEPT ![said + 1] = path]
      /\ log' = <<Message("summary", said + 1)>> \o SubSeq(fold[w].base, fold[w].cut + 1,
          Len(fold[w].base))
      /\ fold' = [fold EXCEPT ![w] = NoFold]
      /\ stale' = (stale \/ log # fold[w].base \/ fold[w].lost)
  BY DEF EndFold
<1>2. fold[w].base \in Logs' /\ Message("summary", said + 1) \in Heard' /\ said' \in 0..MaxMessages
  <2>1. fold[w] \in Folds' /\ "summary" \in Kinds
    BY <1>1, StillTyped DEF Kinds
  <2>2. Message("summary", said + 1) \in Heard' /\ said' \in 0..MaxMessages
    BY <1>1, <2>1, SaidMore
  <2> QED BY <2>1, <2>2 DEF Folds
<1>3. fold[w].cut \in 0..Len(fold[w].base)
  <2>1. fold[w].cut \in 1..Len(fold[w].base) /\ fold[w].base \in Seq(Heard)
    BY DEF Cut, Typed, Logs, Turns, Folds, Saves, Moves
  <2> QED BY <2>1
<1>4. log' \in Logs'
  BY <1>1, <1>2, <1>3, Folded DEF Logs
<1>5. home' \in [1..MaxMessages -> 0..MaxPaths]
  <2>1. path \in 0..MaxPaths /\ home \in [1..MaxMessages -> 0..MaxPaths]
    BY SessionLogAssumption DEF Typed, Paths
  <2> QED BY <1>1, <2>1
<1>6. NoFold \in Folds'
  BY EmptyLog DEF NoFold, Logs, Folds
<1>7. fold' \in [Folders -> Folds']
  BY <1>1, <1>6, StillTyped
<1> QED BY <1>1, <1>2, <1>4, <1>5, <1>7 DEF Typed, Turns, Folds, Saves, Moves

LEMMA BeginFoldTyped ==
    ASSUME Typed, NEW w \in Folders, NEW cut \in Cuts(log), BeginFold(w, cut), said' = said, named' = named
    PROVE  /\ fold' \in [Folders -> Folds']
           /\ archived' \in SUBSET Heard'
<1>1. fold' = [fold EXCEPT ![w] = [NoFold EXCEPT !.pc = "fold", !.base = log, !.cut = cut]]
      /\ archived' = archived \cup ToSet(SubSeq(log, 1, cut))
  BY DEF BeginFold
<1>2. Logs' = Logs /\ Heard' = Heard /\ Folds' = Folds
  BY SaidSame
<1>3. log \in Seq(Heard) /\ log \in Seq(Msgs)
  BY DEF Typed, Logs, Heard, Turns, Folds, Saves, Moves
<1>4. cut \in 1..Len(log)
  BY <1>3, AlignedCuts
<1>5. ToSet(SubSeq(log, 1, cut)) \subseteq Heard
  <2>1. SubSeq(log, 1, cut) \in Seq(Heard)
    BY <1>3, <1>4
  <2> QED BY <2>1, ElementsIn
<1>6. [NoFold EXCEPT !.pc = "fold", !.base = log, !.cut = cut]
        \in Folds
  <2>1. cut \in Nat /\ log \in Logs
    BY <1>3, <1>4 DEF Logs
  <2> QED BY <2>1 DEF NoFold, Folds
<1> QED BY <1>1, <1>2, <1>5, <1>6 DEF Typed, Turns, Folds, Saves, Moves

LEMMA TypedStep == IInv /\ [Next]_vars => Typed'
<1> SUFFICES ASSUME Typed, Phases, Cut, [Next]_vars PROVE Typed'
  BY DEF IInv
<1> USE SessionLogAssumption DEF latch, history, counted, Procs, Folders
<1>e. <<>> \in Logs /\ 1 \in Paths
  BY EmptyLog DEF Logs, Paths
<1>1. ASSUME StartTurn PROVE Typed'
  <2>1. UNCHANGED <<named, log, path, file, archived, said, fold, save, command, noticed, runs, stuck,
                    home, stems, stale, skipped, given, crashes>>
    BY <1>1 DEF StartTurn
  <2>2. Heard' = Heard /\ Logs' = Logs /\ Folds' = Folds /\ Saves' = Saves
    BY <2>1, SaidSame
  <2>3. turn' \in Turns
    <3>1. Len(log) \in Nat /\ said + 1 \in 0..(MaxMessages + 1) /\ 0 \in 0..MaxMessages /\ 0 \in 0..Width
      BY DEF Typed, Logs
    <3> QED BY <1>1, <3>1 DEF StartTurn, Turns
  <2> QED BY <2>1, <2>2, <2>3 DEF Typed
<1>2. ASSUME Prompt PROVE Typed'
  <2>1. PICK next \in {"ask", "end", "refused", "room"} :
          /\ Say(Message("user", said + 1))
          /\ turn' = [turn EXCEPT !.pc = next]
          /\ UNCHANGED <<named, path, file, archived, fold, save, command, latch, stems, stale,
                         skipped, counted>>
    BY <1>2 DEF Prompt, Speak
  <2>2. said < MaxMessages /\ said' = said + 1
    BY <2>1 DEF Say
  <2>3. /\ log' \in Logs' /\ home' \in [1..MaxMessages -> 0..MaxPaths] /\ said' \in 0..MaxMessages
    BY <2>1, <2>2, SaidMore, SayTyped DEF Kinds
  <2>4. turn' \in Turns
    BY <2>1 DEF Typed, Turns, Folds, Saves, Moves
  <2> QED BY <2>1, <2>2, <2>3, <2>4, StillTyped DEF Typed
<1>3. ASSUME Answer PROVE Typed'
  <2>1. PICK next \in {"ask", "end", "refused", "room"} :
          /\ Say(Message("answer", said + 1))
          /\ turn' = [turn EXCEPT !.pc = next]
          /\ UNCHANGED <<named, path, file, archived, fold, save, command, latch, stems, stale,
                         skipped, counted>>
    BY <1>3 DEF Answer, Speak
  <2>2. said < MaxMessages /\ said' = said + 1
    BY <2>1 DEF Say
  <2>3. /\ log' \in Logs' /\ home' \in [1..MaxMessages -> 0..MaxPaths] /\ said' \in 0..MaxMessages
    BY <2>1, <2>2, SaidMore, SayTyped DEF Kinds
  <2>4. turn' \in Turns
    BY <2>1 DEF Typed, Turns, Folds, Saves, Moves
  <2> QED BY <2>1, <2>2, <2>3, <2>4, StillTyped DEF Typed
<1>4. ASSUME Refusal PROVE Typed'
  <2>1. PICK next \in {"ask", "end", "refused", "room"} :
          /\ Say(Message("user", said + 1))
          /\ turn' = [turn EXCEPT !.pc = next]
          /\ UNCHANGED <<named, path, file, archived, fold, save, command, latch, stems, stale,
                         skipped, counted>>
    BY <1>4 DEF Refusal, Speak
  <2>2. said < MaxMessages /\ said' = said + 1
    BY <2>1 DEF Say
  <2>3. /\ log' \in Logs' /\ home' \in [1..MaxMessages -> 0..MaxPaths] /\ said' \in 0..MaxMessages
    BY <2>1, <2>2, SaidMore, SayTyped DEF Kinds
  <2>4. turn' \in Turns
    BY <2>1 DEF Typed, Turns, Folds, Saves, Moves
  <2> QED BY <2>1, <2>2, <2>3, <2>4, StillTyped DEF Typed
<1>5. ASSUME Fail PROVE Typed'
  <2>1. UNCHANGED <<named, log, path, file, archived, said, fold, save, command, noticed, runs, stuck,
                    home, stems, stale, skipped, given, crashes>>
    BY <1>5 DEF Fail
  <2>2. Heard' = Heard /\ Logs' = Logs /\ Folds' = Folds /\ Saves' = Saves
    BY <2>1, SaidSame
  <2>3. turn' \in Turns
    BY <1>e, <1>5 DEF Fail, Typed, Turns
  <2> QED BY <2>1, <2>2, <2>3 DEF Typed
<1>6. ASSUME CallTools PROVE Typed'
  <2>1. /\ Say(Calls(said + 1)) /\ turn' = [turn EXCEPT !.pc = "tools", !.calls = said + 1, !.results = 0]
        /\ UNCHANGED <<named, path, file, archived, fold, save, command, latch, stems, stale, skipped,
                       counted>>
    BY <1>6 DEF CallTools
  <2>2. said < MaxMessages /\ said' = said + 1 /\ said + 1 \in 0..MaxMessages
    <3>1. said < MaxMessages /\ said' = said + 1
      BY <2>1 DEF Say
    <3>2. said \in 0..MaxMessages /\ MaxMessages \in Nat
      BY DEF Typed
    <3> QED BY <3>1, <3>2
  <2>3. log' \in Logs' /\ home' \in [1..MaxMessages -> 0..MaxPaths] /\ said' \in 0..MaxMessages
    BY <2>1, <2>2, SaidMore, SayTyped
  <2>4. turn' \in Turns
    <3>1. 0 \in 0..Width
      OBVIOUS
    <3> QED BY <2>1, <2>2, <3>1 DEF Typed, Turns, Folds, Saves, Moves
  <2> QED BY <2>1, <2>2, <2>3, <2>4, StillTyped DEF Typed
<1>7. ASSUME AddResult PROVE Typed'
  <2> DEFINE k == turn.results + 1
  <2>1. /\ turn.pc = "tools" /\ log' = Append(log, Result(turn.calls, k)) /\ said' = said
        /\ turn' = [turn EXCEPT !.results = k, !.pc = IF k = Width THEN "room" ELSE "tools"]
        /\ UNCHANGED <<named, path, file, archived, fold, save, command, latch, history, counted>>
    BY <1>7 DEF AddResult
  <2>2. Heard' = Heard /\ Logs' = Logs /\ Folds' = Folds /\ Saves' = Saves
    BY <2>1, SaidSame
  <2>3. turn.calls \in 1..said /\ k \in 0..Width
    <3>1. turn.first \in 1..(said + 1) /\ turn.calls \in turn.first..said /\ turn.results < Width
      BY <2>1 DEF Phases
    <3>2. said \in Nat /\ turn.results \in 0..Width
      BY DEF Typed, Turns, Folds, Saves, Moves
    <3> QED BY <3>1, <3>2
  <2> HIDE DEF k
  <2>4. log' \in Logs'
    <3>1. Result(turn.calls, k) \in Heard
      BY <2>3, ResultHeard
    <3> QED BY <2>1, <2>2, <3>1, Appended DEF Logs, Typed, Turns, Folds, Saves, Moves
  <2>5. turn' \in Turns
    BY <2>1, <2>3 DEF Typed, Turns, Folds, Saves, Moves
  <2> QED BY <2>1, <2>2, <2>4, <2>5 DEF Typed
<1>8. ASSUME StayUnder PROVE Typed'
  <2>1. /\ turn' = [turn EXCEPT !.pc = "ask"]
        /\ UNCHANGED <<named, log, path, file, archived, said, fold, save, command, home, stems,
                       stale, skipped, counted>>
    BY <1>8 DEF StayUnder
  <2>2. Heard' = Heard /\ Logs' = Logs /\ Folds' = Folds /\ Saves' = Saves
    BY <2>1, SaidSame
  <2>3. noticed' \in BOOLEAN /\ runs' \in Nat /\ stuck' \in BOOLEAN
    <3>1. noticed \in BOOLEAN /\ runs \in Nat /\ stuck \in BOOLEAN
      BY DEF Typed, Turns, Folds, Saves, Moves
    <3>2. CASE UNCHANGED latch
      BY <3>1, <3>2
    <3>3. CASE noticed' = TRUE /\ UNCHANGED <<runs, stuck>>
      BY <3>1, <3>3
    <3>4. CASE noticed' = FALSE /\ runs' = 0 /\ stuck' = FALSE
      BY <3>4
    <3> QED BY <1>8, <3>2, <3>3, <3>4 DEF StayUnder
  <2>4. turn' \in Turns
    BY <2>1 DEF Typed, Turns
  <2> QED BY <2>1, <2>2, <2>3, <2>4 DEF Typed
<1>9. ASSUME Over PROVE Typed'
  <2>1. UNCHANGED <<named, log, path, file, said, save, command, home, stems, stale, skipped, counted>>
    BY <1>9 DEF Over
  <2>2. Heard' = Heard /\ Logs' = Logs /\ Folds' = Folds /\ Saves' = Saves
    BY <2>1, SaidSame
  <2>3. noticed' \in BOOLEAN /\ runs' \in Nat /\ stuck' \in BOOLEAN
    <3>1. noticed \in BOOLEAN /\ runs \in Nat /\ stuck \in BOOLEAN
      BY DEF Typed, Turns, Folds, Saves, Moves
    <3>2. UNCHANGED latch \/ CountPass
      BY <1>9 DEF Over
    <3>3. CASE UNCHANGED latch
      BY <3>1, <3>3
    <3>4. CASE CountPass
      <4>1. runs' = runs + 1 /\ noticed' = noticed /\ stuck' = (runs + 1 >= 2)
        BY <3>4 DEF CountPass
      <4>2. (runs + 1 >= 2) \in BOOLEAN
        OBVIOUS
      <4> QED BY <3>1, <4>1, <4>2
    <3> QED BY <3>2, <3>3, <3>4
  <2>4. turn' \in Turns
    BY <1>9 DEF Over, Typed, Turns, Folds, Saves, Moves
  <2>5. fold' \in [Folders -> Folds']
        /\ archived' \in SUBSET Heard'
    <3>1. CASE UNCHANGED <<fold, archived>>
      BY <2>2, <3>1 DEF Typed, Turns, Folds, Saves, Moves
    <3>2. CASE \E cut \in Cuts(log) : BeginFold("turn", cut)
      BY <2>1, <3>2, BeginFoldTyped
    <3> QED BY <1>9, <3>1, <3>2 DEF Over
  <2> QED BY <2>1, <2>2, <2>3, <2>4, <2>5 DEF Typed
<1>10. ASSUME AutoFold PROVE Typed'
  <2>1. /\ turn.pc = "fold" /\ EndFold("turn") /\ turn' = [turn EXCEPT !.pc = "ask"]
        /\ noticed' = noticed /\ runs' = runs + 1 /\ stuck' = (runs + 1 >= 2)
        /\ UNCHANGED <<named, path, file, archived, save, command, stems, skipped, counted>>
    BY <1>10 DEF AutoFold, CountPass
  <2>2. said < MaxMessages /\ said' = said + 1 /\ fold["turn"].pc = "fold"
    BY <2>1 DEF EndFold, Phases
  <2>3. /\ log' \in Logs' /\ home' \in [1..MaxMessages -> 0..MaxPaths] /\ said' \in 0..MaxMessages
        /\ fold' \in [Folders -> Folds']
        /\ stale' \in BOOLEAN
    BY <2>1, <2>2, EndFoldTyped
  <2>4. turn' \in Turns
    BY <2>1 DEF Typed, Turns, Folds, Saves, Moves
  <2>5. runs' \in Nat /\ stuck' \in BOOLEAN
    <3>1. runs + 1 \in Nat /\ (runs + 1 >= 2) \in BOOLEAN
      BY DEF Typed
    <3> QED BY <2>1, <3>1
  <2> QED BY <2>1, <2>2, <2>3, <2>4, <2>5, StillTyped DEF Typed
<1>11. ASSUME AutoFoldFails PROVE Typed'
  <2>1. UNCHANGED <<named, log, path, file, archived, said, save, command, noticed, runs, stuck, home,
                    stems, stale, skipped, given, crashes>>
    BY <1>11 DEF AutoFoldFails
  <2>2. Heard' = Heard /\ Logs' = Logs /\ Folds' = Folds /\ Saves' = Saves
    BY <2>1, SaidSame
  <2>3. turn' \in Turns
    BY <1>e, <1>11 DEF AutoFoldFails, Typed, Turns
  <2>4. fold' \in [Folders -> Folds]
    <3>1. NoFold \in Folds
      BY <1>e DEF NoFold, Folds
    <3> QED BY <1>11, <3>1 DEF AutoFoldFails, Typed
  <2> QED BY <2>1, <2>2, <2>3, <2>4 DEF Typed
<1>12. ASSUME EndTurn PROVE Typed'
  <2>1. UNCHANGED <<named, log, path, file, archived, said, fold, command, latch, home, stems, stale,
                    counted>>
    BY <1>12 DEF EndTurn
  <2>2. Heard' = Heard /\ Logs' = Logs /\ Folds' = Folds /\ Saves' = Saves
    BY <2>1, SaidSame
  <2>3. turn' \in Turns
    <3>1. turn' = [turn EXCEPT !.pc = "save"] \/ turn' = Resting
      BY <1>12 DEF EndTurn
    <3>2. Resting \in Turns
      <4>1. 0 \in Nat /\ 0 \in 0..(MaxMessages + 1) /\ 0 \in 0..MaxMessages /\ 0 \in 0..Width
        OBVIOUS
      <4> QED BY <4>1 DEF Resting, Turns
    <3>3. [turn EXCEPT !.pc = "save"] \in Turns
      BY DEF Typed, Turns
    <3> QED BY <3>1, <3>2, <3>3
  <2>4. save' \in [Procs -> Saves']
    <3>1. TakeSnapshot \in Saves
      BY DEF TakeSnapshot, Typed, Turns, Folds, Saves, Moves
    <3>2. save' = save \/ save' = [save EXCEPT !["turn"] = TakeSnapshot]
      BY <1>12 DEF EndTurn
    <3> QED BY <2>2, <3>1, <3>2 DEF Typed, Turns, Folds, Saves, Moves
  <2>5. skipped' \in BOOLEAN
    BY <1>12 DEF EndTurn, Typed, Turns, Folds, Saves, Moves
  <2> QED BY <2>1, <2>2, <2>3, <2>4, <2>5 DEF Typed
<1>13. ASSUME TurnSaved PROVE Typed'
  <2>1. /\ Write("turn") /\ turn' = Resting /\ skipped' = FALSE
        /\ UNCHANGED <<named, log, path, archived, said, fold, command, latch, home, stems, counted>>
    BY <1>13 DEF TurnSaved
  <2>2. Heard' = Heard /\ Logs' = Logs /\ Folds' = Folds /\ Saves' = Saves
    BY <2>1, SaidSame
  <2>3. turn' \in Turns
    BY <2>1 DEF Resting, Turns, Folds, Saves, Moves
  <2>4. save' \in [Procs -> Saves']
        /\ file' \in [Paths -> Logs'] /\ stale' \in BOOLEAN
    BY <1>e, <2>1, <2>2 DEF Write, NoSave, Typed, Turns, Folds, Saves, Moves
  <2> QED BY <2>1, <2>2, <2>3, <2>4 DEF Typed
<1>14. ASSUME BeginCompact PROVE Typed'
  <2>1. /\ given < MaxCommands /\ given' = given + 1 /\ \E cut \in Cuts(log) : BeginFold("compact", cut)
        /\ UNCHANGED <<named, log, path, file, said, turn, save, command, latch, history, crashes>>
    BY <1>14 DEF BeginCompact
  <2>2. Heard' = Heard /\ Logs' = Logs /\ Folds' = Folds /\ Saves' = Saves
    BY <2>1, SaidSame
  <2>3. fold' \in [Folders -> Folds']
        /\ archived' \in SUBSET Heard'
    BY <2>1, BeginFoldTyped
  <2>4. given' \in 0..MaxCommands
    BY <2>1 DEF Typed, Turns, Folds, Saves, Moves
  <2> QED BY <2>1, <2>2, <2>3, <2>4 DEF Typed
<1>15. ASSUME Compacted PROVE Typed'
  <2>1. /\ fold["compact"].pc = "fold" /\ EndFold("compact")
        /\ save' = [save EXCEPT !["compact"] = [NoSave EXCEPT !.pc = "take"]]
        /\ UNCHANGED <<named, path, file, archived, turn, command, latch, stems, skipped, counted>>
    BY <1>15 DEF Compacted
  <2>2. said < MaxMessages /\ said' = said + 1
    BY <2>1 DEF EndFold
  <2>3. /\ log' \in Logs' /\ home' \in [1..MaxMessages -> 0..MaxPaths] /\ said' \in 0..MaxMessages
        /\ fold' \in [Folders -> Folds']
        /\ stale' \in BOOLEAN
    BY <2>1, EndFoldTyped
  <2>4. save' \in [Procs -> Saves']
    <3>1. <<>> \in Logs'
      BY EmptyLog DEF Logs
    <3>2. [NoSave EXCEPT !.pc = "take"] \in Saves'
      BY <1>e, <3>1 DEF NoSave, Saves
    <3>3. save \in [Procs -> Saves']
      BY <2>1, <2>2, StillTyped
    <3> QED BY <2>1, <3>2, <3>3
  <2>5. file' \in [Paths -> Logs'] /\ archived' \in SUBSET Heard'
    BY <2>1, <2>2, StillTyped
  <2>6. UNCHANGED <<named, path, turn, command, noticed, runs, stuck, stems, skipped, given, crashes>>
    BY <2>1
  <2>7. /\ named' \in BOOLEAN /\ path' \in Paths /\ noticed' \in BOOLEAN /\ runs' \in Nat
        /\ stuck' \in BOOLEAN /\ skipped' \in BOOLEAN /\ stems' \in [Paths -> SUBSET Paths]
        /\ given' \in 0..MaxCommands /\ crashes' \in 0..MaxCrashes
    BY <2>6 DEF Typed, Turns, Folds, Saves, Moves
  <2>8. /\ turn' \in Turns
        /\ command' \in Moves
    BY <2>6 DEF Typed, Turns, Folds, Saves, Moves
  <2> QED BY <2>3, <2>4, <2>5, <2>7, <2>8 DEF Typed
<1>16. ASSUME CompactFails PROVE Typed'
  <2>1. UNCHANGED <<named, log, path, file, archived, said, turn, save, command, noticed, runs, stuck,
                    home, stems, stale, skipped, given, crashes>>
    BY <1>16 DEF CompactFails
  <2>2. Heard' = Heard /\ Logs' = Logs /\ Folds' = Folds /\ Saves' = Saves
    BY <2>1, SaidSame
  <2>3. fold' \in [Folders -> Folds]
    <3>1. NoFold \in Folds
      BY <1>e DEF NoFold, Folds
    <3> QED BY <1>16, <3>1 DEF CompactFails, Typed
  <2> QED BY <2>1, <2>2, <2>3 DEF Typed
<1>17. ASSUME CompactSnapshot PROVE Typed'
  <2>1. UNCHANGED <<named, log, path, file, archived, said, turn, fold, command, noticed, runs, stuck,
                    home, stems, stale, skipped, given, crashes>>
    BY <1>17 DEF CompactSnapshot
  <2>2. Heard' = Heard /\ Logs' = Logs /\ Folds' = Folds /\ Saves' = Saves
    BY <2>1, SaidSame
  <2>3. save' \in [Procs -> Saves]
    <3>1. save' = [save EXCEPT !["compact"] = IF Worth(log) THEN TakeSnapshot ELSE NoSave]
      BY <1>17 DEF CompactSnapshot
    <3>2. TakeSnapshot \in Saves /\ NoSave \in Saves
      BY <1>e DEF TakeSnapshot, NoSave, Saves, Typed
    <3> QED BY <3>1, <3>2 DEF Typed
  <2> QED BY <2>1, <2>2, <2>3 DEF Typed
<1>18. ASSUME CompactSaved PROVE Typed'
  <2>1. UNCHANGED <<named, log, path, archived, said, turn, fold, command, noticed, runs, stuck, home,
                    stems, skipped, given, crashes>>
    BY <1>18 DEF CompactSaved
  <2>2. Heard' = Heard /\ Logs' = Logs /\ Folds' = Folds /\ Saves' = Saves
    BY <2>1, SaidSame
  <2>3. file' \in [Paths -> Logs]
    BY <1>18 DEF CompactSaved, Write, Typed, Saves
  <2>4. save' \in [Procs -> Saves]
    <3>1. NoSave \in Saves
      BY <1>e DEF NoSave, Saves
    <3> QED BY <1>18, <3>1 DEF CompactSaved, Write, Typed
  <2>5. stale' \in BOOLEAN
    BY <1>e, <1>18 DEF CompactSaved, Write, Typed
  <2> QED BY <2>1, <2>2, <2>3, <2>4, <2>5 DEF Typed
<1>19. ASSUME NEW what \in {"new", "resume", "switch", "branch"}, NEW to \in Paths, Command(what,
              to) PROVE Typed'
  <2>1. UNCHANGED <<named, log, path, file, archived, said, turn, fold, noticed, runs, stuck, home,
                    stems, stale, skipped, crashes>>
    BY <1>19 DEF Command
  <2>2. Heard' = Heard /\ Logs' = Logs /\ Folds' = Folds /\ Saves' = Saves
    BY <2>1, SaidSame
  <2>3. command' \in Moves
    BY <1>e, <1>19 DEF Command, Typed, Moves, NoCommand
  <2>4. save' \in [Procs -> Saves]
    <3>1. save' = [save EXCEPT !["command"] = IF Worth(log) THEN TakeSnapshot ELSE NoSave]
      BY <1>19 DEF Command
    <3>2. TakeSnapshot \in Saves /\ NoSave \in Saves
      BY <1>e DEF TakeSnapshot, NoSave, Saves, Typed
    <3> QED BY <3>1, <3>2 DEF Typed
  <2>5. given' \in 0..MaxCommands
    BY <1>e, <1>19 DEF Command, Typed
  <2> QED BY <2>1, <2>2, <2>3, <2>4, <2>5 DEF Typed
<1>20. ASSUME CommandSaved PROVE Typed'
  <2>1. UNCHANGED <<named, log, path, archived, said, turn, fold, command, noticed, runs, stuck, home,
                    stems, skipped, given, crashes>>
    BY <1>20 DEF CommandSaved
  <2>2. Heard' = Heard /\ Logs' = Logs /\ Folds' = Folds /\ Saves' = Saves
    BY <2>1, SaidSame
  <2>3. file' \in [Paths -> Logs]
    BY <1>20 DEF CommandSaved, Write, Typed, Saves
  <2>4. save' \in [Procs -> Saves]
    <3>1. NoSave \in Saves
      BY <1>e DEF NoSave, Saves
    <3> QED BY <1>20, <3>1 DEF CommandSaved, Write, Typed
  <2>5. stale' \in BOOLEAN
    BY <1>e, <1>20 DEF CommandSaved, Write, Typed
  <2> QED BY <2>1, <2>2, <2>3, <2>4, <2>5 DEF Typed
<1>21. ASSUME NewPath PROVE Typed'
  <2>1. UNCHANGED <<named, log, file, archived, said, turn, fold, save, noticed, runs, stuck, home,
                    stems, stale, skipped, given, crashes>>
    BY <1>21 DEF NewPath
  <2>2. Heard' = Heard /\ Logs' = Logs /\ Folds' = Folds /\ Saves' = Saves
    BY <2>1, SaidSame
  <2>3. path' \in Paths
    BY <1>e, <1>21 DEF NewPath, Typed, Moves
  <2>4. command' \in Moves
    BY <1>e, <1>21 DEF NewPath, Typed, Moves, NoCommand
  <2> QED BY <2>1, <2>2, <2>3, <2>4 DEF Typed
<1>22. ASSUME NewLog PROVE Typed'
  <2>1. /\ log' = <<>> /\ command'.pc \in {"idle", "half"}
        /\ command'.what \in {"new", command.what} /\ command'.to \in {1, command.to}
        /\ command' \in Moves
        /\ skipped' \in BOOLEAN
        /\ UNCHANGED <<named, path, file, archived, said, turn, save, latch, home, stems, stale,
                       counted>>
    BY <1>22, <1>e DEF NewLog, SetSession, NoCommand, Typed, Turns, Folds, Saves, Moves
  <2>2. Heard' = Heard /\ Logs' = Logs /\ Folds' = Folds /\ Saves' = Saves
    BY <2>1, SaidSame
  <2>3. fold' \in [Folders -> Folds']
    <3>1. fold' = [w \in DOMAIN fold |-> [fold[w] EXCEPT !.lost = (fold[w].pc = "fold")]]
      BY <1>22 DEF NewLog, SetSession
    <3>2. fold \in [Folders -> Folds]
      BY DEF Typed, Turns, Folds, Saves, Moves
    <3>3. ASSUME NEW w \in Folders
          PROVE  [fold[w] EXCEPT !.lost = (fold[w].pc = "fold")]
                    \in Folds
      <4> DEFINE put == (fold[w].pc = "fold")
      <4>1. put \in BOOLEAN
        OBVIOUS
      <4> HIDE DEF put
      <4>2. [fold[w] EXCEPT !.lost = put] \in Folds
        BY <3>2, <4>1 DEF Folds
      <4> QED BY <4>2 DEF put
    <3> QED BY <2>2, <3>1, <3>2, <3>3
  <2>4. log' \in Logs'
    BY <1>e, <2>1, <2>2 DEF Typed, Turns, Folds, Saves, Moves
  <2> QED BY <2>1, <2>2, <2>3, <2>4 DEF Typed
<1>23. ASSUME LoadLog PROVE Typed'
  <2>1. /\ log' = file[command.to] /\ command'.pc \in {"idle", "half"}
        /\ command'.what \in {"new", command.what} /\ command'.to \in {1, command.to}
        /\ command' \in Moves
        /\ skipped' \in BOOLEAN
        /\ UNCHANGED <<named, path, file, archived, said, turn, save, latch, home, stems, stale,
                       counted>>
    BY <1>23, <1>e DEF LoadLog, SetSession, NoCommand, Typed, Turns, Folds, Saves, Moves
  <2>2. Heard' = Heard /\ Logs' = Logs /\ Folds' = Folds /\ Saves' = Saves
    BY <2>1, SaidSame
  <2>3. fold' \in [Folders -> Folds']
    <3>1. fold' = [w \in DOMAIN fold |-> [fold[w] EXCEPT !.lost = (fold[w].pc = "fold")]]
      BY <1>23 DEF LoadLog, SetSession
    <3>2. fold \in [Folders -> Folds]
      BY DEF Typed, Turns, Folds, Saves, Moves
    <3>3. ASSUME NEW w \in Folders
          PROVE  [fold[w] EXCEPT !.lost = (fold[w].pc = "fold")]
                    \in Folds
      <4> DEFINE put == (fold[w].pc = "fold")
      <4>1. put \in BOOLEAN
        OBVIOUS
      <4> HIDE DEF put
      <4>2. [fold[w] EXCEPT !.lost = put] \in Folds
        BY <3>2, <4>1 DEF Folds
      <4> QED BY <4>2 DEF put
    <3> QED BY <2>2, <3>1, <3>2, <3>3
  <2>4. log' \in Logs'
    BY <1>e, <2>1, <2>2 DEF Typed, Turns, Folds, Saves, Moves
  <2> QED BY <2>1, <2>2, <2>3, <2>4 DEF Typed
<1>24. ASSUME BranchLog PROVE Typed'
  <2>1. UNCHANGED <<named, log, path, archived, said, turn, fold, save, noticed, runs, stuck, home,
                    stale, skipped, given, crashes>>
    BY <1>24 DEF BranchLog
  <2>2. Heard' = Heard /\ Logs' = Logs /\ Folds' = Folds /\ Saves' = Saves
    BY <2>1, SaidSame
  <2>3. file' \in [Paths -> Logs]
    BY <1>e, <1>24 DEF BranchLog, Typed
  <2>4. stems' \in [Paths -> SUBSET Paths]
    BY <1>e, <1>24 DEF BranchLog, Typed, Moves
  <2>5. command' \in Moves
    BY <1>e, <1>24 DEF BranchLog, Typed, Moves, NoCommand
  <2> QED BY <2>1, <2>2, <2>3, <2>4, <2>5 DEF Typed
<1>25. ASSUME MovePath PROVE Typed'
  <2>1. UNCHANGED <<named, log, file, archived, said, turn, fold, save, noticed, runs, stuck, home,
                    stems, stale, given, crashes>>
    BY <1>25 DEF MovePath
  <2>2. Heard' = Heard /\ Logs' = Logs /\ Folds' = Folds /\ Saves' = Saves
    BY <2>1, SaidSame
  <2>3. path' \in Paths
    BY <1>e, <1>25 DEF MovePath, Typed, Moves
  <2>4. command' \in Moves
    BY <1>e, <1>25 DEF MovePath, Typed, Moves, NoCommand
  <2>5. skipped' \in BOOLEAN
    BY <1>e, <1>25 DEF MovePath, Typed
  <2> QED BY <2>1, <2>2, <2>3, <2>4, <2>5 DEF Typed
<1>26. ASSUME NEW to \in Paths, Crash(to) PROVE Typed'
  <2>1. /\ crashes' \in 0..MaxCrashes /\ log' = file[to] /\ path' = to
        /\ turn' = Resting /\ command' = NoCommand
        /\ fold' = [w \in Folders |-> NoFold] /\ save' = [w \in Procs |-> NoSave]
        /\ noticed' = FALSE /\ runs' = 0 /\ stuck' = FALSE /\ skipped' = FALSE
        /\ UNCHANGED <<named, file, archived, said, home, stems, stale, given>>
    BY <1>26 DEF Crash, Typed, Turns, Folds, Saves, Moves
  <2>2. Heard' = Heard /\ Logs' = Logs /\ Folds' = Folds /\ Saves' = Saves
    BY <2>1, SaidSame
  <2>3. fold' \in [Folders -> Folds']
        /\ save' \in [Procs -> Saves']
    BY <1>e, <2>1, <2>2 DEF NoFold, NoSave, Turns, Folds, Saves, Moves
  <2>4. turn' \in Turns
        /\ command' \in Moves
    BY <1>e, <2>1 DEF Resting, NoCommand, Turns, Folds, Saves, Moves
  <2> QED BY <2>1, <2>2, <2>3, <2>4 DEF Typed
<1>27. CASE UNCHANGED vars
  <2>1. said' = said
    BY <1>27 DEF vars
  <2> QED BY <1>27, <2>1, SaidSame DEF Typed, vars, Turns, Folds, Saves, Moves
<1> QED BY <1>1, <1>2, <1>3, <1>4, <1>5, <1>6, <1>7, <1>8, <1>9, <1>10, <1>11, <1>12, <1>13, <1>14,
           <1>15, <1>16, <1>17, <1>18, <1>19, <1>20, <1>21, <1>22, <1>23, <1>24, <1>25, <1>26,
               <1>27 DEF Next, Turning, Compacting, Moving


-----------------------------------------------------------------------------
(* Phases, cuts and what the frontend holds back: one step for each action *)

LEMMA PhasesStep == IInv /\ Typed' /\ [Next]_vars => Phases'
<1> SUFFICES ASSUME Typed, Phases, Cut, Alone, Typed', [Next]_vars PROVE Phases'
  BY DEF IInv
<1> USE SessionLogAssumption DEF latch, history, counted, Procs, Folders
<1>s. /\ said \in Nat /\ runs \in Nat /\ stuck \in BOOLEAN /\ Width \in Nat \ {0}
      /\ turn.pc \in {"idle", "prompt", "ask", "refused", "tools", "room", "fold", "end", "save"}
      /\ turn.first \in Nat /\ turn.calls \in Nat /\ turn.results \in Nat
      /\ \A w \in Folders : fold[w].pc \in {"none", "fold"}
  BY DEF Typed, Turns, Folds, Saves, Moves
<1>1. ASSUME StartTurn PROVE Phases'
  BY <1>1 DEF Typed, Phases, StartTurn, Turns, Folds, Saves, Moves
<1>2. ASSUME Prompt PROVE Phases'
  <2>1. /\ turn.pc = "prompt" /\ turn'.pc = "ask" /\ turn'.first = turn.first /\ turn'.calls = turn.calls
        /\ turn'.results = turn.results /\ said' = said + 1
        /\ UNCHANGED <<fold, save, command, runs, stuck>>
    BY <1>2 DEF Prompt, Speak, Say, Typed, Turns, Folds, Saves, Moves
  <2> QED BY <1>s, <2>1 DEF Phases
<1>3. ASSUME Answer PROVE Phases'
  <2>1. /\ turn.pc = "ask" /\ turn'.pc \in {"end", "refused"}
        /\ turn'.first = turn.first /\ turn'.calls = turn.calls
        /\ turn'.results = turn.results /\ said' = said + 1
        /\ UNCHANGED <<fold, save, command, runs, stuck>>
    BY <1>3 DEF Answer, Speak, Say, Typed, Turns, Folds, Saves, Moves
  <2> QED BY <1>s, <2>1 DEF Phases
<1>4. ASSUME Refusal PROVE Phases'
  <2>1. /\ turn.pc = "refused" /\ turn'.pc = "room" /\ turn'.first = turn.first /\ turn'.calls = turn.calls
        /\ turn'.results = turn.results /\ said' = said + 1
        /\ UNCHANGED <<fold, save, command, runs, stuck>>
    BY <1>4 DEF Refusal, Speak, Say, Typed, Turns, Folds, Saves, Moves
  <2> QED BY <1>s, <2>1 DEF Phases
<1>5. ASSUME Fail PROVE Phases'
  BY <1>5 DEF Typed, Phases, Fail, Turns, Folds, Saves, Moves
<1>6. ASSUME CallTools PROVE Phases'
  <2>1. /\ turn.pc = "ask" /\ turn'.pc = "tools" /\ turn'.first = turn.first /\ turn'.calls = said + 1
        /\ turn'.results = 0 /\ said' = said + 1 /\ UNCHANGED <<fold, save, command, runs, stuck>>
    BY <1>6 DEF CallTools, Say, Typed, Turns, Folds, Saves, Moves
  <2> QED BY <1>s, <2>1 DEF Phases
<1>7. ASSUME AddResult PROVE Phases'
  <2>1. /\ turn.pc = "tools" /\ turn'.pc = (IF turn.results + 1 = Width THEN "room" ELSE "tools")
        /\ turn'.first = turn.first /\ turn'.calls = turn.calls /\ turn'.results = turn.results + 1
        /\ UNCHANGED <<said, fold, save, command, runs, stuck>>
    BY <1>7 DEF AddResult, Typed, Turns, Folds, Saves, Moves
  <2> QED BY <1>s, <2>1 DEF Phases
<1>8. ASSUME StayUnder PROVE Phases'
  <2>1. /\ turn.pc = "room" /\ turn'.pc = "ask" /\ turn'.first = turn.first /\ turn'.calls = turn.calls
        /\ turn'.results = turn.results /\ UNCHANGED <<said, fold, save, command>>
    BY <1>8 DEF StayUnder, Typed, Turns, Folds, Saves, Moves
  <2>2. (runs' = runs /\ stuck' = stuck) \/ (runs' = 0 /\ stuck' = FALSE)
    BY <1>8 DEF StayUnder
  <2>3. runs' <= 2 /\ (stuck' <=> runs' = 2)
    BY <1>s, <2>2 DEF Phases
  <2> QED BY <1>s, <2>1, <2>3 DEF Phases
<1>9. ASSUME Over PROVE Phases'
  <2>1. /\ turn.pc = "room" /\ turn'.first = turn.first /\ turn'.calls = turn.calls
        /\ turn'.results = turn.results /\ UNCHANGED <<said, save, command>>
    BY <1>9 DEF Over, Typed, Turns, Folds, Saves, Moves
  <2>2. \/ turn'.pc = "ask" /\ fold' = fold
        \/ /\ turn'.pc = "fold" /\ fold'["turn"].pc = "fold" /\ fold'["compact"] = fold["compact"]
           /\ ~stuck
    <3>1. CASE turn' = [turn EXCEPT !.pc = "ask"] /\ UNCHANGED <<fold, archived>>
      BY <3>1 DEF Typed, Turns, Folds, Saves, Moves
    <3>2. CASE ~stuck /\ turn' = [turn EXCEPT !.pc = "fold"] /\ \E cut \in Cuts(log) : BeginFold("turn", cut)
      <4>1. PICK cut \in Cuts(log) : fold' = [fold EXCEPT !["turn"] = [NoFold EXCEPT !.pc = "fold", !.base = log, !.cut = cut]]
        BY <3>2 DEF BeginFold
      <4>2. fold'["turn"].pc = "fold" /\ fold'["compact"] = fold["compact"]
        BY <4>1 DEF NoFold, Typed, Turns, Folds, Saves, Moves
      <4> QED BY <3>2, <4>2 DEF Typed, Turns, Folds, Saves, Moves
    <3> QED BY <1>9, <3>1, <3>2 DEF Over
  <2>3. runs' <= 2 /\ (stuck' <=> runs' = 2) /\ (turn'.pc = "fold" => ~stuck')
    <3>1. CASE turn'.pc = "ask"
      <4>1. (runs' = runs /\ stuck' = stuck) \/ (~stuck /\ runs' = runs + 1 /\ (stuck' <=> runs + 1 >= 2))
        BY <1>9, <3>1, <2>1, <1>s DEF Over, CountPass
      <4> QED BY <1>s, <3>1, <4>1 DEF Phases
    <3>2. CASE turn'.pc # "ask"
      <4>1. runs' = runs /\ stuck' = stuck /\ ~stuck
        BY <1>9, <3>2, <1>s DEF Over, Typed, Turns, Folds, Saves, Moves
      <4> QED BY <1>s, <4>1 DEF Phases
    <3> QED BY <3>1, <3>2
  <2> QED BY <1>s, <2>1, <2>2, <2>3 DEF Phases
<1>10. ASSUME AutoFold PROVE Phases'
  <2>1. /\ turn.pc = "fold" /\ turn'.pc = "ask" /\ turn'.first = turn.first /\ turn'.calls = turn.calls
        /\ turn'.results = turn.results /\ said' = said + 1 /\ UNCHANGED <<save, command>>
        /\ fold'["turn"].pc = "none" /\ fold'["compact"] = fold["compact"]
        /\ runs' = runs + 1 /\ (stuck' <=> runs + 1 >= 2)
    BY <1>10 DEF AutoFold, EndFold, NoFold, CountPass, Typed, Turns, Folds, Saves, Moves
  <2> QED BY <1>s, <2>1 DEF Phases
<1>11. ASSUME AutoFoldFails PROVE Phases'
  BY <1>11 DEF Typed, Phases, AutoFoldFails, NoFold, Turns, Folds, Saves, Moves
<1>12. ASSUME EndTurn PROVE Phases'
  <2>1. /\ turn.pc = "end" /\ UNCHANGED <<said, fold, command, runs, stuck>>
        /\ \/ /\ turn'.pc = "save" /\ turn'.first = turn.first /\ save'["turn"].pc = "write"
              /\ save'["compact"] = save["compact"] /\ save'["command"] = save["command"]
           \/ turn'.pc = "idle" /\ save' = save
    <3>1. CASE Len(log) > turn.start
      <4>1. save' = [save EXCEPT !["turn"] = TakeSnapshot] /\ turn' = [turn EXCEPT !.pc = "save"]
        BY <1>12, <3>1 DEF EndTurn
      <4>2. TakeSnapshot.pc = "write"
        BY DEF TakeSnapshot
      <4>3. turn.pc = "end" /\ UNCHANGED <<said, fold, command, runs, stuck>>
        BY <1>12 DEF EndTurn
      <4> QED BY <4>1, <4>2, <4>3 DEF Typed, Turns, Folds, Saves, Moves
    <3>2. CASE ~(Len(log) > turn.start)
      BY <1>12, <3>2 DEF EndTurn, Resting
    <3> QED BY <3>1, <3>2
  <2> QED BY <1>s, <2>1 DEF Phases
<1>13. ASSUME TurnSaved PROVE Phases'
  BY <1>13 DEF Typed, Phases, TurnSaved, Write, NoSave, Resting, Turns, Folds, Saves, Moves
<1>14. ASSUME BeginCompact PROVE Phases'
  BY <1>14 DEF Typed, Phases, BeginCompact, BeginFold, NoFold, Turns, Folds, Saves, Moves
<1>15. ASSUME Compacted PROVE Phases'
  <2>1. /\ said' = said + 1 /\ UNCHANGED <<turn, command, runs, stuck>>
        /\ fold'["compact"].pc = "none" /\ fold'["turn"] = fold["turn"]
        /\ save'["turn"] = save["turn"] /\ save'["command"] = save["command"]
    BY <1>15 DEF Compacted, EndFold, NoFold, Typed, Turns, Folds, Saves, Moves
  <2> QED BY <1>s, <2>1 DEF Phases
<1>16. ASSUME CompactFails PROVE Phases'
  BY <1>16 DEF Typed, Phases, CompactFails, NoFold, Turns, Folds, Saves, Moves
<1>17. ASSUME CompactSnapshot PROVE Phases'
  BY <1>17 DEF Typed, Phases, CompactSnapshot, TakeSnapshot, NoSave, Turns, Folds, Saves, Moves
<1>18. ASSUME CompactSaved PROVE Phases'
  BY <1>18 DEF Typed, Phases, CompactSaved, Write, NoSave, Turns, Folds, Saves, Moves
<1>19. ASSUME NEW what \in {"new", "resume", "switch", "branch"}, NEW to \in Paths, Command(what,
              to) PROVE Phases'
  BY <1>19 DEF Typed, Phases, Command, TakeSnapshot, NoSave, Turns, Folds, Saves, Moves
<1>20. ASSUME CommandSaved PROVE Phases'
  BY <1>20 DEF Typed, Phases, CommandSaved, Write, NoSave, Turns, Folds, Saves, Moves
<1>21. ASSUME NewPath PROVE Phases'
  BY <1>21 DEF Typed, Phases, NewPath, Turns, Folds, Saves, Moves
<1>22. ASSUME NewLog PROVE Phases'
  BY <1>22 DEF Typed, Phases, NewLog, SetSession, NoCommand, Turns, Folds, Saves, Moves
<1>23. ASSUME LoadLog PROVE Phases'
  BY <1>23 DEF Typed, Phases, LoadLog, SetSession, Turns, Folds, Saves, Moves
<1>24. ASSUME BranchLog PROVE Phases'
  BY <1>24 DEF Typed, Phases, BranchLog, Turns, Folds, Saves, Moves
<1>25. ASSUME MovePath PROVE Phases'
  BY <1>25 DEF Typed, Phases, MovePath, NoCommand, Turns, Folds, Saves, Moves
<1>26. ASSUME NEW to \in Paths, Crash(to) PROVE Phases'
  BY <1>26 DEF Typed, Phases, Crash, Resting, NoCommand, NoFold, NoSave, Turns, Folds, Saves, Moves
<1>27. CASE UNCHANGED vars
  BY <1>27 DEF Phases, vars
<1> QED BY <1>1, <1>2, <1>3, <1>4, <1>5, <1>6, <1>7, <1>8, <1>9, <1>10, <1>11, <1>12, <1>13, <1>14,
           <1>15, <1>16, <1>17, <1>18, <1>19, <1>20, <1>21, <1>22, <1>23, <1>24, <1>25, <1>26,
               <1>27 DEF Next, Turning, Compacting, Moving


\* A compaction begins with a cut in front of an exchange and with its region archived.
LEMMA BeginFoldCut ==
    ASSUME Typed, Cut, NEW w \in Folders, NEW cut \in Cuts(log), BeginFold(w, cut)
    PROVE  Cut'
<1>1. fold' = [fold EXCEPT ![w] = [NoFold EXCEPT !.pc = "fold", !.base = log, !.cut = cut]]
      /\ archived' = archived \cup ToSet(SubSeq(log, 1, cut))
  BY DEF BeginFold
<1>2. log \in Seq(Msgs) /\ Len(log) \in Nat
  BY DEF Typed, Logs, Heard, Turns, Folds, Saves, Moves
<1>3. cut \in 1..Len(log) /\ (cut < Len(log) => log[cut + 1].kind # "result")
  BY <1>2, AlignedCuts
<1>4. fold'[w].pc = "fold" /\ fold'[w].base = log /\ fold'[w].cut = cut
      /\ \A v \in Folders \ {w} : fold'[v] = fold[v]
  BY <1>1 DEF NoFold, Typed, Turns, Folds, Saves, Moves
<1>5. archived \subseteq archived' /\ ToSet(SubSeq(log, 1, cut)) \subseteq archived'
  BY <1>1
<1> SUFFICES ASSUME NEW v \in Folders
             PROVE  IF fold'[v].pc = "none" THEN fold'[v].cut = 0
                    ELSE /\ fold'[v].cut \in 1..Len(fold'[v].base)
                         /\ fold'[v].cut < Len(fold'[v].base) =>
                               fold'[v].base[fold'[v].cut + 1].kind # "result"
                         /\ ToSet(SubSeq(fold'[v].base, 1, fold'[v].cut)) \subseteq archived'
  BY DEF Cut
<1>6. CASE v = w
  BY <1>3, <1>4, <1>5, <1>6
<1>7. CASE v # w
  BY <1>4, <1>5, <1>7 DEF Cut
<1> QED BY <1>6, <1>7

LEMMA CutStep == IInv /\ Typed' /\ [Next]_vars => Cut'
<1> SUFFICES ASSUME Typed, Phases, Cut, Alone, Typed', [Next]_vars PROVE Cut'
  BY DEF IInv
<1> USE SessionLogAssumption DEF latch, history, counted, Procs, Folders
<1>1. ASSUME StartTurn PROVE Cut'
  <2>1. fold' = fold /\ archived' = archived
    BY <1>1 DEF StartTurn
  <2> QED BY <2>1 DEF Cut
<1>2. ASSUME Prompt PROVE Cut'
  <2>1. fold' = fold /\ archived' = archived
    BY <1>2 DEF Prompt, Speak
  <2> QED BY <2>1 DEF Cut
<1>3. ASSUME Answer PROVE Cut'
  <2>1. fold' = fold /\ archived' = archived
    BY <1>3 DEF Answer, Speak
  <2> QED BY <2>1 DEF Cut
<1>4. ASSUME Refusal PROVE Cut'
  <2>1. fold' = fold /\ archived' = archived
    BY <1>4 DEF Refusal, Speak
  <2> QED BY <2>1 DEF Cut
<1>5. ASSUME Fail PROVE Cut'
  <2>1. fold' = fold /\ archived' = archived
    BY <1>5 DEF Fail
  <2> QED BY <2>1 DEF Cut
<1>6. ASSUME CallTools PROVE Cut'
  <2>1. fold' = fold /\ archived' = archived
    BY <1>6 DEF CallTools
  <2> QED BY <2>1 DEF Cut
<1>7. ASSUME AddResult PROVE Cut'
  <2>1. fold' = fold /\ archived' = archived
    BY <1>7 DEF AddResult
  <2> QED BY <2>1 DEF Cut
<1>8. ASSUME StayUnder PROVE Cut'
  <2>1. fold' = fold /\ archived' = archived
    BY <1>8 DEF StayUnder
  <2> QED BY <2>1 DEF Cut
<1>9. ASSUME Over PROVE Cut'
  <2>1. CASE UNCHANGED <<fold, archived>>
    BY <2>1 DEF Cut
  <2>2. CASE \E cut \in Cuts(log) : BeginFold("turn", cut)
    BY <2>2, BeginFoldCut
  <2> QED BY <1>9, <2>1, <2>2 DEF Over
<1>10. ASSUME AutoFold PROVE Cut'
  <2>1. /\ archived' = archived /\ fold'["turn"] = NoFold /\ fold'["compact"] = fold["compact"]
    BY <1>10 DEF AutoFold, EndFold, Typed, Turns, Folds, Saves, Moves
  <2> QED BY <2>1 DEF Cut, NoFold
<1>11. ASSUME AutoFoldFails PROVE Cut'
  BY <1>11 DEF Typed, Cut, AutoFoldFails, NoFold, Turns, Folds, Saves, Moves
<1>12. ASSUME EndTurn PROVE Cut'
  <2>1. fold' = fold /\ archived' = archived
    BY <1>12 DEF EndTurn
  <2> QED BY <2>1 DEF Cut
<1>13. ASSUME TurnSaved PROVE Cut'
  <2>1. fold' = fold /\ archived' = archived
    BY <1>13 DEF TurnSaved
  <2> QED BY <2>1 DEF Cut
<1>14. ASSUME BeginCompact PROVE Cut'
  BY <1>14, BeginFoldCut DEF BeginCompact
<1>15. ASSUME Compacted PROVE Cut'
  <2>1. /\ archived' = archived /\ fold'["compact"] = NoFold /\ fold'["turn"] = fold["turn"]
    BY <1>15 DEF Compacted, EndFold, Typed, Turns, Folds, Saves, Moves
  <2> QED BY <2>1 DEF Cut, NoFold
<1>16. ASSUME CompactFails PROVE Cut'
  BY <1>16 DEF Typed, Cut, CompactFails, NoFold, Turns, Folds, Saves, Moves
<1>17. ASSUME CompactSnapshot PROVE Cut'
  <2>1. fold' = fold /\ archived' = archived
    BY <1>17 DEF CompactSnapshot
  <2> QED BY <2>1 DEF Cut
<1>18. ASSUME CompactSaved PROVE Cut'
  <2>1. fold' = fold /\ archived' = archived
    BY <1>18 DEF CompactSaved
  <2> QED BY <2>1 DEF Cut
<1>19. ASSUME NEW what \in {"new", "resume", "switch", "branch"}, NEW to \in Paths, Command(what,
              to) PROVE Cut'
  <2>1. fold' = fold /\ archived' = archived
    BY <1>19 DEF Command
  <2> QED BY <2>1 DEF Cut
<1>20. ASSUME CommandSaved PROVE Cut'
  <2>1. fold' = fold /\ archived' = archived
    BY <1>20 DEF CommandSaved
  <2> QED BY <2>1 DEF Cut
<1>21. ASSUME NewPath PROVE Cut'
  <2>1. fold' = fold /\ archived' = archived
    BY <1>21 DEF NewPath
  <2> QED BY <2>1 DEF Cut
<1>22. ASSUME NewLog PROVE Cut'
  <2>1. /\ archived' = archived /\ DOMAIN fold = Folders
        /\ fold' = [w \in DOMAIN fold |-> [fold[w] EXCEPT !.lost = (fold[w].pc = "fold")]]
    BY <1>22 DEF NewLog, SetSession, Typed, Turns, Folds, Saves, Moves
  <2>2. ASSUME NEW w \in Folders
        PROVE  fold'[w].pc = fold[w].pc /\ fold'[w].base = fold[w].base /\ fold'[w].cut = fold[w].cut
    <3>1. fold[w] \in Folds
      BY DEF Typed, Turns, Folds, Saves, Moves
    <3>2. fold'[w] = [fold[w] EXCEPT !.lost = (fold[w].pc = "fold")]
      BY <2>1
    <3> QED BY <3>1, <3>2
  <2> HIDE DEF Folders
  <2>3. ASSUME NEW w \in Folders
        PROVE  IF fold'[w].pc = "none" THEN fold'[w].cut = 0
               ELSE /\ fold'[w].cut \in 1..Len(fold'[w].base)
                    /\ fold'[w].cut < Len(fold'[w].base) => fold'[w].base[fold'[w].cut + 1].kind # "result"
                    /\ ToSet(SubSeq(fold'[w].base, 1, fold'[w].cut)) \subseteq archived'
    BY <2>1, <2>2 DEF Cut
  <2> QED BY <2>3 DEF Cut
<1>23. ASSUME LoadLog PROVE Cut'
  <2>1. /\ archived' = archived /\ DOMAIN fold = Folders
        /\ fold' = [w \in DOMAIN fold |-> [fold[w] EXCEPT !.lost = (fold[w].pc = "fold")]]
    BY <1>23 DEF LoadLog, SetSession, Typed, Turns, Folds, Saves, Moves
  <2>2. ASSUME NEW w \in Folders
        PROVE  fold'[w].pc = fold[w].pc /\ fold'[w].base = fold[w].base /\ fold'[w].cut = fold[w].cut
    <3>1. fold[w] \in Folds
      BY DEF Typed, Turns, Folds, Saves, Moves
    <3>2. fold'[w] = [fold[w] EXCEPT !.lost = (fold[w].pc = "fold")]
      BY <2>1
    <3> QED BY <3>1, <3>2
  <2> HIDE DEF Folders
  <2>3. ASSUME NEW w \in Folders
        PROVE  IF fold'[w].pc = "none" THEN fold'[w].cut = 0
               ELSE /\ fold'[w].cut \in 1..Len(fold'[w].base)
                    /\ fold'[w].cut < Len(fold'[w].base) => fold'[w].base[fold'[w].cut + 1].kind # "result"
                    /\ ToSet(SubSeq(fold'[w].base, 1, fold'[w].cut)) \subseteq archived'
    BY <2>1, <2>2 DEF Cut
  <2> QED BY <2>3 DEF Cut
<1>24. ASSUME BranchLog PROVE Cut'
  <2>1. fold' = fold /\ archived' = archived
    BY <1>24 DEF BranchLog
  <2> QED BY <2>1 DEF Cut
<1>25. ASSUME MovePath PROVE Cut'
  <2>1. fold' = fold /\ archived' = archived
    BY <1>25 DEF MovePath
  <2> QED BY <2>1 DEF Cut
<1>26. ASSUME NEW to \in Paths, Crash(to) PROVE Cut'
  <2>1. fold' = [w \in Folders |-> NoFold]
    BY <1>26 DEF Crash
  <2> QED BY <2>1 DEF Cut, NoFold
<1>27. CASE UNCHANGED vars
  BY <1>27 DEF Cut, vars
<1> QED BY <1>1, <1>2, <1>3, <1>4, <1>5, <1>6, <1>7, <1>8, <1>9, <1>10, <1>11, <1>12, <1>13, <1>14,
           <1>15, <1>16, <1>17, <1>18, <1>19, <1>20, <1>21, <1>22, <1>23, <1>24, <1>25, <1>26,
               <1>27 DEF Next, Turning, Compacting, Moving


LEMMA AloneStep == IInv /\ Typed' /\ [Next]_vars => Alone'
<1> SUFFICES ASSUME Typed, Phases, Cut, Alone, Typed', [Next]_vars PROVE Alone'
  BY DEF IInv
<1> USE SessionLogAssumption DEF latch, history, counted, Procs, Folders
<1>1. ASSUME StartTurn PROVE Alone'
  <2>1. /\ UNCHANGED <<save, fold, command, path>> /\ (Held => command.pc = "idle")
    BY <1>1 DEF StartTurn, Free
  <2> QED BY <2>1 DEF Alone
<1>2. ASSUME Prompt PROVE Alone'
  BY <1>2 DEF Typed, Alone, Prompt, Speak, Say, Turns, Folds, Saves, Moves
<1>3. ASSUME Answer PROVE Alone'
  BY <1>3 DEF Typed, Alone, Answer, Speak, Say, Turns, Folds, Saves, Moves
<1>4. ASSUME Refusal PROVE Alone'
  BY <1>4 DEF Typed, Alone, Refusal, Speak, Say, Turns, Folds, Saves, Moves
<1>5. ASSUME Fail PROVE Alone'
  BY <1>5 DEF Typed, Alone, Fail, Turns, Folds, Saves, Moves
<1>6. ASSUME CallTools PROVE Alone'
  BY <1>6 DEF Typed, Alone, CallTools, Say, Turns, Folds, Saves, Moves
<1>7. ASSUME AddResult PROVE Alone'
  BY <1>7 DEF Typed, Alone, AddResult, Turns, Folds, Saves, Moves
<1>8. ASSUME StayUnder PROVE Alone'
  BY <1>8 DEF Typed, Alone, StayUnder, Turns, Folds, Saves, Moves
<1>9. ASSUME Over PROVE Alone'
  BY <1>9 DEF Typed, Alone, Over, BeginFold, NoFold, CountPass, Turns, Folds, Saves, Moves
<1>10. ASSUME AutoFold PROVE Alone'
  BY <1>10 DEF Typed, Alone, AutoFold, EndFold, NoFold, CountPass, Turns, Folds, Saves, Moves
<1>11. ASSUME AutoFoldFails PROVE Alone'
  BY <1>11 DEF Typed, Alone, AutoFoldFails, NoFold, Turns, Folds, Saves, Moves
<1>12. ASSUME EndTurn PROVE Alone'
  <2>1. /\ UNCHANGED <<fold, command, path>> /\ turn.pc # "idle" /\ save'["compact"] = save["compact"]
        /\ save'["command"] = save["command"]
        /\ save'["turn"] = save["turn"] \/ save'["turn"] = TakeSnapshot
    BY <1>12 DEF EndTurn, Typed, Turns, Folds, Saves, Moves
  <2>2. TakeSnapshot.to = path
    BY DEF TakeSnapshot
  <2> QED BY <2>1, <2>2 DEF Alone
<1>13. ASSUME TurnSaved PROVE Alone'
  BY <1>13 DEF Typed, Alone, TurnSaved, Write, NoSave, Resting, Turns, Folds, Saves, Moves
<1>14. ASSUME BeginCompact PROVE Alone'
  <2>1. /\ UNCHANGED <<save, turn, command, path>> /\ (Held => command.pc = "idle")
    BY <1>14 DEF BeginCompact, Free
  <2> QED BY <2>1 DEF Alone
<1>15. ASSUME Compacted PROVE Alone'
  BY <1>15 DEF Typed, Alone, Compacted, EndFold, NoFold, NoSave, Turns, Folds, Saves, Moves
<1>16. ASSUME CompactFails PROVE Alone'
  BY <1>16 DEF Typed, Alone, CompactFails, NoFold, Turns, Folds, Saves, Moves
<1>17. ASSUME CompactSnapshot PROVE Alone'
  <2>1. /\ UNCHANGED <<fold, turn, command, path>> /\ (Held => command.pc = "idle")
    BY <1>17 DEF CompactSnapshot, Free
  <2>2. save'["turn"] = save["turn"] /\ save'["command"] = save["command"]
        /\ (save'["compact"].pc = "write" => save'["compact"].to = path)
    <3>1. \E s \in {TakeSnapshot, NoSave} : save' = [save EXCEPT !["compact"] = s]
      BY <1>17 DEF CompactSnapshot
    <3>2. TakeSnapshot.to = path /\ NoSave.pc = "none"
      BY DEF TakeSnapshot, NoSave
    <3> QED BY <3>1, <3>2 DEF Typed, Turns, Folds, Saves, Moves
  <2> QED BY <2>1, <2>2 DEF Alone
<1>18. ASSUME CompactSaved PROVE Alone'
  BY <1>18 DEF Typed, Alone, CompactSaved, Write, NoSave, Turns, Folds, Saves, Moves
<1>19. ASSUME NEW what \in {"new", "resume", "switch", "branch"}, NEW to \in Paths, Command(what,
              to) PROVE Alone'
  <2>1. /\ UNCHANGED <<fold, turn, path>> /\ (Held => turn.pc = "idle" /\ save["compact"].pc # "write")
        /\ command'.pc = "saved"
        /\ \E s \in {TakeSnapshot, NoSave} : save' = [save EXCEPT !["command"] = s]
    BY <1>19 DEF Command
  <2>2. TakeSnapshot.to = path /\ NoSave.pc = "none"
    BY DEF TakeSnapshot, NoSave
  <2>3. save'["turn"] = save["turn"] /\ save'["compact"] = save["compact"]
        /\ (save'["command"].pc = "write" => save'["command"].to = path)
    BY <2>1, <2>2 DEF Typed, Turns, Folds, Saves, Moves
  <2> QED BY <2>1, <2>3 DEF Alone
<1>20. ASSUME CommandSaved PROVE Alone'
  BY <1>20 DEF Typed, Alone, CommandSaved, Write, NoSave, Turns, Folds, Saves, Moves
<1>21. ASSUME NewPath PROVE Alone'
  <2>1. /\ command.pc = "saved" /\ command'.pc = "half" /\ command'.what = "new" /\ path' = command.to
        /\ UNCHANGED <<turn, save, fold>> /\ save["command"].pc = "none"
    BY <1>21 DEF NewPath, Typed, Phases, Turns, Folds, Saves, Moves
  <2>2. Held => \A w \in Procs : save[w].pc # "write"
    BY <2>1 DEF Alone, Phases, Typed, Turns, Folds, Saves, Moves
  <2> QED BY <2>1, <2>2 DEF Alone
<1>22. ASSUME NewLog PROVE Alone'
  BY <1>22 DEF Typed, Alone, NewLog, SetSession, NoCommand, Turns, Folds, Saves, Moves
<1>23. ASSUME LoadLog PROVE Alone'
  <2>1. /\ command.pc \in {"saved", "copied"} /\ command'.pc = "half" /\ UNCHANGED <<turn, save, path>>
        /\ fold' = [w \in DOMAIN fold |-> [fold[w] EXCEPT !.lost = (fold[w].pc = "fold")]]
    BY <1>23 DEF LoadLog, SetSession, Typed, Moves
  <2>2. fold'["compact"].pc = "fold" => fold'["compact"].lost
    <3>1. fold["compact"] \in Folds /\ "compact" \in DOMAIN fold
      BY DEF Typed
    <3>2. fold'["compact"] = [fold["compact"] EXCEPT !.lost = (fold["compact"].pc = "fold")]
      BY <2>1, <3>1
    <3> QED BY <3>1, <3>2 DEF Folds
  <2>3. Held => save["compact"].pc # "write" /\ turn.pc = "idle"
    BY <2>1 DEF Alone
  <2> QED BY <2>1, <2>2, <2>3 DEF Alone
<1>24. ASSUME BranchLog PROVE Alone'
  BY <1>24 DEF Typed, Alone, BranchLog, Turns, Folds, Saves, Moves
<1>25. ASSUME MovePath PROVE Alone'
  <2>1. /\ command.pc = "half" /\ command' = NoCommand /\ path' = command.to
        /\ UNCHANGED <<turn, save, fold>> /\ save["command"].pc = "none"
    BY <1>25 DEF MovePath, Typed, Phases, Turns, Folds, Saves, Moves
  <2>2. Held => \A w \in Procs : save[w].pc # "write"
    BY <2>1 DEF Alone, Phases, Typed, Turns, Folds, Saves, Moves
  <2> QED BY <2>1, <2>2 DEF Alone, NoCommand, Typed, Turns, Folds, Saves, Moves
<1>26. ASSUME NEW to \in Paths, Crash(to) PROVE Alone'
  BY <1>26 DEF Typed, Alone, Crash, Resting, NoCommand, NoFold, NoSave, Turns, Folds, Saves, Moves
<1>27. CASE UNCHANGED vars
  BY <1>27 DEF Alone, vars
<1> QED BY <1>1, <1>2, <1>3, <1>4, <1>5, <1>6, <1>7, <1>8, <1>9, <1>10, <1>11, <1>12, <1>13, <1>14,
           <1>15, <1>16, <1>17, <1>18, <1>19, <1>20, <1>21, <1>22, <1>23, <1>24, <1>25, <1>26,
               <1>27 DEF Next, Turning, Compacting, Moving

-----------------------------------------------------------------------------
(* What becomes of a log's order, of its words and of their owner *)

LEMMA OfEmpty ==
    /\ Orderly(<<>>) /\ Words(<<>>) = {} /\ \A f : Old(<<>>, f) = {} /\ Early(<<>>, f)
    /\ \A names, h : Own(<<>>, names, h)
<1>1. ToSet(<<>>) = {} /\ DOMAIN <<>> = {}
  BY DEF ToSet
<1> QED BY <1>1 DEF Orderly, Words, Old, Early, Own

LEMMA WordsIn ==
    ASSUME NEW s, NEW f PROVE Old(s, f) \subseteq Words(s) /\ Words(s) \subseteq ToSet(s)
  BY DEF Words, Old

\* A message of the turn that runs is late and is not among the old ones.
LEMMA OfAppend ==
    ASSUME NEW s \in Seq(Msgs), NEW m \in Msgs, NEW f \in Nat, m.n >= f
    PROVE  /\ ~Early(Append(s, m), f) /\ Old(Append(s, m), f) = Old(s, f)
           /\ \A names, h : Own(s, names, h) /\ h[m.n] \in names => Own(Append(s, m), names, h)
           /\ Append(s, m) # <<>> /\ Append(s, m)[Len(Append(s, m))] = m
           /\ Orderly(s) /\ m.kind # "result" => Orderly(Append(s, m))
           /\ Orderly(s) /\ s # <<>> /\ s[Len(s)].kind \in {"calls", "result"} /\ s[Len(s)].n = m.n =>
                 Orderly(Append(s, m))
<1> DEFINE t == Append(s, m)
<1>1. /\ t \in Seq(Msgs) /\ ToSet(t) = ToSet(s) \cup {m} /\ Len(t) = Len(s) + 1 /\ t[Len(s) + 1] = m
      /\ \A i \in 1..Len(s) : t[i] = s[i]
  BY Appended
<1>2. Len(s) \in Nat /\ DOMAIN s = 1..Len(s) /\ DOMAIN t = 1..(Len(s) + 1) /\ m.n \in Nat
      /\ (s = <<>> <=> Len(s) = 0) /\ t # <<>>
  <2>1. DOMAIN t = 1..Len(t) /\ Len(s) \in Nat /\ DOMAIN s = 1..Len(s) /\ (s = <<>> <=> Len(s) = 0)
    BY <1>1, ElementsIn
  <2>2. t # <<>>
    BY <1>1, <2>1, EmptyLog
  <2>3. m.n \in Nat
    BY DEF Msgs
  <2> QED BY <1>1, <2>1, <2>2, <2>3
<1> HIDE DEF t
<1>3. ~Early(t, f)
  BY <1>1, <1>2 DEF Early
<1>4. Old(t, f) = Old(s, f)
  BY <1>1, <1>2 DEF Old, Words
<1>5. \A names, h : Own(s, names, h) /\ h[m.n] \in names => Own(t, names, h)
  BY <1>1 DEF Own
<1>6. Orderly(s) /\ m.kind # "result" => Orderly(t)
  <2> SUFFICES ASSUME Orderly(s), m.kind # "result", NEW i \in 1..(Len(s) + 1), t[i].kind = "result"
               PROVE  i > 1 /\ t[i-1].kind \in {"calls", "result"} /\ t[i-1].n = t[i].n
    BY <1>2 DEF Orderly
  <2>1. i \in 1..Len(s)
    BY <1>1, <1>2
  <2>2. i > 1 /\ s[i-1].kind \in {"calls", "result"} /\ s[i-1].n = s[i].n
    BY <1>1, <1>2, <2>1 DEF Orderly
  <2>3. i - 1 \in 1..Len(s)
    BY <1>2, <2>1, <2>2
  <2> QED BY <1>1, <2>1, <2>2, <2>3
<1>7. Orderly(s) /\ s # <<>> /\ s[Len(s)].kind \in {"calls", "result"} /\ s[Len(s)].n = m.n => Orderly(t)
  <2> SUFFICES ASSUME Orderly(s), s # <<>>, s[Len(s)].kind \in {"calls", "result"}, s[Len(s)].n = m.n,
                      NEW i \in 1..(Len(s) + 1), t[i].kind = "result"
               PROVE  i > 1 /\ t[i-1].kind \in {"calls", "result"} /\ t[i-1].n = t[i].n
    BY <1>2 DEF Orderly
  <2>1. CASE i \in 1..Len(s)
    <3>1. i > 1 /\ s[i-1].kind \in {"calls", "result"} /\ s[i-1].n = s[i].n
      BY <1>1, <1>2, <2>1 DEF Orderly
    <3>2. i - 1 \in 1..Len(s)
      BY <1>2, <2>1, <3>1
    <3> QED BY <1>1, <2>1, <3>1, <3>2
  <2>2. CASE i = Len(s) + 1
    <3>1. Len(s) \in 1..Len(s) /\ i - 1 = Len(s) /\ i > 1
      BY <1>2, <2>2
    <3>2. t[i-1] = s[Len(s)] /\ t[i] = m
      BY <1>1, <2>2, <3>1
    <3> QED BY <3>1, <3>2
  <2> QED BY <1>2, <2>1, <2>2
<1> QED BY <1>1, <1>2, <1>3, <1>4, <1>5, <1>6, <1>7 DEF t

\* So is a summary, and the rest of the log keeps its order.
LEMMA OfFold ==
    ASSUME NEW s \in Seq(Msgs), NEW m \in Msgs, m.kind = "summary", NEW f \in Nat, m.n >= f,
           NEW cut \in 1..Len(s), cut < Len(s) => s[cut + 1].kind # "result"
    PROVE  LET t == <<m>> \o SubSeq(s, cut + 1, Len(s)) IN
           /\ ~Early(t, f) /\ Words(t) \subseteq Words(s) /\ Old(t, f) \subseteq Old(s, f)
           /\ \A names, h : Own(s, names, h) /\ h[m.n] \in names => Own(t, names, h)
           /\ Orderly(s) => Orderly(t)
<1> DEFINE t == <<m>> \o SubSeq(s, cut + 1, Len(s))
<1>0. Len(s) \in Nat /\ cut \in 0..Len(s) /\ DOMAIN s = 1..Len(s) /\ m.n \in Nat
  BY DEF Msgs
<1>1. /\ t \in Seq(Msgs) /\ Len(t) = Len(s) - cut + 1
      /\ t[1] = m /\ \A i \in 2..Len(t) : t[i] = s[cut + i - 1]
      /\ m \in ToSet(t) /\ ToSet(t) \subseteq ToSet(s) \cup {m}
  BY <1>0, Folded
<1>2. DOMAIN t = 1..Len(t)
  BY <1>1
<1> HIDE DEF t
<1>3. ~Early(t, f)
  BY <1>0, <1>1 DEF Early
<1>4. Words(t) \subseteq Words(s) /\ Old(t, f) \subseteq Old(s, f)
  BY <1>0, <1>1 DEF Old, Words
<1>5. \A names, h : Own(s, names, h) /\ h[m.n] \in names => Own(t, names, h)
  BY <1>1 DEF Own
<1>6. Orderly(s) => Orderly(t)
  <2> SUFFICES ASSUME Orderly(s), NEW i \in 1..Len(t), t[i].kind = "result"
               PROVE  i > 1 /\ t[i-1].kind \in {"calls", "result"} /\ t[i-1].n = t[i].n
    BY <1>2 DEF Orderly
  <2> DEFINE j == cut + i - 1
  <2>1. i # 1 /\ i \in 2..Len(t) /\ j \in 1..Len(s) /\ t[i] = s[j]
    BY <1>0, <1>1
  <2>2. i # 2
    <3> SUFFICES ASSUME i = 2 PROVE FALSE
      OBVIOUS
    <3>1. j = cut + 1 /\ cut < Len(s)
      BY <1>0, <1>1, <2>1
    <3> QED BY <2>1, <3>1
  <2>3. i - 1 \in 2..Len(t) /\ cut + (i - 1) - 1 = j - 1
    BY <1>0, <1>1, <2>1, <2>2
  <2>4. t[i-1] = s[j-1]
    <3>1. t[i-1] = s[cut + (i - 1) - 1]
      BY <1>1, <2>3
    <3> QED BY <2>3, <3>1
  <2> HIDE DEF j
  <2>5. s[j-1].kind \in {"calls", "result"} /\ s[j-1].n = s[j].n
    BY <1>0, <2>1 DEF Orderly
  <2> QED BY <1>0, <2>1, <2>4, <2>5
<1> QED BY <1>3, <1>4, <1>5, <1>6 DEF t

\* A message is said once: the history of what was said before stays.
LEMMA OwnKept ==
    ASSUME Typed, said < MaxMessages, home' = [home EXCEPT ![said + 1] = path]
    PROVE  /\ \A s \in Logs : \A names : Own(s, names, home) => Own(s, names, home')
           /\ home'[said + 1] = path
<1>1. said \in Nat /\ MaxMessages \in Nat /\ DOMAIN home = 1..MaxMessages
  BY SessionLogAssumption DEF Typed, Turns, Folds, Saves, Moves
<1>2. ASSUME NEW m \in Heard PROVE home'[m.n] = home[m.n]
  <2>1. m.n \in 1..MaxMessages /\ m.n <= said
    BY DEF Heard, Msgs
  <2> QED BY <1>1, <2>1
<1>3. ASSUME NEW s \in Logs, NEW names, Own(s, names, home) PROVE Own(s, names, home')
  <2>1. ToSet(s) \subseteq Heard
    BY ElementsIn DEF Logs
  <2> QED BY <1>2, <1>3, <2>1 DEF Own
<1>4. home'[said + 1] = path
  BY <1>1
<1> QED BY <1>3, <1>4

\* All that has been said so far was said before the next message.
LEMMA AllEarly ==
    ASSUME said \in Nat, MaxMessages \in Nat, NEW s \in Logs
    PROVE  Early(s, said + 1) /\ Old(s, said + 1) = Words(s)
<1>1. ToSet(s) \subseteq Heard
  BY ElementsIn DEF Logs
<1>2. \A m \in Heard : m.n < said + 1
  BY DEF Heard, Msgs
<1> QED BY <1>1, <1>2 DEF Early, Old, Words
-----------------------------------------------------------------------------
(* As long as nothing is overwritten: one lemma for each kind of step *)

LEMMA Shape ==
    ASSUME Typed
    PROVE  /\ said \in Nat /\ MaxMessages \in Nat /\ path \in Paths /\ command.to \in Paths
           /\ turn.first \in Nat /\ turn.start \in Nat /\ turn.calls \in Nat
           /\ log \in Logs /\ \A p \in Paths : file[p] \in Logs
           /\ \A w \in Folders : fold[w].base \in Logs /\ fold[w].pc \in {"none", "fold"}
           /\ \A w \in Procs : save[w].what \in Logs /\ save[w].seen \in Logs
           /\ Logs \subseteq Seq(Msgs)
<1>1. Heard \subseteq Msgs
  BY DEF Heard
<1>2. Logs \subseteq Seq(Msgs)
  BY <1>1, SeqMonotonic DEF Logs
<1> QED BY <1>2, SessionLogAssumption DEF Typed, Turns, Folds, Saves, Moves

\* Steps of a turn that add nothing to the log, and compactions that begin or fail.
LEMMA QuietSafe ==
    ASSUME InOrder, ReadBefore, OneEach, Kept,
           UNCHANGED <<log, path, file, save, command, home, stems, skipped>>,
           archived \subseteq archived',
           fold'["turn"].base \in {fold["turn"].base, log, <<>>},
           fold'["compact"].base \in {fold["compact"].base, log, <<>>},
           fold'["compact"].pc = "fold" => fold'["compact"] = fold["compact"] \/ turn'.pc = "idle",
           \/ turn' = turn
           \/ /\ turn.pc # "idle" /\ turn'.pc \notin {"idle", "tools", "save"}
              /\ turn'.first = turn.first /\ turn'.start = turn.start
    PROVE  InOrder' /\ ReadBefore' /\ OneEach' /\ Kept'
<1>1. InOrder'
  BY OfEmpty DEF InOrder
<1>2. ReadBefore'
  BY DEF ReadBefore
<1>3. OneEach'
  BY DEF OneEach
<1>4. Kept'
  <2>1. OnDisk' = OnDisk
    BY DEF OnDisk
  <2> QED BY <2>1 DEF Kept
<1> QED BY <1>1, <1>2, <1>3, <1>4

\* Session.Add in a turn.
LEMMA SaySafe ==
    ASSUME Typed, Phases, Alone, Sound, InOrder, ReadBefore, OneEach, Kept,
           NEW m \in Msgs, m.n = said + 1, m.kind # "result", Say(m),
           turn.pc \notin {"idle", "save"}, turn'.pc \notin {"idle", "save"},
           turn'.pc = "tools" => m.kind = "calls" /\ turn'.calls = m.n,
           turn'.first = turn.first, turn'.start = turn.start,
           UNCHANGED <<path, file, archived, fold, save, command, stems, skipped>>
    PROVE  InOrder' /\ ReadBefore' /\ OneEach' /\ Kept'
<1>1. /\ said < MaxMessages /\ log' = Append(log, m) /\ home' = [home EXCEPT ![said + 1] = path]
  BY DEF Say
<1>2. command.pc = "idle" /\ save["command"].pc = "none" /\ turn.first <= said + 1
  BY DEF Alone, Sound, Phases
<1>3. /\ ~Early(log', turn.first) /\ Old(log', turn.first) = Old(log, turn.first)
      /\ \A names, h : Own(log, names, h) /\ h[said + 1] \in names => Own(log', names, h)
      /\ log' # <<>> /\ log'[Len(log')] = m /\ (Orderly(log) => Orderly(log'))
  BY <1>1, <1>2, Shape, OfAppend
<1>4. InOrder'
  BY <1>3 DEF InOrder
<1>5. ReadBefore'
  BY <1>3 DEF ReadBefore
<1>6. OneEach'
  <2>1. /\ \A s \in Logs : \A names : Own(s, names, home) => Own(s, names, home')
        /\ home'[said + 1] = path
    BY <1>1, OwnKept
  <2>2. path \in Paths /\ log \in Logs /\ (\A p \in Paths : file[p] \in Logs)
        /\ \A w \in Procs : save[w].what \in Logs
    BY Shape
  <2>3. Own(log', stems[path], home')
    BY <1>2, <1>3, <2>1, <2>2 DEF OneEach
  <2> QED BY <1>2, <2>1, <2>2, <2>3 DEF OneEach, Procs
<1>7. Kept'
  <2>1. OnDisk' = OnDisk
    BY DEF OnDisk
  <2> QED BY <1>2, <1>3, <2>1 DEF Kept
<1> QED BY <1>4, <1>5, <1>6, <1>7

\* The result of a call.
LEMMA AddResultSafe ==
    ASSUME Typed, Phases, Alone, Sound, InOrder, ReadBefore, OneEach, Kept, AddResult
    PROVE  InOrder' /\ ReadBefore' /\ OneEach' /\ Kept'
<1> DEFINE m == Result(turn.calls, turn.results + 1)
<1>1. /\ turn.pc = "tools" /\ log' = Append(log, m)
      /\ turn'.pc \in {"tools", "room"} /\ turn'.first = turn.first /\ turn'.start = turn.start
      /\ turn'.calls = turn.calls
      /\ UNCHANGED <<path, file, archived, fold, save, command, home, stems, skipped>>
  BY DEF AddResult, history, Typed, Turns, Folds, Saves, Moves
<1>2. m \in Msgs /\ m.n = turn.calls /\ m.kind = "result" /\ turn.first <= turn.calls
  <2>1. turn.calls \in turn.first..said /\ turn.first \in 1..(said + 1) /\ turn.results + 1 \in Nat
        /\ turn.calls \in 1..said
    BY <1>1 DEF Phases, Typed, Turns, Folds, Saves, Moves
  <2>2. m \in Heard
    BY <2>1, ResultHeard
  <2>3. m.n = turn.calls /\ m.kind = "result"
    BY DEF Result, Message
  <2> QED BY <2>1, <2>2, <2>3, Shape DEF Heard
<1> HIDE DEF m
<1>3. command.pc = "idle" /\ save["command"].pc = "none"
  BY <1>1 DEF Alone, Sound, Phases
<1>4. log # <<>> /\ log[Len(log)].kind \in {"calls",
    "result"} /\ log[Len(log)].n = turn.calls /\ Orderly(log)
  BY <1>1 DEF InOrder
<1>5. /\ ~Early(log', turn.first) /\ Old(log', turn.first) = Old(log, turn.first)
      /\ \A names, h : Own(log, names, h) /\ h[turn.calls] \in names => Own(log', names, h)
      /\ log' # <<>> /\ log'[Len(log')] = m /\ Orderly(log')
  BY <1>1, <1>2, <1>4, Shape, OfAppend
<1>6. InOrder'
  BY <1>1, <1>2, <1>5 DEF InOrder
<1>7. ReadBefore'
  BY <1>1, <1>5 DEF ReadBefore
<1>8. OneEach'
  <2>1. log[Len(log)] \in ToSet(log)
    <3>1. log \in Seq(Msgs) /\ Len(log) \in 1..Len(log)
      BY <1>4, Shape
    <3> QED BY <3>1, ElementsIn
  <2>2. home[turn.calls] \in stems[path]
    BY <1>3, <1>4, <2>1 DEF OneEach, Own
  <2>3. Own(log', stems[path], home)
    BY <1>3, <1>5, <2>2 DEF OneEach
  <2> QED BY <1>1, <1>3, <2>3 DEF OneEach
<1>9. Kept'
  <2>1. OnDisk' = OnDisk
    BY <1>1 DEF OnDisk
  <2> QED BY <1>1, <1>3, <1>5, <2>1 DEF Kept
<1> QED BY <1>6, <1>7, <1>8, <1>9

\* The end of a compaction: it has read the log as it is.
LEMMA EndFoldLog ==
    ASSUME Typed, Phases, Cut, Sound, Sound', InOrder, OneEach, NEW w \in Folders,
           fold[w].pc = "fold", EndFold(w)
    PROVE  /\ fold[w].base = log /\ ~fold[w].lost /\ fold'[w] = NoFold
           /\ \A v \in Folders \ {w} : fold'[v] = fold[v]
           /\ \A f \in 0..(said + 1) : ~Early(log', f) /\ Old(log', f) \subseteq Old(log, f)
           /\ Words(log') \subseteq Words(log) /\ Orderly(log')
           /\ \A names : Own(log, names, home) /\ path \in names => Own(log', names, home')
           /\ \A s \in Logs : \A names : Own(s, names, home) => Own(s, names, home')
<1> DEFINE m == Message("summary", said + 1)
<1>1. /\ said < MaxMessages /\ home' = [home EXCEPT ![said + 1] = path]
      /\ log' = <<m>> \o SubSeq(fold[w].base, fold[w].cut + 1, Len(fold[w].base))
      /\ fold' = [fold EXCEPT ![w] = NoFold] /\ said' = said + 1
      /\ stale' = (stale \/ log # fold[w].base \/ fold[w].lost)
  BY DEF EndFold
<1>2. fold[w].base = log /\ ~fold[w].lost
  BY <1>1 DEF Sound
<1>3. fold'[w] = NoFold /\ \A v \in Folders \ {w} : fold'[v] = fold[v]
  BY <1>1 DEF Typed, Turns, Folds, Saves, Moves
<1>4. m \in Msgs /\ m.n = said + 1 /\ m.kind = "summary"
  <2>1. said + 1 \in 1..MaxMessages
    BY <1>1, Shape
  <2> QED BY <2>1 DEF Message, Msgs, Kinds
<1> HIDE DEF m
<1> DEFINE cut == fold[w].cut
<1>5. cut \in 1..Len(log) /\ (cut < Len(log) => log[cut + 1].kind # "result")
  BY <1>2 DEF Cut
<1>6. log' = <<m>> \o SubSeq(log, cut + 1, Len(log)) /\ log \in Seq(Msgs) /\ said \in Nat /\ log \in Logs
  BY <1>1, <1>2, Shape
<1> HIDE DEF cut
<1>7. ASSUME NEW f \in 0..(said + 1)
      PROVE  /\ ~Early(log', f) /\ Old(log', f) \subseteq Old(log, f) /\ Words(log') \subseteq Words(log)
             /\ \A names, h : Own(log, names, h) /\ h[m.n] \in names => Own(log', names, h)
             /\ (Orderly(log) => Orderly(log'))
  <2>1. f \in Nat /\ m.n >= f
    BY <1>4, <1>6
  <2> QED BY <1>4, <1>5, <1>6, <2>1, OfFold
<1>8. 0 \in 0..(said + 1) /\ Orderly(log)
  BY <1>6 DEF InOrder
<1>9. /\ \A s \in Logs : \A names : Own(s, names, home) => Own(s, names, home')
      /\ home'[said + 1] = path
  BY <1>1, OwnKept
<1>10. ASSUME NEW names, Own(log, names, home), path \in names PROVE Own(log', names, home')
  <2>1. Own(log, names, home') /\ home'[m.n] \in names
    BY <1>4, <1>6, <1>9, <1>10
  <2> QED BY <1>7, <1>8, <2>1
<1>11. Words(log') \subseteq Words(log) /\ Orderly(log')
  BY <1>7, <1>8
<1> QED BY <1>2, <1>3, <1>7, <1>9, <1>10, <1>11

LEMMA AutoFoldSafe ==
    ASSUME Typed, Phases, Cut, Alone, Sound, Sound', InOrder, ReadBefore, OneEach, Kept, AutoFold
    PROVE  InOrder' /\ ReadBefore' /\ OneEach' /\ Kept'
<1>1. /\ turn.pc = "fold" /\ EndFold("turn") /\ turn'.pc = "ask" /\ turn'.first = turn.first
      /\ turn'.start = turn.start
      /\ UNCHANGED <<path, file, archived, save, command, stems, skipped>>
  BY DEF AutoFold, Typed, Turns, Folds, Saves, Moves
<1>2. fold["turn"].pc = "fold" /\ command.pc = "idle" /\ turn.first \in 0..(said + 1) /\ "turn" \in Folders
  BY <1>1 DEF Phases, Alone, Sound, Folders
<1>3. /\ fold'["turn"] = NoFold /\ \A v \in Folders \ {"turn"} : fold'[v] = fold[v]
      /\ ~Early(log', turn.first) /\ Old(log', turn.first) \subseteq Old(log, turn.first)
      /\ Words(log') \subseteq Words(log) /\ Orderly(log')
      /\ \A names : Own(log, names, home) /\ path \in names => Own(log', names, home')
      /\ \A s \in Logs : \A names : Own(s, names, home) => Own(s, names, home')
  BY <1>1, <1>2, EndFoldLog
<1>4. fold'["compact"] = fold["compact"] /\ NoFold.base = <<>>
  BY <1>3 DEF Folders, NoFold
<1>5. InOrder'
  BY <1>1, <1>3, <1>4, OfEmpty DEF InOrder
<1>6. ReadBefore'
  BY <1>1, <1>3, <1>4 DEF ReadBefore
<1>7. OneEach'
  <2>1. path \in Paths /\ log \in Logs /\ (\A p \in Paths : file[p] \in Logs)
        /\ \A v \in Procs : save[v].what \in Logs
    BY Shape
  <2>2. Own(log', stems[path], home')
    BY <1>2, <1>3, <2>1 DEF OneEach
  <2> QED BY <1>1, <1>2, <1>3, <2>1, <2>2 DEF OneEach, Procs
<1>8. Kept'
  BY <1>1, <1>2, <1>3 DEF Kept
<1> QED BY <1>5, <1>6, <1>7, <1>8

\* Nothing has been said in the turn beside it, or the log is not the one that was read.
LEMMA CompactedSafe ==
    ASSUME Typed, Phases, Cut, Alone, Sound, Sound', InOrder, ReadBefore, OneEach, Kept, Compacted
    PROVE  InOrder' /\ ReadBefore' /\ OneEach' /\ Kept'
<1>1. /\ fold["compact"].pc = "fold" /\ EndFold("compact")
      /\ save' = [save EXCEPT !["compact"] = [NoSave EXCEPT !.pc = "take"]]
      /\ UNCHANGED <<path, file, archived, turn, command, stems, skipped>>
  BY DEF Compacted
<1>2. /\ save'["turn"] = save["turn"] /\ save'["command"] = save["command"]
      /\ save'["compact"].pc = "take" /\ save'["compact"].what = <<>>
  <2>1. [NoSave EXCEPT !.pc = "take"].pc = "take" /\ [NoSave EXCEPT !.pc = "take"].what = <<>>
    BY DEF NoSave
  <2> QED BY <1>1, <2>1 DEF Typed, Procs, Turns, Folds, Saves, Moves
<1>3. /\ fold["compact"].base = log /\ ~fold["compact"].lost
      /\ fold'["compact"] = NoFold /\ \A v \in Folders \ {"compact"} : fold'[v] = fold[v]
      /\ \A f \in 0..(said + 1) : ~Early(log', f) /\ Old(log', f) \subseteq Old(log, f)
      /\ Words(log') \subseteq Words(log) /\ Orderly(log')
      /\ \A names : Own(log, names, home) /\ path \in names => Own(log', names, home')
      /\ \A s \in Logs : \A names : Own(s, names, home) => Own(s, names, home')
  <2>1. "compact" \in Folders
    BY DEF Folders
  <2> QED BY <1>1, <2>1, EndFoldLog
<1>4. fold'["turn"] = fold["turn"] /\ NoFold.base = <<>> /\ NoFold.pc = "none"
  BY <1>3 DEF Folders, NoFold
<1>5. turn.pc # "idle" =>
         /\ Early(log, turn.first) /\ ~Early(log', turn.first) /\ Old(log',
             turn.first) \subseteq Old(log, turn.first)
         /\ turn.pc # "save"
  <2>1. turn.pc # "idle" => turn.first \in 0..(said + 1)
    BY DEF Phases
  <2> QED BY <1>1, <1>3, <2>1 DEF ReadBefore
<1>6. turn.pc # "tools"
  <2> SUFFICES ASSUME turn.pc = "tools" PROVE FALSE
    OBVIOUS
  <2>1. log \in Seq(Msgs) /\ log # <<>> /\ log[Len(log)].n = turn.calls /\ turn.calls >= turn.first
    BY Shape DEF InOrder, Phases
  <2>2. Len(log) \in 1..Len(log)
    BY <2>1
  <2>3. log[Len(log)] \in ToSet(log)
    BY <2>1, <2>2, ElementsIn
  <2>4. log[Len(log)].n < turn.first
    BY <1>5, <2>3 DEF Early
  <2> QED BY <2>1, <2>4, Shape
<1>7. InOrder'
  BY <1>1, <1>2, <1>3, <1>4, <1>6, OfEmpty DEF InOrder
<1>8. ReadBefore'
  BY <1>1, <1>2, <1>3, <1>4, <1>5 DEF ReadBefore
<1>9. OneEach'
  <2>1. path \in Paths /\ log \in Logs /\ (\A p \in Paths : file[p] \in Logs)
        /\ \A v \in Procs : save[v].what \in Logs
    BY Shape
  <2>2. command.pc = "half" => command.what = "new"
    BY <1>1, <1>3 DEF Alone, Sound
  <2>3. command.pc # "half" => Own(log', stems[path], home')
    BY <1>3, <2>1 DEF OneEach
  <2> QED BY <1>1, <1>2, <1>3, <2>1, <2>2, <2>3 DEF OneEach, Procs
<1>10. Kept'
  <2>1. OnDisk' = OnDisk
    BY <1>1 DEF OnDisk
  <2> QED BY <1>1, <1>2, <1>3, <1>5, <2>1 DEF Kept
<1> QED BY <1>7, <1>8, <1>9, <1>10

\* What a snapshot takes.
LEMMA Snapshots ==
    /\ TakeSnapshot.pc = "write" /\ TakeSnapshot.to = path /\ TakeSnapshot.what = log
    /\ TakeSnapshot.seen = file[path]
    /\ NoSave.pc = "none" /\ NoSave.what = <<>>
  BY DEF TakeSnapshot, NoSave

LEMMA StartTurnSafe ==
    ASSUME Typed, Sound, InOrder, ReadBefore, OneEach, Kept, StartTurn
    PROVE  InOrder' /\ ReadBefore' /\ OneEach' /\ Kept'
<1>1. /\ turn.pc = "idle" /\ turn'.pc = "prompt" /\ turn'.start = Len(log) /\ turn'.first = said + 1
      /\ command.pc = "idle" /\ save["compact"].pc = "none" /\ save["command"].pc = "none"
      /\ UNCHANGED <<log, path, file, archived, said, fold, save, command, home, stems, skipped>>
  BY DEF StartTurn, Free, Sound, history
<1>2. /\ Early(file[path], said + 1) /\ Early(fold["compact"].base, said + 1)
      /\ Old(log, said + 1) = Words(log)
  BY Shape, AllEarly DEF Folders
<1>3. InOrder'
  BY <1>1 DEF InOrder
<1>4. ReadBefore'
  BY <1>1, <1>2, Shape DEF ReadBefore
<1>5. OneEach'
  BY <1>1 DEF OneEach
<1>6. Kept'
  <2>1. OnDisk' = OnDisk
    BY <1>1 DEF OnDisk
  <2> QED BY <1>1, <1>2, <2>1 DEF Kept
<1> QED BY <1>3, <1>4, <1>5, <1>6

LEMMA EndTurnSafe ==
    ASSUME Typed, Phases, Alone, Sound, InOrder, ReadBefore, OneEach, Kept, EndTurn
    PROVE  InOrder' /\ ReadBefore' /\ OneEach' /\ Kept'
<1>1. /\ turn.pc = "end" /\ UNCHANGED <<log, path, file, archived, said, fold, command, home, stems>>
  BY DEF EndTurn
<1>2. command.pc = "idle" /\ save["turn"].pc = "none" /\ OnDisk' = OnDisk
  BY <1>1 DEF Alone, Sound, Phases, OnDisk
<1>3. CASE Len(log) > turn.start
  <2>1. /\ turn'.pc = "save" /\ turn'.first = turn.first /\ turn'.start = turn.start /\ skipped' = skipped
        /\ save'["turn"] = TakeSnapshot /\ save'["compact"] = save["compact"] /\ save'["command"] = save["command"]
    BY <1>3 DEF EndTurn, Typed, Procs, Turns, Folds, Saves, Moves
  <2>2. ~Early(log, turn.first)
    <3>1. Len(log) \in Nat /\ turn.start \in Nat
      BY Shape DEF Logs
    <3> QED BY <1>1, <1>3, <3>1 DEF ReadBefore
  <2>3. InOrder'
    BY <1>1, <2>1, Snapshots DEF InOrder
  <2>4. ReadBefore'
    BY <1>1, <2>1, <2>2 DEF ReadBefore
  <2>5. OneEach'
    BY <1>1, <1>2, <2>1, Snapshots DEF OneEach
  <2>6. Kept'
    BY <1>1, <1>2, <2>1, Snapshots DEF Kept
  <2> QED BY <2>3, <2>4, <2>5, <2>6
<1>4. CASE ~(Len(log) > turn.start)
  <2>1. turn'.pc = "idle" /\ skipped' = TRUE /\ save' = save
    BY <1>4 DEF EndTurn, Resting
  <2>2. InOrder'
    BY <1>1, <2>1 DEF InOrder
  <2>3. ReadBefore'
    BY <2>1 DEF ReadBefore
  <2>4. OneEach'
    BY <1>1, <2>1 DEF OneEach
  <2>5. Kept'
    BY <1>1, <1>2, <2>1 DEF Kept
  <2> QED BY <2>2, <2>3, <2>4, <2>5
<1> QED BY <1>3, <1>4

\* A file is written: it is the session's own, and nobody else has written it.
LEMMA Written ==
    ASSUME Typed, Alone, Sound, Sound', InOrder, OneEach, NEW w \in Procs, save[w].pc = "write", Write(w)
    PROVE  /\ save[w].to = path /\ file[path] = save[w].seen /\ file'[path] = save[w].what
           /\ \A p \in Paths \ {path} : file'[p] = file[p]
           /\ \A v \in Procs \ {w} : save'[v] = save[v]
           /\ save'[w].pc = "none" /\ save'[w].what = <<>>
           /\ \A p \in Paths : Orderly(file'[p])
           /\ \A p \in Paths : Own(file'[p], stems[p], home)
<1>1. /\ file' = [file EXCEPT ![save[w].to] = save[w].what] /\ save' = [save EXCEPT ![w] = NoSave]
      /\ stale' = (stale \/ file[save[w].to] # save[w].seen)
  BY DEF Write
<1>2. save[w].to = path /\ path \in Paths
  BY Shape DEF Alone, Sound
<1>3. file[path] = save[w].seen
  BY <1>1, <1>2 DEF Sound
<1>4. file'[path] = save[w].what /\ \A p \in Paths \ {path} : file'[p] = file[p]
  BY <1>1, <1>2 DEF Typed, Turns, Folds, Saves, Moves
<1>5. (\A v \in Procs \ {w} : save'[v] = save[v]) /\ save'[w].pc = "none" /\ save'[w].what = <<>>
  <2>1. save'[w] = NoSave /\ \A v \in Procs \ {w} : save'[v] = save[v]
    BY <1>1 DEF Typed, Turns, Folds, Saves, Moves
  <2> QED BY <2>1, Snapshots
<1>6. Orderly(save[w].what) /\ Own(save[w].what, stems[path], home)
  BY DEF InOrder, OneEach, Procs
<1>7. \A p \in Paths : Orderly(file'[p])
  BY <1>4, <1>6 DEF InOrder
<1>8. \A p \in Paths : Own(file'[p], stems[p], home)
  BY <1>4, <1>6 DEF OneEach
<1> QED BY <1>2, <1>3, <1>4, <1>5, <1>7, <1>8

LEMMA TurnSavedSafe ==
    ASSUME Typed, Phases, Alone, Sound, Sound', InOrder, ReadBefore, OneEach, Kept, TurnSaved
    PROVE  InOrder' /\ ReadBefore' /\ OneEach' /\ Kept'
<1>1. /\ turn.pc = "save" /\ Write("turn") /\ turn'.pc = "idle" /\ skipped' = FALSE
      /\ UNCHANGED <<log, path, archived, said, fold, command, home, stems>>
  BY DEF TurnSaved, Resting
<1>2. save["turn"].pc = "write" /\ command.pc = "idle" /\ save["command"].pc = "none" /\ "turn" \in Procs
  BY <1>1 DEF Phases, Alone, Sound, Procs
<1>3. /\ save[ "turn"].what = log /\ file'[path] = log
      /\ \A v \in Procs \ {"turn"} : save'[v] = save[v]
      /\ save'["turn"].pc = "none" /\ save'["turn"].what = <<>>
      /\ \A p \in Paths : Orderly(file'[p])
      /\ \A p \in Paths : Own(file'[p], stems[p], home)
  BY <1>1, <1>2, Written DEF Kept
<1>4. save'["compact"] = save["compact"] /\ save'["command"] = save["command"]
  BY <1>3 DEF Procs
<1>5. save["compact"].pc = "write" => log # save["compact"].seen
  BY <1>1 DEF ReadBefore
<1>6. InOrder'
  BY <1>1, <1>3, <1>4, OfEmpty DEF InOrder
<1>7. ReadBefore'
  BY <1>1 DEF ReadBefore
<1>8. OneEach'
  BY <1>1, <1>2, <1>3, <1>4 DEF OneEach
<1>9. Kept'
  BY <1>1, <1>2, <1>3, <1>4, <1>5, WordsIn DEF Kept
<1> QED BY <1>6, <1>7, <1>8, <1>9

LEMMA CompactSavedSafe ==
    ASSUME Typed, Phases, Alone, Sound, Sound', InOrder, ReadBefore, OneEach, Kept, CompactSaved
    PROVE  InOrder' /\ ReadBefore' /\ OneEach' /\ Kept'
<1>1. /\ save["compact"].pc = "write" /\ Write("compact")
      /\ UNCHANGED <<log, path, archived, said, turn, fold, command, home, stems, skipped>>
  BY DEF CompactSaved
<1>2. command.pc = "idle" /\ save["command"].pc = "none" /\ fold["compact"].pc # "fold" /\ "compact" \in Procs
  BY <1>1 DEF Phases, Alone, Sound, Procs
<1>3. /\ file'[path] = save["compact"].what /\ file[path] = save["compact"].seen
      /\ \A v \in Procs \ {"compact"} : save'[v] = save[v]
      /\ save'["compact"].pc = "none" /\ save'["compact"].what = <<>>
      /\ \A p \in Paths : Orderly(file'[p])
      /\ \A p \in Paths : Own(file'[p], stems[p], home)
  BY <1>1, <1>2, Written
<1>4. save'["turn"] = save["turn"] /\ save'["command"] = save["command"]
  BY <1>3 DEF Procs
<1>5. InOrder'
  BY <1>1, <1>3, <1>4, OfEmpty DEF InOrder
<1>6. ReadBefore'
  BY <1>1, <1>2, <1>3 DEF ReadBefore
<1>7. OneEach'
  BY <1>1, <1>2, <1>3, <1>4 DEF OneEach
<1>8. Kept'
  BY <1>1, <1>2, <1>3, <1>4 DEF Kept
<1> QED BY <1>5, <1>6, <1>7, <1>8

LEMMA CommandSavedSafe ==
    ASSUME Typed, Phases, Alone, Sound, Sound', InOrder, ReadBefore, OneEach, Kept, CommandSaved
    PROVE  InOrder' /\ ReadBefore' /\ OneEach' /\ Kept'
<1>1. /\ save["command"].pc = "write" /\ Write("command")
      /\ UNCHANGED <<log, path, archived, said, turn, fold, command, home, stems, skipped>>
  BY DEF CommandSaved
<1>2. command.pc = "saved" /\ save["compact"].pc # "write" /\ turn.pc = "idle" /\ "command" \in Procs
  BY <1>1 DEF Phases, Alone, Sound, Procs
<1>3. /\ file'[path] = save["command"].what
      /\ \A v \in Procs \ {"command"} : save'[v] = save[v]
      /\ save'["command"].pc = "none" /\ save'["command"].what = <<>>
      /\ \A p \in Paths : Orderly(file'[p])
      /\ \A p \in Paths : Own(file'[p], stems[p], home)
  BY <1>1, <1>2, Written
<1>4. save'["turn"] = save["turn"] /\ save'["compact"] = save["compact"]
  BY <1>3 DEF Procs
<1>5. InOrder'
  BY <1>1, <1>3, <1>4, OfEmpty DEF InOrder
<1>6. ReadBefore'
  BY <1>1, <1>2 DEF ReadBefore
<1>7. OneEach'
  BY <1>1, <1>2, <1>3, <1>4 DEF OneEach
<1>8. Kept'
  <2>1. ToSet(file'[path]) \subseteq OnDisk'
    BY Shape DEF OnDisk
  <2>2. Words(log) \subseteq ToSet(file'[path])
    BY <1>1, <1>3 DEF Kept
  <2> QED BY <1>1, <1>2, <1>3, <1>4, <2>1, <2>2 DEF Kept
<1> QED BY <1>5, <1>6, <1>7, <1>8

LEMMA CompactSnapshotSafe ==
    ASSUME Typed, Phases, Alone, Sound, InOrder, ReadBefore, OneEach, Kept, CompactSnapshot
    PROVE  InOrder' /\ ReadBefore' /\ OneEach' /\ Kept'
<1>1. /\ save["compact"].pc = "take" /\ command.pc = "idle" /\ save["command"].pc = "none"
      /\ save' = [save EXCEPT !["compact"] = IF Worth(log) THEN TakeSnapshot ELSE NoSave]
      /\ UNCHANGED <<log, path, file, archived, said, turn, fold, command, home, stems, skipped>>
  BY DEF CompactSnapshot, Sound, Free, history
<1>2. /\ save'["turn"] = save["turn"] /\ save'["command"] = save["command"]
      /\ save'["compact"] \in {TakeSnapshot, NoSave}
  BY <1>1 DEF Typed, Procs, Turns, Folds, Saves, Moves
<1>3. /\ save'["compact"].what \in {log, <<>>} /\ save'["compact"].pc \in {"none", "write"}
      /\ save'["compact"].pc = "write" => save'["compact"].what = log /\ save'["compact"].seen = file[path]
  BY <1>2, Snapshots
<1>4. InOrder'
  BY <1>1, <1>2, <1>3, OfEmpty DEF InOrder
<1>5. ReadBefore'
  BY <1>1, <1>3 DEF ReadBefore
<1>6. OneEach'
  BY <1>1, <1>2, <1>3 DEF OneEach
<1>7. Kept'
  <2>1. Words(log) \subseteq ToSet(log) /\ Old(log, turn.first) \subseteq ToSet(log)
    BY WordsIn
  <2> QED BY <1>1, <1>2, <1>3, <2>1 DEF Kept
<1> QED BY <1>4, <1>5, <1>6, <1>7

LEMMA CommandSafe ==
    ASSUME Typed, Phases, Alone, Sound, InOrder, ReadBefore, OneEach, Kept,
           NEW what \in {"new", "resume", "switch", "branch"}, NEW to \in Paths, Command(what, to)
    PROVE  InOrder' /\ ReadBefore' /\ OneEach' /\ Kept'
<1>1. /\ turn.pc = "idle" /\ command.pc = "idle" /\ command'.pc = "saved" /\ save["compact"].pc # "write"
      /\ save' = [save EXCEPT !["command"] = IF Worth(log) THEN TakeSnapshot ELSE NoSave]
      /\ UNCHANGED <<log, path, file, archived, said, turn, fold, home, stems, skipped>>
  BY DEF Command, Sound, Free, history
<1>2. /\ save'["turn"] = save["turn"] /\ save'["compact"] = save["compact"]
      /\ save'["command"] = IF Worth(log) THEN TakeSnapshot ELSE NoSave
  BY <1>1 DEF Typed, Procs, Turns, Folds, Saves, Moves
<1>3. /\ save'["command"].what \in {log, <<>>}
      /\ save'["command"].pc = "write" => save'["command"].what = log
      /\ save'["command"].pc # "write" => log = <<>>
  BY <1>2, Snapshots DEF Worth
<1>4. InOrder'
  BY <1>1, <1>2, <1>3, OfEmpty DEF InOrder
<1>5. ReadBefore'
  BY <1>1 DEF ReadBefore
<1>6. OneEach'
  BY <1>1, <1>2, <1>3 DEF OneEach
<1>7. Kept'
  <2>1. Words(log) \subseteq ToSet(log) /\ Words(<<>>) = {}
    BY WordsIn, OfEmpty
  <2> QED BY <1>1, <1>2, <1>3, <2>1 DEF Kept
<1> QED BY <1>4, <1>5, <1>6, <1>7

LEMMA BeginFoldBase ==
    ASSUME Typed, NEW w \in Folders, \E cut \in Cuts(log) : BeginFold(w, cut)
    PROVE  /\ fold'[w].base = log /\ \A v \in Folders \ {w} : fold'[v] = fold[v]
           /\ archived \subseteq archived'
<1>1. PICK cut \in Cuts(log) :
        /\ fold' = [fold EXCEPT ![w] = [NoFold EXCEPT !.pc = "fold", !.base = log, !.cut = cut]]
        /\ archived' = archived \cup ToSet(SubSeq(log, 1, cut))
  BY DEF BeginFold
<1>2. fold'[w].base = log /\ \A v \in Folders \ {w} : fold'[v] = fold[v]
  BY <1>1 DEF NoFold, Typed, Turns, Folds, Saves, Moves
<1> QED BY <1>1, <1>2

LEMMA NewPathSafe ==
    ASSUME Typed, Phases, Alone, Sound, InOrder, ReadBefore, OneEach, Kept, NewPath
    PROVE  InOrder' /\ ReadBefore' /\ OneEach' /\ Kept'
<1>1. /\ command.pc = "saved" /\ command'.pc = "half" /\ command'.what = "new" /\ path' = command.to
      /\ save["command"].pc = "none"
      /\ UNCHANGED <<log, file, archived, said, turn, fold, save, home, stems, skipped>>
  BY DEF NewPath, history, Typed, Turns, Folds, Saves, Moves
<1>2. turn.pc = "idle" /\ save["turn"].pc # "write" /\ save["compact"].pc # "write" /\ OnDisk' = OnDisk
  BY <1>1 DEF Alone, Sound, Phases, OnDisk
<1>3. InOrder'
  BY <1>1 DEF InOrder
<1>4. ReadBefore'
  BY <1>1, <1>2 DEF ReadBefore
<1>5. OneEach'
  BY <1>1, <1>2 DEF OneEach
<1>6. Kept'
  BY <1>1, <1>2 DEF Kept
<1> QED BY <1>3, <1>4, <1>5, <1>6

\* Another log is put in place.
LEMMA SetSessionFolds ==
    ASSUME Typed, NEW msgs, SetSession(msgs)
    PROVE  log' = msgs /\ \A w \in Folders : fold'[w].base = fold[w].base
<1>1. /\ log' = msgs
      /\ fold' = [w \in DOMAIN fold |-> [fold[w] EXCEPT !.lost = (fold[w].pc = "fold")]]
  BY DEF SetSession
<1>2. ASSUME NEW w \in Folders PROVE fold'[w].base = fold[w].base
  <2>1. fold[w] \in Folds /\ DOMAIN fold = Folders
    BY DEF Typed, Turns, Folds, Saves, Moves
  <2>2. fold'[w] = [fold[w] EXCEPT !.lost = (fold[w].pc = "fold")]
    BY <1>1, <2>1
  <2> QED BY <2>1, <2>2
<1> QED BY <1>1, <1>2

LEMMA NewLogSafe ==
    ASSUME Typed, Phases, Alone, Sound, InOrder, ReadBefore, OneEach, Kept, NewLog
    PROVE  InOrder' /\ ReadBefore' /\ OneEach' /\ Kept'
<1>1. /\ command.pc = "half" /\ SetSession(<<>>) /\ command'.pc = "idle" /\ skipped' = FALSE
      /\ UNCHANGED <<path, file, archived, said, turn, save, home, stems>>
  BY DEF NewLog, NoCommand
<1>2. /\ turn.pc = "idle" /\ \A w \in Procs : save[w].pc # "write"
  BY <1>1 DEF Alone, Sound, Phases, Procs, Typed, Turns, Folds, Saves, Moves
<1>3. log' = <<>> /\ fold'["turn"].base = fold["turn"].base /\ fold'["compact"].base = fold["compact"].base
  BY <1>1, SetSessionFolds DEF Folders
<1>4. InOrder'
  BY <1>1, <1>2, <1>3, OfEmpty DEF InOrder
<1>5. ReadBefore'
  BY <1>1, <1>2 DEF ReadBefore
<1>6. OneEach'
  BY <1>1, <1>2, <1>3, OfEmpty DEF OneEach, Procs
<1>7. Kept'
  BY <1>1, <1>2, <1>3, OfEmpty DEF Kept, Procs
<1> QED BY <1>4, <1>5, <1>6, <1>7

LEMMA LoadLogSafe ==
    ASSUME Typed, Phases, Alone, Sound, InOrder, ReadBefore, OneEach, Kept, LoadLog
    PROVE  InOrder' /\ ReadBefore' /\ OneEach' /\ Kept'
<1>1. /\ command.pc \in {"saved", "copied"} /\ SetSession(file[command.to]) /\ command'.pc = "half"
      /\ command'.what = command.what /\ command'.to = command.to
      /\ command.pc = "saved" => command.what \in {"resume", "switch"} /\ save["command"].pc = "none"
      /\ UNCHANGED <<path, file, archived, said, turn, save, home, stems, skipped>>
  BY DEF LoadLog, history, Typed, Turns, Folds, Saves, Moves
<1>2. /\ turn.pc = "idle" /\ command.what # "new" /\ \A w \in Procs : save[w].pc # "write"
  BY <1>1 DEF Alone, Sound, Phases, Procs, Typed, Turns, Folds, Saves, Moves
<1>3. /\ log' = file[command.to]
      /\ fold'["turn"].base = fold["turn"].base /\ fold'["compact"].base = fold["compact"].base
  BY <1>1, SetSessionFolds DEF Folders
<1>4. command.to \in Paths /\ Words(log') \subseteq ToSet(log')
  BY Shape, WordsIn
<1>5. InOrder'
  BY <1>1, <1>2, <1>3, <1>4 DEF InOrder
<1>6. ReadBefore'
  BY <1>1, <1>2 DEF ReadBefore
<1>7. OneEach'
  BY <1>1, <1>2, <1>3, <1>4 DEF OneEach, Procs
<1>8. Kept'
  BY <1>1, <1>2, <1>3, <1>4 DEF Kept, Procs
<1> QED BY <1>5, <1>6, <1>7, <1>8

LEMMA BranchLogSafe ==
    ASSUME Typed, Phases, Alone, Sound, InOrder, ReadBefore, OneEach, Kept, BranchLog
    PROVE  InOrder' /\ ReadBefore' /\ OneEach' /\ Kept'
<1>1. /\ command.pc = "saved" /\ command'.pc = "copied" /\ command'.what = command.what
      /\ command'.to = command.to /\ save["command"].pc = "none"
      /\ file' = [file EXCEPT ![command.to] = log]
      /\ stems' = [stems EXCEPT ![command.to] = stems[path] \cup {command.to}]
      /\ UNCHANGED <<path, log, archived, said, turn, fold, save, home, skipped>>
  BY DEF BranchLog, Typed, Turns, Folds, Saves, Moves
<1>2. /\ turn.pc = "idle" /\ \A w \in Procs : save[w].pc # "write"
  BY <1>1 DEF Alone, Sound, Phases, Procs, Typed, Turns, Folds, Saves, Moves
<1>3. /\ file'[command.to] = log /\ stems'[command.to] = stems[path] \cup {command.to}
      /\ \A p \in Paths \ {command.to} : file'[p] = file[p] /\ stems'[p] = stems[p]
      /\ command.to \in Paths /\ path \in Paths
  BY <1>1, Shape DEF Typed, Turns, Folds, Saves, Moves
<1>4. InOrder'
  BY <1>1, <1>2, <1>3 DEF InOrder
<1>5. ReadBefore'
  BY <1>1, <1>2 DEF ReadBefore
<1>6. OneEach'
  <2>1. Own(log, stems[path], home)
    BY <1>1 DEF OneEach
  <2>2. Own(log, stems[path] \cup {command.to}, home)
    BY <2>1 DEF Own
  <2>3. Own(log, stems'[path], home)
    BY <1>3, <2>1, <2>2
  <2> QED BY <1>1, <1>2, <1>3, <2>2, <2>3 DEF OneEach, Procs
<1>7. Kept'
  BY <1>1, <1>2, <1>3, WordsIn DEF Kept, Procs
<1> QED BY <1>4, <1>5, <1>6, <1>7

LEMMA MovePathSafe ==
    ASSUME Typed, Phases, Alone, Sound, InOrder, ReadBefore, OneEach, Kept, MovePath
    PROVE  InOrder' /\ ReadBefore' /\ OneEach' /\ Kept'
<1>1. /\ command.pc = "half" /\ command.what # "new" /\ path' = command.to /\ command'.pc = "idle"
      /\ skipped' = FALSE
      /\ UNCHANGED <<log, file, archived, said, turn, fold, save, home, stems>>
  BY DEF MovePath, NoCommand
<1>2. /\ turn.pc = "idle" /\ \A w \in Procs : save[w].pc # "write"
  BY <1>1 DEF Alone, Sound, Phases, Procs, Typed, Turns, Folds, Saves, Moves
<1>3. InOrder'
  BY <1>1 DEF InOrder
<1>4. ReadBefore'
  BY <1>1, <1>2 DEF ReadBefore
<1>5. OneEach'
  BY <1>1, <1>2 DEF OneEach, Procs
<1>6. Kept'
  BY <1>1, <1>2 DEF Kept, Procs
<1> QED BY <1>3, <1>4, <1>5, <1>6

LEMMA CrashSafe ==
    ASSUME Typed, Sound, InOrder, ReadBefore, OneEach, Kept, NEW to \in Paths, Crash(to)
    PROVE  InOrder' /\ ReadBefore' /\ OneEach' /\ Kept'
<1>1. /\ log' = file[to] /\ path' = to /\ turn' = Resting /\ command' = NoCommand
      /\ fold' = [w \in {"turn", "compact"} |-> NoFold] /\ save' = [w \in Procs |-> NoSave]
      /\ UNCHANGED <<file, archived, said, home, stems>>
  BY DEF Crash
<1>2. /\ turn'.pc = "idle" /\ command'.pc = "idle"
      /\ fold'["turn"].base = <<>> /\ fold'["compact"].base = <<>>
      /\ save'["turn"].pc = "none" /\ save'["compact"].pc = "none" /\ save'["command"].pc = "none"
      /\ save'["turn"].what = <<>> /\ save'["compact"].what = <<>> /\ save'["command"].what = <<>>
  BY <1>1 DEF Resting, NoCommand, NoFold, NoSave, Procs
<1>3. InOrder'
  BY <1>1, <1>2, OfEmpty DEF InOrder
<1>4. ReadBefore'
  BY <1>2 DEF ReadBefore
<1>5. OneEach'
  BY <1>1, <1>2 DEF OneEach
<1>6. Kept'
  BY <1>1, <1>2, WordsIn DEF Kept
<1> QED BY <1>3, <1>4, <1>5, <1>6

-----------------------------------------------------------------------------
(* Every step *)

LEMMA SafeStep ==
    ASSUME Typed, Phases, Cut, Alone, Sound, Sound', Safe, [Next]_vars
    PROVE  Safe'
<1> USE DEF Safe, latch, history, counted
<1>1. CASE StartTurn
  BY <1>1, StartTurnSafe
<1>2. ASSUME Prompt \/ Answer \/ Refusal PROVE Safe'
  <2>1. PICK kind \in {"user", "answer"}, next \in {"ask", "end", "refused", "room"} :
          /\ turn.pc \in {"prompt", "ask", "refused"} /\ Say(Message(kind, said + 1))
          /\ turn' = [turn EXCEPT !.pc = next]
          /\ UNCHANGED <<named, path, file, archived, fold, save, command, latch, stems, stale,
                         skipped, counted>>
    BY <1>2 DEF Prompt, Answer, Refusal, Speak
  <2>2. Message(kind, said + 1) \in Msgs
    <3>1. said + 1 \in 1..MaxMessages
      BY <2>1, Shape DEF Say
    <3> QED BY <3>1 DEF Message, Msgs, Kinds
  <2>3. Message(kind, said + 1).n = said + 1 /\ Message(kind, said + 1).kind = kind
    BY DEF Message
  <2>4. turn'.pc = next /\ turn'.first = turn.first /\ turn'.start = turn.start
    BY <2>1 DEF Typed, Turns, Folds, Saves, Moves
  <2> QED BY <2>1, <2>2, <2>3, <2>4, SaySafe
<1>3. CASE CallTools
  <2>1. /\ turn.pc = "ask" /\ Say(Calls(said + 1))
        /\ turn' = [turn EXCEPT !.pc = "tools", !.calls = said + 1, !.results = 0]
        /\ UNCHANGED <<named, path, file, archived, fold, save, command, latch, stems, stale, skipped,
                       counted>>
    BY <1>3 DEF CallTools
  <2>2. Calls(said + 1) \in Msgs
    BY <2>1, SaidMore DEF Say, Heard
  <2>3. Calls(said + 1).n = said + 1 /\ Calls(said + 1).kind = "calls"
    BY DEF Calls, Message
  <2>4. turn'.pc = "tools" /\ turn'.first = turn.first /\ turn'.start = turn.start /\ turn'.calls = said + 1
    BY <2>1 DEF Typed, Turns, Folds, Saves, Moves
  <2> QED BY <2>1, <2>2, <2>3, <2>4, SaySafe
<1>4. CASE AddResult
  BY <1>4, AddResultSafe
<1>5. ASSUME Fail \/ StayUnder \/ Over \/ AutoFoldFails PROVE Safe'
  <2>1. /\ turn.pc # "idle" /\ turn'.pc \notin {"idle", "tools", "save"}
        /\ turn'.first = turn.first /\ turn'.start = turn.start
    BY <1>5 DEF Fail, StayUnder, Over, AutoFoldFails, Typed, Turns, Folds, Saves, Moves
  <2>2. UNCHANGED <<log, path, file, save, command, home, stems, skipped>>
    BY <1>5 DEF Fail, StayUnder, Over, AutoFoldFails
  <2>3. /\ archived \subseteq archived' /\ fold'["compact"] = fold["compact"]
        /\ fold'["turn"].base \in {fold["turn"].base, log, <<>>}
    <3>1. CASE UNCHANGED <<fold, archived>>
      BY <3>1
    <3>2. CASE \E cut \in Cuts(log) : BeginFold("turn", cut)
      BY <3>2, BeginFoldBase DEF Folders
    <3>3. CASE AutoFoldFails
      BY <3>3 DEF AutoFoldFails, NoFold, Typed, Folders, Turns, Folds, Saves, Moves
    <3> QED BY <1>5, <3>1, <3>2, <3>3 DEF Fail, StayUnder, Over
  <2> QED BY <2>1, <2>2, <2>3, QuietSafe
<1>6. CASE AutoFold
  BY <1>6, AutoFoldSafe
<1>7. CASE EndTurn
  BY <1>7, EndTurnSafe
<1>8. CASE TurnSaved
  BY <1>8, TurnSavedSafe
<1>9. CASE BeginCompact
  <2>1. turn.pc = "idle" /\ \E cut \in Cuts(log) : BeginFold("compact", cut)
    BY <1>9 DEF BeginCompact, Sound
  <2>2. UNCHANGED <<log, path, file, turn, save, command, home, stems, skipped>>
    BY <1>9 DEF BeginCompact
  <2>3. archived \subseteq archived' /\ fold'["turn"] = fold["turn"] /\ fold'["compact"].base = log
    BY <2>1, BeginFoldBase DEF Folders
  <2> QED BY <2>1, <2>2, <2>3, QuietSafe
<1>10. CASE Compacted
  BY <1>10, CompactedSafe
<1>11. CASE CompactFails
  <2>1. UNCHANGED <<log, path, file, archived, turn, save, command, home, stems, skipped>>
    BY <1>11 DEF CompactFails
  <2>2. fold'["turn"] = fold["turn"] /\ fold'["compact"].base = <<>> /\ fold'["compact"].pc = "none"
    BY <1>11 DEF CompactFails, NoFold, Typed, Folders, Turns, Folds, Saves, Moves
  <2> QED BY <2>1, <2>2, QuietSafe
<1>12. CASE CompactSnapshot
  BY <1>12, CompactSnapshotSafe
<1>13. CASE CompactSaved
  BY <1>13, CompactSavedSafe
<1>14. ASSUME NEW what \in {"new", "resume", "switch", "branch"}, NEW to \in Paths, Command(what, to)
       PROVE  Safe'
  BY <1>14, CommandSafe
<1>15. CASE CommandSaved
  BY <1>15, CommandSavedSafe
<1>16. CASE NewPath
  BY <1>16, NewPathSafe
<1>17. CASE NewLog
  BY <1>17, NewLogSafe
<1>18. CASE LoadLog
  BY <1>18, LoadLogSafe
<1>19. CASE BranchLog
  BY <1>19, BranchLogSafe
<1>20. CASE MovePath
  BY <1>20, MovePathSafe
<1>21. ASSUME NEW to \in Paths, Crash(to) PROVE Safe'
  BY <1>21, CrashSafe
<1>22. CASE UNCHANGED vars
  BY <1>22 DEF vars, InOrder, ReadBefore, OneEach, Kept, OnDisk
<1> QED BY <1>1, <1>2, <1>3, <1>4, <1>5, <1>6, <1>7, <1>8, <1>9, <1>10, <1>11, <1>12, <1>13, <1>14,
           <1>15, <1>16, <1>17, <1>18, <1>19, <1>20, <1>21, <1>22
        DEF Next, Turning, Compacting, Moving
-----------------------------------------------------------------------------
(* The invariant *)

LEMMA IInvInit == Init => IInv
<1> SUFFICES ASSUME Init PROVE IInv
  OBVIOUS
<1> USE SessionLogAssumption
<1>1. /\ log = <<>> /\ path = 1 /\ file = [p \in Paths |-> <<>>] /\ archived = {} /\ said = 0
      /\ turn = Resting /\ fold = [w \in Folders |-> NoFold] /\ save = [w \in Procs |-> NoSave]
      /\ command = NoCommand /\ stale = FALSE /\ skipped = FALSE /\ stems = [p \in Paths |-> {p}]
      /\ noticed = FALSE /\ runs = 0 /\ stuck = FALSE /\ named \in BOOLEAN
      /\ home = [n \in 1..MaxMessages |-> 0] /\ given = 0 /\ crashes = 0
  BY DEF Init, Folders
<1>2. <<>> \in Logs /\ 1 \in Paths /\ 0 \in 0..MaxMessages /\ 0 \in 0..MaxPaths
      /\ 0 \in 0..MaxCommands /\ 0 \in 0..MaxCrashes /\ {} \in SUBSET Heard
  BY EmptyLog DEF Logs, Paths
<1>3. Typed
  <2>1. file \in [Paths -> Logs] /\ stems \in [Paths -> SUBSET Paths] /\ home \in [1..MaxMessages -> 0..MaxPaths]
    BY <1>1, <1>2
  <2>2. turn \in Turns
    BY <1>1 DEF Resting, Turns, Folds, Saves, Moves
  <2>3. fold \in [Folders -> Folds]
    BY <1>1, <1>2 DEF NoFold, Turns, Folds, Saves, Moves
  <2>4. save \in [Procs -> Saves]
    BY <1>1, <1>2 DEF NoSave, Turns, Folds, Saves, Moves
  <2>5. command \in Moves
    BY <1>1, <1>2 DEF NoCommand, Turns, Folds, Saves, Moves
  <2> QED BY <1>1, <1>2, <2>1, <2>2, <2>3, <2>4, <2>5 DEF Typed, Turns, Folds, Saves, Moves
<1>4. Phases
  BY <1>1 DEF Phases, Resting, NoFold, NoSave, NoCommand, Folders, Procs
<1>5. Cut
  BY <1>1 DEF Cut, NoFold
<1>6. Alone
  BY <1>1 DEF Alone, Resting, NoCommand, NoSave
<1>7. Safe
  <2>1. InOrder
    BY <1>1, OfEmpty DEF InOrder, Resting, NoFold, NoSave, Folders, Procs
  <2>2. ReadBefore
    BY <1>1 DEF ReadBefore, Resting
  <2>3. OneEach
    BY <1>1, <1>2, OfEmpty DEF OneEach, NoSave, NoCommand, Procs
  <2>4. Kept
    BY <1>1, OfEmpty DEF Kept, Resting, NoSave, NoCommand, Procs
  <2> QED BY <2>1, <2>2, <2>3, <2>4 DEF Safe
<1> QED BY <1>3, <1>4, <1>5, <1>6, <1>7 DEF IInv

LEMMA StaleStays == [Next]_vars => (Sound' => Sound)
<1> SUFFICES ASSUME [Next]_vars, Sound' PROVE Sound
  OBVIOUS
<1>1. stale' = stale \/ (\E w \in Procs : Write(w)) \/ (\E w \in Folders : EndFold(w))
  <2>1. CASE UNCHANGED vars
    BY <2>1 DEF vars, history
  <2>2. CASE Turning
    BY <2>2 DEF Turning, StartTurn, Prompt, Answer, Refusal, Speak, Fail, CallTools, AddResult,
       StayUnder,
                Over, AutoFold, AutoFoldFails, EndTurn, TurnSaved, history, Procs, Folders
  <2>3. CASE Compacting
    BY <2>3 DEF Compacting, BeginCompact, Compacted, CompactFails, CompactSnapshot, CompactSaved,
       history,
                Procs, Folders
  <2>4. CASE Moving
    BY <2>4 DEF Moving, Command, CommandSaved, NewPath, NewLog, LoadLog, BranchLog, MovePath, history,
       Procs
  <2>5. CASE \E to \in Paths : Crash(to)
    BY <2>5 DEF Crash
  <2> QED BY <2>1, <2>2, <2>3, <2>4, <2>5 DEF Next
<1>2. ~stale' /\ Held
  BY DEF Sound
<1>3. ASSUME NEW w \in Procs, Write(w) PROVE ~stale
  BY <1>2, <1>3, Zenon DEF Write
<1>4. ASSUME NEW w \in Folders, EndFold(w) PROVE ~stale
  BY <1>2, <1>4, Zenon DEF EndFold
<1> QED BY <1>1, <1>2, <1>3, <1>4 DEF Sound

LEMMA IInvStep == IInv /\ [Next]_vars => IInv'
<1> SUFFICES ASSUME IInv, [Next]_vars PROVE IInv'
  OBVIOUS
<1>1. Typed'
  BY TypedStep
<1>2. Phases' /\ Cut' /\ Alone'
  BY <1>1, PhasesStep, CutStep, AloneStep
<1>3. ASSUME Sound' PROVE Safe'
  BY <1>3, StaleStays, SafeStep DEF IInv
<1> QED BY <1>1, <1>2, <1>3 DEF IInv

LEMMA Invariant == Spec => []IInv
<1>1. Init => IInv
  BY IInvInit
<1>2. IInv /\ [Next]_vars => IInv'
  BY IInvStep
<1> QED BY <1>1, <1>2, PTL DEF Spec

-----------------------------------------------------------------------------
(* What the runs check *)

LEMMA TypedOK == IInv => TypeOK
<1> SUFFICES ASSUME IInv PROVE TypeOK
  OBVIOUS
<1> USE SessionLogAssumption
<1>1. Typed /\ Phases /\ Cut
  BY DEF IInv
<1>2. \A m \in Heard : m.n \in 1..said
  BY <1>1 DEF Heard, Msgs, Typed, Turns, Folds, Saves, Moves
<1>3. \A s \in Logs : ToSet(s) \subseteq Heard
  BY ElementsIn DEF Logs
<1>4. \A n \in {m.n : m \in ToSet(log) \cup archived} : n \in 1..said
  BY <1>1, <1>2, <1>3 DEF Typed, Turns, Folds, Saves, Moves
<1>5. \A p \in Paths : \A m \in ToSet(file[p]) : m.n \in 1..said
  BY <1>1, <1>2, <1>3 DEF Typed, Turns, Folds, Saves, Moves
<1>6. \A w \in {"turn", "compact"} : fold[w].cut \in 0..Len(fold[w].base)
  <2> SUFFICES ASSUME NEW w \in Folders PROVE fold[w].cut \in 0..Len(fold[w].base)
    BY DEF Folders
  <2>1. fold[w].base \in Logs /\ fold[w].pc \in {"none", "fold"}
    BY <1>1, Shape
  <2>2. Len(fold[w].base) \in Nat
    BY <2>1 DEF Logs
  <2> QED BY <1>1, <2>1, <2>2 DEF Cut
<1>7. runs \in 0..2
  BY <1>1 DEF Typed, Phases, Turns, Folds, Saves, Moves
<1>8. \A w \in Procs : save[w].to \in Paths /\ save[w].pc \in {"none", "take", "write"}
  BY <1>1 DEF Typed, Turns, Folds, Saves, Moves
<1> QED BY <1>1, <1>4, <1>5, <1>6, <1>7, <1>8 DEF TypeOK, Typed, Turns, Folds, Saves, Moves

\* Every variable of the session keeps its type: no log, file or archive holds a message that
\* has not been said, and a compaction's cut lies within what it has read.
THEOREM TypeCorrect == Spec => []TypeOK
<1>1. IInv => TypeOK
  BY TypedOK
<1> QED BY <1>1, Invariant, PTL

\* However turns, compactions, commands and crashes are interleaved, compaction never leaves a
\* result in the log without its calls.
THEOREM ResultsFollow == Spec => []ResultsFollowCalls
<1>1. IInv => ResultsFollowCalls
  BY DEF IInv, Sound, Safe, InOrder, Orderly, ResultsFollowCalls
<1> QED BY <1>1, Invariant, PTL

\* What a crash would lose belongs to the turn that runs, except after a turn that
\* snapshotActivityIfChanged did not save.
THEOREM PromptsAtRisk == Spec => []AtMostOnePromptAtRisk
<1>1. IInv => AtMostOnePromptAtRisk
  <2> SUFFICES ASSUME IInv, Held, ~stale, ~skipped, command.pc = "idle", NEW m \in Unsaved
               PROVE  turn.pc # "idle" /\ m.n >= turn.first
    BY DEF AtMostOnePromptAtRisk
  <2>1. Typed /\ Kept
    BY DEF IInv, Sound, Safe
  <2>2. m \in Words(log) /\ m \notin ToSet(file[path])
    BY DEF Unsaved, Words
  <2>3. turn.pc # "idle" /\ m \notin Old(log, turn.first)
    BY <2>1, <2>2 DEF Kept
  <2>4. m.n \in Nat /\ turn.first \in Nat
    <3>1. ToSet(log) \subseteq Msgs
      BY <2>1, Shape, ElementsIn
    <3>2. m \in Msgs
      BY <2>2, <3>1, WordsIn
    <3> QED BY <2>1, <3>2, Shape DEF Msgs
  <2> QED BY <2>2, <2>3, <2>4 DEF Old
<1> QED BY <1>1, Invariant, PTL

\* A snapshot never lands in the file of another conversation.
THEOREM OneConversation == Spec => []OneConversationPerFile
<1>1. IInv => OneConversationPerFile
  BY DEF IInv, Sound, Safe, OneEach, Own, OneConversationPerFile
<1> QED BY <1>1, Invariant, PTL

LEMMA FoldKeeps ==
    ASSUME Typed, Cut, NEW w \in Folders, fold[w].pc = "fold", EndFold(w), ~stale', archived' = archived
    PROVE  ToSet(log) \subseteq ToSet(log') \cup archived'
<1>1. /\ fold[w].base = log
      /\ log' = <<Message("summary", said + 1)>> \o SubSeq(log, fold[w].cut + 1, Len(log))
      /\ said < MaxMessages
  BY DEF EndFold
<1> DEFINE cut == fold[w].cut
<1>2. cut \in 1..Len(log) /\ ToSet(SubSeq(log, 1, cut)) \subseteq archived
  BY <1>1 DEF Cut
<1>3. log \in Seq(Msgs) /\ Message("summary", said + 1) \in Msgs
  <2>1. said + 1 \in 1..MaxMessages /\ log \in Seq(Msgs)
    BY <1>1, Shape
  <2> QED BY <2>1 DEF Message, Msgs, Kinds
<1>4. cut \in 0..Len(log)
  BY <1>2, <1>3
<1> HIDE DEF cut
<1>5. ToSet(log) \subseteq ToSet(log') \cup ToSet(SubSeq(log, 1, cut))
  BY <1>1, <1>3, <1>4, Folded DEF cut
<1> QED BY <1>2, <1>5

LEMMA StepKeeps ==
    ASSUME IInv, [Next]_vars, Sound, Sound', crashes' = crashes
    PROVE  Words(log) \subseteq ToSet(log') \cup archived' \cup OnDisk'
<1> USE DEF latch, history, counted
<1>0. Typed /\ Phases /\ Cut /\ Alone /\ Kept
  BY DEF IInv, Safe
<1>1. ASSUME ToSet(log) \subseteq ToSet(log') PROVE Words(log) \subseteq ToSet(log')
  BY <1>1, WordsIn
<1>2. ASSUME NEW m \in Msgs, log' = Append(log, m) PROVE Words(log) \subseteq ToSet(log')
  BY <1>0, <1>1, <1>2, Shape, Appended
<1>3. ASSUME Prompt \/ Answer \/ Refusal \/ CallTools PROVE Words(log) \subseteq ToSet(log')
  <2>1. said + 1 \in 1..MaxMessages
    BY <1>0, <1>3, Shape DEF Prompt, Answer, Refusal, CallTools, Speak, Say
  <2>2. Message("user", said + 1) \in Msgs /\ Message("answer", said + 1) \in Msgs
    BY <2>1 DEF Message, Msgs, Kinds
  <2>3. said < MaxMessages /\ said' = said + 1 /\ named' = named
    BY <1>3 DEF Prompt, Answer, Refusal, CallTools, Speak, Say
  <2>4. Calls(said + 1) \in Msgs
    BY <1>0, <2>3, SaidMore DEF Heard
  <2> QED BY <1>2, <1>3, <2>2, <2>4 DEF Prompt, Answer, Refusal, CallTools, Speak, Say
<1>4. ASSUME AddResult PROVE Words(log) \subseteq ToSet(log')
  <2>1. turn.calls \in 1..said /\ turn.results + 1 \in Nat
    BY <1>0, <1>4 DEF AddResult, Phases, Typed, Turns, Folds, Saves, Moves
  <2>2. Result(turn.calls, turn.results + 1) \in Msgs
    BY <1>0, <2>1, ResultHeard DEF Heard
  <2> QED BY <1>2, <1>4, <2>2 DEF AddResult
<1>5. ASSUME AutoFold \/ Compacted PROVE Words(log) \subseteq ToSet(log') \cup archived'
  <2>1. ~stale'
    BY DEF Sound
  <2>2. CASE AutoFold
    <3>1. ToSet(log) \subseteq ToSet(log') \cup archived'
      BY <1>0, <2>1, <2>2, FoldKeeps DEF AutoFold, Phases, Folders
    <3> QED BY <3>1, WordsIn
  <2>3. CASE Compacted
    <3>1. ToSet(log) \subseteq ToSet(log') \cup archived'
      BY <1>0, <2>1, <2>3, FoldKeeps DEF Compacted, Folders
    <3> QED BY <3>1, WordsIn
  <2> QED BY <1>5, <2>2, <2>3
<1>6. ASSUME NewLog \/ LoadLog PROVE Words(log) \subseteq archived' \cup OnDisk'
  <2>1. archived' = archived /\ OnDisk' = OnDisk
    BY <1>6 DEF NewLog, LoadLog, OnDisk
  <2>2. ToSet(file[command.to]) \subseteq OnDisk
    BY <1>0, Shape DEF OnDisk
  <2> QED BY <1>0, <1>6, <2>1, <2>2 DEF Kept, NewLog, LoadLog
<1>7. ASSUME NEW to \in Paths, Crash(to) PROVE FALSE
  <2>1. crashes' = crashes + 1 /\ crashes \in Nat
    BY <1>0, <1>7, SessionLogAssumption DEF Crash, Typed, Turns, Folds, Saves, Moves
  <2> QED BY <2>1
<1>8. \/ log' = log
      \/ Prompt \/ Answer \/ Refusal \/ CallTools \/ AddResult \/ AutoFold \/ Compacted \/ NewLog \/ LoadLog
      \/ \E to \in Paths : Crash(to)
  BY DEF Next, Turning, Compacting, Moving, vars, StartTurn, Fail, StayUnder, Over, AutoFoldFails,
     EndTurn,
         TurnSaved, BeginCompact, CompactFails, CompactSnapshot, CompactSaved, Command, CommandSaved,
         NewPath, BranchLog, MovePath
<1> QED BY <1>1, <1>3, <1>4, <1>5, <1>6, <1>7, <1>8

\* What leaves the log, by compaction or by a command, is in the archive or in a session file,
\* as long as nothing is overwritten.
THEOREM DroppedKept == Spec => DroppedIsKept
<1>1. IInv /\ [Next]_vars =>
         (Held /\ ~stale' /\ crashes' = crashes =>
             \A m \in ToSet(log) \ (ToSet(log') \cup archived' \cup OnDisk') : m.kind = "summary")
  <2> SUFFICES ASSUME IInv, [Next]_vars, Held, ~stale', crashes' = crashes,
                      NEW m \in ToSet(log) \ (ToSet(log') \cup archived' \cup OnDisk')
               PROVE  m.kind = "summary"
    OBVIOUS
  <2>1. Sound' /\ Sound
    BY StaleStays DEF Sound
  <2>2. Words(log) \subseteq ToSet(log') \cup archived' \cup OnDisk'
    BY <2>1, StepKeeps
  <2> QED BY <2>2 DEF Words
<1> QED BY <1>1, Invariant, PTL DEF Spec, DroppedIsKept

-----------------------------------------------------------------------------
(* What is sent: sequences defined by recursion *)

\* f[0] is base, and each value is made from the one before.
Iterates(f, V, base, n, step) ==
    /\ f \in [0..n -> V] /\ f[0] = base
    /\ \A i \in 1..n : f[i] = step[<<i, f[i-1]>>]

\* f[i] is the concatenation of the first i sequences.
Joins(f, S, n, ss) ==
    /\ f \in [0..n -> Seq(S)] /\ f[0] = <<>>
    /\ \A i \in 1..n : f[i] = f[i-1] \o ss[i]

\* Such a function exists.
LEMMA Recursion ==
    ASSUME NEW V, NEW base \in V, NEW n \in Nat, NEW step \in [(1..n) \X V -> V]
    PROVE  \E f : Iterates(f, V, base, n, step)
<1> DEFINE Good(m) == \E f : Iterates(f, V, base, m, step)
           bad == {m \in 0..n : ~Good(m)}
<1>1. Good(0)
  <2> DEFINE f == [i \in 0..0 |-> base]
  <2>1. f \in [0..0 -> V] /\ f[0] = base /\ 1..0 = {}
    OBVIOUS
  <2> QED BY <2>1 DEF Iterates
<1>2. ASSUME NEW m \in 1..n, Good(m - 1) PROVE Good(m)
  <2>1. PICK g \in [0..(m-1) -> V] : g[0] = base /\ \A i \in 1..(m-1) : g[i] = step[<<i, g[i-1]>>]
    BY <1>2 DEF Iterates
  <2> DEFINE f == [i \in 0..m |-> IF i = m THEN step[<<m, g[m-1]>>] ELSE g[i]]
  <2>2. m \in Nat /\ m - 1 \in 0..(m-1) /\ m # 0 /\ m \in 1..n
    OBVIOUS
  <2>3. g[m-1] \in V /\ step[<<m, g[m-1]>>] \in V
    BY <2>2
  <2>4. f \in [0..m -> V]
    BY <2>2, <2>3
  <2>5. f[0] = base
    BY <2>1, <2>2
  <2>6. ASSUME NEW i \in 1..m PROVE f[i] = step[<<i, f[i-1]>>]
    <3>1. i - 1 \in 0..m /\ i - 1 # m /\ i \in 0..m /\ f[i-1] = g[i-1]
      BY <2>2
    <3>2. CASE i = m
      BY <3>1, <3>2
    <3>3. CASE i # m
      <4>1. i \in 1..(m-1) /\ f[i] = g[i]
        BY <2>2, <3>1, <3>3
      <4> QED BY <2>1, <3>1, <4>1
    <3> QED BY <3>2, <3>3
  <2> HIDE DEF f
  <2> QED BY <2>4, <2>5, <2>6 DEF Iterates
<1> HIDE DEF Good
<1>3. bad = {}
  <2> SUFFICES ASSUME bad # {} PROVE FALSE
    OBVIOUS
  <2>1. bad \subseteq Nat
    OBVIOUS
  <2>2. PICK m \in bad : \A k \in bad : m <= k
    BY <2>1, Least
  <2>3. m \in 0..n /\ ~Good(m) /\ m # 0
    BY <2>2, <1>1
  <2>4. m - 1 \in 0..n /\ ~(m <= m - 1) /\ m \in 1..n
    BY <2>3
  <2>5. Good(m - 1)
    BY <2>2, <2>4
  <2> QED BY <1>2, <2>3, <2>4, <2>5
<1>4. Good(n)
  BY <1>3
<1> QED BY <1>4 DEF Good

\* What concatenation makes, prefix by prefix.
LEMMA Concatenations ==
    ASSUME NEW S, NEW n \in Nat, NEW ss \in [1..n -> Seq(S)]
    PROVE  \E f : Joins(f, S, n, ss)
<1> DEFINE V == Seq(S)
           step == [x \in (1..n) \X V |-> x[2] \o ss[x[1]]]
<1>1. <<>> \in V /\ \A i \in 1..n : ss[i] \in V
  OBVIOUS
<1>2. \A a, b \in V : a \o b \in V
  OBVIOUS
<1> HIDE DEF V
<1>3. step \in [(1..n) \X V -> V]
  BY <1>1, <1>2
<1>4. \A i \in 1..n : \A a \in V : step[<<i, a>>] = a \o ss[i]
  BY <1>1
<1> HIDE DEF step
<1>5. PICK f : Iterates(f, V, <<>>, n, step)
  BY <1>1, <1>3, Recursion
<1>6. ASSUME NEW i \in 1..n PROVE f[i] = f[i-1] \o ss[i]
  <2>1. i - 1 \in 0..n
    OBVIOUS
  <2>2. f[i-1] \in V /\ f[i] = step[<<i, f[i-1]>>]
    BY <1>5, <2>1 DEF Iterates
  <2> QED BY <1>4, <2>2
<1> QED BY <1>5, <1>6 DEF V, Iterates, Joins

\* FlattenSeq concatenates all of them.
LEMMA FlattenSteps ==
    ASSUME NEW S, NEW n \in Nat, NEW ss \in [1..n -> Seq(S)]
    PROVE  \E f : Joins(f, S, n, ss) /\ FlattenSeq(ss) = f[n]
<1> DEFINE F == CHOOSE F : F = [i \in 1..n |-> IF i = 1 THEN ss[i] ELSE F[i-1] \o ss[i]]
<1>0. PICK f : Joins(f, S, n, ss)
  BY Concatenations
<1>1. f \in [0..n -> Seq(S)] /\ f[0] = <<>> /\ \A i \in 1..n : f[i] = f[i-1] \o ss[i]
  BY <1>0 DEF Joins
<1>2. n # 0 => f[1] = ss[1]
  <2> SUFFICES ASSUME n # 0 PROVE f[1] = ss[1]
    OBVIOUS
  <2>1. 1 \in 1..n
    OBVIOUS
  <2>2. ss[1] \in Seq(S) /\ f[1] = f[0] \o ss[1]
    <3>1. f[1] = f[1-1] \o ss[1]
      BY <1>1, <2>1
    <3> QED BY <2>1, <3>1
  <2>3. <<>> \o ss[1] = ss[1]
    BY <2>2
  <2> QED BY <1>1, <2>2, <2>3
<1>3. ss \in Seq(Seq(S)) /\ Len(ss) = n
  OBVIOUS
<1>4. CASE n = 0
  <2>1. FlattenSeq(ss) = ss /\ ss = <<>>
    BY <1>3, <1>4 DEF FlattenSeq
  <2> QED BY <1>0, <1>1, <1>4, <2>1
<1>5. CASE n # 0
  <2>1. F = [i \in 1..n |-> IF i = 1 THEN ss[i] ELSE F[i-1] \o ss[i]]
    <3> DEFINE g == [i \in 1..n |-> f[i]]
    <3>1. ASSUME NEW i \in 1..n PROVE f[i] = IF i = 1 THEN ss[i] ELSE g[i-1] \o ss[i]
      <4>1. CASE i = 1
        BY <1>2, <1>5, <4>1
      <4>2. CASE i # 1
        <5>1. i - 1 \in 1..n
          BY <4>2
        <5> QED BY <1>1, <4>2, <5>1
      <4> QED BY <4>1, <4>2
    <3>2. g = [i \in 1..n |-> IF i = 1 THEN ss[i] ELSE g[i-1] \o ss[i]]
      BY <3>1
    <3> HIDE DEF g
    <3> QED BY <3>2
  <2>2. FlattenSeq(ss) = F[n]
    BY <1>3, <1>5 DEF FlattenSeq
  <2> HIDE DEF F
  <2>3. ASSUME NEW i \in 1..n PROVE F[i] = IF i = 1 THEN ss[i] ELSE F[i-1] \o ss[i]
    BY <2>1
  <2> DEFINE bad == {i \in 1..n : F[i] # f[i]}
  <2>4. bad = {}
    <3> SUFFICES ASSUME bad # {} PROVE FALSE
      OBVIOUS
    <3>1. bad \subseteq Nat
      OBVIOUS
    <3>2. PICK m \in bad : \A k \in bad : m <= k
      BY <3>1, Least
    <3>3. m \in 1..n /\ F[m] # f[m]
      BY <3>2
    <3>4. m # 1
      BY <1>2, <1>5, <2>3, <3>3
    <3>5. m - 1 \in 1..n /\ ~(m <= m - 1)
      BY <3>3, <3>4
    <3>6. F[m-1] = f[m-1]
      BY <3>2, <3>5
    <3> QED BY <1>1, <2>3, <3>3, <3>4, <3>6
  <2>5. n \in 1..n
    BY <1>5
  <2>6. F[n] = f[n]
    BY <2>4, <2>5
  <2> QED BY <1>0, <2>2, <2>6
<1> QED BY <1>4, <1>5

\* Concatenation is associative.
LEMMA Associative ==
    ASSUME NEW S, NEW a \in Seq(S), NEW b \in Seq(S), NEW c \in Seq(S),
           NEW ab, NEW bc, ab = a \o b, bc = b \o c
    PROVE  ab \o c = a \o bc
<1> DEFINE l == Len(a)
           m == Len(b)
           k == Len(c)
           left  == ab \o c
           right == a \o bc
<1>1. l \in Nat /\ m \in Nat /\ k \in Nat
  OBVIOUS
<1>2. /\ ab \in Seq(S) /\ Len(ab) = l + m
      /\ \A i \in 1..(l + m) : ab[i] = IF i <= l THEN a[i] ELSE b[i - l]
  BY ConcatProperties
<1>3. /\ bc \in Seq(S) /\ Len(bc) = m + k
      /\ \A i \in 1..(m + k) : bc[i] = IF i <= m THEN b[i] ELSE c[i - m]
  BY ConcatProperties
<1>4. /\ left \in Seq(S) /\ Len(left) = Len(ab) + k
      /\ \A i \in 1..(Len(ab) + k) : left[i] = IF i <= Len(ab) THEN ab[i] ELSE c[i - Len(ab)]
  BY <1>2, ConcatProperties
<1>5. /\ right \in Seq(S) /\ Len(right) = l + Len(bc)
      /\ \A i \in 1..(l + Len(bc)) : right[i] = IF i <= l THEN a[i] ELSE bc[i - l]
  BY <1>3, ConcatProperties
<1> HIDE DEF l, m, k, left, right
<1>6. ASSUME NEW i \in 1..(l + m + k) PROVE left[i] = right[i]
  <2>1. i \in 1..(Len(ab) + k) /\ i \in 1..(l + Len(bc))
    BY <1>1, <1>2, <1>3
  <2>2. CASE i <= l
    <3>1. i \in 1..(l + m) /\ i <= Len(ab)
      BY <1>1, <1>2, <2>2
    <3> QED BY <1>2, <1>4, <1>5, <2>1, <2>2, <3>1
  <2>3. CASE ~(i <= l) /\ i <= l + m
    <3>1. i \in 1..(l + m) /\ i <= Len(ab) /\ i - l \in 1..(m + k) /\ i - l <= m
      BY <1>1, <1>2, <2>3
    <3>2. left[i] = b[i - l]
      BY <1>2, <1>4, <2>1, <2>3, <3>1
    <3>3. right[i] = b[i - l]
      BY <1>3, <1>5, <2>1, <2>3, <3>1
    <3> QED BY <3>2, <3>3
  <2>4. CASE ~(i <= l + m)
    <3>1. /\ ~(i <= Len(ab)) /\ ~(i <= l) /\ i - l \in 1..(m + k) /\ ~(i - l <= m)
          /\ (i - l) - m = i - Len(ab)
      BY <1>1, <1>2, <2>4
    <3>2. left[i] = c[i - Len(ab)]
      BY <1>4, <2>1, <3>1
    <3>3. right[i] = c[(i - l) - m]
      BY <1>3, <1>5, <2>1, <3>1
    <3> QED BY <3>1, <3>2, <3>3
  <2> QED BY <2>2, <2>3, <2>4
<1>7. Len(left) = l + m + k /\ Len(right) = l + m + k
  BY <1>1, <1>2, <1>3, <1>4, <1>5
<1>8. left = right
  BY <1>4, <1>5, <1>6, <1>7, SeqEqual
<1> QED BY <1>8 DEF left, right

\* What holds at 0 and is passed on holds up to n.
LEMMA Counting ==
    ASSUME NEW n \in Nat, NEW T, 0 \in T, \A i \in 1..n : i - 1 \in T => i \in T
    PROVE  \A i \in 0..n : i \in T
<1> DEFINE bad == {i \in 0..n : i \notin T}
<1>1. bad = {}
  <2> SUFFICES ASSUME bad # {} PROVE FALSE
    OBVIOUS
  <2>1. bad \subseteq Nat
    OBVIOUS
  <2>2. PICK m \in bad : \A k \in bad : m <= k
    BY <2>1, Least
  <2>3. m \in 1..n /\ m \notin T
    BY <2>2
  <2>4. m - 1 \in 0..n /\ ~(m <= m - 1)
    BY <2>3
  <2>5. m - 1 \in T
    BY <2>2, <2>4
  <2> QED BY <2>3, <2>5
<1> QED BY <1>1

\* Concatenating in two parts.
LEMMA FlattenParts ==
    ASSUME NEW S, NEW x \in Seq(Seq(S)), NEW y \in Seq(Seq(S))
    PROVE  /\ FlattenSeq(x) \in Seq(S) /\ FlattenSeq(y) \in Seq(S)
           /\ FlattenSeq(x \o y) = FlattenSeq(x) \o FlattenSeq(y)
<1> DEFINE l == Len(x)
           r == Len(y)
           z == x \o y
<1>1. /\ l \in Nat /\ r \in Nat /\ x \in [1..l -> Seq(S)] /\ y \in [1..r -> Seq(S)]
  BY LenProperties
<1>2. /\ z \in Seq(Seq(S)) /\ Len(z) = l + r
      /\ \A i \in 1..(l + r) : z[i] = IF i <= l THEN x[i] ELSE y[i - l]
  BY ConcatProperties
<1>3. z \in [1..(l + r) -> Seq(S)]
  BY <1>2, LenProperties
<1> HIDE DEF z, l, r
<1>4. PICK f : Joins(f, S, l, x) /\ FlattenSeq(x) = f[l]
  BY <1>1, FlattenSteps
<1>5. PICK g : Joins(g, S, r, y) /\ FlattenSeq(y) = g[r]
  BY <1>1, FlattenSteps
<1>6. l + r \in Nat
  BY <1>1
<1>7. PICK h : Joins(h, S, l + r, z) /\ FlattenSeq(z) = h[l + r]
  BY <1>3, <1>6, FlattenSteps
<1>a. f \in [0..l -> Seq(S)] /\ f[0] = <<>> /\ \A i \in 1..l : f[i] = f[i-1] \o x[i]
  BY <1>4 DEF Joins
<1>b. g \in [0..r -> Seq(S)] /\ g[0] = <<>> /\ \A i \in 1..r : g[i] = g[i-1] \o y[i]
  BY <1>5 DEF Joins
<1>c. h \in [0..(l+r) -> Seq(S)] /\ h[0] = <<>> /\ \A i \in 1..(l+r) : h[i] = h[i-1] \o z[i]
  BY <1>7 DEF Joins
<1>8. \A i \in 0..l : h[i] = f[i]
  <2> DEFINE T == {i \in 0..l : h[i] = f[i]}
  <2>1. 0 \in T
    BY <1>1, <1>a, <1>c
  <2>2. ASSUME NEW i \in 1..l, i - 1 \in T PROVE i \in T
    <3>1. i \in 1..(l + r) /\ i <= l /\ i \in 0..l
      BY <1>1
    <3>2. h[i] = h[i-1] \o z[i] /\ z[i] = x[i] /\ h[i-1] = f[i-1] /\ f[i] = f[i-1] \o x[i]
      BY <1>2, <1>a, <1>c, <2>2, <3>1
    <3> QED BY <3>1, <3>2
  <2>3. \A i \in 0..l : i \in T
    <3> HIDE DEF T
    <3> QED BY <1>1, <2>1, <2>2, Counting
  <2> QED BY <2>3
<1>9. f[l] \in Seq(S) /\ h[l] = f[l]
  BY <1>1, <1>8, <1>a
<1> DEFINE V == Seq(S)
           Cat(q, u) == q \o u
<1>10. ASSUME NEW a \in V, NEW b \in V, NEW c \in V PROVE Cat(Cat(a, b), c) = Cat(a, Cat(b, c))
  <2> DEFINE ab == Cat(a, b)
             bc == Cat(b, c)
  <2>1. ab = a \o b /\ bc = b \o c
    OBVIOUS
  <2> HIDE DEF ab, bc
  <2>2. ab \o c = a \o bc
    BY <2>1, Associative
  <2> QED BY <2>2 DEF ab, bc
<1>11. \A j \in 0..r : h[l + j] = f[l] \o g[j]
  <2> DEFINE T == {j \in 0..r : h[l + j] = f[l] \o g[j]}
  <2>1. 0 \in T
    <3>1. l + 0 = l /\ 0 \in 0..r /\ f[l] \o <<>> = f[l]
      BY <1>1, <1>9, ConcatEmptySeq
    <3> QED BY <1>9, <1>b, <3>1
  <2>2. ASSUME NEW j \in 1..r, j - 1 \in T PROVE j \in T
    <3>1. /\ l + j \in 1..(l + r) /\ ~(l + j <= l) /\ (l + j) - l = j /\ (l + j) - 1 = l + (j - 1)
          /\ j - 1 \in 0..r /\ j \in 0..r
      BY <1>1
    <3>2. h[l+j] = h[l + (j-1)] \o z[l+j]
      BY <1>c, <3>1
    <3>3. z[l+j] = y[j]
      BY <1>2, <3>1
    <3>4. h[l + (j-1)] = f[l] \o g[j-1] /\ g[j] = g[j-1] \o y[j]
      BY <1>b, <2>2
    <3>5. g[j-1] \in Seq(S) /\ y[j] \in Seq(S)
      BY <1>1, <1>b, <3>1
    <3>6. h[l + (j-1)] \o y[j] = f[l] \o g[j]
      <4>1. /\ f[l] \in V /\ g[j-1] \in V /\ y[j] \in V
            /\ h[l + (j-1)] = Cat(f[l], g[j-1]) /\ g[j] = Cat(g[j-1], y[j])
        BY <1>9, <3>4, <3>5
      <4> HIDE DEF V, Cat
      <4>2. Cat(h[l + (j-1)], y[j]) = Cat(f[l], g[j])
        BY <1>10, <4>1
      <4> QED BY <4>2 DEF Cat
    <3> QED BY <3>1, <3>2, <3>3, <3>6
  <2>3. \A j \in 0..r : j \in T
    <3> HIDE DEF T
    <3> QED BY <1>1, <2>1, <2>2, Counting
  <2> QED BY <2>3
<1>12. r \in 0..r /\ g[r] \in Seq(S)
  BY <1>1, <1>b
<1> QED BY <1>4, <1>5, <1>7, <1>9, <1>11, <1>12 DEF z

-----------------------------------------------------------------------------
(* What is sent: runs of results *)

\* Messages, whatever is said in them; results only.
AnyMsgs == [kind : Kinds, n : Nat, ids : Seq(Nat), id : Nat]
Results == {m \in AnyMsgs : m.kind = "result"}

\* The results behind position i end at e.
RunEnd(s, i, e) ==
    /\ e \in i..Len(s)
    /\ \A k \in (i+1)..e : s[k].kind = "result"
    /\ e < Len(s) => s[e+1].kind # "result"

\* The results behind a position end somewhere.
LEMMA RunExists ==
    ASSUME NEW s \in Seq(AnyMsgs), NEW i \in 1..Len(s)
    PROVE  \E e : RunEnd(s, i, e)
<1> DEFINE ends == {j \in i..Len(s) : \A k \in (i+1)..j : s[k].kind = "result"}
<1>1. Len(s) \in Nat /\ i \in ends /\ ends \subseteq 0..Len(s)
  OBVIOUS
<1>2. PICK e \in ends : \A k \in ends : k <= e
  BY <1>1, Greatest
<1>3. e \in i..Len(s) /\ \A k \in (i+1)..e : s[k].kind = "result"
  BY <1>2
<1>4. ASSUME e < Len(s), s[e+1].kind = "result" PROVE FALSE
  <2>1. e + 1 \in i..Len(s) /\ ~(e + 1 <= e)
    BY <1>1, <1>3, <1>4
  <2>2. ASSUME NEW k \in (i+1)..(e+1) PROVE s[k].kind = "result"
    <3>1. k = e + 1 \/ k \in (i+1)..e
      BY <1>3
    <3> QED BY <1>3, <1>4, <3>1
  <2> QED BY <1>2, <2>1, <2>2
<1> QED BY <1>3, <1>4 DEF RunEnd

\* ResultsAfter is that run.
LEMMA RunIs ==
    ASSUME NEW s \in Seq(AnyMsgs), NEW i \in 1..Len(s), NEW e, RunEnd(s, i, e)
    PROVE  ResultsAfter(s, i) = SubSeq(s, i + 1, e)
<1> DEFINE ends == {j \in i..Len(s) : \A k \in (i+1)..j : s[k].kind = "result"}
           c == CHOOSE j \in ends : \A k \in ends : k <= j
<1>1. Len(s) \in Nat /\ e \in i..Len(s) /\ e \in ends
  BY DEF RunEnd
<1>2. ASSUME NEW k \in ends PROVE k <= e
  <2> SUFFICES ASSUME ~(k <= e) PROVE FALSE
    OBVIOUS
  <2>1. k \in i..Len(s) /\ e + 1 \in (i+1)..k /\ e < Len(s)
    BY <1>1
  <2>2. s[e+1].kind = "result"
    BY <2>1
  <2> QED BY <2>1, <2>2 DEF RunEnd
<1>3. c \in ends /\ \A k \in ends : k <= c
  <2> HIDE DEF ends
  <2> QED BY <1>1, <1>2
<1>4. c = e
  <2>1. c <= e /\ e <= c /\ c \in i..Len(s)
    BY <1>1, <1>2, <1>3
  <2> QED BY <1>1, <2>1
<1>5. ResultsAfter(s, i) = SubSeq(s, i + 1, c)
  BY DEF ResultsAfter
<1> QED BY <1>4, <1>5

\* The results behind a position, one by one.
LEMMA RunElements ==
    ASSUME NEW s \in Seq(AnyMsgs), NEW i \in 1..Len(s), NEW e, RunEnd(s, i, e)
    PROVE  /\ ResultsAfter(s, i) \in Seq(Results) /\ Len(ResultsAfter(s, i)) = e - i
           /\ \A k \in 1..(e - i) : ResultsAfter(s, i)[k] = s[i + k]
<1> DEFINE t == SubSeq(s, i + 1, e)
<1>1. Len(s) \in Nat /\ i \in Nat /\ e \in Nat /\ i <= e /\ e <= Len(s)
  BY DEF RunEnd
<1>2. ASSUME NEW k \in (i+1)..e PROVE s[k] \in Results
  <2>1. k \in 1..Len(s) /\ s[k].kind = "result"
    BY <1>1 DEF RunEnd
  <2> QED BY <2>1, ElementOfSeq DEF Results
<1>3. /\ t \in Seq(Results) /\ Len(t) = IF i + 1 <= e THEN e - (i + 1) + 1 ELSE 0
      /\ \A k \in 1..(e - (i + 1) + 1) : t[k] = s[(i + 1) + k - 1]
  <2>1. i + 1 \in Int /\ e \in Int
    BY <1>1
  <2> QED BY <1>2, <2>1, SubSeqProperties
<1> HIDE DEF t
<1>4. ASSUME NEW k \in 1..(e - i) PROVE t[k] = s[i + k]
  <2>1. k \in 1..(e - (i + 1) + 1) /\ (i + 1) + k - 1 = i + k
    BY <1>1
  <2> QED BY <1>3, <2>1
<1>5. Len(t) = e - i
  BY <1>1, <1>3
<1>6. ResultsAfter(s, i) = t
  BY RunIs DEF t
<1> QED BY <1>3, <1>4, <1>5, <1>6

\* Calls are answered by the run behind them.
LEMMA AnsweredIs ==
    ASSUME NEW s \in Seq(AnyMsgs), NEW i \in 1..Len(s), NEW e, RunEnd(s, i, e)
    PROVE  Answered(s, i) <=> /\ Len(s[i].ids) = e - i
                              /\ \A k \in 1..(e - i) : s[i + k].id = s[i].ids[k]
<1> DEFINE r == ResultsAfter(s, i)
           ids == s[i].ids
           given_ids == [k \in DOMAIN r |-> r[k].id]
<1>1. /\ r \in Seq(Results) /\ Len(r) = e - i /\ \A k \in 1..(e - i) : r[k] = s[i + k]
  BY RunElements
<1>2. ids \in Seq(Nat)
  <2>1. s[i] \in AnyMsgs
    BY ElementOfSeq
  <2> QED BY <2>1 DEF AnyMsgs
<1>3. Answered(s, i) <=> given_ids = ids
  BY DEF Answered
<1> HIDE DEF r, ids
<1>4. /\ DOMAIN r = 1..(e - i) /\ e - i \in Nat /\ DOMAIN ids = 1..Len(ids) /\ Len(ids) \in Nat
      /\ ids = [k \in 1..Len(ids) |-> ids[k]]
  BY <1>1, <1>2
<1>5. given_ids = [k \in 1..(e - i) |-> s[i + k].id]
  BY <1>1, <1>4
<1>6. ASSUME given_ids = ids
      PROVE  Len(ids) = e - i /\ \A k \in 1..(e - i) : s[i + k].id = ids[k]
  <2>1. 1..Len(ids) = 1..(e - i)
    BY <1>4, <1>5, <1>6
  <2>2. Len(ids) = e - i
    BY <1>4, <2>1
  <2> QED BY <1>5, <1>6, <2>2
<1>7. ASSUME Len(ids) = e - i, \A k \in 1..(e - i) : s[i + k].id = ids[k]
      PROVE  given_ids = ids
  BY <1>4, <1>5, <1>7
<1> QED BY <1>3, <1>6, <1>7 DEF ids

\* Each call gets a result with its id; the results it has already, if they are its own.
LEMMA PairsResults ==
    ASSUME NEW call \in AnyMsgs, NEW avail \in Seq(Results)
    PROVE  /\ PairToolResults(call, avail) \in Seq(Results)
           /\ Len(PairToolResults(call, avail)) = Len(call.ids)
           /\ \A k \in 1..Len(call.ids) : PairToolResults(call, avail)[k].id = call.ids[k]
           /\ IdDistinct(call.ids) /\ Len(avail) = Len(call.ids)
                /\ (\A k \in 1..Len(avail) : avail[k].id = call.ids[k]) =>
                  PairToolResults(call, avail) = avail
<1> DEFINE ids == call.ids
           of(k) == {j \in DOMAIN avail : avail[j].id = ids[k]}
           last(k) == CHOOSE j \in of(k) : \A i \in of(k) : i <= j
           r == PairToolResults(call, avail)
<1>1. /\ ids \in Seq(Nat) /\ Len(ids) \in Nat /\ DOMAIN ids = 1..Len(ids)
      /\ \A k \in 1..Len(ids) : ids[k] \in Nat
  BY DEF AnyMsgs
<1>2. /\ Len(avail) \in Nat /\ DOMAIN avail = 1..Len(avail)
      /\ \A k \in 1..Len(avail) : avail[k] \in Results
  OBVIOUS
<1>3. ASSUME NEW k \in 1..Len(ids), of(k) # {}
      PROVE  /\ last(k) \in 1..Len(avail) /\ avail[last(k)].id = ids[k]
             /\ \A i \in of(k) : i <= last(k)
  <2>1. of(k) \subseteq 0..Len(avail)
    BY <1>2
  <2> DEFINE T == of(k)
  <2>2. \E x \in T : \A y \in T : y <= x
    <3> HIDE DEF T
    <3>1. T \subseteq 0..Len(avail) /\ T # {}
      BY <1>3, <2>1 DEF T
    <3> QED BY <1>2, <3>1, Greatest
  <2>3. last(k) \in of(k) /\ \A i \in of(k) : i <= last(k)
    BY <2>2
  <2> QED BY <1>2, <2>3
<1>4. r = [k \in 1..Len(ids) |->
             IF IdDistinct(ids)
             THEN IF of(k) = {} THEN Placeholder(call, ids[k]) ELSE avail[last(k)]
             ELSE IF k <= Len(avail) THEN [avail[k] EXCEPT !.id = ids[k]] ELSE Placeholder(call, ids[k])]
  BY <1>1 DEF PairToolResults
<1> HIDE DEF of, last, r
<1>5. ASSUME NEW k \in 1..Len(ids) PROVE r[k] \in Results /\ r[k].id = ids[k]
  <2>1. Placeholder(call, ids[k]) \in Results /\ Placeholder(call, ids[k]).id = ids[k]
    BY <1>1 DEF Placeholder, Results, AnyMsgs, Kinds
  <2>2. ASSUME k <= Len(avail)
        PROVE  [avail[k] EXCEPT !.id = ids[k]] \in Results /\ [avail[k] EXCEPT !.id = ids[k]].id = ids[k]
    <3>1. avail[k] \in Results /\ ids[k] \in Nat
      BY <1>1, <1>2, <2>2
    <3> QED BY <3>1 DEF Results, AnyMsgs
  <2>3. ASSUME of(k) # {} PROVE avail[last(k)] \in Results /\ avail[last(k)].id = ids[k]
    BY <1>2, <1>3, <2>3
  <2> QED BY <1>4, <2>1, <2>2, <2>3
<1>6. r \in Seq(Results) /\ Len(r) = Len(ids)
  <2> DEFINE n == Len(ids)
  <2>1. r \in [1..n -> Results] /\ n \in Nat
    BY <1>1, <1>4, <1>5
  <2> HIDE DEF n
  <2>2. r \in Seq(Results) /\ Len(r) = n
    BY <2>1
  <2> QED BY <2>2 DEF n
<1>7. ASSUME IdDistinct(ids), Len(avail) = Len(ids), \A k \in 1..Len(avail) : avail[k].id = ids[k]
      PROVE  r = avail
  <2>1. ASSUME NEW k \in 1..Len(ids) PROVE r[k] = avail[k]
    <3>1. k \in of(k)
      BY <1>2, <1>7 DEF of
    <3>2. last(k) \in 1..Len(ids) /\ ids[last(k)] = ids[k]
      BY <1>3, <1>7, <3>1
    <3>3. last(k) = k
      BY <1>1, <1>7, <3>2 DEF IdDistinct
    <3>4. r[k] = avail[last(k)]
      <4>1. of(k) # {}
        BY <3>1
      <4> QED BY <1>4, <1>7, <4>1
    <3> QED BY <3>3, <3>4
  <2>2. avail \in Seq(Results) /\ Len(r) = Len(avail) /\ \A k \in 1..Len(r) : r[k] = avail[k]
    BY <1>6, <1>7, <2>1
  <2> QED BY <1>6, <2>2, SeqEqual
<1> QED BY <1>5, <1>6, <1>7 DEF r

\* What message i puts into the request.
Piece(s, i) ==
    CASE s[i].kind = "calls"  -> <<s[i]>> \o PairToolResults(s[i], ResultsAfter(s, i))
      [] s[i].kind = "result" -> <<>>
      [] OTHER                -> <<s[i]>>

\* A sequence of one message.
LEMMA One ==
    ASSUME NEW m \in AnyMsgs
    PROVE  <<m>> \in Seq(AnyMsgs) /\ Len(<<m>>) = 1 /\ <<m>>[1] = m
  OBVIOUS

\* A message and results behind it.
LEMMA Headed ==
    ASSUME NEW m \in AnyMsgs, NEW r \in Seq(Results)
    PROVE  /\ <<m>> \o r \in Seq(AnyMsgs) /\ Len(<<m>> \o r) = Len(r) + 1
           /\ (<<m>> \o r)[1] = m
           /\ \A i \in 2..(Len(r) + 1) : (<<m>> \o r)[i] = r[i-1] /\ r[i-1] \in Results
<1>1. r \in Seq(AnyMsgs) /\ Len(r) \in Nat
  <2>1. Results \subseteq AnyMsgs
    BY DEF Results
  <2> QED BY <2>1, SeqMonotonic
<1> DEFINE one == <<m>>
<1>2. one \in Seq(AnyMsgs) /\ Len(one) = 1 /\ one[1] = m
  BY One
<1> HIDE DEF one
<1>3. /\ one \o r \in Seq(AnyMsgs) /\ Len(one \o r) = 1 + Len(r)
      /\ \A i \in 1..(1 + Len(r)) : (one \o r)[i] = IF i <= 1 THEN one[i] ELSE r[i - 1]
  <2> DEFINE z == one \o r
             o == Len(one)
  <2>1. /\ z \in Seq(AnyMsgs) /\ Len(z) = o + Len(r)
        /\ \A i \in 1..(o + Len(r)) : z[i] = IF i <= o THEN one[i] ELSE r[i - o]
    BY <1>1, <1>2, ConcatProperties
  <2>2. o = 1
    BY <1>2
  <2> HIDE DEF z, o
  <2>3. /\ z \in Seq(AnyMsgs) /\ Len(z) = 1 + Len(r)
        /\ \A i \in 1..(1 + Len(r)) : z[i] = IF i <= 1 THEN one[i] ELSE r[i - 1]
    BY <2>1, <2>2
  <2> QED BY <2>3 DEF z
<1>4. ASSUME NEW i \in 2..(Len(r) + 1)
      PROVE  (one \o r)[i] = r[i-1] /\ r[i-1] \in Results
  <2>1. i \in 1..(1 + Len(r)) /\ ~(i <= 1) /\ i - 1 \in 1..Len(r)
    BY <1>1
  <2> QED BY <1>3, <2>1, ElementOfSeq
<1>5. (one \o r)[1] = m
  <2>1. 1 \in 1..(1 + Len(r))
    BY <1>1
  <2> QED BY <1>2, <1>3, <2>1
<1> QED BY <1>1, <1>3, <1>4, <1>5 DEF one

\* A message puts into the request a piece that is in order by itself.
LEMMA PiecePaired ==
    ASSUME NEW s \in Seq(AnyMsgs), NEW i \in 1..Len(s)
    PROVE  Piece(s, i) \in Seq(AnyMsgs) /\ Paired(Piece(s, i))
<1> DEFINE m == s[i]
           r == PairToolResults(m, ResultsAfter(s, i))
           p == <<m>> \o r
<1>1. m \in AnyMsgs
  BY ElementOfSeq
<1>2. CASE m.kind = "calls"
  <2>1. ResultsAfter(s, i) \in Seq(Results)
    BY RunExists, RunElements
  <2>2. /\ r \in Seq(Results) /\ Len(r) = Len(m.ids)
        /\ \A k \in 1..Len(m.ids) : r[k].id = m.ids[k]
    BY <1>1, <2>1, PairsResults
  <2> HIDE DEF r
  <2>3. /\ p \in Seq(AnyMsgs) /\ Len(p) = Len(r) + 1 /\ p[1] = m
        /\ \A j \in 2..(Len(r) + 1) : p[j] = r[j-1] /\ r[j-1] \in Results
    BY <1>1, <2>2, Headed
  <2>4. Piece(s, i) = p
    BY <1>2 DEF Piece, r
  <2> HIDE DEF p
  <2>5. Len(p) \in Nat /\ 1 \in 1..Len(p) /\ Len(r) \in Nat
    BY <2>2, <2>3
  <2>6. RunEnd(p, 1, Len(p))
    <3>1. ASSUME NEW k \in (1+1)..Len(p) PROVE p[k].kind = "result"
      <4>1. k \in 2..(Len(r) + 1)
        BY <2>3, <2>5
      <4>2. p[k] \in Results
        BY <2>3, <4>1
      <4> QED BY <4>2 DEF Results
    <3>2. Len(p) \in 1..Len(p) /\ ~(Len(p) < Len(p))
      BY <2>5
    <3> QED BY <3>1, <3>2 DEF RunEnd
  <2>7. Answered(p, 1)
    <3>1. Len(p[1].ids) = Len(p) - 1
      BY <2>2, <2>3, <2>5
    <3>2. ASSUME NEW k \in 1..(Len(p) - 1) PROVE p[1 + k].id = p[1].ids[k]
      <4>1. 1 + k \in 2..(Len(r) + 1) /\ (1 + k) - 1 = k /\ k \in 1..Len(m.ids)
        BY <2>2, <2>3, <2>5
      <4> QED BY <2>2, <2>3, <4>1
    <3> QED BY <2>3, <2>5, <2>6, <3>1, <3>2, AnsweredIs
  <2>8. ASSUME NEW j \in DOMAIN p
        PROVE  /\ p[j].kind = "calls" => Answered(p, j)
               /\ p[j].kind = "result" => j > 1 /\ p[j-1].kind \in {"calls", "result"}
    <3>1. j \in 1..(Len(r) + 1)
      BY <2>3
    <3>2. CASE j = 1
      BY <1>2, <2>3, <2>7, <3>2
    <3>3. CASE j # 1
      <4>1. j \in 2..(Len(r) + 1) /\ (j = 2 \/ j - 1 \in 2..(Len(r) + 1))
        <5> DEFINE n == Len(r)
        <5>1. n \in Nat /\ j \in 1..(n + 1)
          BY <2>5, <3>1
        <5> HIDE DEF n
        <5>2. j \in 2..(n + 1) /\ (j = 2 \/ j - 1 \in 2..(n + 1))
          BY <3>3, <5>1
        <5> QED BY <5>2 DEF n
      <4>2. p[j].kind = "result"
        BY <2>3, <4>1 DEF Results
      <4>3. p[j-1].kind \in {"calls", "result"}
        <5>1. CASE j = 2
          BY <1>2, <2>3, <5>1
        <5>2. CASE j - 1 \in 2..(Len(r) + 1)
          BY <2>3, <5>2 DEF Results
        <5> QED BY <4>1, <5>1, <5>2
      <4> QED BY <4>1, <4>2, <4>3
    <3> QED BY <3>2, <3>3
  <2> QED BY <2>3, <2>4, <2>8 DEF Paired
<1>3. CASE m.kind = "result"
  <2>1. Piece(s, i) = <<>>
    BY <1>3 DEF Piece
  <2>2. <<>> \in Seq(AnyMsgs) /\ DOMAIN <<>> = {}
    OBVIOUS
  <2> QED BY <2>1, <2>2 DEF Paired
<1>4. CASE m.kind \notin {"calls", "result"}
  <2>1. Piece(s, i) = <<m>>
    BY <1>4 DEF Piece
  <2>2. DOMAIN <<m>> = {1} /\ <<m>>[1] = m /\ <<m>> \in Seq(AnyMsgs)
    BY <1>1
  <2> QED BY <1>4, <2>1, <2>2 DEF Paired
<1> QED BY <1>2, <1>3, <1>4

\* Putting two conversations in order behind each other gives one in order.
LEMMA PairedParts ==
    ASSUME NEW a \in Seq(AnyMsgs), NEW b \in Seq(AnyMsgs), Paired(a), Paired(b)
    PROVE  a \o b \in Seq(AnyMsgs) /\ Paired(a \o b)
<1> DEFINE z == a \o b
           l == Len(a)
           r == Len(b)
<1>1. /\ z \in Seq(AnyMsgs) /\ Len(z) = l + r /\ DOMAIN z = 1..(l + r)
      /\ \A i \in 1..(l + r) : z[i] = IF i <= l THEN a[i] ELSE b[i - l]
  BY ConcatProperties, LenProperties
<1>2. l \in Nat /\ r \in Nat /\ DOMAIN a = 1..l /\ DOMAIN b = 1..r
  OBVIOUS
<1> HIDE DEF z
<1>3. \A i \in 1..l : z[i] = a[i]
  BY <1>1, <1>2
<1>4. \A j \in 1..r : z[l + j] = b[j]
  <2> TAKE j \in 1..r
  <2>1. l + j \in 1..(l + r) /\ ~(l + j <= l) /\ (l + j) - l = j
    BY <1>2
  <2> QED BY <1>1, <2>1
<1>5. ASSUME r # 0 PROVE b[1].kind # "result"
  <2>1. 1 \in DOMAIN b /\ ~(1 > 1)
    BY <1>2, <1>5
  <2>2. b[1].kind = "result" => 1 > 1
    <3>1. Paired(b)
      OBVIOUS
    <3> HIDE DEF l, r
    <3> QED BY <2>1, <3>1 DEF Paired
  <2> QED BY <2>1, <2>2
<1>6. ASSUME NEW i \in 1..l, NEW e, RunEnd(a, i, e) PROVE RunEnd(z, i, e)
  <2>1. e \in i..l /\ \A k \in (i+1)..e : a[k].kind = "result"
    BY <1>6 DEF RunEnd
  <2>2. e \in i..Len(z)
    BY <1>1, <1>2, <2>1
  <2>3. ASSUME NEW k \in (i+1)..e PROVE z[k].kind = "result"
    <3>1. k \in 1..l
      BY <1>2, <2>1
    <3> QED BY <1>3, <2>1, <3>1
  <2>4. ASSUME e < Len(z) PROVE z[e+1].kind # "result"
    <3>1. CASE e < l
      <4>1. e + 1 \in 1..l /\ a[e+1].kind # "result"
        BY <1>2, <1>6, <2>1, <3>1 DEF RunEnd
      <4> QED BY <1>3, <4>1
    <3>2. CASE ~(e < l)
      <4>1. e \in Nat /\ e <= l /\ e < l + r /\ l \in Nat /\ r \in Nat
        BY <1>1, <1>2, <2>1, <2>4
      <4>2. e = l /\ r # 0 /\ 1 \in 1..r /\ l + 1 = e + 1
        BY <3>2, <4>1
      <4> QED BY <1>4, <1>5, <4>2
    <3> QED BY <3>1, <3>2
  <2> QED BY <2>2, <2>3, <2>4 DEF RunEnd
<1>7. ASSUME NEW j \in 1..r, NEW e, RunEnd(b, j, e) PROVE RunEnd(z, l + j, l + e)
  <2>1. e \in j..r /\ \A k \in (j+1)..e : b[k].kind = "result"
    BY <1>7 DEF RunEnd
  <2>2. l + e \in (l + j)..Len(z)
    BY <1>1, <1>2, <2>1
  <2>3. ASSUME NEW k \in (l + j + 1)..(l + e) PROVE z[k].kind = "result"
    <3>1. k - l \in (j + 1)..e /\ k - l \in 1..r /\ l + (k - l) = k
      BY <1>2, <2>1
    <3> QED BY <1>4, <2>1, <3>1
  <2>4. ASSUME l + e < Len(z) PROVE z[l + e + 1].kind # "result"
    <3>1. e < r /\ e + 1 \in 1..r /\ l + (e + 1) = l + e + 1
      BY <1>1, <1>2, <2>1, <2>4
    <3>2. b[e+1].kind # "result"
      BY <1>7, <3>1 DEF RunEnd
    <3> QED BY <1>4, <3>1, <3>2
  <2> QED BY <2>2, <2>3, <2>4 DEF RunEnd
<1>8. ASSUME NEW i \in 1..l
      PROVE  /\ z[i].kind = "calls" => Answered(z, i)
             /\ z[i].kind = "result" => i > 1 /\ z[i-1].kind \in {"calls", "result"}
  <2>1. z[i] = a[i] /\ i \in 1..Len(z)
    BY <1>1, <1>2, <1>3
  <2>2. ASSUME a[i].kind = "calls" PROVE Answered(z, i)
    <3>1. PICK e : RunEnd(a, i, e)
      BY RunExists
    <3>2. RunEnd(z, i, e) /\ e \in i..l
      BY <1>6, <3>1 DEF RunEnd
    <3>3. Len(a[i].ids) = e - i /\ \A k \in 1..(e - i) : a[i + k].id = a[i].ids[k]
      <4>1. Answered(a, i)
        BY <1>2, <2>2 DEF Paired
      <4> QED BY <3>1, <4>1, AnsweredIs
    <3>4. ASSUME NEW k \in 1..(e - i) PROVE z[i + k].id = z[i].ids[k]
      <4>1. i + k \in 1..l
        BY <1>2, <3>2
      <4> QED BY <1>3, <2>1, <3>3, <4>1
    <3>5. Len(z[i].ids) = e - i /\ i \in 1..Len(z)
      BY <2>1, <3>3
    <3> QED BY <1>1, <2>1, <3>2, <3>4, <3>5, AnsweredIs
  <2>3. ASSUME a[i].kind = "result" PROVE i > 1 /\ z[i-1].kind \in {"calls", "result"}
    <3>1. i > 1 /\ a[i-1].kind \in {"calls", "result"}
      BY <1>2, <2>3 DEF Paired
    <3>2. i - 1 \in 1..l
      BY <1>2, <3>1
    <3> QED BY <1>3, <3>1, <3>2
  <2> QED BY <2>1, <2>2, <2>3
<1>9. ASSUME NEW j \in 1..r
      PROVE  /\ z[l + j].kind = "calls" => Answered(z, l + j)
             /\ z[l + j].kind = "result" => l + j > 1 /\ z[l + j - 1].kind \in {"calls", "result"}
  <2>1. z[l + j] = b[j] /\ l + j \in 1..Len(z)
    BY <1>1, <1>2, <1>4
  <2>2. ASSUME b[j].kind = "calls" PROVE Answered(z, l + j)
    <3>1. PICK e : RunEnd(b, j, e)
      BY RunExists
    <3>2. RunEnd(z, l + j, l + e) /\ e \in j..r /\ (l + e) - (l + j) = e - j
      <4>1. e \in j..r
        BY <3>1 DEF RunEnd
      <4> QED BY <1>2, <1>7, <3>1, <4>1
    <3>3. Len(b[j].ids) = e - j /\ \A k \in 1..(e - j) : b[j + k].id = b[j].ids[k]
      <4>1. Answered(b, j)
        BY <1>2, <2>2 DEF Paired
      <4> QED BY <3>1, <4>1, AnsweredIs
    <3>4. ASSUME NEW k \in 1..((l + e) - (l + j)) PROVE z[(l + j) + k].id = z[l + j].ids[k]
      <4>1. j + k \in 1..r /\ l + (j + k) = (l + j) + k /\ k \in 1..(e - j)
        BY <1>2, <3>2
      <4>2. z[(l + j) + k] = b[j + k]
        BY <1>4, <4>1
      <4> QED BY <2>1, <3>3, <4>1, <4>2
    <3>5. Len(z[l + j].ids) = (l + e) - (l + j)
      BY <2>1, <3>2, <3>3
    <3> QED BY <1>1, <2>1, <3>2, <3>4, <3>5, AnsweredIs
  <2>3. ASSUME b[j].kind = "result" PROVE l + j > 1 /\ z[l + j - 1].kind \in {"calls", "result"}
    <3>1. j > 1 /\ b[j-1].kind \in {"calls", "result"}
      BY <1>2, <2>3 DEF Paired
    <3>2. j - 1 \in 1..r /\ l + (j - 1) = l + j - 1 /\ l + j > 1
      BY <1>2, <3>1
    <3>3. z[l + j - 1] = b[j - 1]
      BY <1>4, <3>2
    <3> QED BY <3>1, <3>2, <3>3
  <2> QED BY <2>1, <2>2, <2>3
<1>10. ASSUME NEW i \in DOMAIN z
       PROVE  /\ z[i].kind = "calls" => Answered(z, i)
              /\ z[i].kind = "result" => i > 1 /\ z[i-1].kind \in {"calls", "result"}
  <2>1. CASE i <= l
    <3>1. i \in 1..l
      BY <1>1, <1>2, <2>1
    <3> QED BY <1>8, <3>1
  <2>2. CASE ~(i <= l)
    <3>1. i - l \in 1..r /\ l + (i - l) = i
      BY <1>1, <1>2, <2>2
    <3> QED BY <1>9, <3>1
  <2> QED BY <2>1, <2>2
<1> QED BY <1>1, <1>10 DEF Paired, z

\* What is said in a conversation, message by message.
Voices(s) == [i \in DOMAIN s |-> IF s[i].kind = "result" THEN <<>> ELSE <<s[i]>>]

\* What each message says, as a sequence of sequences.
LEMMA VoicesAre ==
    ASSUME NEW s \in Seq(AnyMsgs)
    PROVE  /\ Voices(s) \in Seq(Seq(AnyMsgs)) /\ Voices(s) \in [1..Len(s) -> Seq(AnyMsgs)]
           /\ Len(Voices(s)) = Len(s)
           /\ \A i \in 1..Len(s) : Voices(s)[i] = IF s[i].kind = "result" THEN <<>> ELSE <<s[i]>>
<1> DEFINE n == Len(s)
           V == Seq(AnyMsgs)
<1>1. n \in Nat /\ DOMAIN s = 1..n
  OBVIOUS
<1>2. ASSUME NEW i \in 1..n PROVE (IF s[i].kind = "result" THEN <<>> ELSE <<s[i]>>) \in V
  <2>1. s[i] \in AnyMsgs
    BY ElementOfSeq
  <2> QED BY <2>1
<1>3. Voices(s) = [i \in 1..n |-> IF s[i].kind = "result" THEN <<>> ELSE <<s[i]>>]
  BY <1>1 DEF Voices
<1> HIDE DEF n, V
<1>4. Voices(s) \in [1..n -> V]
  BY <1>2, <1>3
<1>5. Voices(s) \in Seq(V) /\ Len(Voices(s)) = n
  BY <1>1, <1>4
<1> QED BY <1>3, <1>4, <1>5 DEF n, V

\* What is said in two conversations behind each other is what is said in each.
LEMMA SpokenParts ==
    ASSUME NEW a \in Seq(AnyMsgs), NEW b \in Seq(AnyMsgs)
    PROVE  Spoken(a) \in Seq(AnyMsgs) /\ Spoken(a \o b) = Spoken(a) \o Spoken(b)
<1> DEFINE z == a \o b
           l == Len(a)
           r == Len(b)
           V == Seq(AnyMsgs)
           x == Voices(a)
           y == Voices(b)
           w == x \o y
<1>1. /\ z \in Seq(AnyMsgs) /\ Len(z) = l + r /\ l \in Nat /\ r \in Nat
      /\ \A i \in 1..(l + r) : z[i] = IF i <= l THEN a[i] ELSE b[i - l]
  BY ConcatProperties
<1>2. /\ x \in Seq(V) /\ Len(x) = l
      /\ \A i \in 1..l : x[i] = IF a[i].kind = "result" THEN <<>> ELSE <<a[i]>>
  BY VoicesAre
<1>3. /\ y \in Seq(V) /\ Len(y) = r
      /\ \A i \in 1..r : y[i] = IF b[i].kind = "result" THEN <<>> ELSE <<b[i]>>
  BY VoicesAre
<1> HIDE DEF z, x, y
<1>4. /\ Voices(z) \in Seq(V) /\ Len(Voices(z)) = l + r
      /\ \A i \in 1..(l + r) : Voices(z)[i] = IF z[i].kind = "result" THEN <<>> ELSE <<z[i]>>
  <2>1. /\ Voices(z) \in Seq(V) /\ Len(Voices(z)) = Len(z)
        /\ \A i \in 1..Len(z) : Voices(z)[i] = IF z[i].kind = "result" THEN <<>> ELSE <<z[i]>>
    BY <1>1, VoicesAre
  <2>2. Len(z) = l + r
    BY <1>1
  <2> HIDE DEF V, l, r
  <2> QED BY <2>1, <2>2
<1> HIDE DEF V, l, r
<1>5. /\ w \in Seq(V) /\ Len(w) = l + r
      /\ \A i \in 1..(l + r) : w[i] = IF i <= l THEN x[i] ELSE y[i - l]
  <2>1. /\ w \in Seq(V) /\ Len(w) = Len(x) + Len(y)
        /\ \A i \in 1..(Len(x) + Len(y)) : w[i] = IF i <= Len(x) THEN x[i] ELSE y[i - Len(x)]
    <3>1. x \in Seq(V) /\ y \in Seq(V)
      BY <1>2, <1>3
    <3> QED BY <3>1, ConcatProperties
  <2>2. Len(x) = l /\ Len(y) = r
    BY <1>2, <1>3
  <2> HIDE DEF w
  <2> QED BY <2>1, <2>2
<1> HIDE DEF w
<1>6. ASSUME NEW i \in 1..(l + r) PROVE Voices(z)[i] = w[i]
  <2>1. CASE i <= l
    <3>1. i \in 1..l
      BY <1>1, <2>1
    <3>2. z[i] = a[i] /\ w[i] = x[i]
      BY <1>1, <1>5, <2>1
    <3> QED BY <1>2, <1>4, <3>1, <3>2
  <2>2. CASE ~(i <= l)
    <3>1. i - l \in 1..r
      BY <1>1, <2>2
    <3>2. z[i] = b[i - l] /\ w[i] = y[i - l]
      BY <1>1, <1>5, <2>2
    <3> QED BY <1>3, <1>4, <3>1, <3>2
  <2> QED BY <2>1, <2>2
<1>7. Voices(z) = w
  <2>1. Len(Voices(z)) = Len(w) /\ \A i \in 1..Len(Voices(z)) : Voices(z)[i] = w[i]
    BY <1>4, <1>5, <1>6
  <2> QED BY <1>4, <1>5, <2>1, SeqEqual
<1>8. /\ FlattenSeq(x) \in Seq(AnyMsgs)
      /\ FlattenSeq(w) = FlattenSeq(x) \o FlattenSeq(y)
  BY <1>2, <1>3, FlattenParts DEF V, w
<1>9. Spoken(a) = FlattenSeq(x) /\ Spoken(b) = FlattenSeq(y) /\ Spoken(z) = FlattenSeq(Voices(z))
  BY DEF Spoken, Voices, x, y
<1> QED BY <1>7, <1>8, <1>9 DEF z

\* Results say nothing.
LEMMA SpokenNone ==
    ASSUME NEW s \in Seq(Results)
    PROVE  s \in Seq(AnyMsgs) /\ Spoken(s) = <<>>
<1> DEFINE n == Len(s)
           x == Voices(s)
<1>1. s \in Seq(AnyMsgs) /\ n \in Nat
  <2>1. Results \subseteq AnyMsgs
    BY DEF Results
  <2> QED BY <2>1, SeqMonotonic
<1>2. x \in [1..n -> Seq(AnyMsgs)] /\ \A i \in 1..n : x[i] = <<>>
  <2>1. ASSUME NEW i \in 1..n PROVE s[i].kind = "result"
    <3>1. s[i] \in Results
      BY ElementOfSeq
    <3> QED BY <3>1 DEF Results
  <2> QED BY <1>1, <2>1, VoicesAre
<1> HIDE DEF n, x
<1>3. PICK f : Joins(f, AnyMsgs, n, x) /\ FlattenSeq(x) = f[n]
  BY <1>1, <1>2, FlattenSteps
<1> DEFINE T == {i \in 0..n : f[i] = <<>>}
<1>4. 0 \in T
  BY <1>1, <1>3 DEF Joins
<1>5. ASSUME NEW i \in 1..n, i - 1 \in T PROVE i \in T
  <2>1. f[i-1] = <<>> /\ x[i] = <<>> /\ i \in 0..n
    BY <1>1, <1>2, <1>5
  <2>2. f[i] = f[i-1] \o x[i]
    BY <1>3 DEF Joins
  <2>3. <<>> \in Seq(AnyMsgs)
    OBVIOUS
  <2>4. <<>> \o <<>> = <<>>
    BY <2>3, ConcatEmptySeq
  <2>5. f[i] = <<>>
    BY <2>1, <2>2, <2>4
  <2> QED BY <2>1, <2>5
<1>6. n \in T
  <2> HIDE DEF T
  <2>1. n \in 0..n
    BY <1>1
  <2> QED BY <1>1, <1>4, <1>5, <2>1, Counting
<1>7. Spoken(s) = FlattenSeq(x)
  BY DEF Spoken, Voices, x
<1> QED BY <1>1, <1>3, <1>6, <1>7

\* Any other message says itself.
LEMMA SpokenOne ==
    ASSUME NEW m \in AnyMsgs, m.kind # "result"
    PROVE  <<m>> \in Seq(AnyMsgs) /\ Spoken(<<m>>) = <<m>>
<1> DEFINE s == <<m>>
           x == Voices(s)
<1>1. s \in Seq(AnyMsgs) /\ Len(s) = 1 /\ s[1] = m
  BY One
<1> HIDE DEF s
<1>2. x \in [1..1 -> Seq(AnyMsgs)] /\ x[1] = s
  <2>1. x \in [1..Len(s) -> Seq(AnyMsgs)]
    BY <1>1, VoicesAre
  <2>2. x[1] = IF s[1].kind = "result" THEN <<>> ELSE <<s[1]>>
    <3>1. 1 \in 1..Len(s)
      BY <1>1
    <3> QED BY <1>1, <3>1, VoicesAre
  <2> QED BY <1>1, <2>1, <2>2 DEF s
<1> HIDE DEF x
<1>3. PICK f : Joins(f, AnyMsgs, 1, x) /\ FlattenSeq(x) = f[1]
  BY <1>2, FlattenSteps
<1>4. f[1] = f[1-1] \o x[1] /\ f[0] = <<>>
  <2>1. 1 \in 1..1
    OBVIOUS
  <2> QED BY <1>3, <2>1 DEF Joins
<1>5. <<>> \o s = s
  BY <1>1, ConcatEmptySeq
<1>6. f[1] = s
  BY <1>2, <1>4, <1>5
<1>7. Spoken(s) = FlattenSeq(x)
  BY DEF Spoken, Voices, x
<1> QED BY <1>1, <1>3, <1>6, <1>7 DEF s

\* A message puts into the request what it says, and no more.
LEMMA PieceSpoken ==
    ASSUME NEW s \in Seq(AnyMsgs), NEW i \in 1..Len(s)
    PROVE  Spoken(Piece(s, i)) = Voices(s)[i]
<1> DEFINE m == s[i]
           r == PairToolResults(m, ResultsAfter(s, i))
<1>1. m \in AnyMsgs /\ Voices(s)[i] = IF m.kind = "result" THEN <<>> ELSE <<m>>
  BY ElementOfSeq, VoicesAre
<1> HIDE DEF m
<1>2. CASE m.kind = "calls"
  <2>1. ResultsAfter(s, i) \in Seq(Results)
    BY RunExists, RunElements
  <2>2. r \in Seq(Results)
    BY <1>1, <2>1, PairsResults
  <2>3. Piece(s, i) = <<m>> \o r
    BY <1>2 DEF Piece, m
  <2> HIDE DEF r
  <2>4. r \in Seq(AnyMsgs) /\ Spoken(r) = <<>>
    BY <2>2, SpokenNone
  <2>5. <<m>> \in Seq(AnyMsgs) /\ Spoken(<<m>>) = <<m>>
    BY <1>1, <1>2, SpokenOne
  <2>6. Spoken(<<m>> \o r) = Spoken(<<m>>) \o Spoken(r)
    BY <2>4, <2>5, SpokenParts
  <2>7. <<m>> \o <<>> = <<m>>
    BY <2>5, ConcatEmptySeq
  <2> QED BY <1>1, <1>2, <2>3, <2>4, <2>5, <2>6, <2>7
<1>3. CASE m.kind = "result"
  <2>1. Piece(s, i) = <<>>
    BY <1>3 DEF Piece, m
  <2>2. <<>> \in Seq(Results)
    OBVIOUS
  <2>3. Spoken(<<>>) = <<>>
    BY <2>2, SpokenNone
  <2> QED BY <1>1, <1>3, <2>1, <2>3
<1>4. CASE m.kind \notin {"calls", "result"}
  <2>1. Piece(s, i) = <<m>>
    BY <1>4 DEF Piece, m
  <2>2. Spoken(<<m>>) = <<m>>
    BY <1>1, <1>4, SpokenOne
  <2> QED BY <1>1, <1>4, <2>1, <2>2
<1> QED BY <1>2, <1>3, <1>4

-----------------------------------------------------------------------------
(* What is sent: the whole request *)

\* The request is its pieces behind each other.
LEMMA PiecesAre ==
    ASSUME NEW s \in Seq(AnyMsgs)
    PROVE  \E f : Joins(f, AnyMsgs, Len(s), [i \in 1..Len(s) |-> Piece(s, i)]) /\ Sanitize(s) = f[Len(s)]
<1> DEFINE n == Len(s)
           p == [i \in 1..n |-> Piece(s, i)]
<1>1. n \in Nat /\ DOMAIN s = 1..n
  OBVIOUS
<1>2. p \in [1..n -> Seq(AnyMsgs)]
  <2>1. ASSUME NEW i \in 1..n PROVE Piece(s, i) \in Seq(AnyMsgs)
    BY PiecePaired
  <2> QED BY <2>1
<1>3. Sanitize(s) = FlattenSeq(p)
  BY <1>1 DEF Sanitize, Piece
<1> HIDE DEF n, p
<1>4. \E f : Joins(f, AnyMsgs, n, p) /\ FlattenSeq(p) = f[n]
  BY <1>1, <1>2, FlattenSteps
<1> QED BY <1>3, <1>4 DEF n, p

\* The request is in order and leaves out nothing that was said.
LEMMA SentInOrder ==
    ASSUME NEW s \in Seq(AnyMsgs)
    PROVE  Paired(Sanitize(s)) /\ Spoken(Sanitize(s)) = Spoken(s)
<1> DEFINE n == Len(s)
           p == [i \in 1..n |-> Piece(s, i)]
           v == Voices(s)
<1>1. n \in Nat /\ v \in [1..n -> Seq(AnyMsgs)]
  BY VoicesAre
<1>2. PICK f : Joins(f, AnyMsgs, n, p) /\ Sanitize(s) = f[n]
  BY PiecesAre
<1>3. /\ f \in [0..n -> Seq(AnyMsgs)] /\ f[0] = <<>>
      /\ \A i \in 1..n : f[i] = f[i-1] \o p[i]
  BY <1>2 DEF Joins
<1>4. PICK g : Joins(g, AnyMsgs, n, v) /\ FlattenSeq(v) = g[n]
  <2> HIDE DEF n, v
  <2> QED BY <1>1, FlattenSteps
<1>5. /\ g \in [0..n -> Seq(AnyMsgs)] /\ g[0] = <<>>
      /\ \A i \in 1..n : g[i] = g[i-1] \o v[i]
  BY <1>4 DEF Joins
<1>6. ASSUME NEW i \in 1..n
      PROVE  p[i] \in Seq(AnyMsgs) /\ Paired(p[i]) /\ Spoken(p[i]) = v[i]
  BY PiecePaired, PieceSpoken
<1> HIDE DEF n, p, v
<1> DEFINE T == {i \in 0..n : Paired(f[i]) /\ Spoken(f[i]) = g[i]}
<1>7. 0 \in T
  <2>1. Paired(<<>>)
    <3>1. DOMAIN <<>> = {}
      OBVIOUS
    <3> QED BY <3>1 DEF Paired
  <2>2. Spoken(<<>>) = <<>>
    <3>1. <<>> \in Seq(Results)
      OBVIOUS
    <3> QED BY <3>1, SpokenNone
  <2> QED BY <1>1, <1>3, <1>5, <2>1, <2>2
<1>8. ASSUME NEW i \in 1..n, i - 1 \in T PROVE i \in T
  <2> DEFINE a == f[i-1]
             b == p[i]
  <2>1. a \in Seq(AnyMsgs) /\ b \in Seq(AnyMsgs) /\ Paired(a) /\ Paired(b)
    BY <1>3, <1>6, <1>8
  <2>2. f[i] = a \o b
    BY <1>3
  <2>3. Spoken(a) = g[i-1] /\ Spoken(b) = v[i]
    BY <1>6, <1>8
  <2> HIDE DEF a, b
  <2>4. Paired(a \o b)
    BY <2>1, PairedParts
  <2>5. Spoken(a \o b) = Spoken(a) \o Spoken(b)
    BY <2>1, SpokenParts
  <2>6. i \in 0..n
    BY <1>1
  <2>7. Spoken(f[i]) = g[i]
    <3>1. g[i] = g[i-1] \o v[i]
      BY <1>5
    <3> QED BY <2>2, <2>3, <2>5, <3>1
  <2>8. Paired(f[i])
    BY <2>2, <2>4
  <2> QED BY <2>6, <2>7, <2>8
<1>9. n \in T
  <2> HIDE DEF T
  <2>1. n \in 0..n
    BY <1>1
  <2> QED BY <1>1, <1>7, <1>8, <2>1, Counting
<1>10. Spoken(s) = FlattenSeq(v)
  BY DEF Spoken, Voices, v
<1> QED BY <1>2, <1>4, <1>9, <1>10

\* A log in order whose calls have ids of their own is sent as it is.
LEMMA SentAsIs ==
    ASSUME NEW s \in Seq(AnyMsgs), Paired(s),
           \A i \in 1..Len(s) : s[i].kind = "calls" => IdDistinct(s[i].ids)
    PROVE  Sanitize(s) = s
<1> DEFINE n == Len(s)
           p == [i \in 1..n |-> Piece(s, i)]
<1>1. n \in Nat /\ DOMAIN s = 1..n
  OBVIOUS
<1>2. PICK f : Joins(f, AnyMsgs, n, p) /\ Sanitize(s) = f[n]
  BY PiecesAre
<1>3. /\ f \in [0..n -> Seq(AnyMsgs)] /\ f[0] = <<>>
      /\ \A i \in 1..n : f[i] = f[i-1] \o p[i]
  BY <1>2 DEF Joins
<1>4. ASSUME NEW i \in 1..n PROVE p[i] = Piece(s, i)
  OBVIOUS
<1> HIDE DEF p
\* What a message that is no result puts into the request: itself and its results.
<1>5. ASSUME NEW i \in 1..n, s[i].kind # "result", NEW e, RunEnd(s, i, e)
      PROVE  p[i] = SubSeq(s, i, e)
  <2>1. e \in i..n /\ i \in 1..n
    BY <1>1, <1>5 DEF RunEnd
  <2>2. SubSeq(s, i, e) = <<s[i]>> \o SubSeq(s, i + 1, e)
    BY <2>1, SubSeqRecursiveFirst
  <2>3. CASE s[i].kind = "calls"
    <3> DEFINE r == ResultsAfter(s, i)
    <3>1. /\ r \in Seq(Results) /\ Len(r) = e - i
          /\ \A k \in 1..(e - i) : r[k] = s[i + k]
      BY <1>5, RunElements
    <3>2. r = SubSeq(s, i + 1, e)
      BY <1>5, RunIs
    <3>3. Len(s[i].ids) = e - i /\ \A k \in 1..(e - i) : s[i + k].id = s[i].ids[k]
      <4>1. Answered(s, i)
        BY <1>1, <2>3 DEF Paired
      <4> QED BY <1>5, <4>1, AnsweredIs
    <3>4. s[i] \in AnyMsgs /\ IdDistinct(s[i].ids)
      BY <2>3, ElementOfSeq
    <3> HIDE DEF r
    <3>5. Len(r) = Len(s[i].ids) /\ \A k \in 1..Len(r) : r[k].id = s[i].ids[k]
      BY <3>1, <3>3
    <3>6. PairToolResults(s[i], r) = r
      BY <3>1, <3>4, <3>5, PairsResults
    <3>7. p[i] = <<s[i]>> \o PairToolResults(s[i], r)
      BY <1>4, <2>3 DEF Piece, r
    <3> QED BY <2>2, <3>2, <3>6, <3>7
  <2>4. CASE s[i].kind # "calls"
    <3>1. e = i
      <4> SUFFICES ASSUME e # i PROVE FALSE
        OBVIOUS
      <4>1. i + 1 \in (i+1)..e /\ i + 1 \in 1..n /\ (i + 1) - 1 = i
        BY <1>1, <2>1
      <4>2. s[i+1].kind = "result"
        BY <1>5, <4>1 DEF RunEnd
      <4>3. s[(i+1)-1].kind \in {"calls", "result"}
        BY <1>1, <4>1, <4>2 DEF Paired
      <4> QED BY <1>5, <2>4, <4>1, <4>3
    <3>2. p[i] = <<s[i]>>
      BY <1>4, <1>5, <2>4 DEF Piece
    <3>3. SubSeq(s, i + 1, e) = <<>>
      BY <2>1, <3>1, SubSeqEmpty
    <3>4. <<s[i]>> \o <<>> = <<s[i]>>
      <4>1. <<s[i]>> \in Seq(AnyMsgs)
        BY One, ElementOfSeq
      <4> QED BY <4>1, ConcatEmptySeq
    <3> QED BY <2>2, <3>2, <3>3, <3>4
  <2> QED BY <2>3, <2>4
<1> DEFINE T == {i \in 0..n : i = 0 \/ \E e : RunEnd(s, i, e) /\ f[i] = SubSeq(s, 1, e)}
<1>6. 0 \in T
  BY <1>1
<1>7. ASSUME NEW i \in 1..n, i - 1 \in T PROVE i \in T
  <2>1. PICK e : RunEnd(s, i, e)
    BY RunExists
  <2>2. e \in i..n /\ i \in 0..n /\ f[i] = f[i-1] \o p[i]
    <3>1. e \in i..n /\ i \in 0..n
      BY <1>1, <2>1 DEF RunEnd
    <3>2. f[i] = f[i-1] \o p[i]
      BY <1>3
    <3> QED BY <3>1, <3>2
  <2>3. CASE s[i].kind = "result"
    <3>1. i - 1 \in 1..n
      BY <1>1, <2>3 DEF Paired
    <3>2. PICK d : RunEnd(s, i - 1, d) /\ f[i-1] = SubSeq(s, 1, d)
      BY <1>7, <3>1
    <3>3. d \in (i-1)..n /\ d # i - 1
      <4>1. d \in (i-1)..n
        BY <3>2 DEF RunEnd
      <4>2. ASSUME d = i - 1 PROVE FALSE
        <5>1. d < n /\ d + 1 = i
          BY <1>1, <4>2
        <5> QED BY <2>3, <3>2, <5>1 DEF RunEnd
      <4> QED BY <4>1, <4>2
    <3>4. RunEnd(s, i, d)
      <4>1. d \in i..n /\ \A k \in (i+1)..d : k \in ((i-1)+1)..d
        BY <1>1, <3>3
      <4> QED BY <3>2, <4>1 DEF RunEnd
    <3>5. p[i] = <<>>
      BY <1>4, <2>3 DEF Piece
    <3>6. f[i-1] \o <<>> = f[i-1]
      <4>1. f[i-1] \in Seq(AnyMsgs)
        BY <1>3, <3>1
      <4> QED BY <4>1, ConcatEmptySeq
    <3> QED BY <2>2, <3>2, <3>4, <3>5, <3>6
  <2>4. CASE s[i].kind # "result"
    <3>1. p[i] = SubSeq(s, i, e)
      BY <1>5, <2>1, <2>4
    <3>2. f[i-1] = SubSeq(s, 1, i - 1)
      <4>1. CASE i = 1
        <5>1. SubSeq(s, 1, 0) = <<>>
          BY SubSeqEmpty
        <5> QED BY <1>3, <4>1, <5>1
      <4>2. CASE i # 1
        <5>1. i - 1 \in 1..n
          BY <1>1, <4>2
        <5>2. PICK d : RunEnd(s, i - 1, d) /\ f[i-1] = SubSeq(s, 1, d)
          BY <1>7, <5>1
        <5>3. d = i - 1
          <6>1. d \in (i-1)..n
            BY <5>2 DEF RunEnd
          <6>2. ASSUME d # i - 1 PROVE FALSE
            <7>1. i \in ((i-1)+1)..d
              BY <1>1, <6>1, <6>2
            <7> QED BY <2>4, <5>2, <7>1 DEF RunEnd
          <6> QED BY <6>2
        <5> QED BY <5>2, <5>3
      <4> QED BY <4>1, <4>2
    <3>3. SubSeq(s, 1, i - 1) \o SubSeq(s, (i - 1) + 1, e) = SubSeq(s, 1, e)
      <4>1. /\ 1 \in 1..(Len(s) + 1) /\ i - 1 \in (1 - 1)..Len(s)
            /\ e \in (i - 1)..Len(s)
        BY <1>1, <2>2
      <4> QED BY <4>1, ConcatAdjacentSubSeq
    <3>4. (i - 1) + 1 = i
      BY <1>1
    <3>5. f[i] = SubSeq(s, 1, e)
      BY <2>2, <3>1, <3>2, <3>3, <3>4
    <3> QED BY <2>1, <2>2, <3>5
  <2> QED BY <2>3, <2>4
<1>8. n \in T
  <2> HIDE DEF T
  <2>1. n \in 0..n
    BY <1>1
  <2> QED BY <1>1, <1>6, <1>7, <2>1, Counting
<1>9. f[n] = s
  <2>1. CASE n = 0
    BY <1>3, <2>1
  <2>2. CASE n # 0
    <3>1. PICK e : RunEnd(s, n, e) /\ f[n] = SubSeq(s, 1, e)
      BY <1>8, <2>2
    <3>2. e = n
      <4>1. e \in n..n
        BY <3>1 DEF RunEnd
      <4> HIDE DEF n
      <4>2. e \in Int /\ n <= e /\ e <= n
        BY <1>1, <4>1
      <4> QED BY <1>1, <4>2
    <3>3. SubSeq(s, 1, Len(s)) = s
      BY SubSeqFull
    <3> QED BY <3>1, <3>2, <3>3
  <2> QED BY <2>1, <2>2
<1> QED BY <1>2, <1>9


\* For any number of messages, files, commands and crashes: the request built from the log
\* (SanitizeToolPairing) answers every call and holds no other tool message, leaves out
\* nothing that was said, and sends a log in order as it is.
THEOREM SentPaired == Spec => []SentIsPaired
<1>1. IInv => SentIsPaired
  <2> SUFFICES ASSUME IInv PROVE SentIsPaired
    OBVIOUS
  <2>1. log \in Seq(Heard) /\ Heard \subseteq AnyMsgs
    BY SessionLogAssumption DEF IInv, Typed, Logs, Heard, Msgs, AnyMsgs
  <2>2. log \in Seq(AnyMsgs)
    BY <2>1, SeqMonotonic
  <2>3. ASSUME named, NEW i \in 1..Len(log), log[i].kind = "calls" PROVE IdDistinct(log[i].ids)
    <3>1. log[i] \in Heard
      BY <2>1, ElementOfSeq
    <3> QED BY <2>3, <3>1 DEF Heard
  <2>4. Paired(Sanitize(log)) /\ Spoken(Sanitize(log)) = Spoken(log)
    BY <2>2, SentInOrder
  <2>5. ASSUME named, Paired(log) PROVE Sanitize(log) = log
    BY <2>2, <2>3, <2>5, SentAsIs
  <2> QED BY <2>4, <2>5 DEF SentIsPaired
<1> QED BY <1>1, Invariant, PTL
=============================================================================
