---------------------------- MODULE ToolPairing -----------------------------
(***************************************************************************)
(* provider.SanitizeToolPairing: what a conversation looks like when it is  *)
(* sent.  A message has a kind; an assistant message with tool calls has    *)
(* their ids, a tool message the id of the call it answers.  Id 0 is the    *)
(* empty id of gateways that send none.                                     *)
(***************************************************************************)
EXTENDS Integers, Sequences, SequencesExt

\* The tool messages that follow position i without a gap.
ResultsAfter(msgs, i) ==
    LET ends == {j \in i..Len(msgs) : \A k \in (i+1)..j : msgs[k].kind = "result"}
    IN  SubSeq(msgs, i + 1, CHOOSE j \in ends : \A k \in ends : k <= j)

\* The ids of a message's calls are usable as keys.
IdDistinct(ids) == \A i, j \in DOMAIN ids : ids[i] # 0 /\ (ids[i] = ids[j] => i = j)

Placeholder(call, id) == [kind |-> "result", n |-> 0, ids |-> <<>>, id |-> id]

\* Mutant: calls that were cut short stay unanswered.
PairAvailable(call, avail) == avail

\* One answer for each call: by id when the ids are distinct, otherwise by position.
PairToolResults(call, avail) ==
    [k \in DOMAIN call.ids |->
        LET id == call.ids[k]
            of == {j \in DOMAIN avail : avail[j].id = id}
        IN  IF IdDistinct(call.ids)
            THEN IF of = {} THEN Placeholder(call, id)
                 ELSE avail[CHOOSE j \in of : \A i \in of : i <= j]
            ELSE IF k <= Len(avail) THEN [avail[k] EXCEPT !.id = id] ELSE Placeholder(call, id)]

\* Calls take their results along; a tool message that follows no calls is dropped.
Sanitize(msgs) ==
    FlattenSeq([i \in DOMAIN msgs |->
        CASE msgs[i].kind = "calls"  -> <<msgs[i]>> \o PairToolResults(msgs[i], ResultsAfter(msgs, i))
          [] msgs[i].kind = "result" -> <<>>
          [] OTHER                   -> <<msgs[i]>>])

\* What the providers ask of a request: each call is answered, in order, by the tool
\* messages right behind it, and there are no others.
Answered(msgs, i) ==
    LET results == ResultsAfter(msgs, i) IN
    [k \in DOMAIN results |-> results[k].id] = msgs[i].ids

Paired(msgs) ==
    \A i \in DOMAIN msgs :
        /\ msgs[i].kind = "calls" => Answered(msgs, i)
        /\ msgs[i].kind = "result" => i > 1 /\ msgs[i-1].kind \in {"calls", "result"}

\* The messages of a conversation that are not results.
Spoken(msgs) ==
    FlattenSeq([i \in DOMAIN msgs |-> IF msgs[i].kind = "result" THEN <<>> ELSE <<msgs[i]>>])
=============================================================================
