-------------------------- MODULE AgentLoopProofs --------------------------
(***************************************************************************)
(* What the receipts of a turn say, for any batch, any number of calls and   *)
(* turns, any number of checks and files and any limit.                      *)
(***************************************************************************)
EXTENDS AgentLoop, WellFoundedInduction, TLAPS

-----------------------------------------------------------------------------
(* The inductive invariant *)

\* Calls begin in the order of the batch, and what begins while another call runs is, with
\* everything from that one on, a reader that runs in parallel.
InOrder ==
    \A i, j \in DOMAIN batch :
        i < j =>
            /\ status[i] = "todo" => status[j] = "todo"
            /\ status[i] = "running" /\ status[j] # "todo" =>
                  \A k \in i..j : Parallelisable(batch[k].tool)

\* Unless commands can be sent to the background, a receipt of a success after the last write
\* is of a command that did run to a success since then.
Ran(c) == \E command \in passed : command.of = c
Passed ==
    ~Background => \A c \in Checks : HasSuccessfulCommandAfter(c, LatestWriter) => Ran(c)

\* The latest command since the last write is known to fail if its receipt says so.
Failed ==
    LatestVerifyAfterWriter # 0 =>
        ledger[LatestVerifyAfterWriter].ok \/ ledger[LatestVerifyAfterWriter].arg \in failing

\* The receipts of a tool's successes with an argument, before a position.
Before(tool, n, of) == {i \in Ok(tool) : i < n /\ ledger[i].arg.of = of}

\* The latest write before a position to a file that is cited.
LatestCited(n, items) ==
    Newest({Newest(Before("write_file", n, item.of)) : item \in {it \in items : OfFile(it)}})

\* The items stand on receipts before the position.
Cited(n, items) ==
    /\ \A item \in items :
          /\ item.kind = "verification" => Before("bash", n, item.of) # {}
          /\ item.kind = "diff" => Before("write_file", n, item.of) # {}
          /\ item.kind = "files" =>
                Before("write_file", n, item.of) \cup Before("read_file", n, item.of) # {}
    /\ LatestCited(n, items) # 0 =>
          \A c \in ProjectChecks : \E i \in Before("bash", n, c) : i > LatestCited(n, items)

\* SignOffFollowsItsEvidence in these terms.
Signs == \A n \in Ok("complete_step") : Cited(n, ledger[n].arg.of)

\* An answer that was accepted had its receipts, and none were added to them.
Accepted ==
    outcome = "answer" =>
        /\ pc = "idle"
        /\ Enforce /\ LatestWriter # 0 =>
              \A c \in Checks : HasSuccessfulCommandAfter(c, LatestWriter)

IInv == TypeOK /\ InOrder /\ Passed /\ Failed /\ Accepted /\ Signs

-----------------------------------------------------------------------------
(* The newest of a set of receipts *)

\* A set of numbers with a bound has a largest one.
LEMMA Largest ==
    ASSUME NEW n \in Nat, NEW S, S # {}, \A x \in S : x \in 0..n
    PROVE  \E x \in S : \A y \in S : x >= y
<1> DEFINE U == {u \in Nat : \A x \in S : x <= u}
<1>1. n \in U
  OBVIOUS
<1>2. IsWellFoundedOn(OpToRel(<, Nat), Nat)
  BY NatLessThanWellFounded
<1>3. PICK u \in U : \A y \in U : ~(<<y, u>> \in OpToRel(<, Nat))
  <2> U \subseteq Nat /\ U # {}
    BY <1>1
  <2> HIDE DEF U
  <2> QED BY <1>2, WFMin
<1>4. \A y \in U : ~(y < u)
  BY <1>3 DEF OpToRel
<1>5. CASE u \in S
  BY <1>5
<1>6. CASE u \notin S
  <2>1. PICK x \in S : TRUE
    OBVIOUS
  <2>2. x < u
    BY <1>6, <2>1
  <2>3. u - 1 \in U
    BY <1>6, <2>2
  <2> QED BY <1>4, <2>3
<1> QED BY <1>5, <1>6

\* What Newest gives.
LEMMA NewestFacts ==
    ASSUME NEW n \in Nat, NEW R, \A x \in R : x \in 0..n
    PROVE  /\ Newest(R) \in R \cup {0}
           /\ \A x \in R : x <= Newest(R)
           /\ Newest(R) \in 0..n
<1> DEFINE S == {0} \cup R
<1>1. \E x \in S : \A y \in S : x >= y
  <2> S # {} /\ \A x \in S : x \in 0..n
    OBVIOUS
  <2> HIDE DEF S
  <2> QED BY Largest
<1>2. Max(S) \in S /\ \A y \in S : Max(S) >= y
  <2> HIDE DEF S
  <2> QED BY <1>1, Zenon DEF Max
<1>3. Newest(R) = Max(S)
  BY DEF Newest
<1>4. \A y \in R : Max(S) >= y
  BY <1>2
<1>5. Max(S) \in R \cup {0}
  BY <1>2
<1> HIDE DEF S
<1>6. PICK v : v = Newest(R)
  OBVIOUS
<1>7. v \in R \cup {0} /\ \A x \in R : v >= x
  BY <1>3, <1>4, <1>5, <1>6
<1>8. v \in 0..n /\ \A x \in R : x <= v
  BY <1>7
<1> QED BY <1>6, <1>7, <1>8

\* It is the only such number.
LEMMA NewestIs ==
    ASSUME NEW v \in Nat, NEW R, v \in R \cup {0}, \A x \in R : x \in 0..v
    PROVE  Newest(R) = v
<1>1. PICK u : u = Newest(R)
  OBVIOUS
<1>2. u \in R \cup {0} /\ (\A x \in R : x <= u) /\ u \in 0..v
  BY <1>1, NewestFacts
<1> QED BY <1>1, <1>2

\* The newest after a position, when the numbers go to n and n + 1 is that position or new.
LEMMA NewestAfter ==
    ASSUME NEW n \in Nat, NEW R, \A i \in R : i \in 1..n, NEW w \in 0..n
    PROVE  /\ Newest({i \in R : i > n + 1}) = 0
           /\ Newest({i \in R \cup {n + 1} : i > w}) = n + 1
           /\ Newest({i \in R : i > w}) \in 0..n
<1>1. {i \in R : i > n + 1} = {}
  OBVIOUS
<1>2. Newest({}) = 0
  BY NewestIs
<1>3. ASSUME NEW Q, n + 1 \in Q, \A i \in Q : i \in 1..(n + 1) PROVE Newest(Q) = n + 1
  <2>1. n + 1 \in Nat /\ \A i \in Q : i \in 0..(n + 1)
    BY <1>3
  <2> QED BY <1>3, <2>1, NewestIs
<1>4. /\ n + 1 \in {i \in R \cup {n + 1} : i > w}
      /\ \A i \in R \cup {n + 1} : i \in 1..(n + 1)
  OBVIOUS
<1>5. \A i \in {i \in R : i > w} : i \in 0..n
  OBVIOUS
<1>6. Newest({i \in R : i > w}) \in 0..n
  BY <1>5, NewestFacts
<1>7. Newest({i \in R \cup {n + 1} : i > w}) = n + 1
  BY <1>3, <1>4
<1> QED BY <1>1, <1>2, <1>6, <1>7

-----------------------------------------------------------------------------
(* A receipt is added *)

\* The calls of the model, by their tools.
LEMMA CallFacts ==
    ASSUME NEW call \in Calls
    PROVE  /\ call.tool \in Tool /\ call.arg \in Args
           /\ call.tool = "bash" => call.arg \in Commands
           /\ call.tool = "bash" /\ ~Background => ~call.bg
           /\ call.tool = "write_file" => call.arg.of \in Writes
           /\ call.tool = "planner_load_plan" => call.arg.of \in Nat
<1>1. call.tool \in Tool
  BY DEF Tool
<1>2. call.arg \in Args
  BY DEF Calls, Call, Arg, Args
<1>3. call.tool = "bash" => call.arg \in Commands /\ (~Background => ~call.bg)
  BY AgentLoopAssumption DEF Calls, Call
<1>4. call.tool = "write_file" => call.arg.of \in Writes
  BY DEF Calls, Call, Arg
<1>5. call.tool = "planner_load_plan" => call.arg.of \in Nat
  BY AgentLoopAssumption DEF Calls, Call, Arg
<1> QED BY <1>1, <1>2, <1>3, <1>4, <1>5

\* Every number of a receipt is a position.
LEMMA Positions ==
    ASSUME ledger \in Seq(Receipt)
    PROVE  /\ Len(ledger) \in Nat
           /\ \A tool : \A i \in Ok(tool) : i \in 1..Len(ledger)
           /\ \A i \in Verifies : i \in 1..Len(ledger)
           /\ LatestWriter \in 0..Len(ledger)
<1>1. PICK n \in Nat : n = Len(ledger)
  OBVIOUS
<1>2. \A tool : \A i \in Ok(tool) : i \in 1..n
  BY <1>1 DEF Ok
<1>3. \A i \in Verifies : i \in 1..n
  BY <1>1 DEF Verifies
<1>4. \A i \in Ok("write_file") : i \in 0..n
  BY <1>2
<1>5. LatestWriter \in 0..n
  BY <1>4, NewestFacts DEF LatestWriter
<1> QED BY <1>1, <1>2, <1>3, <1>5

\* The receipts before it stay, and it is the newest of its kind.
LEMMA Added ==
    ASSUME ledger \in Seq(Receipt), NEW r \in Receipt, ledger' = Append(ledger, r)
    PROVE  /\ ledger' \in Seq(Receipt)
           /\ DOMAIN ledger' = 1..(Len(ledger) + 1)
           /\ \A i \in 1..Len(ledger) : ledger'[i] = ledger[i]
           /\ ledger'[Len(ledger) + 1] = r
           /\ \A tool : Ok(tool)' = Ok(tool) \cup {i \in {Len(ledger) + 1} : r.ok /\ r.tool = tool}
           /\ Verifies' = Verifies \cup {i \in {Len(ledger) + 1} : r.tool = "bash"}
<1> DEFINE n == Len(ledger)
<1>1. n \in Nat /\ DOMAIN ledger = 1..n
  OBVIOUS
<1>2. /\ ledger' \in Seq(Receipt) /\ DOMAIN ledger' = 1..(n + 1)
      /\ \A i \in 1..n : ledger'[i] = ledger[i]
      /\ ledger'[n + 1] = r
  OBVIOUS
<1>3. 1..(n + 1) = 1..n \cup {n + 1}
  BY <1>1
<1> HIDE DEF n
<1>4. ASSUME NEW tool
      PROVE  Ok(tool)' = Ok(tool) \cup {i \in {n + 1} : r.ok /\ r.tool = tool}
  BY <1>1, <1>2, <1>3 DEF Ok
<1>5. Verifies' = Verifies \cup {i \in {n + 1} : r.tool = "bash"}
  BY <1>1, <1>2, <1>3 DEF Verifies
<1> QED BY <1>2, <1>4, <1>5 DEF n

\* The latest write, and the latest command since, after a receipt.
LEMMA AddedWriter ==
    ASSUME ledger \in Seq(Receipt), NEW r \in Receipt, ledger' = Append(ledger, r)
    PROVE  LatestWriter' = IF r.ok /\ r.tool = "write_file" THEN Len(ledger) + 1
                           ELSE LatestWriter
<1>1. PICK n \in Nat : n = Len(ledger)
  OBVIOUS
<1>2. \A i \in Ok("write_file") : i \in 1..n
  BY <1>1 DEF Ok
<1>3. Ok("write_file")' = Ok("write_file") \cup {i \in {n + 1} : r.ok /\ r.tool = "write_file"}
  BY <1>1, Added
<1>4. CASE r.ok /\ r.tool = "write_file"
  <2>1. Ok("write_file")' = Ok("write_file") \cup {n + 1}
    BY <1>3, <1>4
  <2>2. n + 1 \in Nat /\ \A i \in Ok("write_file") \cup {n + 1} : i \in 0..(n + 1)
    BY <1>2
  <2>3. Newest(Ok("write_file") \cup {n + 1}) = n + 1
    BY <2>2, NewestIs
  <2> QED BY <1>1, <1>4, <2>1, <2>3 DEF LatestWriter, Newest
<1>5. CASE ~(r.ok /\ r.tool = "write_file")
  <2>1. Ok("write_file")' = Ok("write_file")
    BY <1>3, <1>5
  <2> QED BY <1>5, <2>1 DEF LatestWriter, Newest
<1> QED BY <1>4, <1>5

LEMMA AddedVerify ==
    ASSUME ledger \in Seq(Receipt), NEW r \in Receipt, ledger' = Append(ledger, r)
    PROVE  /\ LatestVerifyAfterWriter \in 0..Len(ledger)
           /\ LatestVerifyAfterWriter' = IF r.ok /\ r.tool = "write_file" THEN 0
                                         ELSE IF r.tool = "bash" THEN Len(ledger) + 1
                                         ELSE LatestVerifyAfterWriter
<1>1. PICK n \in Nat : n = Len(ledger)
  OBVIOUS
<1>2. \A i \in Verifies : i \in 1..n
  BY <1>1 DEF Verifies
<1>3. Verifies' = Verifies \cup {i \in {n + 1} : r.tool = "bash"}
  BY <1>1, Added
<1>4. PICK w \in 0..n : w = LatestWriter
  BY <1>1, Positions
<1>5. LatestWriter' = IF r.ok /\ r.tool = "write_file" THEN n + 1 ELSE w
  BY <1>1, <1>4, AddedWriter
<1>6. /\ LatestVerifyAfterWriter = Newest({i \in Verifies : i > w})
      /\ LatestVerifyAfterWriter' = Newest({i \in Verifies' : i > LatestWriter'})
  BY <1>4 DEF LatestVerifyAfterWriter, Newest
<1>7. LatestVerifyAfterWriter \in 0..n
  BY <1>2, <1>6, NewestAfter
<1>8. CASE r.ok /\ r.tool = "write_file"
  <2>1. Verifies' = Verifies /\ LatestWriter' = n + 1
    BY <1>3, <1>5, <1>8
  <2>2. LatestVerifyAfterWriter' = Newest({i \in Verifies : i > n + 1})
    BY <1>6, <2>1
  <2>3. Newest({i \in Verifies : i > n + 1}) = 0
    BY <1>2, <1>4, NewestAfter
  <2> QED BY <1>1, <1>7, <1>8, <2>2, <2>3
<1>9. CASE r.tool = "bash"
  <2>1. Verifies' = Verifies \cup {n + 1} /\ LatestWriter' = w
    BY <1>3, <1>5, <1>9
  <2>2. LatestVerifyAfterWriter' = Newest({i \in Verifies \cup {n + 1} : i > w})
    BY <1>6, <2>1
  <2>3. Newest({i \in Verifies \cup {n + 1} : i > w}) = n + 1
    BY <1>2, <1>4, NewestAfter
  <2> QED BY <1>1, <1>7, <1>9, <2>2, <2>3
<1>10. CASE ~(r.ok /\ r.tool = "write_file") /\ r.tool # "bash"
  <2>1. Verifies' = Verifies /\ LatestWriter' = w
    BY <1>3, <1>5, <1>10
  <2>2. LatestVerifyAfterWriter' = LatestVerifyAfterWriter
    BY <1>6, <2>1
  <2> QED BY <1>1, <1>7, <1>10, <2>2
<1> QED BY <1>8, <1>9, <1>10

-----------------------------------------------------------------------------
(* A receipt keeps what the receipts say *)

\* A receipt of a write empties what passed, one of a success of a command is of one that did.
LEMMA KeepsPassed ==
    ASSUME ledger \in Seq(Receipt), Passed, NEW r \in Receipt, ledger' = Append(ledger, r),
           ~Background /\ r.tool = "bash" /\ r.ok => r.arg \in passed',
           ~(r.ok /\ r.tool = "write_file") => passed \subseteq passed'
    PROVE  Passed'
<1> SUFFICES ASSUME ~Background, NEW c \in Checks, HasSuccessfulCommandAfter(c, LatestWriter)'
             PROVE  \E command \in passed' : command.of = c
  BY DEF Passed, Ran
<1> DEFINE n == Len(ledger)
<1>1. PICK i \in Ok("bash")' : i > LatestWriter' /\ ledger'[i].arg.of = c
  BY DEF HasSuccessfulCommandAfter
<1>2. n \in Nat /\ LatestWriter \in 0..n /\ \A k \in Ok("bash") : k \in 1..n
  BY Positions
<1>3. /\ Ok("bash")' = Ok("bash") \cup {k \in {n + 1} : r.ok /\ r.tool = "bash"}
      /\ \A k \in 1..n : ledger'[k] = ledger[k]
      /\ ledger'[n + 1] = r
  BY Added
<1>4. LatestWriter' = IF r.ok /\ r.tool = "write_file" THEN n + 1 ELSE LatestWriter
  BY AddedWriter
<1> HIDE DEF n
<1>5. CASE i \in Ok("bash")
  <2>1. ~(r.ok /\ r.tool = "write_file") /\ i > LatestWriter
    BY <1>1, <1>2, <1>4, <1>5
  <2>2. ledger[i].arg.of = c
    BY <1>1, <1>2, <1>3, <1>5
  <2>3. HasSuccessfulCommandAfter(c, LatestWriter)
    BY <1>5, <2>1, <2>2 DEF HasSuccessfulCommandAfter
  <2> QED BY <2>1, <2>3 DEF Passed, Ran
<1>6. CASE i \notin Ok("bash")
  <2>1. i = n + 1 /\ r.ok /\ r.tool = "bash"
    BY <1>1, <1>3, <1>6
  <2> QED BY <1>1, <1>3, <2>1
<1> QED BY <1>5, <1>6

\* A receipt of a failing command is of one that is known to fail.
LEMMA KeepsFailed ==
    ASSUME ledger \in Seq(Receipt), Failed, NEW r \in Receipt, ledger' = Append(ledger, r),
           r.tool = "bash" /\ ~r.ok => r.arg \in failing',
           r.tool # "bash" /\ ~(r.ok /\ r.tool = "write_file") => failing' = failing
    PROVE  Failed'
<1> DEFINE v == LatestVerifyAfterWriter
           n == Len(ledger)
<1>1. /\ v \in 0..n
      /\ v' = IF r.ok /\ r.tool = "write_file" THEN 0
              ELSE IF r.tool = "bash" THEN n + 1 ELSE v
  BY AddedVerify
<1>2. (\A k \in 1..n : ledger'[k] = ledger[k]) /\ ledger'[n + 1] = r
  BY Added
<1>3. v # 0 => ledger[v].ok \/ ledger[v].arg \in failing
  BY DEF Failed
<1> SUFFICES v' # 0 => ledger'[v'].ok \/ ledger'[v'].arg \in failing'
  BY DEF Failed
<1>7. n \in Nat
  OBVIOUS
<1> HIDE DEF v, n
<1>4. CASE r.ok /\ r.tool = "write_file"
  BY <1>1, <1>4
<1>5. CASE r.tool = "bash"
  BY <1>1, <1>2, <1>5
<1>6. CASE ~(r.ok /\ r.tool = "write_file") /\ r.tool # "bash"
  <2>1. v' = v /\ failing' = failing
    BY <1>1, <1>6
  <2>2. v # 0 => v \in 1..n
    BY <1>1, <1>7
  <2>3. v # 0 => ledger'[v] = ledger[v]
    BY <1>2, <2>2
  <2> QED BY <1>3, <2>1, <2>3
<1> QED BY <1>4, <1>5, <1>6

\* What the strengthening says of sign-offs is the property.
LEMMA SignsAre == Signs <=> SignOffFollowsItsEvidence
BY DEF Signs, SignOffFollowsItsEvidence, Cited, LatestCited, Before

\* A receipt leaves what stands before a position as it was.
LEMMA KeepsBefore ==
    ASSUME ledger \in Seq(Receipt), NEW r \in Receipt, ledger' = Append(ledger, r),
           NEW m \in 1..(Len(ledger) + 1), NEW tool, NEW of
    PROVE  Before(tool, m, of)' = Before(tool, m, of)
<1>1. PICK n \in Nat : n = Len(ledger)
  OBVIOUS
<1>2. \A i \in Ok(tool) : i \in 1..n
  BY <1>1 DEF Ok
<1>3. /\ Ok(tool)' = Ok(tool) \cup {i \in {n + 1} : r.ok /\ r.tool = tool}
      /\ \A i \in 1..n : ledger'[i] = ledger[i]
  BY <1>1, Added
<1>4. m \in 1..(n + 1)
  BY <1>1
<1>5. PICK O, P : O = Ok(tool) /\ P = Ok(tool)'
  OBVIOUS
<1>6. {i \in P : i < m /\ ledger'[i].arg.of = of} = {i \in O : i < m /\ ledger[i].arg.of = of}
  <2>1. \A i \in O : i \in P /\ ledger'[i] = ledger[i]
    BY <1>2, <1>3, <1>5
  <2>2. \A i \in P : i < m => i \in O
    BY <1>2, <1>3, <1>4, <1>5
  <2> QED BY <2>1, <2>2
<1> QED BY <1>5, <1>6 DEF Before

\* What complete_step asks of its items stands on the receipts there are.
LEMMA BackedIsCited ==
    ASSUME ledger \in Seq(Receipt), NEW items, StepIsBacked(items)
    PROVE  Cited(Len(ledger) + 1, items)
<1> DEFINE m == Len(ledger) + 1
<1>1. \A tool, of : Before(tool, m, of) = {i \in Ok(tool) : ledger[i].arg.of = of}
  <2>1. \A tool : \A i \in Ok(tool) : i < m
    BY Positions
  <2> HIDE DEF m
  <2> QED BY <2>1 DEF Before
<1>2. \A tool : \A i \in Ok(tool) : i > 0
  BY Positions
<1>3. \A of : LatestWriteOf(of) = Newest(Before("write_file", m, of))
  BY <1>1 DEF LatestWriteOf, Newest
<1> HIDE DEF m
<1>4. LatestCited(m, items) =
          Newest({LatestWriteOf(item.of) : item \in {it \in items : OfFile(it)}})
  BY <1>3 DEF LatestCited
<1>5. \A of : LatestWriteOf(of) # 0 => Before("write_file", m, of) # {}
  <2>1. Newest({}) = 0
    BY NewestIs
  <2> QED BY <1>3, <2>1
<1>6. \A c, after : HasSuccessfulCommandAfter(c, after) => \E i \in Before("bash", m, c) : i > after
  BY <1>1 DEF HasSuccessfulCommandAfter
<1>7. LatestCited(m, items) # 0 =>
          \A c \in ProjectChecks : \E i \in Before("bash", m, c) : i > LatestCited(m, items)
  BY <1>4, <1>6 DEF StepIsBacked
<1>8. ASSUME NEW item \in items, item.kind = "verification"
      PROVE  Before("bash", m, item.of) # {}
  <2>1. HasSuccessfulCommandAfter(item.of, 0)
    BY <1>8 DEF StepIsBacked, ItemStands
  <2> QED BY <1>6, <2>1
<1>9. ASSUME NEW item \in items, item.kind = "diff"
      PROVE  Before("write_file", m, item.of) # {}
  <2>1. LatestWriteOf(item.of) # 0
    BY <1>9 DEF StepIsBacked, ItemStands
  <2> QED BY <1>5, <2>1
<1>10. ASSUME NEW item \in items, item.kind = "files"
       PROVE  Before("write_file", m, item.of) \cup Before("read_file", m, item.of) # {}
  <2>1. ItemStands(item)
    BY DEF StepIsBacked
  <2>2. \/ LatestWriteOf(item.of) # 0
        \/ \E i \in Ok("read_file") : ledger[i].arg.of = item.of
    BY <1>10, <2>1 DEF ItemStands
  <2>3. CASE LatestWriteOf(item.of) # 0
    BY <1>5, <2>3
  <2>4. ASSUME NEW i \in Ok("read_file"), ledger[i].arg.of = item.of
        PROVE  i \in Before("read_file", m, item.of)
    BY <1>1, <2>4
  <2> QED BY <2>2, <2>3, <2>4
<1> QED BY <1>7, <1>8, <1>9, <1>10 DEF Cited, m

\* A receipt of a sign-off that was backed stands on the receipts before it.
LEMMA KeepsSignOffs ==
    ASSUME ledger \in Seq(Receipt), Signs,
           NEW r \in Receipt, ledger' = Append(ledger, r),
           r.tool = "complete_step" /\ r.ok => StepIsBacked(r.arg.of)
    PROVE  Signs'
<1>1. PICK n \in Nat : n = Len(ledger)
  OBVIOUS
<1>2. \A m \in Ok("complete_step") : m \in 1..n
  BY <1>1 DEF Ok
<1>3. /\ Ok("complete_step")' = Ok("complete_step") \cup
                                  {i \in {n + 1} : r.ok /\ r.tool = "complete_step"}
      /\ \A i \in 1..n : ledger'[i] = ledger[i]
      /\ ledger'[n + 1] = r
  BY <1>1, Added
<1>4. \A m \in Ok("complete_step") : Cited(m, ledger[m].arg.of)
  BY DEF Signs
<1>5. ASSUME NEW m \in 1..(n + 1), NEW items, Cited(m, items)
      PROVE  Cited(m, items)'
  <2>1. \A tool, of : Before(tool, m, of)' = Before(tool, m, of)
    BY <1>1, <1>5, KeepsBefore
  <2>2. LatestCited(m, items)' = LatestCited(m, items)
    BY <2>1 DEF LatestCited, Newest, OfFile
  <2>3. ProjectChecks' = ProjectChecks
    BY DEF ProjectChecks
  <2> QED BY <1>5, <2>1, <2>2, <2>3 DEF Cited
<1>6. ASSUME NEW m \in Ok("complete_step")' PROVE Cited(m, ledger[m].arg.of)'
  <2>1. CASE m \in Ok("complete_step")
    <3>0. m \in 1..n
      BY <1>2, <2>1
    <3>1. m \in 1..(n + 1)
      BY <3>0
    <3>4. ledger'[m] = ledger[m]
      BY <1>3, <3>0
    <3>2. PICK items : items = ledger[m].arg.of
      OBVIOUS
    <3>3. Cited(m, items)'
      BY <1>4, <1>5, <2>1, <3>1, <3>2
    <3> QED BY <3>2, <3>3, <3>4
  <2>2. CASE m = n + 1 /\ r.ok /\ r.tool = "complete_step"
    <3>1. PICK items : items = r.arg.of
      OBVIOUS
    <3>2. Cited(n + 1, items)
      BY <1>1, <2>2, <3>1, BackedIsCited
    <3>3. Cited(n + 1, items)'
      BY <1>5, <3>2
    <3> QED BY <1>3, <2>2, <3>1, <3>3
  <2> QED BY <1>3, <2>1, <2>2
<1> QED BY <1>6 DEF Signs

-----------------------------------------------------------------------------
(* Types *)

USE DEF loop, tools, plan, config, truth

\* Whatever the arguments, the actions keep the types.
LEMMA InitTypes == Init => TypeOK
BY AgentLoopAssumption DEF Init, TypeOK

LEMMA NextRoundTypes ==
    ASSUME TypeOK, NextRound
    PROVE  /\ step' \in Nat /\ pc' \in {"idle", "model"}
           /\ outcome' \in {outcome, "paused"}
BY AgentLoopAssumption DEF TypeOK, NextRound

LEMMA BeginTypes == TypeOK /\ Begin /\ phases' \in Nat /\ current' \in 0..phases' => TypeOK'
BY DEF TypeOK, Begin

LEMMA ModelTypes ==
    ASSUME TypeOK, Model
    PROVE  TypeOK'
<1>1. CASE StreamFails
  BY <1>1 DEF TypeOK, StreamFails
<1>2. CASE Accept
  BY <1>2 DEF TypeOK, Accept
<1>3. CASE Refuse
  BY <1>3, NextRoundTypes DEF TypeOK, Refuse
<1>4. CASE Exhaust
  BY <1>4 DEF TypeOK, Exhaust
<1>5. ASSUME NEW asked \in Batches, Ask(asked)
      PROVE  TypeOK'
  <2>1. asked \in Seq(Calls)
    <3>1. PICK n \in 1..MaxBatch : asked \in [1..n -> Offers]
      BY DEF Batches
    <3>2. n \in Nat /\ asked \in [1..n -> Calls]
      BY <3>1, AgentLoopAssumption
    <3> QED BY <3>2
  <2>2. calls' \in Nat
    BY <1>5, <2>1 DEF TypeOK, Ask
  <2>3. status' \in [DOMAIN batch' -> {"todo", "running", "done"}]
    BY <1>5 DEF Ask
  <2> QED BY <1>5, <2>1, <2>2, <2>3 DEF TypeOK, Ask
<1> QED BY <1>1, <1>2, <1>3, <1>4, <1>5 DEF Model

\* What the end of a call does to the ledger.
LEMMA EndFacts ==
    ASSUME TypeOK, NEW i \in DOMAIN batch, NEW ok \in BOOLEAN, EndCall(i, ok)
    PROVE  LET r == [tool |-> batch[i].tool, arg |-> batch[i].arg, ok |-> ok] IN
           /\ batch[i] \in Calls
           /\ r \in Receipt
           /\ \/ ledger' = ledger /\ batch[i].tool = "complete_step"
              \/ ledger' = Append(ledger, r)
           /\ batch[i].tool = "complete_step" /\ ledger' # ledger => ok
           /\ batch[i].tool = "complete_step" /\ ok => StepIsBacked(batch[i].arg.of)
           /\ batch[i].tool = "planner_complete_phase" /\ ok => PhaseOpen
<1>1. batch[i] \in Calls
  BY DEF TypeOK
<1>2. [tool |-> batch[i].tool, arg |-> batch[i].arg, ok |-> ok] \in Receipt
  BY <1>1, CallFacts DEF Receipt
<1>3. Record(batch[i], ok) /\ ok \in Results(batch[i])
  BY DEF EndCall
<1> QED BY <1>1, <1>2, <1>3 DEF Record, Results

LEMMA EndTypes ==
    ASSUME TypeOK, NEW i \in DOMAIN batch, NEW ok \in BOOLEAN, EndCall(i, ok)
    PROVE  TypeOK'
<1> DEFINE call == batch[i]
<1>1. call \in Calls
  BY EndFacts
<1>2. /\ call.tool = "bash" => call.arg \in Commands
      /\ call.tool = "write_file" => call.arg.of \in Writes
      /\ call.tool = "planner_load_plan" => call.arg.of \in Nat
  BY <1>1, CallFacts
<1>3. ledger' \in Seq(Receipt)
  BY EndFacts, Added DEF TypeOK
<1>4. passed' \subseteq Commands /\ failing' \subseteq Commands
  BY <1>2 DEF TypeOK, EndCall
<1>5. repeats' \in [Writes -> Nat]
  BY <1>2 DEF TypeOK, EndCall
<1>6. phases' \in Nat /\ current' \in 0..phases'
  <2>1. CASE call.tool = "planner_complete_phase" /\ ok
    <3>1. PhaseOpen
      BY <2>1, EndFacts
    <3>2. current' = current + 1 /\ phases' = phases
      BY <2>1 DEF EndCall
    <3>3. current \in 0..phases /\ phases \in Nat /\ current < phases
      BY <3>1 DEF TypeOK, PhaseOpen
    <3> QED BY <3>2, <3>3
  <2>2. CASE call.tool = "planner_load_plan"
    BY <1>2, <2>2 DEF TypeOK, EndCall
  <2>3. CASE ~(call.tool = "planner_complete_phase" /\ ok) /\ call.tool # "planner_load_plan"
    BY <2>3 DEF TypeOK, EndCall
  <2> QED BY <2>1, <2>2, <2>3
<1>7. batch' = batch /\ status' \in [DOMAIN batch' -> {"todo", "running", "done"}]
  BY DEF TypeOK, EndCall
<1>8. UNCHANGED <<loop, batch, calls, planMode, config, turns>>
  BY DEF EndCall
<1> QED BY <1>3, <1>4, <1>5, <1>6, <1>7, <1>8 DEF TypeOK

LEMMA ToolsTypes ==
    ASSUME TypeOK, Tools
    PROVE  TypeOK'
<1>1. CASE EndBatch
  BY <1>1, NextRoundTypes DEF TypeOK, EndBatch
<1>2. ASSUME NEW i \in DOMAIN batch, BlockCall(i)
      PROVE  TypeOK'
  BY <1>2 DEF TypeOK, BlockCall
<1>3. ASSUME NEW i \in DOMAIN batch, BeginCall(i)
      PROVE  TypeOK'
  BY <1>3 DEF TypeOK, BeginCall
<1> QED BY <1>1, <1>2, <1>3, EndTypes DEF Tools

LEMMA NextTypes == TypeOK /\ [Next]_vars => TypeOK'
<1> SUFFICES ASSUME TypeOK, [Next]_vars PROVE TypeOK'
  OBVIOUS
<1>1. CASE RunAgent
  BY <1>1, BeginTypes DEF TypeOK, RunAgent
<1>2. ASSUME NEW n \in 0..MaxPhases, RunPlanned(n)
      PROVE  TypeOK'
  <2>1. n \in Nat
    BY AgentLoopAssumption
  <2> QED BY <1>2, <2>1, BeginTypes DEF RunPlanned
<1>3. CASE PlannerFails
  BY <1>3 DEF TypeOK, PlannerFails
<1>4. ASSUME NEW on \in BOOLEAN, SetPlanMode(on)
      PROVE  TypeOK'
  BY <1>4 DEF TypeOK, SetPlanMode
<1>5. CASE UNCHANGED vars
  BY <1>5 DEF TypeOK, vars
<1> QED BY <1>1, <1>2, <1>3, <1>4, <1>5, ModelTypes, ToolsTypes DEF Next

-----------------------------------------------------------------------------
(* The batch *)

\* A call that begins, or ends, leaves the calls in order.
LEMMA BeginsInOrder ==
    ASSUME TypeOK, InOrder, NEW i \in DOMAIN batch, MayBegin(i), NEW st \in {"running", "done"},
           batch' = batch, status' = [status EXCEPT ![i] = st]
    PROVE  InOrder'
<1>1. DOMAIN batch \subseteq Nat /\ DOMAIN status = DOMAIN batch
  BY DEF TypeOK
<1> SUFFICES ASSUME NEW a \in DOMAIN batch, NEW b \in DOMAIN batch, a < b
             PROVE  /\ status'[a] = "todo" => status'[b] = "todo"
                    /\ status'[a] = "running" /\ status'[b] # "todo" =>
                          \A k \in a..b : Parallelisable(batch[k].tool)
  BY DEF InOrder
<1>2. /\ status[a] = "todo" => status[b] = "todo"
      /\ status[a] = "running" /\ status[b] # "todo" =>
            \A k \in a..b : Parallelisable(batch[k].tool)
  BY DEF InOrder
<1>3. CASE a # i /\ b # i
  <2>1. status'[a] = status[a] /\ status'[b] = status[b]
    BY <1>1, <1>3
  <2> QED BY <1>2, <2>1
<1>4. CASE a = i
  <2>1. status[i] = "todo" /\ status'[i] # "todo"
    BY <1>1 DEF MayBegin
  <2>2. status'[b] = "todo"
    BY <1>1, <1>2, <1>4, <2>1
  <2> QED BY <1>4, <2>1, <2>2
<1>5. CASE b = i
  <2>1. a \in 1..(i - 1)
    BY <1>1, <1>5 DEF TypeOK
  <2>2. \/ status[a] = "done"
        \/ status[a] = "running" /\ \A k \in a..i : Parallelisable(batch[k].tool)
    BY <2>1 DEF MayBegin
  <2>3. status'[a] = status[a]
    BY <1>1, <1>5
  <2>4. status'[a] # "todo"
    BY <2>2, <2>3
  <2>5. status'[a] = "running" => \A k \in a..b : Parallelisable(batch[k].tool)
    BY <1>5, <2>2, <2>3
  <2> QED BY <2>4, <2>5
<1> QED BY <1>3, <1>4, <1>5

LEMMA EndsInOrder ==
    ASSUME TypeOK, InOrder, NEW i \in DOMAIN batch, status[i] = "running",
           batch' = batch, status' = [status EXCEPT ![i] = "done"]
    PROVE  InOrder'
<1>1. DOMAIN batch \subseteq Nat /\ DOMAIN status = DOMAIN batch
  BY DEF TypeOK
<1>2. \A a \in DOMAIN batch : status'[a] = IF a = i THEN "done" ELSE status[a]
  BY <1>1
<1> QED BY <1>2 DEF InOrder

LEMMA NextOrder == TypeOK /\ InOrder /\ [Next]_vars => InOrder'
<1> SUFFICES ASSUME TypeOK, InOrder, [Next]_vars PROVE InOrder'
  OBVIOUS
<1>1. ASSUME batch' = batch, status' = status PROVE InOrder'
  BY <1>1 DEF InOrder
<1>2. ASSUME NEW asked \in Batches, Ask(asked) PROVE InOrder'
  BY <1>2 DEF Ask, InOrder
<1>3. CASE EndBatch
  BY <1>3 DEF EndBatch, InOrder
<1>4. ASSUME NEW i \in DOMAIN batch, BlockCall(i) PROVE InOrder'
  BY <1>4, BeginsInOrder DEF BlockCall
<1>5. ASSUME NEW i \in DOMAIN batch, BeginCall(i) PROVE InOrder'
  BY <1>5, BeginsInOrder DEF BeginCall
<1>6. ASSUME NEW i \in DOMAIN batch, NEW ok \in BOOLEAN, EndCall(i, ok) PROVE InOrder'
  BY <1>6, EndsInOrder DEF EndCall
<1>7. RunAgent \/ (\E n \in 0..MaxPhases : RunPlanned(n)) \/ PlannerFails
         => batch' = batch /\ status' = status
  BY DEF RunAgent, RunPlanned, Begin, PlannerFails
<1>8. StreamFails \/ Accept \/ Refuse \/ Exhaust \/ (\E on \in BOOLEAN : SetPlanMode(on))
         \/ UNCHANGED vars => batch' = batch /\ status' = status
  BY DEF StreamFails, Accept, Refuse, Exhaust, SetPlanMode, vars
<1> QED BY <1>1, <1>2, <1>3, <1>4, <1>5, <1>6, <1>7, <1>8 DEF Next, Model, Tools

-----------------------------------------------------------------------------
(* The receipts *)

\* What the receipts say depends on the ledger and on what was run.
LEMMA SameReceipts ==
    ASSUME ledger' = ledger, passed' = passed, failing' = failing
    PROVE  /\ Passed => Passed'
           /\ Failed => Failed'
           /\ Signs => Signs'
<1>1. /\ Verifies' = Verifies /\ LatestWriter' = LatestWriter /\ ProjectChecks' = ProjectChecks
      /\ \A tool : Ok(tool)' = Ok(tool)
  BY DEF Verifies, LatestWriter, Ok, ProjectChecks, Newest
<1>2. LatestVerifyAfterWriter' = LatestVerifyAfterWriter
  BY <1>1 DEF LatestVerifyAfterWriter, Newest
<1>3. Passed => Passed'
  BY <1>1 DEF Passed, Ran, HasSuccessfulCommandAfter
<1>4. Failed => Failed'
  BY <1>2 DEF Failed
<1>5. Signs => Signs'
  <2>1. \A tool, n, of : Before(tool, n, of)' = Before(tool, n, of)
    BY <1>1 DEF Before
  <2>2. \A n, items : LatestCited(n, items)' = LatestCited(n, items)
    BY <2>1 DEF LatestCited, Newest, OfFile
  <2>3. \A n, items : Cited(n, items) => Cited(n, items)'
    BY <1>1, <2>1, <2>2 DEF Cited
  <2> SUFFICES ASSUME Signs, NEW n \in Ok("complete_step")' PROVE Cited(n, ledger[n].arg.of)'
    BY DEF Signs
  <2>4. n \in Ok("complete_step")
    BY <1>1
  <2>5. PICK items : items = ledger[n].arg.of
    OBVIOUS
  <2>6. Cited(n, items)'
    BY <2>3, <2>4, <2>5 DEF Signs
  <2>7. items = ledger'[n].arg.of
    BY <2>5
  <2> QED BY <2>6, <2>7
<1> QED BY <1>3, <1>4, <1>5

\* An empty ledger says nothing.
LEMMA NoReceipts ==
    ASSUME ledger = <<>>
    PROVE  Passed /\ Failed /\ Signs /\ LatestWriter = 0
<1>1. Verifies = {} /\ \A tool : Ok(tool) = {}
  BY DEF Verifies, Ok
<1>2. Newest({}) = 0
  BY NewestIs
<1>3. LatestWriter = 0
  BY <1>1, <1>2 DEF LatestWriter
<1>4. LatestVerifyAfterWriter = 0
  <2>1. {i \in Verifies : i > LatestWriter} = {}
    BY <1>1
  <2> QED BY <1>2, <2>1 DEF LatestVerifyAfterWriter
<1> QED BY <1>1, <1>3, <1>4
        DEF Passed, Failed, Signs, HasSuccessfulCommandAfter

LEMMA BeginReceipts ==
    ASSUME Begin
    PROVE  Passed' /\ Failed' /\ Signs'
<1>1. ledger' = <<>>
  BY DEF Begin
<1>2. Verifies' = {} /\ \A tool : Ok(tool)' = {}
  BY <1>1 DEF Verifies, Ok
<1>3. Newest({}) = 0
  BY NewestIs
<1>4. LatestVerifyAfterWriter' = 0
  <2>1. {i \in Verifies' : i > LatestWriter'} = {}
    BY <1>2
  <2> QED BY <1>3, <2>1 DEF LatestVerifyAfterWriter, Newest
<1> QED BY <1>2, <1>4 DEF Passed, Failed, Signs, HasSuccessfulCommandAfter

LEMMA EndReceipts ==
    ASSUME TypeOK, Passed, Failed, Signs,
           NEW i \in DOMAIN batch, NEW ok \in BOOLEAN, EndCall(i, ok)
    PROVE  Passed' /\ Failed' /\ Signs'
<1> DEFINE call == batch[i]
           r == [tool |-> call.tool, arg |-> call.arg, ok |-> ok]
<1>1. /\ call \in Calls /\ r \in Receipt
      /\ (ledger' = ledger /\ call.tool = "complete_step") \/ ledger' = Append(ledger, r)
      /\ call.tool = "complete_step" /\ ok => StepIsBacked(call.arg.of)
  BY EndFacts
<1>2. /\ passed' = IF call.tool = "write_file" /\ ok THEN {}
                   ELSE IF call.tool = "bash" /\ ok /\ ~call.bg
                        THEN passed \cup {call.arg} ELSE passed
      /\ failing' = IF call.tool = "write_file" /\ ok THEN {}
                    ELSE IF call.tool = "bash"
                         THEN IF ok THEN failing \ {call.arg}
                              ELSE failing \cup {call.arg}
                         ELSE failing
  BY DEF EndCall
<1>3. r.tool = call.tool /\ r.arg = call.arg /\ r.ok = ok
  OBVIOUS
<1>4. call.tool = "bash" /\ ~Background => ~call.bg
  BY <1>1, CallFacts
<1>5. ledger \in Seq(Receipt)
  BY DEF TypeOK
<1> HIDE DEF call, r
<1>6. CASE ledger' = ledger /\ call.tool = "complete_step"
  <2>1. passed' = passed /\ failing' = failing
    BY <1>2, <1>6
  <2> QED BY <1>6, <2>1, SameReceipts
<1>7. CASE ledger' = Append(ledger, r)
  <2>1. ~Background /\ r.tool = "bash" /\ r.ok => r.arg \in passed'
    BY <1>2, <1>3, <1>4
  <2>2. ~(r.ok /\ r.tool = "write_file") => passed \subseteq passed'
    BY <1>2, <1>3
  <2>3. Passed'
    BY <1>1, <1>5, <1>7, <2>1, <2>2, KeepsPassed
  <2>4. r.tool = "bash" /\ ~r.ok => r.arg \in failing'
    BY <1>2, <1>3
  <2>5. r.tool # "bash" /\ ~(r.ok /\ r.tool = "write_file") => failing' = failing
    BY <1>2, <1>3
  <2>6. Failed'
    BY <1>1, <1>5, <1>7, <2>4, <2>5, KeepsFailed
  <2>7. r.tool = "complete_step" /\ r.ok => StepIsBacked(r.arg.of)
    BY <1>1, <1>3
  <2>8. Signs'
    BY <1>1, <1>5, <1>7, <2>7, KeepsSignOffs
  <2> QED BY <2>3, <2>6, <2>8
<1> QED BY <1>1, <1>6, <1>7

LEMMA NextReceipts ==
    ASSUME TypeOK, Passed, Failed, Signs, [Next]_vars
    PROVE  Passed' /\ Failed' /\ Signs'
<1>1. ASSUME ledger' = ledger, passed' = passed, failing' = failing
      PROVE  Passed' /\ Failed' /\ Signs'
  BY <1>1, SameReceipts
<1>2. CASE RunAgent
  BY <1>2, BeginReceipts DEF RunAgent
<1>3. ASSUME NEW n \in 0..MaxPhases, RunPlanned(n)
      PROVE  Passed' /\ Failed' /\ Signs'
  BY <1>3, BeginReceipts DEF RunPlanned
<1>4. CASE PlannerFails
  BY <1>1, <1>4 DEF PlannerFails
<1>5. CASE Model
  BY <1>1, <1>5 DEF Model, StreamFails, Accept, Refuse, Exhaust, Ask
<1>6. CASE EndBatch
  BY <1>1, <1>6 DEF EndBatch
<1>7. ASSUME NEW i \in DOMAIN batch, BlockCall(i) \/ BeginCall(i)
      PROVE  Passed' /\ Failed' /\ Signs'
  BY <1>1, <1>7 DEF BlockCall, BeginCall
<1>8. ASSUME NEW i \in DOMAIN batch, NEW ok \in BOOLEAN, EndCall(i, ok)
      PROVE  Passed' /\ Failed' /\ Signs'
  BY <1>8, EndReceipts
<1>9. ASSUME NEW on \in BOOLEAN, SetPlanMode(on)
      PROVE  Passed' /\ Failed' /\ Signs'
  BY <1>1, <1>9 DEF SetPlanMode
<1>10. CASE UNCHANGED vars
  BY <1>1, <1>10 DEF vars
<1> QED BY <1>2, <1>3, <1>4, <1>5, <1>6, <1>7, <1>8, <1>9, <1>10 DEF Next, Tools

\* Only Accept makes an answer, and only the start of a turn moves on from one.
LEMMA NextAccepted ==
    ASSUME TypeOK, Accepted, [Next]_vars
    PROVE  Accepted'
<1>1. ASSUME ledger' = ledger, outcome' = outcome, pc' = pc
      PROVE  Accepted'
  <2>1. \A tool : Ok(tool)' = Ok(tool)
    BY <1>1 DEF Ok
  <2> QED BY <1>1, <2>1 DEF Accepted, LatestWriter, HasSuccessfulCommandAfter, Newest
<1>2. ASSUME outcome' # "answer"
      PROVE  Accepted'
  BY <1>2 DEF Accepted
<1>3. pc # "idle" => outcome # "answer"
  BY DEF Accepted
<1>4. CASE RunAgent \/ \E n \in 0..MaxPhases : RunPlanned(n)
  BY <1>2, <1>4, AgentLoopAssumption DEF RunAgent, RunPlanned, Begin
<1>5. CASE PlannerFails
  BY <1>2, <1>5 DEF PlannerFails
<1>6. CASE Accept
  <2>1. \A tool : Ok(tool)' = Ok(tool)
    BY <1>6 DEF Accept, Ok
  <2>2. Enforce /\ LatestWriter # 0 => \A c \in Checks : HasSuccessfulCommandAfter(c, LatestWriter)
    BY <1>6 DEF Accept, Missing, ProjectChecks
  <2> QED BY <1>6, <2>1, <2>2
          DEF Accept, Accepted, LatestWriter, HasSuccessfulCommandAfter, Newest
<1>7. CASE StreamFails \/ Exhaust
  BY <1>2, <1>7 DEF StreamFails, Exhaust
<1>8. CASE Refuse
  BY <1>2, <1>3, <1>8 DEF Refuse, NextRound
<1>9. ASSUME NEW asked \in Batches, Ask(asked)
      PROVE  Accepted'
  BY <1>2, <1>3, <1>9 DEF Ask
<1>10. CASE Tools
  BY <1>2, <1>3, <1>10 DEF Tools, EndBatch, NextRound, BlockCall, BeginCall, EndCall
<1>11. ASSUME NEW on \in BOOLEAN, SetPlanMode(on)
       PROVE  Accepted'
  BY <1>1, <1>11 DEF SetPlanMode
<1>12. CASE UNCHANGED vars
  BY <1>1, <1>12 DEF vars
<1> QED BY <1>4, <1>5, <1>6, <1>7, <1>8, <1>9, <1>10, <1>11, <1>12 DEF Next, Model

-----------------------------------------------------------------------------
(* Theorems *)

THEOREM Invariance == Spec => []IInv
<1>1. Init => IInv
  <2> SUFFICES ASSUME Init PROVE IInv
    OBVIOUS
  <2>1. ledger = <<>> /\ batch = <<>> /\ outcome # "answer"
    BY AgentLoopAssumption DEF Init
  <2>2. InOrder /\ Accepted
    BY <2>1 DEF InOrder, Accepted
  <2> QED BY <2>1, <2>2, InitTypes, NoReceipts DEF IInv
<1>2. IInv /\ [Next]_vars => IInv'
  BY NextTypes, NextOrder, NextReceipts, NextAccepted DEF IInv
<1> QED BY <1>1, <1>2, PTL DEF Spec

\* The types of the agent loop's state.
THEOREM TypeCorrect == Spec => []TypeOK
BY Invariance, PTL DEF IInv

\* No call of a batch overlaps another unless both are readers that need no receipts
\* (partitionToolCalls, executeBatch), for batches of any length.
THEOREM ReadersOverlap == Spec => []OnlyReadersOverlap
<1>1. IInv => OnlyReadersOverlap
  <2> SUFFICES ASSUME IInv, NEW i \in DOMAIN batch, NEW j \in DOMAIN batch,
                      i < j, status[i] = "running", status[j] # "todo"
               PROVE  /\ ReadOnly(batch[i].tool)
                      /\ status[j] = "running" =>
                            /\ ReadOnly(batch[j].tool)
                            /\ batch[j].tool \notin {"todo_write", "complete_step"}
    BY DEF IInv, TypeOK, OnlyReadersOverlap
  <2>1. \A k \in i..j : Parallelisable(batch[k].tool)
    BY DEF IInv, InOrder
  <2>2. i \in i..j /\ j \in i..j
    BY DEF IInv, TypeOK
  <2> QED BY <2>1, <2>2 DEF Parallelisable
<1> QED BY <1>1, Invariance, PTL

\* Sign-offs that succeeded stand on receipts before them (completeStep.Execute).
THEOREM SignOffsStand == Spec => []SignOffFollowsItsEvidence
<1>1. IInv => SignOffFollowsItsEvidence
  BY SignsAre DEF IInv
<1> QED BY <1>1, Invariance, PTL

\* When no command can be sent to the background, an accepted answer to a turn that wrote
\* files is one whose checks are each satisfied by a command that ran to a success after the
\* last write: the check, or a command line that contains it (finalReadinessFailure).
THEOREM AnswersRanTheirChecks == ASSUME ~Background PROVE Spec => []AnswerRanItsChecks
<1>1. IInv => AnswerRanItsChecks
  BY DEF IInv, TypeOK, Passed, Ran, Accepted, AnswerRanItsChecks
<1> QED BY <1>1, Invariance, PTL

\* A turn is undone for a command that failed after its last write, and never for one that was
\* repaired or ran before (VerifyFailureShouldRollback).
THEOREM FailuresAreUndone == Spec => []OnlyFailuresAreUndone
<1>1. IInv => OnlyFailuresAreUndone
  BY DEF IInv, Failed, OnlyFailuresAreUndone, VerifyFailureShouldRollback
<1> QED BY <1>1, Invariance, PTL
=============================================================================
