-------------------------- MODULE PluginHostProofs --------------------------
(***************************************************************************)
(* One MCP server and the sessions that use it, for any of them, any calls  *)
(* and any number of connections: one handshake for each lazySpawn, server  *)
(* processes in somebody's hands until the host is closed, locks that are   *)
(* in use, and tools that lead to a connection.                             *)
(***************************************************************************)
EXTENDS PluginHost, TLAPS

-----------------------------------------------------------------------------
(* The invariant *)

\* What is said to be a connection is one.
Wired ==
    /\ \A a \in Adders : add[a].pc \in {"append", "got"} => add[a].client \in Clients
    /\ \A s \in Sessions : spawn[s] = "ready" => real[s] \in Clients
    /\ \A c \in Calls : call[c].pc \in {"wait", "pipe"} => call[c].client \in Clients

\* The handshake of a spawn is run by its Add, while it is in flight.
Handshake ==
    /\ \A s \in Sessions : dials[s] <= 1
    /\ \A s \in Sessions : spawn[s] \in {"closed", "idle"} => dials[s] = 0
    /\ \A s \in Sessions : spawn[s] # "inFlight" => add[Spawner(s)] = Idle

\* A process is the host's, or its Add is about to enter it, or its disconnection to close it.
Processes ==
    \A n \in alive :
        \/ n \in ToSet(clients)
        \/ \E a \in Adders : add[a].pc = "append" /\ add[a].client = n
        \/ \E s \in Sessions : removing[s] = n

\* A lock is held by a call that uses it, and a connection is used by the call that has its lock.
Locks ==
    /\ LocksAreHeldByCalls
    /\ \A s \in Sessions : first[s] # None => SessionOf[first[s]] = s
    /\ \A c \in Calls : call[c].pc = "pipe" => pipe[call[c].client] = c

\* Until somebody disconnects the server, whatever has a connection has one of the host's.
Linked ==
    ~removed =>
        /\ ToSet(listed) \subseteq ToSet(clients)
        /\ \A s \in Sessions : removing[s] = Quiet
        /\ \A a \in Adders : add[a].pc = "got" => add[a].client \in ToSet(clients)
        /\ \A s \in Sessions : reg[s] \in {Nothing, Placeholder} \cup ToSet(clients)
        /\ \A s \in Sessions : spawn[s] = "ready" =>
              real[s] \in ToSet(clients) /\ reg[s] # Nothing

\* Host.Close takes connections that were made, and none of them is up when it is over.
Gone ==
    /\ ToSet(clients) \subseteq 1..made /\ closing.taken \subseteq 1..made
    /\ \A a \in Adders : add[a].pc = "append" => add[a].client \in 1..made
    /\ closing.pc = "closed" => alive \cap closing.taken = {}

IInv == TypeOK /\ Wired /\ Handshake /\ Processes /\ Gone /\ Locks /\ Linked

-----------------------------------------------------------------------------
(* What the steps do *)

Addition == [pc : Adds, client : 0..MaxClients]
Doing   == [pc : Steps, client : 0..MaxClients]

User(s) == <<"user", s>>

\* The function g is f with another value at x.
Sets(f, g, D, x, v) == g[x] = v /\ \A y \in D \ {x} : g[y] = f[y]

LEMMA SetsEffect ==
    ASSUME NEW D, NEW R, NEW f \in [D -> R], NEW x \in D, NEW v \in R, NEW g, g = [f EXCEPT ![x] = v]
    PROVE  g \in [D -> R] /\ Sets(f, g, D, x, v)
BY DEF Sets

\* The two runs of Add of a session.
LEMMA TwoAdders ==
    /\ \A s \in Sessions : Spawner(s) \in Adders /\ User(s) \in Adders
    /\ \A s, t \in Sessions : Spawner(s) # User(t)
    /\ \A s, t \in Sessions : Spawner(s) = Spawner(t) => s = t
BY DEF Spawner, User, Adders

LEMMA Values ==
    /\ \A n \in Clients : n # 0 /\ n # -1 /\ n \in 0..MaxClients
    /\ 0 \in 0..MaxClients /\ Clients = 0..MaxClients \ {0}
    /\ \A n \in 0..MaxClients, x \in Adds : At(x, n) \in Addition /\ At(x, n).pc = x /\ At(x, n).client = n
    /\ \A n \in 0..MaxClients, x \in Steps : At(x, n) \in Doing /\ At(x, n).pc = x /\ At(x, n).client = n
    /\ Idle \in Addition /\ Idle \in Doing /\ Idle.pc = "idle" /\ Idle.client = 0
BY PluginHostAssumption DEF Clients, At, Idle, Addition, Doing, Adds, Steps

LEMMA AddSet ==
    ASSUME TypeOK, NEW a \in Adders, NEW v \in Addition, add' = [add EXCEPT ![a] = v]
    PROVE  add' \in [Adders -> Addition] /\ Sets(add, add', Adders, a, v)
BY DEF TypeOK, Addition, Sets

LEMMA AddMoves ==
    ASSUME TypeOK, NEW a \in Adders, NEW x \in Adds, add' = [add EXCEPT ![a].pc = x]
    PROVE  \E v \in Addition : /\ v.pc = x /\ v.client = add[a].client
                              /\ add' \in [Adders -> Addition] /\ Sets(add, add', Adders, a, v)
<1>1. add \in [Adders -> Addition] /\ add[a] \in Addition
  BY DEF TypeOK, Addition
<1> DEFINE v == [add[a] EXCEPT !.pc = x]
<1>2. v \in Addition /\ v.pc = x /\ v.client = add[a].client
  BY <1>1 DEF Addition
<1>3. add' = [add EXCEPT ![a] = v]
  OBVIOUS
<1> HIDE DEF v
<1> QED BY <1>1, <1>2, <1>3 DEF Sets

LEMMA CallSet ==
    ASSUME TypeOK, NEW c \in Calls, NEW v \in Doing, call' = [call EXCEPT ![c] = v]
    PROVE  call' \in [Calls -> Doing] /\ Sets(call, call', Calls, c, v)
BY DEF TypeOK, Doing, Sets

LEMMA BeginEffect ==
    ASSUME TypeOK, NEW s \in Sessions, NEW by \in Calls \cup {None}, BeginSpawn(s, by)
    PROVE  /\ spawn' \in [Sessions -> {"closed", "idle", "inFlight", "ready", "failed"}]
           /\ Sets(spawn, spawn', Sessions, s, "inFlight")
           /\ first' \in [Sessions -> Calls \cup {None}] /\ Sets(first, first', Sessions, s, by)
           /\ dials' \in [Sessions -> Nat] /\ Sets(dials, dials', Sessions, s, dials[s] + 1)
           /\ add' \in [Adders -> Addition] /\ Sets(add, add', Adders, Spawner(s), At("check", 0))
<1>1. At("check", 0) \in Addition
  BY Values DEF Adds
<1>2. add' \in [Adders -> Addition] /\ Sets(add, add', Adders, Spawner(s), At("check", 0))
  BY <1>1, TwoAdders, AddSet DEF BeginSpawn
<1>3. /\ spawn \in [Sessions -> {"closed", "idle", "inFlight", "ready", "failed"}]
      /\ first \in [Sessions -> Calls \cup {None}] /\ dials \in [Sessions -> Nat] /\ dials[s] + 1 \in Nat
  BY DEF TypeOK
<1>4. /\ spawn' = [spawn EXCEPT ![s] = "inFlight"] /\ first' = [first EXCEPT ![s] = by]
      /\ dials' = [dials EXCEPT ![s] = dials[s] + 1]
  BY DEF BeginSpawn
<1> QED BY <1>2, <1>3, <1>4 DEF Sets

LEMMA FinishEffect ==
    ASSUME TypeOK, NEW set, Finish(set)
    PROVE  /\ call' \in [Calls -> Doing] /\ cancelled' \subseteq Calls
           /\ mu' \in [Sessions -> Calls \cup {None}] /\ pipe' \in [Clients -> Calls \cup {None}]
           /\ \A c \in Calls : call'[c] = IF c \in set THEN Idle ELSE call[c]
           /\ \A s \in Sessions : mu'[s] = IF mu[s] \in set THEN None ELSE mu[s]
           /\ \A n \in Clients : pipe'[n] = IF pipe[n] \in set THEN None ELSE pipe[n]
<1>1. /\ call \in [Calls -> Doing] /\ cancelled \subseteq Calls /\ Idle \in Doing
      /\ mu \in [Sessions -> Calls \cup {None}] /\ pipe \in [Clients -> Calls \cup {None}]
  BY Values DEF TypeOK, Doing
<1> QED BY <1>1 DEF Finish

LEMMA LastListed == ASSUME TypeOK, listed # <<>> PROVE Last(listed) \in ToSet(listed) /\ Last(listed) \in Clients
<1>1. listed \in Seq(Clients) /\ Len(listed) \in DOMAIN listed
  BY DEF TypeOK
<1> QED BY <1>1 DEF Last, ToSet

LEMMA Appended ==
    ASSUME NEW f \in Seq(Clients), NEW n \in Clients
    PROVE  Append(f, n) \in Seq(Clients) /\ ToSet(Append(f, n)) = ToSet(f) \cup {n}
<1>1. /\ Append(f, n) \in Seq(Clients) /\ DOMAIN Append(f, n) = 1..(Len(f) + 1)
      /\ DOMAIN f = 1..Len(f) /\ Len(f) \in Nat
      /\ Append(f, n)[Len(f) + 1] = n /\ \A i \in DOMAIN f : Append(f, n)[i] = f[i]
  OBVIOUS
<1>2. \A i \in DOMAIN Append(f, n) : i \in DOMAIN f \/ i = Len(f) + 1
  BY <1>1
<1>3. Len(f) + 1 \in DOMAIN Append(f, n) /\ DOMAIN f \subseteq DOMAIN Append(f, n)
  BY <1>1
<1> DEFINE g == Append(f, n)
<1> HIDE DEF g
<1>4. ToSet(g) = ToSet(f) \cup {n}
  BY <1>1, <1>2, <1>3 DEF ToSet, g
<1> QED BY <1>1, <1>4 DEF g

LEMMA HeadAndTail ==
    ASSUME NEW f \in Seq(Clients), f # <<>>
    PROVE  Head(f) \in Clients /\ Tail(f) \in Seq(Clients) /\ ToSet(f) = ToSet(Tail(f)) \cup {Head(f)}
<1>1. /\ Head(f) = f[1] /\ Tail(f) \in Seq(Clients) /\ 1 \in DOMAIN f /\ f[1] \in Clients
      /\ DOMAIN Tail(f) = 1..(Len(f) - 1) /\ DOMAIN f = 1..Len(f) /\ Len(f) \in Nat
      /\ \A i \in DOMAIN Tail(f) : i + 1 \in DOMAIN f /\ Tail(f)[i] = f[i + 1]
  OBVIOUS
<1>2. \A i \in DOMAIN f : i = 1 \/ (i - 1 \in DOMAIN Tail(f) /\ Tail(f)[i - 1] = f[i])
  BY <1>1
<1> DEFINE g == Tail(f)
<1>3. ToSet(f) \subseteq ToSet(g) \cup {f[1]}
  BY <1>2 DEF ToSet
<1>4. ToSet(g) \subseteq ToSet(f) /\ f[1] \in ToSet(f)
  BY <1>1 DEF ToSet
<1> QED BY <1>1, <1>3, <1>4

-----------------------------------------------------------------------------
(* Types *)

\* How the runs of Add change in a step of theirs.
LEMMA AddsMove ==
    ASSUME TypeOK, NEW a \in Adders, Adding(a) \/ Dialing(a)
    PROVE  \E v \in Addition :
             /\ add' \in [Adders -> Addition] /\ Sets(add, add', Adders, a, v) /\ add[a] # Idle
             /\ \/ add[a].pc = "check" /\ v.pc \in {"dial", "reuse"} /\ UNCHANGED <<host, server>>
                \/ add[a].pc \in {"reuse", "dial"} /\ v.pc = "failed" /\ UNCHANGED <<host, server>>
                \/ /\ add[a].pc = "reuse" /\ v.pc = "got" /\ UNCHANGED <<host, server>>
                   /\ v.client \in ToSet(listed) /\ v.client \in Clients
                \/ /\ add[a].pc = "dial" /\ v.pc = "append" /\ v.client = made + 1 /\ made + 1 \in Clients
                   /\ made' = made + 1 /\ alive' = alive \cup {made + 1} /\ UNCHANGED host
                \/ /\ add[a].pc = "append" /\ v.pc = "got" /\ v.client = add[a].client /\ UNCHANGED server
                   /\ clients' = Append(clients, v.client) /\ listed' = Append(listed, v.client)
                   /\ UNCHANGED closing
<1>0. Idle.pc = "idle"
  BY Values
<1>1. CASE Check(a)
  <2>1. PICK x \in {"dial", "reuse"} : add' = [add EXCEPT ![a].pc = x]
    BY <1>1 DEF Check
  <2>2. add[a].pc = "check" /\ UNCHANGED <<host, server>> /\ x \in Adds
    BY <1>1 DEF Check, Adds
  <2>3. \E v \in Addition : /\ v.pc = x /\ v.client = add[a].client
                            /\ add' \in [Adders -> Addition] /\ Sets(add, add', Adders, a, v)
    BY <2>1, <2>2, AddMoves
  <2> QED BY <1>0, <2>2, <2>3
<1>2. CASE Reuse(a)
  <2>1. add[a].pc = "reuse" /\ UNCHANGED <<host, server>>
    BY <1>2 DEF Reuse
  <2>2. CASE listed = <<>>
    <3>1. add' = [add EXCEPT ![a] = At("failed", 0)] /\ At("failed", 0) \in Addition /\ At("failed", 0).pc = "failed"
      BY <1>2, <2>2, Values DEF Reuse, Adds
    <3> QED BY <1>0, <2>1, <3>1, AddSet
  <2>3. CASE listed # <<>>
    <3> DEFINE n == Last(listed)
    <3>1. add' = [add EXCEPT ![a] = At("got", n)]
      BY <1>2, <2>3 DEF Reuse
    <3>2. n \in ToSet(listed) /\ n \in Clients
      BY <2>3, LastListed
    <3> HIDE DEF n
    <3>3. At("got", n) \in Addition /\ At("got", n).pc = "got" /\ At("got", n).client = n
      BY <3>2, Values DEF Adds
    <3> QED BY <1>0, <2>1, <3>1, <3>2, <3>3, AddSet
  <2> QED BY <2>2, <2>3
<1>3. CASE Enter(a)
  <2>1. /\ add[a].pc = "append" /\ add' = [add EXCEPT ![a].pc = "got"] /\ UNCHANGED server
        /\ clients' = Append(clients, add[a].client) /\ listed' = Append(listed, add[a].client)
        /\ UNCHANGED closing
    BY <1>3 DEF Enter
  <2> QED BY <1>0, <2>1, AddMoves DEF Adds
<1>4. CASE Dial(a)
  <2>1. made + 1 \in Clients
    BY <1>4, PluginHostAssumption DEF Dial, TypeOK, Clients
  <2>2. /\ add[a].pc = "dial" /\ made' = made + 1 /\ alive' = alive \cup {made + 1} /\ UNCHANGED host
        /\ add' = [add EXCEPT ![a] = At("append", made + 1)]
    BY <1>4 DEF Dial
  <2>3. /\ At("append", made + 1) \in Addition /\ At("append", made + 1).pc = "append"
        /\ At("append", made + 1).client = made + 1
    BY <2>1, Values DEF Adds
  <2> QED BY <1>0, <2>1, <2>2, <2>3, AddSet
<1>5. CASE DialFails(a)
  <2>1. /\ add' = [add EXCEPT ![a] = At("failed", 0)] /\ At("failed", 0) \in Addition /\ At("failed", 0).pc = "failed"
        /\ add[a].pc = "dial" /\ UNCHANGED <<host, server>>
    BY <1>5, Values DEF DialFails, Adds
  <2> QED BY <1>0, <2>1, AddSet
<1> QED BY <1>1, <1>2, <1>3, <1>4, <1>5 DEF Adding, Dialing

\* How the registry of a session changes when a connection's tools take the placeholders' place.
LEMMA SwapEffect ==
    ASSUME TypeOK, NEW s \in Sessions, NEW n \in 0..MaxClients, Swap(s, n)
    PROVE  /\ reg' \in [Sessions -> {Nothing, Placeholder} \cup Clients] /\ Sets(reg, reg', Sessions, s, n)
           /\ connect' \in [Sessions -> BOOLEAN]
<1>1. /\ reg \in [Sessions -> {Nothing, Placeholder} \cup Clients] /\ connect \in [Sessions -> BOOLEAN]
      /\ n \in {Nothing, Placeholder} \cup Clients
  BY Values DEF TypeOK, Nothing
<1>2. reg' = [reg EXCEPT ![s] = n] /\ connect' = [connect EXCEPT ![s] = FALSE]
  BY DEF Swap
<1> HIDE DEF Nothing, Placeholder
<1> QED BY <1>1, <1>2 DEF Sets

LEMMA PublishEffect ==
    ASSUME TypeOK, NEW s \in Sessions, Publish(s)
    PROVE  \E n \in 0..MaxClients :
             /\ add[Spawner(s)].pc = "got" /\ add[Spawner(s)].client = n /\ mu[s] = None
             /\ spawn' \in [Sessions -> {"closed", "idle", "inFlight", "ready", "failed"}]
             /\ Sets(spawn, spawn', Sessions, s, "ready")
             /\ real' \in [Sessions -> 0..MaxClients] /\ Sets(real, real', Sessions, s, n)
             /\ reg' \in [Sessions -> {Nothing, Placeholder} \cup Clients] /\ Sets(reg, reg', Sessions, s, n)
             /\ connect' \in [Sessions -> BOOLEAN]
             /\ first' \in [Sessions -> Calls \cup {None}] /\ Sets(first, first', Sessions, s, None)
             /\ add' \in [Adders -> Addition] /\ Sets(add, add', Adders, Spawner(s), Idle)
             /\ mu' \in [Sessions -> Calls \cup {None}] /\ Sets(mu, mu', Sessions, s, first[s])
             /\ call' \in [Calls -> Doing]
             /\ \/ first[s] = None /\ call' = call
                \/ first[s] \in Calls /\ Sets(call, call', Calls, first[s], At("wait", n))
<1> DEFINE n == add[Spawner(s)].client
<1>1. n \in 0..MaxClients
  BY TwoAdders DEF TypeOK
<1>2. /\ add[Spawner(s)].pc = "got" /\ mu[s] = None
      /\ spawn' = [spawn EXCEPT ![s] = "ready"] /\ real' = [real EXCEPT ![s] = n] /\ Swap(s, n)
      /\ first' = [first EXCEPT ![s] = None] /\ add' = [add EXCEPT ![Spawner(s)] = Idle]
      /\ IF first[s] = None THEN mu' = mu /\ call' = call
         ELSE mu' = [mu EXCEPT ![s] = first[s]] /\ call' = [call EXCEPT ![first[s]] = At("wait", n)]
  BY DEF Publish
<1>3. /\ spawn \in [Sessions -> {"closed", "idle", "inFlight", "ready", "failed"}]
      /\ real \in [Sessions -> 0..MaxClients] /\ first \in [Sessions -> Calls \cup {None}]
      /\ mu \in [Sessions -> Calls \cup {None}] /\ call \in [Calls -> Doing]
  BY DEF TypeOK, Doing
<1> HIDE DEF n
<1>4. At("wait", n) \in Doing
  BY <1>1, Values DEF Steps
<1>5. /\ reg' \in [Sessions -> {Nothing, Placeholder} \cup Clients] /\ Sets(reg, reg', Sessions, s, n)
      /\ connect' \in [Sessions -> BOOLEAN]
  BY <1>1, <1>2, SwapEffect
<1>6. add' \in [Adders -> Addition] /\ Sets(add, add', Adders, Spawner(s), Idle)
  BY <1>2, Values, TwoAdders, AddSet
<1>7. /\ spawn' \in [Sessions -> {"closed", "idle", "inFlight", "ready", "failed"}]
      /\ Sets(spawn, spawn', Sessions, s, "ready")
      /\ real' \in [Sessions -> 0..MaxClients] /\ Sets(real, real', Sessions, s, n)
      /\ first' \in [Sessions -> Calls \cup {None}] /\ Sets(first, first', Sessions, s, None)
  BY <1>1, <1>2, <1>3 DEF Sets
<1>8. /\ mu' \in [Sessions -> Calls \cup {None}] /\ Sets(mu, mu', Sessions, s, first[s])
      /\ call' \in [Calls -> Doing]
      /\ \/ first[s] = None /\ call' = call
         \/ first[s] \in Calls /\ Sets(call, call', Calls, first[s], At("wait", n))
  BY <1>2, <1>3, <1>4 DEF Sets
<1> QED BY <1>1, <1>2, <1>5, <1>6, <1>7, <1>8 DEF n

LEMMA FailureEffect ==
    ASSUME TypeOK, NEW s \in Sessions, PublishFailure(s)
    PROVE  /\ add[Spawner(s)].pc = "failed" /\ mu[s] = None /\ Finish({first[s]} \ {None})
           /\ spawn' \in [Sessions -> {"closed", "idle", "inFlight", "ready", "failed"}]
           /\ Sets(spawn, spawn', Sessions, s, "failed")
           /\ first' \in [Sessions -> Calls \cup {None}] /\ Sets(first, first', Sessions, s, None)
           /\ add' \in [Adders -> Addition] /\ Sets(add, add', Adders, Spawner(s), Idle)
<1>1. /\ add[Spawner(s)].pc = "failed" /\ mu[s] = None /\ Finish({first[s]} \ {None})
      /\ spawn' = [spawn EXCEPT ![s] = "failed"] /\ first' = [first EXCEPT ![s] = None]
      /\ add' = [add EXCEPT ![Spawner(s)] = Idle]
  BY DEF PublishFailure
<1>2. /\ spawn \in [Sessions -> {"closed", "idle", "inFlight", "ready", "failed"}]
      /\ first \in [Sessions -> Calls \cup {None}]
  BY DEF TypeOK
<1>3. add' \in [Adders -> Addition] /\ Sets(add, add', Adders, Spawner(s), Idle)
  BY <1>1, Values, TwoAdders, AddSet
<1> QED BY <1>1, <1>2, <1>3 DEF Sets

LEMMA TypeStep == TypeOK /\ Wired /\ [Next]_vars => TypeOK'
<1> SUFFICES ASSUME TypeOK, Wired, [Next]_vars PROVE TypeOK'
  OBVIOUS
<1> USE DEF spawning, host, server, registry, calling, user
<1>1. ASSUME NEW s \in Sessions, NEW hit \in BOOLEAN, NEW kick \in BOOLEAN, Open(s, hit, kick) PROVE TypeOK'
  <2>1. /\ spawn' \in [Sessions -> {"closed", "idle", "inFlight", "ready", "failed"}]
        /\ first' \in [Sessions -> Calls \cup {None}] /\ dials' \in [Sessions -> Nat]
        /\ add' \in [Adders -> Addition]
    <3>1. CASE kick
      BY <1>1, <3>1, BeginEffect DEF Open
    <3>2. CASE ~kick
      BY <1>1, <3>2 DEF Open, TypeOK, Addition
    <3> QED BY <3>1, <3>2
  <2>2. reg' \in [Sessions -> {Nothing, Placeholder} \cup Clients]
    BY <1>1, LastListed DEF Open, TypeOK
  <2>3. cached' \in [Sessions -> BOOLEAN] /\ booting' \subseteq Sessions
    BY <1>1 DEF Open, TypeOK
  <2> QED BY <1>1, <2>1, <2>2, <2>3 DEF Open, TypeOK, Addition
<1>2. ASSUME NEW s \in Sessions, Register(s) PROVE TypeOK'
  <2>1. /\ reg' \in [Sessions -> {Nothing, Placeholder} \cup Clients] /\ connect' \in [Sessions -> BOOLEAN]
        /\ booting' \subseteq Sessions
    BY <1>2 DEF Register, TypeOK
  <2> QED BY <1>2, <2>1 DEF Register, TypeOK
<1>3. ASSUME NEW s \in Sessions, Publish(s) PROVE TypeOK'
  <2>1. /\ spawn' \in [Sessions -> {"closed", "idle", "inFlight", "ready", "failed"}]
        /\ real' \in [Sessions -> 0..MaxClients] /\ reg' \in [Sessions -> {Nothing, Placeholder} \cup Clients]
        /\ connect' \in [Sessions -> BOOLEAN] /\ first' \in [Sessions -> Calls \cup {None}]
        /\ add' \in [Adders -> Addition] /\ mu' \in [Sessions -> Calls \cup {None}]
        /\ call' \in [Calls -> Doing]
    BY <1>3, PublishEffect
  <2> QED BY <1>3, <2>1 DEF Publish, TypeOK, Addition, Doing
<1>4. ASSUME NEW s \in Sessions, PublishFailure(s) PROVE TypeOK'
  <2>1. /\ spawn' \in [Sessions -> {"closed", "idle", "inFlight", "ready", "failed"}]
        /\ first' \in [Sessions -> Calls \cup {None}] /\ add' \in [Adders -> Addition]
    BY <1>4, FailureEffect
  <2>2. /\ mu' \in [Sessions -> Calls \cup {None}] /\ call' \in [Calls -> Doing] /\ cancelled' \subseteq Calls
        /\ pipe' \in [Clients -> Calls \cup {None}]
    BY <1>4, FailureEffect, FinishEffect
  <2> QED BY <1>4, <2>1, <2>2 DEF PublishFailure, TypeOK, Addition, Doing
<1>5. ASSUME NEW s \in Sessions, Connect(s) PROVE TypeOK'
  <2>1. commands' \in 0..MaxCommands
    BY <1>5, PluginHostAssumption DEF Connect, Commanding, TypeOK
  <2>2. add' = [add EXCEPT ![User(s)] = At("check", 0)] /\ At("check", 0) \in Addition
    BY <1>5, Values DEF Connect, User, Adds
  <2>3. add' \in [Adders -> Addition]
    BY <2>2, TwoAdders, AddSet
  <2> QED BY <1>5, <2>1, <2>3 DEF Connect, TypeOK, Addition
<1>6. ASSUME NEW s \in Sessions, Connected(s) PROVE TypeOK'
  <2>1. reg' \in [Sessions -> {Nothing, Placeholder} \cup Clients] /\ connect' \in [Sessions -> BOOLEAN]
    <3>1. CASE add[User(s)].pc = "got"
      <4>1. Swap(s, add[User(s)].client) /\ add[User(s)].client \in 0..MaxClients
        BY <1>6, <3>1, TwoAdders DEF Connected, User, TypeOK
      <4> QED BY <4>1, SwapEffect
    <3>2. CASE add[User(s)].pc # "got"
      BY <1>6, <3>2 DEF Connected, User, TypeOK
    <3> QED BY <3>1, <3>2
  <2>2. add' = [add EXCEPT ![User(s)] = Idle]
    BY <1>6 DEF Connected, User
  <2>3. add' \in [Adders -> Addition]
    BY <2>2, Values, TwoAdders, AddSet
  <2> QED BY <1>6, <2>1, <2>3 DEF Connected, TypeOK, Addition
<1>7. ASSUME NEW s \in Sessions, Disconnect(s) PROVE TypeOK'
  <2>1. commands' \in 0..MaxCommands
    BY <1>7, PluginHostAssumption DEF Disconnect, Commanding, TypeOK
  <2>2. removing' \in [Sessions -> {Quiet, 0} \cup Clients] /\ clients' \in Seq(Clients) /\ listed' = listed
    <3>1. removing \in [Sessions -> {Quiet, 0} \cup Clients] /\ clients \in Seq(Clients)
      BY DEF TypeOK
    <3>2. CASE clients = <<>>
      BY <1>7, <3>1, <3>2 DEF Disconnect
    <3>3. CASE clients # <<>>
      BY <1>7, <3>1, <3>3, HeadAndTail DEF Disconnect
    <3> QED BY <3>2, <3>3
  <2> QED BY <1>7, <2>1, <2>2 DEF Disconnect, TypeOK
<1>8. ASSUME NEW s \in Sessions, Disconnected(s) PROVE TypeOK'
  <2>1. /\ reg' \in [Sessions -> {Nothing, Placeholder} \cup Clients] /\ connect' \in [Sessions -> BOOLEAN]
        /\ removing' \in [Sessions -> {Quiet, 0} \cup Clients] /\ alive' \subseteq alive
    BY <1>8 DEF Disconnected, TypeOK
  <2> QED BY <1>8, <2>1 DEF Disconnected, TypeOK
<1>9. ASSUME NEW a \in Adders, Adding(a) \/ Dialing(a) PROVE TypeOK'
  <2>1. PICK v \in Addition :
             /\ add' \in [Adders -> Addition]
             /\ \/ UNCHANGED <<host, server>>
                \/ /\ made + 1 \in Clients
                   /\ made' = made + 1 /\ alive' = alive \cup {made + 1} /\ UNCHANGED host
                \/ /\ add[a].pc = "append" /\ v.client = add[a].client /\ UNCHANGED server
                   /\ clients' = Append(clients, v.client) /\ listed' = Append(listed, v.client)
                   /\ UNCHANGED closing
    BY <1>9, AddsMove
  <2>2. clients' \in Seq(Clients) /\ listed' \in Seq(Clients)
    <3>1. clients \in Seq(Clients) /\ listed \in Seq(Clients)
      BY DEF TypeOK
    <3>2. add[a].pc = "append" => add[a].client \in Clients
      BY DEF Wired
    <3> QED BY <2>1, <3>1, <3>2, Appended
  <2>3. made' \in 0..MaxClients /\ alive' \subseteq 1..made'
    <3>1. made \in 0..MaxClients /\ alive \subseteq 1..made /\ made \in Nat
      BY PluginHostAssumption DEF TypeOK
    <3>2. CASE UNCHANGED server
      BY <3>1, <3>2
    <3>3. CASE made + 1 \in Clients /\ made' = made + 1 /\ alive' = alive \cup {made + 1}
      <4>1. made + 1 \in 0..MaxClients /\ made + 1 \in 1..(made + 1) /\ 1..made \subseteq 1..(made + 1)
        BY <3>1, <3>3, Values
      <4> QED BY <3>1, <3>3, <4>1
    <3> QED BY <2>1, <3>2, <3>3
  <2>4. UNCHANGED <<spawn, cached, real, mu, booting, first, dials, reg, connect, call, cancelled, pipe,
                    removing, removed, commands>>
    BY <1>9 DEF Adding, Dialing, Check, Reuse, Enter, Dial, DialFails
  <2> QED BY <2>1, <2>2, <2>3, <2>4 DEF TypeOK, Addition
<1>10. ASSUME NEW c \in Calls, LookUp(c) \/ Forward(c) \/ TakePipe(c) \/ Cancel(c) PROVE TypeOK'
  <2>1. call' \in [Calls -> Doing]
    <3>0. SessionOf[c] \in Sessions
      BY PluginHostAssumption
    <3>1. ASSUME NEW x \in Steps, NEW n \in 0..MaxClients, call' = [call EXCEPT ![c] = At(x, n)]
          PROVE  call' \in [Calls -> Doing]
      BY <3>1, Values, CallSet
    <3>2. CASE LookUp(c)
      BY <3>0, <3>1, <3>2, Values DEF LookUp, Steps
    <3>3. CASE Forward(c)
      <4>1. real[SessionOf[c]] \in 0..MaxClients
        BY <3>0 DEF TypeOK
      <4> QED BY <3>1, <3>3, <4>1 DEF Forward, Steps
    <3>4. CASE TakePipe(c)
      <4>1. call \in [Calls -> Doing] /\ call[c] \in Doing
        BY DEF TypeOK, Doing
      <4>2. [call[c] EXCEPT !.pc = "pipe"] \in Doing
        BY <4>1 DEF Doing, Steps
      <4> QED BY <3>4, <4>1, <4>2 DEF TakePipe
    <3>5. CASE Cancel(c)
      BY <3>5 DEF Cancel, TypeOK, Doing
    <3> QED BY <1>10, <3>2, <3>3, <3>4, <3>5
  <2>2. pipe' \in [Clients -> Calls \cup {None}] /\ cancelled' \subseteq Calls
    <3>1. pipe \in [Clients -> Calls \cup {None}] /\ cancelled \subseteq Calls
      BY DEF TypeOK
    <3>2. CASE LookUp(c) \/ Forward(c) \/ Cancel(c)
      BY <3>1, <3>2 DEF LookUp, Forward, Cancel
    <3>3. CASE TakePipe(c)
      BY <3>1, <3>3 DEF TakePipe
    <3> QED BY <1>10, <3>2, <3>3
  <2> QED BY <1>10, <2>1, <2>2 DEF LookUp, Forward, TakePipe, Cancel, TypeOK, Doing
<1>11. ASSUME NEW c \in Calls, FirstOfStub(c) \/ FirstOfCached(c) PROVE TypeOK'
  <2>1. SessionOf[c] \in Sessions
    BY PluginHostAssumption
  <2>2. \E by \in Calls \cup {None} : BeginSpawn(SessionOf[c], by)
    BY <1>11 DEF FirstOfStub, FirstOfCached
  <2>3. /\ spawn' \in [Sessions -> {"closed", "idle", "inFlight", "ready", "failed"}]
        /\ first' \in [Sessions -> Calls \cup {None}] /\ dials' \in [Sessions -> Nat]
        /\ add' \in [Adders -> Addition]
    BY <2>1, <2>2, BeginEffect
  <2>4. /\ mu' \in [Sessions -> Calls \cup {None}] /\ call' \in [Calls -> Doing] /\ cancelled' \subseteq Calls
        /\ pipe' \in [Clients -> Calls \cup {None}]
    <3>1. CASE FirstOfStub(c)
      BY <3>1, FinishEffect DEF FirstOfStub
    <3>2. CASE FirstOfCached(c)
      <4>1. call' = [call EXCEPT ![c] = At("first", 0)] /\ At("first", 0) \in Doing
        BY <3>2, Values DEF FirstOfCached, Steps
      <4>2. call' \in [Calls -> Doing]
        BY <4>1, CallSet
      <4> QED BY <3>2, <4>2 DEF FirstOfCached, TypeOK
    <3> QED BY <1>11, <3>1, <3>2
  <2>5. UNCHANGED <<cached, real, booting, host, server, registry, user>>
    BY <1>11 DEF FirstOfStub, FirstOfCached
  <2> QED BY <2>3, <2>4, <2>5 DEF TypeOK, Addition, Doing
<1>12. ASSUME NEW c \in Calls, Refused(c) \/ Answer(c) \/ GiveUp(c) PROVE TypeOK'
  <2>1. /\ mu' \in [Sessions -> Calls \cup {None}] /\ call' \in [Calls -> Doing] /\ cancelled' \subseteq Calls
        /\ pipe' \in [Clients -> Calls \cup {None}]
    BY <1>12, FinishEffect DEF Refused, Answer, GiveUp
  <2>2. UNCHANGED <<spawn, cached, real, booting, first, dials, host, server, registry, add, user>>
    BY <1>12 DEF Refused, Answer, GiveUp
  <2> QED BY <2>1, <2>2 DEF TypeOK, Doing
<1>13. ASSUME NEW n \in Clients, Die(n) PROVE TypeOK'
  <2>1. alive' \subseteq alive
    BY <1>13 DEF Die
  <2> QED BY <1>13, <2>1 DEF Die, TypeOK
<1>14. CASE UNCHANGED vars
  BY <1>14 DEF vars, TypeOK
<1>15. CASE Close \/ Closed
  <2>1. closing' \in [pc : {"no", "closing", "closed"}, taken : SUBSET Clients]
    <3>1. closing \in [pc : {"no", "closing", "closed"}, taken : SUBSET Clients] /\ ToSet(clients) \subseteq Clients
      BY DEF TypeOK, ToSet
    <3> QED BY <1>15, <3>1 DEF Close, Closed
  <2>2. listed' \in Seq(Clients) /\ alive' \subseteq 1..made /\ made' = made
    <3>1. listed' = listed \/ listed' = <<>>
      BY <1>15 DEF Close, Closed
    <3>2. listed' \in Seq(Clients)
      <4>1. listed \in Seq(Clients)
        BY DEF TypeOK
      <4>2. CASE listed' = <<>>
        <5> <<>> \in Seq(Clients)
          OBVIOUS
        <5> QED BY <4>2
      <4> QED BY <3>1, <4>1, <4>2
    <3>3. alive' \subseteq alive /\ made' = made
      BY <1>15 DEF Close, Closed
    <3> QED BY <3>2, <3>3 DEF TypeOK
  <2>3. commands' \in 0..MaxCommands
    BY <1>15, PluginHostAssumption DEF Close, Closed, TypeOK
  <2>4. UNCHANGED <<spawning, clients, registry, add, calling, removing, removed>>
    BY <1>15 DEF Close, Closed
  <2> QED BY <2>1, <2>2, <2>3, <2>4 DEF TypeOK
<1> QED BY <1>1, <1>2, <1>3, <1>4, <1>5, <1>6, <1>7, <1>8, <1>9, <1>10, <1>11, <1>12, <1>13, <1>14, <1>15
        DEF Next, Executing

-----------------------------------------------------------------------------
(* Connections and handshakes *)

\* A call goes to a connection that its registry or its lazySpawn has.
LEMMA CallsMove ==
    ASSUME TypeOK, Wired, NEW c \in Calls, LookUp(c) \/ Forward(c) \/ TakePipe(c) \/ FirstOfCached(c)
    PROVE  \E v \in Doing :
             /\ call' \in [Calls -> Doing] /\ Sets(call, call', Calls, c, v)
             /\ \/ call[c].pc = "idle" /\ v.pc \in {"wait", "placeholder", "connect"}
                \/ call[c].pc = "placeholder" /\ v.pc = "wait"
                \/ call[c].pc = "placeholder" /\ v.pc = "first" /\ FirstOfCached(c)
                \/ call[c].pc = "wait" /\ v.pc = "pipe" /\ v.client = call[c].client
             /\ v.pc = "wait" => v.client \in Clients
<1>0. SessionOf[c] \in Sessions /\ Idle.pc = "idle"
  BY Values, PluginHostAssumption
<1>1. ASSUME NEW x \in Steps, NEW n \in 0..MaxClients, call' = [call EXCEPT ![c] = At(x, n)]
      PROVE  /\ At(x, n) \in Doing /\ At(x, n).pc = x /\ At(x, n).client = n
             /\ call' \in [Calls -> Doing] /\ Sets(call, call', Calls, c, At(x, n))
  BY <1>1, Values, CallSet
<1>2. CASE LookUp(c)
  <2>1. /\ call[c].pc = "idle"
        /\ \/ reg[SessionOf[c]] \in Clients /\ call' = [call EXCEPT ![c] = At("wait", reg[SessionOf[c]])]
           \/ call' = [call EXCEPT ![c] = At("placeholder", 0)]
           \/ call' = [call EXCEPT ![c] = At("connect", 0)]
    BY <1>0, <1>2 DEF LookUp
  <2>2. CASE reg[SessionOf[c]] \in Clients /\ call' = [call EXCEPT ![c] = At("wait", reg[SessionOf[c]])]
    <3>1. reg[SessionOf[c]] \in 0..MaxClients /\ "wait" \in Steps
      BY <2>2, Values DEF Steps
    <3> DEFINE v == At("wait", reg[SessionOf[c]])
    <3>2. v \in Doing /\ v.pc = "wait" /\ v.client \in Clients
      BY <2>2, <3>1, Values
    <3>3. call' \in [Calls -> Doing] /\ Sets(call, call', Calls, c, v)
      BY <2>2, <3>2, CallSet
    <3> HIDE DEF v
    <3> QED BY <2>1, <3>2, <3>3
  <2>3. CASE call' = [call EXCEPT ![c] = At("placeholder", 0)]
    BY <1>1, <2>1, <2>3, Values DEF Steps
  <2>4. CASE call' = [call EXCEPT ![c] = At("connect", 0)]
    BY <1>1, <2>1, <2>4, Values DEF Steps
  <2> QED BY <2>1, <2>2, <2>3, <2>4
<1>3. CASE Forward(c)
  <2>1. /\ call[c].pc = "placeholder" /\ call' = [call EXCEPT ![c] = At("wait", real[SessionOf[c]])]
        /\ real[SessionOf[c]] \in Clients
    BY <1>0, <1>3 DEF Forward, Wired
  <2>2. real[SessionOf[c]] \in 0..MaxClients /\ "wait" \in Steps
    BY <2>1, Values DEF Steps
  <2> DEFINE v == At("wait", real[SessionOf[c]])
  <2>3. v \in Doing /\ v.pc = "wait" /\ v.client \in Clients
    BY <2>1, <2>2, Values
  <2>4. call' \in [Calls -> Doing] /\ Sets(call, call', Calls, c, v)
    BY <2>1, <2>3, CallSet
  <2> HIDE DEF v
  <2> QED BY <2>1, <2>3, <2>4
<1>4. CASE FirstOfCached(c)
  <2>1. call[c].pc = "placeholder" /\ call' = [call EXCEPT ![c] = At("first", 0)]
    BY <1>4 DEF FirstOfCached
  <2> DEFINE v == At("first", 0)
  <2>2. v \in Doing /\ v.pc = "first"
    BY Values DEF Steps
  <2>3. call' \in [Calls -> Doing] /\ Sets(call, call', Calls, c, v)
    BY <2>1, <2>2, CallSet
  <2> HIDE DEF v
  <2> QED BY <1>4, <2>1, <2>2, <2>3
<1>5. CASE TakePipe(c)
  <2>1. call \in [Calls -> Doing] /\ call[c] \in Doing /\ call[c].pc = "wait"
    BY <1>5 DEF TakePipe, TypeOK, Doing
  <2> DEFINE v == [call[c] EXCEPT !.pc = "pipe"]
  <2>2. v \in Doing /\ v.pc = "pipe" /\ v.client = call[c].client
    BY <2>1 DEF Doing, Steps
  <2>3. call' = [call EXCEPT ![c] = v]
    BY <1>5 DEF TakePipe
  <2> HIDE DEF v
  <2> QED BY <2>1, <2>2, <2>3, CallSet
<1> QED BY <1>2, <1>3, <1>4, <1>5

\* Who touches the calls, the additions and the spawns.
LEMMA CallOwners ==
    ASSUME [Next]_vars
    PROVE  \/ call' = call
           \/ \E s \in Sessions : Publish(s)
           \/ \E c \in Calls : LookUp(c) \/ Forward(c) \/ TakePipe(c) \/ FirstOfCached(c)
           \/ \E set : Finish(set)
<1>1. CASE UNCHANGED vars
  BY <1>1 DEF vars, calling
<1>2. CASE Next
  BY <1>2 DEF Next, Executing, Adding, Dialing, Open, Register, PublishFailure, Connect, Connected, Disconnect,
         Disconnected, Check, Reuse, Enter, Dial, DialFails, Refused, FirstOfStub, Answer, GiveUp, Cancel, Die, Close, Closed, calling
<1> QED BY <1>1, <1>2

LEMMA SpawnOwners ==
    ASSUME [Next]_vars
    PROVE  \/ UNCHANGED <<spawn, real, first, dials, add>>
           \/ \E s \in Sessions : Publish(s) \/ PublishFailure(s)
           \/ \E s \in Sessions, hit, kick \in BOOLEAN : Open(s, hit, kick)
           \/ \E c \in Calls : FirstOfStub(c) \/ FirstOfCached(c)
           \/ (\E s \in Sessions : Connect(s) \/ Connected(s)) /\ UNCHANGED <<spawn, real, first, dials>>
           \/ (\E a \in Adders : Adding(a) \/ Dialing(a)) /\ UNCHANGED <<spawn, real, first, dials>>
<1>1. CASE UNCHANGED vars
  BY <1>1 DEF vars, spawning
<1>2. CASE Next
  BY <1>2 DEF Next, Executing, Adding, Dialing, Register, Connect, Connected, Disconnect,
         Disconnected, Check, Reuse, Enter, Dial, DialFails, LookUp, Forward, Refused, TakePipe, Answer, GiveUp,
         Cancel, Die, Close, Closed, spawning
<1> QED BY <1>1, <1>2

\* A session opens, or a call is the first: the handshake begins, once.
LEMMA Begins ==
    ASSUME TypeOK, \/ \E s \in Sessions, hit, kick \in BOOLEAN : Open(s, hit, kick)
                   \/ \E c \in Calls : FirstOfStub(c) \/ FirstOfCached(c)
    PROVE  \E s \in Sessions :
             /\ spawn[s] \in {"closed", "idle"} /\ real' = real
             /\ \/ \E by \in Calls \cup {None} : BeginSpawn(s, by)
                \/ Sets(spawn, spawn', Sessions, s, "idle") /\ UNCHANGED <<first, dials, add>>
<1>1. ASSUME NEW s \in Sessions, NEW hit \in BOOLEAN, NEW kick \in BOOLEAN, Open(s, hit, kick)
      PROVE  /\ spawn[s] \in {"closed", "idle"} /\ real' = real
             /\ \/ \E by \in Calls \cup {None} : BeginSpawn(s, by)
                \/ Sets(spawn, spawn', Sessions, s, "idle") /\ UNCHANGED <<first, dials, add>>
  BY <1>1 DEF Open, Sets, TypeOK
<1>2. ASSUME NEW c \in Calls, FirstOfStub(c) \/ FirstOfCached(c)
      PROVE  /\ SessionOf[c] \in Sessions /\ spawn[SessionOf[c]] = "idle" /\ real' = real
             /\ \E by \in Calls \cup {None} : BeginSpawn(SessionOf[c], by)
  BY <1>2, PluginHostAssumption DEF FirstOfStub, FirstOfCached
<1> QED BY <1>1, <1>2

LEMMA UserAdds ==
    ASSUME TypeOK, NEW s \in Sessions, Connect(s) \/ Connected(s)
    PROVE  \E v \in Addition : v.pc \notin {"append", "got"} /\ Sets(add, add', Adders, User(s), v)
<1>1. /\ At("check", 0) \in Addition /\ At("check", 0).pc = "check" /\ Idle \in Addition /\ Idle.pc = "idle"
  BY Values DEF Adds
<1>2. add' = [add EXCEPT ![User(s)] = At("check", 0)] \/ add' = [add EXCEPT ![User(s)] = Idle]
  BY DEF Connect, Connected, User
<1> QED BY <1>1, <1>2, TwoAdders, AddSet

LEMMA WiredStep == TypeOK /\ Wired /\ [Next]_vars => Wired'
<1> SUFFICES ASSUME TypeOK, Wired, [Next]_vars PROVE Wired'
  OBVIOUS
<1>0. At("check", 0).pc = "check" /\ Idle.pc = "idle"
  BY Values DEF Adds
<1>1. \A a \in Adders : add'[a].pc \in {"append", "got"} => add'[a].client \in Clients
  <2>1. CASE add' = add
    BY <2>1 DEF Wired
  <2>2. ASSUME NEW s \in Sessions, Publish(s) \/ PublishFailure(s)
        PROVE  \A a \in Adders : add'[a].pc \in {"append", "got"} => add'[a].client \in Clients
    <3>1. Sets(add, add', Adders, Spawner(s), Idle)
      BY <2>2, PublishEffect, FailureEffect
    <3> QED BY <1>0, <3>1 DEF Wired, Sets
  <2>3. ASSUME NEW s \in Sessions, NEW by \in Calls \cup {None}, BeginSpawn(s, by)
        PROVE  \A a \in Adders : add'[a].pc \in {"append", "got"} => add'[a].client \in Clients
    <3>1. Sets(add, add', Adders, Spawner(s), At("check", 0))
      BY <2>3, BeginEffect
    <3> QED BY <1>0, <3>1 DEF Wired, Sets
  <2>4. ASSUME NEW s \in Sessions, Connect(s) \/ Connected(s)
        PROVE  \A a \in Adders : add'[a].pc \in {"append", "got"} => add'[a].client \in Clients
    <3>1. PICK v \in Addition : v.pc \notin {"append", "got"} /\ Sets(add, add', Adders, User(s), v)
      BY <2>4, UserAdds
    <3> QED BY <3>1 DEF Wired, Sets
  <2>5. ASSUME NEW b \in Adders, Adding(b) \/ Dialing(b)
        PROVE  \A a \in Adders : add'[a].pc \in {"append", "got"} => add'[a].client \in Clients
    <3>1. PICK v \in Addition :
            /\ Sets(add, add', Adders, b, v)
            /\ v.pc \in {"append", "got"} => v.client \in Clients \/ (add[b].pc = "append" /\ v.client = add[b].client)
      BY <2>5, AddsMove
    <3> QED BY <3>1 DEF Wired, Sets
  <2> QED BY <2>1, <2>2, <2>3, <2>4, <2>5, SpawnOwners, Begins
<1>2. \A s \in Sessions : spawn'[s] = "ready" => real'[s] \in Clients
  <2>1. CASE UNCHANGED <<spawn, real>>
    BY <2>1 DEF Wired
  <2>2. ASSUME NEW s \in Sessions, Publish(s) PROVE \A t \in Sessions : spawn'[t] = "ready" => real'[t] \in Clients
    <3>1. PICK n \in 0..MaxClients : /\ add[Spawner(s)].pc = "got" /\ add[Spawner(s)].client = n
                                     /\ Sets(spawn, spawn', Sessions, s, "ready") /\ Sets(real, real', Sessions, s, n)
      BY <2>2, PublishEffect
    <3>2. n \in Clients
      BY <3>1, TwoAdders DEF Wired
    <3> QED BY <3>1, <3>2 DEF Wired, Sets
  <2>3. ASSUME NEW s \in Sessions, PublishFailure(s) PROVE \A t \in Sessions : spawn'[t] = "ready" => real'[t] \in Clients
    <3>1. Sets(spawn, spawn', Sessions, s, "failed")
      BY <2>3, FailureEffect
    <3>2. real' = real
      BY <2>3 DEF PublishFailure
    <3> QED BY <3>1, <3>2 DEF Wired, Sets
  <2>4. ASSUME NEW s \in Sessions, real' = real,
               \/ \E by \in Calls \cup {None} : BeginSpawn(s, by)
               \/ Sets(spawn, spawn', Sessions, s, "idle")
        PROVE  \A t \in Sessions : spawn'[t] = "ready" => real'[t] \in Clients
    <3>1. Sets(spawn, spawn', Sessions, s, "idle") \/ Sets(spawn, spawn', Sessions, s, "inFlight")
      BY <2>4, BeginEffect
    <3> QED BY <2>4, <3>1 DEF Wired, Sets
  <2>5. \/ UNCHANGED <<spawn, real>>
        \/ \E s \in Sessions : Publish(s) \/ PublishFailure(s)
        \/ \E s \in Sessions :
              /\ real' = real
              /\ \/ \E by \in Calls \cup {None} : BeginSpawn(s, by)
                 \/ Sets(spawn, spawn', Sessions, s, "idle")
    BY SpawnOwners, Begins
  <2> QED BY <2>1, <2>2, <2>3, <2>4, <2>5
<1>3. \A c \in Calls : call'[c].pc \in {"wait", "pipe"} => call'[c].client \in Clients
  <2>1. CASE call' = call
    BY <2>1 DEF Wired
  <2>2. ASSUME NEW s \in Sessions, Publish(s) PROVE \A c \in Calls : call'[c].pc \in {"wait", "pipe"} => call'[c].client \in Clients
    <3>1. PICK n \in 0..MaxClients : /\ add[Spawner(s)].pc = "got" /\ add[Spawner(s)].client = n
                                     /\ call' = call \/ Sets(call, call', Calls, first[s], At("wait", n))
      BY <2>2, PublishEffect
    <3>2. n \in Clients /\ At("wait", n).client = n
      BY <3>1, TwoAdders, Values DEF Wired, Steps
    <3> QED BY <3>1, <3>2 DEF Wired, Sets
  <2>3. ASSUME NEW d \in Calls, LookUp(d) \/ Forward(d) \/ TakePipe(d) \/ FirstOfCached(d)
        PROVE  \A c \in Calls : call'[c].pc \in {"wait", "pipe"} => call'[c].client \in Clients
    <3>1. PICK v \in Doing : /\ Sets(call, call', Calls, d, v)
                             /\ v.pc = "pipe" => call[d].pc = "wait" /\ v.client = call[d].client
                             /\ v.pc = "wait" => v.client \in Clients
      BY <2>3, CallsMove
    <3> QED BY <3>1 DEF Wired, Sets
  <2>4. ASSUME NEW set, Finish(set)
        PROVE  \A c \in Calls : call'[c].pc \in {"wait", "pipe"} => call'[c].client \in Clients
    BY <1>0, <2>4, FinishEffect DEF Wired
  <2> QED BY <2>1, <2>2, <2>3, <2>4, CallOwners
<1> QED BY <1>1, <1>2, <1>3 DEF Wired

LEMMA HandshakeStep == TypeOK /\ Handshake /\ [Next]_vars => Handshake'
<1> SUFFICES ASSUME TypeOK, Handshake, [Next]_vars PROVE Handshake'
  OBVIOUS
<1>0. dials \in [Sessions -> Nat]
  BY DEF TypeOK
<1>1. CASE UNCHANGED <<spawn, real, first, dials, add>>
  BY <1>1 DEF Handshake
<1>2. ASSUME NEW s \in Sessions, Publish(s) \/ PublishFailure(s) PROVE Handshake'
  <2>1. /\ Sets(add, add', Adders, Spawner(s), Idle)
        /\ Sets(spawn, spawn', Sessions, s, "ready") \/ Sets(spawn, spawn', Sessions, s, "failed")
    BY <1>2, PublishEffect, FailureEffect
  <2>2. dials' = dials
    BY <1>2 DEF Publish, PublishFailure
  <2> QED BY <2>1, <2>2, TwoAdders DEF Handshake, Sets
<1>3. ASSUME NEW s \in Sessions, NEW by \in Calls \cup {None}, BeginSpawn(s, by), spawn[s] \in {"closed", "idle"}
      PROVE  Handshake'
  <2>1. /\ Sets(add, add', Adders, Spawner(s), At("check", 0)) /\ Sets(spawn, spawn', Sessions, s, "inFlight")
        /\ Sets(dials, dials', Sessions, s, dials[s] + 1)
    BY <1>3, BeginEffect
  <2>2. dials[s] + 1 <= 1
    BY <1>3 DEF Handshake
  <2> QED BY <2>1, <2>2, TwoAdders DEF Handshake, Sets
<1>4. ASSUME NEW s \in Sessions, Sets(spawn, spawn', Sessions, s, "idle"), UNCHANGED <<first, dials, add>>,
             spawn[s] \in {"closed", "idle"}
      PROVE  Handshake'
  BY <1>4 DEF Handshake, Sets
<1>5. ASSUME NEW s \in Sessions, Connect(s) \/ Connected(s), UNCHANGED <<spawn, dials>> PROVE Handshake'
  <2>1. \E v \in Addition : Sets(add, add', Adders, User(s), v)
    BY <1>5, UserAdds
  <2> QED BY <1>5, <2>1, TwoAdders DEF Handshake, Sets
<1>6. ASSUME NEW a \in Adders, Adding(a) \/ Dialing(a), UNCHANGED <<spawn, dials>> PROVE Handshake'
  <2>1. add[a] # Idle /\ \E v \in Addition : Sets(add, add', Adders, a, v)
    BY <1>6, AddsMove
  <2> QED BY <1>6, <2>1, TwoAdders DEF Handshake, Sets
<1> QED BY <1>1, <1>2, <1>3, <1>4, <1>5, <1>6, SpawnOwners, Begins

-----------------------------------------------------------------------------
(* Processes *)

LEMMA ProcessesStep == TypeOK /\ Wired /\ Handshake /\ Processes /\ [Next]_vars => Processes'
<1> SUFFICES ASSUME TypeOK, Wired, Handshake, Processes, [Next]_vars PROVE Processes'
  OBVIOUS
<1>0. At("check", 0).pc = "check" /\ Idle.pc = "idle"
  BY Values DEF Adds
\* A run of Add that begins or is over has no connection to enter.
<1>1. ASSUME UNCHANGED <<alive, clients, removing>>, NEW b \in Adders, NEW v, add[b].pc # "append",
             Sets(add, add', Adders, b, v)
      PROVE  Processes'
  BY <1>1 DEF Processes, Sets
<1>2. CASE UNCHANGED <<alive, clients, removing, add>>
  BY <1>2 DEF Processes
<1>3. ASSUME NEW s \in Sessions, Publish(s) \/ PublishFailure(s) PROVE Processes'
  <2>1. add[Spawner(s)].pc # "append" /\ Sets(add, add', Adders, Spawner(s), Idle)
    BY <1>3, PublishEffect, FailureEffect
  <2>2. UNCHANGED <<alive, clients, removing>>
    BY <1>3 DEF Publish, PublishFailure, host, server, user
  <2> QED BY <1>1, <2>1, <2>2, TwoAdders
<1>4. ASSUME \/ \E s \in Sessions, hit, kick \in BOOLEAN : Open(s, hit, kick)
             \/ \E c \in Calls : FirstOfStub(c) \/ FirstOfCached(c)
      PROVE Processes'
  <2>1. UNCHANGED <<alive, clients, removing>>
    BY <1>4 DEF Open, FirstOfStub, FirstOfCached, host, server, user
  <2>2. PICK s \in Sessions : /\ spawn[s] \in {"closed", "idle"}
                              /\ add' = add \/ \E by \in Calls \cup {None} : BeginSpawn(s, by)
    BY <1>4, Begins
  <2>3. add' = add \/ Sets(add, add', Adders, Spawner(s), At("check", 0))
    BY <2>2, BeginEffect
  <2>4. add[Spawner(s)].pc # "append"
    BY <1>0, <2>2 DEF Handshake
  <2> QED BY <1>1, <1>2, <2>1, <2>3, <2>4, TwoAdders
<1>5. ASSUME NEW s \in Sessions, Connect(s) \/ Connected(s) PROVE Processes'
  <2>1. \E v \in Addition : Sets(add, add', Adders, User(s), v)
    BY <1>5, UserAdds
  <2>2. UNCHANGED <<alive, clients, removing>> /\ add[User(s)].pc # "append"
    BY <1>0, <1>5 DEF Connect, Connected, Commanding, User, host, server, user
  <2> QED BY <1>1, <2>1, <2>2, TwoAdders
<1>6. ASSUME NEW a \in Adders, Adding(a) \/ Dialing(a) PROVE Processes'
  <2>1. PICK v \in Addition :
          /\ Sets(add, add', Adders, a, v)
          /\ \/ add[a].pc # "append" /\ UNCHANGED <<host, server>>
             \/ /\ add[a].pc # "append" /\ v.pc = "append" /\ v.client = made + 1
                /\ alive' = alive \cup {made + 1} /\ UNCHANGED host
             \/ /\ add[a].pc = "append" /\ v.client = add[a].client /\ UNCHANGED server
                /\ clients' = Append(clients, v.client)
    BY <1>6, AddsMove
  <2>2. removing' = removing
    BY <1>6 DEF Adding, Dialing, Check, Reuse, Enter, Dial, DialFails, user
  <2>3. CASE add[a].pc # "append" /\ UNCHANGED <<host, server>>
    BY <1>1, <2>1, <2>2, <2>3 DEF host, server
  <2>4. CASE /\ add[a].pc # "append" /\ v.pc = "append" /\ v.client = made + 1
             /\ alive' = alive \cup {made + 1} /\ UNCHANGED host
    BY <2>1, <2>2, <2>4 DEF Processes, Sets, host
  <2>5. CASE /\ add[a].pc = "append" /\ v.client = add[a].client /\ UNCHANGED server
             /\ clients' = Append(clients, v.client)
    <3>1. ToSet(clients') = ToSet(clients) \cup {add[a].client}
      BY <2>5, Appended DEF TypeOK, Wired
    <3> QED BY <2>1, <2>2, <2>5, <3>1 DEF Processes, Sets, server
  <2> QED BY <2>1, <2>3, <2>4, <2>5
<1>7. ASSUME NEW s \in Sessions, Disconnect(s) PROVE Processes'
  <2>1. UNCHANGED <<alive, add>> /\ removing[s] = Quiet
    BY <1>7 DEF Disconnect, Commanding, server
  <2>2. Quiet \notin alive
    BY Values DEF TypeOK, Quiet, Clients
  <2>3. removing \in [Sessions -> {Quiet, 0} \cup Clients]
    BY DEF TypeOK
  <2>4. CASE clients = <<>>
    BY <1>7, <2>1, <2>2, <2>3, <2>4 DEF Disconnect, Processes, host
  <2>5. CASE clients # <<>>
    <3>1. removing' = [removing EXCEPT ![s] = Head(clients)] /\ clients' = Tail(clients)
      BY <1>7, <2>5 DEF Disconnect
    <3>2. ToSet(clients) = ToSet(clients') \cup {Head(clients)}
      BY <2>5, <3>1, HeadAndTail DEF TypeOK
    <3>3. removing'[s] = Head(clients) /\ \A t \in Sessions \ {s} : removing'[t] = removing[t]
      BY <2>3, <3>1
    <3> QED BY <2>1, <2>2, <3>2, <3>3 DEF Processes
  <2> QED BY <2>4, <2>5
<1>8. ASSUME NEW s \in Sessions, Disconnected(s) PROVE Processes'
  <2>1. /\ UNCHANGED <<clients, add>> /\ alive' = alive \ {removing[s]} /\ removing' = [removing EXCEPT ![s] = Quiet]
        /\ removing \in [Sessions -> {Quiet, 0} \cup Clients]
    BY <1>8 DEF Disconnected, host, TypeOK
  <2> QED BY <2>1 DEF Processes
<1>9. ASSUME NEW n \in Clients, Die(n) PROVE Processes'
  BY <1>9 DEF Die, Processes, host, user
<1>10. CASE \/ \E s \in Sessions : Register(s)
            \/ \E c \in Calls : LookUp(c) \/ Forward(c) \/ Refused(c) \/ TakePipe(c) \/ Answer(c) \/ GiveUp(c) \/ Cancel(c)
            \/ UNCHANGED vars
  <2>1. UNCHANGED <<alive, clients, removing, add>>
    BY <1>10 DEF Register, LookUp, Forward, Refused, TakePipe, Answer, GiveUp, Cancel, vars, host, server, user
  <2> QED BY <1>2, <2>1
<1>11. CASE Close \/ Closed
  BY <1>11 DEF Close, Closed, Processes, server, user
<1> QED BY <1>3, <1>4, <1>5, <1>6, <1>7, <1>8, <1>9, <1>10, <1>11 DEF Next, Executing

\* Connections are numbered as they are made, and a number is not used again.
LEMMA GoneStep == TypeOK /\ Wired /\ Handshake /\ Gone /\ [Next]_vars => Gone'
<1> SUFFICES ASSUME TypeOK, Wired, Handshake, Gone, [Next]_vars PROVE Gone'
  OBVIOUS
<1>0. /\ At("check", 0).pc = "check" /\ Idle.pc = "idle" /\ made \in Nat
      /\ alive \subseteq 1..made
  BY Values, PluginHostAssumption DEF Adds, TypeOK
\* What leaves the connections alone.
<1>1. ASSUME UNCHANGED <<made, closing>>, alive' \subseteq alive, ToSet(clients') \subseteq ToSet(clients),
             \A b \in Adders : add'[b].pc = "append" => add[b].pc = "append" /\ add'[b].client = add[b].client
      PROVE  Gone'
  BY <1>1 DEF Gone
<1>2. ASSUME NEW s \in Sessions, Publish(s) \/ PublishFailure(s) PROVE Gone'
  <2>1. Sets(add, add', Adders, Spawner(s), Idle)
    BY <1>2, PublishEffect, FailureEffect
  <2>2. UNCHANGED <<alive, clients, made, closing>>
    BY <1>2 DEF Publish, PublishFailure, host, server
  <2> QED BY <1>0, <1>1, <2>1, <2>2 DEF Sets
<1>3. ASSUME \/ \E s \in Sessions, hit, kick \in BOOLEAN : Open(s, hit, kick)
             \/ \E c \in Calls : FirstOfStub(c) \/ FirstOfCached(c)
      PROVE Gone'
  <2>1. UNCHANGED <<alive, clients, made, closing>>
    BY <1>3 DEF Open, FirstOfStub, FirstOfCached, host, server
  <2>2. PICK s \in Sessions : add' = add \/ \E by \in Calls \cup {None} : BeginSpawn(s, by)
    BY <1>3, Begins
  <2>3. add' = add \/ Sets(add, add', Adders, Spawner(s), At("check", 0))
    BY <2>2, BeginEffect
  <2> QED BY <1>0, <1>1, <2>1, <2>3 DEF Sets
<1>4. ASSUME NEW s \in Sessions, Connect(s) \/ Connected(s) PROVE Gone'
  <2>1. PICK v \in Addition : v.pc \notin {"append", "got"} /\ Sets(add, add', Adders, User(s), v)
    BY <1>4, UserAdds
  <2>2. UNCHANGED <<alive, clients, made, closing>>
    BY <1>4 DEF Connect, Connected, host, server
  <2> QED BY <1>1, <2>1, <2>2 DEF Sets
<1>5. ASSUME NEW a \in Adders, Adding(a) \/ Dialing(a) PROVE Gone'
  <2>1. PICK v \in Addition :
          /\ Sets(add, add', Adders, a, v)
          /\ \/ v.pc # "append" /\ UNCHANGED <<host, server>>
             \/ /\ v.pc = "append" /\ v.client = made + 1 /\ made' = made + 1
                /\ alive' = alive \cup {made + 1} /\ UNCHANGED host
             \/ /\ add[a].pc = "append" /\ v.pc # "append" /\ v.client = add[a].client /\ UNCHANGED server
                /\ clients' = Append(clients, v.client) /\ UNCHANGED closing
    BY <1>5, AddsMove
  <2>2. CASE v.pc # "append" /\ UNCHANGED <<host, server>>
    BY <1>1, <2>1, <2>2 DEF Sets, host, server
  <2>3. CASE /\ v.pc = "append" /\ v.client = made + 1 /\ made' = made + 1
             /\ alive' = alive \cup {made + 1} /\ UNCHANGED host
    <3>1. 1..made \subseteq 1..made' /\ made + 1 \in 1..made' /\ made + 1 \notin 1..made
      BY <1>0, <2>3
    <3>2. \A b \in Adders : add'[b].pc = "append" => add'[b].client \in 1..made'
      BY <2>1, <2>3, <3>1 DEF Gone, Sets
    <3> QED BY <2>3, <3>1, <3>2 DEF Gone, host
  <2>4. CASE /\ add[a].pc = "append" /\ v.pc # "append" /\ v.client = add[a].client /\ UNCHANGED server
             /\ clients' = Append(clients, v.client) /\ UNCHANGED closing
    <3>1. ToSet(clients') = ToSet(clients) \cup {add[a].client}
      BY <2>4, Appended DEF TypeOK, Wired
    <3> QED BY <2>1, <2>4, <3>1 DEF Gone, Sets, server
  <2> QED BY <2>1, <2>2, <2>3, <2>4
<1>6. ASSUME NEW s \in Sessions, Disconnect(s) \/ Disconnected(s) PROVE Gone'
  <2>1. UNCHANGED <<made, closing, add>> /\ alive' \subseteq alive
    BY <1>6 DEF Disconnect, Disconnected, host, server
  <2>2. ToSet(clients') \subseteq ToSet(clients)
    <3>1. clients' = clients \/ (clients # <<>> /\ clients' = Tail(clients))
      BY <1>6 DEF Disconnect, Disconnected, host
    <3> QED BY <3>1, HeadAndTail DEF TypeOK
  <2> QED BY <1>1, <2>1, <2>2
<1>7. CASE \/ \E s \in Sessions : Register(s)
           \/ \E c \in Calls : LookUp(c) \/ Forward(c) \/ Refused(c) \/ TakePipe(c) \/ Answer(c) \/ GiveUp(c) \/ Cancel(c)
           \/ (\E n \in Clients : Die(n)) \/ UNCHANGED vars
  <2>1. UNCHANGED <<clients, made, closing, add>> /\ alive' \subseteq alive
    BY <1>7 DEF Register, LookUp, Forward, Refused, TakePipe, Answer, GiveUp, Cancel, Die, vars, host, server
  <2> QED BY <1>1, <2>1
<1>8. CASE Close
  BY <1>8 DEF Close, Gone, server
<1>9. CASE Closed
  <2>1. /\ UNCHANGED <<clients, made, add>> /\ alive' = alive \ closing.taken /\ closing'.taken = closing.taken
    BY <1>9 DEF Closed, TypeOK
  <2> QED BY <2>1 DEF Gone
<1> QED BY <1>2, <1>3, <1>4, <1>5, <1>6, <1>7, <1>8, <1>9 DEF Next, Executing

-----------------------------------------------------------------------------
(* Locks *)

\* No call in a step has a lock, and no first call another.
LEMMA LocksStep == TypeOK /\ Wired /\ Handshake /\ Locks /\ [Next]_vars => Locks'
<1> SUFFICES ASSUME TypeOK, Wired, Handshake, Locks, [Next]_vars PROVE Locks'
  OBVIOUS
<1>0. /\ None \notin Calls /\ Idle.pc = "idle" /\ At("check", 0).pc = "check"
      /\ \A n \in Clients : At("pipe", n).pc = "pipe" /\ At("pipe", n).client = n
      /\ \A n \in 0..MaxClients : At("wait", n).pc = "wait"
      /\ \A c \in Calls, n \in Clients : call[c].pc = "pipe" /\ call[c].client = n => call[c] = At("pipe", n)
  <2>1. \A c \in Calls : call[c] \in Doing
    BY DEF TypeOK, Doing
  <2>2. \A c \in Calls, n \in Clients : call[c].pc = "pipe" /\ call[c].client = n => call[c] = At("pipe", n)
    BY <2>1 DEF Doing, At
  <2>3. "pipe" \in Steps /\ "wait" \in Steps /\ "check" \in Adds
    BY DEF Steps, Adds
  <2> QED BY <2>2, <2>3, PluginHostAssumption, Values
<1>1. /\ mu \in [Sessions -> Calls \cup {None}] /\ first \in [Sessions -> Calls \cup {None}]
      /\ pipe \in [Clients -> Calls \cup {None}] /\ call \in [Calls -> Doing]
  BY DEF TypeOK, Doing
<1>2. /\ \A s \in Sessions : mu[s] # None => call[mu[s]].pc \in {"wait", "pipe"} /\ SessionOf[mu[s]] = s
      /\ \A s \in Sessions : first[s] # None =>
            call[first[s]].pc = "first" /\ spawn[s] = "inFlight" /\ SessionOf[first[s]] = s
      /\ \A n \in Clients : pipe[n] # None => call[pipe[n]].pc = "pipe" /\ call[pipe[n]].client = n
      /\ \A c \in Calls : call[c].pc = "pipe" => pipe[call[c].client] = c /\ call[c].client \in Clients
  BY <1>0 DEF Locks, LocksAreHeldByCalls, Wired
<1> DEFINE Ok == /\ \A s \in Sessions : mu'[s] # None => call'[mu'[s]].pc \in {"wait", "pipe"} /\ SessionOf[mu'[s]] = s
                 /\ \A s \in Sessions : first'[s] # None =>
                       call'[first'[s]].pc = "first" /\ spawn'[s] = "inFlight" /\ SessionOf[first'[s]] = s
                 /\ \A n \in Clients : pipe'[n] # None => call'[pipe'[n]].pc = "pipe" /\ call'[pipe'[n]].client = n
                 /\ \A c \in Calls : call'[c].pc = "pipe" => pipe'[call'[c].client] = c
<1>3. ASSUME Ok PROVE Locks'
  <2>1. TypeOK'
    BY TypeStep
  <2>2. pipe' \in [Clients -> Calls \cup {None}] /\ call' \in [Calls -> Doing]
    BY <2>1 DEF TypeOK, Doing
  <2>3. \A n \in Clients : pipe'[n] # None => call'[pipe'[n]] = At("pipe", n)
    BY <1>3, <2>2 DEF Doing, At
  <2> QED BY <1>3, <2>3 DEF Locks, LocksAreHeldByCalls
<1>4. CASE UNCHANGED <<mu, first, call, pipe, spawn>>
  <2>1. Ok
    BY <1>2, <1>4
  <2> QED BY <1>3, <2>1
\* A call that has no lock, or ends and gives back those it has.
<1>5. ASSUME NEW set, Finish(set), \A s \in Sessions : first'[s] # None => first[s] = first'[s] /\ spawn'[s] = spawn[s] /\ first[s] \notin set
      PROVE  Locks'
  <2>1. /\ \A c \in Calls : call'[c] = IF c \in set THEN Idle ELSE call[c]
        /\ \A s \in Sessions : mu'[s] = IF mu[s] \in set THEN None ELSE mu[s]
        /\ \A n \in Clients : pipe'[n] = IF pipe[n] \in set THEN None ELSE pipe[n]
    BY <1>5, FinishEffect
  <2>2. Ok
    BY <1>0, <1>1, <1>2, <1>5, <2>1
  <2> QED BY <1>3, <2>2
<1>6. ASSUME NEW s \in Sessions, Publish(s) PROVE Locks'
  <2>1. PICK n \in 0..MaxClients :
          /\ Sets(spawn, spawn', Sessions, s, "ready") /\ Sets(first, first', Sessions, s, None)
          /\ Sets(mu, mu', Sessions, s, first[s])
          /\ \/ first[s] = None /\ call' = call
             \/ first[s] \in Calls /\ Sets(call, call', Calls, first[s], At("wait", n))
    BY <1>6, PublishEffect
  <2>2. pipe' = pipe
    BY <1>6 DEF Publish
  <2>3. \A c \in Calls : c # first[s] => call'[c] = call[c]
    BY <2>1 DEF Sets
  <2>4. \A t \in Sessions : mu'[t] # None => call'[mu'[t]].pc \in {"wait", "pipe"} /\ SessionOf[mu'[t]] = t
    BY <1>0, <1>1, <1>2, <2>1 DEF Sets
  <2>5. \A t \in Sessions : first'[t] # None =>
                       call'[first'[t]].pc = "first" /\ spawn'[t] = "inFlight" /\ SessionOf[first'[t]] = t
    BY <1>1, <1>2, <2>1, <2>3 DEF Sets
  <2>6. \A m \in Clients : pipe'[m] # None => call'[pipe'[m]].pc = "pipe" /\ call'[pipe'[m]].client = m
    BY <1>1, <1>2, <2>2, <2>3
  <2>7. \A c \in Calls : call'[c].pc = "pipe" => pipe'[call'[c].client] = c
    BY <1>0, <1>1, <1>2, <2>1, <2>2 DEF Sets
  <2> QED BY <1>3, <2>4, <2>5, <2>6, <2>7
<1>7. ASSUME NEW s \in Sessions, PublishFailure(s) PROVE Locks'
  <2>1. /\ Finish({first[s]} \ {None}) /\ Sets(spawn, spawn', Sessions, s, "failed")
        /\ Sets(first, first', Sessions, s, None)
    BY <1>7, FailureEffect
  <2>2. \A t \in Sessions : first'[t] # None => first[t] = first'[t] /\ spawn'[t] = spawn[t] /\ first[t] \notin {first[s]} \ {None}
    BY <1>2, <2>1 DEF Sets
  <2> QED BY <1>5, <2>1, <2>2
<1>8. ASSUME NEW s \in Sessions, NEW hit \in BOOLEAN, NEW kick \in BOOLEAN, Open(s, hit, kick) PROVE Locks'
  <2>1. UNCHANGED <<mu, call, pipe>> /\ spawn[s] = "closed"
    BY <1>8 DEF Open, calling
  <2>2. \A t \in Sessions : first'[t] # None => first[t] = first'[t] /\ spawn'[t] = spawn[t]
    <3>1. first[s] = None
      BY <1>2, <2>1
    <3>2. CASE kick
      <4>1. Sets(spawn, spawn', Sessions, s, "inFlight") /\ Sets(first, first', Sessions, s, None)
        BY <1>8, <3>2, BeginEffect DEF Open
      <4> QED BY <4>1 DEF Sets
    <3>3. CASE ~kick
      <4>1. spawn' = [spawn EXCEPT ![s] = "idle"] /\ first' = first
        BY <1>8, <3>3 DEF Open
      <4> QED BY <3>1, <4>1 DEF TypeOK
    <3> QED BY <3>2, <3>3
  <2>3. Ok
    BY <1>2, <2>1, <2>2
  <2> QED BY <1>3, <2>3
<1>9. ASSUME NEW c \in Calls, FirstOfStub(c) PROVE Locks'
  <2>1. /\ SessionOf[c] \in Sessions /\ Finish({c}) /\ call[c].pc = "connect" /\ spawn[SessionOf[c]] = "idle"
        /\ BeginSpawn(SessionOf[c], None)
    BY <1>9, PluginHostAssumption DEF FirstOfStub
  <2>2. /\ Sets(spawn, spawn', Sessions, SessionOf[c], "inFlight") /\ Sets(first, first', Sessions, SessionOf[c], None)
    BY <2>1, BeginEffect
  <2>3. \A t \in Sessions : first'[t] # None => first[t] = first'[t] /\ spawn'[t] = spawn[t] /\ first[t] \notin {c}
    BY <1>2, <2>1, <2>2 DEF Sets
  <2> QED BY <1>5, <2>1, <2>3
<1>10. ASSUME NEW c \in Calls, FirstOfCached(c) PROVE Locks'
  <2>1. /\ SessionOf[c] \in Sessions /\ call[c].pc = "placeholder" /\ spawn[SessionOf[c]] = "idle"
        /\ BeginSpawn(SessionOf[c], c) /\ UNCHANGED <<mu, pipe>> /\ call' = [call EXCEPT ![c] = At("first", 0)]
    BY <1>10, PluginHostAssumption DEF FirstOfCached
  <2>2. /\ Sets(spawn, spawn', Sessions, SessionOf[c], "inFlight") /\ Sets(first, first', Sessions, SessionOf[c], c)
    BY <2>1, BeginEffect
  <2>3. At("first", 0) \in Doing /\ At("first", 0).pc = "first"
    BY Values DEF Steps
  <2>4. Sets(call, call', Calls, c, At("first", 0))
    BY <2>1, <2>3, CallSet
  <2>5. Ok
    BY <1>0, <1>1, <1>2, <2>1, <2>2, <2>3, <2>4 DEF Sets
  <2> QED BY <1>3, <2>5
<1>11. ASSUME NEW c \in Calls, LookUp(c) \/ Forward(c) PROVE Locks'
  <2>1. PICK v \in Doing : /\ Sets(call, call', Calls, c, v)
                           /\ call[c].pc \in {"idle", "placeholder"} /\ v.pc \in {"wait", "placeholder", "connect"}
    <3>1. call[c].pc \in {"idle", "placeholder"} /\ ~FirstOfCached(c)
      BY <1>0, <1>11 DEF LookUp, Forward, FirstOfCached
    <3> QED BY <1>11, <3>1, CallsMove
  <2>2. UNCHANGED <<mu, first, pipe, spawn>>
    BY <1>11 DEF LookUp, Forward, spawning
  <2>3. Ok
    BY <1>0, <1>1, <1>2, <2>1, <2>2 DEF Sets
  <2> QED BY <1>3, <2>3
<1>12. ASSUME NEW c \in Calls, TakePipe(c) PROVE Locks'
  <2>1. PICK v \in Doing : Sets(call, call', Calls, c, v) /\ v.pc = "pipe" /\ v.client = call[c].client /\ call[c].pc = "wait"
    <3>1. call[c].pc = "wait"
      BY <1>12 DEF TakePipe
    <3> QED BY <1>12, <3>1, CallsMove
  <2>2. /\ UNCHANGED <<mu, first, spawn>> /\ pipe' = [pipe EXCEPT ![call[c].client] = c]
        /\ pipe[call[c].client] = None /\ call[c].client \in Clients
    BY <1>12 DEF TakePipe, spawning, Wired
  <2>3. Sets(pipe, pipe', Clients, call[c].client, c)
    BY <1>1, <2>2 DEF Sets
  <2>4. \A s \in Sessions : mu'[s] # None => call'[mu'[s]].pc \in {"wait", "pipe"} /\ SessionOf[mu'[s]] = s
    BY <1>1, <1>2, <2>1, <2>2 DEF Sets
  <2>5. \A s \in Sessions : first'[s] # None =>
          call'[first'[s]].pc = "first" /\ spawn'[s] = "inFlight" /\ SessionOf[first'[s]] = s
    BY <1>1, <1>2, <2>1, <2>2 DEF Sets
  <2>6. \A n \in Clients : pipe'[n] # None => call'[pipe'[n]].pc = "pipe" /\ call'[pipe'[n]].client = n
    BY <1>1, <1>2, <2>1, <2>3 DEF Sets
  <2>7. \A d \in Calls : call'[d].pc = "pipe" => pipe'[call'[d].client] = d
    BY <1>0, <1>1, <1>2, <2>1, <2>2, <2>3 DEF Sets
  <2> QED BY <1>3, <2>4, <2>5, <2>6, <2>7
<1>13. ASSUME NEW c \in Calls, Refused(c) \/ Answer(c) \/ GiveUp(c) PROVE Locks'
  <2>1. Finish({c}) /\ UNCHANGED <<first, spawn>> /\ call[c].pc # "first"
    BY <1>13 DEF Refused, Answer, GiveUp
  <2>2. \A t \in Sessions : first'[t] # None => first[t] = first'[t] /\ spawn'[t] = spawn[t] /\ first[t] \notin {c}
    BY <1>2, <2>1
  <2> QED BY <1>5, <2>1, <2>2
<1>14. CASE \/ \E s \in Sessions : Register(s) \/ Connect(s) \/ Connected(s) \/ Disconnect(s) \/ Disconnected(s)
            \/ \E a \in Adders : Adding(a) \/ Dialing(a)
            \/ (\E c \in Calls : Cancel(c)) \/ (\E n \in Clients : Die(n))
            \/ Close \/ Closed \/ UNCHANGED vars
  <2>1. UNCHANGED <<mu, first, call, pipe, spawn>>
    BY <1>14 DEF Register, Connect, Connected, Disconnect, Disconnected, Adding, Dialing, Check, Reuse, Enter, Dial,
                 DialFails, Cancel, Die, Close, Closed, vars, spawning, calling
  <2> QED BY <1>4, <2>1
<1> QED BY <1>6, <1>7, <1>8, <1>9, <1>10, <1>11, <1>12, <1>13, <1>14 DEF Next, Executing

-----------------------------------------------------------------------------
(* Tools and their connections *)

LEMMA LinkedStep == TypeOK /\ Wired /\ Handshake /\ Linked /\ [Next]_vars => Linked'
<1> SUFFICES ASSUME TypeOK, Wired, Handshake, Linked, [Next]_vars, ~removed' PROVE Linked'
  BY DEF Linked
<1>0. /\ Idle.pc = "idle" /\ At("check", 0).pc = "check" /\ ToSet(clients) \subseteq Clients
      /\ \A n \in Clients : n # Nothing
  BY Values DEF Adds, TypeOK, ToSet, Nothing
<1>1. CASE removed
  BY <1>1 DEF Next, Executing, Adding, Dialing, Open, Register, Publish, PublishFailure, Connect, Connected,
         Disconnect, Disconnected, Check, Reuse, Enter, Dial, DialFails, LookUp, Forward, Refused, FirstOfStub,
         FirstOfCached, TakePipe, Answer, GiveUp, Cancel, Die, Close, Closed, vars, user
<1> SUFFICES ASSUME ~removed PROVE Linked'
  BY <1>1
<1>2. /\ ToSet(listed) \subseteq ToSet(clients) /\ \A s \in Sessions : removing[s] = Quiet
      /\ \A a \in Adders : add[a].pc = "got" => add[a].client \in ToSet(clients)
      /\ \A s \in Sessions : reg[s] \in {Nothing, Placeholder} \cup ToSet(clients)
      /\ \A s \in Sessions : spawn[s] = "ready" => real[s] \in ToSet(clients) /\ reg[s] # Nothing
  BY DEF Linked
<1>3. ASSUME UNCHANGED <<listed, clients, removing, add, reg, spawn, real>> PROVE Linked'
  BY <1>2, <1>3 DEF Linked
<1>4. ASSUME NEW s \in Sessions, NEW hit \in BOOLEAN, NEW kick \in BOOLEAN, Open(s, hit, kick) PROVE Linked'
  <2>1. UNCHANGED <<listed, clients, removing, real>> /\ spawn[s] = "closed"
    BY <1>4 DEF Open, host, user
  <2>2. Sets(reg, reg', Sessions, s, IF listed = <<>> THEN Nothing ELSE Last(listed))
    BY <1>4 DEF Open, TypeOK, Sets
  <2>3. reg'[s] \in {Nothing} \cup ToSet(clients)
    BY <1>2, <2>2, LastListed DEF Sets
  <2>4. /\ Sets(spawn, spawn', Sessions, s, "inFlight") \/ Sets(spawn, spawn', Sessions, s, "idle")
        /\ add' = add \/ Sets(add, add', Adders, Spawner(s), At("check", 0))
    <3>1. CASE kick
      BY <1>4, <3>1, BeginEffect DEF Open
    <3>2. CASE ~kick
      BY <1>4, <3>2 DEF Open, TypeOK, Sets
    <3> QED BY <3>1, <3>2
  <2>5. \A a \in Adders : add'[a].pc = "got" => add'[a].client \in ToSet(clients)
    BY <1>0, <1>2, <2>4 DEF Sets
  <2>6. \A t \in Sessions : spawn'[t] = "ready" => t # s /\ spawn[t] = "ready"
    BY <2>4 DEF Sets
  <2> QED BY <1>2, <2>1, <2>2, <2>3, <2>5, <2>6 DEF Linked, Sets
<1>5. ASSUME NEW s \in Sessions, Register(s) PROVE Linked'
  <2>1. /\ UNCHANGED <<listed, clients, removing, add, spawn, real>>
        /\ reg' = reg \/ reg' = [reg EXCEPT ![s] = Placeholder]
    BY <1>5 DEF Register, host, user
  <2>2. \A t \in Sessions : reg'[t] = reg[t] \/ reg'[t] = Placeholder
    BY <2>1 DEF TypeOK
  <2>3. Placeholder # Nothing
    BY DEF Placeholder, Nothing
  <2> QED BY <1>2, <2>1, <2>2, <2>3 DEF Linked
<1>6. ASSUME NEW s \in Sessions, Publish(s) PROVE Linked'
  <2>1. PICK n \in 0..MaxClients :
             /\ add[Spawner(s)].pc = "got" /\ add[Spawner(s)].client = n
             /\ Sets(spawn, spawn', Sessions, s, "ready") /\ Sets(real, real', Sessions, s, n)
             /\ Sets(reg, reg', Sessions, s, n) /\ Sets(add, add', Adders, Spawner(s), Idle)
    BY <1>6, PublishEffect
  <2>2. UNCHANGED <<listed, clients, removing>>
    BY <1>6 DEF Publish, host, user
  <2>3. n \in ToSet(clients) /\ n # Nothing
    BY <1>0, <1>2, <2>1, TwoAdders
  <2>4. \A a \in Adders : add'[a].pc = "got" => add'[a].client \in ToSet(clients)
    BY <1>0, <1>2, <2>1 DEF Sets
  <2> QED BY <1>2, <2>1, <2>2, <2>3, <2>4 DEF Linked, Sets
<1>7. ASSUME NEW s \in Sessions, PublishFailure(s) PROVE Linked'
  <2>1. Sets(spawn, spawn', Sessions, s, "failed") /\ Sets(add, add', Adders, Spawner(s), Idle)
    BY <1>7, FailureEffect
  <2>2. UNCHANGED <<listed, clients, removing, reg, real>>
    BY <1>7 DEF PublishFailure, host, registry, user
  <2>3. \A a \in Adders : add'[a].pc = "got" => add'[a].client \in ToSet(clients)
    BY <1>0, <1>2, <2>1 DEF Sets
  <2> QED BY <1>2, <2>1, <2>2, <2>3 DEF Linked, Sets
<1>8. ASSUME NEW s \in Sessions, Connect(s) \/ Connected(s) PROVE Linked'
  <2>1. UNCHANGED <<listed, clients, removing, spawn, real>>
    BY <1>8 DEF Connect, Connected, spawning, host, user
  <2>2. PICK v \in Addition : v.pc \notin {"append", "got"} /\ Sets(add, add', Adders, User(s), v)
    BY <1>8, UserAdds
  <2>3. reg' = reg \/ \E n \in ToSet(clients) : Sets(reg, reg', Sessions, s, n)
    <3>1. reg' = reg \/ (add[User(s)].pc = "got" /\ Swap(s, add[User(s)].client))
      BY <1>8 DEF Connect, Connected, User, registry
    <3>2. add[User(s)].pc = "got" => add[User(s)].client \in ToSet(clients)
      BY <1>2, TwoAdders
    <3>3. \A n \in ToSet(clients) : n \in 0..MaxClients
      BY <1>0, Values
    <3> QED BY <3>1, <3>2, <3>3, SwapEffect
  <2>4. \A a \in Adders : add'[a].pc = "got" => add'[a].client \in ToSet(clients)
    BY <1>2, <2>2 DEF Sets
  <2>5. \A t \in Sessions : reg'[t] = reg[t] \/ reg'[t] \in ToSet(clients)
    BY <2>3 DEF Sets
  <2> QED BY <1>0, <1>2, <2>1, <2>4, <2>5 DEF Linked
<1>9. ASSUME NEW a \in Adders, Adding(a) \/ Dialing(a) PROVE Linked'
  <2>1. PICK v \in Addition :
          /\ Sets(add, add', Adders, a, v)
          /\ \/ v.pc # "got" /\ UNCHANGED host
             \/ v.pc = "got" /\ v.client \in ToSet(listed) /\ UNCHANGED host
             \/ /\ add[a].pc = "append" /\ v.client = add[a].client
                /\ clients' = Append(clients, v.client) /\ listed' = Append(listed, v.client)
    BY <1>9, AddsMove
  <2>2. UNCHANGED <<removing, spawn, real, reg>>
    BY <1>9 DEF Adding, Dialing, Check, Reuse, Enter, Dial, DialFails, spawning, registry, user
  <2>3. CASE v.pc # "got" /\ UNCHANGED host
    BY <1>2, <2>1, <2>2, <2>3 DEF Linked, Sets, host
  <2>4. CASE v.pc = "got" /\ v.client \in ToSet(listed) /\ UNCHANGED host
    BY <1>2, <2>1, <2>2, <2>4 DEF Linked, Sets, host
  <2>5. CASE /\ add[a].pc = "append" /\ v.client = add[a].client
             /\ clients' = Append(clients, v.client) /\ listed' = Append(listed, v.client)
    <3>1. ToSet(clients') = ToSet(clients) \cup {v.client}
      BY <2>5, Appended DEF TypeOK, Wired
    <3>2. ToSet(listed') \subseteq ToSet(clients')
      <4>1. ToSet(listed') = ToSet(listed) \cup {v.client}
        BY <2>5, Appended DEF TypeOK, Wired
      <4> QED BY <1>2, <3>1, <4>1
    <3>3. \A b \in Adders : add'[b].pc = "got" => add'[b].client \in ToSet(clients')
      BY <1>2, <2>1, <3>1 DEF Sets
    <3> QED BY <1>2, <2>2, <3>1, <3>2, <3>3 DEF Linked
  <2> QED BY <2>1, <2>3, <2>4, <2>5
<1>10. ASSUME NEW c \in Calls, FirstOfStub(c) \/ FirstOfCached(c) PROVE Linked'
  <2>1. PICK s \in Sessions : \E by \in Calls \cup {None} : BeginSpawn(s, by)
    BY <1>10, PluginHostAssumption DEF FirstOfStub, FirstOfCached
  <2>2. Sets(spawn, spawn', Sessions, s, "inFlight") /\ Sets(add, add', Adders, Spawner(s), At("check", 0))
    BY <2>1, BeginEffect
  <2>3. UNCHANGED <<listed, clients, removing, reg, real>>
    BY <1>10 DEF FirstOfStub, FirstOfCached, host, registry, user
  <2>4. \A a \in Adders : add'[a].pc = "got" => add'[a].client \in ToSet(clients)
    BY <1>0, <1>2, <2>2 DEF Sets
  <2> QED BY <1>2, <2>2, <2>3, <2>4 DEF Linked, Sets
<1>11. CASE \E s \in Sessions : Disconnect(s) \/ Disconnected(s)
  BY <1>2, <1>11 DEF Disconnect, Disconnected
<1>12. CASE \/ \E c \in Calls : LookUp(c) \/ Forward(c) \/ Refused(c) \/ TakePipe(c) \/ Answer(c) \/ GiveUp(c) \/ Cancel(c)
            \/ (\E n \in Clients : Die(n)) \/ UNCHANGED vars
  <2>1. UNCHANGED <<listed, clients, removing, add, reg, spawn, real>>
    BY <1>12 DEF LookUp, Forward, Refused, TakePipe, Answer, GiveUp, Cancel, Die, vars, spawning, host, registry, user
  <2> QED BY <1>3, <2>1
<1>13. CASE Close \/ Closed
  <2>1. UNCHANGED <<clients, removing, add, reg, spawn, real>> /\ (listed' = listed \/ listed' = <<>>)
    BY <1>13 DEF Close, Closed, spawning, registry, user
  <2>2. ToSet(<<>>) = {}
    BY DEF ToSet
  <2> QED BY <1>2, <2>1, <2>2 DEF Linked
<1> QED BY <1>4, <1>5, <1>6, <1>7, <1>8, <1>9, <1>10, <1>11, <1>12, <1>13 DEF Next, Executing

-----------------------------------------------------------------------------
(* The theorems *)

LEMMA InitHolds == Init => IInv
<1> SUFFICES ASSUME Init PROVE IInv
  OBVIOUS
<1>0. Idle \in Addition /\ Idle \in Doing /\ Idle.pc = "idle" /\ None \notin Calls /\ 0 \in 0..MaxClients /\ 0 \in 0..MaxCommands
  BY Values, PluginHostAssumption
<1>1. TypeOK
  <2>1. /\ add \in [Adders -> Addition] /\ call \in [Calls -> Doing] /\ real \in [Sessions -> 0..MaxClients]
        /\ dials \in [Sessions -> Nat]
    BY <1>0 DEF Init
  <2>2. /\ spawn \in [Sessions -> {"closed", "idle", "inFlight", "ready", "failed"}]
        /\ cached \in [Sessions -> BOOLEAN] /\ connect \in [Sessions -> BOOLEAN]
        /\ mu \in [Sessions -> Calls \cup {None}] /\ first \in [Sessions -> Calls \cup {None}]
        /\ reg \in [Sessions -> {Nothing, Placeholder} \cup Clients]
        /\ pipe \in [Clients -> Calls \cup {None}] /\ removing \in [Sessions -> {Quiet, 0} \cup Clients]
    BY DEF Init
  <2>3. /\ clients \in Seq(Clients) /\ listed \in Seq(Clients) /\ made \in 0..MaxClients /\ alive \subseteq 1..made
        /\ cancelled \subseteq Calls /\ removed \in BOOLEAN /\ commands \in 0..MaxCommands /\ booting \subseteq Sessions
        /\ closing \in [pc : {"no", "closing", "closed"}, taken : SUBSET Clients]
    <3>1. /\ clients = <<>> /\ listed = <<>> /\ made = 0 /\ alive = {} /\ cancelled = {} /\ removed = FALSE
          /\ commands = 0 /\ booting = {}
      BY DEF Init
    <3>2. clients \in Seq(Clients) /\ listed \in Seq(Clients)
      BY <3>1
    <3>3. made \in 0..MaxClients /\ commands \in 0..MaxCommands
      BY <1>0, <3>1
    <3>4. alive \subseteq 1..made /\ cancelled \subseteq Calls /\ removed \in BOOLEAN /\ booting \subseteq Sessions
      BY <3>1
    <3>5. closing \in [pc : {"no", "closing", "closed"}, taken : SUBSET Clients]
      BY DEF Init
    <3> QED BY <3>2, <3>3, <3>4, <3>5
  <2> QED BY <2>1, <2>2, <2>3 DEF TypeOK, Addition, Doing
<1>2. /\ \A s \in Sessions : spawn[s] = "closed" /\ mu[s] = None /\ first[s] = None /\ dials[s] = 0
                              /\ reg[s] = Nothing /\ removing[s] = Quiet
      /\ \A a \in Adders : add[a] = Idle
      /\ \A c \in Calls : call[c] = Idle
      /\ \A n \in Clients : pipe[n] = None
      /\ alive = {} /\ clients = <<>> /\ listed = <<>> /\ closing = [pc |-> "no", taken |-> {}]
  BY DEF Init
<1>5. ToSet(<<>>) = {}
  BY DEF ToSet
<1>6. Gone
  BY <1>0, <1>2, <1>5 DEF Gone
<1>3. Wired /\ Handshake /\ Processes
  BY <1>0, <1>2, TwoAdders DEF Wired, Handshake, Processes
<1>4. Locks /\ Linked
  BY <1>0, <1>2, <1>5 DEF Locks, LocksAreHeldByCalls, Linked
<1> QED BY <1>1, <1>3, <1>4, <1>6 DEF IInv

LEMMA Invariance == Spec => []IInv
<1>1. IInv /\ [Next]_vars => IInv'
  BY TypeStep, WiredStep, HandshakeStep, ProcessesStep, GoneStep, LocksStep, LinkedStep DEF IInv
<1> QED BY InitHolds, <1>1, PTL DEF Spec

\* Every variable keeps its type.
THEOREM TypeCorrect == Spec => []TypeOK
<1>1. IInv => TypeOK
  BY DEF IInv
<1> QED BY Invariance, <1>1, PTL

\* A lazySpawn shakes hands once, whoever comes to its placeholders while it does.
THEOREM SpawnsOnce == Spec => []OneHandshake
<1>1. IInv => OneHandshake
  BY DEF IInv, Handshake, OneHandshake
<1> QED BY Invariance, <1>1, PTL

\* A process is a connection of the host or in the hands of who starts or closes it, also when
\* two sessions connect at the same time; and Host.Close leaves up only what has entered after
\* it took the connections.
THEOREM ProcessesAreHeld == Spec => []EveryProcessIsHeld
<1>1. IInv => EveryProcessIsHeld
  <2> SUFFICES ASSUME IInv, NEW n \in alive
               PROVE  \/ n \in ToSet(clients) /\ (closing.pc = "closed" => n \notin closing.taken)
                      \/ \E a \in Adders : add[a].client = n
                      \/ \E s \in Sessions : removing[s] = n
    BY DEF EveryProcessIsHeld
  <2> QED BY DEF IInv, Processes, Gone
<1> QED BY Invariance, <1>1, PTL

\* The lock of a lazySpawn and of a connection is held by a call that goes on, and the
\* requests of a connection take turns.
THEOREM LocksAreInUse ==
    Spec => [](LocksAreHeldByCalls /\ \A c, d \in Calls :
                  call[c].pc = "pipe" /\ call[d].pc = "pipe" /\ call[c].client = call[d].client => c = d)
<1>1. IInv => LocksAreHeldByCalls /\ \A c, d \in Calls :
                  call[c].pc = "pipe" /\ call[d].pc = "pipe" /\ call[c].client = call[d].client => c = d
  BY DEF IInv, Locks
<1> QED BY Invariance, <1>1, PTL

\* Until the server is disconnected, the tool of a ready session leads to a connection,
\* whatever came first, the handshake or the placeholders.
THEOREM ReadyToolsLead == Spec => []ReadyToolsAreConnected
<1>1. IInv => ReadyToolsAreConnected
  BY DEF IInv, Linked, ReadyToolsAreConnected
<1> QED BY Invariance, <1>1, PTL
=============================================================================
