----------------------------- MODULE PluginHost -----------------------------
(***************************************************************************)
(* One MCP server as several sessions of a workspace use it:                *)
(* internal/plugin.  The sessions (desktop tabs) share the Host, which holds *)
(* the connections; each has its own tool registry and, for a server that   *)
(* is not started at boot, placeholders around a lazySpawn, which connects   *)
(* at the first call or in the background.  The user connects and           *)
(* disconnects the server meanwhile (control.Controller).                   *)
(*                                                                         *)
(* A connection is a number; the tools of the server are one tool, so what a *)
(* registry holds is a connection's tool, a placeholder, or nothing.  What   *)
(* the server does (it starts, fails, answers, hangs, dies) is a choice.     *)
(* Prompts and resources, the recorded failures, startup statistics and the  *)
(* schema cache's files are left out.                                       *)
(***************************************************************************)
EXTENDS Integers, Sequences, FiniteSets, SequencesExt

CONSTANTS
    Sessions,
    Calls,          \* tool calls of the agents
    SessionOf,      \* the session of each call
    MaxClients,     \* bound: connections made
    MaxCommands,    \* bound: the user's connections and disconnections, and the close
    Users,          \* bound: sessions whose user connects and disconnects the server
    None

ASSUME PluginHostAssumption ==
    /\ SessionOf \in [Calls -> Sessions]
    /\ MaxClients \in Nat /\ MaxCommands \in Nat
    /\ Users \subseteq Sessions
    /\ None \notin Calls

Clients == 1..MaxClients
Adders  == {"spawn", "user"} \X Sessions   \* who runs Host.Add: a lazySpawn or the user

VARIABLES
    spawn,     \* lazySpawn.state of each session, "closed" before the session opens
    cached,    \* whether the placeholders carry cached schemas
    real,      \* lazySpawn.real: the connection, 0 for none
    mu,        \* lazySpawn.mu: the call that holds it across steps, or None
    reg,       \* the registry's tool of the server: a connection's, a placeholder, or none
    connect,   \* the registry has the "connect" stub of a server without a cache
    clients,   \* Host.clients of the server
    listed,    \* Host.connectedTools of the server, by connection
    closing,   \* Host.Close: its step and the connections it has taken
    made,      \* connections made so far
    alive,     \* connections whose process or stream is up
    add,       \* each run of Host.Add: its step and the connection it holds
    booting,   \* sessions whose placeholders are not in the registry yet
    first,     \* the call that runs the session's Add, None for a goroutine
    call,      \* each call: its step and the connection it goes to
    cancelled, \* calls whose context is cancelled
    pipe,      \* callMu of each connection: the call that holds it, or None
    removing,  \* each session's disconnection: the connection taken out, 0 for none, Quiet
    removed,   \* history: the user has disconnected the server
    commands,  \* connections and disconnections, and the close, counted for the bound
    dials      \* history: handshakes begun for each lazySpawn

spawning == <<spawn, cached, real, mu, booting, first, dials>>
host     == <<clients, listed, closing>>
server   == <<made, alive>>
registry == <<reg, connect>>
calling  == <<call, cancelled, pipe>>
user     == <<removing, removed, commands>>
vars     == <<spawning, host, server, registry, add, calling, user>>

Nothing     == 0     \* what a registry holds that is not a connection's tool
Placeholder == -1
Quiet       == -1    \* no disconnection is under way

At(pc, client) == [pc |-> pc, client |-> client]
Idle == At("idle", 0)

Init ==
    /\ spawn = [s \in Sessions |-> "closed"]
    /\ cached = [s \in Sessions |-> FALSE]
    /\ real = [s \in Sessions |-> 0]
    /\ mu = [s \in Sessions |-> None]
    /\ reg = [s \in Sessions |-> Nothing]
    /\ connect = [s \in Sessions |-> FALSE]
    /\ clients = <<>> /\ listed = <<>> /\ made = 0 /\ alive = {}
    /\ closing = [pc |-> "no", taken |-> {}]
    /\ add = [a \in Adders |-> Idle]
    /\ booting = {}
    /\ first = [s \in Sessions |-> None]
    /\ call = [c \in Calls |-> Idle]
    /\ cancelled = {}
    /\ pipe = [n \in Clients |-> None]
    /\ removing = [s \in Sessions |-> Quiet] /\ removed = FALSE /\ commands = 0
    /\ dials = [s \in Sessions |-> 0]

Spawner(s) == <<"spawn", s>>

\* Mutant: the state is set once the handshake is over.
BeginUnmarked(s, by) ==
    /\ UNCHANGED spawn
    /\ first' = [first EXCEPT ![s] = by]
    /\ dials' = [dials EXCEPT ![s] = @ + 1]
    /\ add' = [add EXCEPT ![Spawner(s)] = At("check", 0)]

\* The handshake of a lazySpawn begins, run by a call or by a goroutine (None).
BeginSpawn(s, by) ==
    /\ spawn' = [spawn EXCEPT ![s] = "inFlight"]
    /\ first' = [first EXCEPT ![s] = by]
    /\ dials' = [dials EXCEPT ![s] = @ + 1]
    /\ add' = [add EXCEPT ![Spawner(s)] = At("check", 0)]

\* A session opens: its registry gets the tools of the connections the host has, and a
\* server of the background tier is started at once,
Open(s, hit, kick) ==
    /\ spawn[s] = "closed"
    /\ cached' = [cached EXCEPT ![s] = hit]
    /\ reg' = [reg EXCEPT ![s] = IF listed = <<>> THEN Nothing ELSE Last(listed)]
    /\ booting' = booting \cup {s}
    /\ IF kick THEN BeginSpawn(s, None)
       ELSE /\ spawn' = [spawn EXCEPT ![s] = "idle"]
            /\ UNCHANGED <<first, dials, add>>
    /\ UNCHANGED <<real, mu, connect, host, server, calling, user>>

\* and then it gets the placeholders: one for each cached schema, or the "connect" stub.
Register(s) ==
    /\ s \in booting
    /\ booting' = booting \ {s}
    /\ reg' = IF cached[s] THEN [reg EXCEPT ![s] = Placeholder] ELSE reg
    /\ connect' = [connect EXCEPT ![s] = ~cached[s]]
    /\ UNCHANGED <<spawn, cached, real, mu, first, dials, host, server, add, calling, user>>

-----------------------------------------------------------------------------
(* Host.Add *)

\* It looks whether the server is connected,
Check(a) ==
    /\ add[a].pc = "check"
    /\ add' = [add EXCEPT ![a].pc = IF clients = <<>> THEN "dial" ELSE "reuse"]
    /\ UNCHANGED <<spawning, host, server, registry, calling, user>>

\* takes the tools the host has of it,
Reuse(a) ==
    /\ add[a].pc = "reuse"
    /\ add' = [add EXCEPT ![a] = IF listed = <<>> THEN At("failed", 0)
                                 ELSE At("got", Last(listed))]
    /\ UNCHANGED <<spawning, host, server, registry, calling, user>>

\* or starts it, shakes hands and lists its tools, with no lock held,
Dial(a) ==
    /\ add[a].pc = "dial"
    /\ made < MaxClients
    /\ made' = made + 1
    /\ alive' = alive \cup {made'}
    /\ add' = [add EXCEPT ![a] = At("append", made')]
    /\ UNCHANGED <<spawning, host, registry, calling, user>>

DialFails(a) ==
    /\ add[a].pc = "dial"
    /\ add' = [add EXCEPT ![a] = At("failed", 0)]
    /\ UNCHANGED <<spawning, host, server, registry, calling, user>>

\* and enters the connection.
Enter(a) ==
    LET n == add[a].client IN
    /\ add[a].pc = "append"
    /\ clients' = Append(clients, n)
    /\ listed' = Append(listed, n)
    /\ add' = [add EXCEPT ![a].pc = "got"]
    /\ UNCHANGED <<spawning, closing, server, registry, calling, user>>

-----------------------------------------------------------------------------
(* The lazySpawn learns how its handshake ended *)

\* Mutant: the placeholders stay.
NoSwap(s, n) == UNCHANGED registry

\* trySwap.
Swap(s, n) ==
    /\ reg' = [reg EXCEPT ![s] = n]
    /\ connect' = [connect EXCEPT ![s] = FALSE]

\* The call that ran the handshake goes on with the real tool and keeps the lock.
Publish(s) ==
    LET a == Spawner(s)
        n == add[a].client
    IN
    /\ add[a].pc = "got"
    /\ mu[s] = None
    /\ spawn' = [spawn EXCEPT ![s] = "ready"]
    /\ real' = [real EXCEPT ![s] = n]
    /\ Swap(s, n)
    /\ IF first[s] = None THEN UNCHANGED <<mu, call>>
       ELSE /\ mu' = [mu EXCEPT ![s] = first[s]]
            /\ call' = [call EXCEPT ![first[s]] = At("wait", n)]
    /\ first' = [first EXCEPT ![s] = None]
    /\ add' = [add EXCEPT ![a] = Idle]
    /\ UNCHANGED <<cached, booting, dials, host, server, cancelled, pipe, user>>

\* Calls that are over, and their locks.
Finish(set) ==
    /\ call' = [c \in Calls |-> IF c \in set THEN Idle ELSE call[c]]
    /\ cancelled' = cancelled \ set
    /\ mu' = [s \in Sessions |-> IF mu[s] \in set THEN None ELSE mu[s]]
    /\ pipe' = [n \in Clients |-> IF pipe[n] \in set THEN None ELSE pipe[n]]

PublishFailure(s) ==
    LET a == Spawner(s) IN
    /\ add[a].pc = "failed"
    /\ mu[s] = None
    /\ spawn' = [spawn EXCEPT ![s] = "failed"]
    /\ Finish({first[s]} \ {None})
    /\ first' = [first EXCEPT ![s] = None]
    /\ add' = [add EXCEPT ![a] = Idle]
    /\ UNCHANGED <<cached, real, booting, dials, host, server, registry, user>>

-----------------------------------------------------------------------------
(* A call of a tool of the server *)

\* The agent looks the tool up in the registry.
LookUp(c) ==
    LET s == SessionOf[c] IN
    /\ call[c] = Idle
    /\ s \notin booting
    /\ \/ reg[s] \in Clients /\ call' = [call EXCEPT ![c] = At("wait", reg[s])]
       \/ reg[s] = Placeholder /\ call' = [call EXCEPT ![c] = At("placeholder", 0)]
       \/ connect[s]         /\ call' = [call EXCEPT ![c] = At("connect", 0)]
    /\ UNCHANGED <<spawning, host, server, registry, add, cancelled, pipe, user>>

\* lazyTool.Execute, when it may forward the call,
Forward(c) ==
    LET s == SessionOf[c] IN
    /\ call[c].pc = "placeholder"
    /\ mu[s] = None
    /\ spawn[s] = "ready"
    /\ call' = [call EXCEPT ![c] = At("wait", real[s])]
    /\ UNCHANGED <<spawning, host, server, registry, add, cancelled, pipe, user>>

\* when it is refused: the server failed, or is being started, or the call is of the stub,
Refused(c) ==
    LET s == SessionOf[c] IN
    /\ call[c].pc \in {"placeholder", "connect"}
    /\ mu[s] = None
    /\ \/ spawn[s] \in {"failed", "inFlight"}
       \/ spawn[s] = "ready" /\ call[c].pc = "connect"
    /\ Finish({c})
    /\ UNCHANGED <<spawn, cached, real, booting, first, dials, host, server, registry, add, user>>

\* and when it is the first: the stub starts a goroutine and the call ends,
FirstOfStub(c) ==
    LET s == SessionOf[c] IN
    /\ call[c].pc = "connect"
    /\ mu[s] = None
    /\ spawn[s] = "idle"
    /\ BeginSpawn(s, None)
    /\ Finish({c})
    /\ UNCHANGED <<cached, real, booting, host, server, registry, user>>

\* a call with a cached schema runs the handshake itself.
FirstOfCached(c) ==
    LET s == SessionOf[c] IN
    /\ call[c].pc = "placeholder"
    /\ mu[s] = None
    /\ spawn[s] = "idle"
    /\ BeginSpawn(s, c)
    /\ call' = [call EXCEPT ![c] = At("first", 0)]
    /\ UNCHANGED <<cached, real, mu, booting, host, server, registry, cancelled, pipe, user>>

\* stdioTransport.call: the calls of a connection take turns,
TakePipe(c) ==
    LET n == call[c].client IN
    /\ call[c].pc = "wait"
    /\ pipe[n] = None
    /\ pipe' = [pipe EXCEPT ![n] = c]
    /\ call' = [call EXCEPT ![c].pc = "pipe"]
    /\ UNCHANGED <<spawning, host, server, registry, add, cancelled, user>>

\* and the one whose turn it is waits for the answer,
Answer(c) ==
    /\ call[c].pc = "pipe"
    /\ call[c].client \in alive
    /\ Finish({c})
    /\ UNCHANGED <<spawn, cached, real, booting, first, dials, host, server, registry, add, user>>

\* Mutant: the end of the stream wakes nobody (no failAll).
GiveUpOnCancel(c) ==
    /\ call[c].pc = "pipe"
    /\ c \in cancelled
    /\ Finish({c})
    /\ UNCHANGED <<spawn, cached, real, booting, first, dials, host, server, registry, add, user>>

\* for the end of the stream, or for its context.
GiveUp(c) ==
    /\ call[c].pc = "pipe"
    /\ call[c].client \notin alive \/ c \in cancelled
    /\ Finish({c})
    /\ UNCHANGED <<spawn, cached, real, booting, first, dials, host, server, registry, add, user>>

\* The turn of the call is cancelled.
Cancel(c) ==
    /\ call[c] # Idle
    /\ cancelled' = cancelled \cup {c}
    /\ UNCHANGED <<spawning, host, server, registry, add, call, pipe, user>>

-----------------------------------------------------------------------------
(* The user and the server *)

Commanding(s) ==
    /\ s \in Users
    /\ spawn[s] # "closed" /\ s \notin booting
    /\ add[<<"user", s>>] = Idle
    /\ removing[s] = Quiet
    /\ commands < MaxCommands
    /\ commands' = commands + 1

\* connectMCPSpec.
Connect(s) ==
    /\ Commanding(s)
    /\ add' = [add EXCEPT ![<<"user", s>>] = At("check", 0)]
    /\ UNCHANGED <<spawning, host, server, registry, calling, removing, removed>>

Connected(s) ==
    LET a == <<"user", s>> IN
    /\ add[a].pc \in {"got", "failed"}
    /\ IF add[a].pc = "got" THEN Swap(s, add[a].client) ELSE UNCHANGED registry
    /\ add' = [add EXCEPT ![a] = Idle]
    /\ UNCHANGED <<spawning, host, server, calling, user>>

\* DisconnectMCPServer: the host lets go of the first connection it has,
Disconnect(s) ==
    /\ Commanding(s)
    /\ removed' = TRUE
    /\ IF clients = <<>>
       THEN removing' = [removing EXCEPT ![s] = 0] /\ UNCHANGED host
       ELSE /\ removing' = [removing EXCEPT ![s] = Head(clients)]
            /\ clients' = Tail(clients)
            /\ UNCHANGED <<listed, closing>>
    /\ UNCHANGED <<spawning, server, registry, add, calling>>

\* Mutant: the connection is not closed.
DisconnectedOpen(s) ==
    /\ removing[s] # Quiet
    /\ reg' = [reg EXCEPT ![s] = Nothing]
    /\ connect' = [connect EXCEPT ![s] = FALSE]
    /\ removing' = [removing EXCEPT ![s] = Quiet]
    /\ UNCHANGED <<spawning, host, server, add, calling, removed, commands>>

\* it is closed, and the registry of the session forgets the server.
Disconnected(s) ==
    /\ removing[s] # Quiet
    /\ alive' = alive \ {removing[s]}
    /\ reg' = [reg EXCEPT ![s] = Nothing]
    /\ connect' = [connect EXCEPT ![s] = FALSE]
    /\ removing' = [removing EXCEPT ![s] = Quiet]
    /\ UNCHANGED <<spawning, host, made, add, calling, removed, commands>>

\* The workspace lets its host go, when its last session ends or while sessions go on
\* (WorkspaceKit.Close): Host.Close takes the connections there are,
Close ==
    /\ closing.pc = "no"
    /\ commands < MaxCommands
    /\ commands' = commands + 1
    /\ closing' = [pc |-> "closing", taken |-> ToSet(clients)]
    /\ UNCHANGED <<spawning, clients, listed, server, registry, add, calling, removing, removed>>

\* closes them, with no lock held, and forgets their tools; it leaves them in clients.
Closed ==
    /\ closing.pc = "closing"
    /\ closing' = [closing EXCEPT !.pc = "closed"]
    /\ alive' = alive \ closing.taken
    /\ listed' = <<>>
    /\ UNCHANGED <<spawning, clients, made, registry, add, calling, user>>

\* The server ends by itself.
Die(n) ==
    /\ n \in alive
    /\ alive' = alive \ {n}
    /\ UNCHANGED <<spawning, host, made, registry, add, calling, user>>

-----------------------------------------------------------------------------
Adding(a)    == Check(a) \/ Reuse(a) \/ Enter(a)
Dialing(a)   == Dial(a) \/ DialFails(a)
Executing(c) == Forward(c) \/ Refused(c) \/ FirstOfStub(c) \/ FirstOfCached(c)

Next ==
    \/ \E s \in Sessions :
          \/ \E hit, kick \in BOOLEAN : Open(s, hit, kick)
          \/ Register(s)
          \/ Publish(s) \/ PublishFailure(s)
          \/ Connect(s) \/ Connected(s) \/ Disconnect(s) \/ Disconnected(s)
    \/ \E a \in Adders : Adding(a) \/ Dialing(a)
    \/ \E c \in Calls :
          LookUp(c) \/ Executing(c) \/ TakePipe(c) \/ Answer(c) \/ GiveUp(c) \/ Cancel(c)
    \/ \E n \in Clients : Die(n)
    \/ Close \/ Closed

Spec == Init /\ [][Next]_vars

\* Goroutines run, and a mutex is handed on in the end.
LocalFairness ==
    /\ \A s \in Sessions : /\ WF_vars(Register(s)) /\ WF_vars(Publish(s)) /\ WF_vars(PublishFailure(s))
                           /\ WF_vars(Connected(s)) /\ WF_vars(Disconnected(s))
    /\ \A a \in Adders : WF_vars(Adding(a))
    /\ WF_vars(Closed)
    /\ \A c \in Calls : WF_vars(Executing(c)) /\ SF_vars(TakePipe(c)) /\ WF_vars(GiveUp(c))

\* A server that never hangs: it completes or breaks a handshake and answers calls.
ServerFairness ==
    /\ \A a \in Adders : WF_vars(Dialing(a))
    /\ \A c \in Calls : WF_vars(Answer(c))

FairSpec == Spec /\ LocalFairness /\ ServerFairness
-----------------------------------------------------------------------------
(* Properties *)

Adds == {"idle", "check", "reuse", "dial", "append", "got", "failed"}
Steps == {"idle", "placeholder", "connect", "first", "wait", "pipe"}

\* Every variable keeps its type.
TypeOK ==
    /\ spawn \in [Sessions -> {"closed", "idle", "inFlight", "ready", "failed"}]
    /\ cached \in [Sessions -> BOOLEAN]
    /\ real \in [Sessions -> 0..MaxClients]
    /\ mu \in [Sessions -> Calls \cup {None}]
    /\ reg \in [Sessions -> {Nothing, Placeholder} \cup Clients]
    /\ connect \in [Sessions -> BOOLEAN]
    /\ clients \in Seq(Clients) /\ listed \in Seq(Clients)
    /\ closing \in [pc : {"no", "closing", "closed"}, taken : SUBSET Clients]
    /\ made \in 0..MaxClients /\ alive \subseteq 1..made
    /\ add \in [Adders -> [pc : Adds, client : 0..MaxClients]]
    /\ first \in [Sessions -> Calls \cup {None}]
    /\ call \in [Calls -> [pc : Steps, client : 0..MaxClients]]
    /\ cancelled \subseteq Calls
    /\ pipe \in [Clients -> Calls \cup {None}]
    /\ removing \in [Sessions -> {Quiet, 0} \cup Clients]
    /\ removed \in BOOLEAN /\ commands \in 0..MaxCommands
    /\ booting \subseteq Sessions
    /\ dials \in [Sessions -> Nat]

\* The placeholders of a session "trigger at most one handshake" (lazySpawn), though the
\* handshake runs with the lock released and any number of calls may come meanwhile.
OneHandshake == \A s \in Sessions : dials[s] <= 1

\* Each server process is in the hands of the Add that made it or of the disconnection that
\* closes it, or is a connection of the host; and once Host.Close is over, such a connection
\* is one that entered after it had taken its own (addConnected looks at nothing).  That one
\* nobody closes any more, except a user who disconnects the server.
EveryProcessIsHeld ==
    LET closed == IF closing.pc = "closed" THEN closing.taken ELSE {}
    IN  alive \subseteq {add[a].client : a \in Adders} \cup {removing[s] : s \in Sessions}
                            \cup (ToSet(clients) \ closed)

\* As long as nobody disconnects the server, the tool a ready session offers leads to a
\* connection of the host: the tool is a connection's, or a placeholder that forwards to one,
\* whichever of the spawn and the registration of the placeholders came last.  The ones that
\* Host.Close has ended stay among them.
ReadyToolsAreConnected ==
    \A s \in Sessions :
        spawn[s] = "ready" /\ ~removed /\ s \notin booting =>
            \/ reg[s] \in ToSet(clients)
            \/ reg[s] = Placeholder /\ real[s] \in ToSet(clients)

\* Nobody waits at a placeholder whose handshake is over: the call that ran it goes on,
\* and a connection's lock is held only by a call that is using it.
LocksAreHeldByCalls ==
    /\ \A s \in Sessions :
          /\ mu[s] # None => call[mu[s]].pc \in {"wait", "pipe"} /\ SessionOf[mu[s]] = s
          /\ first[s] # None => call[first[s]].pc = "first" /\ spawn[s] = "inFlight"
    /\ \A n \in Clients : pipe[n] # None => call[pipe[n]] = At("pipe", n)

\* Every call of a tool returns, whichever placeholder, lock and pipe it meets.
CallReturns == \A c \in Calls : call[c] # Idle ~> call[c] = Idle
=============================================================================
