------------------------------ MODULE Connectors ------------------------------
(***************************************************************************)
(* The authorisation of ONE connector by its users (app/connectors): the   *)
(* row of user_mcp_authorizations per user, the OAuth states, and the      *)
(* handlers that start and complete an authorisation, disconnect it, and   *)
(* fetch a usable token for a chat turn, refreshing it when it is due; and *)
(* the cache of agents built with these tokens (agent/runtime.py).         *)
(*                                                                         *)
(* The handlers are coroutines of one asyncio process: the code between    *)
(* two awaits is one action.  The authorisation server is external.        *)
(***************************************************************************)
EXTENDS Naturals, FiniteSets

CONSTANTS
    Users,
    MaxStarts, MaxTurns,    \* bounds: authorisations that are started, chat turns
    MaxTokens, MaxVersion,  \* bounds: tokens the server issues, credential changes
    CacheLimit,             \* how many agents are cached at most
    Surroundings            \* the circumstances to examine; a behaviour has one of them

ASSUME BoundsAssumption ==
    MaxStarts \in Nat /\ MaxTurns \in Nat /\ MaxTokens \in Nat /\ MaxVersion \in Nat
    /\ CacheLimit \in Nat
\* overlap: may the requests of a user overlap; faults: may requests of the back end to the
\* server fail, or it be restarted; renews: does it
\* give refresh tokens, rotates: does a refresh replace the refresh token; preset: is the
\* client configured in connectors.json.
ASSUME SurroundingsAssumption ==
    Surroundings \subseteq [users: SUBSET Users, overlap: BOOLEAN, faults: BOOLEAN,
                            renews: BOOLEAN, rotates: BOOLEAN, preset: BOOLEAN]

Start == 1 .. MaxStarts
Turn  == 1 .. MaxTurns
Token == 1 .. MaxTokens
None  == 0          \* NULL for a token or a client
Preset == 1         \* the client of connectors.json
Nobody == "nobody"

VARIABLES
    row,        \* per user: the row of user_mcp_authorizations
    start,      \* per authorisation: its user, its client, how far it got
    saved,      \* the rows of connector_oauth_states, by their authorisation
    late,       \* the saved states whose expires_at has passed
    turn,       \* per chat turn: the connector part of its opening
    version,    \* ConnectorService._credentials_version
    cache,      \* the cached agents, by signature: the version and the connector
    registered, \* external: per user, the clients registered for the row
    issued,     \* external: how many tokens there are, numbered as they are issued
    owner,      \* external: who a token was issued for
    alive,      \* external: the refresh tokens the server accepts
    env         \* the circumstances of this behaviour; never changes

server == <<registered, issued, owner, alive>>
runtime == <<version, cache>>
vars == <<row, start, saved, late, turn, runtime, server, env>>

Row == [status: {"none", "pending", "connected", "expired", "revoked", "failed"},
        client: Nat, access: Token \cup {None}, refresh: Token \cup {None},
        due: BOOLEAN]           \* less than 30 seconds before expires_at
StartRow == [pc: {"idle", "discovering", "registering", "offered", "exchanging", "ended"},
             user: Users \cup {Nobody}, client: Nat,
             with: Nat]         \* the client that exchanges the code
TurnRow == [pc: {"idle", "refreshing", "granted", "assembling", "ready", "gone"},
            user: Users \cup {Nobody},
            refresh: Token \cup {None}, token: Token \cup {None},
            agent: Token \cup {None}]      \* the token the tools of its agent carry
\* A cached agent: the version in its signature and the token its tools carry.
Agent == [at: Nat, token: Token]

Init ==
    /\ row = [u \in Users |-> [status |-> "none", client |-> None, access |-> None,
                               refresh |-> None, due |-> FALSE]]
    /\ start = [s \in Start |->
                    [pc |-> "idle", user |-> Nobody, client |-> None, with |-> None]]
    /\ turn = [t \in Turn |->
                    [pc |-> "idle", user |-> Nobody, refresh |-> None, token |-> None,
                     agent |-> None]]
    /\ saved = {} /\ late = {}
    /\ version = 0 /\ cache = {}
    /\ registered = [u \in Users |-> 0]
    /\ issued = 0 /\ owner = <<>> /\ alive = {}
    /\ env \in Surroundings

-----------------------------------------------------------------------------
Starting(s) == start[s].pc \in {"discovering", "registering", "exchanging"}
Opening(t)  == turn[t].pc \in {"refreshing", "granted", "assembling"}
\* May a request of u begin?
Free(u) ==
    /\ u \in env.users
    /\ ~env.overlap => /\ \A s \in Start : Starting(s) => start[s].user # u
                       /\ \A t \in Turn : Opening(t) => turn[t].user # u

(***************************************************************************)
(* What the store does to a row.                                           *)
(***************************************************************************)
Mark(u, status) == row' = [row EXCEPT ![u].status = status]

Connect(u, access, refresh) ==
    row' = [row EXCEPT ![u] = [status |-> "connected", client |-> row[u].client,
                               access |-> access, refresh |-> refresh, due |-> FALSE]]

\* Mutant: a new refresh token is not stored when there is one already.
SaveTokensOnce(u, access, refresh) ==
    Connect(u, access, IF row[u].refresh = None THEN refresh ELSE row[u].refresh)

\* save_tokens: a refresh token that the server did not replace is kept.
SaveTokens(u, access, refresh) ==
    Connect(u, access, IF refresh = None THEN row[u].refresh ELSE refresh)

\* Mutant: the version does not change with the credentials.
BumpNot == version' = version

Bump == version' = version + 1

\* external: a new token for u.
Issue(u) ==
    /\ issued < MaxTokens
    /\ issued' = issued + 1
    /\ owner' = [k \in 1 .. issued + 1 |-> IF k > issued THEN u ELSE owner[k]]

(***************************************************************************)
(* start_authorization: the row, the discovery, the client, the state.     *)
(***************************************************************************)
BeginStart(s, u) ==
    /\ start[s].pc = "idle"
    /\ \A r \in Start : r < s => start[r].pc # "idle"
    /\ Free(u)
    /\ row' = [row EXCEPT ![u].status = IF @ = "none" THEN "pending" ELSE @]
    /\ start' = [start EXCEPT ![s] = [@ EXCEPT !.pc = "discovering", !.user = u,
                                               !.client = row[u].client]]
    /\ UNCHANGED <<saved, late, turn, runtime, server, env>>

\* The state is saved and the URL handed out, with the client known to this handler.
Offer(s, client) ==
    /\ start' = [start EXCEPT ![s] = [@ EXCEPT !.pc = "offered", !.client = client]]
    /\ saved' = (saved \ late) \cup {s}
    /\ late' = {}

Discover(s) ==
    /\ start[s].pc = "discovering"
    /\ LET u == start[s].user IN
        \/ /\ start[s].client # None
           /\ Offer(s, start[s].client)
           /\ row' = row
        \/ /\ start[s].client = None /\ env.preset
           /\ Offer(s, Preset)
           /\ row' = [row EXCEPT ![u].client = Preset]
        \/ /\ start[s].client = None /\ ~env.preset
           /\ start' = [start EXCEPT ![s].pc = "registering"]
           /\ UNCHANGED <<row, saved, late>>
    /\ UNCHANGED <<turn, runtime, server, env>>

Register(s) ==
    LET u == start[s].user
        c == registered[u] + 1
    IN
    /\ start[s].pc = "registering"
    /\ registered' = [registered EXCEPT ![u] = c]
    /\ row' = [row EXCEPT ![u].client = c]
    /\ Offer(s, c)
    /\ UNCHANGED <<turn, runtime, issued, owner, alive, env>>

\* Only a failed discovery is noted in the row.
StartFails(s) ==
    /\ env.faults
    /\ start[s].pc \in {"discovering", "registering"}
    /\ IF start[s].pc = "discovering" THEN Mark(start[s].user, "failed") ELSE row' = row
    /\ start' = [start EXCEPT ![s].pc = "ended"]
    /\ UNCHANGED <<saved, late, turn, runtime, server, env>>

\* The 600 seconds of a state are over.
StateExpires(s) ==
    /\ s \in saved \ late
    /\ late' = late \cup {s}
    /\ UNCHANGED <<row, start, saved, turn, runtime, server, env>>

(***************************************************************************)
(* complete_authorization.  A call-back whose state is not saved any more  *)
(* is refused and changes nothing.                                         *)
(***************************************************************************)
\* Mutant: the state is looked up but not taken away.
CallbackKeepsState(s) ==
    /\ s \in saved
    /\ Free(start[s].user)
    /\ start' = [start EXCEPT ![s] = [@ EXCEPT !.pc = "exchanging",
                                               !.with = row[start[s].user].client]]
    /\ UNCHANGED <<row, saved, late, turn, runtime, server, env>>

Callback(s) ==
    /\ s \in saved
    /\ Free(start[s].user)
    /\ saved' = saved \ {s} /\ late' = late \ {s}
    /\ start' = [start EXCEPT ![s] = [@ EXCEPT !.pc = "exchanging",
                                               !.with = row[start[s].user].client]]
    /\ UNCHANGED <<row, turn, runtime, server, env>>

\* The user denies, or the call-back carries no code.
Denied(s) ==
    /\ s \in saved
    /\ Free(start[s].user)
    /\ saved' = saved \ {s} /\ late' = late \ {s}
    /\ Mark(start[s].user, "failed")
    /\ start' = [start EXCEPT ![s].pc = "ended"]
    /\ UNCHANGED <<turn, runtime, server, env>>

\* The server gives tokens only to the client its page was opened for.
Exchange(s) ==
    LET u == start[s].user IN
    /\ start[s].pc = "exchanging" /\ start[s].with = start[s].client
    /\ Issue(u)
    /\ alive' = IF env.renews THEN alive \cup {issued'} ELSE alive
    /\ SaveTokens(u, issued', IF env.renews THEN issued' ELSE None)
    /\ Bump
    /\ start' = [start EXCEPT ![s].pc = "ended"]
    /\ UNCHANGED <<saved, late, turn, cache, registered, env>>

\* Refused or not reached; an answer that is not understood escapes the except clause.
ExchangeFails(s) ==
    /\ start[s].pc = "exchanging"
    /\ env.faults \/ start[s].with # start[s].client \/ issued = MaxTokens
    /\ Mark(start[s].user, "failed") \/ (env.faults /\ row' = row)
    /\ start' = [start EXCEPT ![s].pc = "ended"]
    /\ UNCHANGED <<saved, late, turn, runtime, server, env>>

(***************************************************************************)
(* disconnect                                                              *)
(***************************************************************************)
\* Mutant: the refresh token is not cleared.
DisconnectKeepsRefresh(u) ==
    /\ Free(u)
    /\ row[u].status # "none"
    /\ version < MaxVersion
    /\ row' = [row EXCEPT ![u] = [@ EXCEPT !.access = None, !.due = FALSE,
                                           !.status = "revoked"]]
    /\ Bump
    /\ UNCHANGED <<start, saved, late, turn, cache, server, env>>

Disconnect(u) ==
    /\ Free(u)
    /\ row[u].status # "none"
    /\ version < MaxVersion
    /\ row' = [row EXCEPT ![u] = [status |-> "revoked", client |-> row[u].client,
                                  access |-> None, refresh |-> None, due |-> FALSE]]
    /\ Bump
    /\ UNCHANGED <<start, saved, late, turn, cache, server, env>>

(***************************************************************************)
(* list_user_active_connections, at the opening of a chat turn.            *)
(***************************************************************************)
\* Mutant: rows of any status are listed.
UsableAny(u) == row[u].status \notin {"none", "pending"}

Usable(u) == row[u].status = "connected" /\ row[u].access # None
Renewable(u) == row[u].refresh # None /\ row[u].client # None

Open(t, u, pc, refresh, token) ==
    /\ turn[t].pc = "idle"
    /\ \A r \in Turn : r < t => turn[r].pc # "idle"
    /\ Free(u)
    /\ turn' = [turn EXCEPT ![t] = [pc |-> pc, user |-> u, refresh |-> refresh,
                                    token |-> token, agent |-> None]]
    /\ UNCHANGED <<start, saved, late, runtime, server, env>>

OpenBare(t, u) ==
    /\ row[u].status # "connected"
    /\ Open(t, u, "ready", None, None)
    /\ row' = row

OpenWithToken(t, u) ==
    /\ Usable(u) /\ ~row[u].due
    /\ Open(t, u, "assembling", None, row[u].access)
    /\ row' = row

OpenUnrenewable(t, u) ==
    /\ Usable(u) /\ row[u].due /\ ~Renewable(u)
    /\ Open(t, u, "ready", None, None)
    /\ Mark(u, "expired")

OpenRefreshing(t, u) ==
    /\ Usable(u) /\ row[u].due /\ Renewable(u)
    /\ Open(t, u, "refreshing", row[u].refresh, None)
    /\ row' = row

\* external: the server accepts the refresh token and answers.  (Which client asks is left
\* out: only overlapping starts can change the client of a row.)
Grant(t) ==
    LET r == turn[t].refresh IN
    /\ turn[t].pc = "refreshing" /\ r \in alive
    /\ Issue(turn[t].user)
    /\ alive' = IF env.rotates THEN (alive \ {r}) \cup {issued'} ELSE alive
    /\ turn' = [turn EXCEPT ![t] = [@ EXCEPT !.pc = "granted", !.token = issued']]
    /\ UNCHANGED <<row, start, saved, late, runtime, registered, env>>

Refreshed(t) ==
    /\ turn[t].pc = "granted"
    /\ SaveTokens(turn[t].user, turn[t].token, IF env.rotates THEN turn[t].token ELSE None)
    /\ Bump
    /\ turn' = [turn EXCEPT ![t].pc = "assembling"]
    /\ UNCHANGED <<start, saved, late, cache, server, env>>

\* Mutant: the failure of one connector is not caught.
RefreshFailsUncaught(t) ==
    /\ turn[t].pc \in {"refreshing", "granted"}
    /\ env.faults \/ (turn[t].pc = "refreshing"
                        /\ (turn[t].refresh \notin alive \/ issued = MaxTokens))
    /\ UNCHANGED vars

\* Refused, or lost on the way there or back: the turn goes on without the connector.
RefreshFails(t) ==
    /\ turn[t].pc \in {"refreshing", "granted"}
    /\ env.faults \/ (turn[t].pc = "refreshing"
                        /\ (turn[t].refresh \notin alive \/ issued = MaxTokens))
    /\ Mark(turn[t].user, "expired")
    /\ turn' = [turn EXCEPT ![t] = [@ EXCEPT !.pc = "ready", !.token = None]]
    /\ UNCHANGED <<start, saved, late, runtime, server, env>>

(***************************************************************************)
(* The tools are listed and the agent is built, or found under the         *)
(* signature: the version at THIS moment and the connector's name.         *)
(***************************************************************************)
Cached == {a \in cache : a.at = version}

Assemble(t) ==
    LET built == cache \cup {[at |-> version, token |-> turn[t].token]} IN
    /\ turn[t].pc = "assembling"
    /\ \E agent \in IF Cached = {} THEN {turn[t].token} ELSE {a.token : a \in Cached} :
        turn' = [turn EXCEPT ![t] = [@ EXCEPT !.pc = "ready", !.agent = agent]]
    /\ cache' = IF Cached # {} THEN cache
                ELSE IF Cardinality(built) > CacheLimit THEN {} ELSE built
    /\ UNCHANGED <<row, start, saved, late, version, server, env>>

\* No tools could be listed: the turn runs with the common agent.
AssembleFails(t) ==
    /\ env.faults
    /\ turn[t].pc = "assembling"
    /\ turn' = [turn EXCEPT ![t].pc = "ready"]
    /\ UNCHANGED <<row, start, saved, late, runtime, server, env>>

-----------------------------------------------------------------------------
\* The access token is about to expire.
FallsDue(u) ==
    /\ row[u].access # None /\ ~row[u].due
    /\ row' = [row EXCEPT ![u].due = TRUE]
    /\ UNCHANGED <<start, saved, late, turn, runtime, server, env>>

\* The process is restarted: handlers in flight are gone, the version starts again.
Restart ==
    /\ env.faults
    /\ (\E s \in Start : Starting(s)) \/ (\E t \in Turn : Opening(t))
    /\ start' = [s \in Start |-> IF Starting(s) THEN [start[s] EXCEPT !.pc = "ended"]
                                             ELSE start[s]]
    /\ turn' = [t \in Turn |-> IF Opening(t) THEN [turn[t] EXCEPT !.pc = "gone"] ELSE turn[t]]
    /\ version' = 0 /\ cache' = {}
    /\ UNCHANGED <<row, saved, late, server, env>>

-----------------------------------------------------------------------------
Advance(t) ==
    \/ Grant(t) \/ Refreshed(t) \/ RefreshFails(t)
    \/ Assemble(t) \/ AssembleFails(t)

Next ==
    \/ \E u \in Users :
        \/ \E s \in Start : BeginStart(s, u)
        \/ \E t \in Turn : \/ OpenBare(t, u) \/ OpenWithToken(t, u)
                           \/ OpenUnrenewable(t, u) \/ OpenRefreshing(t, u)
        \/ Disconnect(u)
        \/ FallsDue(u)
    \/ \E s \in Start :
        \/ Discover(s) \/ Register(s) \/ StartFails(s) \/ StateExpires(s)
        \/ Callback(s) \/ Denied(s) \/ Exchange(s) \/ ExchangeFails(s)
    \/ \E t \in Turn :
        \/ Grant(t) \/ Refreshed(t) \/ RefreshFails(t)
        \/ Assemble(t) \/ AssembleFails(t)
    \/ Restart

Spec == Init /\ [][Next]_vars

\* httpx and the MCP client have time-outs, so that a request is answered or fails.
FairSpec == Spec /\ \A t \in Turn : WF_vars(Advance(t))
-----------------------------------------------------------------------------
(* Properties *)

TypeOK ==
    /\ row \in [Users -> Row]
    /\ start \in [Start -> StartRow]
    /\ late \subseteq saved /\ saved \subseteq Start
    /\ turn \in [Turn -> TurnRow]
    /\ version \in Nat
    /\ cache \subseteq Agent
    /\ registered \in [Users -> Nat]
    /\ issued \in 0 .. MaxTokens
    /\ owner \in [1 .. issued -> Users]
    /\ alive \subseteq 1 .. issued
    /\ env \in Surroundings

\* A row that says connected has an access token to connect with, and a user who is
\* disconnected leaves none behind, whatever refreshes and call-backs are under way.
StatusMatchesTokens ==
    \A u \in Users :
        /\ row[u].status = "connected" => row[u].access # None
        /\ row[u].status = "revoked" => row[u].access = None /\ row[u].refresh = None

\* An OAuth state completes one authorisation: once it is processed, nothing that
\* arrives under it is processed again.
StateUsedOnce ==
    [][\A s \in Start : start[s].pc = "ended" => start'[s].pc = "ended"]_vars

\* Where requests do not overlap, nothing fails and the server renews, a connection is never lost to
\* expiry: the refresh token in the row is the one the server will accept, through any
\* number of refreshes, re-authorisations and disconnections.
StaysConnected ==
    ~env.overlap /\ ~env.faults /\ env.renews /\ issued < MaxTokens =>
        \A u \in Users : row[u].status # "expired"

\* With one user whose requests do not overlap, a turn never runs with an agent that
\* was cached before the credentials changed.
AgentIsCurrent ==
    (\E u \in Users : env.users = {u}) /\ ~env.overlap =>
        \A t \in Turn : turn[t].agent # None => turn[t].agent = turn[t].token

\* Connectors may fail, but they never keep a chat turn from going on: it runs unless the
\* process itself goes.
TurnsGoOn == \A t \in Turn : turn[t].pc # "idle" ~> turn[t].pc \in {"ready", "gone"}

\* The agent of a turn carries the tokens of the user of that turn.
AgentOfTheUser ==
    \A t \in Turn : turn[t].agent # None => owner[turn[t].agent] = turn[t].user
=============================================================================
