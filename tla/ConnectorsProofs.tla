--------------------------- MODULE ConnectorsProofs ---------------------------
(***************************************************************************)
(* Theorems about Connectors for every set of users and every bound.       *)
(***************************************************************************)
EXTENDS Connectors, TLAPS

(***************************************************************************)
(* What the handlers hold while they wait: a user who may send requests, a *)
(* token once the server has answered, and a saved state only until its    *)
(* call-back is processed.                                                 *)
(***************************************************************************)
StartsHaveUsers == \A s \in Start : start[s].pc # "idle" => start[s].user \in env.users
TurnsHaveUsers  == \A t \in Turn : turn[t].pc # "idle" => turn[t].user \in env.users
TurnsHaveTokens ==
    \A t \in Turn : turn[t].pc \in {"granted", "assembling"} => turn[t].token \in Token
SavedAreOffered == \A s \in saved : start[s].pc = "offered"

Handlers == StartsHaveUsers /\ TurnsHaveUsers /\ TurnsHaveTokens /\ SavedAreOffered

IInv == TypeOK /\ Handlers /\ StatusMatchesTokens

USE DEF Start, Turn, Token, None

LEMMA InitInv == Init => IInv
  <1> SUFFICES ASSUME Init PROVE IInv
    OBVIOUS
  <1> USE BoundsAssumption DEF Init
  <1>1. row \in [Users -> Row]
    BY DEF Row
  <1>2. start \in [Start -> StartRow] /\ turn \in [Turn -> TurnRow]
    BY DEF StartRow, TurnRow
  <1>3. owner \in [1 .. issued -> Users]
    OBVIOUS
  <1>4. /\ late \subseteq saved /\ saved \subseteq Start
        /\ version \in Nat /\ cache \subseteq Agent
        /\ issued \in 0 .. MaxTokens /\ alive \subseteq 1 .. issued
        /\ env \in Surroundings
    OBVIOUS
  <1>5. registered \in [Users -> Nat]
    OBVIOUS
  <1>6. TypeOK
    <2> HIDE DEF Init
    <2>1. QED BY <1>1, <1>2, <1>3, <1>4, <1>5 DEF TypeOK
  <1>7. Handlers
    BY DEF Handlers, StartsHaveUsers, TurnsHaveUsers, TurnsHaveTokens, SavedAreOffered
  <1>8. StatusMatchesTokens
    BY DEF StatusMatchesTokens
  <1>9. QED BY <1>6, <1>7, <1>8 DEF IInv

-----------------------------------------------------------------------------
(* What the store's operations do to a row. *)

LEMMA MarkTyped ==
    ASSUME TypeOK, StatusMatchesTokens, NEW u \in Users,
           NEW status \in {"pending", "expired", "failed"}, Mark(u, status)
    PROVE  row' \in [Users -> Row] /\ StatusMatchesTokens'
  <1>1. row[u] \in Row
    BY DEF TypeOK
  <1>2. row' \in [Users -> Row]
    BY <1>1 DEF TypeOK, Mark, Row
  <1>3. StatusMatchesTokens'
    BY DEF TypeOK, Mark, StatusMatchesTokens
  <1>4. QED BY <1>2, <1>3

LEMMA SaveTyped ==
    ASSUME TypeOK, StatusMatchesTokens, NEW u \in Users, NEW access \in Token,
           NEW refresh \in Token \cup {None}, SaveTokens(u, access, refresh)
    PROVE  row' \in [Users -> Row] /\ StatusMatchesTokens'
  <1> DEFINE kept == IF refresh = None THEN row[u].refresh ELSE refresh
             r == [status |-> "connected", client |-> row[u].client, access |-> access,
                   refresh |-> kept, due |-> FALSE]
  <1>1. row[u] \in Row /\ kept \in Token \cup {None}
    BY DEF TypeOK, Row
  <1>2. r \in Row
    BY <1>1 DEF Row
  <1>3. row' = [row EXCEPT ![u] = r]
    BY DEF SaveTokens, Connect
  <1>4. row' \in [Users -> Row]
    BY <1>2, <1>3 DEF TypeOK
  <1>5. StatusMatchesTokens'
    BY <1>3, BoundsAssumption DEF TypeOK, StatusMatchesTokens
  <1>6. QED BY <1>4, <1>5

LEMMA IssueTyped ==
    ASSUME TypeOK, NEW u \in Users, Issue(u)
    PROVE  /\ issued' \in 1 .. MaxTokens /\ issued' = issued + 1
           /\ owner' \in [1 .. issued' -> Users]
  BY BoundsAssumption DEF TypeOK, Issue

LEMMA UsersKnown == env \in Surroundings => env.users \subseteq Users
  BY SurroundingsAssumption

LEMMA StartKnown ==
    ASSUME TypeOK, StartsHaveUsers, NEW s \in Start, start[s].pc # "idle"
    PROVE  start[s] \in StartRow /\ start[s].user \in Users
  BY UsersKnown DEF TypeOK, StartsHaveUsers

LEMMA TurnKnown ==
    ASSUME TypeOK, TurnsHaveUsers, NEW t \in Turn, turn[t].pc # "idle"
    PROVE  turn[t] \in TurnRow /\ turn[t].user \in Users
  BY UsersKnown DEF TypeOK, TurnsHaveUsers

-----------------------------------------------------------------------------
(* Every action of an authorisation keeps the invariant. *)

LEMMA BeginStartInv ==
    ASSUME IInv, NEW s \in Start, NEW u \in Users, BeginStart(s, u)
    PROVE  IInv'
  <1> USE DEF IInv, BeginStart
  <1>1. row[u] \in Row /\ start[s] \in StartRow /\ u \in env.users
    BY DEF TypeOK, Free
  <1>2. row' \in [Users -> Row]
    BY <1>1 DEF TypeOK, Row
  <1>3. start' \in [Start -> StartRow]
    BY <1>1 DEF TypeOK, StartRow, Row
  <1>4. TypeOK'
    BY <1>2, <1>3 DEF TypeOK, runtime, server
  <1>5. Handlers'
    BY <1>1 DEF TypeOK, Handlers, StartsHaveUsers, TurnsHaveUsers, TurnsHaveTokens,
        SavedAreOffered, StartRow
  <1>6. StatusMatchesTokens'
    BY DEF TypeOK, StatusMatchesTokens
  <1>7. QED BY <1>4, <1>5, <1>6

LEMMA OfferTyped ==
    ASSUME TypeOK, Handlers, NEW s \in Start, NEW c \in Nat, start[s].pc # "idle",
           Offer(s, c), UNCHANGED <<turn, env>>
    PROVE  /\ start' \in [Start -> StartRow]
           /\ late' \subseteq saved' /\ saved' \subseteq Start
           /\ Handlers'
  <1> USE DEF Handlers, Offer
  <1>1. start[s] \in StartRow /\ start[s].user \in Users
    BY StartKnown
  <1>2. start' \in [Start -> StartRow]
    BY <1>1 DEF TypeOK, StartRow
  <1>3. late' \subseteq saved' /\ saved' \subseteq Start
    BY DEF TypeOK
  <1>4. StartsHaveUsers' /\ SavedAreOffered'
    BY <1>1 DEF TypeOK, StartsHaveUsers, SavedAreOffered, StartRow
  <1>5. QED BY <1>2, <1>3, <1>4 DEF TurnsHaveUsers, TurnsHaveTokens

LEMMA DiscoverInv ==
    ASSUME IInv, NEW s \in Start, Discover(s)
    PROVE  IInv'
  <1> USE DEF IInv, Discover
  <1> DEFINE u == start[s].user
  <1>1. start[s] \in StartRow /\ u \in Users /\ row[u] \in Row
    BY StartKnown DEF Handlers, TypeOK
  <1>2. row' \in [Users -> Row] /\ StatusMatchesTokens'
    <2>1. CASE row' = row
      BY <2>1 DEF TypeOK, StatusMatchesTokens
    <2>2. CASE row' = [row EXCEPT ![u].client = Preset]
      BY <1>1, <2>2 DEF TypeOK, Row, Preset, StatusMatchesTokens
    <2>3. QED BY <2>1, <2>2
  <1>3. /\ start' \in [Start -> StartRow]
        /\ late' \subseteq saved' /\ saved' \subseteq Start
        /\ Handlers'
    <2>1. CASE \E c \in Nat : Offer(s, c)
      BY <2>1, OfferTyped
    <2>2. CASE start' = [start EXCEPT ![s].pc = "registering"] /\ UNCHANGED <<saved, late>>
      BY <1>1, <2>2 DEF TypeOK, StartRow, Handlers, StartsHaveUsers, TurnsHaveUsers,
          TurnsHaveTokens, SavedAreOffered
    <2>3. QED BY <1>1, <2>1, <2>2 DEF StartRow, Preset
  <1>4. TypeOK'
    BY <1>2, <1>3 DEF TypeOK, runtime, server
  <1>5. QED BY <1>2, <1>3, <1>4

LEMMA RegisterInv ==
    ASSUME IInv, NEW s \in Start, Register(s)
    PROVE  IInv'
  <1> USE DEF IInv, Register
  <1> DEFINE u == start[s].user
             c == registered[u] + 1
  <1>1. u \in Users /\ row[u] \in Row /\ c \in Nat
    BY StartKnown DEF Handlers, TypeOK
  <1>2. row' \in [Users -> Row] /\ StatusMatchesTokens'
    BY <1>1 DEF TypeOK, Row, StatusMatchesTokens
  <1>3. /\ start' \in [Start -> StartRow]
        /\ late' \subseteq saved' /\ saved' \subseteq Start
        /\ Handlers'
    BY <1>1, OfferTyped
  <1>4. registered' \in [Users -> Nat]
    BY <1>1 DEF TypeOK
  <1>5. TypeOK'
    BY <1>2, <1>3, <1>4 DEF TypeOK, runtime
  <1>6. QED BY <1>2, <1>3, <1>5

LEMMA EndTyped ==
    ASSUME IInv, NEW s \in Start, start[s].pc # "idle", s \notin saved',
           start' = [start EXCEPT ![s].pc = "ended"], saved' \subseteq saved,
           UNCHANGED <<turn, env>>
    PROVE  start' \in [Start -> StartRow] /\ Handlers'
  BY StartKnown DEF IInv, TypeOK, StartRow, Handlers, StartsHaveUsers, TurnsHaveUsers,
      TurnsHaveTokens, SavedAreOffered

LEMMA StartFailsInv ==
    ASSUME IInv, NEW s \in Start, StartFails(s)
    PROVE  IInv'
  <1> USE DEF IInv, StartFails
  <1>1. start[s].user \in Users /\ s \notin saved
    BY StartKnown DEF Handlers, SavedAreOffered
  <1>2. row' \in [Users -> Row] /\ StatusMatchesTokens'
    BY <1>1, MarkTyped DEF TypeOK, StatusMatchesTokens
  <1>3. start' \in [Start -> StartRow] /\ Handlers'
    BY <1>1, EndTyped
  <1>4. QED BY <1>2, <1>3 DEF TypeOK, runtime, server

LEMMA StateExpiresInv ==
    ASSUME IInv, NEW s \in Start, StateExpires(s)
    PROVE  IInv'
  BY DEF IInv, StateExpires, TypeOK, Handlers, StartsHaveUsers, TurnsHaveUsers,
      TurnsHaveTokens, SavedAreOffered, StatusMatchesTokens, runtime, server

LEMMA CallbackInv ==
    ASSUME IInv, NEW s \in Start, Callback(s)
    PROVE  IInv'
  <1> USE DEF IInv, Callback
  <1> DEFINE u == start[s].user
  <1>1. start[s] \in StartRow /\ start[s].pc = "offered" /\ u \in Users /\ row[u].client \in Nat
    BY StartKnown DEF Handlers, SavedAreOffered, TypeOK, Row
  <1>2. start' \in [Start -> StartRow]
    BY <1>1 DEF TypeOK, StartRow
  <1>3. Handlers'
    BY <1>1 DEF TypeOK, StartRow, Handlers, StartsHaveUsers, TurnsHaveUsers, TurnsHaveTokens,
        SavedAreOffered
  <1>4. QED BY <1>2, <1>3 DEF TypeOK, StatusMatchesTokens, runtime, server

LEMMA DeniedInv ==
    ASSUME IInv, NEW s \in Start, Denied(s)
    PROVE  IInv'
  <1> USE DEF IInv, Denied
  <1>1. start[s].pc = "offered" /\ start[s].user \in Users
    BY StartKnown DEF Handlers, SavedAreOffered
  <1>2. row' \in [Users -> Row] /\ StatusMatchesTokens'
    BY <1>1, MarkTyped
  <1>3. start' \in [Start -> StartRow] /\ Handlers'
    BY <1>1, EndTyped
  <1>4. QED BY <1>2, <1>3 DEF TypeOK, runtime, server

LEMMA ExchangeInv ==
    ASSUME IInv, NEW s \in Start, Exchange(s)
    PROVE  IInv'
  <1> USE DEF IInv, Exchange
  <1> DEFINE u == start[s].user
  <1>1. u \in Users /\ s \notin saved
    BY StartKnown DEF Handlers, SavedAreOffered
  <1>2. /\ issued' \in 1 .. MaxTokens /\ issued' = issued + 1
        /\ owner' \in [1 .. issued' -> Users]
    BY <1>1, IssueTyped
  <1>3. row' \in [Users -> Row] /\ StatusMatchesTokens'
    <2>1. \E refresh \in Token \cup {None} : SaveTokens(u, issued', refresh)
      BY <1>2
    <2>2. QED BY <1>1, <1>2, <2>1, SaveTyped
  <1>4. start' \in [Start -> StartRow] /\ Handlers'
    BY <1>1, EndTyped
  <1>5. alive' \subseteq 1 .. issued' /\ issued' \in 0 .. MaxTokens
    BY <1>2, BoundsAssumption DEF TypeOK
  <1>6. version' \in Nat
    BY DEF TypeOK, Bump
  <1>7. QED BY <1>2, <1>3, <1>4, <1>5, <1>6 DEF TypeOK

LEMMA ExchangeFailsInv ==
    ASSUME IInv, NEW s \in Start, ExchangeFails(s)
    PROVE  IInv'
  <1> USE DEF IInv, ExchangeFails
  <1>1. start[s].user \in Users /\ s \notin saved
    BY StartKnown DEF Handlers, SavedAreOffered
  <1>2. row' \in [Users -> Row] /\ StatusMatchesTokens'
    BY <1>1, MarkTyped DEF TypeOK, StatusMatchesTokens
  <1>3. start' \in [Start -> StartRow] /\ Handlers'
    BY <1>1, EndTyped
  <1>4. QED BY <1>2, <1>3 DEF TypeOK, runtime, server

-----------------------------------------------------------------------------
(* So do a disconnection, the clock, *)

LEMMA DisconnectInv ==
    ASSUME IInv, NEW u \in Users, Disconnect(u)
    PROVE  IInv'
  <1> USE DEF IInv, Disconnect
  <1> DEFINE r == [status |-> "revoked", client |-> row[u].client, access |-> None,
                   refresh |-> None, due |-> FALSE]
  <1>1. r \in Row
    BY DEF TypeOK, Row
  <1>2. row' \in [Users -> Row]
    BY <1>1 DEF TypeOK
  <1>3. StatusMatchesTokens'
    BY DEF TypeOK, StatusMatchesTokens
  <1>4. Handlers'
    BY DEF Handlers, StartsHaveUsers, TurnsHaveUsers, TurnsHaveTokens, SavedAreOffered
  <1>5. version' \in Nat
    BY DEF TypeOK, Bump
  <1>6. QED BY <1>2, <1>3, <1>4, <1>5 DEF TypeOK, server

LEMMA FallsDueInv ==
    ASSUME IInv, NEW u \in Users, FallsDue(u)
    PROVE  IInv'
  <1> USE DEF IInv, FallsDue
  <1>1. row' \in [Users -> Row]
    BY DEF TypeOK, Row
  <1>2. StatusMatchesTokens'
    BY DEF TypeOK, StatusMatchesTokens
  <1>3. Handlers'
    BY DEF Handlers, StartsHaveUsers, TurnsHaveUsers, TurnsHaveTokens, SavedAreOffered
  <1>4. QED BY <1>1, <1>2, <1>3 DEF TypeOK, runtime, server

(* the opening of a chat turn, *)

LEMMA OpenTyped ==
    ASSUME TypeOK, Handlers, NEW t \in Turn, NEW u \in Users,
           NEW pc \in {"refreshing", "assembling", "ready"},
           NEW refresh \in Token \cup {None}, NEW token \in Token \cup {None},
           pc = "assembling" => token \in Token,
           Open(t, u, pc, refresh, token)
    PROVE  turn' \in [Turn -> TurnRow] /\ Handlers'
  <1> USE DEF Open
  <1> DEFINE r == [pc |-> pc, user |-> u, refresh |-> refresh, token |-> token, agent |-> None]
  <1>1. r \in TurnRow /\ u \in env.users
    BY DEF TurnRow, Free
  <1>2. turn' \in [Turn -> TurnRow]
    BY <1>1 DEF TypeOK
  <1>3. TurnsHaveUsers' /\ TurnsHaveTokens'
    BY <1>1 DEF TypeOK, Handlers, TurnsHaveUsers, TurnsHaveTokens
  <1>4. StartsHaveUsers' /\ SavedAreOffered'
    BY DEF Handlers, StartsHaveUsers, SavedAreOffered
  <1>5. QED BY <1>2, <1>3, <1>4 DEF Handlers

LEMMA OpenInv ==
    ASSUME IInv, NEW t \in Turn, NEW u \in Users,
           \/ OpenBare(t, u) \/ OpenWithToken(t, u)
           \/ OpenUnrenewable(t, u) \/ OpenRefreshing(t, u)
    PROVE  IInv'
  <1> USE DEF IInv
  <1>1. row[u] \in Row
    BY DEF TypeOK
  <1>2. turn' \in [Turn -> TurnRow] /\ Handlers'
    <2>1. CASE OpenBare(t, u)
      BY <2>1, OpenTyped DEF OpenBare
    <2>2. CASE OpenWithToken(t, u)
      BY <1>1, <2>2, OpenTyped DEF OpenWithToken, Usable, Row
    <2>3. CASE OpenUnrenewable(t, u)
      BY <2>3, OpenTyped DEF OpenUnrenewable
    <2>4. CASE OpenRefreshing(t, u)
      BY <1>1, <2>4, OpenTyped DEF OpenRefreshing, Row
    <2>5. QED BY <2>1, <2>2, <2>3, <2>4
  <1>3. row' \in [Users -> Row] /\ StatusMatchesTokens'
    BY MarkTyped DEF TypeOK, StatusMatchesTokens, OpenBare, OpenWithToken, OpenUnrenewable,
        OpenRefreshing
  <1>4. UNCHANGED <<start, saved, late, runtime, server, env>>
    BY DEF Open, OpenBare, OpenWithToken, OpenUnrenewable, OpenRefreshing
  <1>5. QED BY <1>2, <1>3, <1>4 DEF TypeOK, runtime, server

(* and its way to an agent. *)

LEMMA GrantInv ==
    ASSUME IInv, NEW t \in Turn, Grant(t)
    PROVE  IInv'
  <1> USE DEF IInv, Grant
  <1>1. turn[t] \in TurnRow /\ turn[t].user \in Users
    BY TurnKnown DEF Handlers
  <1>2. /\ issued' \in 1 .. MaxTokens /\ issued' = issued + 1
        /\ owner' \in [1 .. issued' -> Users]
    BY <1>1, IssueTyped
  <1>3. turn' \in [Turn -> TurnRow]
    BY <1>1, <1>2 DEF TypeOK, TurnRow
  <1>4. Handlers'
    BY <1>1, <1>2 DEF TypeOK, TurnRow, Handlers, StartsHaveUsers, TurnsHaveUsers,
        TurnsHaveTokens, SavedAreOffered
  <1>5. alive' \subseteq 1 .. issued' /\ issued' \in 0 .. MaxTokens
    BY <1>2, BoundsAssumption DEF TypeOK
  <1>6. QED BY <1>2, <1>3, <1>4, <1>5 DEF TypeOK, StatusMatchesTokens, runtime

LEMMA RefreshedInv ==
    ASSUME IInv, NEW t \in Turn, Refreshed(t)
    PROVE  IInv'
  <1> USE DEF IInv, Refreshed
  <1>1. turn[t] \in TurnRow /\ turn[t].user \in Users /\ turn[t].token \in Token
    BY TurnKnown DEF Handlers, TurnsHaveTokens
  <1>2. row' \in [Users -> Row] /\ StatusMatchesTokens'
    <2>1. \E refresh \in Token \cup {None} :
            SaveTokens(turn[t].user, turn[t].token, refresh)
      BY <1>1
    <2>2. QED BY <1>1, <2>1, SaveTyped
  <1>3. turn' \in [Turn -> TurnRow]
    BY <1>1 DEF TypeOK, TurnRow
  <1>4. Handlers'
    BY <1>1 DEF TypeOK, TurnRow, Handlers, StartsHaveUsers, TurnsHaveUsers,
        TurnsHaveTokens, SavedAreOffered
  <1>5. version' \in Nat
    BY DEF TypeOK, Bump
  <1>6. QED BY <1>2, <1>3, <1>4, <1>5 DEF TypeOK, server

LEMMA RefreshFailsInv ==
    ASSUME IInv, NEW t \in Turn, RefreshFails(t)
    PROVE  IInv'
  <1> USE DEF IInv, RefreshFails
  <1>1. turn[t] \in TurnRow /\ turn[t].user \in Users
    BY TurnKnown DEF Handlers
  <1>2. row' \in [Users -> Row] /\ StatusMatchesTokens'
    BY <1>1, MarkTyped
  <1>3. turn' \in [Turn -> TurnRow]
    BY <1>1 DEF TypeOK, TurnRow
  <1>4. Handlers'
    BY <1>1 DEF TypeOK, TurnRow, Handlers, StartsHaveUsers, TurnsHaveUsers,
        TurnsHaveTokens, SavedAreOffered
  <1>5. QED BY <1>2, <1>3, <1>4 DEF TypeOK, runtime, server

LEMMA AssembleInv ==
    ASSUME IInv, NEW t \in Turn, Assemble(t)
    PROVE  IInv'
  <1> USE DEF IInv, Assemble
  <1>1. turn[t] \in TurnRow /\ turn[t].user \in Users /\ turn[t].token \in Token
    BY TurnKnown DEF Handlers, TurnsHaveTokens
  <1>2. PICK agent \in Token :
            turn' = [turn EXCEPT ![t] = [@ EXCEPT !.pc = "ready", !.agent = agent]]
    BY <1>1 DEF TypeOK, Cached, Agent
  <1>3. turn' \in [Turn -> TurnRow]
    BY <1>1, <1>2 DEF TypeOK, TurnRow
  <1>4. Handlers'
    BY <1>1, <1>2 DEF TypeOK, TurnRow, Handlers, StartsHaveUsers, TurnsHaveUsers,
        TurnsHaveTokens, SavedAreOffered
  <1>5. cache' \subseteq Agent
    BY <1>1 DEF TypeOK, Agent
  <1>6. QED BY <1>3, <1>4, <1>5 DEF TypeOK, StatusMatchesTokens, server

LEMMA AssembleFailsInv ==
    ASSUME IInv, NEW t \in Turn, AssembleFails(t)
    PROVE  IInv'
  <1> USE DEF IInv, AssembleFails
  <1>1. turn[t] \in TurnRow /\ turn[t].user \in Users
    BY TurnKnown DEF Handlers
  <1>2. turn' \in [Turn -> TurnRow]
    BY <1>1 DEF TypeOK, TurnRow
  <1>3. Handlers'
    BY <1>1 DEF TypeOK, TurnRow, Handlers, StartsHaveUsers, TurnsHaveUsers,
        TurnsHaveTokens, SavedAreOffered
  <1>4. QED BY <1>2, <1>3 DEF TypeOK, StatusMatchesTokens, runtime, server

LEMMA RestartInv ==
    ASSUME IInv, Restart
    PROVE  IInv'
  <1> USE DEF IInv, Restart
  <1>1. start' \in [Start -> StartRow]
    BY DEF TypeOK, StartRow
  <1>2. turn' \in [Turn -> TurnRow]
    BY DEF TypeOK, TurnRow
  <1>3. Handlers'
    BY DEF TypeOK, StartRow, TurnRow, Handlers, Starting, Opening, StartsHaveUsers,
        TurnsHaveUsers, TurnsHaveTokens, SavedAreOffered
  <1>4. QED BY <1>1, <1>2, <1>3 DEF TypeOK, StatusMatchesTokens, server

LEMMA StutterInv ==
    ASSUME IInv, UNCHANGED vars
    PROVE  IInv'
  BY DEF IInv, vars, TypeOK, Handlers, StartsHaveUsers, TurnsHaveUsers, TurnsHaveTokens,
      SavedAreOffered, StatusMatchesTokens, runtime, server

LEMMA Inductive == IInv /\ [Next]_vars => IInv'
  <1> SUFFICES ASSUME IInv, [Next]_vars PROVE IInv'
    OBVIOUS
  <1>1. ASSUME NEW u \in Users, NEW s \in Start, BeginStart(s, u) PROVE IInv'
    BY <1>1, BeginStartInv
  <1>2. ASSUME NEW u \in Users, NEW t \in Turn,
               \/ OpenBare(t, u) \/ OpenWithToken(t, u)
               \/ OpenUnrenewable(t, u) \/ OpenRefreshing(t, u)
        PROVE IInv'
    BY <1>2, OpenInv
  <1>3. ASSUME NEW u \in Users, Disconnect(u) \/ FallsDue(u) PROVE IInv'
    BY <1>3, DisconnectInv, FallsDueInv
  <1>4. ASSUME NEW s \in Start, Discover(s) \/ Register(s) \/ StartFails(s) \/ StateExpires(s)
        PROVE IInv'
    BY <1>4, DiscoverInv, RegisterInv, StartFailsInv, StateExpiresInv
  <1>5. ASSUME NEW s \in Start, Callback(s) \/ Denied(s) \/ Exchange(s) \/ ExchangeFails(s)
        PROVE IInv'
    BY <1>5, CallbackInv, DeniedInv, ExchangeInv, ExchangeFailsInv
  <1>6. ASSUME NEW t \in Turn, Grant(t) \/ Refreshed(t) \/ RefreshFails(t)
        PROVE IInv'
    BY <1>6, GrantInv, RefreshedInv, RefreshFailsInv
  <1>7. ASSUME NEW t \in Turn, Assemble(t) \/ AssembleFails(t) PROVE IInv'
    BY <1>7, AssembleInv, AssembleFailsInv
  <1>8. QED BY <1>1, <1>2, <1>3, <1>4, <1>5, <1>6, <1>7, RestartInv, StutterInv DEF Next

\* Every reachable state is well typed: every token in a row, a turn or the cache is one
\* the server has room for, every handler has its user.
THEOREM TypeCorrect == Spec => []TypeOK
  <1>1. IInv => TypeOK
    BY DEF IInv
  <1>2. QED BY InitInv, Inductive, <1>1, PTL DEF Spec

\* The status of a row and its tokens agree, whatever refreshes, call-backs, disconnections
\* and restarts interleave: connected rows can connect, revoked rows keep nothing.
THEOREM StatusIsTrue == Spec => []StatusMatchesTokens
  <1>1. IInv => StatusMatchesTokens
    BY DEF IInv
  <1>2. QED BY InitInv, Inductive, <1>1, PTL DEF Spec

-----------------------------------------------------------------------------
(***************************************************************************)
(* A state is used once: a saved state belongs to an authorisation that is *)
(* offered, so that nothing can bring one that has ended back.             *)
(***************************************************************************)
LEMMA EndedStays ==
    ASSUME IInv, [Next]_vars, NEW s \in Start, start[s].pc = "ended"
    PROVE  start'[s].pc = "ended"
  <1> USE DEF IInv, Handlers, TypeOK, SavedAreOffered
  <1>1. ASSUME NEW r \in Start, NEW u \in Users, BeginStart(r, u) PROVE start'[s].pc = "ended"
    BY <1>1 DEF BeginStart
  <1>2. ASSUME NEW r \in Start, Discover(r) \/ Register(r) PROVE start'[s].pc = "ended"
    BY <1>2 DEF Discover, Register, Offer
  <1>3. ASSUME NEW r \in Start, StartFails(r) \/ StateExpires(r) PROVE start'[s].pc = "ended"
    BY <1>3 DEF StartFails, StateExpires
  <1>4. ASSUME NEW r \in Start, Callback(r) \/ Denied(r) PROVE start'[s].pc = "ended"
    BY <1>4 DEF Callback, Denied
  <1>5. ASSUME NEW r \in Start, Exchange(r) \/ ExchangeFails(r) PROVE start'[s].pc = "ended"
    BY <1>5 DEF Exchange, ExchangeFails
  <1>6. CASE Restart
    BY <1>6 DEF Restart
  <1>7. CASE UNCHANGED start
    BY <1>7
  <1>8. ASSUME NEW t \in Turn, NEW u \in Users,
               \/ OpenBare(t, u) \/ OpenWithToken(t, u)
               \/ OpenUnrenewable(t, u) \/ OpenRefreshing(t, u)
        PROVE UNCHANGED start
    BY <1>8 DEF Open, OpenBare, OpenWithToken, OpenUnrenewable, OpenRefreshing
  <1>9. ASSUME NEW t \in Turn,
               Grant(t) \/ Refreshed(t) \/ RefreshFails(t) \/ Assemble(t) \/ AssembleFails(t)
        PROVE UNCHANGED start
    BY <1>9 DEF Grant, Refreshed, RefreshFails, Assemble, AssembleFails
  <1>10. ASSUME NEW u \in Users, Disconnect(u) \/ FallsDue(u) PROVE UNCHANGED start
    BY <1>10 DEF Disconnect, FallsDue
  <1> HIDE DEF IInv, Handlers, TypeOK, SavedAreOffered
  <1>11. QED BY <1>1, <1>2, <1>3, <1>4, <1>5, <1>6, <1>7, <1>8, <1>9, <1>10 DEF Next, vars

\* A repeated or late call-back of an authorisation that was completed, denied or failed
\* finds no state and does nothing.
THEOREM StatesUsedOnce == Spec => StateUsedOnce
  <1>1. IInv /\ [Next]_vars =>
            [\A s \in Start : start[s].pc = "ended" => start'[s].pc = "ended"]_vars
    BY EndedStays
  <1>2. QED BY InitInv, Inductive, <1>1, PTL DEF Spec, StateUsedOnce

-----------------------------------------------------------------------------
(***************************************************************************)
(* The agents that are cached under the present version carry the token of *)
(* the row, and so does a turn that is about to ask for its agent: every   *)
(* change of the token changes the version.  That no other handler changes *)
(* it between the two is what "one request at a time" is needed for.       *)
(***************************************************************************)
Sole == (\E u \in Users : env.users = {u}) /\ ~env.overlap

OneAtATime ==
    ~env.overlap =>
        /\ \A s, r \in Start :
                Starting(s) /\ Starting(r) /\ s # r => start[s].user # start[r].user
        /\ \A t, r \in Turn :
                Opening(t) /\ Opening(r) /\ t # r => turn[t].user # turn[r].user
        /\ \A s \in Start, t \in Turn :
                Starting(s) /\ Opening(t) => start[s].user # turn[t].user
CacheIsPast == \A a \in cache : a.at <= version
CacheIsCurrent ==
    Sole => \A a \in cache, u \in env.users : a.at = version => a.token = row[u].access
TurnsHoldTheRow ==
    Sole => \A t \in Turn :
                turn[t].pc = "assembling" => turn[t].token = row[turn[t].user].access
AgentsAtTheEnd == \A t \in Turn : turn[t].pc # "ready" => turn[t].agent = None

Currency == /\ CacheIsPast /\ CacheIsCurrent
            /\ TurnsHoldTheRow /\ AgentsAtTheEnd /\ AgentIsCurrent

CInv == IInv /\ OneAtATime /\ Currency

LEMMA InitCurrent == Init => CInv
  BY InitInv DEF Init, CInv, OneAtATime, Starting, Opening, Currency, CacheIsPast,
      CacheIsCurrent, TurnsHoldTheRow, AgentsAtTheEnd, AgentIsCurrent

\* Handlers that go on, wait or end leave no user with more of them.
LEMMA OneLess ==
    ASSUME OneAtATime, env' = env,
           \A s \in Start : Starting(s)' => Starting(s) /\ start'[s].user = start[s].user,
           \A t \in Turn : Opening(t)' => Opening(t) /\ turn'[t].user = turn[t].user
    PROVE  OneAtATime'
  BY DEF OneAtATime

\* A request begins when its user has no other.
LEMMA OneMore ==
    ASSUME OneAtATime, env' = env, NEW u, Free(u),
           \/ /\ turn' = turn
              /\ \E s \in Start :
                    /\ start'[s].user = u
                    /\ \A r \in Start : r # s => start'[r] = start[r]
           \/ /\ start' = start
              /\ \E t \in Turn :
                    /\ turn'[t].user = u
                    /\ \A r \in Turn : r # t => turn'[r] = turn[r]
    PROVE  OneAtATime'
  BY DEF OneAtATime, Free, Starting, Opening

LEMMA OneKept ==
    ASSUME IInv, OneAtATime, [Next]_vars
    PROVE  OneAtATime'
  <1> USE DEF IInv, TypeOK
  <1>1. ASSUME NEW s \in Start, NEW u \in Users, BeginStart(s, u) PROVE OneAtATime'
    BY <1>1, OneMore DEF BeginStart
  <1>2. ASSUME NEW s \in Start, Callback(s) PROVE OneAtATime'
    BY <1>2, OneMore DEF Callback
  <1>3. ASSUME NEW t \in Turn, NEW u \in Users,
               \/ OpenBare(t, u) \/ OpenWithToken(t, u)
               \/ OpenUnrenewable(t, u) \/ OpenRefreshing(t, u)
        PROVE OneAtATime'
    <2>1. \E pc, refresh, token : Open(t, u, pc, refresh, token)
      BY <1>3 DEF OpenBare, OpenWithToken, OpenUnrenewable, OpenRefreshing
    <2>2. Free(u) /\ start' = start /\ env' = env
      BY <2>1 DEF Open
    <2>3. turn'[t].user = u /\ \A r \in Turn : r # t => turn'[r] = turn[r]
      BY <2>1 DEF Open
    <2>4. QED BY <2>2, <2>3, OneMore
  <1>4. ASSUME NEW s \in Start,
               \/ Discover(s) \/ Register(s) \/ StartFails(s) \/ StateExpires(s)
               \/ Denied(s) \/ Exchange(s) \/ ExchangeFails(s)
        PROVE OneAtATime'
    <2> DEFINE Less == /\ turn' = turn /\ env' = env
                       /\ \A r \in Start :
                            /\ start'[r].user = start[r].user
                            /\ start'[r].pc \in {"discovering", "registering", "exchanging"}
                                    => Starting(r)
    <2> USE DEF Starting, StartRow
    <2> SUFFICES Less
      BY OneLess DEF Opening
    <2>1. CASE Discover(s)
      <3>1. start[s] \in StartRow /\ Starting(s)
        BY <2>1 DEF Discover
      <3>2. CASE start' = [start EXCEPT ![s].pc = "registering"]
        BY <2>1, <3>1, <3>2 DEF Discover
      <3>3. ASSUME NEW c, Offer(s, c) PROVE Less
        <4>1. turn' = turn /\ env' = env
          BY <2>1 DEF Discover
        <4>2. QED BY <3>1, <3>3, <4>1 DEF Offer
      <3>4. QED BY <2>1, <3>2, <3>3 DEF Discover
    <2>2. CASE Register(s)
      BY <2>2 DEF Register, Offer
    <2>3. CASE StartFails(s)
      BY <2>3 DEF StartFails
    <2>4. CASE StateExpires(s)
      BY <2>4 DEF StateExpires
    <2>5. CASE Denied(s)
      BY <2>5 DEF Denied
    <2>6. CASE Exchange(s)
      BY <2>6 DEF Exchange
    <2>7. CASE ExchangeFails(s)
      BY <2>7 DEF ExchangeFails
    <2> HIDE DEF Less
    <2>8. QED BY <1>4, <2>1, <2>2, <2>3, <2>4, <2>5, <2>6, <2>7
  <1>5. ASSUME NEW t \in Turn,
               Grant(t) \/ Refreshed(t) \/ RefreshFails(t) \/ Assemble(t) \/ AssembleFails(t)
        PROVE OneAtATime'
    <2> DEFINE Less == /\ start' = start /\ env' = env
                       /\ \A r \in Turn :
                            /\ turn'[r].user = turn[r].user
                            /\ turn'[r].pc \in {"refreshing", "granted", "assembling"}
                                    => Opening(r)
    <2> USE DEF Opening, TurnRow
    <2> SUFFICES Less
      BY OneLess DEF Starting
    <2>1. CASE Grant(t)
      BY <2>1 DEF Grant
    <2>2. CASE Refreshed(t)
      BY <2>2 DEF Refreshed
    <2>3. CASE RefreshFails(t)
      BY <2>3 DEF RefreshFails
    <2>4. CASE Assemble(t)
      <3>1. \E agent : turn' = [turn EXCEPT ![t] = [@ EXCEPT !.pc = "ready", !.agent = agent]]
        BY <2>4 DEF Assemble
      <3>2. QED BY <2>4, <3>1 DEF Assemble
    <2>5. CASE AssembleFails(t)
      BY <2>5 DEF AssembleFails
    <2> HIDE DEF Less
    <2>6. QED BY <1>5, <2>1, <2>2, <2>3, <2>4, <2>5
  <1>6. CASE Restart
    <2>1. /\ \A s \in Start : ~Starting(s)'
          /\ \A t \in Turn : ~Opening(t)'
      BY <1>6 DEF Restart, Starting, Opening, StartRow, TurnRow
    <2>2. QED BY <2>1 DEF OneAtATime
  <1>7. ASSUME NEW u \in Users, Disconnect(u) \/ FallsDue(u) PROVE OneAtATime'
    BY <1>7, OneLess DEF Disconnect, FallsDue, Starting, Opening
  <1>8. CASE UNCHANGED vars
    BY <1>8, OneLess DEF vars, Starting, Opening
  <1> HIDE DEF IInv, TypeOK
  <1>9. QED BY <1>1, <1>2, <1>3, <1>4, <1>5, <1>6, <1>7, <1>8 DEF Next

\* What leaves the tokens of the rows, the turns and the cache alone.
LEMMA CurrentFrame ==
    ASSUME Currency, UNCHANGED <<turn, version, cache, env>>,
           \A u \in env.users : row'[u].access = row[u].access,
           TurnsHaveUsers
    PROVE  Currency'
  BY DEF Currency, CacheIsPast, CacheIsCurrent, TurnsHoldTheRow, AgentsAtTheEnd,
      AgentIsCurrent, Sole, TurnsHaveUsers

\* A change of the credentials while no turn of a sole user is being opened.
LEMMA CurrentBump ==
    ASSUME IInv, Currency, Bump, UNCHANGED <<turn, cache, env>>,
           Sole => \A t \in Turn : turn[t].pc # "assembling"
    PROVE  Currency'
  <1>1. CacheIsPast'
    BY DEF IInv, TypeOK, Currency, CacheIsPast, Bump, Agent
  <1>2. CacheIsCurrent'
    BY DEF IInv, TypeOK, Currency, CacheIsPast, CacheIsCurrent, Bump, Agent
  <1>3. TurnsHoldTheRow'
    BY DEF TurnsHoldTheRow, Sole
  <1>4. AgentsAtTheEnd' /\ AgentIsCurrent'
    BY DEF Currency, AgentsAtTheEnd, AgentIsCurrent
  <1>5. QED BY <1>1, <1>2, <1>3, <1>4 DEF Currency

LEMMA MarkKeepsToken ==
    ASSUME row \in [Users -> Row], NEW u, NEW status, Mark(u, status)
    PROVE  \A v \in Users : row'[v].access = row[v].access
  <1> TAKE v \in Users
  <1>1. row'[v] = IF v = u THEN [row[v] EXCEPT !.status = status] ELSE row[v]
    BY DEF Mark
  <1>2. QED BY <1>1 DEF Row

LEMMA StartCurrent ==
    ASSUME CInv, NEW s \in Start,
           \/ \E u \in Users : BeginStart(s, u)
           \/ Discover(s) \/ Register(s) \/ StartFails(s) \/ StateExpires(s)
           \/ Callback(s) \/ Denied(s) \/ Exchange(s) \/ ExchangeFails(s)
    PROVE  Currency'
  <1> USE DEF CInv, IInv, Handlers
  <1>1. env.users \subseteq Users /\ row \in [Users -> Row]
    BY UsersKnown DEF TypeOK
  <1>2. ASSUME NEW u \in Users, BeginStart(s, u) PROVE Currency'
    BY <1>1, <1>2, CurrentFrame DEF BeginStart, runtime, Row
  <1>3. CASE Discover(s) \/ Register(s)
    <2>1. UNCHANGED <<turn, version, cache, env>>
      BY <1>3 DEF Discover, Register, runtime
    <2>2. \A u \in env.users : row'[u].access = row[u].access
      BY <1>1, <1>3 DEF Discover, Register, Row
    <2>3. QED BY <2>1, <2>2, CurrentFrame
  <1>4. CASE StartFails(s) \/ StateExpires(s) \/ Callback(s) \/ Denied(s) \/ ExchangeFails(s)
    <2>1. UNCHANGED <<turn, version, cache, env>>
      BY <1>4 DEF StartFails, StateExpires, Callback, Denied, ExchangeFails, runtime
    <2>2. row' = row \/ \E u, status : Mark(u, status)
      BY <1>4 DEF StartFails, StateExpires, Callback, Denied, ExchangeFails
    <2>3. \A u \in env.users : row'[u].access = row[u].access
      BY <1>1, <2>2, MarkKeepsToken
    <2>4. QED BY <2>1, <2>3, CurrentFrame
  <1>5. CASE Exchange(s)
    <2>1. Sole => \A t \in Turn : turn[t].pc # "assembling"
      BY <1>5 DEF Exchange, Sole, OneAtATime, Starting, Opening, StartsHaveUsers, TurnsHaveUsers
    <2>2. QED BY <1>5, <2>1, CurrentBump DEF Exchange
  <1>6. QED BY <1>2, <1>3, <1>4, <1>5

LEMMA OpenCurrent ==
    ASSUME CInv, NEW t \in Turn, NEW u \in Users,
           \/ OpenBare(t, u) \/ OpenWithToken(t, u)
           \/ OpenUnrenewable(t, u) \/ OpenRefreshing(t, u)
    PROVE  Currency'
  <1> USE DEF CInv, IInv, Handlers
  <1>1. env.users \subseteq Users /\ row \in [Users -> Row] /\ turn \in [Turn -> TurnRow]
    BY UsersKnown DEF TypeOK
  <1>2. PICK pc, refresh, token :
            Open(t, u, pc, refresh, token) /\ (pc = "assembling" => token = row[u].access)
    BY DEF OpenBare, OpenWithToken, OpenUnrenewable, OpenRefreshing
  <1>3. UNCHANGED <<version, cache, env>>
    BY <1>2 DEF Open, runtime
  <1>4. /\ turn'[t] = [pc |-> pc, user |-> u, refresh |-> refresh, token |-> token, agent |-> None]
        /\ \A r \in Turn : r # t => turn'[r] = turn[r]
    BY <1>1, <1>2 DEF Open
  <1>5. row' = row \/ \E status : Mark(u, status)
    BY DEF OpenBare, OpenWithToken, OpenUnrenewable, OpenRefreshing
  <1>6. \A v \in Users : row'[v].access = row[v].access
    BY <1>1, <1>5, MarkKeepsToken
  <1>7. CacheIsPast' /\ CacheIsCurrent'
    BY <1>1, <1>3, <1>6 DEF Currency, CacheIsPast, CacheIsCurrent, Sole
  <1>8. TurnsHoldTheRow'
    BY <1>1, <1>2, <1>3, <1>4, <1>6 DEF Currency, TurnsHoldTheRow, Sole, TurnsHaveUsers
  <1>9. AgentsAtTheEnd' /\ AgentIsCurrent'
    BY <1>3, <1>4 DEF Currency, AgentsAtTheEnd, AgentIsCurrent
  <1>10. QED BY <1>7, <1>8, <1>9 DEF Currency

LEMMA RefreshCurrent ==
    ASSUME CInv, NEW t \in Turn, Grant(t) \/ Refreshed(t) \/ RefreshFails(t)
    PROVE  Currency'
  <1> USE DEF CInv, IInv, Handlers
  <1>1. /\ env.users \subseteq Users /\ row \in [Users -> Row] /\ turn \in [Turn -> TurnRow]
        /\ turn[t].pc \in {"refreshing", "granted"} /\ turn[t].user \in Users
    BY UsersKnown, TurnKnown DEF TypeOK, Grant, Refreshed, RefreshFails
  <1>2. PICK pc \in {"granted", "assembling", "ready"} : \E token :
            turn' = [turn EXCEPT ![t] = [@ EXCEPT !.pc = pc, !.token = token]]
    <2>1. CASE Grant(t) \/ RefreshFails(t)
      BY <2>1 DEF Grant, RefreshFails
    <2>2. CASE Refreshed(t)
      <3>1. turn[t] = [turn[t] EXCEPT !.token = turn[t].token]
        BY <1>1 DEF TurnRow
      <3>2. turn' = [turn EXCEPT ![t] = [@ EXCEPT !.pc = "assembling", !.token = turn[t].token]]
        BY <1>1, <2>2 DEF Refreshed, TurnRow
      <3>3. QED BY <3>2
    <2>3. QED BY <2>1, <2>2
  <1>3. AgentsAtTheEnd' /\ AgentIsCurrent'
    BY <1>1, <1>2 DEF Currency, AgentsAtTheEnd, AgentIsCurrent, TurnRow,
        Grant, Refreshed, RefreshFails
  <1>4. CASE Grant(t) \/ RefreshFails(t)
    <2>1. UNCHANGED <<version, cache, env>>
      BY <1>4 DEF Grant, RefreshFails, runtime
    <2>2. row' = row \/ \E status : Mark(turn[t].user, status)
      BY <1>4 DEF Grant, RefreshFails
    <2>3. \A v \in Users : row'[v].access = row[v].access
      BY <1>1, <2>2, MarkKeepsToken
    <2>4. CacheIsPast' /\ CacheIsCurrent'
      BY <1>1, <2>1, <2>3 DEF Currency, CacheIsPast, CacheIsCurrent, Sole
    <2>5. turn'[t].pc # "assembling" /\ \A r \in Turn : r # t => turn'[r] = turn[r]
      BY <1>1, <1>4 DEF Grant, RefreshFails, TurnRow
    <2>6. TurnsHoldTheRow'
      BY <1>1, <2>1, <2>3, <2>5 DEF Currency, TurnsHoldTheRow, Sole, TurnsHaveUsers
    <2>7. QED BY <1>3, <2>4, <2>6 DEF Currency
  <1>5. CASE Refreshed(t)
    <2>1. Bump /\ UNCHANGED <<cache, env>>
      BY <1>5 DEF Refreshed
    <2>2. CacheIsPast'
      BY <2>1 DEF TypeOK, Currency, CacheIsPast, Bump, Agent
    <2>3. CacheIsCurrent'
      BY <2>1 DEF TypeOK, Currency, CacheIsPast, CacheIsCurrent, Bump, Agent
    <2>4. row'[turn[t].user].access = turn[t].token
      BY <1>1, <1>5 DEF Refreshed, SaveTokens, Connect
    <2>5. /\ turn'[t].user = turn[t].user /\ turn'[t].token = turn[t].token
          /\ \A r \in Turn : r # t => turn'[r] = turn[r]
      BY <1>1, <1>5 DEF Refreshed, TurnRow
    <2>6. Sole => \A r \in Turn : r # t => turn[r].pc # "assembling"
      BY <1>1 DEF Sole, OneAtATime, Opening, TurnsHaveUsers
    <2>7. TurnsHoldTheRow'
      BY <2>1, <2>4, <2>5, <2>6 DEF TurnsHoldTheRow, Sole
    <2>8. QED BY <1>3, <2>2, <2>3, <2>7 DEF Currency
  <1>6. QED BY <1>4, <1>5

LEMMA AssembleCurrent ==
    ASSUME CInv, NEW t \in Turn, Assemble(t) \/ AssembleFails(t)
    PROVE  Currency'
  <1> USE DEF CInv, IInv, Handlers
  <1>1. /\ env.users \subseteq Users /\ turn \in [Turn -> TurnRow]
        /\ turn[t].pc = "assembling" /\ turn[t].user \in env.users
        /\ UNCHANGED <<row, version, env>>
    BY UsersKnown DEF TypeOK, Assemble, AssembleFails, TurnsHaveUsers, runtime
  <1>2. CASE AssembleFails(t)
    <2>1. cache' = cache /\ turn' = [turn EXCEPT ![t].pc = "ready"]
      BY <1>2 DEF AssembleFails, runtime
    <2>2. QED BY <1>1, <2>1 DEF Currency, CacheIsPast, CacheIsCurrent, TurnsHoldTheRow,
        AgentsAtTheEnd, AgentIsCurrent, Sole, TurnRow
  <1>3. CASE Assemble(t)
    <2>1. PICK agent \in IF Cached = {} THEN {turn[t].token} ELSE {a.token : a \in Cached} :
            turn' = [turn EXCEPT ![t] = [@ EXCEPT !.pc = "ready", !.agent = agent]]
      BY <1>3 DEF Assemble
    <2>2. Sole => turn[t].token = row[turn[t].user].access
      BY <1>1 DEF Currency, TurnsHoldTheRow
    <2>3. Sole => agent = turn[t].token
      BY <1>1, <2>1, <2>2 DEF Currency, CacheIsCurrent, Cached
    <2>4. \A a \in cache' : a \in cache \/ a = [at |-> version, token |-> turn[t].token]
      BY <1>3 DEF Assemble
    <2>5. CacheIsPast'
      BY <1>1, <2>4 DEF Currency, CacheIsPast, TypeOK
    <2>6. Sole => \A u \in env.users : turn[t].token = row[u].access
      BY <1>1, <2>2 DEF Sole
    <2>7. CacheIsCurrent'
      BY <1>1, <2>4, <2>6 DEF Currency, CacheIsCurrent, Sole
    <2>8. /\ turn'[t].pc = "ready" /\ turn'[t].agent = agent /\ turn'[t].token = turn[t].token
          /\ \A r \in Turn : r # t => turn'[r] = turn[r]
      BY <1>1, <2>1 DEF TurnRow
    <2>9. TurnsHoldTheRow' /\ AgentsAtTheEnd'
      BY <1>1, <2>8 DEF Currency, TurnsHoldTheRow, AgentsAtTheEnd, Sole
    <2>10. AgentIsCurrent'
      BY <1>1, <2>3, <2>8 DEF Currency, AgentIsCurrent, Sole
    <2>11. QED BY <2>5, <2>7, <2>9, <2>10 DEF Currency
  <1>4. QED BY <1>2, <1>3

LEMMA UserCurrent ==
    ASSUME CInv, NEW u \in Users, Disconnect(u) \/ FallsDue(u)
    PROVE  Currency'
  <1> USE DEF CInv, IInv, Handlers
  <1>1. CASE Disconnect(u)
    <2>1. Sole => \A t \in Turn : turn[t].pc # "assembling"
      BY <1>1 DEF Disconnect, Free, Sole, Opening, TurnsHaveUsers
    <2>2. QED BY <1>1, <2>1, CurrentBump DEF Disconnect, server
  <1>2. CASE FallsDue(u)
    BY <1>2, UsersKnown, CurrentFrame DEF FallsDue, TypeOK, Row, runtime
  <1>3. QED BY <1>1, <1>2

LEMMA RestartCurrent ==
    ASSUME CInv, Restart
    PROVE  Currency'
  <1> USE DEF CInv, IInv
  <1>1. cache' = {} /\ env' = env
    BY DEF Restart
  <1>2. \A t \in Turn : /\ turn'[t].pc # "assembling"
                        /\ turn'[t].agent = turn[t].agent /\ turn'[t].token = turn[t].token
                        /\ turn'[t].pc # "ready" => turn[t].pc # "ready"
    BY DEF Restart, TypeOK, TurnRow, Opening
  <1>3. QED BY <1>1, <1>2 DEF Currency, CacheIsPast, CacheIsCurrent, TurnsHoldTheRow,
      AgentsAtTheEnd, AgentIsCurrent

LEMMA CurrentInductive == CInv /\ [Next]_vars => CInv'
  <1> SUFFICES ASSUME CInv, [Next]_vars PROVE CInv'
    OBVIOUS
  <1>1. IInv' /\ OneAtATime'
    BY Inductive, OneKept DEF CInv
  <1>2. Currency'
    <2>1. CASE UNCHANGED vars
      BY <2>1, CurrentFrame DEF vars, runtime, CInv, IInv, Handlers
    <2>2. CASE \E s \in Start :
                \/ \E u \in Users : BeginStart(s, u)
                \/ Discover(s) \/ Register(s) \/ StartFails(s) \/ StateExpires(s)
                \/ Callback(s) \/ Denied(s) \/ Exchange(s) \/ ExchangeFails(s)
      BY <2>2, StartCurrent
    <2>3. CASE \E u \in Users, t \in Turn :
                \/ OpenBare(t, u) \/ OpenWithToken(t, u)
                \/ OpenUnrenewable(t, u) \/ OpenRefreshing(t, u)
      BY <2>3, OpenCurrent
    <2>4. CASE \E t \in Turn : Grant(t) \/ Refreshed(t) \/ RefreshFails(t)
      BY <2>4, RefreshCurrent
    <2>5. CASE \E t \in Turn : Assemble(t) \/ AssembleFails(t)
      BY <2>5, AssembleCurrent
    <2>6. CASE \E u \in Users : Disconnect(u) \/ FallsDue(u)
      BY <2>6, UserCurrent
    <2>7. QED BY <2>1, <2>2, <2>3, <2>4, <2>5, <2>6, RestartCurrent DEF Next
  <1>3. QED BY <1>1, <1>2 DEF CInv

\* A sole user whose requests come one after another never chats with an agent that was
\* cached before the credentials changed, for any number of turns, tokens and agents.
THEOREM AgentStaysCurrent == Spec => []AgentIsCurrent
  <1>1. CInv => AgentIsCurrent
    BY DEF CInv, Currency
  <1>2. QED BY InitCurrent, CurrentInductive, <1>1, PTL DEF Spec
-----------------------------------------------------------------------------
(***************************************************************************)
(* A connection that is renewed is never lost.  The refresh token of a row *)
(* was issued for its user and is the one the server accepts, except while *)
(* a turn of this user holds the token that replaced it; no request of the *)
(* same user comes in between, and none of another user can spend it.      *)
(***************************************************************************)
Quietly == ~env.overlap /\ ~env.faults /\ env.renews

ClientsKnown ==
    /\ \A u \in Users : row[u].status = "connected" => row[u].client # None
    /\ \A s \in Start :
            \/ start[s].pc = "discovering" /\ start[s].client # None
            \/ start[s].pc \in {"offered", "exchanging"}
            => row[start[s].user].client # None
    /\ \A t \in Turn :
            turn[t].pc \in {"refreshing", "granted"} => row[turn[t].user].client # None
RefreshesOwned ==
    Quietly => \A u \in Users :
        /\ row[u].status = "connected" => row[u].refresh # None
        /\ row[u].refresh # None =>
                row[u].refresh \in 1 .. issued /\ owner[row[u].refresh] = u
TurnsHoldRefresh ==
    Quietly => \A t \in Turn :
        /\ turn[t].pc \in {"refreshing", "granted"} =>
                turn[t].refresh # None /\ turn[t].refresh = row[turn[t].user].refresh
        /\ turn[t].pc = "granted" /\ env.rotates =>
                turn[t].token \in alive /\ owner[turn[t].token] = turn[t].user
Replacing(u) == env.rotates /\ \E t \in Turn : turn[t].pc = "granted" /\ turn[t].user = u
RefreshesAlive ==
    Quietly => \A u \in Users :
        row[u].refresh # None => row[u].refresh \in alive \/ Replacing(u)

Renewal == RefreshesOwned /\ TurnsHoldRefresh /\ RefreshesAlive /\ StaysConnected

RInv == IInv /\ OneAtATime /\ ClientsKnown /\ Renewal

LEMMA InitRenewal == Init => ClientsKnown /\ Renewal
  <1> SUFFICES ASSUME Init PROVE ClientsKnown /\ Renewal
    OBVIOUS
  <1>1. ClientsKnown /\ RefreshesOwned /\ RefreshesAlive /\ StaysConnected
    BY DEF Init, ClientsKnown, RefreshesOwned, RefreshesAlive, StaysConnected
  <1>2. TurnsHoldRefresh
    BY DEF Init, TurnsHoldRefresh
  <1>3. QED BY <1>1, <1>2 DEF Renewal

LEMMA MarkKeepsRest ==
    ASSUME row \in [Users -> Row], NEW u \in Users, NEW status, Mark(u, status)
    PROVE  \A v \in Users :
               /\ row'[v].client = row[v].client /\ row'[v].refresh = row[v].refresh
               /\ row'[v].status = IF v = u THEN status ELSE row[v].status
  <1> TAKE v \in Users
  <1>1. row'[v] = IF v = u THEN [row[v] EXCEPT !.status = status] ELSE row[v]
    BY DEF Mark
  <1>2. QED BY <1>1 DEF Row

\* A client that a row has got is only ever replaced by another one.
LEMMA ClientsFrame ==
    ASSUME IInv, ClientsKnown,
           \A u \in Users : /\ row[u].client # None => row'[u].client # None
                            /\ row'[u].status = "connected" =>
                                    row[u].status = "connected" \/ row'[u].client # None,
           \A s \in Start : \/ start'[s] = start[s]
                            \/ start'[s].pc \in {"registering", "ended"}
                            \/ start'[s].pc = "discovering" /\ start'[s].client = None
                            \/ row'[start'[s].user].client # None,
           \A t \in Turn : \/ turn'[t] = turn[t]
                           \/ turn'[t].pc \in {"assembling", "ready", "gone"}
                           \/ row'[turn'[t].user].client # None
    PROVE  ClientsKnown'
  <1>1. \A s \in Start : start[s].pc # "idle" => start[s].user \in Users
    BY StartKnown DEF IInv, Handlers
  <1>2. \A t \in Turn : turn[t].pc # "idle" => turn[t].user \in Users
    BY TurnKnown DEF IInv, Handlers
  <1>3. QED BY <1>1, <1>2 DEF ClientsKnown

LEMMA BeginClients ==
    ASSUME IInv, ClientsKnown, NEW s \in Start, NEW u \in Users, BeginStart(s, u)
    PROVE  ClientsKnown'
  <1> USE DEF IInv, TypeOK
  <1>1. /\ \A v \in Users : /\ row'[v].client = row[v].client
                            /\ row'[v].status = "connected" => row[v].status = "connected"
        /\ \A r \in Start : r # s => start'[r] = start[r]
        /\ start'[s].pc = "discovering" /\ start'[s].user = u /\ start'[s].client = row[u].client
        /\ turn' = turn
    BY DEF BeginStart, Row, StartRow
  <1>2. QED BY <1>1, ClientsFrame

LEMMA StartClients ==
    ASSUME IInv, ClientsKnown, NEW s \in Start,
           \/ Discover(s) \/ Register(s) \/ StartFails(s) \/ StateExpires(s)
           \/ Callback(s) \/ Denied(s) \/ Exchange(s) \/ ExchangeFails(s)
    PROVE  ClientsKnown'
  <1> USE DEF IInv, TypeOK
  <1> DEFINE u == start[s].user
  <1>1. start[s].pc # "idle"
    BY DEF Discover, Register, StartFails, StateExpires, Callback, Denied, Exchange,
        ExchangeFails, Handlers, SavedAreOffered
  <1>2. u \in Users /\ start[s] \in StartRow /\ row[u] \in Row
    BY <1>1, StartKnown DEF Handlers
  <1>a. turn' = turn
    BY DEF Discover, Register, StartFails, StateExpires, Callback, Denied, Exchange, ExchangeFails
  <1>3. CASE Discover(s)
    <2>1. ASSUME NEW c, c # None, Offer(s, c), row'[u].client # None,
                 \A v \in Users : /\ v # u => row'[v] = row[v]
                                  /\ row'[v].status = row[v].status
          PROVE  ClientsKnown'
      <3>1. /\ start'[s].user = u /\ \A r \in Start : r # s => start'[r] = start[r]
        BY <1>2, <2>1 DEF Offer, StartRow
      <3>2. QED BY <2>1, <3>1, <1>a, ClientsFrame
    <2>2. CASE start[s].client # None
      <3>1. Offer(s, start[s].client) /\ row' = row /\ row[u].client # None
        BY <1>3, <2>2 DEF Discover, ClientsKnown
      <3>2. QED BY <2>1, <2>2, <3>1
    <2>3. CASE start[s].client = None /\ env.preset
      <3>1. Offer(s, Preset) /\ row' = [row EXCEPT ![u].client = Preset]
        BY <1>3, <2>3 DEF Discover
      <3>2. \A v \in Users : /\ v # u => row'[v] = row[v]
                             /\ row'[v].status = row[v].status
        BY <3>1 DEF Row
      <3>3. row'[u].client # None /\ Preset # None
        BY <1>2, <3>1 DEF Row, Preset
      <3>4. QED BY <2>1, <3>1, <3>2, <3>3
    <2>4. CASE start[s].client = None /\ ~env.preset
      <3>1. start' = [start EXCEPT ![s].pc = "registering"] /\ row' = row
        BY <1>3, <2>4 DEF Discover
      <3>2. start'[s].pc = "registering" /\ \A r \in Start : r # s => start'[r] = start[r]
        BY <1>2, <3>1 DEF StartRow
      <3>3. QED BY <3>1, <3>2, <1>a, ClientsFrame
    <2>5. QED BY <2>2, <2>3, <2>4
  <1>4. CASE Register(s)
    <2> DEFINE c == registered[u] + 1
    <2>1. c # None /\ Offer(s, c) /\ row' = [row EXCEPT ![u].client = c]
      BY <1>2, <1>4 DEF Register
    <2>2. /\ start'[s].user = u /\ \A r \in Start : r # s => start'[r] = start[r]
          /\ row'[u].client = c
          /\ \A v \in Users : /\ v # u => row'[v] = row[v]
                              /\ row'[v].status = row[v].status
      BY <1>2, <2>1 DEF Offer, StartRow, Row
    <2>3. QED BY <2>1, <2>2, <1>a, ClientsFrame
  <1>5. CASE StartFails(s) \/ Denied(s) \/ ExchangeFails(s)
    <2>1. row' = row \/ \E v \in Users, status \in {"failed"} : Mark(v, status)
      BY <1>2, <1>5 DEF StartFails, Denied, ExchangeFails
    <2>2. \A v \in Users : /\ row'[v].client = row[v].client
                           /\ row'[v].status = "connected" => row[v].status = "connected"
      BY <1>2, <2>1, MarkKeepsRest
    <2>3. start' = [start EXCEPT ![s].pc = "ended"]
      BY <1>5 DEF StartFails, Denied, ExchangeFails
    <2>4. start'[s].pc = "ended" /\ \A r \in Start : r # s => start'[r] = start[r]
      BY <2>3 DEF StartRow
    <2>5. QED BY <2>2, <2>4, <1>a, ClientsFrame
  <1>6. CASE StateExpires(s)
    BY <1>6 DEF StateExpires, ClientsKnown
  <1>7. CASE Callback(s)
    <2>1. start[s].pc = "offered" /\ row[u].client # None /\ row' = row
      BY <1>7 DEF Callback, Handlers, SavedAreOffered, ClientsKnown
    <2>2. start'[s].user = u /\ \A r \in Start : r # s => start'[r] = start[r]
      BY <1>2, <1>7 DEF Callback, StartRow
    <2>3. QED BY <2>1, <2>2, <1>a, ClientsFrame
  <1>8. CASE Exchange(s)
    <2>1. row[u].client # None
      BY <1>8 DEF Exchange, ClientsKnown
    <2>2. /\ row'[u].client = row[u].client /\ \A v \in Users : v # u => row'[v] = row[v]
      BY <1>2, <1>8 DEF Exchange, SaveTokens, Connect
    <2>3. start'[s].pc = "ended" /\ \A r \in Start : r # s => start'[r] = start[r]
      BY <1>2, <1>8 DEF Exchange, StartRow
    <2>4. QED BY <2>1, <2>2, <2>3, <1>a, ClientsFrame
  <1>9. QED BY <1>3, <1>4, <1>5, <1>6, <1>7, <1>8

LEMMA OtherClients ==
    ASSUME IInv, ClientsKnown,
           \/ \E u \in Users :
                \/ \E t \in Turn : \/ OpenBare(t, u) \/ OpenWithToken(t, u)
                                   \/ OpenUnrenewable(t, u) \/ OpenRefreshing(t, u)
                \/ Disconnect(u) \/ FallsDue(u)
           \/ \E t \in Turn : \/ Grant(t) \/ RefreshFails(t)
                              \/ Assemble(t) \/ AssembleFails(t)
           \/ Restart \/ UNCHANGED vars
    PROVE  ClientsKnown'
  <1> USE DEF IInv, TypeOK
  <1>1. \A u \in Users : /\ row'[u].client = row[u].client
                         /\ row'[u].status = "connected" => row[u].status = "connected"
    <2>1. CASE \E u \in Users, status \in {"expired"} : Mark(u, status)
      BY <2>1, MarkKeepsRest
    <2>2. CASE row' = row
      BY <2>2
    <2>3. ASSUME NEW u \in Users, Disconnect(u) \/ FallsDue(u), NEW v \in Users
          PROVE  /\ row'[v].client = row[v].client
                 /\ row'[v].status = "connected" => row[v].status = "connected"
      <3>1. CASE Disconnect(u)
        BY <3>1 DEF Disconnect
      <3>2. CASE FallsDue(u)
        BY <3>2 DEF FallsDue, Row
      <3>3. QED BY <2>3, <3>1, <3>2
    <2>4. ASSUME NEW t \in Turn, RefreshFails(t)
          PROVE  \E u \in Users, status \in {"expired"} : Mark(u, status)
      <3>1. turn[t].user \in Users
        BY <2>4, TurnKnown DEF RefreshFails, Handlers
      <3>2. QED BY <2>4, <3>1 DEF RefreshFails
    <2>5. ASSUME NEW u \in Users, NEW t \in Turn,
                 \/ OpenBare(t, u) \/ OpenWithToken(t, u)
                 \/ OpenUnrenewable(t, u) \/ OpenRefreshing(t, u)
          PROVE  row' = row \/ Mark(u, "expired")
      BY <2>5 DEF OpenBare, OpenWithToken, OpenUnrenewable, OpenRefreshing
    <2>6. ASSUME NEW t \in Turn, Grant(t) \/ Assemble(t) \/ AssembleFails(t)
          PROVE  row' = row
      BY <2>6 DEF Grant, Assemble, AssembleFails
    <2>7. ASSUME Restart \/ UNCHANGED vars PROVE row' = row
      BY <2>7 DEF Restart, vars
    <2>8. QED BY <2>1, <2>2, <2>3, <2>4, <2>5, <2>6, <2>7
  <1>2. \A s \in Start : start'[s] = start[s] \/ start'[s].pc = "ended"
    <2>1. CASE Restart
      BY <2>1 DEF Restart, StartRow
    <2>2. CASE ~Restart
      BY <2>2 DEF Open, OpenBare, OpenWithToken, OpenUnrenewable, OpenRefreshing, Disconnect,
          FallsDue, Grant, RefreshFails, Assemble, AssembleFails, vars
    <2>3. QED BY <2>1, <2>2
  <1>3. \A t \in Turn : \/ turn'[t] = turn[t]
                        \/ turn'[t].pc \in {"assembling", "ready", "gone"}
                        \/ row[turn'[t].user].client # None /\ turn'[t].user \in Users
    <2>1. ASSUME NEW t \in Turn, NEW u \in Users, NEW pc, NEW refresh, NEW token,
                 Open(t, u, pc, refresh, token),
                 pc \in {"ready", "assembling"} \/ row[u].client # None,
                 NEW r \in Turn
          PROVE  \/ turn'[r] = turn[r]
                 \/ turn'[r].pc \in {"assembling", "ready", "gone"}
                 \/ row[turn'[r].user].client # None /\ turn'[r].user \in Users
      BY <2>1 DEF Open
    <2>2. ASSUME NEW t \in Turn, NEW u \in Users,
                 \/ OpenBare(t, u) \/ OpenWithToken(t, u)
                 \/ OpenUnrenewable(t, u) \/ OpenRefreshing(t, u)
          PROVE  \E pc, refresh, token :
                    /\ Open(t, u, pc, refresh, token)
                    /\ pc \in {"ready", "assembling"} \/ row[u].client # None
      BY <2>2 DEF OpenBare, OpenWithToken, OpenUnrenewable, OpenRefreshing, Renewable
    <2>3. ASSUME NEW t \in Turn, Grant(t), NEW r \in Turn
          PROVE  turn'[r] = turn[r] \/ (row[turn'[r].user].client # None /\ turn'[r].user \in Users)
      <3>1. turn[t].pc = "refreshing" /\ turn[t].user \in Users
        BY <2>3, TurnKnown DEF Grant, Handlers
      <3>2. turn'[t].user = turn[t].user /\ (r # t => turn'[r] = turn[r])
        BY <2>3, <3>1 DEF Grant, TurnRow
      <3>3. QED BY <3>1, <3>2 DEF ClientsKnown
    <2>4. ASSUME NEW t \in Turn, RefreshFails(t) \/ Assemble(t) \/ AssembleFails(t), NEW r \in Turn
          PROVE  turn'[r] = turn[r] \/ turn'[r].pc = "ready"
      <3>1. \/ \E token : turn' = [turn EXCEPT ![t] = [@ EXCEPT !.pc = "ready", !.token = token]]
            \/ \E agent : turn' = [turn EXCEPT ![t] = [@ EXCEPT !.pc = "ready", !.agent = agent]]
            \/ turn' = [turn EXCEPT ![t].pc = "ready"]
        BY <2>4 DEF RefreshFails, Assemble, AssembleFails
      <3>2. QED BY <3>1 DEF TurnRow
    <2>5. CASE Restart
      BY <2>5 DEF Restart, TurnRow
    <2>6. ASSUME (\E u \in Users : Disconnect(u) \/ FallsDue(u)) \/ UNCHANGED vars
          PROVE  turn' = turn
      BY <2>6 DEF Disconnect, FallsDue, vars
    <2>7. QED BY <2>1, <2>2, <2>3, <2>4, <2>5, <2>6
  <1>4. QED BY <1>1, <1>2, <1>3, ClientsFrame

LEMMA RefreshedClients ==
    ASSUME IInv, ClientsKnown, NEW t \in Turn, Refreshed(t)
    PROVE  ClientsKnown'
  <1> USE DEF IInv, TypeOK
  <1> DEFINE u == turn[t].user
  <1>1. u \in Users /\ row[u].client # None /\ start' = start
    BY TurnKnown DEF Refreshed, Handlers, ClientsKnown
  <1>2. row'[u].client = row[u].client /\ \A v \in Users : v # u => row'[v] = row[v]
    BY <1>1 DEF Refreshed, SaveTokens, Connect
  <1>3. turn'[t].pc = "assembling" /\ \A x \in Turn : x # t => turn'[x] = turn[x]
    BY DEF Refreshed, TurnRow
  <1>4. QED BY <1>1, <1>2, <1>3, ClientsFrame

\* What leaves the refresh tokens where they are.
LEMMA RenewalFrame ==
    ASSUME IInv, Renewal, UNCHANGED <<issued, owner, alive, env>>,
           \A u \in Users : /\ row'[u].refresh = row[u].refresh
                            /\ row'[u].status \in {"connected", "expired"} =>
                                    row'[u].status = row[u].status,
           \A t \in Turn : /\ turn[t].pc = "granted" => turn'[t] = turn[t]
                           /\ turn'[t].pc \in {"refreshing", "granted"} => turn'[t] = turn[t]
    PROVE  Renewal'
  <1>1. \A t \in Turn : turn[t].pc # "idle" => turn[t].user \in Users
    BY TurnKnown DEF IInv, Handlers
  <1>2. RefreshesOwned' /\ StaysConnected'
    BY DEF Renewal, RefreshesOwned, StaysConnected, Quietly
  <1>3. TurnsHoldRefresh'
    BY <1>1 DEF Renewal, TurnsHoldRefresh, Quietly
  <1>4. RefreshesAlive'
    BY DEF Renewal, RefreshesAlive, Replacing, Quietly
  <1>5. QED BY <1>2, <1>3, <1>4 DEF Renewal

\* Where requests overlap or fail, nothing is promised.
LEMMA NotQuiet ==
    ASSUME env' = env, ~Quietly
    PROVE  Renewal'
  BY DEF Renewal, RefreshesOwned, TurnsHoldRefresh, RefreshesAlive, StaysConnected, Quietly

LEMMA StartRenewal ==
    ASSUME IInv, Renewal, NEW s \in Start,
           \/ \E u \in Users : BeginStart(s, u)
           \/ Discover(s) \/ Register(s) \/ StartFails(s) \/ StateExpires(s)
           \/ Callback(s) \/ Denied(s) \/ ExchangeFails(s)
    PROVE  Renewal'
  <1> USE DEF IInv, TypeOK
  <1>1. UNCHANGED <<issued, owner, alive, turn, env>>
    BY DEF BeginStart, Discover, Register, StartFails, StateExpires, Callback, Denied,
        ExchangeFails, server
  <1>2. \A u \in Users : /\ row'[u].refresh = row[u].refresh
                         /\ row'[u].status \in {"connected", "expired"} =>
                                row'[u].status = row[u].status
    <2>1. CASE \E u \in Users, status \in {"failed"} : Mark(u, status)
      BY <2>1, MarkKeepsRest
    <2>2. CASE row' = row
      BY <2>2
    <2>3. ASSUME NEW u \in Users, BeginStart(s, u), NEW v \in Users
          PROVE  /\ row'[v].refresh = row[v].refresh
                 /\ row'[v].status \in {"connected", "expired"} => row'[v].status = row[v].status
      BY <2>3 DEF BeginStart, Row
    <2>4. ASSUME Discover(s) \/ Register(s), NEW v \in Users
          PROVE  row'[v].refresh = row[v].refresh /\ row'[v].status = row[v].status
      <3>1. row' = row \/ \E u, c : row' = [row EXCEPT ![u].client = c]
        BY <2>4 DEF Discover, Register
      <3>2. row'[v] = row[v] \/ \E c : row'[v] = [row[v] EXCEPT !.client = c]
        BY <3>1
      <3>3. row[v] \in Row
        OBVIOUS
      <3>4. QED BY <3>2, <3>3 DEF Row
    <2>5. ASSUME StartFails(s) \/ Denied(s) \/ ExchangeFails(s)
          PROVE  row' = row \/ \E u \in Users, status \in {"failed"} : Mark(u, status)
      <3>1. start[s].user \in Users
        BY <2>5, StartKnown DEF StartFails, Denied, ExchangeFails, Handlers, SavedAreOffered
      <3>2. QED BY <2>5, <3>1 DEF StartFails, Denied, ExchangeFails
    <2>6. ASSUME StateExpires(s) \/ Callback(s) PROVE row' = row
      BY <2>6 DEF StateExpires, Callback
    <2>7. QED BY <2>1, <2>2, <2>3, <2>4, <2>5, <2>6
  <1> HIDE DEF IInv, TypeOK
  <1>3. QED BY <1>1, <1>2, RenewalFrame

\* The tokens that a sole request of u brings are its own; those of others stay alive.
LEMMA ExchangeRenewal ==
    ASSUME IInv, OneAtATime, Renewal, NEW s \in Start, Exchange(s)
    PROVE  Renewal'
  <1> USE DEF IInv, TypeOK
  <1> DEFINE u == start[s].user
  <1>1. /\ u \in Users /\ issued' = issued + 1 /\ UNCHANGED <<turn, env>>
        /\ \A k \in 1 .. issued : owner'[k] = owner[k]
        /\ owner'[issued'] = u /\ issued' # None /\ issued \in Nat
    <2>1. u \in Users
      BY StartKnown DEF Exchange, Handlers
    <2>2. QED BY <2>1, BoundsAssumption DEF Exchange, Issue
  <1>2. CASE ~Quietly
    BY <1>1, <1>2, NotQuiet
  <1>3. CASE Quietly
    <2>1. /\ alive' = alive \cup {issued'}
          /\ row'[u].refresh = issued' /\ row'[u].status = "connected"
          /\ \A v \in Users : v # u => row'[v] = row[v]
      BY <1>1, <1>3 DEF Exchange, SaveTokens, Connect, Quietly
    <2>2. \A t \in Turn : turn[t].pc \in {"refreshing", "granted"} =>
                              turn[t].user # u /\ turn[t].user \in Users
      BY <1>3, TurnKnown DEF OneAtATime, Quietly, Starting, Opening, Exchange, Handlers
    <2>3. RefreshesOwned'
      BY <1>1, <2>1 DEF Renewal, RefreshesOwned, Quietly
    <2>4. TurnsHoldRefresh'
      BY <1>1, <2>1, <2>2 DEF Renewal, TurnsHoldRefresh, Quietly
    <2>5. RefreshesAlive'
      BY <1>1, <2>1 DEF Renewal, RefreshesAlive, Replacing, Quietly
    <2>6. StaysConnected'
      <3>1. issued' < MaxTokens => issued < MaxTokens
        BY <1>1, BoundsAssumption
      <3>2. QED BY <1>1, <2>1, <3>1 DEF Renewal, StaysConnected
    <2>7. QED BY <2>3, <2>4, <2>5, <2>6 DEF Renewal
  <1>4. QED BY <1>2, <1>3

LEMMA UserRenewal ==
    ASSUME IInv, Renewal, NEW u \in Users, Disconnect(u) \/ FallsDue(u)
    PROVE  Renewal'
  <1> USE DEF IInv, TypeOK
  <1>1. UNCHANGED <<issued, owner, alive, turn, env>>
    BY DEF Disconnect, FallsDue, server
  <1>2. CASE FallsDue(u)
    BY <1>1, <1>2, RenewalFrame DEF FallsDue, Row
  <1>3. CASE Disconnect(u) /\ Quietly
    <2>1. /\ row'[u].refresh = None /\ row'[u].status = "revoked"
          /\ \A v \in Users : v # u => row'[v] = row[v]
      BY <1>3 DEF Disconnect
    <2>2. \A t \in Turn : turn[t].pc \in {"refreshing", "granted"} =>
                              turn[t].user # u /\ turn[t].user \in Users
      BY <1>3, TurnKnown DEF Quietly, Disconnect, Free, Opening, Handlers
    <2>3. RefreshesOwned'
      <3> HIDE DEF IInv, TypeOK
      <3>1. SUFFICES ASSUME NEW v \in Users
                     PROVE  /\ row'[v].status = "connected" => row'[v].refresh # None
                            /\ row'[v].refresh # None =>
                                 row'[v].refresh \in 1 .. issued /\ owner[row'[v].refresh] = v
        BY <1>1 DEF RefreshesOwned
      <3>2. CASE v = u
        BY <2>1, <3>2
      <3>3. CASE v # u
        BY <1>3, <2>1, <3>3 DEF Renewal, RefreshesOwned
      <3>4. QED BY <3>2, <3>3
    <2>4. TurnsHoldRefresh'
      BY <1>1, <2>1, <2>2 DEF Renewal, TurnsHoldRefresh, Quietly
    <2>5. RefreshesAlive'
      BY <1>1, <2>1 DEF Renewal, RefreshesAlive, Replacing, Quietly
    <2>6. StaysConnected'
      BY <1>1, <2>1 DEF Renewal, StaysConnected
    <2>7. QED BY <2>3, <2>4, <2>5, <2>6 DEF Renewal
  <1>4. QED BY <1>1, <1>2, <1>3, NotQuiet

LEMMA OpenRenewal ==
    ASSUME IInv, ClientsKnown, Renewal, NEW t \in Turn, NEW u \in Users,
           \/ OpenBare(t, u) \/ OpenWithToken(t, u)
           \/ OpenUnrenewable(t, u) \/ OpenRefreshing(t, u)
    PROVE  Renewal'
  <1> USE DEF IInv, TypeOK
  <1>1. PICK pc, refresh, token :
            /\ Open(t, u, pc, refresh, token)
            /\ pc \in {"refreshing", "assembling", "ready"}
            /\ pc = "refreshing" => refresh = row[u].refresh /\ refresh # None
    BY DEF OpenBare, OpenWithToken, OpenUnrenewable, OpenRefreshing, Renewable
  <1>2. /\ turn[t].pc = "idle" /\ UNCHANGED <<issued, owner, alive, env>>
        /\ turn'[t] = [pc |-> pc, user |-> u, refresh |-> refresh, token |-> token, agent |-> None]
        /\ \A r \in Turn : r # t => turn'[r] = turn[r]
    BY <1>1 DEF Open, server
  <1>3. Quietly => row' = row
    <2>1. CASE OpenUnrenewable(t, u) /\ Quietly
      BY <2>1 DEF OpenUnrenewable, Usable, Renewable, Renewal, RefreshesOwned, ClientsKnown
    <2>2. CASE ~OpenUnrenewable(t, u)
      BY <2>2 DEF OpenBare, OpenWithToken, OpenRefreshing
    <2>3. QED BY <2>1, <2>2
  <1>4. CASE Quietly
    <2>1. RefreshesOwned' /\ StaysConnected'
      BY <1>2, <1>3, <1>4 DEF Renewal, RefreshesOwned, StaysConnected, Quietly
    <2>2. TurnsHoldRefresh'
      BY <1>1, <1>2, <1>3, <1>4 DEF Renewal, TurnsHoldRefresh, Quietly
    <2>3. RefreshesAlive'
      BY <1>2, <1>3, <1>4 DEF Renewal, RefreshesAlive, Replacing, Quietly
    <2>4. QED BY <2>1, <2>2, <2>3 DEF Renewal
  <1>5. QED BY <1>2, <1>4, NotQuiet

\* The server replaces the refresh token of one user, and of no other.
LEMMA GrantRenewal ==
    ASSUME IInv, OneAtATime, Renewal, NEW t \in Turn, Grant(t)
    PROVE  Renewal'
  <1> USE DEF IInv, TypeOK
  <1> DEFINE u == turn[t].user
             r == turn[t].refresh
  <1>1. /\ u \in Users /\ issued' = issued + 1 /\ UNCHANGED <<row, env>>
        /\ \A k \in 1 .. issued : owner'[k] = owner[k]
        /\ owner'[issued'] = u /\ issued' \notin 1 .. issued
        /\ alive' = IF env.rotates THEN (alive \ {r}) \cup {issued'} ELSE alive
        /\ issued \in Nat /\ alive \subseteq 1 .. issued
    <2>1. u \in Users
      BY TurnKnown DEF Grant, Handlers
    <2>2. QED BY <2>1, BoundsAssumption DEF Grant, Issue
  <1>2. /\ turn[t].pc = "refreshing"
        /\ turn'[t].pc = "granted" /\ turn'[t].token = issued'
        /\ turn'[t].user = u /\ turn'[t].refresh = r
        /\ \A x \in Turn : x # t => turn'[x] = turn[x]
    BY DEF Grant, TurnRow
  <1>3. CASE Quietly
    <2>1. r # None /\ r = row[u].refresh /\ r \in 1 .. issued /\ owner[r] = u
      BY <1>1, <1>2, <1>3 DEF Renewal, TurnsHoldRefresh, RefreshesOwned
    <2>2. RefreshesOwned' /\ StaysConnected'
      <3>1. /\ issued' < MaxTokens => issued < MaxTokens
            /\ \A k \in 1 .. issued : k \in 1 .. issued'
        BY <1>1, BoundsAssumption
      <3>2. RefreshesOwned'
        BY <1>1, <3>1 DEF Renewal, RefreshesOwned, Quietly
      <3>3. QED BY <1>1, <3>1, <3>2 DEF Renewal, StaysConnected
    <2>3. \A x \in Turn : turn[x].pc = "granted" /\ env.rotates =>
              turn[x].token \in alive /\ owner[turn[x].token] = turn[x].user
      BY <1>3 DEF Renewal, TurnsHoldRefresh
    <2>4. TurnsHoldRefresh'
      <3> SUFFICES ASSUME NEW x \in Turn, turn'[x].pc \in {"refreshing", "granted"}
                   PROVE  /\ turn'[x].refresh # None
                          /\ turn'[x].refresh = row[turn'[x].user].refresh
                          /\ turn'[x].pc = "granted" /\ env.rotates =>
                                /\ turn'[x].token \in alive'
                                /\ owner'[turn'[x].token] = turn'[x].user
        BY <1>1 DEF TurnsHoldRefresh
      <3>1. CASE x = t
        BY <1>1, <1>2, <2>1, <3>1
      <3>2. CASE x # t
        <4>1. turn'[x] = turn[x] /\ turn[x].user # u
          BY <1>2, <1>3, <3>2 DEF OneAtATime, Quietly, Opening
        <4>2. turn[x].refresh # None /\ turn[x].refresh = row[turn[x].user].refresh
          BY <1>3, <4>1 DEF Renewal, TurnsHoldRefresh
        <4>3. ASSUME turn[x].pc = "granted", env.rotates
              PROVE  /\ turn[x].token \in alive'
                     /\ owner'[turn[x].token] = turn[x].user
          <5>1. turn[x].token \in alive /\ owner[turn[x].token] = turn[x].user
            BY <2>3, <4>3
          <5>2. turn[x].token # r
            BY <2>1, <4>1, <5>1
          <5>3. QED BY <1>1, <5>1, <5>2
        <4>4. QED BY <4>1, <4>2, <4>3
      <3>3. QED BY <3>1, <3>2
    <2>5. RefreshesAlive'
      <3> SUFFICES ASSUME NEW v \in Users, row[v].refresh # None
                   PROVE  row[v].refresh \in alive' \/ Replacing(v)'
        BY <1>1 DEF RefreshesAlive
      <3>1. Replacing(v) => Replacing(v)'
        BY <1>1, <1>2 DEF Replacing
      <3>2. CASE v = u /\ env.rotates
        BY <1>1, <1>2, <3>2 DEF Replacing
      <3>3. CASE v # u /\ env.rotates
        <4>1. row[v].refresh # r
          BY <1>3, <2>1, <3>3 DEF Renewal, RefreshesOwned
        <4>2. QED BY <1>1, <1>3, <3>1, <3>3, <4>1 DEF Renewal, RefreshesAlive
      <3>4. CASE ~env.rotates
        BY <1>1, <1>3, <3>1, <3>4 DEF Renewal, RefreshesAlive
      <3>5. QED BY <3>2, <3>3, <3>4
    <2>6. QED BY <2>2, <2>4, <2>5 DEF Renewal
  <1>4. QED BY <1>1, <1>3, NotQuiet

LEMMA RefreshedRenewal ==
    ASSUME IInv, OneAtATime, Renewal, NEW t \in Turn, Refreshed(t)
    PROVE  Renewal'
  <1> USE DEF IInv, TypeOK
  <1> DEFINE u == turn[t].user
  <1>1. /\ u \in Users /\ turn[t].pc = "granted" /\ turn[t].token \in Token
        /\ UNCHANGED <<issued, owner, alive, env>>
    BY TurnKnown DEF Refreshed, Handlers, TurnsHaveTokens, server
  <1>2. /\ row'[u].refresh = IF env.rotates THEN turn[t].token ELSE row[u].refresh
        /\ row'[u].status = "connected"
        /\ \A v \in Users : v # u => row'[v] = row[v]
    BY <1>1, BoundsAssumption DEF Refreshed, SaveTokens, Connect
  <1>3. turn'[t].pc = "assembling" /\ \A x \in Turn : x # t => turn'[x] = turn[x]
    BY <1>1 DEF Refreshed, TurnRow
  <1>4. CASE Quietly
    <2>1. \A x \in Turn : x # t /\ turn[x].pc \in {"refreshing", "granted"} =>
                              turn[x].user # u /\ turn[x].user \in Users
      BY <1>1, <1>4, TurnKnown DEF OneAtATime, Quietly, Opening, Handlers
    <2>2. /\ turn[t].refresh # None /\ turn[t].refresh = row[u].refresh
          /\ env.rotates => turn[t].token \in alive /\ owner[turn[t].token] = u
      BY <1>1, <1>4 DEF Renewal, TurnsHoldRefresh
    <2>3. RefreshesOwned'
      <3>1. env.rotates => turn[t].token \in 1 .. issued
        BY <2>2
      <3>2. QED BY <1>1, <1>2, <1>4, <2>2, <3>1, BoundsAssumption DEF Renewal, RefreshesOwned, Quietly
    <2>4. TurnsHoldRefresh'
      <3> SUFFICES ASSUME NEW x \in Turn, turn'[x].pc \in {"refreshing", "granted"}
                   PROVE  /\ turn'[x].refresh # None
                          /\ turn'[x].refresh = row'[turn'[x].user].refresh
                          /\ turn'[x].pc = "granted" /\ env.rotates =>
                                /\ turn'[x].token \in alive
                                /\ owner[turn'[x].token] = turn'[x].user
        BY <1>1 DEF TurnsHoldRefresh
      <3>1. x # t /\ turn'[x] = turn[x]
        BY <1>3
      <3>2. row'[turn[x].user] = row[turn[x].user]
        BY <1>2, <2>1, <3>1
      <3>3. QED BY <1>4, <3>1, <3>2 DEF Renewal, TurnsHoldRefresh
    <2>5. RefreshesAlive'
      <3> SUFFICES ASSUME NEW v \in Users, row'[v].refresh # None
                   PROVE  row'[v].refresh \in alive \/ Replacing(v)'
        BY <1>1 DEF RefreshesAlive
      <3>1. CASE v = u
        BY <1>2, <1>4, <2>2, <3>1 DEF Renewal, RefreshesAlive, Replacing
      <3>2. CASE v # u
        <4>1. Replacing(v) => Replacing(v)'
          BY <1>1, <1>3, <3>2 DEF Replacing
        <4>2. QED BY <1>2, <1>4, <3>2, <4>1 DEF Renewal, RefreshesAlive
      <3>3. QED BY <3>1, <3>2
    <2>6. StaysConnected'
      BY <1>1, <1>2 DEF Renewal, StaysConnected
    <2>7. QED BY <2>3, <2>4, <2>5, <2>6 DEF Renewal
  <1>5. QED BY <1>1, <1>4, NotQuiet

\* Refused is only a refresh token that the server does not accept: it does.
LEMMA RefreshFailsRenewal ==
    ASSUME IInv, OneAtATime, Renewal, NEW t \in Turn, RefreshFails(t)
    PROVE  Renewal'
  <1> USE DEF IInv, TypeOK
  <1> DEFINE u == turn[t].user
  <1>1. u \in Users /\ UNCHANGED <<issued, owner, alive, env>>
    BY TurnKnown DEF RefreshFails, Handlers, server
  <1>2. CASE Quietly
    <2>1. turn[t].pc = "refreshing" /\ (turn[t].refresh \notin alive \/ issued = MaxTokens)
      BY <1>2 DEF RefreshFails, Quietly
    <2>2. ~Replacing(u)
      BY <1>2, <2>1 DEF Replacing, OneAtATime, Opening, Quietly
    <2>3. issued = MaxTokens
      BY <1>1, <1>2, <2>1, <2>2 DEF Renewal, TurnsHoldRefresh, RefreshesAlive
    <2>4. \A v \in Users : /\ row'[v].refresh = row[v].refresh
                           /\ row'[v].status = "connected" => row[v].status = "connected"
      <3>1. \E v \in Users, status \in {"expired"} : Mark(v, status)
        BY <1>1 DEF RefreshFails
      <3>2. QED BY <3>1, MarkKeepsRest
    <2>5. turn'[t].pc = "ready" /\ \A x \in Turn : x # t => turn'[x] = turn[x]
      BY <2>1 DEF RefreshFails, TurnRow
    <2>6. \A x \in Turn : turn[x].pc # "idle" => turn[x].user \in Users
      BY TurnKnown DEF Handlers
    <2>7. RefreshesOwned' /\ StaysConnected'
      BY <1>1, <2>3, <2>4, BoundsAssumption DEF Renewal, RefreshesOwned, StaysConnected, Quietly
    <2>8. TurnsHoldRefresh'
      BY <1>1, <2>4, <2>5, <2>6 DEF Renewal, TurnsHoldRefresh, Quietly
    <2>9. RefreshesAlive'
      BY <1>1, <2>1, <2>4, <2>5 DEF Renewal, RefreshesAlive, Replacing, Quietly
    <2>10. QED BY <2>7, <2>8, <2>9 DEF Renewal
  <1>3. QED BY <1>1, <1>2, NotQuiet

LEMMA RestRenewal ==
    ASSUME IInv, Renewal,
           (\E t \in Turn : Assemble(t) \/ AssembleFails(t)) \/ Restart \/ UNCHANGED vars
    PROVE  Renewal'
  <1> USE DEF IInv, TypeOK
  <1>1. CASE Restart \/ \E t \in Turn : AssembleFails(t)
    BY <1>1, NotQuiet DEF Restart, AssembleFails, Quietly
  <1>2. CASE UNCHANGED vars
    BY <1>2, RenewalFrame DEF vars, server
  <1>3. ASSUME NEW t \in Turn, Assemble(t) PROVE Renewal'
    <2>1. PICK agent : turn' = [turn EXCEPT ![t] = [@ EXCEPT !.pc = "ready", !.agent = agent]]
      BY <1>3 DEF Assemble
    <2>2. turn'[t].pc = "ready" /\ \A x \in Turn : x # t => turn'[x] = turn[x]
      BY <2>1 DEF TurnRow
    <2>3. turn[t].pc = "assembling" /\ UNCHANGED <<row, issued, owner, alive, env>>
      BY <1>3 DEF Assemble, server
    <2>4. QED BY <2>2, <2>3, RenewalFrame
  <1>4. QED BY <1>1, <1>2, <1>3

LEMMA RenewalInductive == RInv /\ [Next]_vars => RInv'
  <1> SUFFICES ASSUME RInv, [Next]_vars PROVE RInv'
    OBVIOUS
  <1>1. IInv /\ OneAtATime /\ ClientsKnown /\ Renewal /\ IInv' /\ OneAtATime'
    BY Inductive, OneKept DEF RInv
  <1>2. ASSUME NEW s \in Start,
               \/ \E u \in Users : BeginStart(s, u)
               \/ Discover(s) \/ Register(s) \/ StartFails(s) \/ StateExpires(s)
               \/ Callback(s) \/ Denied(s) \/ Exchange(s) \/ ExchangeFails(s)
        PROVE  ClientsKnown' /\ Renewal'
    <2>1. ClientsKnown'
      BY <1>1, <1>2, BeginClients, StartClients
    <2>2. Renewal'
      BY <1>1, <1>2, StartRenewal, ExchangeRenewal
    <2>3. QED BY <2>1, <2>2
  <1>3. ASSUME \/ \E u \in Users :
                    \/ \E t \in Turn : \/ OpenBare(t, u) \/ OpenWithToken(t, u)
                                       \/ OpenUnrenewable(t, u) \/ OpenRefreshing(t, u)
                    \/ Disconnect(u) \/ FallsDue(u)
               \/ \E t \in Turn : \/ Grant(t) \/ RefreshFails(t)
                                  \/ Assemble(t) \/ AssembleFails(t)
               \/ Restart \/ UNCHANGED vars
        PROVE  ClientsKnown' /\ Renewal'
    <2>1. ClientsKnown'
      BY <1>1, <1>3, OtherClients
    <2>2. Renewal'
      BY <1>1, <1>3, OpenRenewal, UserRenewal, GrantRenewal, RefreshFailsRenewal, RestRenewal
    <2>3. QED BY <2>1, <2>2
  <1>4. ASSUME NEW t \in Turn, Refreshed(t)
        PROVE  ClientsKnown' /\ Renewal'
    BY <1>1, <1>4, RefreshedClients, RefreshedRenewal
  <1>5. QED BY <1>1, <1>2, <1>3, <1>4 DEF RInv, Next

\* Where the requests of a user come one after another, nothing fails and the server gives
\* refresh tokens, no connection is ever lost to expiry, whatever the other users do and
\* however often tokens are refreshed, replaced, or the connector is authorised anew
\* (list_user_active_connections, save_tokens).
THEOREM ConnectionsLast == Spec => []StaysConnected
  <1>1. Init => RInv
    BY InitInv, InitCurrent, InitRenewal DEF RInv, CInv
  <1>2. RInv => StaysConnected
    BY DEF RInv, Renewal
  <1>3. QED BY <1>1, <1>2, RenewalInductive, PTL DEF Spec
===============================================================================
