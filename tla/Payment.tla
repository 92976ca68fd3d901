------------------------------- MODULE Payment -------------------------------
(***************************************************************************)
(* Orders, Alipay's notifications and the chat quota (app/payment, the     *)
(* endpoints of api/alipay_payment.py, the quota check of api/chat.py),    *)
(* with the page that polls for the result of a payment.                   *)
(*                                                                         *)
(* The endpoints run in one asyncio process and call SQLite synchronously, *)
(* so each of them is one action.  Alipay is external: it repeats a notice *)
(* until it is answered "success", in any order, and may give up.          *)
(***************************************************************************)
EXTENDS Naturals, FiniteSets, FiniteSetsExt

CONSTANTS
    Users, Orders, Packages,
    Price, Quota,       \* per package; Price holds the amounts as Alipay sends them
    DAILY_FREE_LIMIT,   \* free chats per day
    MAX_ATTEMPTS,       \* how often the page asks before it stops waiting
    MaxDay, MaxRuns,    \* bounds: the days of a run, the pollings the page starts
    Environments        \* the surroundings to examine; a behaviour runs in one of them

Day == 1 .. MaxDay
Run == 1 .. MaxRuns
NoOrder == "no order"

ASSUME NoOrderIsNone == NoOrder \notin Orders
ASSUME PricesAssumption ==
    /\ Quota \in [Packages -> Nat]
    /\ DOMAIN Price = Packages
ASSUME LimitsAssumption ==
    /\ DAILY_FREE_LIMIT \in Nat /\ MAX_ATTEMPTS \in Nat \ {0}
    /\ MaxDay \in Nat \ {0} /\ MaxRuns \in Nat
\* users, packages: who orders what; chats: do the users chat; page: is a result page opened; strays: do notices arrive
\* that are not about a trade of this shop; deaf: may Alipay give up repeating.
ASSUME SurroundingsAssumption ==
    Environments \subseteq [users: SUBSET Users, packages: SUBSET Packages,
                            chats: BOOLEAN, page: BOOLEAN, strays: BOOLEAN, deaf: BOOLEAN]

VARIABLES
    orders,     \* the rows of payment_orders
    quota,      \* the rows of user_quota; a missing row reads as zeros
    today,      \* the date in UTC
    reply,      \* per user: what became of the last chat request
    used,       \* history: chats per user that were paid from the bought quota
    bill,       \* external: how Alipay sees the trade of an order
    notices,    \* external: the notices Alipay wants answered with "success"
    page,       \* the result page: its order, the current polling, what it shows
    poll,       \* per polling that was started: its query and its attempts
    env         \* the surroundings of this behaviour; never changes

shop   == <<orders, quota, today, reply, used>>
alipay == <<bill, notices>>
tab    == <<page, poll>>
vars   == <<shop, alipay, tab, env>>

NoRow == [status |-> "none"]
Order == {NoRow} \cup [status: {"PENDING", "PAID"}, user: Users, package: Packages]
Row == [remain: Nat, freeDate: Day \cup {0}, freeUsed: Nat]
Notice == [order: Orders, event: {"TRADE_SUCCESS", "TRADE_FINISHED", "TRADE_CLOSED"},
           ours: BOOLEAN,      \* does it carry the app_id of this shop
           amount: {Price[p] : p \in Packages}]
Page == [order: Orders \cup {NoOrder}, run: Run \cup {0},
         status: {"loading", "paid", "failed", "pending"}, timer: BOOLEAN]
NoPoll == [order |-> NoOrder, attempts |-> 0, query |-> "none"]
Poll == {NoPoll} \cup [order: Orders, attempts: Nat,
                      query: {"none", "asked", "error", "PENDING", "PAID"}]

Init ==
    /\ orders = [o \in Orders |-> NoRow]
    /\ quota = [u \in Users |-> [remain |-> 0, freeDate |-> 0, freeUsed |-> 0]]
    /\ today = 1
    /\ reply = [u \in Users |-> "none"]
    /\ used = [u \in Users |-> 0]
    /\ bill = [o \in Orders |-> "none"]
    /\ notices = {}
    /\ page = [order |-> NoOrder, run |-> 0, status |-> "loading", timer |-> FALSE]
    /\ poll = [r \in Run |-> NoPoll]
    /\ env \in Environments

Exists(o) == orders[o].status # "none"

-----------------------------------------------------------------------------
(* Orders, and what Alipay makes of them. *)

CreateOrder(o, u, p) ==
    /\ u \in env.users /\ p \in env.packages
    /\ ~Exists(o)
    /\ orders' = [orders EXCEPT ![o] = [status |-> "PENDING", user |-> u, package |-> p]]
    /\ bill' = [bill EXCEPT ![o] = "unpaid"]
    /\ UNCHANGED <<quota, today, reply, used, notices, tab, env>>

About(o, event) ==
    [order |-> o, event |-> event, ours |-> TRUE, amount |-> Price[orders[o].package]]

Trade(o, from, to, event) ==
    /\ bill[o] = from
    /\ bill' = [bill EXCEPT ![o] = to]
    /\ notices' = notices \cup {About(o, event)}
    /\ UNCHANGED <<shop, tab, env>>

Pay(o)     == Trade(o, "unpaid", "paid", "TRADE_SUCCESS")
Finish(o)  == Trade(o, "paid", "finished", "TRADE_FINISHED")
TimeOut(o) == Trade(o, "unpaid", "closed", "TRADE_CLOSED")
Refund(o)  == Trade(o, "paid", "refunded", "TRADE_CLOSED")

\* A notice about another application, or with another amount.
Stray(n) ==
    /\ env.strays
    /\ Exists(n.order)
    /\ n.ours => n.amount # Price[orders[n.order].package]
    /\ \A other \in notices : other.order # n.order
    /\ notices' = notices \cup {n}
    /\ UNCHANGED <<shop, bill, tab, env>>

GiveUp(n) ==
    /\ env.deaf
    /\ n \in notices
    /\ notices' = notices \ {n}
    /\ UNCHANGED <<shop, bill, tab, env>>

(***************************************************************************)
(* handle_notify.                                                          *)
(***************************************************************************)
\* Mutant: only the final notice of a successful trade is taken for one.
TradeIsGoodFinal(n) == n.event = "TRADE_FINISHED"

TradeIsGood(n) == n.event \in {"TRADE_SUCCESS", "TRADE_FINISHED"}

\* Mutant: the amount is not compared.
SettlesAnyAmount(n) == n.ours /\ TradeIsGood(n) /\ Exists(n.order)

Settles(n) ==
    /\ n.ours
    /\ TradeIsGood(n)
    /\ Exists(n.order)
    /\ n.amount = Price[orders[n.order].package]

\* The answer "success": settled now or before, or nothing that concerns the shop.
Accepts(n) == n.ours /\ (TradeIsGood(n) => Settles(n))

\* Mutant: the quota is granted whether or not the update of the order changed a row.
GrantAlways(o) ==
    LET u == orders[o].user IN
    /\ orders' = [orders EXCEPT ![o].status = "PAID"]
    /\ quota' = [quota EXCEPT ![u].remain = @ + Quota[orders[o].package]]

MarkPaidAndGrant(o) ==
    LET u == orders[o].user IN
    IF orders[o].status = "PENDING"
    THEN /\ orders' = [orders EXCEPT ![o].status = "PAID"]
         /\ quota' = [quota EXCEPT ![u].remain = @ + Quota[orders[o].package]]
    ELSE UNCHANGED <<orders, quota>>

\* The answer may be lost, so that Alipay repeats the notice.
Notify(n) ==
    /\ n \in notices
    /\ IF Settles(n) THEN MarkPaidAndGrant(n.order) ELSE UNCHANGED <<orders, quota>>
    /\ notices' \in {notices} \cup (IF Accepts(n) THEN {notices \ {n}} ELSE {})
    /\ UNCHANGED <<today, reply, used, bill, tab, env>>

(***************************************************************************)
(* consume_quota: one chat, first from today's free ones.                  *)
(***************************************************************************)
\* Mutant: the counter of an earlier day is carried on.
FreeUsedEver(u) == quota[u].freeUsed

FreeUsed(u) == IF quota[u].freeDate = today THEN quota[u].freeUsed ELSE 0

Answer(u, answer) == reply' = [reply EXCEPT ![u] = answer]

ConsumeFree(u) ==
    /\ env.chats
    /\ FreeUsed(u) < DAILY_FREE_LIMIT
    /\ quota' = [quota EXCEPT ![u].freeUsed = FreeUsed(u) + 1, ![u].freeDate = today]
    /\ Answer(u, "served")
    /\ UNCHANGED <<orders, today, used, alipay, tab, env>>

\* Mutant: the bought quota is not checked.
ConsumeBoughtUnchecked(u) ==
    /\ env.chats /\ FreeUsed(u) >= DAILY_FREE_LIMIT
    /\ quota' = [quota EXCEPT ![u].remain = @ - 1]
    /\ used' = [used EXCEPT ![u] = @ + 1]
    /\ Answer(u, "served")
    /\ UNCHANGED <<orders, today, alipay, tab, env>>

ConsumeBought(u) ==
    /\ env.chats
    /\ FreeUsed(u) >= DAILY_FREE_LIMIT
    /\ quota[u].remain > 0
    /\ quota' = [quota EXCEPT ![u].remain = @ - 1]
    /\ used' = [used EXCEPT ![u] = @ + 1]
    /\ Answer(u, "served")
    /\ UNCHANGED <<orders, today, alipay, tab, env>>

Exhausted(u) ==
    /\ env.chats
    /\ FreeUsed(u) >= DAILY_FREE_LIMIT /\ quota[u].remain = 0
    /\ Answer(u, "refused")
    /\ UNCHANGED <<orders, quota, today, used, alipay, tab, env>>

\* Where nobody chats the date does not matter, and stays.
NextDay ==
    /\ env.chats
    /\ today < MaxDay
    /\ today' = today + 1
    /\ UNCHANGED <<orders, quota, reply, used, alipay, tab, env>>

(***************************************************************************)
(* The result page (subscribe-result-page.tsx).  Each polling is a closure *)
(* with its own order and attempts; only the newest one may touch the page.*)
(***************************************************************************)
\* startPolling: on opening the page for an order, and on "try again".
StartPolling(o) ==
    LET r == page.run + 1 IN
    /\ env.page /\ r \in Run
    /\ o # page.order \/ page.status = "failed"
    /\ page' = [order |-> o, run |-> r, status |-> "loading", timer |-> FALSE]
    /\ poll' = [poll EXCEPT ![r] = [order |-> o, attempts |-> 1, query |-> "asked"]]
    /\ UNCHANGED <<shop, alipay, env>>

\* The clean-up of the effect: the page is left.
Leave ==
    /\ page.order # NoOrder /\ page.run < MaxRuns
    /\ page' = [order |-> NoOrder, run |-> page.run + 1, status |-> "loading",
                timer |-> FALSE]
    /\ UNCHANGED <<shop, alipay, poll, env>>

\* query_payment on the server, or a failure on the way (a network error, 401, 404).
Query(r) ==
    /\ poll[r].query = "asked"
    /\ \E answer \in {"error", orders[poll[r].order].status} \ {"none"} :
            poll' = [poll EXCEPT ![r].query = answer]
    /\ UNCHANGED <<shop, alipay, page, env>>

Show(status, timer) == page' = [page EXCEPT !.status = status, !.timer = timer]

Answered(r) == poll[r].query \in {"error", "PENDING", "PAID"}
GoesOn(r) == poll[r].query = "PENDING" /\ poll[r].attempts < MAX_ATTEMPTS
Verdict(r) == CASE poll[r].query = "PAID" -> "paid" [] poll[r].query = "error" -> "failed"
                [] OTHER -> "pending"

\* Mutant: an answer to an earlier polling is not told apart.
ReceiveAny(r) ==
    /\ Answered(r)
    /\ IF GoesOn(r) THEN /\ page' = [page EXCEPT !.timer = TRUE]
                         /\ poll' = [poll EXCEPT ![r].query = "none"]
       ELSE /\ page' = [page EXCEPT !.status = Verdict(r)]
            /\ poll' = [poll EXCEPT ![r] = NoPoll]
    /\ UNCHANGED <<shop, alipay, env>>

ReceiveStale(r) ==
    /\ Answered(r) /\ r # page.run
    /\ poll' = [poll EXCEPT ![r] = NoPoll]
    /\ UNCHANGED <<shop, alipay, page, env>>

Receive(r) ==
    /\ Answered(r) /\ r = page.run
    /\ IF GoesOn(r) THEN /\ page' = [page EXCEPT !.timer = TRUE]
                         /\ poll' = [poll EXCEPT ![r].query = "none"]
       ELSE /\ page' = [page EXCEPT !.status = Verdict(r)]
            /\ poll' = [poll EXCEPT ![r] = NoPoll]
    /\ UNCHANGED <<shop, alipay, env>>

\* Mutant: the attempts are not counted.
TickUncounted ==
    /\ page.timer
    /\ page' = [page EXCEPT !.timer = FALSE]
    /\ poll' = [poll EXCEPT ![page.run].query = "asked"]
    /\ UNCHANGED <<shop, alipay, env>>

Tick ==
    /\ page.timer
    /\ page' = [page EXCEPT !.timer = FALSE]
    /\ poll' = [poll EXCEPT ![page.run].query = "asked", ![page.run].attempts = @ + 1]
    /\ UNCHANGED <<shop, alipay, env>>

-----------------------------------------------------------------------------
Next ==
    \/ \E o \in Orders :
        \/ \E u \in Users, p \in Packages : CreateOrder(o, u, p)
        \/ Pay(o) \/ Finish(o) \/ TimeOut(o) \/ Refund(o)
        \/ StartPolling(o)
    \/ \E n \in Notice : Stray(n)
    \/ \E n \in notices : GiveUp(n) \/ Notify(n)
    \/ \E u \in Users : ConsumeFree(u) \/ ConsumeBought(u) \/ Exhausted(u)
    \/ NextDay
    \/ \E r \in Run : Query(r) \/ Receive(r) \/ ReceiveStale(r)
    \/ Leave
    \/ Tick

Spec == Init /\ [][Next]_vars

\* A request is answered or fails, and timers fire.
FairSpec ==
    Spec /\ WF_vars(Tick) /\ (\A r \in Run : WF_vars(Query(r)) /\ WF_vars(Receive(r)))
-----------------------------------------------------------------------------
(* Properties *)

TypeOK ==
    /\ orders \in [Orders -> Order]
    /\ quota \in [Users -> Row]
    /\ today \in Day
    /\ reply \in [Users -> {"none", "served", "refused"}]
    /\ used \in [Users -> Nat]
    /\ bill \in [Orders -> {"none", "unpaid", "paid", "finished", "closed", "refunded"}]
    /\ notices \subseteq Notice
    /\ page \in Page
    /\ poll \in [Run -> Poll]
    /\ env \in Environments

\* Nothing is granted twice or lost: what a user bought is what is left plus what was
\* used, however notices are repeated and mixed with chats.
Conservation ==
    \A u \in Users :
        quota[u].remain + used[u] =
            MapThenSumSet(LAMBDA o : Quota[orders[o].package],
                          {o \in Orders : orders[o].status = "PAID" /\ orders[o].user = u})

\* An order is only settled when Alipay has received the money for it.
PaidOnlyIfBought ==
    \A o \in Orders :
        orders[o].status = "PAID" => bill[o] \in {"paid", "finished", "refunded"}

\* Alipay stops repeating the notice of a successful trade only when it is settled.
AcknowledgedIsSettled ==
    \A o \in Orders :
        ~env.deaf /\ bill[o] \in {"paid", "finished"} =>
            orders[o].status = "PAID"
            \/ \E n \in notices : n.order = o /\ n.ours /\ n.event # "TRADE_CLOSED"

\* The page never announces the success of a payment that has not arrived, also when
\* it moved on to another order while a query was under way.
PageTellsTheTruth ==
    page.order # NoOrder /\ page.status = "paid" => orders[page.order].status = "PAID"

\* The page does not wait for ever.
PollingEnds ==
    (page.order # NoOrder /\ page.status = "loading")
        ~> (page.order = NoOrder \/ page.status # "loading")

\* The date column and the counter of the day, read as the allowance that is left.
Ledger == INSTANCE QuotaLedger WITH
    FreeLimit <- DAILY_FREE_LIMIT,
    Grants    <- {Quota[p] : p \in Packages},
    settled   <- {o \in Orders : orders[o].status = "PAID"},
    credit    <- [u \in Users |-> quota[u].remain],
    allowance <- [u \in Users |-> IF quota[u].freeDate = today
                                THEN DAILY_FREE_LIMIT - quota[u].freeUsed
                                ELSE DAILY_FREE_LIMIT]

\* Orders, notices, dates and counters implement the ledger.
ImplementsLedger == Ledger!Spec
=============================================================================
