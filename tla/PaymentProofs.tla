--------------------------- MODULE PaymentProofs -----------------------------
(***************************************************************************)
(* Theorems about Payment for every set of users, orders and packages,     *)
(* every price list and every number of days and pollings.                 *)
(***************************************************************************)
EXTENDS Payment, DataLemmas

Moved == {"paid", "finished", "refunded"}   \* Alipay has received the money

(***************************************************************************)
(* The inductive invariant.  A notice is believed because of what it says, *)
(* so what the notices say has to be true; and the counter of the day has  *)
(* to stay within the limit for "exhausted" to mean that nothing is left.  *)
(* The timer of the page belongs to a polling that has no query out.       *)
(***************************************************************************)
BilledWhenOrdered == \A o \in Orders : ~Exists(o) => bill[o] = "none"
NoticesTrue ==
    \A n \in notices :
        /\ Exists(n.order)
        /\ Settles(n) => bill[n.order] \in Moved
CountersInBounds ==
    \A u \in Users : quota[u].freeDate <= today /\ quota[u].freeUsed <= DAILY_FREE_LIMIT

TimerHasPolling ==
    page.timer => /\ page.run \in Run
                  /\ poll[page.run].order \in Orders
                  /\ poll[page.run].query = "none"

Trading == BilledWhenOrdered /\ NoticesTrue /\ PaidOnlyIfBought

IInv == TypeOK /\ TimerHasPolling /\ Trading /\ CountersInBounds

USE DEF Day, Run

LEMMA InitTyped == Init => TypeOK
  <1> USE DEF Init, TypeOK, Order, NoRow, Row, Page, Poll, NoPoll
  <1> SUFFICES ASSUME Init PROVE TypeOK
    OBVIOUS
  <1>1. today \in Day /\ quota \in [Users -> Row] /\ orders \in [Orders -> Order]
    BY LimitsAssumption
  <1>2. page \in Page /\ poll \in [Run -> Poll]
    OBVIOUS
  <1>3. QED BY <1>1, <1>2

LEMMA InitInv == Init => IInv
  <1> SUFFICES ASSUME Init PROVE IInv
    OBVIOUS
  <1>1. TypeOK
    BY InitTyped
  <1>2. TimerHasPolling /\ BilledWhenOrdered /\ NoticesTrue /\ PaidOnlyIfBought
    BY DEF Init, TimerHasPolling, BilledWhenOrdered, NoticesTrue, PaidOnlyIfBought, Exists, NoRow
  <1>3. CountersInBounds
    BY LimitsAssumption DEF Init, CountersInBounds
  <1>4. QED BY <1>1, <1>2, <1>3 DEF IInv, Trading

-----------------------------------------------------------------------------
(* Every action keeps the types. *)

LEMMA OrderTyped ==
    ASSUME TypeOK, NEW o \in Orders, NEW u \in Users, NEW p \in Packages, CreateOrder(o, u, p)
    PROVE  TypeOK'
  <1>1. [status |-> "PENDING", user |-> u, package |-> p] \in Order
    BY DEF Order
  <1>2. orders' \in [Orders -> Order]
    BY <1>1 DEF TypeOK, CreateOrder
  <1>3. QED BY <1>2 DEF TypeOK, CreateOrder, tab

LEMMA TradeTyped ==
    ASSUME TypeOK, BilledWhenOrdered, NEW o \in Orders, NEW from \in Moved \cup {"unpaid"},
           NEW to \in Moved \cup {"closed"},
           NEW event \in {"TRADE_SUCCESS", "TRADE_FINISHED", "TRADE_CLOSED"},
           Trade(o, from, to, event)
    PROVE  TypeOK' /\ Exists(o)
  <1>1. Exists(o)
    BY DEF Trade, BilledWhenOrdered, Moved
  <1>2. orders[o].package \in Packages
    BY <1>1 DEF TypeOK, Order, NoRow, Exists
  <1>3. About(o, event) \in Notice
    BY <1>2 DEF About, Notice
  <1>4. QED BY <1>1, <1>3 DEF TypeOK, Trade, shop, tab, Moved

LEMMA NoticeTyped ==
    ASSUME TypeOK, NEW n \in Notice, Stray(n) \/ GiveUp(n)
    PROVE  TypeOK'
  BY DEF TypeOK, Stray, GiveUp, shop, tab

LEMMA NotifyTyped ==
    ASSUME TypeOK, NEW n \in notices, Notify(n)
    PROVE  TypeOK'
  <1>1. n.order \in Orders
    BY DEF TypeOK, Notice
  <1>2. orders' \in [Orders -> Order] /\ quota' \in [Users -> Row]
    <2>1. CASE UNCHANGED <<orders, quota>>
      BY <2>1 DEF TypeOK
    <2>2. CASE ~UNCHANGED <<orders, quota>>
      <3> DEFINE o == n.order
                 u == orders[o].user
                 p == orders[o].package
      <3>1. /\ orders[o].status = "PENDING"
            /\ orders' = [orders EXCEPT ![o].status = "PAID"]
            /\ quota' = [quota EXCEPT ![u].remain = @ + Quota[p]]
        BY <2>2 DEF Notify, MarkPaidAndGrant
      <3>2. orders[o] \in [status: {"PENDING", "PAID"}, user: Users, package: Packages]
        BY <1>1, <3>1 DEF TypeOK, Order, NoRow
      <3>3. orders' \in [Orders -> Order]
        BY <1>1, <3>1, <3>2 DEF TypeOK, Order
      <3>4. Quota[p] \in Nat /\ u \in Users /\ quota[u] \in Row
        BY <3>2, PricesAssumption DEF TypeOK
      <3>5. [quota[u] EXCEPT !.remain = @ + Quota[p]] \in Row
        BY <3>4 DEF Row
      <3>6. quota' = [quota EXCEPT ![u] = [quota[u] EXCEPT !.remain = @ + Quota[p]]]
        BY <3>1
      <3>7. quota' \in [Users -> Row]
        BY <3>4, <3>5, <3>6 DEF TypeOK
      <3>8. QED BY <3>3, <3>7
    <2>3. QED BY <2>1, <2>2
  <1>3. notices' \subseteq Notice
    BY DEF TypeOK, Notify
  <1>4. QED BY <1>2, <1>3 DEF TypeOK, Notify, tab

LEMMA ConsumeTyped ==
    ASSUME TypeOK, NEW u \in Users, ConsumeFree(u) \/ ConsumeBought(u) \/ Exhausted(u)
    PROVE  TypeOK'
  <1>1. reply' \in [Users -> {"none", "served", "refused"}]
    BY DEF TypeOK, ConsumeFree, ConsumeBought, Exhausted, Answer
  <1>2. CASE ConsumeFree(u)
    <2>1. FreeUsed(u) \in Nat /\ quota[u] \in Row
      BY DEF TypeOK, FreeUsed, Row
    <2> DEFINE row == [quota[u] EXCEPT !.freeUsed = FreeUsed(u) + 1, !.freeDate = today]
    <2>2. row \in Row
      <3> DEFINE counted == [quota[u] EXCEPT !.freeUsed = FreeUsed(u) + 1]
      <3>1. counted \in Row
        BY <2>1 DEF Row
      <3>2. [counted EXCEPT !.freeDate = today] \in Row
        BY <3>1 DEF TypeOK, Row
      <3>3. row = [counted EXCEPT !.freeDate = today]
        OBVIOUS
      <3>4. QED BY <3>2, <3>3
    <2>3. quota' = [quota EXCEPT ![u] = row]
      BY <1>2 DEF ConsumeFree, TypeOK
    <2>4. quota' \in [Users -> Row]
      BY <2>2, <2>3 DEF TypeOK
    <2>5. QED BY <1>1, <1>2, <2>4 DEF TypeOK, ConsumeFree, alipay, tab
  <1>3. CASE ConsumeBought(u)
    <2>1. quota[u] \in Row /\ quota[u].remain - 1 \in Nat
      BY <1>3 DEF TypeOK, Row, ConsumeBought
    <2>2. [quota[u] EXCEPT !.remain = @ - 1] \in Row
      BY <2>1 DEF Row
    <2>3. quota' = [quota EXCEPT ![u] = [quota[u] EXCEPT !.remain = @ - 1]]
      BY <1>3 DEF ConsumeBought
    <2>4. quota' \in [Users -> Row] /\ used' \in [Users -> Nat]
      BY <1>3, <2>2, <2>3 DEF TypeOK, ConsumeBought
    <2>5. QED BY <1>1, <1>3, <2>4 DEF TypeOK, ConsumeBought, alipay, tab
  <1>4. CASE Exhausted(u)
    BY <1>1, <1>4 DEF TypeOK, Exhausted, alipay, tab
  <1>5. QED BY <1>2, <1>3, <1>4

LEMMA DayTyped ==
    ASSUME TypeOK, NextDay
    PROVE  TypeOK'
  <1>1. today' \in Day
    BY LimitsAssumption DEF TypeOK, NextDay
  <1>2. QED BY <1>1 DEF TypeOK, NextDay, alipay, tab

LEMMA PageTyped ==
    ASSUME TypeOK, TimerHasPolling,
           \/ \E o \in Orders : StartPolling(o)
           \/ \E r \in Run : Query(r) \/ Receive(r) \/ ReceiveStale(r)
           \/ Leave \/ Tick
    PROVE  TypeOK' /\ TimerHasPolling'
  <1> DEFINE Asking == [order: Orders, attempts: Nat,
                        query: {"none", "asked", "error", "PENDING", "PAID"}]
  <1>a. \A r \in Run : poll[r].query # "none" => poll[r] \in Asking
    <2>1. \A r \in Run : poll[r] \in {NoPoll} \cup Asking
      BY DEF TypeOK, Poll
    <2>2. NoPoll.query = "none"
      BY DEF NoPoll
    <2>3. QED BY <2>1, <2>2
  <1>b. SUFFICES /\ page' \in Page /\ poll' \in [Run -> Poll] /\ TimerHasPolling'
                 /\ UNCHANGED <<shop, alipay, env>>
    BY DEF TypeOK, shop, alipay
  <1>1. CASE \E o \in Orders : StartPolling(o)
    <2>1. PICK o \in Orders : StartPolling(o)
      BY <1>1
    <2>2. [order |-> o, attempts |-> 1, query |-> "asked"] \in Poll
      BY DEF Poll
    <2>3. page' \in Page /\ poll' \in [Run -> Poll] /\ ~page'.timer
      BY <2>1, <2>2 DEF StartPolling, TypeOK, Page
    <2>4. QED BY <2>1, <2>3 DEF StartPolling, TimerHasPolling
  <1>2. CASE \E r \in Run : Query(r)
    <2>1. PICK r \in Run : Query(r)
      BY <1>2
    <2>2. PICK answer \in {"error", orders[poll[r].order].status} \ {"none"} :
              poll' = [poll EXCEPT ![r].query = answer]
      BY <2>1 DEF Query
    <2>3. poll[r] \in Asking
      BY <1>a, <2>1 DEF Query
    <2>4. orders[poll[r].order] \in Order
      BY <2>3 DEF TypeOK
    <2>5. answer \in {"none", "asked", "error", "PENDING", "PAID"}
      BY <2>2, <2>4 DEF Order, NoRow
    <2>6. [poll[r] EXCEPT !.query = answer] \in Asking
      BY <2>3, <2>5
    <2>7. poll' \in [Run -> Poll]
      BY <2>2, <2>6 DEF TypeOK, Poll
    <2>8. TimerHasPolling'
      BY <2>1, <2>2 DEF Query, TimerHasPolling, TypeOK
    <2>9. QED BY <2>1, <2>7, <2>8 DEF Query, TypeOK
  <1>3. CASE \E r \in Run : ReceiveStale(r)
    <2>1. PICK r \in Run : ReceiveStale(r)
      BY <1>3
    <2>2. poll' \in [Run -> Poll] /\ page' = page
      BY <2>1 DEF ReceiveStale, TypeOK, Poll
    <2>3. TimerHasPolling'
      BY <2>1 DEF ReceiveStale, TimerHasPolling, TypeOK
    <2>4. QED BY <2>1, <2>2, <2>3 DEF ReceiveStale, TypeOK
  <1>4. CASE \E r \in Run : Receive(r)
    <2>1. PICK r \in Run : Receive(r)
      BY <1>4
    <2>2. poll[r] \in Asking /\ r = page.run /\ ~page.timer
      BY <1>a, <2>1 DEF Receive, Answered, TimerHasPolling, TypeOK, Page
    <2>3. CASE GoesOn(r)
      <3>1. [poll[r] EXCEPT !.query = "none"] \in Asking
        BY <2>2
      <3>2. /\ poll' = [poll EXCEPT ![r] = [poll[r] EXCEPT !.query = "none"]]
            /\ page' = [page EXCEPT !.timer = TRUE]
        BY <2>1, <2>3 DEF Receive
      <3>3. poll' \in [Run -> Poll] /\ page' \in Page
        BY <3>1, <3>2 DEF TypeOK, Poll, Page
      <3>4. TimerHasPolling'
        BY <2>2, <3>1, <3>2 DEF TimerHasPolling, TypeOK, Page
      <3>5. QED BY <2>1, <3>3, <3>4 DEF Receive
    <2>4. CASE ~GoesOn(r)
      <3>1. Verdict(r) \in {"loading", "paid", "failed", "pending"}
        BY DEF Verdict
      <3>2. poll' = [poll EXCEPT ![r] = NoPoll] /\ page' = [page EXCEPT !.status = Verdict(r)]
        BY <2>1, <2>4 DEF Receive
      <3>3. poll' \in [Run -> Poll] /\ page' \in Page /\ ~page'.timer
        BY <2>2, <3>1, <3>2 DEF TypeOK, Poll, Page
      <3>4. QED BY <2>1, <3>3 DEF Receive, TimerHasPolling
    <2>5. QED BY <2>3, <2>4
  <1>5. CASE Leave
    <2>1. page.run + 1 \in Run
      BY <1>5, LimitsAssumption DEF Leave, TypeOK, Page
    <2>2. page' \in Page /\ ~page'.timer
      BY <1>5, <2>1 DEF Leave, Page
    <2>3. QED BY <1>5, <2>2 DEF Leave, TypeOK, TimerHasPolling
  <1>6. CASE Tick
    <2> DEFINE r == page.run
    <2>1. page' \in Page /\ ~page'.timer
      BY <1>6 DEF Tick, TypeOK, Page
    <2>2. r \in Run /\ poll[r] \in Asking
      <3>1. r \in Run /\ poll[r].order \in Orders
        BY <1>6 DEF Tick, TimerHasPolling
      <3>2. QED BY <3>1, NoOrderIsNone DEF TypeOK, Poll, NoPoll
    <2>3. [poll[r] EXCEPT !.query = "asked", !.attempts = @ + 1] \in Asking
      <3> DEFINE asked == [poll[r] EXCEPT !.query = "asked"]
      <3>1. asked \in Asking
        BY <2>2
      <3>2. [asked EXCEPT !.attempts = @ + 1] \in Asking
        <4>1. \A a \in Asking : [a EXCEPT !.attempts = @ + 1] \in Asking
          OBVIOUS
        <4>2. QED BY <3>1, <4>1, Zenon
      <3>3. [poll[r] EXCEPT !.query = "asked", !.attempts = @ + 1]
                = [asked EXCEPT !.attempts = @ + 1]
        OBVIOUS
      <3>4. QED BY <3>2, <3>3
    <2>4. poll' = [poll EXCEPT ![r] = [poll[r] EXCEPT !.query = "asked", !.attempts = @ + 1]]
      BY <1>6, <2>2 DEF Tick, TypeOK
    <2>5. poll' \in [Run -> Poll]
      BY <2>2, <2>3, <2>4 DEF TypeOK, Poll
    <2>6. QED BY <1>6, <2>1, <2>5 DEF Tick, TimerHasPolling
  <1>7. QED BY <1>1, <1>2, <1>3, <1>4, <1>5, <1>6

-----------------------------------------------------------------------------
(* Every action keeps what the invariant says of orders, trades and notices. *)

LEMMA TradingLeftAlone ==
    ASSUME Trading, UNCHANGED <<orders, bill>>, notices' \subseteq notices
    PROVE  Trading'
  BY DEF Trading, BilledWhenOrdered, NoticesTrue, PaidOnlyIfBought, Exists, Settles, TradeIsGood

LEMMA OrderTrading ==
    ASSUME TypeOK, Trading, NEW o \in Orders, NEW u \in Users, NEW p \in Packages,
           CreateOrder(o, u, p)
    PROVE  Trading'
  <1>1. /\ ~Exists(o) /\ notices' = notices
        /\ orders' = [orders EXCEPT ![o] = [status |-> "PENDING", user |-> u, package |-> p]]
        /\ bill' = [bill EXCEPT ![o] = "unpaid"]
    BY DEF CreateOrder
  <1>2. \A x \in Orders : x # o => orders'[x] = orders[x] /\ bill'[x] = bill[x]
    BY <1>1 DEF TypeOK
  <1>3. orders'[o].status = "PENDING"
    BY <1>1 DEF TypeOK
  <1>4. BilledWhenOrdered'
    BY <1>2, <1>3 DEF Trading, BilledWhenOrdered, Exists
  <1>5. NoticesTrue'
    <2> SUFFICES ASSUME NEW n \in notices
                 PROVE  Exists(n.order)' /\ (Settles(n)' => bill'[n.order] \in Moved)
      BY <1>1 DEF NoticesTrue
    <2>1. Exists(n.order) /\ n.order \in Orders /\ n.order # o
      BY <1>1 DEF Trading, NoticesTrue, TypeOK, Notice
    <2>2. QED BY <1>2, <2>1 DEF Trading, NoticesTrue, Exists, Settles, TradeIsGood
  <1>6. PaidOnlyIfBought'
    BY <1>2, <1>3 DEF Trading, PaidOnlyIfBought
  <1>7. QED BY <1>4, <1>5, <1>6 DEF Trading

LEMMA TradeTrading ==
    ASSUME TypeOK, Trading, NEW o \in Orders, NEW from, NEW to, NEW event,
           Exists(o), to # "none",
           from \in Moved => to \in Moved,
           event \in {"TRADE_SUCCESS", "TRADE_FINISHED"} => to \in Moved,
           Trade(o, from, to, event)
    PROVE  Trading'
  <1>1. /\ bill[o] = from /\ bill' = [bill EXCEPT ![o] = to]
        /\ notices' = notices \cup {About(o, event)} /\ orders' = orders
    BY DEF Trade, shop
  <1>2. bill'[o] = to /\ \A x \in Orders : x # o => bill'[x] = bill[x]
    BY <1>1 DEF TypeOK
  <1>3. \A x \in Orders : bill[x] \in Moved => bill'[x] \in Moved
    BY <1>1, <1>2
  <1>4. BilledWhenOrdered'
    BY <1>1, <1>2 DEF Trading, BilledWhenOrdered, Exists
  <1>5. NoticesTrue'
    <2> SUFFICES ASSUME NEW n \in notices'
                 PROVE  Exists(n.order) /\ (Settles(n) => bill'[n.order] \in Moved)
      BY <1>1 DEF NoticesTrue, Exists, Settles, TradeIsGood
    <2>1. CASE n \in notices
      BY <1>3, <2>1 DEF Trading, NoticesTrue, TypeOK, Notice
    <2>2. CASE n = About(o, event)
      BY <1>2, <2>2 DEF About, Settles, TradeIsGood
    <2>3. QED BY <1>1, <2>1, <2>2
  <1>6. PaidOnlyIfBought'
    BY <1>1, <1>3 DEF Trading, PaidOnlyIfBought, Moved
  <1>7. QED BY <1>4, <1>5, <1>6 DEF Trading

LEMMA StrayTrading ==
    ASSUME Trading, NEW n \in Notice, Stray(n)
    PROVE  Trading'
  <1>1. /\ Exists(n.order) /\ ~Settles(n)
        /\ notices' = notices \cup {n} /\ UNCHANGED <<orders, bill>>
    BY DEF Stray, Settles, shop
  <1>2. QED BY <1>1 DEF Trading, BilledWhenOrdered, NoticesTrue, PaidOnlyIfBought, Exists, Settles, TradeIsGood

LEMMA NotifyTrading ==
    ASSUME TypeOK, Trading, NEW n \in notices, Notify(n)
    PROVE  Trading'
  <1> DEFINE o == n.order
  <1>1. o \in Orders /\ Exists(o) /\ notices' \subseteq notices /\ bill' = bill
    BY DEF TypeOK, Notice, Trading, NoticesTrue, Notify, tab
  <1>2. CASE orders' = orders
    BY <1>1, <1>2, TradingLeftAlone
  <1>3. CASE orders' # orders
    <2>1. Settles(n) /\ orders' = [orders EXCEPT ![o].status = "PAID"]
      BY <1>3 DEF Notify, MarkPaidAndGrant
    <2>2. orders[o] \in [status: {"PENDING", "PAID"}, user: Users, package: Packages]
      BY <1>1 DEF TypeOK, Order, NoRow, Exists
    <2>3. /\ \A x \in Orders : x # o => orders'[x] = orders[x]
          /\ orders'[o] = [orders[o] EXCEPT !.status = "PAID"]
      BY <1>1, <2>1 DEF TypeOK
    <2>4. orders'[o].status = "PAID" /\ orders'[o].package = orders[o].package
      BY <2>2, <2>3
    <2>5. \A x \in Orders : Exists(x)' <=> Exists(x)
      BY <1>1, <2>3, <2>4 DEF Exists
    <2>6. BilledWhenOrdered'
      BY <1>1, <2>5 DEF Trading, BilledWhenOrdered
    <2>7. \A m \in notices : Settles(m)' <=> Settles(m)
      BY <2>3, <2>4, <2>5 DEF Settles, TradeIsGood, TypeOK, Notice
    <2>8. NoticesTrue'
      BY <1>1, <2>5, <2>7 DEF Trading, NoticesTrue, TypeOK, Notice
    <2>9. PaidOnlyIfBought'
      BY <1>1, <2>1, <2>3 DEF Trading, PaidOnlyIfBought, NoticesTrue, Moved
    <2>10. QED BY <2>6, <2>8, <2>9 DEF Trading
  <1>4. QED BY <1>2, <1>3

LEMMA CountersKept ==
    ASSUME TypeOK, CountersInBounds,
           \/ \E n \in notices : Notify(n)
           \/ \E u \in Users : ConsumeFree(u) \/ ConsumeBought(u)
           \/ NextDay
    PROVE  CountersInBounds'
  <1>1. \A u \in Users : quota[u] \in Row /\ FreeUsed(u) \in Nat
    BY DEF TypeOK, Row, FreeUsed
  <1>2. CASE \E n \in notices : Notify(n)
    <2>1. PICK n \in notices : Notify(n)
      BY <1>2
    <2>2. /\ today' = today
          /\ \A u \in Users : /\ quota'[u].freeDate = quota[u].freeDate
                              /\ quota'[u].freeUsed = quota[u].freeUsed
      <3>1. today' = today
        BY <2>1 DEF Notify
      <3>2. CASE quota' = quota
        BY <3>1, <3>2
      <3>3. CASE quota' # quota
        <4> DEFINE o == n.order
        <4>1. quota' = [quota EXCEPT ![orders[o].user].remain = @ + Quota[orders[o].package]]
          BY <2>1, <3>3 DEF Notify, MarkPaidAndGrant
        <4>2. QED BY <1>1, <3>1, <4>1 DEF TypeOK, Row
      <3>4. QED BY <3>2, <3>3
    <2>3. QED BY <2>2 DEF CountersInBounds
  <1>3. CASE \E u \in Users : ConsumeFree(u)
    <2>1. PICK u \in Users : ConsumeFree(u)
      BY <1>3
    <2>2. /\ today' = today /\ FreeUsed(u) + 1 <= DAILY_FREE_LIMIT
          /\ quota'[u].freeDate = today /\ quota'[u].freeUsed = FreeUsed(u) + 1
          /\ \A x \in Users : x # u => quota'[x] = quota[x]
      BY <1>1, <2>1, LimitsAssumption DEF ConsumeFree, TypeOK, Row
    <2>3. QED BY <2>2 DEF CountersInBounds, TypeOK
  <1>4. CASE \E u \in Users : ConsumeBought(u)
    <2>1. PICK u \in Users : ConsumeBought(u)
      BY <1>4
    <2>2. /\ today' = today
          /\ \A x \in Users : /\ quota'[x].freeDate = quota[x].freeDate
                              /\ quota'[x].freeUsed = quota[x].freeUsed
      BY <1>1, <2>1 DEF ConsumeBought, TypeOK, Row
    <2>3. QED BY <2>2 DEF CountersInBounds
  <1>5. CASE NextDay
    <2>1. quota' = quota /\ today' = today + 1 /\ today \in Nat
      BY <1>5 DEF NextDay, TypeOK
    <2>2. \A u \in Users : quota[u].freeDate \in Nat
      BY <1>1 DEF Row
    <2>3. \A u \in Users : quota[u].freeDate <= today + 1
      BY <2>1, <2>2 DEF CountersInBounds
    <2>4. QED BY <2>1, <2>3 DEF CountersInBounds
  <1>6. QED BY <1>2, <1>3, <1>4, <1>5

-----------------------------------------------------------------------------
(* The steps together. *)

LEMMA TradesKeepInv ==
    ASSUME IInv, NEW o \in Orders, Pay(o) \/ Finish(o) \/ TimeOut(o) \/ Refund(o)
    PROVE  IInv'
  <1>1. /\ TypeOK /\ BilledWhenOrdered /\ Trading
        /\ UNCHANGED <<page, poll, quota, today>>
    BY DEF IInv, Trading, Pay, Finish, TimeOut, Refund, Trade, shop, tab
  <1>2. TypeOK' /\ Exists(o)
    <2>1. CASE Pay(o)     BY <1>1, <2>1, TradeTyped DEF Pay, Moved
    <2>2. CASE Finish(o)  BY <1>1, <2>2, TradeTyped DEF Finish, Moved
    <2>3. CASE TimeOut(o) BY <1>1, <2>3, TradeTyped DEF TimeOut, Moved
    <2>4. CASE Refund(o)  BY <1>1, <2>4, TradeTyped DEF Refund, Moved
    <2>5. QED BY <2>1, <2>2, <2>3, <2>4
  <1>3. Trading'
    <2>1. CASE Pay(o)     BY <1>1, <1>2, <2>1, TradeTrading DEF Pay, Moved
    <2>2. CASE Finish(o)  BY <1>1, <1>2, <2>2, TradeTrading DEF Finish, Moved
    <2>3. CASE TimeOut(o) BY <1>1, <1>2, <2>3, TradeTrading DEF TimeOut, Moved
    <2>4. CASE Refund(o)  BY <1>1, <1>2, <2>4, TradeTrading DEF Refund, Moved
    <2>5. QED BY <2>1, <2>2, <2>3, <2>4
  <1>4. TimerHasPolling' /\ CountersInBounds'
    BY <1>1 DEF IInv, TimerHasPolling, CountersInBounds
  <1>5. QED BY <1>2, <1>3, <1>4 DEF IInv

LEMMA StepInv == IInv /\ [Next]_vars => IInv'
  <1> SUFFICES ASSUME IInv, [Next]_vars PROVE IInv'
    OBVIOUS
  <1>a. TypeOK /\ TimerHasPolling /\ Trading /\ CountersInBounds
    BY DEF IInv
  <1>1. ASSUME NEW o \in Orders, NEW u \in Users, NEW p \in Packages, CreateOrder(o, u, p)
        PROVE  IInv'
    <2>1. TypeOK' /\ Trading'
      BY <1>a, <1>1, OrderTyped, OrderTrading
    <2>2. TimerHasPolling' /\ CountersInBounds'
      BY <1>a, <1>1 DEF CreateOrder, tab, TimerHasPolling, CountersInBounds
    <2>3. QED BY <2>1, <2>2 DEF IInv
  <1>2. ASSUME NEW o \in Orders, Pay(o) \/ Finish(o) \/ TimeOut(o) \/ Refund(o)
        PROVE  IInv'
    BY <1>2, TradesKeepInv
  <1>3. ASSUME NEW n \in Notice, Stray(n) \/ (n \in notices /\ GiveUp(n))
        PROVE  IInv'
    <2>1. TypeOK'
      BY <1>a, <1>3, NoticeTyped
    <2>2. Trading'
      <3>1. CASE Stray(n)
        BY <1>a, <3>1, StrayTrading
      <3>2. CASE GiveUp(n)
        <4>1. UNCHANGED <<orders, bill>> /\ notices' \subseteq notices
          BY <3>2 DEF GiveUp, shop
        <4>2. QED BY <1>a, <4>1, TradingLeftAlone
      <3>3. QED BY <1>3, <3>1, <3>2
    <2>3. TimerHasPolling' /\ CountersInBounds'
      BY <1>a, <1>3 DEF Stray, GiveUp, shop, tab, TimerHasPolling, CountersInBounds
    <2>4. QED BY <2>1, <2>2, <2>3 DEF IInv
  <1>4. ASSUME NEW n \in notices, Notify(n)
        PROVE  IInv'
    <2>1. TypeOK' /\ Trading'
      BY <1>a, <1>4, NotifyTyped, NotifyTrading
    <2>2. TimerHasPolling' /\ CountersInBounds'
      BY <1>a, <1>4, CountersKept DEF Notify, tab, TimerHasPolling
    <2>3. QED BY <2>1, <2>2 DEF IInv
  <1>5. ASSUME NEW u \in Users, ConsumeFree(u) \/ ConsumeBought(u) \/ Exhausted(u)
        PROVE  IInv'
    <2>1. TypeOK'
      BY <1>a, <1>5, ConsumeTyped
    <2>2. UNCHANGED <<orders, bill, notices, page, poll>>
      BY <1>5 DEF ConsumeFree, ConsumeBought, Exhausted, alipay, tab
    <2>3. Trading' /\ TimerHasPolling'
      BY <1>a, <2>2, TradingLeftAlone DEF TimerHasPolling
    <2>4. CountersInBounds'
      BY <1>a, <1>5, CountersKept DEF Exhausted, CountersInBounds
    <2>5. QED BY <2>1, <2>3, <2>4 DEF IInv
  <1>6. CASE NextDay
    <2>1. TypeOK' /\ CountersInBounds'
      BY <1>a, <1>6, DayTyped, CountersKept
    <2>2. UNCHANGED <<orders, bill, notices, page, poll>>
      BY <1>6 DEF NextDay, alipay, tab
    <2>3. Trading' /\ TimerHasPolling'
      BY <1>a, <2>2, TradingLeftAlone DEF TimerHasPolling
    <2>4. QED BY <2>1, <2>3 DEF IInv
  <1>7. CASE \/ \E o \in Orders : StartPolling(o)
             \/ \E r \in Run : Query(r) \/ Receive(r) \/ ReceiveStale(r)
             \/ Leave \/ Tick
    <2>1. TypeOK' /\ TimerHasPolling'
      BY <1>a, <1>7, PageTyped
    <2>2. UNCHANGED <<orders, quota, today, bill, notices>>
      BY <1>7 DEF StartPolling, Query, Receive, ReceiveStale, Leave, Tick, shop, alipay
    <2>3. Trading' /\ CountersInBounds'
      BY <1>a, <2>2, TradingLeftAlone DEF CountersInBounds
    <2>4. QED BY <2>1, <2>3 DEF IInv
  <1>8. CASE UNCHANGED vars
    <2>1. TypeOK' /\ TimerHasPolling' /\ CountersInBounds'
      BY <1>a, <1>8 DEF vars, shop, alipay, tab, TypeOK, TimerHasPolling, CountersInBounds
    <2>2. Trading'
      BY <1>a, <1>8, TradingLeftAlone DEF vars, shop, alipay
    <2>3. QED BY <2>1, <2>2 DEF IInv
  <1>9. notices \subseteq Notice
    BY <1>a DEF TypeOK
  <1>10. QED BY <1>1, <1>2, <1>3, <1>4, <1>5, <1>6, <1>7, <1>8, <1>9 DEF Next

LEMMA Inductive == Spec => []IInv
  BY InitInv, StepInv, PTL DEF Spec

(* Every state of every behaviour has the types of the model. *)
THEOREM TypeCorrect == Spec => []TypeOK
  <1>1. IInv => TypeOK
    BY DEF IInv
  <1>2. QED BY <1>1, Inductive, PTL

(* However notices are repeated, reordered, lost or sent by others: an order    *)
(* is settled only when Alipay has received the money for it (handle_notify).   *)
THEOREM OnlyBoughtIsPaid == Spec => []PaidOnlyIfBought
  <1>1. IInv => PaidOnlyIfBought
    BY DEF IInv, Trading
  <1>2. QED BY <1>1, Inductive, PTL

-----------------------------------------------------------------------------
(* Settled for good, and the notices that are still owed. *)

LEMMA PaidStays ==
    ASSUME IInv, [Next]_vars, NEW o \in Orders, orders[o].status = "PAID"
    PROVE  orders'[o].status = "PAID"
  <1>1. TypeOK
    BY DEF IInv
  <1>2. ASSUME NEW x \in Orders, NEW u \in Users, NEW p \in Packages, CreateOrder(x, u, p)
        PROVE  orders'[o].status = "PAID"
    BY <1>1, <1>2 DEF CreateOrder, Exists, TypeOK
  <1>3. ASSUME NEW n \in notices, Notify(n)
        PROVE  orders'[o].status = "PAID"
    BY <1>1, <1>3 DEF Notify, MarkPaidAndGrant, TypeOK, Order, NoRow
  <1>4. CASE \/ \E x \in Orders : Pay(x) \/ Finish(x) \/ TimeOut(x) \/ Refund(x) \/ StartPolling(x)
             \/ \E n \in Notice : Stray(n)
             \/ \E n \in notices : GiveUp(n)
             \/ \E u \in Users : ConsumeFree(u) \/ ConsumeBought(u) \/ Exhausted(u)
             \/ NextDay
             \/ \E r \in Run : Query(r) \/ Receive(r) \/ ReceiveStale(r)
             \/ Leave \/ Tick \/ UNCHANGED vars
    BY <1>4 DEF Pay, Finish, TimeOut, Refund, Trade, StartPolling, Stray, GiveUp, ConsumeFree,
                ConsumeBought, Exhausted, NextDay, Query, Receive, ReceiveStale, Leave, Tick,
                shop, vars
  <1>5. QED BY <1>2, <1>3, <1>4 DEF Next

(* A notice that settles its order, and that Alipay still wants answered. *)
Owed(o) == \E n \in notices : n.order = o /\ n.ours /\ n.event # "TRADE_CLOSED"

LEMMA TradeOwes ==
    ASSUME IInv, AcknowledgedIsSettled, NEW o \in Orders,
           Pay(o) \/ Finish(o) \/ TimeOut(o) \/ Refund(o)
    PROVE  AcknowledgedIsSettled'
  <1>1. /\ notices \subseteq notices' /\ UNCHANGED <<orders, env>>
        /\ \A x \in Orders : x # o => bill'[x] = bill[x]
    BY DEF IInv, TypeOK, Pay, Finish, TimeOut, Refund, Trade, shop
  <1>2. bill'[o] \in {"paid", "finished"} => Owed(o)'
    <2>1. ASSUME Pay(o) \/ Finish(o) PROVE Owed(o)'
      <3>1. PICK event \in {"TRADE_SUCCESS", "TRADE_FINISHED"} : About(o, event) \in notices'
        BY <2>1 DEF Pay, Finish, Trade
      <3>2. QED BY <3>1 DEF Owed, About
    <2>2. ASSUME TimeOut(o) \/ Refund(o) PROVE bill'[o] \notin {"paid", "finished"}
      BY <2>2 DEF IInv, TypeOK, TimeOut, Refund, Trade
    <2>3. QED BY <2>1, <2>2
  <1>3. \A x \in Orders : Owed(x) => Owed(x)'
    BY <1>1 DEF Owed
  <1>4. QED BY <1>1, <1>2, <1>3 DEF AcknowledgedIsSettled, Owed

LEMMA NotifyOwes ==
    ASSUME IInv, AcknowledgedIsSettled, [Next]_vars, NEW n \in notices, Notify(n)
    PROVE  AcknowledgedIsSettled'
  <1>1. UNCHANGED <<bill, env>> /\ TypeOK /\ n \in Notice
    BY DEF IInv, TypeOK, Notify
  <1>2. ASSUME NEW o \in Orders, Owed(o), ~Owed(o)'
        PROVE  orders'[o].status = "PAID"
    <2>1. n.order = o /\ n.ours /\ n.event # "TRADE_CLOSED" /\ Accepts(n)
      BY <1>2 DEF Owed, Notify
    <2>2. Settles(n) /\ MarkPaidAndGrant(o)
      BY <1>1, <2>1 DEF Accepts, TradeIsGood, Notice, Notify
    <2>3. QED BY <1>1, <2>1, <2>2 DEF Settles, Exists, MarkPaidAndGrant, TypeOK, Order, NoRow
  <1>3. QED BY <1>1, <1>2, PaidStays DEF AcknowledgedIsSettled, Owed

LEMMA StepOwes == IInv /\ AcknowledgedIsSettled /\ [Next]_vars => AcknowledgedIsSettled'
  <1> SUFFICES ASSUME IInv, AcknowledgedIsSettled, [Next]_vars
               PROVE  AcknowledgedIsSettled'
    OBVIOUS
  <1>1. ASSUME NEW o \in Orders, NEW u \in Users, NEW p \in Packages, CreateOrder(o, u, p)
        PROVE  AcknowledgedIsSettled'
    <2>1. /\ bill'[o] = "unpaid" /\ UNCHANGED <<notices, env>>
          /\ \A x \in Orders : x # o => bill'[x] = bill[x]
      BY <1>1 DEF IInv, TypeOK, CreateOrder
    <2>2. QED BY <2>1, PaidStays DEF AcknowledgedIsSettled
  <1>2. ASSUME NEW o \in Orders, Pay(o) \/ Finish(o) \/ TimeOut(o) \/ Refund(o)
        PROVE  AcknowledgedIsSettled'
    BY <1>2, TradeOwes
  <1>3. ASSUME NEW n \in Notice, Stray(n)
        PROVE  AcknowledgedIsSettled'
    <2>1. notices \subseteq notices' /\ UNCHANGED <<orders, bill, env>>
      BY <1>3 DEF Stray, shop
    <2>2. QED BY <2>1 DEF AcknowledgedIsSettled
  <1>4. ASSUME NEW n \in notices, GiveUp(n)
        PROVE  AcknowledgedIsSettled'
    BY <1>4 DEF GiveUp, AcknowledgedIsSettled
  <1>5. ASSUME NEW n \in notices, Notify(n)
        PROVE  AcknowledgedIsSettled'
    BY <1>5, NotifyOwes
  <1>6. CASE \/ \E o \in Orders : StartPolling(o)
             \/ \E u \in Users : ConsumeFree(u) \/ ConsumeBought(u) \/ Exhausted(u)
             \/ NextDay
             \/ \E r \in Run : Query(r) \/ Receive(r) \/ ReceiveStale(r)
             \/ Leave \/ Tick \/ UNCHANGED vars
    <2>1. UNCHANGED <<orders, bill, notices, env>>
      BY <1>6 DEF StartPolling, ConsumeFree, ConsumeBought, Exhausted, NextDay, Query, Receive,
                  ReceiveStale, Leave, Tick, shop, alipay, vars
    <2>2. QED BY <2>1 DEF AcknowledgedIsSettled
  <1>7. QED BY <1>1, <1>2, <1>3, <1>4, <1>5, <1>6 DEF Next

(* Alipay keeps repeating the notice of a successful trade until the order is     *)
(* settled: the answer "success" is given away by nothing else (handle_notify).   *)
THEOREM AcknowledgedOnlyIfSettled == Spec => []AcknowledgedIsSettled
  <1>1. Init => AcknowledgedIsSettled
    BY DEF Init, AcknowledgedIsSettled
  <1>2. QED BY <1>1, Inductive, StepOwes, PTL DEF Spec

-----------------------------------------------------------------------------
(***************************************************************************)
(* Nothing is granted twice or lost.  The sum is over the settled orders   *)
(* of a user; they are finitely many, however many orders there may be,    *)
(* because orders are placed one by one.                                   *)
(***************************************************************************)
Placed(rows)        == {o \in Orders : rows[o].status # "none"}
SettledOf(rows, u)  == {o \in Orders : rows[o].status = "PAID" /\ rows[o].user = u}
Worth(rows)         == [o \in Orders |-> Quota[rows[o].package]]
Balanced(rows, u, v) == IsSum(Worth(rows), SettledOf(rows, u), v)
BoughtTrue ==
    /\ IsFiniteSet(Placed(orders))
    /\ \A u \in Users : Balanced(orders, u, quota[u].remain + used[u])

LEMMA SoldIsSum ==
    ASSUME NEW S, S \subseteq Orders, IsFiniteSet(S)
    PROVE  IsSum(Worth(orders), S, MapThenSumSet(LAMBDA o : Quota[orders[o].package], S))
  <1> DEFINE w == Worth(orders)
             Body(g) == [s \in SUBSET S |->
                            IF s = {} THEN 0
                            ELSE Quota[orders[CHOOSE x \in s : TRUE].package]
                                     + g[s \ {CHOOSE x \in s : TRUE}]]
             G == CHOOSE g : g = Body(g)
  <1>1. MapThenSumSet(LAMBDA o : Quota[orders[o].package], S) = G[S]
    BY DEF MapThenSumSet, MapThenFoldSet
  <1>2. PICK g : AddsUp(g, w, S)
    BY SumsExist
  <1>3. \A s \in SUBSET S : s # {} => w[One(s)] = Quota[orders[CHOOSE x \in s : TRUE].package]
    BY DEF One, Worth
  <1>4. ASSUME NEW h PROVE AddsUp(h, w, S) <=> h = Body(h)
    BY <1>3 DEF AddsUp, Adds, One
  <1> HIDE DEF w, Body
  <1>5. g = Body(g)
    BY <1>2, <1>4
  <1>6. G = Body(G)
    BY <1>5
  <1> HIDE DEF G
  <1>7. AddsUp(G, w, S)
    BY <1>4, <1>6
  <1>8. QED BY <1>1, <1>7 DEF IsSum, w

LEMMA SettledFew ==
    ASSUME IsFiniteSet(Placed(orders)), NEW u
    PROVE  IsFiniteSet(SettledOf(orders, u)) /\ SettledOf(orders, u) \subseteq Orders
  <1>1. SettledOf(orders, u) \in SUBSET Placed(orders)
    BY DEF SettledOf, Placed
  <1>2. IsFiniteSet(SettledOf(orders, u))
    BY <1>1, FS_Subset
  <1>3. QED BY <1>2 DEF SettledOf

LEMMA WorthIs ==
    ASSUME TypeOK, NEW u
    PROVE  Weights(Worth(orders), SettledOf(orders, u))
  <1>1. ASSUME NEW o \in SettledOf(orders, u)
        PROVE  Worth(orders)[o] \in Nat
    <2>1. o \in Orders /\ orders[o].package \in Packages
      BY <1>1 DEF SettledOf, TypeOK, Order, NoRow
    <2>2. QED BY <2>1, PricesAssumption DEF Worth
  <1>2. QED BY <1>1 DEF Weights

\* The same orders, worth the same.
LEMMA BalancedStays ==
    ASSUME TypeOK, IsFiniteSet(Placed(orders)), NEW rows, NEW u, NEW v, Balanced(orders, u, v),
           SettledOf(rows, u) = SettledOf(orders, u),
           \A o \in SettledOf(orders, u) : rows[o] = orders[o]
    PROVE  Balanced(rows, u, v)
  <1> DEFINE S == SettledOf(orders, u)
  <1>1. IsFiniteSet(S) /\ S \subseteq Orders /\ Weights(Worth(orders), S)
    BY SettledFew, WorthIs
  <1>2. SameOn(Worth(rows), Worth(orders), S)
    BY <1>1 DEF SameOn, Worth
  <1>3. Weights(Worth(rows), S) /\ SameOn(Worth(orders), Worth(rows), S)
    BY <1>1, <1>2 DEF SameOn, Weights
  <1>4. PICK x : IsSum(Worth(rows), S, x)
    BY <1>1, SumExists
  <1>5. IsSum(Worth(orders), S, v)
    BY DEF Balanced
  <1> HIDE DEF S
  <1>6. x = v
    BY <1>1, <1>3, <1>4, <1>5, SumSame
  <1>7. QED BY <1>4, <1>6 DEF Balanced, S

\* One order more.
LEMMA BalancedGrows ==
    ASSUME TypeOK, IsFiniteSet(Placed(orders)), NEW rows, NEW u, NEW v, Balanced(orders, u, v),
           NEW o \in Orders, o \notin SettledOf(orders, u), orders[o].package \in Packages,
           SettledOf(rows, u) = SettledOf(orders, u) \cup {o},
           rows[o].package = orders[o].package,
           \A x \in SettledOf(orders, u) : rows[x] = orders[x]
    PROVE  v \in Nat /\ Balanced(rows, u, v + Quota[orders[o].package])
  <1> DEFINE S == SettledOf(orders, u)  w == Worth(orders)  z == Worth(rows)  R == S \cup {o}
  <1>1. IsFiniteSet(S) /\ S \subseteq Orders /\ Weights(w, S)
    BY SettledFew, WorthIs
  <1>2. SameOn(w, z, S)
    BY <1>1 DEF SameOn, Worth
  <1>3. z[o] = Quota[orders[o].package] /\ z[o] \in Nat
    BY PricesAssumption DEF Worth
  <1>4. IsSum(w, S, v) /\ o \notin S /\ SettledOf(rows, u) = R
    BY DEF Balanced
  <1>5. IsFiniteSet(R)
    BY <1>1, FS_AddElement
  <1>6. R = S \cup {o}
    OBVIOUS
  <1> HIDE DEF S, w, z, R
  <1>7. Weights(z, R)
    BY <1>1, <1>2, <1>3, <1>6 DEF SameOn, Weights
  <1>8. PICK x : IsSum(z, R, x)
    BY <1>5, SumExists
  <1>9. v \in Nat /\ x = z[o] + v
    BY <1>1, <1>2, <1>4, <1>6, <1>7, <1>8, SumGrows
  <1>10. x = v + Quota[orders[o].package]
    BY <1>3, <1>9
  <1>11. IsSum(Worth(rows), SettledOf(rows, u), x)
    BY <1>4, <1>8 DEF z
  <1>12. QED BY <1>9, <1>10, <1>11 DEF Balanced

LEMMA InitBought == Init => BoughtTrue
  <1> SUFFICES ASSUME Init PROVE BoughtTrue
    OBVIOUS
  <1>1. Placed(orders) = {} /\ \A u : SettledOf(orders, u) = {}
    BY DEF Init, NoRow, Placed, SettledOf
  <1>2. ASSUME NEW u \in Users
        PROVE  Balanced(orders, u, quota[u].remain + used[u])
    <2>1. quota[u].remain + used[u] = 0
      BY DEF Init
    <2>2. PICK g : AddsUp(g, Worth(orders), {})
      BY FS_EmptySet, SumsExist
    <2>3. g[{}] = 0
      BY <2>2 DEF AddsUp, Adds
    <2>4. QED BY <1>1, <2>1, <2>2, <2>3 DEF Balanced, IsSum
  <1>3. QED BY <1>1, <1>2, FS_EmptySet DEF BoughtTrue

LEMMA OrderBought ==
    ASSUME TypeOK, BoughtTrue, NEW o \in Orders, NEW u \in Users, NEW p \in Packages,
           CreateOrder(o, u, p)
    PROVE  BoughtTrue'
  <1>1. /\ ~Exists(o) /\ quota' = quota /\ used' = used
        /\ orders'[o].status = "PENDING" /\ orders[o].status = "none"
        /\ \A x \in Orders : x # o => orders'[x] = orders[x]
    BY DEF CreateOrder, TypeOK, Exists
  <1>2. Placed(orders') = Placed(orders) \cup {o}
    BY <1>1 DEF Placed
  <1>3. IsFiniteSet(Placed(orders'))
    BY <1>2, FS_AddElement DEF BoughtTrue
  <1>4. ASSUME NEW b \in Users
        PROVE  Balanced(orders', b, quota[b].remain + used[b])
    <2>1. /\ SettledOf(orders', b) = SettledOf(orders, b)
          /\ \A x \in SettledOf(orders, b) : orders'[x] = orders[x]
      BY <1>1 DEF SettledOf
    <2>2. QED BY <2>1, BalancedStays DEF BoughtTrue
  <1>5. QED BY <1>1, <1>3, <1>4 DEF BoughtTrue

LEMMA NotifyBought ==
    ASSUME TypeOK, BoughtTrue, NEW n \in notices, Notify(n)
    PROVE  BoughtTrue'
  <1> DEFINE o == n.order
  <1>1. CASE UNCHANGED <<orders, quota>>
    BY <1>1 DEF Notify, BoughtTrue
  <1>2. CASE ~UNCHANGED <<orders, quota>>
    <2> DEFINE b == orders[o].user  p == orders[o].package
    <2>1. /\ orders[o].status = "PENDING" /\ used' = used
          /\ orders' = [orders EXCEPT ![o].status = "PAID"]
          /\ quota' = [quota EXCEPT ![b].remain = @ + Quota[p]]
      BY <1>2 DEF Notify, MarkPaidAndGrant
    <2>2. o \in Orders
      BY DEF TypeOK, Notice
    <2>3. orders[o] \in [status: {"PENDING", "PAID"}, user: Users, package: Packages]
      BY <2>1, <2>2 DEF TypeOK, Order, NoRow
    <2>4. b \in Users /\ p \in Packages /\ Quota[p] \in Nat
      BY <2>3, PricesAssumption
    <2>5. /\ orders'[o].status = "PAID" /\ orders'[o].user = b /\ orders'[o].package = p
          /\ \A x \in Orders : x # o => orders'[x] = orders[x]
      BY <2>1, <2>2, <2>3 DEF TypeOK
    <2>6. /\ quota'[b].remain = quota[b].remain + Quota[p]
          /\ \A u \in Users : u # b => quota'[u] = quota[u]
          /\ \A u \in Users : quota[u].remain \in Nat /\ used[u] \in Nat
      BY <2>1, <2>4 DEF TypeOK, Row
    <2>7. Placed(orders') = Placed(orders)
      BY <2>1, <2>2, <2>5 DEF Placed
    <2>8. ASSUME NEW u \in Users
          PROVE  Balanced(orders', u, quota'[u].remain + used[u])
      <3>1. /\ o \notin SettledOf(orders, u)
            /\ \A x \in SettledOf(orders, u) : orders'[x] = orders[x]
        BY <2>1, <2>5 DEF SettledOf
      <3>2. Balanced(orders, u, quota[u].remain + used[u]) /\ IsFiniteSet(Placed(orders))
        BY DEF BoughtTrue
      <3>3. CASE u = b
        <4>1. SettledOf(orders', u) = SettledOf(orders, u) \cup {o}
          BY <2>2, <2>5, <3>1, <3>3 DEF SettledOf
        <4>2. Balanced(orders', u, (quota[u].remain + used[u]) + Quota[p])
          BY <2>2, <2>4, <2>5, <3>1, <3>2, <4>1, BalancedGrows
        <4>3. quota'[u].remain + used[u] = (quota[u].remain + used[u]) + Quota[p]
          BY <2>4, <2>6, <3>3
        <4>4. QED BY <4>2, <4>3
      <3>4. CASE u # b
        <4>1. SettledOf(orders', u) = SettledOf(orders, u)
          BY <2>1, <2>2, <2>5, <3>1, <3>4 DEF SettledOf
        <4>2. Balanced(orders', u, quota[u].remain + used[u])
          BY <3>1, <3>2, <4>1, BalancedStays
        <4>3. QED BY <2>6, <3>4, <4>2
      <3>5. QED BY <3>3, <3>4
    <2>9. QED BY <2>1, <2>7, <2>8 DEF BoughtTrue
  <1>3. QED BY <1>1, <1>2

LEMMA StepBought == IInv /\ BoughtTrue /\ [Next]_vars => BoughtTrue'
  <1> SUFFICES ASSUME IInv, BoughtTrue, [Next]_vars PROVE BoughtTrue'
    OBVIOUS
  <1>1. TypeOK
    BY DEF IInv
  <1>2. ASSUME NEW o \in Orders, NEW u \in Users, NEW p \in Packages, CreateOrder(o, u, p)
        PROVE  BoughtTrue'
    BY <1>1, <1>2, OrderBought
  <1>3. ASSUME NEW n \in notices, Notify(n)
        PROVE  BoughtTrue'
    BY <1>1, <1>3, NotifyBought
  <1>4. ASSUME NEW u \in Users, ConsumeFree(u) \/ ConsumeBought(u)
        PROVE  BoughtTrue'
    <2>1. orders' = orders /\ \A b \in Users : quota[b] \in Row /\ used[b] \in Nat
      BY <1>1, <1>4 DEF ConsumeFree, ConsumeBought, TypeOK
    <2>2. ASSUME NEW b \in Users
          PROVE  quota'[b].remain + used'[b] = quota[b].remain + used[b]
      <3>1. CASE ConsumeFree(u)
        BY <1>1, <2>1, <3>1 DEF ConsumeFree, TypeOK, Row
      <3>2. CASE ConsumeBought(u)
        <4>1. quota[b].remain \in Nat /\ used[b] \in Nat
          BY <2>1 DEF Row
        <4>2. CASE b = u
          <5>1. quota'[b].remain = quota[b].remain - 1 /\ used'[b] = used[b] + 1
            BY <1>1, <2>1, <3>2, <4>2 DEF ConsumeBought, TypeOK, Row
          <5>2. QED BY <4>1, <5>1
        <4>3. CASE b # u
          <5>1. quota'[b] = quota[b] /\ used'[b] = used[b]
            BY <1>1, <3>2, <4>3 DEF ConsumeBought, TypeOK
          <5>2. QED BY <5>1
        <4>4. QED BY <4>2, <4>3
      <3>3. QED BY <1>4, <3>1, <3>2
    <2>3. QED BY <2>1, <2>2 DEF BoughtTrue
  <1>5. CASE \/ \E x \in Orders : Pay(x) \/ Finish(x) \/ TimeOut(x) \/ Refund(x) \/ StartPolling(x)
             \/ \E n \in Notice : Stray(n)
             \/ \E n \in notices : GiveUp(n)
             \/ \E u \in Users : Exhausted(u)
             \/ NextDay
             \/ \E r \in Run : Query(r) \/ Receive(r) \/ ReceiveStale(r)
             \/ Leave \/ Tick \/ UNCHANGED vars
    <2>1. UNCHANGED <<orders, quota, used>>
      BY <1>5 DEF Pay, Finish, TimeOut, Refund, Trade, StartPolling, Stray, GiveUp, Exhausted,
                  NextDay, Query, Receive, ReceiveStale, Leave, Tick, shop, vars
    <2>2. QED BY <2>1 DEF BoughtTrue
  <1>6. QED BY <1>2, <1>3, <1>4, <1>5 DEF Next

(* What a user bought is what is left plus what was used: whatever notices come,  *)
(* twice, late or stray, an order grants its quota once, and a chat takes one of  *)
(* it at most (handle_notify, consume_quota).                                     *)
THEOREM NothingGrantedTwice == Spec => []Conservation
  <1>1. ASSUME BoughtTrue PROVE Conservation
    <2>1. ASSUME NEW u \in Users
          PROVE  quota[u].remain + used[u] =
                    MapThenSumSet(LAMBDA o : Quota[orders[o].package], SettledOf(orders, u))
      <3> DEFINE S == SettledOf(orders, u)
      <3>1. IsFiniteSet(S) /\ S \subseteq Orders
        BY <1>1, SettledFew DEF BoughtTrue
      <3>2. IsSum(Worth(orders), S, MapThenSumSet(LAMBDA o : Quota[orders[o].package], S))
        BY <3>1, SoldIsSum
      <3>3. IsSum(Worth(orders), S, quota[u].remain + used[u])
        BY <1>1 DEF BoughtTrue, Balanced
      <3>4. SameOn(Worth(orders), Worth(orders), S)
        BY DEF SameOn
      <3> HIDE DEF S
      <3>5. QED BY <3>1, <3>2, <3>3, <3>4, SumSame DEF S
    <2>2. QED BY <2>1 DEF Conservation, SettledOf
  <1>2. QED BY <1>1, InitBought, Inductive, StepBought, PTL DEF Spec

-----------------------------------------------------------------------------
(***************************************************************************)
(* What the result page shows.  An answer that says PAID was true when it  *)
(* was given and stays true, and the newest polling asks for the order     *)
(* that the page is about.                                                 *)
(***************************************************************************)
AnswersTrue ==
    \A r \in Run : poll[r].query = "PAID" =>
        poll[r].order \in Orders /\ orders[poll[r].order].status = "PAID"
NewestIsOwn ==
    /\ \A r \in Run : r > page.run => poll[r] = NoPoll
    /\ page.order # NoOrder =>
           page.run \in Run /\ poll[page.run].order \in {NoOrder, page.order}
TabInv == AnswersTrue /\ NewestIsOwn /\ PageTellsTheTruth

LEMMA ShopShows ==
    ASSUME IInv, TabInv, [Next]_vars, UNCHANGED tab
    PROVE  TabInv'
  <1>1. page.order # NoOrder => page.order \in Orders
    BY DEF IInv, TypeOK, Page
  <1>2. QED BY <1>1, PaidStays DEF TabInv, AnswersTrue, NewestIsOwn, PageTellsTheTruth, tab

LEMMA StartShows ==
    ASSUME IInv, TabInv, NEW o \in Orders, StartPolling(o)
    PROVE  TabInv'
  <1> DEFINE r == page.run + 1
  <1>1. /\ r \in Run /\ page.run \in Nat /\ UNCHANGED orders
        /\ page'.order = o /\ page'.run = r /\ page'.status = "loading"
        /\ poll'[r].order = o /\ poll'[r].query = "asked"
        /\ \A x \in Run : x # r => poll'[x] = poll[x]
    BY DEF IInv, TypeOK, Page, StartPolling, shop
  <1>2. \A x \in Run : x > r => x > page.run /\ x # r
    BY <1>1
  <1>3. NewestIsOwn'
    BY <1>1, <1>2 DEF TabInv, NewestIsOwn
  <1>4. AnswersTrue'
    BY <1>1 DEF TabInv, AnswersTrue
  <1>5. QED BY <1>1, <1>3, <1>4 DEF TabInv, PageTellsTheTruth

LEMMA LeaveShows ==
    ASSUME IInv, TabInv, Leave
    PROVE  TabInv'
  <1>1. /\ page'.order = NoOrder /\ page'.run = page.run + 1 /\ page.run \in Nat
        /\ UNCHANGED <<poll, orders>>
    BY DEF IInv, TypeOK, Page, Leave, shop
  <1>2. \A x \in Run : x > page'.run => x > page.run
    BY <1>1
  <1>3. QED BY <1>1, <1>2 DEF TabInv, AnswersTrue, NewestIsOwn, PageTellsTheTruth

LEMMA QueryShows ==
    ASSUME IInv, TabInv, NEW r \in Run, Query(r)
    PROVE  TabInv'
  <1>1. PICK answer \in {"error", orders[poll[r].order].status} \ {"none"} :
            poll' = [poll EXCEPT ![r].query = answer]
    BY DEF Query
  <1>2. poll[r].query = "asked" /\ UNCHANGED <<page, orders>>
    BY DEF Query, shop
  <1>3. poll[r] # NoPoll /\ poll[r] \in Poll
    BY <1>2 DEF NoPoll, IInv, TypeOK
  <1>4. /\ poll[r].order \in Orders
        /\ poll'[r].order = poll[r].order /\ poll'[r].query = answer
        /\ \A x \in Run : x # r => poll'[x] = poll[x]
    BY <1>1, <1>3 DEF IInv, TypeOK, Poll
  <1>5. AnswersTrue'
    BY <1>1, <1>2, <1>4 DEF TabInv, AnswersTrue
  <1>6. NewestIsOwn'
    BY <1>2, <1>3, <1>4 DEF TabInv, NewestIsOwn
  <1>7. QED BY <1>2, <1>5, <1>6 DEF TabInv, PageTellsTheTruth

LEMMA StaleShows ==
    ASSUME IInv, TabInv, NEW r \in Run, ReceiveStale(r)
    PROVE  TabInv'
  <1>1. /\ r # page.run /\ poll'[r] = NoPoll /\ UNCHANGED <<page, orders>>
        /\ \A x \in Run : x # r => poll'[x] = poll[x]
    BY DEF IInv, TypeOK, ReceiveStale, shop
  <1>2. QED BY <1>1 DEF TabInv, AnswersTrue, NewestIsOwn, PageTellsTheTruth, NoPoll

LEMMA ReceiveShows ==
    ASSUME IInv, TabInv, NEW r \in Run, Receive(r)
    PROVE  TabInv'
  <1>1. /\ r = page.run /\ Answered(r) /\ UNCHANGED orders
        /\ page'.order = page.order /\ page'.run = page.run
        /\ \A x \in Run : x # r => poll'[x] = poll[x]
    BY DEF IInv, TypeOK, Page, Receive, shop
  <1>2. poll[r] \in [order: Orders, attempts: Nat,
                     query: {"none", "asked", "error", "PENDING", "PAID"}]
    BY <1>1 DEF IInv, TypeOK, Poll, NoPoll, Answered
  <1>3. CASE GoesOn(r)
    <2>1. poll'[r].query = "none" /\ poll'[r].order = poll[r].order
      <3>1. poll' = [poll EXCEPT ![r] = [poll[r] EXCEPT !.query = "none"]]
        BY <1>3 DEF Receive
      <3>2. poll'[r] = [poll[r] EXCEPT !.query = "none"]
        BY <3>1 DEF IInv, TypeOK
      <3>3. QED BY <1>2, <3>2
    <2>2. page'.status = page.status
      BY <1>3 DEF IInv, TypeOK, Page, Receive
    <2>3. AnswersTrue'
      BY <1>1, <2>1 DEF TabInv, AnswersTrue
    <2>4. \A x \in Run : x > r => x # r
      OBVIOUS
    <2>5. NewestIsOwn' /\ PageTellsTheTruth'
      BY <1>1, <2>1, <2>2, <2>4 DEF TabInv, NewestIsOwn, PageTellsTheTruth
    <2>6. QED BY <2>3, <2>5 DEF TabInv
  <1>4. CASE ~GoesOn(r)
    <2>1. poll'[r] = NoPoll /\ page'.status = Verdict(r)
      BY <1>4 DEF IInv, TypeOK, Page, Receive
    <2>2. page.order # NoOrder /\ page'.status = "paid" =>
              poll[r].order = page.order /\ poll[r].query = "PAID"
      BY <1>1, <1>2, <2>1, NoOrderIsNone DEF TabInv, NewestIsOwn, Verdict
    <2>3. PageTellsTheTruth'
      BY <1>1, <2>2 DEF TabInv, AnswersTrue, PageTellsTheTruth
    <2>4. QED BY <1>1, <2>1, <2>3 DEF TabInv, AnswersTrue, NewestIsOwn, NoPoll
  <1>5. QED BY <1>3, <1>4

LEMMA TickShows ==
    ASSUME IInv, TabInv, Tick
    PROVE  TabInv'
  <1> DEFINE r == page.run
  <1>1. r \in Run /\ poll[r].order \in Orders /\ UNCHANGED orders
    BY DEF IInv, TimerHasPolling, Tick, shop
  <1>2. poll[r] \in [order: Orders, attempts: Nat,
                     query: {"none", "asked", "error", "PENDING", "PAID"}]
    BY <1>1, NoOrderIsNone DEF IInv, TypeOK, Poll, NoPoll
  <1> DEFINE asked == [poll[r] EXCEPT !.query = "asked", !.attempts = @ + 1]
  <1>3. asked.order = poll[r].order /\ asked.query = "asked"
    BY <1>2
  <1>4. poll' = [poll EXCEPT ![r] = asked]
    BY <1>1 DEF IInv, TypeOK, Tick
  <1> HIDE DEF asked
  <1>5. /\ poll'[r].order = poll[r].order /\ poll'[r].query = "asked"
        /\ \A x \in Run : x # r => poll'[x] = poll[x]
        /\ page'.order = page.order /\ page'.run = page.run /\ page'.status = page.status
    BY <1>1, <1>3, <1>4 DEF IInv, TypeOK, Page, Tick
  <1>6. \A x \in Run : x > r => x # r
    BY <1>1
  <1>7. QED BY <1>1, <1>5, <1>6 DEF TabInv, AnswersTrue, NewestIsOwn, PageTellsTheTruth

LEMMA TabKept == IInv /\ TabInv /\ [Next]_vars => TabInv'
  <1> SUFFICES ASSUME IInv, TabInv, [Next]_vars PROVE TabInv'
    OBVIOUS
  <1>1. ASSUME NEW o \in Orders, StartPolling(o) PROVE TabInv'
    BY <1>1, StartShows
  <1>2. ASSUME NEW r \in Run, Query(r) \/ Receive(r) \/ ReceiveStale(r) PROVE TabInv'
    BY <1>2, QueryShows, ReceiveShows, StaleShows
  <1>3. CASE Leave \/ Tick
    BY <1>3, LeaveShows, TickShows
  <1>4. CASE \/ \E o \in Orders :
                    \/ \E u \in Users, p \in Packages : CreateOrder(o, u, p)
                    \/ Pay(o) \/ Finish(o) \/ TimeOut(o) \/ Refund(o)
             \/ \E n \in Notice : Stray(n)
             \/ \E n \in notices : GiveUp(n) \/ Notify(n)
             \/ \E u \in Users : ConsumeFree(u) \/ ConsumeBought(u) \/ Exhausted(u)
             \/ NextDay \/ UNCHANGED vars
    <2>1. UNCHANGED tab
      BY <1>4 DEF CreateOrder, Pay, Finish, TimeOut, Refund, Trade, Stray, GiveUp, Notify,
                  ConsumeFree, ConsumeBought, Exhausted, NextDay, vars
    <2>2. QED BY <2>1, ShopShows
  <1>5. QED BY <1>1, <1>2, <1>3, <1>4 DEF Next

(* However late the answers to earlier queries arrive, and however often the user  *)
(* opens, leaves and retries: the page announces only a payment that has arrived    *)
(* (subscribe-result-page.tsx, query_payment).                                      *)
THEOREM PageIsTruthful == Spec => []PageTellsTheTruth
  <1>1. Init => TabInv
    BY DEF Init, TabInv, AnswersTrue, NewestIsOwn, PageTellsTheTruth, NoPoll
  <1>2. TabInv => PageTellsTheTruth
    BY DEF TabInv
  <1>3. QED BY <1>1, <1>2, Inductive, TabKept, PTL DEF Spec

-----------------------------------------------------------------------------
(* The ledger. *)

Left(u) == IF quota[u].freeDate = today THEN DAILY_FREE_LIMIT - quota[u].freeUsed
                                        ELSE DAILY_FREE_LIMIT
Settled == {o \in Orders : orders[o].status = "PAID"}

LEMMA LedgerInit == Init => Ledger!Init
  BY LimitsAssumption DEF Init, Ledger!Init, NoRow

LEMMA LedgerNotify ==
    ASSUME IInv, NEW n \in notices, Notify(n)
    PROVE  [Ledger!Next]_(Ledger!ledger)
  <1> DEFINE o == n.order
             u == orders[o].user
             g == Quota[orders[o].package]
  <1>1. TypeOK /\ o \in Orders /\ today' = today /\ reply' = reply
    BY DEF IInv, TypeOK, Notice, Notify
  <1>2. CASE UNCHANGED <<orders, quota>>
    BY <1>1, <1>2 DEF Ledger!ledger
  <1>3. CASE ~UNCHANGED <<orders, quota>>
    <2>1. /\ Exists(o) /\ orders[o].status = "PENDING"
          /\ orders' = [orders EXCEPT ![o].status = "PAID"]
          /\ quota' = [quota EXCEPT ![u].remain = @ + g]
      BY <1>3 DEF Notify, MarkPaidAndGrant, Settles
    <2>2. orders[o] \in [status: {"PENDING", "PAID"}, user: Users, package: Packages]
      BY <1>1, <2>1 DEF TypeOK, Order, NoRow, Exists
    <2>3. u \in Users /\ g \in {Quota[p] : p \in Packages}
      BY <2>2
    <2>4. Settled' = Settled \cup {o} /\ o \notin Settled
      BY <1>1, <2>1, <2>2 DEF Settled, TypeOK
    <2>5. \A x \in Users : quota[x] \in Row
      BY <1>1 DEF TypeOK
    <2>6. \A x \in Users : /\ quota'[x].freeDate = quota[x].freeDate
                           /\ quota'[x].freeUsed = quota[x].freeUsed
                           /\ quota'[x].remain = IF x = u THEN quota[x].remain + g
                                                         ELSE quota[x].remain
      BY <1>1, <2>1, <2>3, <2>5 DEF TypeOK, Row
    <2>7. [x \in Users |-> quota'[x].remain]
              = [[x \in Users |-> quota[x].remain] EXCEPT ![u] = @ + g]
      BY <2>3, <2>6
    <2>8. [x \in Users |-> Left(x)]' = [x \in Users |-> Left(x)]
      BY <1>1, <2>6 DEF Left
    <2>9. PICK x \in Users, y \in Orders, z \in {Quota[p] : p \in Packages} :
              x = u /\ y = o /\ z = g
      BY <1>1, <2>3
    <2>10. Ledger!Settle(y, x, z)
      BY <1>1, <2>4, <2>7, <2>8, <2>9 DEF Ledger!Settle, Settled, Left
    <2>11. QED BY <2>10 DEF Ledger!Next
  <1>4. QED BY <1>2, <1>3

LEMMA LedgerChat ==
    ASSUME IInv, NEW u \in Users, ConsumeFree(u) \/ ConsumeBought(u) \/ Exhausted(u)
    PROVE  Ledger!Next
  <1>1. TypeOK /\ CountersInBounds /\ orders' = orders /\ today' = today
    BY DEF IInv, ConsumeFree, ConsumeBought, Exhausted
  <1>2. \A x \in Users : quota[x] \in Row
    BY <1>1 DEF TypeOK
  <1>3. Left(u) = DAILY_FREE_LIMIT - FreeUsed(u) /\ FreeUsed(u) \in Nat
        /\ FreeUsed(u) <= DAILY_FREE_LIMIT
    BY <1>1, <1>2, LimitsAssumption DEF Left, FreeUsed, CountersInBounds, Row
  <1>4. CASE ConsumeFree(u)
    <2>1. \A x \in Users : /\ quota'[x].remain = quota[x].remain
                           /\ x # u => quota'[x] = quota[x]
      BY <1>1, <1>2, <1>4 DEF ConsumeFree, TypeOK, Row
    <2>2. quota'[u].freeDate = today /\ quota'[u].freeUsed = FreeUsed(u) + 1
      BY <1>1, <1>2, <1>4 DEF ConsumeFree, TypeOK, Row
    <2>3. Left(u) > 0 /\ Left(u)' = Left(u) - 1
      BY <1>1, <1>3, <1>4, <2>2, LimitsAssumption DEF ConsumeFree, Left
    <2>4. [x \in Users |-> Left(x)]' = [[x \in Users |-> Left(x)] EXCEPT ![u] = @ - 1]
      <3>1. \A x \in Users : x # u => Left(x)' = Left(x)
        BY <1>1, <2>1 DEF Left
      <3>2. \A x \in Users : Left(x)' = IF x = u THEN Left(x) - 1 ELSE Left(x)
        BY <2>3, <3>1
      <3>3. QED BY <3>2
    <2>5. Ledger!ChatFree(u)
      <3>1. [x \in Users |-> quota'[x].remain] = [x \in Users |-> quota[x].remain]
        BY <2>1
      <3>2. reply' = [reply EXCEPT ![u] = "served"]
        BY <1>4 DEF ConsumeFree, Answer
      <3>3. QED BY <1>1, <2>3, <2>4, <3>1, <3>2 DEF Ledger!ChatFree, Left
    <2>6. QED BY <2>5 DEF Ledger!Next
  <1>5. CASE ConsumeBought(u)
    <2>1. \A x \in Users : /\ quota'[x].freeDate = quota[x].freeDate
                           /\ quota'[x].freeUsed = quota[x].freeUsed
                           /\ quota'[x].remain = IF x = u THEN quota[x].remain - 1
                                                         ELSE quota[x].remain
      BY <1>1, <1>2, <1>5 DEF ConsumeBought, TypeOK, Row
    <2>2. Left(u) = 0
      BY <1>3, <1>5, LimitsAssumption DEF ConsumeBought
    <2>3. [x \in Users |-> Left(x)]' = [x \in Users |-> Left(x)]
      BY <1>1, <2>1 DEF Left
    <2>4. [x \in Users |-> quota'[x].remain]
              = [[x \in Users |-> quota[x].remain] EXCEPT ![u] = @ - 1]
      BY <2>1
    <2>5. Ledger!ChatBought(u)
      BY <1>1, <1>5, <2>2, <2>3, <2>4 DEF Ledger!ChatBought, ConsumeBought, Answer, Left
    <2>6. QED BY <2>5 DEF Ledger!Next
  <1>6. CASE Exhausted(u)
    <2>1. Left(u) = 0 /\ quota[u].remain = 0 /\ quota' = quota
      BY <1>3, <1>6, LimitsAssumption DEF Exhausted
    <2>2. Ledger!Refuse(u)
      BY <1>1, <1>6, <2>1 DEF Ledger!Refuse, Exhausted, Answer, Left
    <2>3. QED BY <2>2 DEF Ledger!Next
  <1>7. QED BY <1>4, <1>5, <1>6

LEMMA LedgerDay ==
    ASSUME IInv, NextDay
    PROVE  Ledger!Next
  <1>1. \A u \in Users : quota[u].freeDate \in Nat /\ quota[u].freeDate <= today
    BY DEF IInv, TypeOK, Row, CountersInBounds
  <1>2. today \in Nat /\ today' = today + 1 /\ UNCHANGED <<orders, quota, reply>>
    BY DEF IInv, TypeOK, NextDay
  <1>3. \A u \in Users : quota[u].freeDate # today + 1
    BY <1>1, <1>2
  <1>4. Ledger!NewDay
    BY <1>2, <1>3 DEF Ledger!NewDay
  <1>5. QED BY <1>4 DEF Ledger!Next

LEMMA LedgerStep == IInv /\ [Next]_vars => [Ledger!Next]_(Ledger!ledger)
  <1> SUFFICES ASSUME IInv, [Next]_vars PROVE [Ledger!Next]_(Ledger!ledger)
    OBVIOUS
  <1>1. ASSUME NEW o \in Orders, NEW u \in Users, NEW p \in Packages, CreateOrder(o, u, p)
        PROVE  UNCHANGED Ledger!ledger
    <2>1. orders[o].status # "PAID" /\ orders'[o].status # "PAID"
          /\ \A x \in Orders : x # o => orders'[x] = orders[x]
      BY <1>1 DEF IInv, TypeOK, CreateOrder, Exists
    <2>2. Settled' = Settled
      BY <2>1 DEF Settled
    <2>3. QED BY <1>1, <2>2 DEF CreateOrder, Ledger!ledger, Settled
  <1>2. CASE UNCHANGED <<orders, quota, today, reply>>
    BY <1>2 DEF Ledger!ledger
  <1>3. ASSUME NEW n \in notices, Notify(n)
        PROVE  [Ledger!Next]_(Ledger!ledger)
    BY <1>3, LedgerNotify
  <1>4. ASSUME NEW u \in Users, ConsumeFree(u) \/ ConsumeBought(u) \/ Exhausted(u)
        PROVE  Ledger!Next
    BY <1>4, LedgerChat
  <1>5. CASE NextDay
    BY <1>5, LedgerDay
  <1>6. CASE \/ \E o \in Orders : Pay(o) \/ Finish(o) \/ TimeOut(o) \/ Refund(o) \/ StartPolling(o)
             \/ \E n \in Notice : Stray(n)
             \/ \E n \in notices : GiveUp(n)
             \/ \E r \in Run : Query(r) \/ Receive(r) \/ ReceiveStale(r)
             \/ Leave \/ Tick \/ UNCHANGED vars
    <2>1. UNCHANGED <<orders, quota, today, reply>>
      BY <1>6 DEF Pay, Finish, TimeOut, Refund, Trade, StartPolling, Stray, GiveUp, Query,
                  Receive, ReceiveStale, Leave, Tick, shop, vars
    <2>2. QED BY <1>2, <2>1
  <1>7. QED BY <1>1, <1>3, <1>4, <1>5, <1>6 DEF Next

(* The rows, dates and notices of the payment component implement the ledger:    *)
(* every purchase is credited at most once, a chat uses the free allowance of     *)
(* the day first, and is refused only when nothing is left (consume_quota).       *)
THEOREM LedgerImplemented == Spec => ImplementsLedger
  <1>1. Init /\ [][Next]_vars /\ []IInv => Ledger!Init /\ [][Ledger!Next]_(Ledger!ledger)
    BY LedgerInit, LedgerStep, PTL
  <1>2. QED BY <1>1, Inductive, PTL DEF Spec, ImplementsLedger, Ledger!Spec
====
