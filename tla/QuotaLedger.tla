----------------------------- MODULE QuotaLedger -----------------------------
(***************************************************************************)
(* What the payment component promises its users, without orders'          *)
(* notifications, dates and rows: a purchase is credited once, every day   *)
(* brings a fresh free allowance, a chat uses the allowance before the     *)
(* credit, and is refused only when both are used up.                      *)
(***************************************************************************)
EXTENDS Naturals

CONSTANTS
    Users, Orders,
    Grants,     \* what a purchase may bring
    FreeLimit   \* what a day brings

VARIABLES
    settled,    \* the orders that have been credited
    credit,     \* per user: bought chats that are left
    allowance,  \* per user: free chats that are left today
    reply       \* per user: what became of the last chat request

ledger == <<settled, credit, allowance, reply>>

Init ==
    /\ settled = {}
    /\ credit = [u \in Users |-> 0]
    /\ allowance = [u \in Users |-> FreeLimit]
    /\ reply = [u \in Users |-> "none"]

Settle(o, u, n) ==
    /\ o \notin settled
    /\ settled' = settled \cup {o}
    /\ credit' = [credit EXCEPT ![u] = @ + n]
    /\ UNCHANGED <<allowance, reply>>

ChatFree(u) ==
    /\ allowance[u] > 0
    /\ allowance' = [allowance EXCEPT ![u] = @ - 1]
    /\ reply' = [reply EXCEPT ![u] = "served"]
    /\ UNCHANGED <<settled, credit>>

ChatBought(u) ==
    /\ allowance[u] = 0 /\ credit[u] > 0
    /\ credit' = [credit EXCEPT ![u] = @ - 1]
    /\ reply' = [reply EXCEPT ![u] = "served"]
    /\ UNCHANGED <<settled, allowance>>

Refuse(u) ==
    /\ allowance[u] = 0 /\ credit[u] = 0
    /\ reply' = [reply EXCEPT ![u] = "refused"]
    /\ UNCHANGED <<settled, credit, allowance>>

NewDay ==
    /\ allowance' = [u \in Users |-> FreeLimit]
    /\ UNCHANGED <<settled, credit, reply>>

Next ==
    \/ \E u \in Users :
        \/ \E o \in Orders, n \in Grants : Settle(o, u, n)
        \/ ChatFree(u) \/ ChatBought(u) \/ Refuse(u)
    \/ NewDay

Spec == Init /\ [][Next]_ledger
=============================================================================
