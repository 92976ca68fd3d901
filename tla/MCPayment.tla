------------------------------ MODULE MCPayment ------------------------------
(* Small instances of Payment for TLC. *)
EXTENDS Payment

\* Amounts as Alipay may send them, and what the package grants (scaled down).
Prices == [trial |-> "9.90", mini |-> "0.01"]
Quotas == [trial |-> 2, mini |-> 1]

Chatting == [users |-> {"ann", "bob"}, packages |-> {"trial", "mini"},
             chats |-> TRUE, page |-> FALSE, strays |-> FALSE, deaf |-> FALSE]
Noise    == [users |-> {"ann"}, packages |-> {"mini"},
             chats |-> FALSE, page |-> FALSE, strays |-> TRUE, deaf |-> TRUE]
Watching == [users |-> {"ann"}, packages |-> {"mini"},
             chats |-> FALSE, page |-> TRUE, strays |-> FALSE, deaf |-> FALSE]
AllSurroundings == {Chatting, Noise, Watching}
=============================================================================
