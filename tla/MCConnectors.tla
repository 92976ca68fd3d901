----------------------------- MODULE MCConnectors -----------------------------
(* The circumstances in which TLC examines Connectors. *)
EXTENDS Connectors

\* One user after another request, nothing fails.
Quiet == [users |-> {"ann"}, overlap |-> FALSE, faults |-> FALSE, renews |-> TRUE, rotates |-> TRUE, preset |-> FALSE]
Keeping == [Quiet EXCEPT !.rotates = FALSE, !.preset = TRUE]
\* A server that gives no refresh tokens.
Short == [Quiet EXCEPT !.renews = FALSE]
\* Two tabs of one user, a server that fails.
Busy == [users |-> {"ann"}, overlap |-> TRUE, faults |-> TRUE, renews |-> TRUE, rotates |-> TRUE, preset |-> FALSE]
Faulty == [Quiet EXCEPT !.faults = TRUE]
\* Two users.
Pair == [users |-> {"ann", "bob"}, overlap |-> FALSE, faults |-> FALSE, renews |-> TRUE, rotates |-> FALSE,
         preset |-> TRUE]

AllSurroundings == {Quiet, Keeping, Short, Busy, Faulty, Pair}
JustPair == {Pair}
=============================================================================
