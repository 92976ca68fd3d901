----------------------------- MODULE MCChatTurns -----------------------------
(* The surroundings in which TLC examines ChatTurns. *)
EXTENDS ChatTurns

\* Every event there is, from one tab.
OneTab == [tabs |-> 1, turns |-> 3, events |-> EventNames \ {"api"}]
\* Two tabs whose turns race each other.
TwoTabs == [tabs |-> 2, turns |-> 3, events |-> {"fail", "switch", "regenerate", "api"}]
TwoTabsStopping == [tabs |-> 2, turns |-> 3, events |-> {"stop", "regenerate"}]
\* A long undisturbed conversation, and one that meets faults only.
Undisturbed == [tabs |-> 1, turns |-> 5, events |-> {"switch", "regenerate"}]
Faulty == [tabs |-> 1, turns |-> 4, events |-> {"fail", "vanish", "crash", "switch"}]
\* One tab that presses stop.
Stopping == [tabs |-> 1, turns |-> 4, events |-> {"stop"}]
StopAndRegenerate == [tabs |-> 1, turns |-> 3, events |-> {"stop", "fail", "regenerate"}]

AllSurroundings == {OneTab, TwoTabs, TwoTabsStopping, Undisturbed, Faulty}
JustStopping == {Stopping}
JustStopAndRegenerate == {StopAndRegenerate}
=============================================================================
