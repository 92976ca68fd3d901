----------------------------- MODULE MCEmailCodes -----------------------------
(* A person at two browsers who may mistype, or take another's address; each *)
(* address has an account or none.                                           *)
EXTENDS EmailCodes

CONSTANTS ann, bob, Ann, Bob, typo

TwoPersons == {ann, bob}
Typed == {Ann, Bob, typo}
NormalForm == [s \in Typed |-> CASE s = Ann -> ann [] s = Bob -> bob [] OTHER -> None]

\* Two browsers and one thing that goes wrong, or one browser, whichever, and two.
TwoPlans ==
  {[pages |-> Pages, email |-> ann, slips |-> 1],
   [pages |-> {CHOOSE p \in Pages : TRUE}, email |-> ann, slips |-> 2]}
=============================================================================
