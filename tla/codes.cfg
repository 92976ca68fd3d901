SPECIFICATION FairSpec
CONSTANTS
    Emails <- TwoPersons
    Spellings <- Typed
    Normal <- NormalForm
    Codes = {c1, c2}
    Pages = {p1, p2}
    Plans <- TwoPlans
    None = None
    ann = ann
    bob = bob
    Bob = Bob
    Ann = Ann
    typo = typo
INVARIANT TypeOK
INVARIANT CodeOpensOnce
INVARIANT ShownIsOwner
PROPERTY SignsIn
CHECK_DEADLOCK FALSE
