--------------------------- MODULE EmailCodesProofs ---------------------------
(***************************************************************************)
(* Theorems about EmailCodes for any addresses, codes, browsers and slips. *)
(***************************************************************************)
EXTENDS EmailCodes, SequenceTheorems, WellFoundedInduction, TLAPS

CodeRow == [email : Emails, purpose : Purposes, code : Codes,
            expired : BOOLEAN, consumed : BOOLEAN]
TokenRow == [email : Emails, row : DOMAIN rows, dead : BOOLEAN]

(***************************************************************************)
(* The inductive invariant, part by part.  The tables and the mails; the   *)
(* request that the loop is running, which names a row and is the taken    *)
(* request of its page; the requests, whose addresses were typed and whose *)
(* tokens were signed; the pages.                                          *)
(***************************************************************************)
DataInv ==
  /\ users \subseteq Emails
  /\ rows \in Seq(CodeRow)
  /\ issued \in Seq(TokenRow)
  /\ post \cup inbox \subseteq DOMAIN rows

LoopInv ==
  /\ loop \in [page : Pages \cup {None}, kind : Kinds \cup {None},
               row : {0} \cup DOMAIN rows]
  /\ loop.kind \in {None, "send", "verify"}
  /\ loop.kind # None => loop.row \in DOMAIN rows
  /\ loop.kind = None => loop = Idle
  /\ loop.page # None => slot[loop.page][loop.kind].st = "taken"

\* What a request of each kind can be answered.
Answers(k) == Refusals \cup (CASE k = "send" -> {"sent"} [] k = "verify" -> {"signed"}
                               [] OTHER -> {"user"})

SlotsInv ==
  /\ slot \in [Pages -> [Kinds -> Request]]
  /\ \A p \in Pages, k \in Kinds :
       slot[p][k].st = "answered" => slot[p][k].answer \in Answers(k)
  /\ \A p \in Pages :
       /\ slot[p]["send"].st # "idle" =>
            slot[p]["send"].email \in Spellings /\ slot[p]["send"].purpose \in Purposes
       /\ slot[p]["verify"].answer = "signed" => slot[p]["verify"].token \in DOMAIN issued
       /\ slot[p]["me"].st # "idle" => slot[p]["me"].token \in DOMAIN issued

PagesInv ==
  /\ page \in [Pages -> Page]
  /\ \A p \in Pages :
       /\ slot[p]["send"].st # "idle" => page[p].email \in Spellings
       /\ page[p].view = "code" => page[p].email \in Spellings
       /\ page[p].token \in {0} \cup DOMAIN issued

PlanInv == plan \in [pages : SUBSET Pages, email : Emails, slips : Nat]

IInv == DataInv /\ LoopInv /\ SlotsInv /\ PagesInv /\ PlanInv /\ CodeOpensOnce

LEMMA IInvTyped == IInv => TypeOK
  BY DEF IInv, DataInv, LoopInv, SlotsInv, PagesInv, PlanInv, TypeOK, CodeRow, TokenRow

(***************************************************************************)
(* Sequences of rows.                                                      *)
(***************************************************************************)
LEMMA RowsAreSeq ==
  ASSUME DataInv
  PROVE  /\ rows \in Seq(CodeRow) /\ issued \in Seq(TokenRow)
         /\ Len(rows) \in Nat /\ DOMAIN rows = 1..Len(rows)
         /\ \A r \in DOMAIN rows : rows[r] \in CodeRow
         /\ Len(issued) \in Nat /\ DOMAIN issued = 1..Len(issued)
         /\ \A t \in DOMAIN issued : issued[t] \in TokenRow
  <1>1. rows \in Seq(CodeRow) /\ issued \in Seq(TokenRow)
    BY DEF DataInv
  <1>2. \A S : \A q \in Seq(S) : /\ Len(q) \in Nat /\ DOMAIN q = 1..Len(q)
                                /\ \A i \in DOMAIN q : q[i] \in S
    BY LenProperties
  <1>3. QED BY <1>1, <1>2

\* A function on the indices of the rows is a sequence as long.
LEMMA SameLength ==
  ASSUME NEW S, NEW n \in Nat, NEW f \in [1..n -> S]
  PROVE  f \in Seq(S) /\ DOMAIN f = 1..n /\ Len(f) = n
  <1>1. f \in Seq(S)
    BY SeqDef
  <1>2. QED BY <1>1, LenProperties

LEMMA Appended ==
  ASSUME NEW S, NEW s \in Seq(S), NEW e \in S
  PROVE  /\ Append(s, e) \in Seq(S)
         /\ DOMAIN Append(s, e) = 1..(Len(s) + 1) /\ Len(Append(s, e)) = Len(s) + 1
         /\ Append(s, e)[Len(s) + 1] = e
         /\ \A i \in 1..Len(s) : Append(s, e)[i] = s[i]
  <1>1. Append(s, e) \in Seq(S) /\ Len(Append(s, e)) = Len(s) + 1
    OBVIOUS
  <1>2. QED BY <1>1, LenProperties

\* A set of indices that is not empty has a greatest element.
LEMMA Greatest ==
  ASSUME NEW n \in Nat, NEW T \in SUBSET (1..n), T # {}
  PROVE  \E r \in T : \A q \in T : q <= r
  <1> DEFINE Below == {ss \in Nat \X Nat : ss[1] < ss[2]}
             D == {n - r : r \in T}
  <1>1. IsWellFoundedOn(Below, Nat)
    BY NatLessThanWellFounded DEF OpToRel
  <1>2. D \subseteq Nat
    BY SMT
  <1>3. D # {}
    BY Zenon
  <1>4. \E x \in D : \A y \in D : <<y, x>> \notin Below
    <2> HIDE DEF Below, D
    <2> QED BY <1>1, <1>2, <1>3, WFMin
  <1>5. PICK r \in T : \A y \in D : <<y, n - r>> \notin Below
    BY <1>4
  <1>6. \A q \in T : q <= r
    <2> TAKE q \in T
    <2>1. n - q \in D
      OBVIOUS
    <2>2. n - q \in Nat /\ n - r \in Nat /\ q \in Nat /\ r \in Nat
      OBVIOUS
    <2>3. ~(n - q < n - r)
      BY <2>1, <2>2, <1>5
    <2> HIDE DEF D
    <2>4. QED BY <2>2, <2>3
  <1>7. QED BY <1>6

\* The newest code of an address is one of its codes, and no other is newer.
LEMMA Latest ==
  ASSUME DataInv, NEW email, NEW purpose, CodesOf(email, purpose) # {}
  PROVE  LET r == get_latest_email_code(email, purpose) IN
           /\ r \in CodesOf(email, purpose)
           /\ \A q \in CodesOf(email, purpose) : q <= r
  <1> DEFINE T == CodesOf(email, purpose)
  <1>1. T \in SUBSET (1..Len(rows)) /\ Len(rows) \in Nat
    BY RowsAreSeq DEF CodesOf
  <1>2. \E r \in T : \A q \in T : q <= r
    BY <1>1, Greatest
  <1>3. QED BY <1>2 DEF get_latest_email_code

LEMMA InitInv == Init => IInv
  <1> SUFFICES ASSUME Init PROVE IInv
    OBVIOUS
  <1> USE DEF Init
  <1>1. DataInv
    BY EmptySeq DEF DataInv
  <1>2. DOMAIN issued = {}
    OBVIOUS
  <1>3. LoopInv
    BY DEF LoopInv, Idle, Kinds
  <1>4. Quiet \in Request /\ Quiet.st = "idle" /\ Quiet.answer # "signed"
    BY NoneAssumption DEF Quiet, Request
  <1>5. SlotsInv
    BY <1>4 DEF SlotsInv, Kinds
  <1>6. page \in [Pages -> Page]
    BY DEF Page, Purposes
  <1>7. PagesInv
    BY <1>4, <1>6 DEF PagesInv, Kinds
  <1>8. PlanInv
    BY PlansAssumption DEF PlanInv
  <1>9. CodeOpensOnce
    BY DEF CodeOpensOnce
  <1>10. QED BY <1>1, <1>3, <1>5, <1>7, <1>8, <1>9 DEF IInv

-----------------------------------------------------------------------------
(* What an action that leaves a part alone keeps of it.                    *)

LEMMA SlipTyped ==
  ASSUME PlanInv, NEW wrong, SlipIf(wrong)
  PROVE  PlanInv'
  BY DEF PlanInv, SlipIf

\* The code rows and tokens are untouched, and the loop goes on or goes idle.
LEMMA CodesKept ==
  ASSUME CodeOpensOnce, UNCHANGED <<rows, issued>>, LoopInv,
         loop'.kind = "verify" => loop.kind = "verify" /\ loop'.row = loop.row
  PROVE  CodeOpensOnce'
  BY DEF CodeOpensOnce, Verifying, CodesOf

\* An answer that signs nobody in, to a request that was made.
LEMMA AnswerKept ==
  ASSUME SlotsInv, PagesInv, UNCHANGED <<issued, page>>, LoopInv,
         NEW p, NEW k \in Kinds, NEW a \in Answers(k) \ {"signed"}, Answer(p, k, a),
         p # None => p \in Pages /\ slot[p][k].st # "idle"
  PROVE  SlotsInv' /\ PagesInv'
  <1>1. CASE p = None
    BY <1>1 DEF Answer, SlotsInv, PagesInv
  <1>2. CASE p # None
    <2>1. slot' = [slot EXCEPT ![p][k].st = "answered", ![p][k].answer = a]
      BY <1>2 DEF Answer
    <2>2. p \in Pages /\ slot[p][k] \in Request
      BY <1>2 DEF SlotsInv
    <2>3. [slot[p][k] EXCEPT !.st = "answered", !.answer = a] \in Request
      <3>1. a \in Refusals \cup {"sent", "user"}
        BY DEF Answers, Kinds
      <3>2. QED BY <2>2, <3>1 DEF Request
    <2>4. slot' \in [Pages -> [Kinds -> Request]]
      BY <2>1, <2>2, <2>3 DEF SlotsInv
    <2>5. \A q \in Pages, l \in Kinds :
            slot'[q][l] = IF q = p /\ l = k
                          THEN [slot[p][k] EXCEPT !.st = "answered", !.answer = a]
                          ELSE slot[q][l]
      BY <2>1, <2>2 DEF SlotsInv
    <2>6. slot[p][k].st # "idle" /\ a # "signed"
      BY <1>2
    <2>7. \A q \in Pages, l \in Kinds :
            /\ slot'[q][l].st # "idle" => slot[q][l].st # "idle"
            /\ slot'[q][l].answer = "signed" => slot[q][l].answer = "signed"
            /\ slot'[q][l].email = slot[q][l].email
            /\ slot'[q][l].purpose = slot[q][l].purpose
            /\ slot'[q][l].token = slot[q][l].token
            /\ slot'[q][l].st = "answered" =>
                 slot'[q][l].answer \in Answers(l) \/ UNCHANGED slot[q][l]
      <3> TAKE q \in Pages, l \in Kinds
      <3>1. CASE q = p /\ l = k
        BY <2>2, <2>5, <2>6, <3>1 DEF Request
      <3>2. CASE ~(q = p /\ l = k)
        BY <2>5, <3>2
      <3>3. QED BY <3>1, <3>2
    <2>8. QED BY <2>4, <2>7 DEF SlotsInv, PagesInv, Kinds
  <1>3. QED BY <1>1, <1>2

\* The loop takes a request.
LEMMA TakenKept ==
  ASSUME SlotsInv, PagesInv, UNCHANGED <<issued, page>>,
         NEW p \in Pages, NEW k \in Kinds, slot[p][k].st = "asked",
         slot' = [slot EXCEPT ![p][k].st = "taken"]
  PROVE  SlotsInv' /\ PagesInv' /\ slot'[p][k].st = "taken"
  <1>1. slot[p][k] \in Request
    BY DEF SlotsInv
  <1>2. [slot[p][k] EXCEPT !.st = "taken"] \in Request
    BY <1>1 DEF Request
  <1>3. slot' \in [Pages -> [Kinds -> Request]]
    BY <1>2 DEF SlotsInv
  <1>4. \A q \in Pages, l \in Kinds :
          slot'[q][l] = IF q = p /\ l = k THEN [slot[p][k] EXCEPT !.st = "taken"]
                        ELSE slot[q][l]
    BY DEF SlotsInv
  <1>5. \A q \in Pages, l \in Kinds :
          /\ slot'[q][l].st # "idle" => slot[q][l].st # "idle"
          /\ slot'[q][l].st = "answered" => slot[q][l].st = "answered"
          /\ slot'[q][l].answer = slot[q][l].answer /\ slot'[q][l].email = slot[q][l].email
          /\ slot'[q][l].purpose = slot[q][l].purpose /\ slot'[q][l].token = slot[q][l].token
    <2> TAKE q \in Pages, l \in Kinds
    <2>1. CASE q = p /\ l = k
      BY <1>1, <1>4, <2>1 DEF Request
    <2>2. CASE ~(q = p /\ l = k)
      BY <1>4, <2>2
    <2>3. QED BY <2>1, <2>2
  <1>6. slot'[p][k].st = "taken"
    BY <1>1, <1>4 DEF Request
  <1>7. QED BY <1>3, <1>5, <1>6 DEF SlotsInv, PagesInv, Kinds

LEMMA TokensGrow ==
  ASSUME DataInv, UNCHANGED issued, DOMAIN rows \subseteq DOMAIN rows'
  PROVE  issued' \in Seq(TokenRow')
  <1>1. TokenRow \subseteq TokenRow'
    BY DEF TokenRow
  <1>2. issued \in Seq(TokenRow')
    <2> HIDE DEF TokenRow
    <2> QED BY <1>1, SeqMonotonic DEF DataInv
  <1>3. QED BY <1>2

\* The loop goes on with its request, which stays taken.
LEMMA LoopKept ==
  ASSUME LoopInv, UNCHANGED loop, DOMAIN rows \subseteq DOMAIN rows',
         \A p \in Pages, k \in Kinds : slot[p][k].st = "taken" => slot'[p][k].st = "taken"
  PROVE  LoopInv'
  <1>1. loop.page # None => loop.page \in Pages /\ loop.kind \in Kinds
    BY DEF LoopInv, Idle, Kinds
  <1>2. QED BY <1>1 DEF LoopInv

\* The loop has nothing to do.
LEMMA LoopIdle ==
  ASSUME loop' = Idle
  PROVE  LoopInv'
  BY NoneAssumption DEF LoopInv, Idle, Kinds

\* A page starts a request, or is done with one.
LEMMA SlotPut ==
  ASSUME SlotsInv, UNCHANGED issued, NEW p \in Pages, NEW k \in Kinds, NEW x \in Request, x.st # "answered",
         slot' = [slot EXCEPT ![p][k] = x],
         k = "send" /\ x.st # "idle" => x.email \in Spellings /\ x.purpose \in Purposes,
         k = "verify" => x.answer # "signed",
         k = "me" /\ x.st # "idle" => x.token \in DOMAIN issued
  PROVE  /\ SlotsInv'
         /\ \A q \in Pages, l \in Kinds : slot'[q][l] = IF q = p /\ l = k THEN x ELSE slot[q][l]
  <1>1. slot' \in [Pages -> [Kinds -> Request]]
    BY DEF SlotsInv
  <1>2. \A q \in Pages, l \in Kinds : slot'[q][l] = IF q = p /\ l = k THEN x ELSE slot[q][l]
    BY DEF SlotsInv
  <1>3. QED BY <1>1, <1>2 DEF SlotsInv, Kinds

\* A page changes.
LEMMA PagePut ==
  ASSUME PagesInv, UNCHANGED issued, NEW p \in Pages, NEW w \in Page, Set(p, w),
         slot'[p]["send"].st # "idle" => w.email \in Spellings,
         \A q \in Pages \ {p} : slot'[q]["send"].st # "idle" => slot[q]["send"].st # "idle",
         w.view = "code" => w.email \in Spellings,
         w.token \in {0} \cup DOMAIN issued
  PROVE  PagesInv'
  <1>1. page' \in [Pages -> Page] /\ \A q \in Pages : page'[q] = IF q = p THEN w ELSE page[q]
    BY DEF PagesInv, Set
  <1>2. QED BY <1>1 DEF PagesInv

\* Nothing happened to the tables.
LEMMA DataKept ==
  ASSUME DataInv, CodeOpensOnce, LoopInv, UNCHANGED <<users, rows, issued, mail, loop>>
  PROVE  DataInv' /\ CodeOpensOnce' /\ DOMAIN rows \subseteq DOMAIN rows'
  <1>1. CodeOpensOnce'
    BY CodesKept
  <1>2. QED BY <1>1 DEF DataInv, mail, TokenRow

-----------------------------------------------------------------------------
(* The server. *)

LEMMA SaveCodeKeeps ==
  ASSUME IInv, NEW p \in Pages, SaveCode(p)
  PROVE  IInv'
  <1> DEFINE q == slot[p]["send"]
             email == normalize_email(q.email)
             n == Len(rows)
  <1>1. q.st = "asked" /\ loop = Idle /\ q.email \in Spellings /\ q.purpose \in Purposes
    BY DEF SaveCode, Receives, IInv, SlotsInv
  <1>2. SendRefusal(email, q.purpose) = None
    BY DEF SaveCode
  <1>3. email \in Emails
    BY <1>1, <1>2, NormalAssumption, NoneAssumption DEF SendRefusal, normalize_email
  <1> HIDE DEF email
  <1>4. PICK c \in Codes : rows' = save_email_code(email, q.purpose, c)
    BY DEF SaveCode, email
  <1> DEFINE new == [email |-> email, purpose |-> q.purpose, code |-> c,
                     expired |-> FALSE, consumed |-> FALSE]
             old == [r \in DOMAIN rows |->
                       IF r \in CodesOf(email, q.purpose)
                       THEN [rows[r] EXCEPT !.consumed = TRUE] ELSE rows[r]]
  <1>5. rows' = Append(old, new)
    BY <1>4 DEF save_email_code
  <1>6. new \in CodeRow
    BY <1>1, <1>3 DEF CodeRow
  <1>7. n \in Nat /\ DOMAIN rows = 1..n /\ \A r \in DOMAIN rows : rows[r] \in CodeRow
    BY RowsAreSeq DEF IInv
  <1>8. \A r \in DOMAIN rows : [rows[r] EXCEPT !.consumed = TRUE] \in CodeRow
    BY <1>7 DEF CodeRow
  <1>9. old \in [1..n -> CodeRow]
    BY <1>7, <1>8
  <1>10. old \in Seq(CodeRow) /\ DOMAIN old = 1..n /\ Len(old) = n
    <2> HIDE DEF old, n
    <2> QED BY <1>7, <1>9, SameLength
  <1>11. /\ rows' \in Seq(CodeRow) /\ DOMAIN rows' = 1..(n + 1)
         /\ rows'[n + 1] = new
         /\ \A r \in 1..n : rows'[r] = old[r]
    <2> HIDE DEF old, new, n
    <2> QED BY <1>5, <1>6, <1>10, Appended
  <1>12. \A r \in DOMAIN rows :
           /\ rows'[r].email = rows[r].email /\ rows'[r].purpose = rows[r].purpose
           /\ rows[r].consumed => rows'[r].consumed
           /\ rows'[r].consumed => rows[r].consumed \/ r \in CodesOf(email, q.purpose)
    <2> TAKE r \in DOMAIN rows
    <2>1. rows'[r] = IF r \in CodesOf(email, q.purpose)
                     THEN [rows[r] EXCEPT !.consumed = TRUE] ELSE rows[r]
      BY <1>7, <1>11
    <2>2. rows[r] \in CodeRow
      BY <1>7
    <2>3. QED BY <2>1, <2>2 DEF CodeRow
  <1>13. DOMAIN rows \subseteq DOMAIN rows' /\ n + 1 \in DOMAIN rows'
    BY <1>7, <1>11
  <1>16. /\ loop' = [page |-> p, kind |-> "send", row |-> n + 1]
         /\ slot' = [slot EXCEPT ![p]["send"].st = "taken"]
         /\ UNCHANGED <<users, issued, mail, page, plan>>
    BY DEF SaveCode
  <1>17. DataInv'
    BY <1>11, <1>13, <1>16, TokensGrow DEF IInv, DataInv, mail
  <1>18. SlotsInv' /\ PagesInv' /\ slot'[p]["send"].st = "taken"
    BY <1>1, <1>16, TakenKept DEF IInv, Kinds
  <1>19. LoopInv'
    BY <1>13, <1>16, <1>18, NoneAssumption DEF LoopInv, Kinds
  <1>22. CodeOpensOnce'
    <2>1. \A t \in DOMAIN issued : issued[t].row \in DOMAIN rows
      BY RowsAreSeq DEF IInv, TokenRow
    <2>2. ASSUME NEW r \in DOMAIN rows', rows'[r].consumed
          PROVE  \/ \E s \in DOMAIN rows' : /\ rows'[s].email = rows'[r].email
                                           /\ rows'[s].purpose = rows'[r].purpose /\ s > r
                 \/ \E t \in DOMAIN issued : issued[t].row = r
      <3>1. r \in DOMAIN rows
        BY <1>7, <1>11, <2>2
      <3>2. CASE r \in CodesOf(email, q.purpose)
        <4>1. /\ rows'[r].email = email /\ rows'[r].purpose = q.purpose /\ n + 1 > r
              /\ rows'[n + 1].email = email /\ rows'[n + 1].purpose = q.purpose
          BY <1>7, <1>11, <1>12, <3>1, <3>2 DEF CodesOf
        <4>2. QED BY <1>13, <4>1
      <3>3. CASE rows[r].consumed
        <4>1. \/ \E s \in DOMAIN rows : rows[s].email = rows[r].email
                                        /\ rows[s].purpose = rows[r].purpose /\ s > r
              \/ \E t \in DOMAIN issued : issued[t].row = r
          BY <3>1, <3>3 DEF IInv, CodeOpensOnce, CodesOf
        <4>2. QED BY <1>12, <1>13, <3>1, <4>1
      <3>4. QED BY <1>12, <2>2, <3>1, <3>2, <3>3
    <2>3. \A t \in DOMAIN issued' : rows'[issued'[t].row].consumed
      BY <1>12, <1>16, <2>1 DEF IInv, CodeOpensOnce
    <2>4. \A t, u \in DOMAIN issued' : issued'[t].row = issued'[u].row => t = u
      BY <1>16 DEF IInv, CodeOpensOnce
    <2>5. loop'.kind # "verify"
      BY <1>16
    <2>6. QED BY <1>16, <2>2, <2>3, <2>4, <2>5 DEF CodeOpensOnce, CodesOf, Verifying
  <1>23. QED BY <1>16, <1>17, <1>18, <1>19, <1>22 DEF IInv, PlanInv

\* A request is answered with a refusal, at once.
LEMMA RefusedKeeps ==
  ASSUME IInv, NEW p \in Pages, NEW k \in Kinds, NEW a \in Answers(k) \ {"signed"},
         Receives(p, k), Answer(p, k, a), UNCHANGED <<server, mail, page, plan>>
  PROVE  IInv'
  <1>1. UNCHANGED <<users, rows, issued, loop, mail, page, plan>>
    BY DEF server
  <1>2. loop = Idle /\ slot[p][k].st # "idle"
    BY DEF Receives
  <1>3. DataInv' /\ CodeOpensOnce'
    BY <1>1, DataKept DEF IInv
  <1>4. LoopInv'
    BY <1>1, <1>2, LoopIdle
  <1>5. SlotsInv' /\ PagesInv'
    BY <1>1, <1>2, AnswerKept DEF IInv
  <1>6. QED BY <1>1, <1>3, <1>4, <1>5 DEF IInv, PlanInv

LEMMA ServeKeeps ==
  ASSUME IInv, NEW p \in Pages, RefuseSend(p) \/ RefuseCode(p) \/ ServeMe(p)
  PROVE  IInv'
  <1>1. CASE RefuseSend(p)
    <2> DEFINE why == SendRefusal(normalize_email(slot[p]["send"].email), slot[p]["send"].purpose)
    <2>1. why \in Refusals
      BY <1>1 DEF RefuseSend, SendRefusal, Refusals
    <2>2. /\ Receives(p, "send") /\ Answer(p, "send", why)
          /\ UNCHANGED <<server, mail, page, plan>>
      BY <1>1 DEF RefuseSend
    <2> HIDE DEF why
    <2>3. QED BY <2>1, <2>2, RefusedKeeps DEF Kinds, Answers, Refusals
  <1>2. CASE RefuseCode(p)
    <2> DEFINE q == slot[p]["verify"]
               why == VerifyRefusal(normalize_email(q.email), q.purpose, q.code)
    <2>1. \A email, purpose : SendRefusal(email, purpose) \in Refusals \cup {None}
      BY DEF SendRefusal, Refusals
    <2>2. why \in Refusals
      BY <1>2, <2>1 DEF RefuseCode, VerifyRefusal, Refusals
    <2>3. /\ Receives(p, "verify") /\ Answer(p, "verify", why)
          /\ UNCHANGED <<server, mail, page, plan>>
      BY <1>2 DEF RefuseCode
    <2> HIDE DEF why
    <2>4. QED BY <2>2, <2>3, RefusedKeeps DEF Kinds, Answers, Refusals
  <1>3. CASE ServeMe(p)
    <2> DEFINE t == slot[p]["me"].token
               a == IF issued[t].dead \/ ~get_user_by_id(t) THEN "401" ELSE "user"
    <2>1. Receives(p, "me") /\ Answer(p, "me", a) /\ UNCHANGED <<server, mail, page, plan>>
      BY <1>3 DEF ServeMe
    <2>2. a \in Answers("me") \ {"signed"}
      BY DEF Refusals, Answers
    <2> HIDE DEF a
    <2>3. QED BY <2>1, <2>2, RefusedKeeps DEF Kinds
  <1>4. QED BY <1>1, <1>2, <1>3

\* A request of the loop ends without a token: the mail is out, or failed, or the crash.
LEMMA EndsKeeps ==
  ASSUME IInv, MailSent \/ (\E accepted \in BOOLEAN : MailFails(accepted)) \/ Crash
  PROVE  IInv'
  <1>1. loop.kind # None /\ loop.kind \in Kinds
    BY NoneAssumption DEF IInv, LoopInv, MailSent, MailFails, Crash, Kinds
  <1>2. loop.row \in DOMAIN rows
    BY <1>1 DEF IInv, LoopInv
  <1>3. PICK a \in Answers(loop.kind) \ {"signed"} : Answer(loop.page, loop.kind, a)
    BY DEF MailSent, MailFails, Crash, Answers, Refusals
  <1>4. /\ post' \subseteq post \cup {loop.row} /\ UNCHANGED inbox
        /\ UNCHANGED <<users, rows, issued, page>> /\ loop' = Idle
    BY DEF MailSent, MailFails, Crash, mail
  <1>5. PlanInv'
    BY SlipTyped DEF IInv, MailSent, MailFails, Crash, PlanInv
  <1>6. DataInv'
    BY <1>2, <1>4 DEF IInv, DataInv, TokenRow
  <1>7. CodeOpensOnce'
    BY <1>4, CodesKept, NoneAssumption DEF IInv, Idle
  <1>8. loop.page # None => loop.page \in Pages /\ slot[loop.page][loop.kind].st # "idle"
    BY DEF IInv, LoopInv
  <1>9. SlotsInv' /\ PagesInv'
    BY <1>1, <1>3, <1>4, <1>8, AnswerKept DEF IInv, Refusals
  <1>10. QED BY <1>4, <1>5, <1>6, <1>7, <1>9, LoopIdle DEF IInv

LEMMA AcceptCodeKeeps ==
  ASSUME IInv, NEW p \in Pages, AcceptCode(p)
  PROVE  IInv'
  <1> DEFINE q == slot[p]["verify"]
             email == normalize_email(q.email)
             r == get_latest_email_code(email, q.purpose)
  <1>1. VerifyRefusal(email, q.purpose, q.code) = None
    BY DEF AcceptCode
  <1>2. /\ r # 0 /\ ~rows[r].consumed
        /\ SendRefusal(email, q.purpose) = None
    <2>1. /\ ~(email = None) /\ r # 0
          /\ ~rows[r].consumed /\ SendRefusal(email, q.purpose) = None
      <3> HIDE DEF email
      <3> QED BY <1>1, NoneAssumption DEF VerifyRefusal
    <2>2. QED BY <2>1
  <1>3. CodesOf(email, q.purpose) # {}
    BY <1>2 DEF get_latest_email_code
  <1>4. r \in CodesOf(email, q.purpose) /\ \A s \in CodesOf(email, q.purpose) : s <= r
    BY <1>3, Latest DEF IInv
  <1>5. r \in DOMAIN rows /\ rows[r].email = email /\ rows[r].purpose = q.purpose
    BY <1>4 DEF CodesOf
  <1>6. email \in Emails
    BY <1>5, RowsAreSeq DEF IInv, CodeRow
  <1>7. /\ slot[p]["verify"].st = "asked"
        /\ slot' = [slot EXCEPT ![p]["verify"].st = "taken"]
        /\ users' \in {users, users \cup {email}}
        /\ loop' = [page |-> p, kind |-> "verify", row |-> r]
        /\ UNCHANGED <<rows, issued, mail, page, plan>>
    BY DEF AcceptCode, Receives, create_user
  <1> HIDE DEF r, email
  <1>8. SlotsInv' /\ PagesInv' /\ slot'[p]["verify"].st = "taken"
    BY <1>7, TakenKept DEF IInv, Kinds
  <1>9. LoopInv'
    BY <1>5, <1>7, <1>8, NoneAssumption DEF LoopInv, Kinds
  <1>10. DataInv'
    BY <1>6, <1>7 DEF IInv, DataInv, mail, TokenRow
  <1>11. CodeOpensOnce'
    BY <1>2, <1>4, <1>5, <1>7 DEF IInv, CodeOpensOnce, Verifying, CodesOf
  <1>12. QED BY <1>7, <1>8, <1>9, <1>10, <1>11 DEF IInv, PlanInv

LEMMA IssueTokenKeeps ==
  ASSUME IInv, IssueToken
  PROVE  IInv'
  <1> DEFINE r == loop.row
             p == loop.page
             n == Len(issued)
             new == [email |-> rows[r].email, row |-> r, dead |-> FALSE]
             x == [slot[p]["verify"] EXCEPT !.st = "answered", !.answer = "signed",
                                            !.token = n + 1]
  <1>1. /\ loop.kind = "verify" /\ loop' = Idle
        /\ rows' = [rows EXCEPT ![r].consumed = TRUE]
        /\ issued' = Append(issued, new)
        /\ UNCHANGED <<users, mail, page, plan>>
    BY DEF IssueToken, consume_email_code
  <1>2. r \in DOMAIN rows
    BY <1>1, NoneAssumption DEF IInv, LoopInv
  <1>3. /\ rows \in Seq(CodeRow) /\ DOMAIN rows = 1..Len(rows) /\ Len(rows) \in Nat
        /\ \A s \in DOMAIN rows : rows[s] \in CodeRow
        /\ issued \in Seq(TokenRow) /\ n \in Nat /\ DOMAIN issued = 1..n
        /\ \A t \in DOMAIN issued : issued[t] \in TokenRow
    BY RowsAreSeq DEF IInv
  <1>4. [rows[r] EXCEPT !.consumed = TRUE] \in CodeRow
    BY <1>2, <1>3 DEF CodeRow
  <1>5. rows' \in Seq(CodeRow) /\ DOMAIN rows' = DOMAIN rows
    <2>1. rows' = [rows EXCEPT ![r] = [rows[r] EXCEPT !.consumed = TRUE]]
      BY <1>1
    <2>2. rows' \in [1..Len(rows) -> CodeRow]
      BY <1>2, <1>3, <1>4, <2>1
    <2>3. QED BY <1>3, <2>2, SameLength
  <1>6. \A s \in DOMAIN rows :
          /\ rows'[s].email = rows[s].email /\ rows'[s].purpose = rows[s].purpose
          /\ rows'[s].consumed = (s = r \/ rows[s].consumed)
    <2> TAKE s \in DOMAIN rows
    <2>1. CASE s = r
      BY <1>1, <1>2, <1>3, <2>1 DEF CodeRow
    <2>2. CASE s # r
      BY <1>1, <1>2, <1>3, <2>2 DEF CodeRow
    <2>3. QED BY <2>1, <2>2
  <1>7. new \in TokenRow
    BY <1>2, <1>3 DEF TokenRow, CodeRow
  <1>8. /\ issued' \in Seq(TokenRow) /\ DOMAIN issued' = 1..(n + 1)
        /\ issued'[n + 1] = new
        /\ \A t \in 1..n : issued'[t] = issued[t]
    <2> HIDE DEF new, n
    <2>1. n = Len(issued)
      BY DEF n
    <2>2. QED BY <1>1, <1>3, <1>7, <2>1, Appended
  <1>9. TokenRow' = TokenRow
    BY <1>5 DEF TokenRow
  <1>10. DataInv'
    BY <1>1, <1>5, <1>8, <1>9 DEF IInv, DataInv, mail
  <1>11. DOMAIN issued \subseteq DOMAIN issued' /\ n + 1 \in DOMAIN issued'
    BY <1>3, <1>8
  <1>12. SlotsInv' /\ PagesInv'
    <2>1. CASE p = None
      BY <1>1, <1>11, <2>1 DEF IssueToken, IInv, SlotsInv, PagesInv
    <2>2. CASE p # None
      <3>1. p \in Pages /\ slot[p]["verify"] \in Request
        BY <2>2 DEF IInv, LoopInv, SlotsInv, Kinds
      <3>2. slot[p]["verify"].st = "taken"
        BY <1>1, <2>2 DEF IInv, LoopInv
      <3>3. slot' = [slot EXCEPT ![p]["verify"] = x]
        BY <2>2 DEF IssueToken
      <3>4. x \in Request /\ x.token = n + 1 /\ x.answer = "signed"
        <4>1. \A y \in Request, m \in Nat :
                LET z == [y EXCEPT !.st = "answered", !.answer = "signed", !.token = m] IN
                z \in Request /\ z.token = m /\ z.answer = "signed"
          BY DEF Request
        <4>2. n + 1 \in Nat
          BY <1>3
        <4>3. QED BY <3>1, <4>1, <4>2
      <3>5. slot' \in [Pages -> [Kinds -> Request]]
        BY <3>3, <3>4 DEF IInv, SlotsInv
      <3>6. \A q \in Pages, l \in Kinds :
              slot'[q][l] = IF q = p /\ l = "verify" THEN x ELSE slot[q][l]
        BY <3>1, <3>3 DEF IInv, SlotsInv
      <3> HIDE DEF x
      <3>7. SlotsInv'
        BY <1>11, <3>4, <3>5, <3>6 DEF IInv, SlotsInv, Kinds, Answers
      <3>8. PagesInv'
        BY <1>1, <1>11, <3>6 DEF IInv, PagesInv, Kinds
      <3>9. QED BY <3>7, <3>8
    <2>3. QED BY <2>1, <2>2
  <1>13. CodeOpensOnce'
    <2>1. Verifying(r) /\ ~rows[r].consumed
      BY <1>1, <1>2 DEF Verifying, IInv, CodeOpensOnce
    <2>2. \A t \in DOMAIN issued : issued[t].row # r
      BY <2>1 DEF IInv, CodeOpensOnce
    <2>3. \A t \in DOMAIN issued' : issued'[t].row = IF t = n + 1 THEN r ELSE issued[t].row
      BY <1>3, <1>8
    <2>4. \A t, u \in DOMAIN issued' : issued'[t].row = issued'[u].row => t = u
      BY <1>3, <1>8, <2>2, <2>3 DEF IInv, CodeOpensOnce
    <2>5. \A t \in DOMAIN issued' : rows'[issued'[t].row].consumed
      <3> TAKE t \in DOMAIN issued'
      <3>1. CASE t = n + 1
        BY <1>2, <1>6, <2>3, <3>1
      <3>2. CASE t # n + 1
        <4>1. t \in DOMAIN issued
          BY <1>3, <1>8, <3>2
        <4>2. issued[t].row \in DOMAIN rows /\ rows[issued[t].row].consumed
          BY <1>3, <4>1 DEF IInv, CodeOpensOnce, TokenRow
        <4>3. QED BY <1>6, <2>3, <3>2, <4>2
      <3>3. QED BY <3>1, <3>2
    <2>6. loop'.kind # "verify"
      BY <1>1, NoneAssumption DEF Idle
    <2>7. ASSUME NEW s \in DOMAIN rows', rows'[s].consumed
          PROVE  \/ \E q \in DOMAIN rows' : /\ rows'[q].email = rows'[s].email
                                           /\ rows'[q].purpose = rows'[s].purpose /\ q > s
                 \/ \E t \in DOMAIN issued' : issued'[t].row = s
      <3>1. CASE s = r
        BY <1>11, <2>3, <3>1
      <3>2. CASE s # r
        <4>1. \/ \E q \in DOMAIN rows : rows[q].email = rows[s].email
                                        /\ rows[q].purpose = rows[s].purpose /\ q > s
              \/ \E t \in DOMAIN issued : issued[t].row = s
          BY <1>5, <1>6, <2>7, <3>2 DEF IInv, CodeOpensOnce, CodesOf
        <4>2. QED BY <1>3, <1>5, <1>6, <1>8, <1>11, <2>3, <4>1
      <3>3. QED BY <3>1, <3>2
    <2>8. QED BY <2>4, <2>5, <2>6, <2>7 DEF CodeOpensOnce, CodesOf, Verifying
  <1>14. QED BY <1>1, <1>10, <1>12, <1>13, LoopIdle DEF IInv, PlanInv

-----------------------------------------------------------------------------
(* Time, the mail and the network. *)

LEMMA CodeExpiresKeeps ==
  ASSUME IInv, NEW r \in DOMAIN rows, CodeExpires(r)
  PROVE  IInv'
  <1>1. /\ rows' = [q \in DOMAIN rows |->
                      IF q <= r THEN [rows[q] EXCEPT !.expired = TRUE] ELSE rows[q]]
        /\ UNCHANGED <<users, issued, loop, mail, slot, page>>
    BY DEF CodeExpires
  <1>2. /\ DOMAIN rows = 1..Len(rows) /\ Len(rows) \in Nat
        /\ \A q \in DOMAIN rows : rows[q] \in CodeRow
    BY RowsAreSeq DEF IInv
  <1>3. \A q \in DOMAIN rows :
          /\ [rows[q] EXCEPT !.expired = TRUE] \in CodeRow
          /\ [rows[q] EXCEPT !.expired = TRUE].email = rows[q].email
          /\ [rows[q] EXCEPT !.expired = TRUE].purpose = rows[q].purpose
          /\ [rows[q] EXCEPT !.expired = TRUE].consumed = rows[q].consumed
    BY <1>2 DEF CodeRow
  <1>4. rows' \in [1..Len(rows) -> CodeRow]
    BY <1>1, <1>2, <1>3
  <1>5. rows' \in Seq(CodeRow) /\ DOMAIN rows' = DOMAIN rows
    BY <1>2, <1>4, SameLength
  <1>6. \A q \in DOMAIN rows :
          /\ rows'[q].email = rows[q].email /\ rows'[q].purpose = rows[q].purpose
          /\ rows'[q].consumed = rows[q].consumed
    BY <1>1, <1>3
  <1>7. DataInv'
    BY <1>1, <1>5, TokensGrow DEF IInv, DataInv, mail
  <1>8. LoopInv'
    BY <1>1, <1>5, LoopKept DEF IInv
  <1>9. SlotsInv' /\ PagesInv'
    BY <1>1 DEF IInv, SlotsInv, PagesInv
  <1>10. PlanInv'
    BY SlipTyped DEF IInv, CodeExpires
  <1>11. \A t \in DOMAIN issued : issued[t].row \in DOMAIN rows
    BY RowsAreSeq DEF IInv, TokenRow
  <1>12. CodeOpensOnce'
    BY <1>1, <1>5, <1>6, <1>11 DEF IInv, CodeOpensOnce, Verifying, CodesOf
  <1>13. QED BY <1>7, <1>8, <1>9, <1>10, <1>12 DEF IInv

LEMMA TokenExpiresKeeps ==
  ASSUME IInv, NEW t \in DOMAIN issued, TokenExpires(t)
  PROVE  IInv'
  <1>1. /\ issued' = [issued EXCEPT ![t].dead = TRUE]
        /\ UNCHANGED <<users, rows, loop, mail, slot, page>>
    BY DEF TokenExpires
  <1>2. /\ DOMAIN issued = 1..Len(issued) /\ Len(issued) \in Nat
        /\ \A u \in DOMAIN issued : issued[u] \in TokenRow
    BY RowsAreSeq DEF IInv
  <1>3. \A u \in DOMAIN issued : /\ [issued[u] EXCEPT !.dead = TRUE] \in TokenRow
                                 /\ [issued[u] EXCEPT !.dead = TRUE].row = issued[u].row
    BY <1>2 DEF TokenRow
  <1>4. issued' = [issued EXCEPT ![t] = [issued[t] EXCEPT !.dead = TRUE]]
    BY <1>1
  <1>5. issued' \in [1..Len(issued) -> TokenRow]
    BY <1>2, <1>3, <1>4
  <1>6. issued' \in Seq(TokenRow) /\ DOMAIN issued' = DOMAIN issued
    BY <1>2, <1>5, SameLength
  <1>7. \A u \in DOMAIN issued : issued'[u].row = issued[u].row
    <2> TAKE u \in DOMAIN issued
    <2>1. issued'[u] = IF u = t THEN [issued[t] EXCEPT !.dead = TRUE] ELSE issued[u]
      BY <1>2, <1>4
    <2>2. QED BY <1>3, <2>1
  <1>8. TokenRow' = TokenRow
    BY <1>1 DEF TokenRow
  <1>9. DataInv'
    BY <1>1, <1>6, <1>8 DEF IInv, DataInv, mail
  <1>10. LoopInv'
    BY <1>1, LoopKept DEF IInv
  <1>11. SlotsInv' /\ PagesInv'
    BY <1>1, <1>6 DEF IInv, SlotsInv, PagesInv
  <1>12. PlanInv'
    BY SlipTyped DEF IInv, TokenExpires
  <1>13. CodeOpensOnce'
    BY <1>1, <1>6, <1>7 DEF IInv, CodeOpensOnce, Verifying, CodesOf
  <1>14. QED BY <1>9, <1>10, <1>11, <1>12, <1>13 DEF IInv

LEMMA MailKeeps ==
  ASSUME IInv, NEW r \in DOMAIN rows, Deliver(r) \/ LoseMail(r)
  PROVE  IInv'
  <1>1. /\ post' \cup inbox' \subseteq DOMAIN rows
        /\ UNCHANGED <<users, rows, issued, loop, slot, page>>
    BY DEF Deliver, LoseMail, IInv, DataInv, server
  <1>2. DataInv'
    BY <1>1 DEF IInv, DataInv, TokenRow
  <1>3. LoopInv'
    BY <1>1, LoopKept DEF IInv
  <1>4. SlotsInv' /\ PagesInv'
    BY <1>1 DEF IInv, SlotsInv, PagesInv
  <1>5. PlanInv'
    BY SlipTyped DEF IInv, Deliver, LoseMail, PlanInv
  <1>6. CodeOpensOnce'
    BY <1>1, CodesKept DEF IInv
  <1>7. QED BY <1>2, <1>3, <1>4, <1>5, <1>6 DEF IInv

LEMMA NetworkFailsKeeps ==
  ASSUME IInv, NEW p \in Pages, NEW k \in Kinds, NetworkFails(p, k)
  PROVE  IInv'
  <1>1. /\ slot[p][k].st \in {"asked", "answered"} /\ Answer(p, k, "fault")
        /\ UNCHANGED <<users, rows, issued, loop, mail, page>>
    BY DEF NetworkFails, server
  <1>2. DataInv' /\ CodeOpensOnce' /\ DOMAIN rows \subseteq DOMAIN rows'
    BY <1>1, DataKept DEF IInv
  <1>3. SlotsInv' /\ PagesInv'
    BY <1>1, AnswerKept DEF IInv, Refusals, Answers
  <1>4. \A q \in Pages, l \in Kinds : slot[q][l].st = "taken" => slot'[q][l].st = "taken"
    <2> TAKE q \in Pages, l \in Kinds
    <2>1. q = p /\ l = k => slot[q][l].st # "taken"
      BY <1>1
    <2>2. ~(q = p /\ l = k) => slot'[q][l] = slot[q][l]
      BY <1>1 DEF Answer, IInv, SlotsInv
    <2>3. QED BY <2>1, <2>2
  <1>5. LoopInv'
    BY <1>1, <1>2, <1>4, LoopKept DEF IInv
  <1>6. PlanInv'
    BY SlipTyped DEF IInv, NetworkFails
  <1>7. QED BY <1>2, <1>3, <1>5, <1>6 DEF IInv

-----------------------------------------------------------------------------
(* The page and its owner. *)

\* A page changes, and its requests stay.
LEMMA PageAloneKeeps ==
  ASSUME IInv, UNCHANGED <<server, mail, slot>>, PlanInv',
         NEW p \in Pages, NEW w \in Page, Set(p, w),
         slot[p]["send"].st # "idle" => w.email \in Spellings,
         w.view = "code" => w.email \in Spellings,
         w.token \in {0} \cup DOMAIN issued
  PROVE  IInv'
  <1>1. UNCHANGED <<users, rows, issued, loop, mail, slot>>
    BY DEF server
  <1>2. DataInv' /\ CodeOpensOnce' /\ DOMAIN rows \subseteq DOMAIN rows'
    BY <1>1, DataKept DEF IInv
  <1>3. SlotsInv'
    BY <1>1 DEF IInv, SlotsInv
  <1>4. PagesInv'
    BY <1>1, PagePut DEF IInv
  <1>5. LoopInv'
    BY <1>1, <1>2, LoopKept DEF IInv
  <1>6. QED BY <1>2, <1>3, <1>4, <1>5 DEF IInv

\* A page changes, and one of its requests starts or is done with.
LEMMA PageKeeps ==
  ASSUME IInv, UNCHANGED <<server, mail>>, PlanInv',
         NEW p \in Pages, NEW w \in Page, Set(p, w),
         NEW k \in Kinds, NEW x \in Request, slot' = [slot EXCEPT ![p][k] = x],
         slot[p][k].st # "taken", x.st # "answered",
         k = "send" /\ x.st # "idle" => x.email \in Spellings /\ x.purpose \in Purposes,
         k = "verify" => x.answer # "signed",
         k = "me" /\ x.st # "idle" => x.token \in DOMAIN issued,
         IF k = "send" THEN x.st # "idle" => w.email \in Spellings
         ELSE slot[p]["send"].st # "idle" => w.email \in Spellings,
         w.view = "code" => w.email \in Spellings,
         w.token \in {0} \cup DOMAIN issued
  PROVE  IInv'
  <1>1. UNCHANGED <<users, rows, issued, loop, mail>>
    BY DEF server
  <1>2. DataInv' /\ CodeOpensOnce' /\ DOMAIN rows \subseteq DOMAIN rows'
    BY <1>1, DataKept DEF IInv
  <1>3. /\ SlotsInv'
        /\ \A q \in Pages, l \in Kinds :
             slot'[q][l] = IF q = p /\ l = k THEN x ELSE slot[q][l]
    BY <1>1, SlotPut DEF IInv
  <1>4. PagesInv'
    BY <1>1, <1>3, PagePut DEF IInv, Kinds
  <1>5. LoopInv'
    BY <1>1, <1>2, <1>3, LoopKept DEF IInv
  <1>6. QED BY <1>2, <1>3, <1>4, <1>5 DEF IInv

LEMMA RequestsTyped ==
  /\ Quiet \in Request /\ Quiet.st = "idle" /\ Quiet.answer = None
  /\ None # "signed"
  /\ \A a \in Spellings \cup {None}, m \in Purposes \cup {None}, c \in Codes \cup {None},
       t \in Nat : /\ Asked(a, m, c, t) \in Request /\ Asked(a, m, c, t).st = "asked"
                   /\ Asked(a, m, c, t).email = a /\ Asked(a, m, c, t).purpose = m
                   /\ Asked(a, m, c, t).token = t /\ Asked(a, m, c, t).answer = None
  BY NoneAssumption DEF Quiet, Asked, Request

\* What is known of a page.
LEMMA PageTyped ==
  ASSUME IInv, NEW p \in Pages
  PROVE  /\ page[p] \in Page
         /\ slot[p]["send"].st # "idle" => page[p].email \in Spellings
         /\ page[p].view = "code" => page[p].email \in Spellings
         /\ page[p].token \in {0} \cup DOMAIN issued
         /\ \A k \in Kinds : slot[p][k] \in Request
  BY DEF IInv, PagesInv, SlotsInv

LEMMA EnterKeeps ==
  ASSUME IInv, NEW p \in Pages, NEW m \in Purposes, Enter(p, m)
  PROVE  IInv'
  <1> DEFINE w == [page[p] EXCEPT !.view = "email", !.mode = m, !.email = None,
                                  !.cool = FALSE, !.error = None]
  <1>1. /\ w \in Page /\ w.view = "email" /\ w.token = page[p].token
    BY PageTyped DEF Page
  <1>2. slot[p]["send"].st = "idle"
    BY DEF Enter, Free
  <1>3. PlanInv'
    BY SlipTyped DEF IInv, Enter
  <1>4. Set(p, w) /\ UNCHANGED <<server, mail, slot>>
    BY DEF Enter
  <1> HIDE DEF w
  <1>5. QED BY <1>1, <1>2, <1>3, <1>4, PageTyped, PageAloneKeeps

LEMMA LeaveKeeps ==
  ASSUME IInv, NEW p \in Pages, Leave(p) \/ CoolDown(p) \/ logout(p)
  PROVE  IInv'
  <1>1. PlanInv'
    BY SlipTyped DEF IInv, Leave, CoolDown, logout, PlanInv
  <1>2. PICK w \in Page : /\ Set(p, w) /\ w.email = page[p].email
                           /\ w.view \in {page[p].view, "away"}
                           /\ w.token \in {page[p].token, 0}
    <2>1. CASE Leave(p)
      <3> DEFINE w == [page[p] EXCEPT !.view = "away"]
      <3>1. w \in Page /\ w.email = page[p].email /\ w.view = "away" /\ w.token = page[p].token
        BY PageTyped DEF Page
      <3>2. QED BY <2>1, <3>1 DEF Leave
    <2>2. CASE CoolDown(p)
      <3> DEFINE w == [page[p] EXCEPT !.cool = FALSE]
      <3>1. w \in Page /\ w.email = page[p].email /\ w.view = page[p].view /\ w.token = page[p].token
        BY PageTyped DEF Page
      <3>2. QED BY <2>2, <3>1 DEF CoolDown
    <2>3. CASE logout(p)
      <3> DEFINE w == [page[p] EXCEPT !.token = 0, !.user = None, !.raced = ~Free(p, {"me"})]
      <3>1. Free(p, {"me"}) \in BOOLEAN
        BY DEF Free
      <3>2. w \in Page /\ w.email = page[p].email /\ w.view = page[p].view /\ w.token = 0
        BY <3>1, PageTyped DEF Page
      <3>3. QED BY <2>3, <3>2 DEF logout
    <2>4. QED BY <2>1, <2>2, <2>3
  <1>3. UNCHANGED <<server, mail, slot>>
    BY DEF Leave, CoolDown, logout
  <1>4. QED BY <1>1, <1>2, <1>3, PageTyped, PageAloneKeeps

\* The address that is asked for is a spelling: typed now, or on the first step.
LEMMA AskKeeps ==
  ASSUME IInv, NEW p \in Pages, (\E a \in Spellings : AskFirst(p, a)) \/ AskAgain(p)
  PROVE  IInv'
  <1>1. PICK a \in Spellings, w \in Page :
          /\ Set(p, w) /\ w.email = a /\ w.token = page[p].token
          /\ slot' = [slot EXCEPT ![p]["send"] = Asked(a, page[p].mode, None, 0)]
    <2>1. ASSUME NEW a \in Spellings, AskFirst(p, a)
          PROVE  \E w \in Page :
                   /\ Set(p, w) /\ w.email = a /\ w.token = page[p].token
                   /\ slot' = [slot EXCEPT ![p]["send"] = Asked(a, page[p].mode, None, 0)]
      <3> DEFINE w == [page[p] EXCEPT !.email = a, !.error = None]
      <3>1. w \in Page /\ w.email = a /\ w.token = page[p].token
        BY PageTyped DEF Page
      <3>2. QED BY <2>1, <3>1 DEF AskFirst
    <2>2. ASSUME AskAgain(p)
          PROVE  \E w \in Page :
                   /\ page[p].email \in Spellings
                   /\ Set(p, w) /\ w.email = page[p].email /\ w.token = page[p].token
                   /\ slot' = [slot EXCEPT ![p]["send"] =
                                  Asked(page[p].email, page[p].mode, None, 0)]
      <3> DEFINE w == [page[p] EXCEPT !.error = None]
      <3>1. w \in Page /\ w.email = page[p].email /\ w.token = page[p].token
        BY PageTyped DEF Page
      <3>2. QED BY <2>2, <3>1, PageTyped DEF AskAgain
    <2>3. QED BY <2>1, <2>2
  <1>2. slot[p]["send"].st = "idle" /\ UNCHANGED <<server, mail>>
    BY DEF AskFirst, AskAgain, Free
  <1>3. PlanInv'
    BY SlipTyped DEF IInv, AskFirst, AskAgain
  <1>4. page[p].mode \in Purposes
    BY PageTyped DEF Page
  <1> DEFINE x == Asked(a, page[p].mode, None, 0)
  <1>5. x \in Request /\ x.st = "asked" /\ x.email = a /\ x.purpose \in Purposes
    BY <1>4 DEF Asked, Request
  <1> HIDE DEF x
  <1>6. slot' = [slot EXCEPT ![p]["send"] = x]
    BY <1>1 DEF x
  <1>7. "send" \in Kinds
    BY DEF Kinds
  <1>8. w.token \in {0} \cup DOMAIN issued
    BY <1>1, PageTyped
  <1>9. Set(p, w) /\ w.email \in Spellings
    BY <1>1
  <1>10. QED BY <1>2, <1>3, <1>5, <1>6, <1>7, <1>8, <1>9, PageKeeps

\* The second step is reached with the address of the first.
LEMMA TakeSentKeeps ==
  ASSUME IInv, NEW p \in Pages, TakeSent(p)
  PROVE  IInv'
  <1> DEFINE a == slot[p]["send"].answer
             w == IF page[p].view = "away" THEN page[p]
                  ELSE IF a = "sent"
                       THEN [page[p] EXCEPT !.view = "code", !.cool = TRUE]
                       ELSE [page[p] EXCEPT !.error = a]
  <1>1. /\ slot[p]["send"].st = "answered" /\ Set(p, w)
        /\ slot' = [slot EXCEPT ![p]["send"] = Quiet]
        /\ UNCHANGED <<server, mail, plan>>
    BY DEF TakeSent, Done
  <1>2. "send" \in Kinds
    BY DEF Kinds
  <1>3. a \in Refusals \cup {"sent"}
    BY <1>1, <1>2 DEF IInv, SlotsInv, Answers
  <1> HIDE DEF a
  <1>4. w \in Page /\ w.email = page[p].email /\ w.token = page[p].token
    BY <1>3, PageTyped DEF Page
  <1> HIDE DEF w
  <1>5. w.email \in Spellings /\ w.token \in {0} \cup DOMAIN issued
    BY <1>1, <1>4, PageTyped
  <1>6. PlanInv'
    BY <1>1 DEF IInv, PlanInv
  <1>7. QED BY <1>1, <1>2, <1>4, <1>5, <1>6, RequestsTyped, PageKeeps

LEMMA VerifyKeeps ==
  ASSUME IInv, NEW p \in Pages, NEW r \in DOMAIN rows, Verify(p, r)
  PROVE  IInv'
  <1> DEFINE w == [page[p] EXCEPT !.error = None]
             x == Asked(page[p].email, page[p].mode, Mail(r).code, 0)
  <1>1. w \in Page /\ w.email = page[p].email /\ w.token = page[p].token
    BY PageTyped DEF Page
  <1>2. /\ page[p].view = "code" /\ slot[p]["verify"].st = "idle"
        /\ slot' = [slot EXCEPT ![p]["verify"] = x] /\ Set(p, w)
        /\ UNCHANGED <<server, mail>>
    BY DEF Verify, Free
  <1>3. page[p].email \in Spellings /\ page[p].token \in {0} \cup DOMAIN issued
    BY <1>2, PageTyped
  <1>4. Mail(r).code \in Codes /\ page[p].mode \in Purposes
    BY RowsAreSeq, PageTyped DEF IInv, Mail, CodeRow, Page
  <1>5. x \in Request /\ x.st = "asked" /\ x.answer # "signed"
    BY <1>3, <1>4, NoneAssumption DEF Asked, Request
  <1>6. PlanInv'
    BY SlipTyped DEF IInv, Verify
  <1> HIDE DEF w, x
  <1>7. "verify" \in Kinds
    BY DEF Kinds
  <1>8. QED BY <1>1, <1>2, <1>3, <1>5, <1>6, <1>7, PageKeeps

\* A token names an account, as long as it is one that was signed.
LEMMA OwnerTyped ==
  ASSUME IInv, NEW t \in DOMAIN issued
  PROVE  issued[t].email \in Emails /\ t \in Nat
  BY RowsAreSeq DEF IInv, TokenRow

LEMMA TakeVerifiedKeeps ==
  ASSUME IInv, NEW p \in Pages, TakeVerified(p)
  PROVE  IInv'
  <1> DEFINE q == slot[p]["verify"]
             w == IF q.answer = "signed"
                  THEN [page[p] EXCEPT !.token = q.token, !.user = issued[q.token].email,
                                       !.ready = TRUE, !.view = "away", !.error = None,
                                       !.raced = ~Free(p, {"me"})]
                  ELSE IF page[p].view = "away" THEN page[p]
                  ELSE [page[p] EXCEPT !.error = q.answer]
  <1>1. /\ q.st = "answered" /\ Set(p, w)
        /\ slot' = [slot EXCEPT ![p]["verify"] = Quiet]
        /\ UNCHANGED <<server, mail, plan>>
    BY DEF TakeVerified, Done
  <1>2. "verify" \in Kinds
    BY DEF Kinds
  <1>3. q.answer \in Refusals \cup {"signed"}
    BY <1>1, <1>2 DEF IInv, SlotsInv, Answers
  <1>4. q.answer = "signed" => q.token \in DOMAIN issued
    BY DEF IInv, SlotsInv
  <1>5. Free(p, {"me"}) \in BOOLEAN
    BY DEF Free
  <1>6. /\ w \in Page /\ w.email = page[p].email /\ w.view \in {page[p].view, "away"}
        /\ w.token \in {page[p].token} \cup DOMAIN issued
    <2>1. CASE q.answer = "signed"
      <3>1. q.token \in DOMAIN issued /\ issued[q.token].email \in Emails /\ q.token \in Nat
        BY <1>4, <2>1, OwnerTyped
      <3> HIDE DEF q
      <3>2. QED BY <1>5, <2>1, <3>1, PageTyped DEF Page
    <2>2. CASE q.answer # "signed"
      <3> HIDE DEF q
      <3>1. QED BY <1>3, <2>2, PageTyped DEF Page
    <2>3. QED BY <2>1, <2>2
  <1> HIDE DEF w
  <1>7. /\ slot[p]["send"].st # "idle" => w.email \in Spellings
        /\ w.view = "code" => w.email \in Spellings
        /\ w.token \in {0} \cup DOMAIN issued
    BY <1>6, PageTyped
  <1>8. PlanInv'
    BY <1>1 DEF IInv, PlanInv
  <1>9. QED BY <1>1, <1>2, <1>6, <1>7, <1>8, RequestsTyped, PageKeeps

LEMMA RefreshKeeps ==
  ASSUME IInv, NEW p \in Pages, refreshMe(p)
  PROVE  IInv'
  <1> DEFINE q == slot[p]["me"]
             owner == issued[q.token].email
             w == Refreshed(page[p], q.answer, owner)
  <1>1. /\ q.st = "answered" /\ Set(p, w)
        /\ slot' = [slot EXCEPT ![p]["me"] = Quiet]
        /\ UNCHANGED <<server, mail, plan>>
    BY DEF refreshMe, Done
  <1>2. "me" \in Kinds
    BY DEF Kinds
  <1>3. owner \in Emails
    BY <1>1, OwnerTyped DEF IInv, SlotsInv
  <1> HIDE DEF owner
  <1>4. /\ w \in Page /\ w.email = page[p].email /\ w.view \in {page[p].view, "away"}
        /\ w.token \in {page[p].token, 0}
    BY <1>3, PageTyped DEF Page, Refreshed
  <1> HIDE DEF w
  <1>5. /\ slot[p]["send"].st # "idle" => w.email \in Spellings
        /\ w.view = "code" => w.email \in Spellings
        /\ w.token \in {0} \cup DOMAIN issued
    BY <1>4, PageTyped
  <1>6. PlanInv'
    BY <1>1 DEF IInv, PlanInv
  <1>7. QED BY <1>1, <1>2, <1>4, <1>5, <1>6, RequestsTyped, PageKeeps

\* A reload gives up the requests of the page, also the one that the loop runs.
LEMMA LoadKeeps ==
  ASSUME IInv, NEW p \in Pages, Load(p)
  PROVE  IInv'
  <1> DEFINE t == page[p].token
             w == [page[p] EXCEPT !.view = "away", !.email = None, !.cool = FALSE,
                                  !.error = None, !.ready = t = 0, !.raced = @ /\ t # 0,
                                  !.user = IF t = 0 THEN None ELSE @]
             new == [k \in Kinds |->
                       IF k = "me" /\ t # 0 THEN Asked(None, None, None, t) ELSE Quiet]
  <1>1. /\ Set(p, w) /\ slot' = [slot EXCEPT ![p] = new]
        /\ loop' = IF loop.page = p THEN [loop EXCEPT !.page = None] ELSE loop
        /\ UNCHANGED <<users, rows, issued, mail>>
    BY DEF Load
  <1>2. /\ w \in Page /\ w.view = "away" /\ w.token = t
    BY PageTyped DEF Page
  <1>3. t \in {0} \cup DOMAIN issued /\ t \in Nat
    BY PageTyped, OwnerTyped
  <1>4. /\ new \in [Kinds -> Request]
        /\ \A k \in Kinds : new[k].st \in {"idle", "asked"} /\ new[k].answer = None
        /\ new["send"].st = "idle"
        /\ new["me"].st # "idle" => new["me"].token \in DOMAIN issued
    <2>1. Asked(None, None, None, t) \in Request
      BY <1>3, NoneAssumption DEF Asked, Request
    <2>2. /\ Asked(None, None, None, t).st = "asked" /\ Asked(None, None, None, t).answer = None
          /\ Asked(None, None, None, t).token = t
      BY DEF Asked
    <2> HIDE DEF t
    <2>3. QED BY <1>3, <2>1, <2>2, RequestsTyped DEF Kinds
  <1> HIDE DEF w, new, t
  <1>5. /\ slot' \in [Pages -> [Kinds -> Request]]
        /\ \A q \in Pages, k \in Kinds : slot'[q][k] = IF q = p THEN new[k] ELSE slot[q][k]
    BY <1>1, <1>4 DEF IInv, SlotsInv
  <1>6. SlotsInv'
    BY <1>1, <1>4, <1>5, RequestsTyped DEF IInv, SlotsInv, Kinds, Answers
  <1>7. PagesInv'
    <2>1. slot'[p]["send"].st = "idle"
      BY <1>4, <1>5 DEF Kinds
    <2>2. \A q \in Pages \ {p} : slot'[q]["send"] = slot[q]["send"]
      BY <1>5 DEF Kinds
    <2>3. QED BY <1>1, <1>2, <1>3, <2>1, <2>2, PagePut DEF IInv
  <1>8. LoopInv'
    <2>1. CASE loop.page = p
      <3>1. loop' = [loop EXCEPT !.page = None]
        BY <1>1, <2>1
      <3>2. CASE loop = Idle
        BY <3>1, <3>2, LoopIdle DEF Idle
      <3>3. CASE loop # Idle
        BY <1>1, <3>1, <3>3 DEF IInv, LoopInv
      <3>4. QED BY <3>2, <3>3
    <2>2. CASE loop.page # p
      <3>1. loop' = loop
        BY <1>1, <2>2
      <3>2. loop.page # None => /\ loop.page \in Pages \ {p} /\ loop.kind \in Kinds
                                /\ slot[loop.page][loop.kind].st = "taken"
        BY <2>2 DEF IInv, LoopInv, Idle, Kinds
      <3>3. loop.page # None => slot'[loop.page][loop.kind].st = "taken"
        BY <1>5, <3>2
      <3>4. QED BY <1>1, <3>1, <3>3 DEF IInv, LoopInv
    <2>3. QED BY <2>1, <2>2
  <1>9. CodeOpensOnce'
    <2>1. loop'.kind = loop.kind /\ loop'.row = loop.row
      BY <1>1 DEF IInv, LoopInv
    <2>2. QED BY <1>1, <2>1, CodesKept DEF IInv
  <1>10. DataInv'
    BY <1>1 DEF IInv, DataInv, mail, TokenRow
  <1>11. PlanInv'
    BY SlipTyped DEF IInv, Load
  <1>12. QED BY <1>6, <1>7, <1>8, <1>9, <1>10, <1>11 DEF IInv

-----------------------------------------------------------------------------
LEMMA Inductive == IInv /\ [Next]_vars => IInv'
  <1> SUFFICES ASSUME IInv, [Next]_vars PROVE IInv'
    OBVIOUS
  <1>1. CASE EventLoop
    BY <1>1, EndsKeeps, IssueTokenKeeps DEF EventLoop
  <1>2. ASSUME NEW p \in Pages, Serve(p) PROVE IInv'
    BY <1>2, SaveCodeKeeps, AcceptCodeKeeps, ServeKeeps DEF Serve
  <1>3. ASSUME NEW p \in Pages, Continue(p) PROVE IInv'
    BY <1>3, TakeSentKeeps, TakeVerifiedKeeps, RefreshKeeps, LeaveKeeps DEF Continue
  <1>4. ASSUME NEW p \in Pages, Person(p) PROVE IInv'
    BY <1>4, EnterKeeps, AskKeeps, VerifyKeeps, LeaveKeeps, LoadKeeps DEF Person
  <1>5. ASSUME NEW r \in DOMAIN rows, Deliver(r) PROVE IInv'
    BY <1>5, MailKeeps
  <1>6. CASE Faults
    <2>1. CASE (\E accepted \in BOOLEAN : MailFails(accepted)) \/ Crash
      BY <2>1, EndsKeeps
    <2>2. ASSUME NEW r \in DOMAIN rows, CodeExpires(r) \/ LoseMail(r) PROVE IInv'
      BY <2>2, CodeExpiresKeeps, MailKeeps
    <2>3. ASSUME NEW t \in DOMAIN issued, TokenExpires(t) PROVE IInv'
      BY <2>3, TokenExpiresKeeps
    <2>4. ASSUME NEW p \in Pages, NEW k \in Kinds, NetworkFails(p, k) PROVE IInv'
      BY <2>4, NetworkFailsKeeps
    <2>5. QED BY <1>6, <2>1, <2>2, <2>3, <2>4 DEF Faults
  <1>7. CASE UNCHANGED vars
    BY <1>7 DEF vars, mail, IInv, DataInv, LoopInv, SlotsInv, PagesInv, PlanInv,
                CodeOpensOnce, TokenRow, Verifying, CodesOf
  <1>8. QED BY <1>1, <1>2, <1>3, <1>4, <1>5, <1>6, <1>7 DEF Next

LEMMA Invariance == Spec => []IInv
  BY InitInv, Inductive, PTL DEF Spec

\* The tables, the mails, the running request, and the requests and the state
\* of every page stay within their types: no answer, token, mail or running
\* request ever names a code row or a token that does not exist.
THEOREM TypeCorrect == Spec => []TypeOK
  <1>1. IInv => TypeOK
    BY IInvTyped
  <1>2. QED BY <1>1, Invariance, PTL

\* For any number of addresses, codes, pages and slips: verify_code signs at
\* most one token for a row of email_login_codes, none that the row does not
\* record as consumed, never for a row that a later one replaced; and only a
\* later code or its own use ever consumes a row.
THEOREM CodesOpenOnce == Spec => []CodeOpensOnce
  <1>1. IInv => CodeOpensOnce
    BY DEF IInv
  <1>2. QED BY <1>1, Invariance, PTL

-----------------------------------------------------------------------------
(***************************************************************************)
(* Who is shown as signed in.  Inductive with this: unless a sign-in or a  *)
(* sign-out overtook it, a /me under way asks about the token of its page. *)
(***************************************************************************)
Pair(p) == IF page[p].token = 0 THEN page[p].user = None
           ELSE page[p].user = issued[page[p].token].email

AsksOwn(p) == slot[p]["me"].st # "idle" => slot[p]["me"].token = page[p].token

ShownInv == \A p \in Pages : ~page[p].raced => Pair(p) /\ AsksOwn(p)

\* What most steps do to a page: they leave who is shown alone.
Same(p) == /\ page'[p].token = page[p].token /\ page'[p].user = page[p].user
           /\ page'[p].raced = page[p].raced
           /\ slot'[p]["me"].token = slot[p]["me"].token
           /\ slot'[p]["me"].st = "idle" <=> slot[p]["me"].st = "idle"

OwnersKept == \A t \in DOMAIN issued :
                t \in DOMAIN issued' /\ issued'[t].email = issued[t].email

LEMMA SameKeeps ==
  ASSUME IInv, ShownInv, OwnersKept, NEW p \in Pages, Same(p)
  PROVE  ~page'[p].raced => Pair(p)' /\ AsksOwn(p)'
  <1>1. page[p].token = 0 \/ page[p].token \in DOMAIN issued
    BY PageTyped
  <1>2. QED BY <1>1 DEF ShownInv, Pair, AsksOwn, Same, OwnersKept

\* Steps of the server, the mail, the network: no page changes.
LEMMA ServerShows ==
  ASSUME IInv, ShownInv, UNCHANGED page, OwnersKept,
         \A p \in Pages : /\ slot'[p]["me"].token = slot[p]["me"].token
                          /\ slot'[p]["me"].st = "idle" <=> slot[p]["me"].st = "idle"
  PROVE  ShownInv'
  <1>1. \A p \in Pages : Same(p)
    BY DEF Same
  <1>2. QED BY <1>1, SameKeeps DEF ShownInv

\* An answer changes neither the token of a request nor that it was made.
LEMMA AnswerShows ==
  ASSUME IInv, ShownInv, UNCHANGED <<page, issued>>,
         NEW p, NEW k \in Kinds, NEW a, Answer(p, k, a),
         p # None => p \in Pages /\ slot[p][k].st # "idle"
  PROVE  ShownInv'
  <1>1. CASE p = None
    BY <1>1, ServerShows DEF Answer, OwnersKept
  <1>2. CASE p # None
    <2>1. slot' = [slot EXCEPT ![p][k].st = "answered", ![p][k].answer = a]
      BY <1>2 DEF Answer
    <2>2. \A q \in Pages, l \in Kinds : slot[q][l] \in Request
      BY DEF IInv, SlotsInv
    <2>3. \A q \in Pages, l \in Kinds :
            slot'[q][l] = IF q = p /\ l = k
                          THEN [slot[p][k] EXCEPT !.st = "answered", !.answer = a]
                          ELSE slot[q][l]
      BY <1>2, <2>1 DEF IInv, SlotsInv
    <2>4. \A q \in Pages, l \in Kinds :
            /\ slot'[q][l].token = slot[q][l].token
            /\ slot'[q][l].st = "idle" <=> slot[q][l].st = "idle"
      <3> TAKE q \in Pages, l \in Kinds
      <3>1. CASE q = p /\ l = k
        <4>1. \A y \in Request :
                /\ [y EXCEPT !.st = "answered", !.answer = a].token = y.token
                /\ [y EXCEPT !.st = "answered", !.answer = a].st = "answered"
          BY DEF Request
        <4>2. /\ slot'[q][l].token = slot[q][l].token /\ slot'[q][l].st = "answered"
          <5>1. /\ slot'[q][l] = [slot[p][k] EXCEPT !.st = "answered", !.answer = a]
                /\ slot[p][k] \in Request
            BY <2>2, <2>3, <3>1
          <5>2. QED BY <3>1, <4>1, <5>1
        <4>3. QED BY <1>2, <3>1, <4>2
      <3>2. CASE ~(q = p /\ l = k)
        BY <2>3, <3>2
      <3>3. QED BY <3>1, <3>2
    <2>5. QED BY <2>4, ServerShows DEF OwnersKept, Kinds
  <1>3. QED BY <1>1, <1>2

LEMMA ServeShows ==
  ASSUME IInv, ShownInv, NEW p \in Pages,
         RefuseSend(p) \/ RefuseCode(p) \/ ServeMe(p)
           \/ \E k \in Kinds : NetworkFails(p, k)
  PROVE  ShownInv'
  <1>1. UNCHANGED <<page, issued>>
    BY DEF RefuseSend, RefuseCode, ServeMe, NetworkFails, server
  <1>2. \E k \in Kinds : slot[p][k].st # "idle" /\ \E a \in Refusals \cup {None, "user"} : Answer(p, k, a)
    <2>1. CASE RefuseSend(p)
      BY <2>1 DEF RefuseSend, SendRefusal, Receives, Kinds, Refusals
    <2>2. CASE RefuseCode(p)
      BY <2>2 DEF RefuseCode, VerifyRefusal, SendRefusal, Receives, Kinds, Refusals
    <2>3. CASE ServeMe(p)
      BY <2>3 DEF ServeMe, Receives, Kinds, Refusals
    <2>4. CASE \E k \in Kinds : NetworkFails(p, k)
      BY <2>4 DEF NetworkFails, Refusals
    <2>5. QED BY <2>1, <2>2, <2>3, <2>4
  <1>3. QED BY <1>1, <1>2, AnswerShows

LEMMA EndsShows ==
  ASSUME IInv, ShownInv, MailSent \/ (\E accepted \in BOOLEAN : MailFails(accepted)) \/ Crash
  PROVE  ShownInv'
  <1>1. loop.kind \in Kinds
    BY NoneAssumption DEF IInv, LoopInv, MailSent, MailFails, Crash, Kinds
  <1>2. PICK a \in {"sent", "502", "fault"} : Answer(loop.page, loop.kind, a)
    BY DEF MailSent, MailFails, Crash
  <1>3. UNCHANGED <<page, issued>>
    BY DEF MailSent, MailFails, Crash
  <1>4. loop.page # None => loop.page \in Pages /\ slot[loop.page][loop.kind].st # "idle"
    BY DEF IInv, LoopInv
  <1>5. QED BY <1>1, <1>2, <1>3, <1>4, AnswerShows

\* The loop takes a request for a code or with one; a token is appended.
LEMMA CodeShows ==
  ASSUME IInv, ShownInv,
         (\E p \in Pages : SaveCode(p) \/ AcceptCode(p)) \/ IssueToken
  PROVE  ShownInv'
  <1>1. /\ UNCHANGED page
        /\ \A q \in Pages : slot'[q]["me"] = slot[q]["me"]
    BY DEF SaveCode, AcceptCode, IssueToken, IInv, SlotsInv, Kinds
  <1>2. OwnersKept
    <2>1. CASE UNCHANGED issued
      BY <2>1 DEF OwnersKept
    <2>2. CASE IssueToken
      <3> DEFINE new == [email |-> rows[loop.row].email, row |-> loop.row, dead |-> FALSE]
      <3>1. issued' = Append(issued, new)
        BY <2>2 DEF IssueToken
      <3>2. loop.row \in DOMAIN rows
        BY <2>2, NoneAssumption DEF IssueToken, IInv, LoopInv
      <3>3. new \in TokenRow
        BY <3>2, RowsAreSeq DEF IInv, TokenRow, CodeRow
      <3>4. issued \in Seq(TokenRow) /\ DOMAIN issued = 1..Len(issued) /\ Len(issued) \in Nat
        BY RowsAreSeq DEF IInv
      <3> HIDE DEF new
      <3>5. /\ DOMAIN issued' = 1..(Len(issued) + 1)
            /\ \A t \in DOMAIN issued : issued'[t] = issued[t]
        BY <3>1, <3>3, <3>4, Appended
      <3>6. QED BY <3>4, <3>5 DEF OwnersKept
    <2>3. QED BY <2>1, <2>2 DEF SaveCode, AcceptCode
  <1>3. QED BY <1>1, <1>2, ServerShows

LEMMA TimeShows ==
  ASSUME IInv, ShownInv,
         \/ \E r \in DOMAIN rows : CodeExpires(r) \/ LoseMail(r) \/ Deliver(r)
         \/ \E t \in DOMAIN issued : TokenExpires(t)
  PROVE  ShownInv'
  <1>1. UNCHANGED <<slot, page>>
    BY DEF CodeExpires, LoseMail, Deliver, TokenExpires
  <1>2. OwnersKept
    <2>1. CASE UNCHANGED issued
      BY <2>1 DEF OwnersKept
    <2>2. ASSUME NEW t \in DOMAIN issued, TokenExpires(t) PROVE OwnersKept
      <3>1. issued' = [issued EXCEPT ![t] = [issued[t] EXCEPT !.dead = TRUE]]
        BY <2>2 DEF TokenExpires
      <3>2. DOMAIN issued = 1..Len(issued) /\ \A u \in DOMAIN issued : issued[u] \in TokenRow
        BY RowsAreSeq DEF IInv
      <3>3. issued \in [DOMAIN issued -> TokenRow]
        BY RowsAreSeq, LenProperties, SeqDef DEF IInv
      <3>4. [issued[t] EXCEPT !.dead = TRUE].email = issued[t].email
        BY <3>2 DEF TokenRow
      <3>5. DOMAIN issued' = DOMAIN issued
            /\ \A u \in DOMAIN issued :
                  issued'[u] = IF u = t THEN [issued[t] EXCEPT !.dead = TRUE] ELSE issued[u]
        BY <3>1, <3>3
      <3>6. QED BY <3>4, <3>5 DEF OwnersKept
    <2>3. QED BY <2>1, <2>2 DEF CodeExpires, LoseMail, Deliver, server
  <1>3. QED BY <1>1, <1>2, ServerShows

\* A step of page p: it is left to show who page p shows.
LEMMA OthersShow ==
  ASSUME IInv, ShownInv, UNCHANGED issued, NEW p \in Pages, NEW w, Set(p, w),
         \A q \in Pages \ {p} : slot'[q]["me"] = slot[q]["me"],
         ~page'[p].raced => Pair(p)' /\ AsksOwn(p)'
  PROVE  ShownInv'
  <1>1. \A q \in Pages \ {p} : Same(q)
    BY DEF IInv, PagesInv, Set, Same
  <1>2. OwnersKept
    BY DEF OwnersKept
  <1>3. QED BY <1>1, <1>2, SameKeeps DEF ShownInv

\* The person goes through the steps of signing in; nobody else is shown.
LEMMA StepsShow ==
  ASSUME IInv, ShownInv, NEW p \in Pages,
         \/ \E m \in Purposes : Enter(p, m)
         \/ \E a \in Spellings : AskFirst(p, a)
         \/ \E r \in DOMAIN rows : Verify(p, r)
         \/ AskAgain(p) \/ Leave(p) \/ CoolDown(p) \/ TakeSent(p)
  PROVE  ShownInv'
  <1>1. UNCHANGED issued /\ \A q \in Pages : slot'[q]["me"] = slot[q]["me"]
    <2>1. UNCHANGED issued
      BY DEF Enter, AskFirst, Verify, AskAgain, Leave, CoolDown, TakeSent, server
    <2>2. UNCHANGED slot \/ \E k \in {"send", "verify"} : \E x : slot' = [slot EXCEPT ![p][k] = x]
      <3>1. CASE (\E m \in Purposes : Enter(p, m)) \/ Leave(p) \/ CoolDown(p)
        BY <3>1 DEF Enter, Leave, CoolDown
      <3>2. CASE (\E a \in Spellings : AskFirst(p, a)) \/ AskAgain(p)
        BY <3>2 DEF AskFirst, AskAgain
      <3>3. CASE \E r \in DOMAIN rows : Verify(p, r)
        BY <3>3 DEF Verify
      <3>4. CASE TakeSent(p)
        BY <3>4 DEF TakeSent, Done
      <3>5. QED BY <3>1, <3>2, <3>3, <3>4
    <2>3. QED BY <2>1, <2>2 DEF IInv, SlotsInv, Kinds
  <1>2. PICK w : /\ Set(p, w) /\ w.token = page[p].token /\ w.user = page[p].user
                 /\ w.raced = page[p].raced
    <2>1. page[p] \in Page
      BY PageTyped
    <2>2. ASSUME NEW m \in Purposes, Enter(p, m)
          PROVE  \E w : /\ Set(p, w) /\ w.token = page[p].token /\ w.user = page[p].user
                       /\ w.raced = page[p].raced
      <3> DEFINE w == [page[p] EXCEPT !.view = "email", !.mode = m, !.email = None,
                                      !.cool = FALSE, !.error = None]
      <3>1. w.token = page[p].token /\ w.user = page[p].user /\ w.raced = page[p].raced
        BY <2>1 DEF Page
      <3>2. Set(p, w)
        BY <2>2 DEF Enter
      <3> HIDE DEF w
      <3>3. QED BY <3>1, <3>2
    <2>3. ASSUME NEW a \in Spellings, AskFirst(p, a)
          PROVE  \E w : /\ Set(p, w) /\ w.token = page[p].token /\ w.user = page[p].user
                       /\ w.raced = page[p].raced
      <3> DEFINE w == [page[p] EXCEPT !.email = a, !.error = None]
      <3>1. w.token = page[p].token /\ w.user = page[p].user /\ w.raced = page[p].raced
        BY <2>1 DEF Page
      <3>2. Set(p, w)
        BY <2>3 DEF AskFirst
      <3> HIDE DEF w
      <3>3. QED BY <3>1, <3>2
    <2>4. CASE (\E r \in DOMAIN rows : Verify(p, r)) \/ AskAgain(p)
      <3>1. Set(p, [page[p] EXCEPT !.error = None])
        BY <2>4 DEF Verify, AskAgain
      <3>2. QED BY <2>1, <3>1 DEF Page
    <2>5. CASE Leave(p)
      BY <2>1, <2>5 DEF Leave, Page
    <2>6. CASE CoolDown(p)
      BY <2>1, <2>6 DEF CoolDown, Page
    <2>7. CASE TakeSent(p)
      <3> DEFINE a == slot[p]["send"].answer
      <3>1. \/ Set(p, page[p]) \/ Set(p, [page[p] EXCEPT !.view = "code", !.cool = TRUE])
            \/ Set(p, [page[p] EXCEPT !.error = a])
        BY <2>7 DEF TakeSent
      <3> HIDE DEF a
      <3>2. CASE Set(p, page[p])
        BY <3>2
      <3>3. CASE Set(p, [page[p] EXCEPT !.view = "code", !.cool = TRUE])
        <4> DEFINE w == [page[p] EXCEPT !.view = "code", !.cool = TRUE]
        <4>1. w.token = page[p].token /\ w.user = page[p].user /\ w.raced = page[p].raced
          BY <2>1 DEF Page
        <4>2. QED BY <3>3, <4>1
      <3>4. CASE Set(p, [page[p] EXCEPT !.error = a])
        BY <2>1, <3>4 DEF Page
      <3>5. QED BY <3>1, <3>2, <3>3, <3>4
    <2>8. QED BY <2>2, <2>3, <2>4, <2>5, <2>6, <2>7
  <1>3. Same(p)
    BY <1>1, <1>2 DEF Same, Set, IInv, PagesInv
  <1>4. ~page'[p].raced => Pair(p)' /\ AsksOwn(p)'
    BY <1>1, <1>3, SameKeeps DEF OwnersKept
  <1>5. QED BY <1>1, <1>2, <1>4, OthersShow

\* Signing in and out, also in the face of a /me under way.
LEMMA TakeVerifiedShows ==
  ASSUME IInv, ShownInv, NEW p \in Pages, TakeVerified(p)
  PROVE  ShownInv'
  <1> DEFINE q == slot[p]["verify"]
  <1>1. UNCHANGED issued /\ \A l \in Pages : slot'[l]["me"] = slot[l]["me"]
    BY DEF TakeVerified, Done, server, IInv, SlotsInv, Kinds
  <1>2. page[p] \in Page
    BY PageTyped
  <1>3. PICK w : /\ Set(p, w)
                 /\ q.answer = "signed" => /\ w.token = q.token
                                           /\ w.user = issued[q.token].email
                                           /\ w.raced = ~Free(p, {"me"})
                 /\ q.answer # "signed" => /\ w.token = page[p].token
                                           /\ w.user = page[p].user
                                           /\ w.raced = page[p].raced
    <2>1. CASE q.answer = "signed"
      <3> DEFINE w == [page[p] EXCEPT !.token = q.token, !.user = issued[q.token].email,
                                      !.ready = TRUE, !.view = "away", !.error = None,
                                      !.raced = ~Free(p, {"me"})]
      <3>1. Set(p, w)
        BY <2>1 DEF TakeVerified
      <3>2. /\ w.token = q.token /\ w.user = issued[q.token].email
            /\ w.raced = ~Free(p, {"me"})
        BY <1>2 DEF Page
      <3>3. QED BY <2>1, <3>1, <3>2
    <2>2. CASE q.answer # "signed"
      <3>1. Set(p, page[p]) \/ Set(p, [page[p] EXCEPT !.error = q.answer])
        BY <2>2 DEF TakeVerified
      <3> HIDE DEF q
      <3>2. CASE Set(p, page[p])
        BY <2>2, <3>2
      <3>3. CASE Set(p, [page[p] EXCEPT !.error = q.answer])
        BY <1>2, <2>2, <3>3 DEF Page
      <3>4. QED BY <3>1, <3>2, <3>3
    <2>3. QED BY <2>1, <2>2
  <1>4. page'[p] = w
    BY <1>3 DEF Set, IInv, PagesInv
  <1>5. ~page'[p].raced => Pair(p)' /\ AsksOwn(p)'
    <2>1. CASE q.answer = "signed"
      <3>1. q.token \in DOMAIN issued /\ q.token # 0
        BY <2>1, RowsAreSeq DEF IInv, SlotsInv
      <3>2. ~page'[p].raced => slot'[p]["me"].st = "idle"
        BY <1>1, <1>3, <1>4, <2>1 DEF Free
      <3>3. QED BY <1>1, <1>3, <1>4, <2>1, <3>1, <3>2 DEF Pair, AsksOwn
    <2>2. CASE q.answer # "signed"
      BY <1>1, <1>3, <1>4, <2>2, SameKeeps DEF Same, OwnersKept
    <2>3. QED BY <2>1, <2>2
  <1>6. QED BY <1>1, <1>3, <1>5, OthersShow

LEMMA LogoutShows ==
  ASSUME IInv, ShownInv, NEW p \in Pages, logout(p)
  PROVE  ShownInv'
  <1> DEFINE w == [page[p] EXCEPT !.token = 0, !.user = None, !.raced = ~Free(p, {"me"})]
  <1>1. UNCHANGED <<issued, slot>> /\ Set(p, w)
    BY DEF logout, server
  <1>2. w.token = 0 /\ w.user = None /\ w.raced = ~Free(p, {"me"})
    BY PageTyped DEF Page
  <1>3. page'[p] = w
    BY <1>1 DEF Set, IInv, PagesInv
  <1> HIDE DEF w
  <1>4. ~page'[p].raced => slot'[p]["me"].st = "idle"
    BY <1>1, <1>2, <1>3 DEF Free
  <1>5. ~page'[p].raced => Pair(p)' /\ AsksOwn(p)'
    BY <1>2, <1>3, <1>4 DEF Pair, AsksOwn
  <1>6. QED BY <1>1, <1>5, OthersShow

\* The answer of a /me that nothing overtook is about the token of the page.
LEMMA RefreshShows ==
  ASSUME IInv, ShownInv, NEW p \in Pages, refreshMe(p)
  PROVE  ShownInv'
  <1> DEFINE q == slot[p]["me"]
             owner == issued[q.token].email
             w == Refreshed(page[p], q.answer, owner)
  <1>1. /\ q.st = "answered" /\ Set(p, w) /\ UNCHANGED issued
        /\ slot' = [slot EXCEPT ![p]["me"] = Quiet]
    BY DEF refreshMe, Done, server
  <1>2. slot'[p]["me"] = Quiet /\ \A l \in Pages \ {p} : slot'[l]["me"] = slot[l]["me"]
    BY <1>1 DEF IInv, SlotsInv, Kinds
  <1>3. page'[p] = w
    BY <1>1 DEF Set, IInv, PagesInv
  <1>4. /\ w.raced = page[p].raced
        /\ \/ w.token = 0 /\ w.user = None
           \/ w.token = page[p].token /\ w.user \in {page[p].user, owner}
    <2>1. page[p] \in Page
      BY PageTyped
    <2> HIDE DEF owner, q
    <2>2. QED BY <2>1 DEF Refreshed, Page
  <1> HIDE DEF w
  <1>5. slot'[p]["me"].st = "idle"
    BY <1>2, RequestsTyped
  <1>6. q.token \in DOMAIN issued /\ q.token # 0
    BY <1>1, RowsAreSeq DEF IInv, SlotsInv
  <1>7. ~page[p].raced => q.token = page[p].token /\ Pair(p)
    BY <1>1 DEF ShownInv, AsksOwn
  <1>8. ~page'[p].raced => Pair(p)' /\ AsksOwn(p)'
    BY <1>1, <1>3, <1>4, <1>5, <1>6, <1>7 DEF Pair, AsksOwn
  <1>9. QED BY <1>1, <1>2, <1>8, OthersShow

LEMMA LoadShows ==
  ASSUME IInv, ShownInv, NEW p \in Pages, Load(p)
  PROVE  ShownInv'
  <1> DEFINE t == page[p].token
             w == [page[p] EXCEPT !.view = "away", !.email = None, !.cool = FALSE,
                                  !.error = None, !.ready = t = 0, !.raced = @ /\ t # 0,
                                  !.user = IF t = 0 THEN None ELSE @]
             new == [k \in Kinds |->
                       IF k = "me" /\ t # 0 THEN Asked(None, None, None, t) ELSE Quiet]
  <1>1. Set(p, w) /\ slot' = [slot EXCEPT ![p] = new] /\ UNCHANGED issued
    BY DEF Load
  <1>2. /\ w.token = t /\ w.user = IF t = 0 THEN None ELSE page[p].user
        /\ w.raced = (page[p].raced /\ t # 0)
    BY PageTyped DEF Page
  <1>3. page'[p] = w
    BY <1>1 DEF Set, IInv, PagesInv
  <1>4. new["me"].st = "idle" \/ new["me"].token = t
    BY RequestsTyped DEF Kinds, Asked
  <1>5. slot'[p]["me"] = new["me"] /\ \A l \in Pages \ {p} : slot'[l]["me"] = slot[l]["me"]
    BY <1>1 DEF IInv, SlotsInv, Kinds
  <1> HIDE DEF w, new
  <1>6. ~page[p].raced => Pair(p)
    BY DEF ShownInv
  <1>7. ~page'[p].raced => Pair(p)' /\ AsksOwn(p)'
    BY <1>1, <1>2, <1>3, <1>4, <1>5, <1>6 DEF Pair, AsksOwn
  <1>8. QED BY <1>1, <1>5, <1>7, OthersShow

LEMMA ShownInductive == IInv /\ ShownInv /\ [Next]_vars => ShownInv'
  <1> SUFFICES ASSUME IInv, ShownInv, [Next]_vars PROVE ShownInv'
    OBVIOUS
  <1>1. CASE EventLoop
    BY <1>1, EndsShows, CodeShows DEF EventLoop
  <1>2. ASSUME NEW p \in Pages, Serve(p) PROVE ShownInv'
    BY <1>2, CodeShows, ServeShows DEF Serve
  <1>3. ASSUME NEW p \in Pages, Continue(p) PROVE ShownInv'
    BY <1>3, StepsShow, TakeVerifiedShows, RefreshShows DEF Continue
  <1>4. ASSUME NEW p \in Pages, Person(p) PROVE ShownInv'
    BY <1>4, StepsShow, LoadShows, LogoutShows DEF Person
  <1>5. ASSUME NEW r \in DOMAIN rows, Deliver(r) PROVE ShownInv'
    BY <1>5, TimeShows
  <1>6. CASE Faults
    BY <1>6, EndsShows, TimeShows, ServeShows DEF Faults
  <1>7. CASE UNCHANGED vars
    BY <1>7 DEF vars, ShownInv, Pair, AsksOwn
  <1>8. QED BY <1>1, <1>2, <1>3, <1>4, <1>5, <1>6, <1>7 DEF Next

\* Whatever fails and however often a browser signs in and out: the account
\* that auth.context shows is the owner of the stored token, and none is shown
\* without a token, unless a sign-in or sign-out overtook a /me of that page.
THEOREM OwnerIsShown == Spec => []ShownIsOwner
  <1>1. Init => ShownInv
    BY RequestsTyped DEF Init, ShownInv, Pair, AsksOwn, Kinds
  <1>2. ShownInv => ShownIsOwner
    BY DEF ShownInv, ShownIsOwner, Pair
  <1>3. QED BY <1>1, <1>2, Invariance, ShownInductive, PTL DEF Spec
=============================================================================
