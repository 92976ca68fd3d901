----------------------------- MODULE EmailCodes -----------------------------
(***************************************************************************)
(* Signing in with a code sent by mail: auth/service.py and auth/store.py, *)
(* the three handlers of api/auth.py, and the page's side (auth-page.tsx,  *)
(* auth.context.tsx).                                                      *)
(*                                                                         *)
(* The handlers are coroutines that call blocking code: the event loop     *)
(* runs one request at a time (loop), and only a crash separates the       *)
(* commits of one request.  A mail travels by itself (post), may be lost,  *)
(* arrive late or arrive although sending it "failed".  Time is abstracted *)
(* to its events: a code expires, a token expires, a cool-down ends.       *)
(*                                                                         *)
(* The owner of a page is diligent: asks for a code, types the newest one  *)
(* when its mail is there, asks again when it was refused.  Whatever       *)
(* departs from that, in the person, the mail, the network or the server,  *)
(* is a slip, and the plan of a behaviour bounds their number.             *)
(***************************************************************************)
EXTENDS Naturals, Sequences, FiniteSets

CONSTANTS
  Emails,      \* the mail addresses, in their normal form
  Spellings,   \* what a person may type for an address
  Normal,      \* [Spellings -> Emails \cup {None}]: the normal form, if valid
  Codes,       \* the six-digit codes
  Pages,       \* the browsers
  Plans,       \* [pages, email, slips]: the browsers in use, the address that
               \* their owner means to sign in with, the bound on the slips
  None

ASSUME NormalAssumption ==
  Normal \in [Spellings -> Emails \cup {None}] /\ None \notin Emails
ASSUME NoneAssumption ==
  None \notin {"send", "verify", "me", "login", "register", "400", "401", "404",
               "409", "422", "502", "fault", "sent", "signed", "user"} \cup Spellings
ASSUME PlansAssumption ==
  Plans \subseteq [pages : SUBSET Pages, email : Emails, slips : Nat]

VARIABLES
  users,    \* the table users: the addresses that have an account
  rows,     \* the table email_login_codes, in the order of its ids
  issued,   \* the tokens that were signed; the server keeps none of them
  post,     \* the rows whose mail is under way
  inbox,    \* the rows whose mail has arrived
  loop,     \* the request the event loop is running
  slot,     \* the requests of each page, at most one of a kind
  page,     \* the state of each page
  plan      \* one of Plans, chosen at the start; its slips count down

server == <<users, rows, issued, loop>>
mail   == <<post, inbox>>
vars   == <<users, rows, issued, post, inbox, loop, slot, page, plan>>

Purposes == {"login", "register"}
Kinds    == {"send", "verify", "me"}
Refusals == {"400", "401", "404", "409", "422", "502", "fault"}

Idle  == [page |-> None, kind |-> None, row |-> 0]
Quiet == [st |-> "idle", email |-> None, purpose |-> None, code |-> None,
          token |-> 0, answer |-> None]

Asked(email, purpose, code, token) ==
  [st |-> "asked", email |-> email, purpose |-> purpose, code |-> code,
   token |-> token, answer |-> None]

Page == [view  : {"away", "email", "code"},   \* on the sign-in page, and its step
         mode  : Purposes,
         email : Spellings \cup {None},
         cool  : BOOLEAN,                      \* resendCooldown > 0
         error : Refusals \cup {None},
         token : Nat,                          \* in localStorage; 0 is none
         user  : Emails \cup {None},           \* shown, and in localStorage
         ready : BOOLEAN,
         raced : BOOLEAN]   \* signed in or out while /me was under way

Request == [st : {"idle", "asked", "taken", "answered"},
            email : Spellings \cup {None}, purpose : Purposes \cup {None},
            code : Codes \cup {None}, token : Nat,
            answer : Refusals \cup {None, "sent", "signed", "user"}]

TypeOK ==
  /\ users \subseteq Emails
  /\ rows \in Seq([email : Emails, purpose : Purposes, code : Codes,
                   expired : BOOLEAN, consumed : BOOLEAN])
  /\ issued \in Seq([email : Emails, row : DOMAIN rows, dead : BOOLEAN])
  /\ post \cup inbox \subseteq DOMAIN rows
  /\ loop \in [page : Pages \cup {None}, kind : Kinds \cup {None},
               row : {0} \cup DOMAIN rows]
  /\ slot \in [Pages -> [Kinds -> Request]]
  /\ page \in [Pages -> Page]
  /\ plan \in [pages : SUBSET Pages, email : Emails, slips : Nat]

Init ==
  /\ users \in SUBSET Emails
  /\ rows = <<>> /\ issued = <<>> /\ post = {} /\ inbox = {}
  /\ loop = Idle
  /\ slot = [p \in Pages |-> [k \in Kinds |-> Quiet]]
  /\ page = [p \in Pages |->
               [view |-> "away", mode |-> "login", email |-> None, cool |-> FALSE,
                error |-> None, token |-> 0, user |-> None, ready |-> TRUE,
                raced |-> FALSE]]
  /\ plan \in Plans

(***************************************************************************)
(* Helpers.                                                                *)
(***************************************************************************)
\* strip, lower, and the pattern of an address; None stands for a 422.
normalize_email(spelling) == Normal[spelling]

get_user_by_email(email) == email \in users
get_user_by_id(token) == issued[token].email \in users
create_user(email) == users \cup {email}

SlipIf(wrong) ==
  IF wrong THEN plan.slips > 0 /\ plan' = [plan EXCEPT !.slips = @ - 1]
  ELSE UNCHANGED plan

\* The ids of the codes of an address and purpose.
CodesOf(email, purpose) ==
  {r \in DOMAIN rows : rows[r].email = email /\ rows[r].purpose = purpose}

\* SELECT ... ORDER BY id DESC LIMIT 1; 0 when there is none.
get_latest_email_code(email, purpose) ==
  IF CodesOf(email, purpose) = {} THEN 0
  ELSE CHOOSE r \in CodesOf(email, purpose) :
         \A q \in CodesOf(email, purpose) : q <= r

\* Mutant: the earlier codes of every purpose end.
VoidsAll(email, purpose, code) ==
  Append([r \in DOMAIN rows |->
            IF rows[r].email = email THEN [rows[r] EXCEPT !.consumed = TRUE] ELSE rows[r]],
         [email |-> email, purpose |-> purpose, code |-> code,
          expired |-> FALSE, consumed |-> FALSE])

\* UPDATE ... SET consumed_at WHERE consumed_at IS NULL, then INSERT.
save_email_code(email, purpose, code) ==
  Append([r \in DOMAIN rows |->
            IF r \in CodesOf(email, purpose)
            THEN [rows[r] EXCEPT !.consumed = TRUE] ELSE rows[r]],
         [email |-> email, purpose |-> purpose, code |-> code,
          expired |-> FALSE, consumed |-> FALSE])

\* Mutant: the consumed row is deleted.
DeletesRow(r) == SubSeq(rows, 1, r - 1) \o SubSeq(rows, r + 1, Len(rows))

consume_email_code(r) == [rows EXCEPT ![r].consumed = TRUE]

\* The hash of a row stands for its code, purpose and address (sha256).
hash_code(email, purpose, code) == <<email, purpose, code>>
code_hash(r) == hash_code(rows[r].email, rows[r].purpose, rows[r].code)

\* What the mail of row r says: subject, text and HTML body carry the code.
Mail(r) == [email |-> rows[r].email, purpose |-> rows[r].purpose,
            code |-> rows[r].code]

\* The answer to request k of page p; a page that was reloaded gets none.
Answer(p, k, a) ==
  slot' = IF p = None THEN slot
          ELSE [slot EXCEPT ![p][k].st = "answered", ![p][k].answer = a]

Set(p, new) == page' = [page EXCEPT ![p] = new]

Done(p, k) == slot' = [slot EXCEPT ![p][k] = Quiet]

(***************************************************************************)
(* The server: POST /api/auth/send-code.                                   *)
(***************************************************************************)
Receives(p, k) == slot[p][k].st = "asked" /\ loop = Idle

\* Why send_code refuses before it does anything, or None.
SendRefusal(email, purpose) ==
  CASE email = None -> "422"
    [] email # None /\ purpose = "login" /\ ~get_user_by_email(email) -> "404"
    [] email # None /\ purpose = "register" /\ get_user_by_email(email) -> "409"
    [] OTHER -> None

\* The new code is committed, and with it the end of the earlier ones.
SaveCode(p) ==
  LET q == slot[p].send  email == normalize_email(q.email) IN
  /\ Receives(p, "send")
  /\ SendRefusal(email, q.purpose) = None
  /\ \E c \in Codes : rows' = save_email_code(email, q.purpose, c)
  /\ loop' = [page |-> p, kind |-> "send", row |-> Len(rows) + 1]
  /\ slot' = [slot EXCEPT ![p].send.st = "taken"]
  /\ UNCHANGED <<users, issued, mail, page, plan>>

RefuseSend(p) ==
  LET q == slot[p].send IN
  /\ Receives(p, "send")
  /\ SendRefusal(normalize_email(q.email), q.purpose) # None
  /\ Answer(p, "send", SendRefusal(normalize_email(q.email), q.purpose))
  /\ UNCHANGED <<server, mail, page, plan>>

MailSent ==
  /\ loop.kind = "send"
  /\ post' = post \cup {loop.row}
  /\ Answer(loop.page, "send", "sent")
  /\ loop' = Idle
  /\ UNCHANGED <<users, rows, issued, inbox, page, plan>>

\* SMTP raises; the mail may have been accepted before it did (accepted).
MailFails(accepted) ==
  /\ loop.kind = "send"
  /\ post' = IF accepted THEN post \cup {loop.row} ELSE post
  /\ Answer(loop.page, "send", "502")
  /\ loop' = Idle
  /\ SlipIf(TRUE)
  /\ UNCHANGED <<users, rows, issued, inbox, page>>

(***************************************************************************)
(* The server: POST /api/auth/verify-code and GET /api/auth/me.            *)
(***************************************************************************)
\* Mutant: a code that was used is still good.
IgnoresUse(email, purpose, code) ==
  LET r == get_latest_email_code(email, purpose) IN
  IF r = 0 THEN "400"
  ELSE IF rows[r].expired \/ hash_code(email, purpose, code) # code_hash(r) THEN "400"
  ELSE SendRefusal(email, purpose)

\* Why verify_code refuses, in the order of its tests, or None.
VerifyRefusal(email, purpose, code) ==
  LET r == get_latest_email_code(email, purpose) IN
  CASE email = None -> "422"
    [] email # None /\ r = 0 -> "400"
    [] r # 0 /\ (\/ rows[r].consumed \/ rows[r].expired
                 \/ hash_code(email, purpose, code) # code_hash(r)) -> "400"
    [] OTHER -> SendRefusal(email, purpose)

\* The code is right; to register commits the account at once.
AcceptCode(p) ==
  LET q == slot[p].verify  email == normalize_email(q.email) IN
  /\ Receives(p, "verify")
  /\ VerifyRefusal(email, q.purpose, q.code) = None
  /\ users' = IF q.purpose = "register" THEN create_user(email) ELSE users
  /\ loop' = [page |-> p, kind |-> "verify",
              row |-> get_latest_email_code(email, q.purpose)]
  /\ slot' = [slot EXCEPT ![p].verify.st = "taken"]
  /\ UNCHANGED <<rows, issued, mail, page, plan>>

RefuseCode(p) ==
  LET q == slot[p].verify
      why == VerifyRefusal(normalize_email(q.email), q.purpose, q.code) IN
  /\ Receives(p, "verify")
  /\ why # None
  /\ Answer(p, "verify", why)
  /\ UNCHANGED <<server, mail, page, plan>>

\* The code is consumed, then the token is signed and answered.
IssueToken ==
  LET p == loop.page IN
  /\ loop.kind = "verify"
  /\ rows' = consume_email_code(loop.row)
  /\ issued' = Append(issued, [email |-> rows[loop.row].email,
                               row |-> loop.row, dead |-> FALSE])
  /\ slot' = IF p = None THEN slot
             ELSE [slot EXCEPT ![p].verify.st = "answered",
                               ![p].verify.answer = "signed",
                               ![p].verify.token = Len(issued) + 1]
  /\ loop' = Idle
  /\ UNCHANGED <<users, mail, page, plan>>

\* get_current_user: the signature and the expiry, then the row of the user.
ServeMe(p) ==
  LET t == slot[p].me.token IN
  /\ Receives(p, "me")
  /\ Answer(p, "me", IF issued[t].dead \/ ~get_user_by_id(t)
                     THEN "401" ELSE "user")
  /\ UNCHANGED <<server, mail, page, plan>>

(***************************************************************************)
(* Time, the mail, the network and crashes.                                *)
(***************************************************************************)
\* All codes live equally long: with a code, the older ones expire.
CodeExpires(r) ==
  /\ r \in DOMAIN rows /\ ~rows[r].expired /\ ~rows[r].consumed
  /\ rows' = [q \in DOMAIN rows |->
                IF q <= r THEN [rows[q] EXCEPT !.expired = TRUE] ELSE rows[q]]
  /\ SlipIf(TRUE)
  /\ UNCHANGED <<users, issued, loop, mail, slot, page>>

TokenExpires(t) ==
  /\ t \in DOMAIN issued /\ ~issued[t].dead
  /\ issued' = [issued EXCEPT ![t].dead = TRUE]
  /\ SlipIf(TRUE)
  /\ UNCHANGED <<users, rows, loop, mail, slot, page>>

\* Mails arrive in any order.
Deliver(r) ==
  /\ r \in post
  /\ post' = post \ {r} /\ inbox' = inbox \cup {r}
  /\ UNCHANGED <<server, slot, page, plan>>

LoseMail(r) ==
  /\ r \in post
  /\ post' = post \ {r}
  /\ SlipIf(TRUE)
  /\ UNCHANGED <<server, inbox, slot, page>>

\* A request that never arrives, or an answer that is lost: fetch rejects.
NetworkFails(p, k) ==
  /\ \/ slot[p][k].st = "asked"
     \/ slot[p][k].st = "answered" /\ slot[p][k].answer # "fault"
  /\ Answer(p, k, "fault")
  /\ SlipIf(TRUE)
  /\ UNCHANGED <<server, mail, page>>

\* The process dies in the middle of a request; what it committed stays.
Crash ==
  /\ loop # Idle
  /\ Answer(loop.page, loop.kind, "fault")
  /\ loop' = Idle
  /\ SlipIf(TRUE)
  /\ UNCHANGED <<users, rows, issued, mail, page>>

(***************************************************************************)
(* The sign-in page (auth-page.tsx).                                       *)
(***************************************************************************)
Free(p, kinds) == \A k \in kinds : slot[p][k].st = "idle"

SignedIn(p) == page[p].ready /\ page[p].user # None

\* The person is signing in at another browser too.
Elsewhere(p) == \E q \in Pages \ {p} : page[q].view # "away"

\* AuthGateModal opens the page in the mode of the button; its state is
\* fresh.  Who was told "not registered" or "registered" takes the other one.
\* Bound: not while a request of an earlier visit is under way.
Enter(p, m) ==
  /\ p \in plan.pages /\ page[p].view = "away" /\ ~SignedIn(p)
  /\ Free(p, {"send", "verify"})
  /\ page[p].error = "404" => m = "register"
  /\ page[p].error = "409" => m = "login"
  /\ Set(p, [page[p] EXCEPT !.view = "email", !.mode = m, !.email = None,
                            !.cool = FALSE, !.error = None])
  /\ SlipIf(page[p].user # None \/ Elsewhere(p))
  /\ UNCHANGED <<server, mail, slot>>

\* handleLeavePage: the answers to the requests of the page still come.
Leave(p) ==
  /\ page[p].view # "away"
  /\ Set(p, [page[p] EXCEPT !.view = "away"])
  /\ SlipIf(page[p].error \notin {"404", "409"} /\ ~Elsewhere(p))
  /\ UNCHANGED <<server, mail, slot>>

\* The mail of the newest code was lost, or never sent: no use waiting.
NothingComes(p) ==
  LET r == get_latest_email_code(normalize_email(page[p].email), page[p].mode) IN
  r \notin post \cup inbox

\* requestCode on the first step, with the address typed there.
AskFirst(p, a) ==
  /\ page[p].view = "email" /\ Free(p, {"send"}) /\ ~page[p].cool
  /\ Set(p, [page[p] EXCEPT !.email = a, !.error = None])
  /\ slot' = [slot EXCEPT ![p].send = Asked(a, page[p].mode, None, 0)]
  /\ SlipIf(\/ Elsewhere(p) \/ normalize_email(a) # plan.email
            \/ page[p].error \in {"404", "409"})
  /\ UNCHANGED <<server, mail>>

\* requestCode again, from the second step, once the cool-down is over.
AskAgain(p) ==
  /\ page[p].view = "code" /\ Free(p, {"send"}) /\ ~page[p].cool
  /\ Set(p, [page[p] EXCEPT !.error = None])
  /\ slot' = [slot EXCEPT ![p].send =
                Asked(page[p].email, page[p].mode, None, 0)]
  /\ SlipIf(\/ Elsewhere(p) \/ page[p].error \in {"404", "409"}
            \/ page[p].error = None /\ ~NothingComes(p)
            \/ ~Free(p, {"verify"}))
  /\ UNCHANGED <<server, mail>>

\* The code was sent: the second step, and the cool-down starts.
TakeSent(p) ==
  LET a == slot[p].send.answer IN
  /\ slot[p].send.st = "answered"
  /\ Set(p, IF page[p].view = "away" THEN page[p]
            ELSE IF a = "sent"
                 THEN [page[p] EXCEPT !.view = "code", !.cool = TRUE]
                 ELSE [page[p] EXCEPT !.error = a])
  /\ Done(p, "send")
  /\ UNCHANGED <<server, mail, plan>>

CoolDown(p) ==
  /\ page[p].cool
  /\ Set(p, [page[p] EXCEPT !.cool = FALSE])
  /\ UNCHANGED <<server, mail, slot, plan>>

\* handleVerify with the code of a mail of the inbox.
Verify(p, r) ==
  LET w == page[p] IN
  /\ w.view = "code" /\ Free(p, {"verify"})
  /\ r \in inbox /\ Mail(r).email = normalize_email(w.email)
  /\ Set(p, [w EXCEPT !.error = None])
  /\ slot' = [slot EXCEPT ![p].verify = Asked(w.email, w.mode, Mail(r).code, 0)]
  /\ SlipIf(\/ w.error \in {"400", "404", "409"}
            \/ r # get_latest_email_code(normalize_email(w.email), w.mode)
            \/ ~Free(p, {"send"}))
  /\ UNCHANGED <<server, mail>>

\* login stores the token and the user, also after the page was left.
TakeVerified(p) ==
  LET q == slot[p].verify IN
  /\ q.st = "answered"
  /\ Set(p, IF q.answer = "signed"
            THEN [page[p] EXCEPT !.token = q.token, !.user = issued[q.token].email,
                                 !.ready = TRUE, !.view = "away", !.error = None,
                                 !.raced = ~Free(p, {"me"})]
            ELSE IF page[p].view = "away" THEN page[p]
            ELSE [page[p] EXCEPT !.error = q.answer])
  /\ Done(p, "verify")
  /\ UNCHANGED <<server, mail, plan>>

(***************************************************************************)
(* The signed-in state of the browser (auth.context.tsx).                  *)
(***************************************************************************)
\* A reload: refreshMe asks who the stored token belongs to, and shows the
\* stored user meanwhile.  Requests of the old page are given up.
Load(p) ==
  LET t == page[p].token IN
  /\ Set(p, [page[p] EXCEPT !.view = "away", !.email = None, !.cool = FALSE,
                            !.error = None, !.ready = t = 0, !.raced = @ /\ t # 0,
                            !.user = IF t = 0 THEN None ELSE @])
  /\ slot' = [slot EXCEPT ![p] = [k \in Kinds |->
                IF k = "me" /\ t # 0 THEN Asked(None, None, None, t) ELSE Quiet]]
  /\ loop' = IF loop.page = p THEN [loop EXCEPT !.page = None] ELSE loop
  /\ SlipIf(\/ ~page[p].ready
            \/ IF t = 0 THEN page[p].user = None ELSE ~issued[t].dead)
  /\ UNCHANGED <<users, rows, issued, mail>>

\* Mutant: whatever goes wrong, nobody is shown as signed in.
ForgetsUser(w, answer, owner) ==
  CASE answer = "401" -> [w EXCEPT !.token = 0, !.user = None, !.ready = TRUE]
    [] answer = "user" -> [w EXCEPT !.user = owner, !.ready = TRUE, !.view = "away"]
    [] OTHER -> [w EXCEPT !.ready = TRUE, !.user = None]

\* Mutant: a refused token is kept like after any other failure.
KeepsRefused(w, answer, owner) ==
  IF answer = "user" THEN [w EXCEPT !.user = owner, !.ready = TRUE, !.view = "away"]
  ELSE [w EXCEPT !.ready = TRUE, !.view = IF w.user = None THEN @ ELSE "away"]

\* refreshMe goes on: only a "401" signs out, other failures keep what is
\* stored.  AuthPage goes away once somebody is signed in.
Refreshed(w, answer, owner) ==
  CASE answer = "401" -> [w EXCEPT !.token = 0, !.user = None, !.ready = TRUE]
    [] answer = "user" -> [w EXCEPT !.user = owner, !.ready = TRUE, !.view = "away"]
    [] OTHER -> [w EXCEPT !.ready = TRUE,
                          !.view = IF w.user = None THEN @ ELSE "away"]

refreshMe(p) ==
  LET q == slot[p].me IN
  /\ q.st = "answered"
  /\ Set(p, Refreshed(page[p], q.answer, issued[q.token].email))
  /\ Done(p, "me")
  /\ UNCHANGED <<server, mail, plan>>

logout(p) ==
  /\ SignedIn(p)
  /\ Set(p, [page[p] EXCEPT !.token = 0, !.user = None,
                            !.raced = ~Free(p, {"me"})])
  /\ SlipIf(TRUE)
  /\ UNCHANGED <<server, mail, slot>>

-----------------------------------------------------------------------------
(***************************************************************************)
(* Next.                                                                   *)
(***************************************************************************)
EventLoop == MailSent \/ IssueToken

Serve(p) ==
  SaveCode(p) \/ RefuseSend(p) \/ AcceptCode(p) \/ RefuseCode(p) \/ ServeMe(p)

Continue(p) == TakeSent(p) \/ TakeVerified(p) \/ refreshMe(p) \/ CoolDown(p)

Person(p) ==
  \/ \E m \in Purposes : Enter(p, m)
  \/ \E a \in Spellings : AskFirst(p, a)
  \/ AskAgain(p)
  \/ \E r \in DOMAIN rows : Verify(p, r)
  \/ Leave(p) \/ Load(p) \/ logout(p)

Faults ==
  \/ \E accepted \in BOOLEAN : MailFails(accepted)
  \/ Crash
  \/ \E r \in DOMAIN rows : CodeExpires(r) \/ LoseMail(r)
  \/ \E t \in DOMAIN issued : TokenExpires(t)
  \/ \E p \in Pages, k \in Kinds : NetworkFails(p, k)

Next ==
  \/ EventLoop
  \/ \E p \in Pages : Serve(p) \/ Continue(p) \/ Person(p)
  \/ \E r \in DOMAIN rows : Deliver(r)
  \/ Faults

Spec == Init /\ [][Next]_vars

\* What a person does of his own accord who wants to be signed in.
Diligent(p) ==
  /\ UNCHANGED plan
  /\ \/ \E m \in Purposes : Enter(p, m)
     \/ \E a \in Spellings : AskFirst(p, a)
     \/ AskAgain(p)
     \/ \E r \in DOMAIN rows : Verify(p, r)
     \/ Leave(p) \/ Load(p)

\* The event loop serves every request it received, the browser runs every
\* continuation, mails that are not lost arrive, the person goes on.
Fairness ==
  /\ WF_vars(EventLoop)
  /\ WF_vars(\E r \in DOMAIN rows : Deliver(r))
  /\ \A p \in Pages :
       WF_vars(Serve(p)) /\ WF_vars(Continue(p)) /\ WF_vars(Diligent(p))

FairSpec == Spec /\ Fairness

-----------------------------------------------------------------------------
(***************************************************************************)
(* Properties.                                                             *)
(***************************************************************************)
\* Being verified: the event loop has accepted the code of row r.
Verifying(r) == loop.kind = "verify" /\ loop.row = r

\* A code opens at most once, however its verification was repeated (another
\* page with the same mail, a lost answer, a crash between the commits): at
\* most one token was signed for a row, none that its row does not record,
\* and a code that a later one replaced is not being accepted.
\* And it works until it expires: nothing but a later code for the same
\* purpose, or its own use, has ever consumed it.
CodeOpensOnce ==
  /\ \A t, u \in DOMAIN issued : issued[t].row = issued[u].row => t = u
  /\ \A t \in DOMAIN issued : rows[issued[t].row].consumed
  /\ \A r \in DOMAIN rows : Verifying(r) =>
        ~rows[r].consumed /\ \A q \in CodesOf(rows[r].email, rows[r].purpose) : q <= r
  /\ \A r \in DOMAIN rows : rows[r].consumed =>
        \/ \E q \in CodesOf(rows[r].email, rows[r].purpose) : q > r
        \/ \E t \in DOMAIN issued : issued[t].row = r

\* Who is shown as signed in is the owner of the stored token, and somebody is
\* as long as a token is stored: a failed refreshMe (a crash, the network)
\* signs nobody out.  Not when a sign-in or a sign-out overtook the answer.
ShownIsOwner ==
  \A p \in Pages : ~page[p].raced =>
    IF page[p].token = 0 THEN page[p].user = None
    ELSE page[p].user = issued[page[p].token].email

\* Holding a token that has not expired.
Signed(p) ==
  /\ SignedIn(p) /\ page[p].token # 0
  /\ ~issued[page[p].token].dead

\* Who goes on asking for codes and typing them gets in, and in again when the
\* token has expired: a crash between the commits of a registration, a lost
\* mail, a code superseded from another page leave nobody locked out.
SignsIn == \A p \in Pages : p \in plan.pages ~> Signed(p)
=============================================================================
