-------------------------- MODULE VoiceSessionProofs --------------------------
(***************************************************************************)
(* Theorems about VoiceSession for every number of utterances and threads  *)
(* and all troubles at once.                                               *)
(***************************************************************************)
EXTENDS VoiceSession, FiniteSetTheorems, TLAPS

\* What holds of an utterance at every time in the page.
VoiceTrue(w) ==
    /\ w.st = "new" => ~w.settled /\ w.sock = "none" /\ w.mic = "none" /\ w.outcome = "none"
    /\ w.finishRequested \/ w.finishSent => w.st = "released"
    /\ w.timer => w.finishSent /\ ~w.settled
    /\ w.settled => w.mic # "on"
    /\ w.outcome = "text" => w.settled
PageTrue == \A u \in Utterances : VoiceTrue(voice[u])

\* The bar holds an utterance that is being spoken, and no other.
BarHolds ==
    /\ bar.status = "idle" <=> bar.current = 0
    /\ bar.current # 0 => voice[bar.current].st = "pressed" /\ ~voice[bar.current].settled
    /\ bar.status = "recording" => voice[bar.current].mic = "on"

\* The recogniser is told to finish only by the page, and speaks of the end only then.
Over(w) == w.finishSent \/ w.sock = "closed"
EventTrue(e, s) ==
    /\ e.type = "sentence" => e.text = "draft"
    /\ e.type = "final" => e.text \in {"", "whole"}
    /\ e.type \in {"final", "done"} => s.finishing
ServerTrue ==
    \A u \in Utterances :
        /\ stt[u].finishing => Over(voice[u])
        /\ \A i \in 1 .. Len(events[u]) : EventTrue(events[u][i], stt[u])

\* Where a transcript may be, and the order in which the transcripts came.
HasCome(u) == \E i \in 1 .. Len(talk.resolved) : talk.resolved[i] = u
InQueue(u) == \E i \in 1 .. Len(talk.queue) : talk.queue[i] = u
InChat(u)  == \E i \in 1 .. Len(chat.sent) : chat.sent[i].u = u
Before(a, b) == \E i, k \in 1 .. Len(talk.resolved) :
                    i < k /\ talk.resolved[i] = a /\ talk.resolved[k] = b

CameOnce == \A i, k \in 1 .. Len(talk.resolved) : talk.resolved[i] = talk.resolved[k] => i = k
Placed ==
    /\ \A u \in Utterances :
        /\ voice[u].outcome = "text" <=> HasCome(u)
        /\ HasCome(u) <=> InQueue(u) \/ InChat(u) \/ u \in talk.handed \/ u \in talk.cleared
        /\ u \in talk.handed => ~InQueue(u) /\ ~InChat(u) /\ u \notin talk.cleared
        /\ u \in talk.cleared => ~InQueue(u) /\ ~InChat(u)
Ordered ==
    /\ \A i, k \in 1 .. Len(chat.sent) : i < k => Before(chat.sent[i].u, chat.sent[k].u)
    /\ \A i \in 1 .. Len(chat.sent) : \A k \in 1 .. Len(talk.queue) :
            Before(chat.sent[i].u, talk.queue[k])
    /\ \A i, k \in 1 .. Len(talk.queue) : i < k => Before(talk.queue[i], talk.queue[k])
Bubbles ==
    \A u \in talk.pendingIds : voice[u].st = "released" /\ (~voice[u].settled \/ InQueue(u))
TalkTrue == CameOnce /\ Placed /\ Ordered /\ Bubbles

IInv == TypeOK /\ PageTrue /\ BarHolds /\ ServerTrue /\ TalkTrue

-----------------------------------------------------------------------------
(* How an utterance ends.                                                  *)

LEMMA TornIs ==
    ASSUME NEW w \in Voice
    PROVE  /\ Torn(w) \in Voice /\ Torn(w).settled /\ ~Torn(w).timer /\ Torn(w).mic # "on"
           /\ Torn(w).st = w.st /\ Torn(w).finishRequested = w.finishRequested
           /\ Torn(w).finishSent = w.finishSent /\ Torn(w).outcome = w.outcome
           /\ Torn(w).sock \in {"none", "closed"} /\ (w.sock = "closed" => Torn(w).sock = "closed")
  <1> DEFINE s == IF w.sock = "none" THEN w.sock ELSE "closed"
             m == IF w.mic = "on" THEN "off" ELSE w.mic
  <1>1. /\ s \in {"none", "closed"} /\ (w.sock = "closed" => s = "closed")
        /\ m \in {"none", "asked", "off"}
    BY DEF Voice
  <1>2. Torn(w) = [w EXCEPT !.settled = TRUE, !.sock = s, !.timer = FALSE, !.mic = m]
    BY DEF Torn
  <1> HIDE DEF s, m
  <1>3. QED BY <1>1, <1>2 DEF Voice

\* An utterance that was begun may be settled at any time.
LEMMA SettledIs ==
    ASSUME NEW w \in Voice, NEW o \in {"none", "text", "failed", "dropped"}, w.st # "new",
           w.finishRequested \/ w.finishSent => w.st = "released"
    PROVE  LET z == [Torn(w) EXCEPT !.outcome = o]
           IN /\ z \in Voice /\ VoiceTrue(z) /\ z.settled /\ z.outcome = o /\ z.st = w.st
              /\ (Over(w) => Over(z))
  <1> DEFINE t == Torn(w)
  <1>1. /\ t \in Voice /\ t.settled /\ ~t.timer /\ t.mic # "on" /\ t.st = w.st
        /\ t.finishRequested = w.finishRequested /\ t.finishSent = w.finishSent
        /\ (w.sock = "closed" => t.sock = "closed")
    BY TornIs
  <1> HIDE DEF t
  <1> DEFINE z == [t EXCEPT !.outcome = o]
  <1>2. /\ z \in Voice /\ z.outcome = o /\ z.settled = t.settled /\ z.timer = t.timer /\ z.mic = t.mic
        /\ z.st = t.st /\ z.finishRequested = t.finishRequested /\ z.finishSent = t.finishSent
        /\ z.sock = t.sock
    BY <1>1 DEF Voice
  <1> HIDE DEF z
  <1>3. z \in Voice /\ VoiceTrue(z) /\ z.settled /\ z.outcome = o /\ z.st = w.st
        /\ (Over(w) => Over(z))
    BY <1>1, <1>2 DEF VoiceTrue, Over
  <1>4. QED BY <1>3 DEF t, z

\* To ask for the end, now or as soon as the socket is open, needs the button released.
LEMMA FinishIs ==
    ASSUME NEW w \in Voice, w.st = "released", w.settled => w.mic # "on" /\ ~w.timer,
           w.timer => w.finishSent, w.outcome = "text" => w.settled
    PROVE  /\ sendFinish(w) \in Voice /\ VoiceTrue(sendFinish(w))
           /\ sendFinish(w).settled = w.settled /\ sendFinish(w).outcome = w.outcome
           /\ sendFinish(w).st = w.st /\ (Over(w) => Over(sendFinish(w)))
  <1>1. CASE w.finishSent \/ w.settled
    BY <1>1 DEF sendFinish, VoiceTrue
  <1>2. CASE ~(w.finishSent \/ w.settled) /\ w.sock # "open"
    <2>1. sendFinish(w) = [w EXCEPT !.finishRequested = TRUE]
      BY <1>2 DEF sendFinish
    <2>2. QED BY <1>2, <2>1 DEF Voice, VoiceTrue, Over
  <1>3. CASE ~(w.finishSent \/ w.settled) /\ w.sock = "open"
    <2>1. sendFinish(w) = [w EXCEPT !.finishRequested = TRUE, !.finishSent = TRUE, !.timer = TRUE]
      BY <1>3 DEF sendFinish
    <2>2. QED BY <1>3, <2>1 DEF Voice, VoiceTrue, Over
  <1>4. QED BY <1>1, <1>2, <1>3

-----------------------------------------------------------------------------
(* What a step of the page owes the page and the server.                   *)

Bar == [current : 0..MaxUtterances, status : {"idle", "starting", "recording"}]

\* The bar after a step of utterance u, which is w then.
BarFits(b, u, w) ==
    /\ b \in Bar /\ (b.status = "idle" <=> b.current = 0)
    /\ b.current # u => b.current = 0 \/ b = bar
    /\ b.current = u => w.st = "pressed" /\ ~w.settled
    /\ b.current = u /\ b.status = "recording" => w.mic = "on"

\* The messages the page took, the first of those that wait or none.
Taken(u) == events' = events \/ (events[u] # <<>> /\ events' = [events EXCEPT ![u] = Tail(@)])

PageOK == /\ voice' \in [Utterances -> Voice] /\ bar' \in Bar
          /\ stt' \in [Utterances -> Stt] /\ events' \in [Utterances -> Seq(Event)]
          /\ PageTrue' /\ BarHolds' /\ ServerTrue'

LEMMA PageKept ==
    ASSUME IInv, NEW u \in Utterances, NEW w \in Voice, VoiceTrue(w), Over(voice[u]) => Over(w),
           voice' = [voice EXCEPT ![u] = w], stt' = stt, Taken(u), BarFits(bar', u, w)
    PROVE  PageOK
  <1> USE DEF IInv
  <1>1. /\ voice \in [Utterances -> Voice] /\ stt \in [Utterances -> Stt]
        /\ events \in [Utterances -> Seq(Event)] /\ bar \in Bar
    BY DEF TypeOK, Bar
  <1>2. /\ voice' \in [Utterances -> Voice] /\ voice'[u] = w
        /\ \A v \in Utterances : v # u => voice'[v] = voice[v]
    BY <1>1
  <1>3. PageTrue'
    BY <1>2 DEF PageTrue
  <1>4. bar' \in Bar /\ BarHolds'
    <2>1. bar'.current \in 0 .. MaxUtterances
      BY DEF BarFits, Bar
    <2>2. bar'.current # 0 => bar'.current \in Utterances
      BY <2>1, UtterancesAssumption DEF Utterances
    <2>3. CASE bar'.current = u
      <3>1. 0 # u
        BY UtterancesAssumption DEF Utterances
      <3>2. QED BY <1>2, <2>3, <3>1 DEF BarFits, BarHolds
    <2>4. CASE bar'.current = 0
      BY <2>4 DEF BarFits, BarHolds, Bar
    <2>5. CASE bar'.current \notin {0, u}
      BY <1>2, <2>2, <2>5 DEF BarFits, BarHolds
    <2>6. QED BY <2>3, <2>4, <2>5 DEF BarFits
  <1>5. /\ events' \in [Utterances -> Seq(Event)]
        /\ \A v \in Utterances : \A i \in 1 .. Len(events'[v]) :
              \E k \in 1 .. Len(events[v]) : events'[v][i] = events[v][k]
    <2>1. CASE events' = events
      BY <1>1, <2>1
    <2>2. CASE events[u] # <<>> /\ events' = [events EXCEPT ![u] = Tail(@)]
      <3>1. events[u] \in Seq(Event)
        BY <1>1
      <3>2. /\ Tail(events[u]) \in Seq(Event) /\ Len(Tail(events[u])) = Len(events[u]) - 1
            /\ Len(events[u]) \in Nat
            /\ \A i \in 1 .. Len(Tail(events[u])) : Tail(events[u])[i] = events[u][i + 1]
        BY <2>2, <3>1
      <3>3. /\ events' \in [Utterances -> Seq(Event)] /\ events'[u] = Tail(events[u])
            /\ \A v \in Utterances : v # u => events'[v] = events[v]
        BY <1>1, <2>2, <3>2
      <3>4. \A i \in 1 .. Len(events'[u]) : i + 1 \in 1 .. Len(events[u])
        BY <3>2, <3>3
      <3>5. QED BY <3>2, <3>3, <3>4
    <2>3. QED BY <2>1, <2>2 DEF Taken
  <1>6. ServerTrue'
    BY <1>2, <1>5 DEF ServerTrue
  <1>7. QED BY <1>1, <1>2, <1>3, <1>4, <1>5, <1>6 DEF PageOK

-----------------------------------------------------------------------------
(* What a step of the page owes the queue.                                 *)

Talk == [pendingIds : SUBSET Utterances, queue : Seq(Utterances),
         resolved : Seq(Utterances), handed : SUBSET Utterances, cleared : SUBSET Utterances]

LEMMA QueuedHaveCome ==
    ASSUME IInv
    PROVE  /\ talk.queue \in Seq(Utterances)
           /\ \A i \in 1 .. Len(talk.queue) : talk.queue[i] \in Utterances /\ HasCome(talk.queue[i])
           /\ \A i \in 1 .. Len(chat.sent) : chat.sent[i].u \in Utterances /\ HasCome(chat.sent[i].u)
  <1>1. talk.queue \in Seq(Utterances) /\ chat.sent \in Seq([u : Utterances, thread : Threads])
    BY DEF IInv, TypeOK
  <1>2. \A i \in 1 .. Len(talk.queue) : talk.queue[i] \in Utterances
    BY <1>1
  <1>3. \A i \in 1 .. Len(chat.sent) : chat.sent[i] \in [u : Utterances, thread : Threads]
    <2> DEFINE Message == [u : Utterances, thread : Threads]
               sent == chat.sent
    <2>1. sent \in Seq(Message)
      BY <1>1
    <2> HIDE DEF Message, sent
    <2>2. \A i \in 1 .. Len(sent) : sent[i] \in Message
      BY <2>1
    <2>3. QED BY <2>2 DEF Message, sent
  <1>4. QED BY <1>1, <1>2, <1>3 DEF IInv, TalkTrue, Placed, InQueue, InChat

\* Utterance u goes on, and neither gains nor loses a transcript.
LEMMA TalkSame ==
    ASSUME IInv, NEW u \in Utterances, NEW w \in Voice, voice' = [voice EXCEPT ![u] = w],
           w.outcome = "text" <=> voice[u].outcome = "text", UNCHANGED <<talk, chat>>,
           u \in talk.pendingIds => w.st = "released" /\ (~w.settled \/ voice[u].settled)
    PROVE  talk' \in Talk /\ TalkTrue'
  <1>1. /\ voice'[u] = w /\ \A v \in Utterances : v # u => voice'[v] = voice[v]
        /\ talk \in Talk
    BY DEF IInv, TypeOK, Talk
  <1>2. CameOnce' /\ Ordered'
    BY DEF IInv, TalkTrue, CameOnce, Ordered, Before
  <1>3. /\ \A v \in Utterances : (HasCome(v)' <=> HasCome(v)) /\ (InQueue(v)' <=> InQueue(v))
                                 /\ (InChat(v)' <=> InChat(v))
        /\ talk.pendingIds \subseteq Utterances
    BY <1>1 DEF HasCome, InQueue, InChat, Talk
  <1>4. Placed'
    BY <1>1, <1>3 DEF IInv, TalkTrue, Placed
  <1>5. Bubbles'
    BY <1>1, <1>3 DEF IInv, TalkTrue, Bubbles
  <1>6. QED BY <1>1, <1>2, <1>4, <1>5 DEF TalkTrue

\* The bubble of an utterance appears when it is released, and goes when it fails.
LEMMA TalkBubble ==
    ASSUME IInv, NEW u \in Utterances, NEW w \in Voice, voice' = [voice EXCEPT ![u] = w],
           w.outcome # "text", voice[u].outcome # "text", chat' = chat,
           NEW ids \in SUBSET (talk.pendingIds \cup {u}), talk' = [talk EXCEPT !.pendingIds = ids],
           u \in ids => w.st = "released" /\ ~w.settled
    PROVE  talk' \in Talk /\ TalkTrue'
  <1>1. /\ voice'[u] = w /\ \A v \in Utterances : v # u => voice'[v] = voice[v]
        /\ talk \in Talk
    BY DEF IInv, TypeOK, Talk
  <1>2. /\ talk' \in Talk /\ talk'.pendingIds = ids /\ talk'.queue = talk.queue
        /\ talk'.resolved = talk.resolved /\ talk'.handed = talk.handed /\ talk'.cleared = talk.cleared
    BY <1>1 DEF Talk
  <1>3. CameOnce' /\ Ordered'
    BY <1>2 DEF IInv, TalkTrue, CameOnce, Ordered, Before
  <1>4. \A v \in Utterances : (HasCome(v)' <=> HasCome(v)) /\ (InQueue(v)' <=> InQueue(v))
                              /\ (InChat(v)' <=> InChat(v))
    BY <1>2 DEF HasCome, InQueue, InChat
  <1>5. Placed'
    BY <1>1, <1>2, <1>4 DEF IInv, TalkTrue, Placed
  <1>6. Bubbles'
    <2>1. SUFFICES ASSUME NEW v \in ids
                   PROVE  voice'[v].st = "released" /\ (~voice'[v].settled \/ InQueue(v)')
      BY <1>2 DEF Bubbles
    <2>2. v \in Utterances
      BY <1>1 DEF Talk
    <2>3. QED BY <1>1, <1>4, <2>2 DEF IInv, TalkTrue, Bubbles
  <1>7. QED BY <1>2, <1>3, <1>5, <1>6 DEF TalkTrue

\* A transcript that comes is the last of those that came, and is queued last.
LEMMA TalkResolved ==
    ASSUME IInv, NEW u \in Utterances, NEW w \in Voice, voice' = [voice EXCEPT ![u] = w],
           w.outcome = "text", voice[u].outcome # "text", chat' = chat, talk' = Resolved(u),
           w.st = "released"
    PROVE  talk' \in Talk /\ TalkTrue'
  <1>1. /\ voice'[u] = w /\ \A v \in Utterances : v # u => voice'[v] = voice[v]
        /\ talk \in Talk
    BY DEF IInv, TypeOK, Talk
  <1>2. /\ talk' \in Talk /\ talk'.pendingIds = talk.pendingIds /\ talk'.queue = Append(talk.queue, u)
        /\ talk'.resolved = Append(talk.resolved, u)
        /\ talk'.handed = talk.handed /\ talk'.cleared = talk.cleared
    <2>1. /\ Append(talk.queue, u) \in Seq(Utterances) /\ Append(talk.resolved, u) \in Seq(Utterances)
      BY <1>1 DEF Talk
    <2>2. talk' = [talk EXCEPT !.queue = Append(talk.queue, u), !.resolved = Append(talk.resolved, u)]
      BY DEF Resolved
    <2>3. QED BY <1>1, <2>1, <2>2 DEF Talk
  <1>3. /\ Len(talk.queue) \in Nat /\ Len(talk'.queue) = Len(talk.queue) + 1
        /\ talk'.queue[Len(talk.queue) + 1] = u
        /\ \A i \in 1 .. Len(talk.queue) : talk'.queue[i] = talk.queue[i]
    <2>1. talk.queue \in Seq(Utterances)
      BY <1>1 DEF Talk
    <2>2. QED BY <1>2, <2>1
  <1>4. /\ Len(talk.resolved) \in Nat /\ Len(talk'.resolved) = Len(talk.resolved) + 1
        /\ talk'.resolved[Len(talk.resolved) + 1] = u
        /\ \A i \in 1 .. Len(talk.resolved) : talk'.resolved[i] = talk.resolved[i]
    <2>1. talk.resolved \in Seq(Utterances)
      BY <1>1 DEF Talk
    <2>2. QED BY <1>2, <2>1
  <1>5. \A v \in Utterances : /\ HasCome(v)' <=> HasCome(v) \/ v = u
                              /\ InQueue(v)' <=> InQueue(v) \/ v = u
                              /\ InChat(v)' <=> InChat(v)
    <2>1. \A i \in 1 .. Len(talk'.resolved) : i \in 1 .. Len(talk.resolved) \/ i = Len(talk.resolved) + 1
      BY <1>4
    <2>2. \A i \in 1 .. Len(talk'.queue) : i \in 1 .. Len(talk.queue) \/ i = Len(talk.queue) + 1
      BY <1>3
    <2>3. /\ \A i \in 1 .. Len(talk.resolved) : i \in 1 .. Len(talk'.resolved)
          /\ Len(talk.resolved) + 1 \in 1 .. Len(talk'.resolved)
          /\ \A i \in 1 .. Len(talk.queue) : i \in 1 .. Len(talk'.queue)
          /\ Len(talk.queue) + 1 \in 1 .. Len(talk'.queue)
      BY <1>3, <1>4
    <2>4. QED BY <1>3, <1>4, <2>1, <2>2, <2>3 DEF HasCome, InQueue, InChat
  <1>6. ~HasCome(u)
    BY DEF IInv, TalkTrue, Placed
  <1>7. CameOnce'
    BY <1>4, <1>6 DEF IInv, TalkTrue, CameOnce, HasCome
  <1>8. Placed'
    BY <1>1, <1>2, <1>5, <1>6 DEF IInv, TalkTrue, Placed
  <1>9. /\ \A a, b \in Utterances : Before(a, b) => Before(a, b)'
        /\ \A a \in Utterances : HasCome(a) => Before(a, u)'
    <2>1. /\ \A i \in 1 .. Len(talk.resolved) :
                i \in 1 .. Len(talk'.resolved) /\ i < Len(talk.resolved) + 1
          /\ Len(talk.resolved) + 1 \in 1 .. Len(talk'.resolved)
      BY <1>4
    <2>2. ASSUME NEW a \in Utterances, NEW b \in Utterances, Before(a, b)
          PROVE  Before(a, b)'
      BY <1>4, <2>1, <2>2 DEF Before
    <2>3. ASSUME NEW a \in Utterances, HasCome(a)
          PROVE  Before(a, u)'
      BY <1>4, <2>1, <2>3 DEF Before, HasCome
    <2>4. QED BY <2>2, <2>3
  <1>10. Ordered'
    <2>1. /\ \A i \in 1 .. Len(talk.queue) : talk.queue[i] \in Utterances /\ HasCome(talk.queue[i])
          /\ \A i \in 1 .. Len(chat.sent) : chat.sent[i].u \in Utterances /\ HasCome(chat.sent[i].u)
      BY QueuedHaveCome
    <2>2. \A i \in 1 .. Len(talk'.queue) : i \in 1 .. Len(talk.queue) \/ i = Len(talk.queue) + 1
      BY <1>3
    <2>3. chat'.sent = chat.sent
      OBVIOUS
    <2>4. \A i, k \in 1 .. Len(chat.sent) :
              i < k => Before(chat.sent[i].u, chat.sent[k].u)'
      BY <1>9, <2>1, <2>3 DEF IInv, TalkTrue, Ordered
    <2>5. \A i \in 1 .. Len(chat.sent) : \A k \in 1 .. Len(talk'.queue) :
              Before(chat.sent[i].u, talk.queue[k])'
      <3>1. SUFFICES ASSUME NEW i \in 1 .. Len(chat.sent), NEW k \in 1 .. Len(talk'.queue)
                     PROVE  Before(chat.sent[i].u, talk.queue[k])'
        OBVIOUS
      <3>2. CASE k \in 1 .. Len(talk.queue)
        BY <1>3, <1>9, <2>1, <2>3, <3>2 DEF IInv, TalkTrue, Ordered
      <3>3. CASE k = Len(talk.queue) + 1
        BY <1>3, <1>9, <2>1, <2>3, <3>3
      <3>4. QED BY <2>2, <3>2, <3>3
    <2>6. \A i, k \in 1 .. Len(talk'.queue) : i < k => Before(talk.queue[i], talk.queue[k])'
      <3>1. SUFFICES ASSUME NEW i \in 1 .. Len(talk'.queue), NEW k \in 1 .. Len(talk'.queue), i < k
                     PROVE  Before(talk.queue[i], talk.queue[k])'
        OBVIOUS
      <3>2. i \in 1 .. Len(talk.queue)
        BY <1>3, <3>1
      <3>3. CASE k \in 1 .. Len(talk.queue)
        BY <1>3, <1>9, <2>1, <3>1, <3>2, <3>3 DEF IInv, TalkTrue, Ordered
      <3>4. CASE k = Len(talk.queue) + 1
        BY <1>3, <1>9, <2>1, <3>2, <3>4
      <3>5. QED BY <2>2, <3>3, <3>4
    <2>7. QED BY <2>3, <2>4, <2>5, <2>6 DEF Ordered
  <1>11. Bubbles'
    BY <1>1, <1>2, <1>5 DEF IInv, TalkTrue, Bubbles, Talk
  <1>12. QED BY <1>2, <1>7, <1>8, <1>10, <1>11 DEF TalkTrue

-----------------------------------------------------------------------------
(* The person and the browser.                                             *)

LEMMA Together ==
    ASSUME IInv, PageOK, talk' \in Talk /\ TalkTrue', UNCHANGED <<chat, troubles>>
    PROVE  IInv'
  BY DEF IInv, TypeOK, PageOK, Talk, Bar

\* What is known of an utterance before a step.
LEMMA VoiceKnown ==
    ASSUME IInv, NEW u \in Utterances
    PROVE  /\ voice[u] \in Voice /\ VoiceTrue(voice[u]) /\ u # 0
           /\ bar \in Bar /\ (bar.status = "idle" <=> bar.current = 0)
           /\ bar.current = u => voice[u].st = "pressed" /\ ~voice[u].settled
           /\ bar.current = u /\ bar.status = "recording" => voice[u].mic = "on"
           /\ u \in talk.pendingIds => voice[u].st = "released"
  <1>1. voice[u] \in Voice /\ VoiceTrue(voice[u]) /\ bar \in Bar
    BY DEF IInv, TypeOK, PageTrue, Bar
  <1>2. u # 0
    BY UtterancesAssumption DEF Utterances
  <1>3. QED BY <1>1, <1>2 DEF IInv, BarHolds, TalkTrue, Bubbles

\* A step that changes neither whether the utterance is settled nor how.
LEMMA KeptInv ==
    ASSUME IInv, NEW u \in Utterances, NEW w \in Voice, VoiceTrue(w), Over(voice[u]) => Over(w),
           voice' = [voice EXCEPT ![u] = w], UNCHANGED <<stt, chat, talk, troubles>>, Taken(u),
           BarFits(bar', u, w), w.settled = voice[u].settled, w.outcome = voice[u].outcome,
           w.st = voice[u].st
    PROVE  IInv'
  <1>1. PageOK
    BY PageKept
  <1>2. talk' \in Talk /\ TalkTrue'
    BY TalkSame, VoiceKnown
  <1>3. QED BY <1>1, <1>2, Together

LEMMA SettleInv ==
    ASSUME IInv, NEW u \in Utterances, NEW w \in Voice, NEW text, settleSession(u, w, text),
           UNCHANGED <<stt, chat, troubles>>, Taken(u), Over(voice[u]) => Over(w),
           voice[u].st = "released", ~voice[u].settled, w.st = "released"
    PROVE  IInv'
  <1>1. /\ bar.current # u /\ bar \in Bar /\ bar' = bar /\ (bar.status = "idle" <=> bar.current = 0)
        /\ voice[u].outcome # "text" /\ talk \in Talk
    BY VoiceKnown DEF VoiceTrue, settleSession, IInv, TypeOK, Talk
  <1>2. CASE text # ""
    <2> DEFINE z == [Torn(w) EXCEPT !.outcome = "text"]
    <2>1. voice' = [voice EXCEPT ![u] = z] /\ talk' = Resolved(u)
      BY <1>2 DEF settleSession
    <2>2. /\ z \in Voice /\ VoiceTrue(z) /\ z.outcome = "text" /\ z.st = "released"
          /\ (Over(w) => Over(z))
      BY SettledIs
    <2> HIDE DEF z
    <2>3. PageOK
      BY <1>1, <2>1, <2>2, PageKept DEF BarFits
    <2>4. talk' \in Talk /\ TalkTrue'
      BY <1>1, <2>1, <2>2, TalkResolved
    <2>5. QED BY <2>3, <2>4, Together
  <1>3. CASE text = ""
    <2> DEFINE z == [Torn(w) EXCEPT !.outcome = "failed"]
    <2>1. voice' = [voice EXCEPT ![u] = z] /\ talk' = Failed(u)
      BY <1>3 DEF settleSession
    <2>2. /\ z \in Voice /\ VoiceTrue(z) /\ z.outcome = "failed" /\ z.st = "released"
          /\ (Over(w) => Over(z))
      BY SettledIs
    <2> HIDE DEF z
    <2>3. PageOK
      BY <1>1, <2>1, <2>2, PageKept DEF BarFits
    <2> DEFINE ids == talk.pendingIds \ {u}
    <2>4. /\ talk' = [talk EXCEPT !.pendingIds = ids]
          /\ ids \in SUBSET (talk.pendingIds \cup {u}) /\ u \notin ids
      BY <2>1 DEF Failed, Without
    <2> HIDE DEF ids
    <2>5. z.outcome # "text" /\ chat' = chat
      BY <2>2
    <2>6. talk' \in Talk /\ TalkTrue'
      BY <1>1, <2>1, <2>2, <2>4, <2>5, TalkBubble
    <2>7. QED BY <2>3, <2>6, Together
  <1>4. QED BY <1>2, <1>3

\* An utterance that is not released ends without a bubble; the bar is free if it was the one spoken.
LEMMA DroppedInv ==
    ASSUME IInv, NEW u \in Utterances, NEW w \in Voice, NEW o \in {"failed", "dropped"},
           voice' = [voice EXCEPT ![u] = [Torn(w) EXCEPT !.outcome = o]],
           UNCHANGED <<stt, chat, talk, troubles>>, Taken(u), Over(voice[u]) => Over(w),
           voice[u].st = "pressed", ~voice[u].settled, w.st = "pressed",
           ~w.finishRequested /\ ~w.finishSent,
           bar' = IF bar.current = u THEN [current |-> 0, status |-> "idle"] ELSE bar
    PROVE  IInv'
  <1> DEFINE z == [Torn(w) EXCEPT !.outcome = o]
  <1>1. /\ z \in Voice /\ VoiceTrue(z) /\ z.outcome = o /\ z.settled /\ z.st = "pressed"
        /\ (Over(w) => Over(z)) /\ voice' = [voice EXCEPT ![u] = z]
    BY SettledIs
  <1> HIDE DEF z
  <1>2. BarFits(bar', u, z)
    <2>1. CASE bar.current = u
      <3>1. bar' = [current |-> 0, status |-> "idle"] /\ 0 \in 0 .. MaxUtterances
        BY <2>1, UtterancesAssumption
      <3>2. QED BY <3>1, VoiceKnown DEF BarFits, Bar
    <2>2. CASE bar.current # u
      BY <2>2, VoiceKnown DEF BarFits
    <2>3. QED BY <2>1, <2>2
  <1>3. PageOK
    BY <1>1, <1>2, PageKept
  <1>4. talk' \in Talk /\ TalkTrue'
    <2>1. voice[u].outcome # "text" /\ u \notin talk.pendingIds
      BY VoiceKnown DEF VoiceTrue
    <2>2. QED BY <1>1, <2>1, TalkSame
  <1>5. QED BY <1>3, <1>4, Together

LEMMA AbortInv ==
    ASSUME IInv, NEW u \in Utterances, NEW w \in Voice, VoiceTrue(w), abortWithError(u, w),
           UNCHANGED <<stt, chat, troubles>>, Taken(u), Over(voice[u]) => Over(w),
           w.st = voice[u].st, w.settled = voice[u].settled, w.outcome = voice[u].outcome, w.st # "new"
    PROVE  IInv'
  <1>1. CASE w.settled
    <2>1. voice' = [voice EXCEPT ![u] = w] /\ UNCHANGED <<bar, talk>>
      BY <1>1 DEF abortWithError
    <2>2. BarFits(bar', u, w)
      BY <1>1, <2>1, VoiceKnown DEF BarFits
    <2>3. QED BY <2>1, <2>2, KeptInv
  <1>2. CASE ~w.settled /\ w.st = "released"
    <2>1. settleSession(u, w, partialText(w))
      BY <1>2 DEF abortWithError
    <2>2. QED BY <1>2, <2>1, SettleInv
  <1>3. CASE ~w.settled /\ w.st # "released"
    <2>1. failActive(u, w)
      BY <1>3 DEF abortWithError
    <2>2. w.st = "pressed" /\ ~w.finishRequested /\ ~w.finishSent
      BY <1>3 DEF Voice, VoiceTrue
    <2>3. QED BY <1>3, <2>1, <2>2, DroppedInv DEF failActive
  <1>4. QED BY <1>1, <1>2, <1>3

LEMMA PressInv == ASSUME IInv, NEW u \in Utterances, press(u) PROVE IInv'
  <1> DEFINE w == [voice[u] EXCEPT !.st = "pressed", !.sock = "opening", !.mic = "asked",
                                   !.thread = chat.thread]
  <1>1. /\ bar.current = 0 /\ voice[u].st = "new" /\ bar' = [current |-> u, status |-> "starting"]
        /\ UNCHANGED <<stt, events, chat, talk, troubles>>
    BY DEF press
  <1>2. voice \in [Utterances -> Voice] /\ voice[u] \in Voice /\ chat.thread \in Threads
    BY DEF IInv, TypeOK
  <1>3. voice' = [voice EXCEPT ![u] = w]
    BY <1>2 DEF press
  <1>4. ~voice[u].settled /\ voice[u].outcome = "none" /\ ~voice[u].finishSent /\ voice[u].sock = "none"
        /\ ~voice[u].finishRequested /\ ~voice[u].timer /\ u \notin talk.pendingIds
    BY <1>1, VoiceKnown DEF VoiceTrue
  <1>5. /\ w \in Voice /\ w.st = "pressed" /\ ~w.settled /\ w.outcome = "none" /\ ~w.finishSent
        /\ ~w.finishRequested /\ ~w.timer
    BY <1>2, <1>4 DEF Voice
  <1> HIDE DEF w
  <1>6. VoiceTrue(w) /\ (Over(voice[u]) => Over(w))
    BY <1>4, <1>5 DEF VoiceTrue, Over
  <1>7. BarFits(bar', u, w)
    <2>1. u \in 0 .. MaxUtterances /\ u # 0
      BY UtterancesAssumption DEF Utterances
    <2>2. QED BY <1>1, <1>5, <2>1 DEF BarFits, Bar
  <1>8. PageOK
    BY <1>1, <1>3, <1>5, <1>6, <1>7, PageKept DEF Taken
  <1>9. talk' \in Talk /\ TalkTrue'
    BY <1>1, <1>3, <1>4, <1>5, TalkSame
  <1>10. QED BY <1>1, <1>8, <1>9, Together

LEMMA ReleaseTapInv == ASSUME IInv, NEW u \in Utterances, releaseTap(u) PROVE IInv'
  <1>1. /\ bar.current = u /\ ~voice[u].settled
        /\ voice' = [voice EXCEPT ![u] = [Torn(voice[u]) EXCEPT !.outcome = "failed"]]
        /\ bar' = [current |-> 0, status |-> "idle"]
        /\ UNCHANGED <<stt, events, chat, talk, troubles>>
    BY DEF releaseTap, IInv, TypeOK
  <1>2. voice[u] \in Voice /\ voice[u].st = "pressed" /\ ~voice[u].finishRequested /\ ~voice[u].finishSent
    BY <1>1, VoiceKnown DEF VoiceTrue
  <1>3. QED BY <1>1, <1>2, DroppedInv DEF Taken

LEMMA CancelInv == ASSUME IInv, NEW u \in Utterances, cancel(u) PROVE IInv'
  <1>1. /\ bar.current = u /\ ~voice[u].settled /\ voice[u] \in Voice /\ voice[u].st = "pressed"
        /\ ~voice[u].finishRequested /\ ~voice[u].finishSent
    BY VoiceKnown DEF VoiceTrue, cancel
  <1>2. /\ voice' = [voice EXCEPT ![u] = [Torn(voice[u]) EXCEPT !.outcome = "dropped"]]
        /\ bar' = [current |-> 0, status |-> "idle"]
        /\ UNCHANGED <<stt, events, chat, talk, troubles>>
    BY <1>1 DEF cancel, IInv, TypeOK
  <1>3. QED BY <1>1, <1>2, DroppedInv DEF Taken

\* The bubble of a released utterance appears before it is settled.
LEMMA ReleaseInv == ASSUME IInv, NEW u \in Utterances, release(u) PROVE IInv'
  <1> DEFINE v == [voice[u] EXCEPT !.st = "released", !.thread = chat.thread]
             w == sendFinish(v)
  <1>1. /\ bar.current = u /\ ~voice[u].settled /\ bar' = [current |-> 0, status |-> "idle"]
        /\ UNCHANGED <<stt, events, chat, troubles>>
    BY DEF release
  <1>2. /\ voice \in [Utterances -> Voice] /\ voice[u] \in Voice /\ VoiceTrue(voice[u])
        /\ chat.thread \in Threads /\ talk \in Talk
    BY VoiceKnown DEF IInv, TypeOK, Talk
  <1>3. voice' = [voice EXCEPT ![u] = w]
    BY <1>2 DEF release
  <1>4. talk' = [talk EXCEPT !.pendingIds = talk.pendingIds \cup {u}]
    BY <1>2 DEF release
  <1>5. /\ v \in Voice /\ v.st = "released" /\ v.settled = voice[u].settled /\ v.mic = voice[u].mic
        /\ v.timer = voice[u].timer /\ v.finishSent = voice[u].finishSent
        /\ v.outcome = voice[u].outcome /\ v.sock = voice[u].sock
    BY <1>2 DEF Voice
  <1>6. voice[u].outcome # "text"
    BY <1>1, <1>2 DEF VoiceTrue
  <1> HIDE DEF v
  <1>7. /\ w \in Voice /\ VoiceTrue(w) /\ ~w.settled /\ w.outcome = voice[u].outcome
        /\ w.st = "released" /\ (Over(v) => Over(w))
    BY <1>1, <1>2, <1>5, FinishIs DEF VoiceTrue
  <1> HIDE DEF w
  <1>8. Over(voice[u]) => Over(w)
    BY <1>5, <1>7 DEF Over
  <1>9. BarFits(bar', u, w)
    <2>1. u # 0 /\ 0 \in 0 .. MaxUtterances
      BY UtterancesAssumption DEF Utterances
    <2>2. QED BY <1>1, <2>1 DEF BarFits, Bar
  <1>10. PageOK
    BY <1>1, <1>3, <1>7, <1>8, <1>9, PageKept DEF Taken
  <1>11. talk' \in Talk /\ TalkTrue'
    <2> DEFINE ids == talk.pendingIds \cup {u}
    <2>1. talk' = [talk EXCEPT !.pendingIds = ids] /\ ids \in SUBSET (talk.pendingIds \cup {u})
      BY <1>4
    <2> HIDE DEF ids
    <2>2. w.outcome # "text" /\ chat' = chat
      BY <1>1, <1>6, <1>7
    <2>3. QED BY <1>3, <1>6, <1>7, <2>1, <2>2, TalkBubble
  <1>12. QED BY <1>1, <1>10, <1>11, Together

\* The microphone that is granted too late is let go.
LEMMA OpenAudioInv == ASSUME IInv, NEW u \in Utterances, openAudioPipeline(u) PROVE IInv'
  <1>1. /\ voice[u].mic = "asked" /\ UNCHANGED <<stt, events, chat, talk, troubles>>
        /\ voice[u] \in Voice /\ VoiceTrue(voice[u]) /\ bar \in Bar
    BY VoiceKnown DEF openAudioPipeline, Keep
  <1>2. CASE voice[u].settled
    <2> DEFINE w == [voice[u] EXCEPT !.mic = "off"]
    <2>1. voice' = [voice EXCEPT ![u] = w] /\ bar' = bar
      BY <1>2 DEF openAudioPipeline, Keep
    <2>2. /\ w \in Voice /\ w.mic = "off" /\ w.st = voice[u].st /\ w.settled = voice[u].settled
          /\ w.outcome = voice[u].outcome /\ w.finishSent = voice[u].finishSent /\ w.timer = voice[u].timer
          /\ w.finishRequested = voice[u].finishRequested /\ w.sock = voice[u].sock
      BY <1>1 DEF Voice
    <2> HIDE DEF w
    <2>3. VoiceTrue(w) /\ (Over(voice[u]) => Over(w))
      BY <1>1, <2>2 DEF VoiceTrue, Over
    <2>4. BarFits(bar', u, w)
      BY <1>2, <2>1, VoiceKnown DEF BarFits
    <2>5. QED BY <1>1, <2>1, <2>2, <2>3, <2>4, KeptInv DEF Taken
  <1>3. CASE ~voice[u].settled
    <2> DEFINE w == [voice[u] EXCEPT !.mic = "on"]
    <2>1. /\ voice' = [voice EXCEPT ![u] = w]
          /\ bar' = IF bar.current = u THEN [bar EXCEPT !.status = "recording"] ELSE bar
      BY <1>3 DEF openAudioPipeline
    <2>2. /\ w \in Voice /\ w.mic = "on" /\ w.st = voice[u].st /\ w.settled = voice[u].settled
          /\ w.outcome = voice[u].outcome /\ w.finishSent = voice[u].finishSent /\ w.timer = voice[u].timer
          /\ w.finishRequested = voice[u].finishRequested /\ w.sock = voice[u].sock
      BY <1>1 DEF Voice
    <2> HIDE DEF w
    <2>3. VoiceTrue(w) /\ (Over(voice[u]) => Over(w))
      BY <1>1, <1>3, <2>2 DEF VoiceTrue, Over
    <2>4. BarFits(bar', u, w)
      <3>1. CASE bar.current = u
        <4>1. bar' = [bar EXCEPT !.status = "recording"]
          BY <2>1, <3>1
        <4>2. bar' \in Bar /\ bar'.current = u /\ bar'.status = "recording"
          BY <1>1, <3>1, <4>1 DEF Bar
        <4>3. QED BY <1>3, <2>2, <3>1, <4>2, VoiceKnown DEF BarFits
      <3>2. CASE bar.current # u
        BY <2>1, <3>2, VoiceKnown DEF BarFits
      <3>3. QED BY <3>1, <3>2
    <2>5. QED BY <1>1, <2>1, <2>2, <2>3, <2>4, KeptInv DEF Taken
  <1>4. QED BY <1>2, <1>3

LEMMA MicrophoneFailsInv == ASSUME IInv, NEW u \in Utterances, MicrophoneFails(u) PROVE IInv'
  <1> DEFINE w == [voice[u] EXCEPT !.mic = "off"]
  <1>1. /\ voice[u].mic = "asked" /\ UNCHANGED <<stt, events, chat, troubles>>
        /\ voice[u] \in Voice /\ VoiceTrue(voice[u]) /\ abortWithError(u, w)
    BY VoiceKnown DEF MicrophoneFails
  <1>2. /\ w \in Voice /\ w.mic = "off" /\ w.st = voice[u].st /\ w.settled = voice[u].settled
        /\ w.outcome = voice[u].outcome /\ w.finishSent = voice[u].finishSent /\ w.timer = voice[u].timer
        /\ w.finishRequested = voice[u].finishRequested /\ w.sock = voice[u].sock
    BY <1>1 DEF Voice
  <1> HIDE DEF w
  <1>3. VoiceTrue(w) /\ (Over(voice[u]) => Over(w)) /\ w.st # "new"
    BY <1>1, <1>2 DEF VoiceTrue, Over
  <1>4. QED BY <1>1, <1>2, <1>3, AbortInv DEF Taken

LEMMA OnOpenInv == ASSUME IInv, NEW u \in Utterances, onopen(u) PROVE IInv'
  <1> DEFINE v == [voice[u] EXCEPT !.sock = "open"]
             w == IF v.finishRequested THEN sendFinish(v) ELSE v
  <1>1. /\ voice[u].sock = "opening" /\ UNCHANGED <<stt, events, bar, chat, talk, troubles>>
        /\ voice[u] \in Voice /\ VoiceTrue(voice[u]) /\ voice' = [voice EXCEPT ![u] = w]
    BY VoiceKnown DEF onopen, Keep
  <1>2. /\ v \in Voice /\ v.sock = "open" /\ v.mic = voice[u].mic /\ v.st = voice[u].st
        /\ v.settled = voice[u].settled
        /\ v.outcome = voice[u].outcome /\ v.finishSent = voice[u].finishSent /\ v.timer = voice[u].timer
        /\ v.finishRequested = voice[u].finishRequested
    BY <1>1 DEF Voice
  <1> HIDE DEF v
  <1>3. VoiceTrue(v) /\ (Over(voice[u]) => Over(v)) /\ v.st # "new"
    BY <1>1, <1>2 DEF VoiceTrue, Over
  <1>4. /\ w \in Voice /\ VoiceTrue(w) /\ w.settled = v.settled /\ w.outcome = v.outcome
        /\ w.st = v.st /\ (Over(v) => Over(w))
    <2>1. CASE v.finishRequested
      <3>1. v.st = "released" /\ (v.settled => v.mic # "on" /\ ~v.timer) /\ (v.timer => v.finishSent)
            /\ (v.outcome = "text" => v.settled)
        BY <1>3, <2>1 DEF VoiceTrue
      <3>2. QED BY <1>2, <2>1, <3>1, FinishIs
    <2>2. CASE ~v.finishRequested
      BY <1>2, <1>3, <2>2
    <2>3. QED BY <2>1, <2>2
  <1> HIDE DEF w
  <1>5. BarFits(bar', u, w)
    <2>1. CASE bar.current = u
      \* While it is spoken there is nothing to ask for.
      <3>1. ~v.finishRequested
        BY <1>1, <1>2, <2>1, VoiceKnown DEF VoiceTrue
      <3>2. w = v
        BY <3>1 DEF w
      <3>3. QED BY <1>1, <1>2, <2>1, <3>2, VoiceKnown DEF BarFits
    <2>2. CASE bar.current # u
      BY <1>1, <2>2, VoiceKnown DEF BarFits
    <2>3. QED BY <2>1, <2>2
  <1>6. QED BY <1>1, <1>2, <1>3, <1>4, <1>5, KeptInv DEF Taken

LEMMA OnDeadInv == ASSUME IInv, NEW u \in Utterances, onDead(u) PROVE IInv'
  <1> DEFINE w == [voice[u] EXCEPT !.sock = "closed"]
  <1>1. /\ voice[u].sock \in {"opening", "open"} /\ UNCHANGED <<stt, events, chat, troubles>>
        /\ voice[u] \in Voice /\ VoiceTrue(voice[u]) /\ abortWithError(u, w)
    BY VoiceKnown DEF onDead
  <1>2. /\ w \in Voice /\ w.sock = "closed" /\ w.st = voice[u].st /\ w.settled = voice[u].settled
        /\ w.outcome = voice[u].outcome /\ w.finishSent = voice[u].finishSent /\ w.timer = voice[u].timer
        /\ w.finishRequested = voice[u].finishRequested /\ w.mic = voice[u].mic
    BY <1>1 DEF Voice
  <1> HIDE DEF w
  <1>3. VoiceTrue(w) /\ (Over(voice[u]) => Over(w)) /\ w.st # "new"
    BY <1>1, <1>2 DEF VoiceTrue, Over
  <1>4. QED BY <1>1, <1>2, <1>3, AbortInv DEF Taken

LEMMA ResolveTimeoutInv == ASSUME IInv, NEW u \in Utterances, resolveTimeout(u) PROVE IInv'
  <1>1. /\ voice[u].timer /\ settleSession(u, voice[u], partialText(voice[u]))
        /\ UNCHANGED <<stt, events, chat, troubles>> /\ voice[u] \in Voice
    BY VoiceKnown DEF resolveTimeout
  <1>2. voice[u].st = "released" /\ ~voice[u].settled
    BY <1>1, VoiceKnown DEF VoiceTrue
  <1>3. QED BY <1>1, <1>2, SettleInv DEF Taken

\* A "done" reaches only a page that asked for the end.
LEMMA MessageInv == ASSUME IInv, NEW u \in Utterances, handleSessionMessage(u) PROVE IInv'
  <1> DEFINE w == voice[u]
             e == Head(events[u])
  <1>1. /\ w.sock = "open" /\ ~w.settled /\ w \in Voice /\ VoiceTrue(w)
        /\ events[u] # <<>> /\ UNCHANGED <<stt, chat, troubles>> /\ Taken(u)
    BY VoiceKnown DEF handleSessionMessage, Taken
  <1>2. e \in Event /\ EventTrue(e, stt[u])
    <2>1. events[u] \in Seq(Event)
      BY DEF IInv, TypeOK
    <2>2. e = events[u][1] /\ 1 \in 1 .. Len(events[u]) /\ e \in Event
      BY <1>1, <2>1
    <2>3. QED BY <2>2 DEF IInv, ServerTrue
  <1>3. stt[u].finishing => w.st = "released"
    BY <1>1 DEF IInv, ServerTrue, Over, VoiceTrue
  <1>4. w.st # "new"
    BY <1>1 DEF VoiceTrue
  <1>5. \/ e.type = "sentence" /\ TakeSentence(u, w, e)
        \/ e.type = "final" /\ TakeFinal(u, w, e)
        \/ e.type = "done" /\ TakeDone(u, w, e)
        \/ e.type = "error" /\ abortWithError(u, w)
    <2>1. e.type \in {"sentence", "final", "done", "error"}
      BY <1>2 DEF Event, handleSessionMessage
    <2>2. CASE e.type = "sentence"
      BY <2>2 DEF handleSessionMessage
    <2>3. CASE e.type = "final"
      BY <2>3 DEF handleSessionMessage
    <2>4. CASE e.type = "done"
      BY <2>4 DEF handleSessionMessage
    <2>5. CASE e.type = "error"
      BY <2>5 DEF handleSessionMessage
    <2>6. QED BY <2>1, <2>2, <2>3, <2>4, <2>5
  <1> HIDE DEF e
  <1>6. CASE e.type = "sentence" /\ TakeSentence(u, w, e)
    <2> DEFINE z == [w EXCEPT !.interimText = e.text]
    <2>1. voice' = [voice EXCEPT ![u] = z] /\ UNCHANGED <<bar, talk>>
      BY <1>6 DEF TakeSentence, Keep
    <2>2. e.text = "draft"
      BY <1>2, <1>6 DEF EventTrue
    <2>3. /\ z \in Voice /\ z.st = w.st /\ z.settled = w.settled /\ z.outcome = w.outcome
          /\ z.finishSent = w.finishSent /\ z.timer = w.timer /\ z.mic = w.mic
          /\ z.finishRequested = w.finishRequested /\ z.sock = w.sock
      BY <1>1, <2>2 DEF Voice
    <2> HIDE DEF z
    <2>4. VoiceTrue(z) /\ (Over(w) => Over(z)) /\ BarFits(bar', u, z)
      BY <1>1, <2>1, <2>3, VoiceKnown DEF VoiceTrue, Over, BarFits
    <2>5. QED BY <1>1, <2>1, <2>3, <2>4, KeptInv
  <1>7. CASE e.type = "final" /\ TakeFinal(u, w, e)
    <2> DEFINE z == IF e.text = "" THEN w
                    ELSE [w EXCEPT !.finalText = e.text, !.interimText = ""]
    <2>1. w.st = "released"
      BY <1>2, <1>3, <1>7 DEF EventTrue
    <2>2. settleSession(u, z, z.finalText)
      BY <1>7, <2>1 DEF TakeFinal
    <2>3. e.text \in {"", "whole"}
      BY <1>2, <1>7 DEF EventTrue
    <2>4. z \in Voice /\ z.st = w.st /\ z.finishSent = w.finishSent /\ z.sock = w.sock
      BY <1>1, <2>3 DEF Voice
    <2> HIDE DEF z
    <2>5. Over(w) => Over(z)
      BY <2>4 DEF Over
    <2>6. QED BY <1>1, <2>1, <2>2, <2>4, <2>5, SettleInv
  <1>8. CASE e.type = "done" /\ TakeDone(u, w, e)
    <2>1. w.st = "released"
      BY <1>2, <1>3, <1>8 DEF EventTrue
    <2>2. settleSession(u, w, IF e.text # "" THEN e.text ELSE partialText(w))
      BY <1>8 DEF TakeDone
    <2>3. QED BY <1>1, <2>1, <2>2, SettleInv
  <1>9. CASE e.type = "error" /\ abortWithError(u, w)
    BY <1>1, <1>4, <1>9, AbortInv
  <1>10. QED BY <1>5, <1>6, <1>7, <1>8, <1>9

-----------------------------------------------------------------------------
(* The server and the recogniser.                                          *)

LEMMA TalkStays ==
    ASSUME IInv, UNCHANGED <<voice, talk>>, chat'.sent = chat.sent
    PROVE  TalkTrue'
  <1>1. CameOnce'
    BY DEF IInv, TalkTrue, CameOnce
  <1>2. Ordered'
    BY DEF IInv, TalkTrue, Ordered, Before
  <1>3. \A v \in Utterances : (HasCome(v)' <=> HasCome(v)) /\ (InQueue(v)' <=> InQueue(v))
                              /\ (InChat(v)' <=> InChat(v))
    BY DEF HasCome, InQueue, InChat
  <1>4. Placed'
    BY <1>3 DEF IInv, TalkTrue, Placed
  <1>5. talk.pendingIds \subseteq Utterances
    BY DEF IInv, TypeOK
  <1>6. Bubbles'
    BY <1>3, <1>5 DEF IInv, TalkTrue, Bubbles
  <1>7. QED BY <1>1, <1>2, <1>4, <1>6 DEF TalkTrue

LEMMA ServerKept ==
    ASSUME IInv, NEW u \in Utterances, NEW s \in Stt, stt' = [stt EXCEPT ![u] = s],
           s.finishing => stt[u].finishing \/ Over(voice[u]), stt[u].finishing => s.finishing,
           NEW more \in Seq(Event), \A i \in 1 .. Len(more) : EventTrue(more[i], s),
           \/ events' = [events EXCEPT ![u] = events[u] \o more]
           \/ events' = [events EXCEPT ![u] = <<>>],
           UNCHANGED <<voice, bar, chat, talk, troubles>>
    PROVE  IInv'
  <1>1. /\ stt \in [Utterances -> Stt] /\ events \in [Utterances -> Seq(Event)]
        /\ events[u] \in Seq(Event)
    BY DEF IInv, TypeOK
  <1>2. /\ stt' \in [Utterances -> Stt] /\ stt'[u] = s
        /\ \A v \in Utterances : v # u => stt'[v] = stt[v]
    BY <1>1
  <1>3. /\ events' \in [Utterances -> Seq(Event)]
        /\ \A v \in Utterances : v # u => events'[v] = events[v]
        /\ events'[u] = events[u] \o more \/ events'[u] = <<>>
    <2>1. events[u] \o more \in Seq(Event) /\ <<>> \in Seq(Event)
      BY <1>1
    <2>2. QED BY <1>1, <2>1
  <1>4. \A i \in 1 .. Len(events'[u]) : EventTrue(events'[u][i], s)
    <2>1. CASE events'[u] = <<>>
      BY <2>1
    <2>2. CASE events'[u] = events[u] \o more
      <3>1. /\ Len(events'[u]) = Len(events[u]) + Len(more) /\ Len(events[u]) \in Nat /\ Len(more) \in Nat
            /\ \A i \in 1 .. Len(events'[u]) :
                  events'[u][i] = IF i <= Len(events[u]) THEN events[u][i] ELSE more[i - Len(events[u])]
        BY <1>1, <2>2
      <3>2. \A i \in 1 .. Len(events[u]) : EventTrue(events[u][i], s)
        BY DEF IInv, ServerTrue, EventTrue
      <3>3. SUFFICES ASSUME NEW i \in 1 .. Len(events'[u])
                     PROVE  EventTrue(events'[u][i], s)
        OBVIOUS
      <3>4. CASE i <= Len(events[u])
        BY <3>1, <3>2, <3>4
      <3>5. CASE ~(i <= Len(events[u]))
        <4>1. i - Len(events[u]) \in 1 .. Len(more)
          BY <3>1, <3>5
        <4>2. QED BY <3>1, <3>5, <4>1
      <3>6. QED BY <3>4, <3>5
    <2>3. QED BY <1>3, <2>1, <2>2
  <1>5. ServerTrue'
    <2>1. SUFFICES ASSUME NEW v \in Utterances
                   PROVE  /\ stt'[v].finishing => Over(voice[v])
                          /\ \A i \in 1 .. Len(events'[v]) : EventTrue(events'[v][i], stt'[v])
      BY DEF ServerTrue
    <2>2. CASE v = u
      BY <1>2, <1>4, <2>2 DEF IInv, ServerTrue
    <2>3. CASE v # u
      BY <1>2, <1>3, <2>3 DEF IInv, ServerTrue
    <2>4. QED BY <2>2, <2>3
  <1>6. TypeOK'
    BY <1>2, <1>3 DEF IInv, TypeOK
  <1>7. PageTrue' /\ BarHolds'
    BY DEF IInv, PageTrue, BarHolds
  <1>8. TalkTrue'
    BY TalkStays
  <1>9. QED BY <1>5, <1>6, <1>7, <1>8 DEF IInv

\* Where nothing is said.
LEMMA ServerSilent ==
    ASSUME IInv, NEW u \in Utterances, NEW s \in Stt, stt' = [stt EXCEPT ![u] = s],
           s.finishing => stt[u].finishing \/ Over(voice[u]), stt[u].finishing => s.finishing,
           UNCHANGED <<voice, events, bar, chat, talk, troubles>>
    PROVE  IInv'
  <1>1. events \in [Utterances -> Seq(Event)] /\ events[u] \in Seq(Event)
    BY DEF IInv, TypeOK
  <1>2. events[u] \o <<>> = events[u] /\ <<>> \in Seq(Event)
    BY <1>1
  <1>3. events' = [events EXCEPT ![u] = events[u] \o <<>>]
    BY <1>1, <1>2
  <1>4. \A i \in 1 .. Len(<<>>) : EventTrue(<<>>[i], s)
    OBVIOUS
  <1>5. QED BY <1>2, <1>3, <1>4, ServerKept

LEMMA SttKnown == ASSUME IInv, NEW u \in Utterances
                  PROVE  stt[u] \in Stt /\ stt \in [Utterances -> Stt]
                         /\ events[u] \in Seq(Event) /\ events \in [Utterances -> Seq(Event)]
  BY DEF IInv, TypeOK

\* Every event the server queues is one of these.
LEMMA EventsMade ==
    ASSUME NEW s \in Stt
    PROVE  /\ \A type \in {"error", "closed"} :
                  Event_(type, "") \in Event /\ EventTrue(Event_(type, ""), s)
           /\ Event_("sentence", "draft") \in Event /\ EventTrue(Event_("sentence", "draft"), s)
           /\ s.finishing => \A text \in {"", "whole"} :
                  Event_("final", text) \in Event /\ EventTrue(Event_("final", text), s)
           /\ s.finishing => \A text \in Texts :
                  Event_("done", text) \in Event /\ EventTrue(Event_("done", text), s)
  <1>1. \A type \in {"error", "closed"} :
            Event_(type, "") \in Event /\ EventTrue(Event_(type, ""), s)
    BY DEF Event_, Event, Texts, EventTrue
  <1>2. Event_("sentence", "draft") \in Event /\ EventTrue(Event_("sentence", "draft"), s)
    BY DEF Event_, Event, Texts, EventTrue
  <1>3. s.finishing => \A text \in {"", "whole"} :
            Event_("final", text) \in Event /\ EventTrue(Event_("final", text), s)
    BY DEF Event_, Event, Texts, EventTrue
  <1>4. s.finishing => \A text \in Texts :
            Event_("done", text) \in Event /\ EventTrue(Event_("done", text), s)
    BY DEF Event_, Event, Texts, EventTrue
  <1>5. QED BY <1>1, <1>2, <1>3, <1>4

LEMMA OneEvent ==
    ASSUME NEW e \in Event, NEW s, EventTrue(e, s)
    PROVE  <<e>> \in Seq(Event) /\ \A i \in 1 .. Len(<<e>>) : EventTrue(<<e>>[i], s)
  <1>1. <<e>> \in Seq(Event) /\ Len(<<e>>) = 1 /\ <<e>>[1] = e
    OBVIOUS
  <1>2. QED BY <1>1

LEMMA Joined ==
    ASSUME NEW S, NEW f \in Seq(S), NEW d \in Seq(S)
    PROVE  /\ f \o d \in Seq(S) /\ Len(f) \in Nat /\ Len(d) \in Nat /\ Len(f \o d) = Len(f) + Len(d)
           /\ DOMAIN (f \o d) = 1 .. Len(f \o d)
           /\ \A i \in 1 .. Len(f \o d) : (f \o d)[i] = IF i <= Len(f) THEN f[i] ELSE d[i - Len(f)]
  OBVIOUS

LEMMA EventsJoined ==
    ASSUME NEW f \in Seq(Event), NEW d \in Seq(Event), NEW s,
           \A i \in 1 .. Len(f) : EventTrue(f[i], s), \A i \in 1 .. Len(d) : EventTrue(d[i], s)
    PROVE  f \o d \in Seq(Event) /\ \A i \in 1 .. Len(f \o d) : EventTrue((f \o d)[i], s)
  <1> DEFINE more == f \o d
  <1>1. more \in Seq(Event)
    BY Joined
  <1>2. /\ Len(f) \in Nat /\ Len(d) \in Nat /\ Len(more) = Len(f) + Len(d)
        /\ \A i \in 1 .. Len(more) : more[i] = IF i <= Len(f) THEN f[i] ELSE d[i - Len(f)]
    BY Joined
  <1> HIDE DEF more
  <1>3. ASSUME NEW i \in 1 .. Len(more), i <= Len(f)
        PROVE  EventTrue(more[i], s)
    BY <1>2, <1>3
  <1>4. ASSUME NEW i \in 1 .. Len(more), ~(i <= Len(f))
        PROVE  EventTrue(more[i], s)
    <2>1. i - Len(f) \in 1 .. Len(d)
      BY <1>2, <1>4
    <2>2. QED BY <1>2, <1>4, <2>1
  <1>5. \A i \in 1 .. Len(more) : EventTrue(more[i], s)
    BY <1>3, <1>4
  <1>6. QED BY <1>1, <1>5 DEF more

LEMMA AcceptInv == ASSUME IInv, NEW u \in Utterances, Accept(u) PROVE IInv'
  <1>1. PICK st \in {"start", "closed"} : stt' = [stt EXCEPT ![u].st = st]
    BY DEF Accept
  <1> DEFINE s == [stt[u] EXCEPT !.st = st]
  <1>2. s \in Stt /\ s.finishing = stt[u].finishing
    BY SttKnown DEF Stt
  <1>3. stt' = [stt EXCEPT ![u] = s]
    BY <1>1, SttKnown
  <1> HIDE DEF s
  <1>4. QED BY <1>2, <1>3, ServerSilent DEF Accept

LEMMA StartInv == ASSUME IInv, NEW u \in Utterances, start(u) PROVE IInv'
  <1>1. UNCHANGED <<voice, bar, chat, talk, troubles>>
    BY DEF start
  <1>2. CASE stt' = [stt EXCEPT ![u].st = "loop", ![u].conversation = "open"] /\ UNCHANGED events
    <2> DEFINE s == [stt[u] EXCEPT !.st = "loop", !.conversation = "open"]
    <2>1. s \in Stt /\ s.finishing = stt[u].finishing
      BY SttKnown DEF Stt
    <2>2. stt' = [stt EXCEPT ![u] = s]
      BY <1>2, SttKnown
    <2> HIDE DEF s
    <2>3. QED BY <1>1, <1>2, <2>1, <2>2, ServerSilent
  <1>3. CASE stt' = [stt EXCEPT ![u].st = "closed"] /\ Enqueue(u, <<Event_("error", "")>>)
    <2> DEFINE s == [stt[u] EXCEPT !.st = "closed"]
               more == <<Event_("error", "")>>
    <2>1. s \in Stt /\ s.finishing = stt[u].finishing
      BY SttKnown DEF Stt
    <2>2. stt' = [stt EXCEPT ![u] = s] /\ events' = [events EXCEPT ![u] = events[u] \o more]
      BY <1>3, SttKnown DEF Enqueue
    <2>3. more \in Seq(Event) /\ \A i \in 1 .. Len(more) : EventTrue(more[i], s)
      BY <2>1, EventsMade, OneEvent
    <2> HIDE DEF s, more
    <2>4. QED BY <1>1, <2>1, <2>2, <2>3, ServerKept
  <1>4. QED BY <1>2, <1>3 DEF start

LEMMA FinishInv == ASSUME IInv, NEW u \in Utterances, finish(u) PROVE IInv'
  <1> DEFINE s == [stt[u] EXCEPT !.st = "finish", !.finishing = TRUE]
  <1>1. s \in Stt /\ s.finishing /\ Over(voice[u])
    BY SttKnown DEF Stt, finish, Over
  <1>2. stt' = [stt EXCEPT ![u] = s] /\ UNCHANGED <<voice, events, bar, chat, talk, troubles>>
    BY SttKnown DEF finish
  <1> HIDE DEF s
  <1>3. QED BY <1>1, <1>2, ServerSilent

LEMMA CloseConversationInv == ASSUME IInv, NEW u \in Utterances, CloseConversation(u) PROVE IInv'
  <1> DEFINE s == [stt[u] EXCEPT !.st = "drain", !.conversation = "closed"]
             more == <<Event_("closed", "")>>
  <1>1. s \in Stt /\ s.finishing = stt[u].finishing
    BY SttKnown DEF Stt
  <1>2. stt' = [stt EXCEPT ![u] = s] /\ UNCHANGED <<voice, bar, chat, talk, troubles>>
    BY SttKnown DEF CloseConversation
  <1>3. more \in Seq(Event) /\ \A i \in 1 .. Len(more) : EventTrue(more[i], s)
    BY <1>1, EventsMade, OneEvent
  <1>4. events' = events \/ events' = [events EXCEPT ![u] = events[u] \o more]
    BY SttKnown DEF CloseConversation, Enqueue
  <1> HIDE DEF s, more
  <1>5. QED BY <1>1, <1>2, <1>3, <1>4, ServerKept, ServerSilent

LEMMA CloseSocketInv == ASSUME IInv, NEW u \in Utterances, CloseSocket(u) PROVE IInv'
  <1> DEFINE s == [stt[u] EXCEPT !.st = "closed"]
  <1>1. s \in Stt /\ s.finishing = stt[u].finishing
    BY SttKnown DEF Stt
  <1>2. /\ stt' = [stt EXCEPT ![u] = s] /\ UNCHANGED <<voice, bar, chat, talk, troubles>>
        /\ events' = [events EXCEPT ![u] = <<>>]
    BY SttKnown DEF CloseSocket
  <1>3. <<>> \in Seq(Event) /\ \A i \in 1 .. Len(<<>>) : EventTrue(<<>>[i], s)
    OBVIOUS
  <1> HIDE DEF s
  <1>4. QED BY <1>1, <1>2, <1>3, ServerKept

LEMMA DraftedInv == ASSUME IInv, NEW u \in Utterances, Drafted(u) PROVE IInv'
  <1> DEFINE s == [stt[u] EXCEPT !.latest_text = "draft"]
             more == <<Event_("sentence", "draft")>>
  <1>1. s \in Stt /\ s.finishing = stt[u].finishing
    BY SttKnown DEF Stt, Texts
  <1>2. /\ stt' = [stt EXCEPT ![u] = s] /\ UNCHANGED <<voice, bar, chat, talk, troubles>>
        /\ events' = [events EXCEPT ![u] = events[u] \o more]
    BY SttKnown DEF Drafted, Enqueue
  <1>3. more \in Seq(Event) /\ \A i \in 1 .. Len(more) : EventTrue(more[i], s)
    BY <1>1, EventsMade, OneEvent
  <1> HIDE DEF s, more
  <1>4. QED BY <1>1, <1>2, <1>3, ServerKept

\* What _emit_done says, when the end was asked for.
LEMMA DoneIs ==
    ASSUME NEW s \in Stt, NEW z \in Stt, z.finishing
    PROVE  /\ emit_done(s) \in Seq(Event)
           /\ \A i \in 1 .. Len(emit_done(s)) : EventTrue(emit_done(s)[i], z)
  <1>1. CASE s.done_sent
    BY <1>1 DEF emit_done
  <1>2. CASE ~s.done_sent
    <2> DEFINE text == IF s.final_parts # "" THEN s.final_parts ELSE s.latest_text
    <2>1. text \in Texts /\ emit_done(s) = <<Event_("done", text)>>
      BY <1>2 DEF emit_done, Stt, Texts
    <2> HIDE DEF text
    <2>2. Event_("done", text) \in Event /\ EventTrue(Event_("done", text), z)
      BY <2>1, EventsMade
    <2>3. QED BY <2>1, <2>2, OneEvent
  <1>3. QED BY <1>1, <1>2

LEMMA CompletedInv == ASSUME IInv, NEW u \in Utterances, Completed(u) PROVE IInv'
  <1>1. PICK text \in {"", "whole"} :
            LET s == IF text = "" THEN [stt[u] EXCEPT !.completed = TRUE]
                     ELSE [stt[u] EXCEPT !.completed = TRUE, !.final_parts = text, !.latest_text = text]
            IN /\ stt' = [stt EXCEPT ![u] = [s EXCEPT !.done_sent = TRUE]]
               /\ Enqueue(u, <<Event_("final", text)>> \o emit_done(s))
    BY DEF Completed
  <1> DEFINE s == IF text = "" THEN [stt[u] EXCEPT !.completed = TRUE]
                  ELSE [stt[u] EXCEPT !.completed = TRUE, !.final_parts = text, !.latest_text = text]
             z == [s EXCEPT !.done_sent = TRUE]
             more == <<Event_("final", text)>> \o emit_done(s)
  <1>2. /\ stt' = [stt EXCEPT ![u] = z] /\ UNCHANGED <<voice, bar, chat, talk, troubles>>
        /\ events' = [events EXCEPT ![u] = events[u] \o more] /\ stt[u].finishing
    BY <1>1, SttKnown DEF Completed, Enqueue
  <1>3. s \in Stt /\ s.finishing
    BY <1>2, SttKnown DEF Stt, Texts
  <1>4. z \in Stt /\ z.finishing
    <2> HIDE DEF s
    <2>1. QED BY <1>3 DEF Stt
  <1> HIDE DEF s, z
  <1>5. more \in Seq(Event) /\ \A i \in 1 .. Len(more) : EventTrue(more[i], z)
    <2> DEFINE d == emit_done(s)
               f == <<Event_("final", text)>>
    <2>1. d \in Seq(Event) /\ \A i \in 1 .. Len(d) : EventTrue(d[i], z)
      BY <1>3, <1>4, DoneIs
    <2>2. f \in Seq(Event) /\ \A i \in 1 .. Len(f) : EventTrue(f[i], z)
      BY <1>4, EventsMade, OneEvent
    <2>3. more = f \o d
      OBVIOUS
    <2> HIDE DEF d, f, more
    <2>4. QED BY <2>1, <2>2, <2>3, EventsJoined
  <1> HIDE DEF more
  <1>6. QED BY <1>2, <1>4, <1>5, ServerKept

LEMMA SessionFinishedInv == ASSUME IInv, NEW u \in Utterances, SessionFinished(u) PROVE IInv'
  <1> DEFINE z == [stt[u] EXCEPT !.done_sent = TRUE, !.completed = TRUE]
             more == emit_done(stt[u])
  <1>1. z \in Stt /\ z.finishing /\ stt[u].finishing
    BY SttKnown DEF Stt, SessionFinished
  <1>2. /\ stt' = [stt EXCEPT ![u] = z] /\ UNCHANGED <<voice, bar, chat, talk, troubles>>
        /\ events' = [events EXCEPT ![u] = events[u] \o more]
    BY SttKnown DEF SessionFinished, Enqueue
  <1>3. more \in Seq(Event) /\ \A i \in 1 .. Len(more) : EventTrue(more[i], z)
    <2> HIDE DEF z
    <2>1. QED BY <1>1, SttKnown, DoneIs
  <1> HIDE DEF z, more
  <1>4. QED BY <1>1, <1>2, <1>3, ServerKept

LEMMA RecogniserFailsInv ==
    ASSUME IInv, NEW u \in Utterances, RecogniserErrs(u) \/ RecogniserCloses(u)
    PROVE  IInv'
  <1>1. PICK s \in Stt, type \in {"error", "closed"} :
            /\ stt' = [stt EXCEPT ![u] = s] /\ s.finishing = stt[u].finishing
            /\ events' = [events EXCEPT ![u] = events[u] \o <<Event_(type, "")>>]
    <2>1. CASE RecogniserErrs(u)
      <3> DEFINE s == [stt[u] EXCEPT !.erred = TRUE]
      <3>1. /\ s \in Stt /\ s.finishing = stt[u].finishing /\ stt' = [stt EXCEPT ![u] = s]
            /\ events' = [events EXCEPT ![u] = events[u] \o <<Event_("error", "")>>]
        BY <2>1, SttKnown DEF Stt, RecogniserErrs, Enqueue
      <3> HIDE DEF s
      <3>2. QED BY <3>1
    <2>2. CASE RecogniserCloses(u)
      <3> DEFINE s == [stt[u] EXCEPT !.conversation = "closed", !.erred = TRUE]
      <3>1. /\ s \in Stt /\ s.finishing = stt[u].finishing /\ stt' = [stt EXCEPT ![u] = s]
            /\ events' = [events EXCEPT ![u] = events[u] \o <<Event_("closed", "")>>]
        BY <2>2, SttKnown DEF Stt, RecogniserCloses, Enqueue
      <3> HIDE DEF s
      <3>2. QED BY <3>1
    <2>3. QED BY <2>1, <2>2
  <1>2. UNCHANGED <<voice, bar, chat, talk, troubles>>
    BY DEF RecogniserErrs, RecogniserCloses
  <1> DEFINE more == <<Event_(type, "")>>
  <1>3. more \in Seq(Event) /\ \A i \in 1 .. Len(more) : EventTrue(more[i], s)
    BY <1>1, EventsMade, OneEvent
  <1> HIDE DEF more
  <1>4. events' = [events EXCEPT ![u] = events[u] \o more]
    BY <1>1 DEF more
  <1>5. QED BY <1>1, <1>2, <1>3, <1>4, ServerKept


-----------------------------------------------------------------------------
(* The queue of utterances.                                                *)

\* An utterance does not come before itself.
LEMMA NotBeforeItself == ASSUME IInv, NEW a PROVE ~Before(a, a)
  <1>1. talk.resolved \in Seq(Utterances)
    BY DEF IInv, TypeOK
  <1>2. Len(talk.resolved) \in Nat
    BY <1>1
  <1>3. QED BY <1>2 DEF IInv, TalkTrue, CameOnce, Before

\* The head of the queue and the rest, in which the head is not.
LEMMA QueueSplit ==
    ASSUME IInv, talk.queue # <<>>
    PROVE  LET next == Head(talk.queue)  rest == Tail(talk.queue)
           IN /\ next \in Utterances /\ InQueue(next)
              /\ rest \in Seq(Utterances) /\ <<next>> \o rest = talk.queue
              /\ \A i \in 1 .. Len(chat.sent) : Before(chat.sent[i].u, next)
              /\ \A i \in 1 .. Len(rest) : Before(next, rest[i])
              /\ \A i \in 1 .. Len(chat.sent) : \A k \in 1 .. Len(rest) : Before(chat.sent[i].u, rest[k])
              /\ \A i, k \in 1 .. Len(rest) : i < k => Before(rest[i], rest[k])
              /\ ~\E i \in 1 .. Len(rest) : rest[i] = next
              /\ \A v : InQueue(v) <=> v = next \/ \E i \in 1 .. Len(rest) : rest[i] = v
  <1> DEFINE queue == talk.queue  next == Head(queue)  rest == Tail(queue)
  <1>1. queue \in Seq(Utterances) /\ queue # <<>>
    BY DEF IInv, TypeOK
  <1>2. /\ next = queue[1] /\ next \in Utterances /\ 1 \in 1 .. Len(queue) /\ rest \in Seq(Utterances)
        /\ <<next>> \o rest = queue
    BY <1>1
  <1>3. /\ Len(queue) \in Nat /\ Len(rest) = Len(queue) - 1
        /\ \A i \in 1 .. Len(rest) : rest[i] = queue[i + 1]
    BY <1>1
  <1> HIDE DEF next, rest
  <1>4. /\ \A i \in 1 .. Len(rest) : i + 1 \in 1 .. Len(queue) /\ 1 < i + 1
        /\ \A i, k \in 1 .. Len(rest) : i < k => i + 1 < k + 1
        /\ \A i \in 1 .. Len(queue) : i = 1 \/ (i - 1 \in 1 .. Len(rest) /\ (i - 1) + 1 = i)
    BY <1>3
  <1>5. /\ \A i, k \in 1 .. Len(queue) : i < k => Before(queue[i], queue[k])
        /\ \A i \in 1 .. Len(chat.sent) : \A k \in 1 .. Len(queue) : Before(chat.sent[i].u, queue[k])
    BY DEF IInv, TalkTrue, Ordered
  <1>6. \A i \in 1 .. Len(chat.sent) : Before(chat.sent[i].u, next)
    BY <1>2, <1>5
  <1>7. \A i \in 1 .. Len(rest) : Before(next, rest[i])
    BY <1>2, <1>3, <1>4, <1>5
  <1>8. \A i \in 1 .. Len(chat.sent) : \A k \in 1 .. Len(rest) : Before(chat.sent[i].u, rest[k])
    BY <1>3, <1>4, <1>5
  <1>9. \A i, k \in 1 .. Len(rest) : i < k => Before(rest[i], rest[k])
    BY <1>3, <1>4, <1>5
  <1>10. ~\E i \in 1 .. Len(rest) : rest[i] = next
    BY <1>7, NotBeforeItself
  <1>11. ASSUME NEW v
         PROVE  InQueue(v) <=> v = next \/ \E i \in 1 .. Len(rest) : rest[i] = v
    <2>1. ASSUME NEW i \in 1 .. Len(queue), queue[i] = v
          PROVE  v = next \/ \E k \in 1 .. Len(rest) : rest[k] = v
      <3>1. CASE i = 1
        BY <1>2, <2>1, <3>1
      <3>2. CASE i # 1
        <4>1. i - 1 \in 1 .. Len(rest) /\ rest[i - 1] = queue[i]
          BY <1>3, <1>4, <3>2
        <4>2. QED BY <2>1, <4>1
      <3>3. QED BY <3>1, <3>2
    <2>2. QED BY <1>2, <1>3, <1>4, <2>1 DEF InQueue
  <1>12. InQueue(next)
    BY <1>11
  <1>13. QED BY <1>2, <1>6, <1>7, <1>8, <1>9, <1>10, <1>11, <1>12 DEF next, rest

\* The head of the queue leaves it, for the sign-in flow or for the chat.
LEMMA TalkDrained ==
    ASSUME IInv, talk.queue # <<>>, voice' = voice, talk' \in Talk,
           talk'.queue = Tail(talk.queue), talk'.resolved = talk.resolved,
           talk'.pendingIds = talk.pendingIds \ {Head(talk.queue)}, talk'.cleared = talk.cleared,
           \/ chat'.sent = chat.sent /\ talk'.handed = talk.handed \cup {Head(talk.queue)}
           \/ /\ Len(chat.sent) \in Nat /\ Len(chat'.sent) = Len(chat.sent) + 1
              /\ chat'.sent[Len(chat.sent) + 1].u = Head(talk.queue)
              /\ \A i \in 1 .. Len(chat.sent) : chat'.sent[i] = chat.sent[i]
              /\ talk'.handed = talk.handed
    PROVE  TalkTrue'
  <1> DEFINE next == Head(talk.queue)  rest == Tail(talk.queue)
  <1>1. /\ next \in Utterances /\ InQueue(next)
        /\ \A i \in 1 .. Len(chat.sent) : Before(chat.sent[i].u, next)
        /\ \A i \in 1 .. Len(rest) : Before(next, rest[i])
        /\ \A i \in 1 .. Len(chat.sent) : \A k \in 1 .. Len(rest) : Before(chat.sent[i].u, rest[k])
        /\ \A i, k \in 1 .. Len(rest) : i < k => Before(rest[i], rest[k])
        /\ ~\E i \in 1 .. Len(rest) : rest[i] = next
        /\ \A v : InQueue(v) <=> v = next \/ \E i \in 1 .. Len(rest) : rest[i] = v
    BY QueueSplit
  <1>2. /\ talk'.queue = rest /\ talk'.pendingIds = talk.pendingIds \ {next}
        /\ \/ chat'.sent = chat.sent /\ talk'.handed = talk.handed \cup {next}
           \/ /\ Len(chat.sent) \in Nat /\ Len(chat'.sent) = Len(chat.sent) + 1
              /\ chat'.sent[Len(chat.sent) + 1].u = next
              /\ \A i \in 1 .. Len(chat.sent) : chat'.sent[i] = chat.sent[i]
              /\ talk'.handed = talk.handed
    OBVIOUS
  <1> HIDE DEF next, rest
  <1>3. CameOnce' /\ \A a, b : Before(a, b)' <=> Before(a, b)
    BY DEF IInv, TalkTrue, CameOnce, Before
  <1>4. \A v : (HasCome(v)' <=> HasCome(v)) /\ (InQueue(v)' <=> InQueue(v) /\ v # next)
    BY <1>1, <1>2 DEF HasCome, InQueue
  <1>5. Bubbles'
    BY <1>2, <1>4 DEF IInv, TalkTrue, Bubbles
  <1>6. next \notin talk.handed /\ next \notin talk.cleared /\ HasCome(next)
    BY <1>1 DEF IInv, TalkTrue, Placed
  <1>7. ~InChat(next)
    BY <1>1, NotBeforeItself DEF InChat
  <1>8. CASE chat'.sent = chat.sent /\ talk'.handed = talk.handed \cup {next}
    <2>1. \A v : InChat(v)' <=> InChat(v)
      BY <1>8 DEF InChat
    <2>2. Placed'
      BY <1>1, <1>4, <1>6, <1>7, <1>8, <2>1 DEF IInv, TalkTrue, Placed
    <2>3. Ordered'
      BY <1>1, <1>2, <1>3, <1>8 DEF IInv, TalkTrue, Ordered
    <2>4. QED BY <1>3, <1>5, <2>2, <2>3 DEF TalkTrue
  <1>9. CASE /\ Len(chat.sent) \in Nat /\ Len(chat'.sent) = Len(chat.sent) + 1
             /\ chat'.sent[Len(chat.sent) + 1].u = next
             /\ \A i \in 1 .. Len(chat.sent) : chat'.sent[i] = chat.sent[i]
             /\ talk'.handed = talk.handed
    <2>1. /\ \A i \in 1 .. Len(chat'.sent) : i \in 1 .. Len(chat.sent) \/ i = Len(chat.sent) + 1
          /\ \A i \in 1 .. Len(chat.sent) : i \in 1 .. Len(chat'.sent) /\ i < Len(chat.sent) + 1
          /\ Len(chat.sent) + 1 \in 1 .. Len(chat'.sent)
      BY <1>9
    <2>2. \A v : InChat(v)' <=> InChat(v) \/ v = next
      BY <1>9, <2>1 DEF InChat
    <2>3. Placed'
      BY <1>1, <1>4, <1>6, <1>7, <1>9, <2>2 DEF IInv, TalkTrue, Placed
    <2>4. \A i, k \in 1 .. Len(chat'.sent) : i < k => Before(chat'.sent[i].u, chat'.sent[k].u)
      <3>1. SUFFICES ASSUME NEW i \in 1 .. Len(chat'.sent), NEW k \in 1 .. Len(chat'.sent), i < k
                     PROVE  Before(chat'.sent[i].u, chat'.sent[k].u)
        OBVIOUS
      <3>2. i \in 1 .. Len(chat.sent)
        BY <1>9, <3>1
      <3>3. CASE k \in 1 .. Len(chat.sent)
        BY <1>9, <3>1, <3>2, <3>3 DEF IInv, TalkTrue, Ordered
      <3>4. CASE k = Len(chat.sent) + 1
        BY <1>1, <1>9, <3>2, <3>4
      <3>5. QED BY <2>1, <3>3, <3>4
    <2>5. \A i \in 1 .. Len(chat'.sent) : \A k \in 1 .. Len(rest) : Before(chat'.sent[i].u, rest[k])
      <3>1. SUFFICES ASSUME NEW i \in 1 .. Len(chat'.sent), NEW k \in 1 .. Len(rest)
                     PROVE  Before(chat'.sent[i].u, rest[k])
        OBVIOUS
      <3>2. CASE i \in 1 .. Len(chat.sent)
        BY <1>1, <1>9, <3>2
      <3>3. CASE i = Len(chat.sent) + 1
        BY <1>1, <1>9, <3>3
      <3>4. QED BY <2>1, <3>2, <3>3
    <2>6. Ordered'
      BY <1>1, <1>2, <1>3, <2>4, <2>5 DEF Ordered
    <2>7. QED BY <1>3, <1>5, <2>3, <2>6 DEF TalkTrue
  <1>10. QED BY <1>2, <1>8, <1>9

\* The queue is dropped with the thread or the page, and the bubbles with it.
LEMMA TalkCleared ==
    ASSUME IInv, \A u \in Utterances : voice'[u].outcome = "text" <=> voice[u].outcome = "text",
           talk' = [talk EXCEPT !.queue = <<>>, !.pendingIds = {},
                                !.cleared = talk.cleared \cup Range(talk.queue)],
           chat'.sent = chat.sent
    PROVE  talk' \in Talk /\ TalkTrue'
  <1> DEFINE gone == talk.cleared \cup Range(talk.queue)
  <1>1. talk \in Talk /\ talk.queue \in Seq(Utterances)
    BY DEF IInv, TypeOK, Talk
  <1>2. \A v : v \in Range(talk.queue) <=> InQueue(v)
    BY <1>1 DEF Range, InQueue
  <1>3. Range(talk.queue) \subseteq Utterances
    BY <1>1, <1>2 DEF InQueue
  <1>4. gone \in SUBSET Utterances /\ \A v : v \in gone <=> v \in talk.cleared \/ InQueue(v)
    BY <1>1, <1>2, <1>3 DEF Talk
  <1>5. talk' = [talk EXCEPT !.queue = <<>>, !.pendingIds = {}, !.cleared = gone]
    OBVIOUS
  <1> HIDE DEF gone
  <1>6. /\ talk' \in Talk /\ talk'.queue = <<>> /\ talk'.pendingIds = {} /\ talk'.cleared = gone
        /\ talk'.handed = talk.handed /\ talk'.resolved = talk.resolved
    <2>1. <<>> \in Seq(Utterances) /\ {} \in SUBSET Utterances
      OBVIOUS
    <2>2. QED BY <1>1, <1>4, <1>5, <2>1 DEF Talk
  <1>7. \A v : (HasCome(v)' <=> HasCome(v)) /\ ~InQueue(v)' /\ (InChat(v)' <=> InChat(v))
    BY <1>6 DEF HasCome, InQueue, InChat
  <1>8. CameOnce' /\ Ordered' /\ Bubbles'
    BY <1>6 DEF IInv, TalkTrue, CameOnce, Ordered, Before, Bubbles
  <1>9. \A v \in Utterances : InQueue(v) => ~InChat(v)
    <2>1. SUFFICES ASSUME NEW v \in Utterances, InQueue(v), InChat(v) PROVE FALSE
      OBVIOUS
    <2>2. Before(v, v)
      BY <2>1 DEF IInv, TalkTrue, Ordered, InQueue, InChat
    <2>3. QED BY <2>2, NotBeforeItself
  <1>10. Placed'
    BY <1>4, <1>6, <1>7, <1>9 DEF IInv, TalkTrue, Placed
  <1>11. QED BY <1>6, <1>8, <1>10 DEF TalkTrue

\* Where only the chat and the queue change.
LEMMA TalkOnly ==
    ASSUME IInv, UNCHANGED <<voice, stt, events, bar, troubles>>, talk' \in Talk, TalkTrue',
           chat' \in [thread : Threads, turn : {"idle", "sent", "loading"}, signedIn : BOOLEAN,
                      mounted : BOOLEAN, sent : Seq([u : Utterances, thread : Threads])]
    PROVE  IInv'
  <1>1. TypeOK'
    BY DEF IInv, TypeOK, Talk
  <1>2. PageTrue' /\ BarHolds' /\ ServerTrue'
    BY DEF IInv, PageTrue, BarHolds, ServerTrue
  <1>3. QED BY <1>1, <1>2 DEF IInv

Chat == [thread : Threads, turn : {"idle", "sent", "loading"}, signedIn : BOOLEAN,
         mounted : BOOLEAN, sent : Seq([u : Utterances, thread : Threads])]

LEMMA DrainInv == ASSUME IInv, drain PROVE IInv'
  <1> DEFINE next == Head(talk.queue)  rest == Tail(talk.queue)
  <1>1. UNCHANGED <<voice, stt, events, bar, troubles>> /\ talk.queue # <<>>
    BY DEF drain
  <1>2. talk \in Talk /\ chat \in Chat
    BY DEF IInv, TypeOK, Talk, Chat
  <1>3. /\ next \in Utterances /\ rest \in Seq(Utterances) /\ <<next>> \o rest = talk.queue
    BY <1>1, QueueSplit
  <1>4. SendIntent \in {"blocked", "auth_required", "accepted"}
    BY DEF SendIntent
  <1>5. CASE SendIntent = "blocked"
    <2>1. talk' = [talk EXCEPT !.queue = <<next>> \o rest] /\ chat' = chat
      BY <1>5 DEF drain, PutBack
    <2>2. talk' = talk
      BY <1>2, <1>3, <2>1 DEF Talk
    <2>3. TalkTrue'
      BY <1>1, <2>1, <2>2, TalkStays
    <2>4. QED BY <1>1, <1>2, <2>1, <2>2, <2>3, TalkOnly DEF Chat
  <1>6. CASE SendIntent = "auth_required"
    <2> DEFINE handed == talk.handed \cup {next}
               ids == talk.pendingIds \ {next}
    <2>1. talk' = [talk EXCEPT !.queue = rest, !.handed = handed, !.pendingIds = ids] /\ chat' = chat
      BY <1>6 DEF drain, Without
    <2>2. handed \in SUBSET Utterances /\ ids \in SUBSET Utterances
      BY <1>2, <1>3 DEF Talk
    <2>3. /\ talk' \in Talk /\ talk'.queue = rest /\ talk'.resolved = talk.resolved
          /\ talk'.pendingIds = ids /\ talk'.cleared = talk.cleared /\ talk'.handed = handed
      <3> HIDE DEF handed, ids, rest, next
      <3>1. QED BY <1>2, <1>3, <2>1, <2>2 DEF Talk
    <2>4. TalkTrue'
      BY <1>1, <2>1, <2>3, TalkDrained
    <2>5. QED BY <1>1, <1>2, <2>1, <2>3, <2>4, TalkOnly DEF Chat
  <1>7. CASE SendIntent = "accepted"
    <2> DEFINE ids == talk.pendingIds \ {next}
               m == [u |-> next, thread |-> chat.thread]
               sent == Append(chat.sent, m)
               Message == [u : Utterances, thread : Threads]
    <2>1. /\ talk' = [talk EXCEPT !.queue = rest, !.pendingIds = ids]
          /\ chat' = [chat EXCEPT !.turn = "sent", !.sent = sent]
      BY <1>7 DEF drain, Without
    <2>2. ids \in SUBSET Utterances
      BY <1>2 DEF Talk
    <2>3. /\ talk' \in Talk /\ talk'.queue = rest /\ talk'.resolved = talk.resolved
          /\ talk'.pendingIds = ids /\ talk'.cleared = talk.cleared /\ talk'.handed = talk.handed
      <3> HIDE DEF ids, rest, next
      <3>1. QED BY <1>2, <1>3, <2>1, <2>2 DEF Talk
    <2>4. m \in Message /\ m.u = next /\ chat.sent \in Seq(Message)
      BY <1>2, <1>3 DEF Chat
    <2>5. /\ sent \in Seq(Message) /\ Len(chat.sent) \in Nat /\ Len(sent) = Len(chat.sent) + 1
          /\ sent[Len(chat.sent) + 1].u = next
          /\ \A i \in 1 .. Len(chat.sent) : sent[i] = chat.sent[i]
      <3> DEFINE old == chat.sent
      <3> HIDE DEF Message, m, next, old
      <3>1. /\ Append(old, m) \in Seq(Message) /\ Len(old) \in Nat /\ Len(Append(old, m)) = Len(old) + 1
            /\ Append(old, m)[Len(old) + 1] = m
            /\ \A i \in 1 .. Len(old) : Append(old, m)[i] = old[i]
        BY <2>4 DEF old
      <3>2. QED BY <2>4, <3>1 DEF old
    <2>6. chat' \in Chat /\ chat'.sent = sent
      <3> HIDE DEF sent
      <3>1. QED BY <1>2, <2>1, <2>5 DEF Chat
    <2>7. TalkTrue'
      <3> HIDE DEF sent
      <3>1. QED BY <1>1, <2>3, <2>5, <2>6, TalkDrained
    <2>8. QED BY <1>1, <2>3, <2>6, <2>7, TalkOnly DEF Chat
  <1>8. QED BY <1>4, <1>5, <1>6, <1>7

LEMMA SwitchThreadInv == ASSUME IInv, NEW t \in Threads, SwitchThread(t) PROVE IInv'
  <1>1. /\ UNCHANGED <<voice, stt, events, bar, troubles>> /\ chat' = [chat EXCEPT !.thread = t]
        /\ talk' = [talk EXCEPT !.queue = <<>>, !.pendingIds = {},
                                !.cleared = talk.cleared \cup Range(talk.queue)]
    BY DEF SwitchThread
  <1>2. chat \in Chat
    BY DEF IInv, TypeOK, Chat
  <1>3. chat' \in Chat /\ chat'.sent = chat.sent
    BY <1>1, <1>2 DEF Chat
  <1>4. talk' \in Talk /\ TalkTrue'
    BY <1>1, <1>3, TalkCleared
  <1>5. QED BY <1>1, <1>3, <1>4, TalkOnly DEF Chat

LEMMA TurnInv ==
    ASSUME IInv, NEW from \in {"idle", "sent", "loading"}, NEW to \in {"idle", "sent", "loading"}, Turn(from, to)
    PROVE  IInv'
  <1>1. UNCHANGED <<voice, stt, events, bar, talk, troubles>> /\ chat' = [chat EXCEPT !.turn = to]
    BY DEF Turn
  <1>2. chat \in Chat /\ talk \in Talk
    BY DEF IInv, TypeOK, Chat, Talk
  <1>3. chat' \in Chat /\ chat'.sent = chat.sent
    BY <1>1, <1>2 DEF Chat
  <1>4. TalkTrue'
    BY <1>1, <1>3, TalkStays
  <1>5. QED BY <1>1, <1>2, <1>3, <1>4, TalkOnly DEF Chat

LEMMA SignOutInv == ASSUME IInv, SignOut PROVE IInv'
  <1>1. UNCHANGED <<voice, stt, events, bar, talk, troubles>> /\ chat' = [chat EXCEPT !.signedIn = FALSE]
    BY DEF SignOut
  <1>2. chat \in Chat /\ talk \in Talk
    BY DEF IInv, TypeOK, Chat, Talk
  <1>3. chat' \in Chat /\ chat'.sent = chat.sent
    BY <1>1, <1>2 DEF Chat
  <1>4. TalkTrue'
    BY <1>1, <1>3, TalkStays
  <1>5. QED BY <1>1, <1>2, <1>3, <1>4, TalkOnly DEF Chat

\* When the page is left, every utterance that was begun has ended.
LEMMA UnmountInv == ASSUME IInv, Unmount PROVE IInv'
  <1>1. /\ UNCHANGED <<stt, events, troubles>> /\ chat' = [chat EXCEPT !.mounted = FALSE]
        /\ bar' = [current |-> 0, status |-> "idle"]
        /\ talk' = [talk EXCEPT !.queue = <<>>, !.pendingIds = {},
                                !.cleared = talk.cleared \cup Range(talk.queue)]
    BY DEF Unmount
  <1>2. chat \in Chat /\ events \in [Utterances -> Seq(Event)]
    BY DEF IInv, TypeOK, Chat
  <1>3. chat' \in Chat /\ chat'.sent = chat.sent
    BY <1>1, <1>2 DEF Chat
  <1>4. \A u \in Utterances :
            voice'[u] = IF voice[u].st = "new" \/ voice[u].settled THEN voice[u]
                        ELSE [Torn(voice[u]) EXCEPT !.outcome = "dropped"]
    BY DEF Unmount
  <1>5. ASSUME NEW u \in Utterances
        PROVE  /\ voice'[u] \in Voice /\ VoiceTrue(voice'[u]) /\ (Over(voice[u]) => Over(voice'[u]))
               /\ voice'[u].outcome = "text" <=> voice[u].outcome = "text"
    <2>1. CASE voice[u].st = "new" \/ voice[u].settled
      BY <1>4, <2>1, VoiceKnown
    <2>2. CASE voice[u].st # "new" /\ ~voice[u].settled
      <3> DEFINE z == [Torn(voice[u]) EXCEPT !.outcome = "dropped"]
      <3>1. voice'[u] = z
        BY <1>4, <2>2
      <3>2. z \in Voice /\ VoiceTrue(z) /\ z.outcome = "dropped" /\ (Over(voice[u]) => Over(z))
        BY <2>2, VoiceKnown, SettledIs DEF VoiceTrue
      <3> HIDE DEF z
      <3>3. QED BY <2>2, <3>1, <3>2, VoiceKnown DEF VoiceTrue
    <2>3. QED BY <2>1, <2>2
  <1>6. voice' \in [Utterances -> Voice]
    <2>1. voice' = [u \in Utterances |-> voice'[u]]
      BY DEF Unmount
    <2>2. QED BY <1>5, <2>1
  <1>7. talk' \in Talk /\ TalkTrue'
    BY <1>1, <1>3, <1>5, TalkCleared
  <1>8. PageTrue'
    BY <1>5 DEF PageTrue
  <1>9. BarHolds' /\ bar' \in Bar
    BY <1>1, UtterancesAssumption DEF BarHolds, Bar
  <1>10. ServerTrue'
    BY <1>1, <1>5 DEF IInv, ServerTrue
  <1>11. TypeOK'
    BY <1>1, <1>3, <1>6, <1>7, <1>9 DEF IInv, TypeOK, Chat, Talk, Bar
  <1>12. QED BY <1>7, <1>8, <1>9, <1>10, <1>11 DEF IInv

-----------------------------------------------------------------------------
(* The invariant.                                                          *)

LEMMA InitInv == Init => IInv
  <1> SUFFICES ASSUME Init PROVE IInv
    OBVIOUS
  <1>1. PICK t \in Threads :
            /\ voice = [u \in Utterances |->
                 [st |-> "new", settled |-> FALSE, sock |-> "none", finishRequested |-> FALSE,
                  finishSent |-> FALSE, timer |-> FALSE, interimText |-> "", finalText |-> "",
                  mic |-> "none", outcome |-> "none", thread |-> t]]
            /\ chat = [thread |-> t, turn |-> "idle", signedIn |-> TRUE, mounted |-> TRUE, sent |-> <<>>]
    BY ThreadsAssumption DEF Init
  <1> DEFINE events0 == [u \in Utterances |-> <<>>]
  <1>0. /\ events = events0 /\ bar = [current |-> 0, status |-> "idle"]
        /\ talk = [pendingIds |-> {}, queue |-> <<>>, resolved |-> <<>>, handed |-> {}, cleared |-> {}]
    BY DEF Init
  <1>2. voice \in [Utterances -> Voice] /\ PageTrue
    BY <1>1 DEF Voice, PageTrue, VoiceTrue
  <1>3. stt \in [Utterances -> Stt] /\ events \in [Utterances -> Seq(Event)] /\ ServerTrue
    <2>1. \A u \in Utterances : stt[u] \in Stt /\ ~stt[u].finishing
      BY DEF Init, Stt, Texts
    <2>2. stt \in [Utterances -> Stt]
      BY DEF Init, Stt, Texts
    <2>3. <<>> \in Seq(Event) /\ events = [u \in Utterances |-> <<>>]
      BY <1>0
    <2>4. QED BY <2>1, <2>2, <2>3 DEF ServerTrue
  <1>4. chat \in Chat /\ chat.sent = <<>>
    <2>1. <<>> \in Seq([u : Utterances, thread : Threads])
      OBVIOUS
    <2>2. QED BY <1>1, <2>1 DEF Chat
  <1>5. /\ talk \in Talk /\ talk.pendingIds = {} /\ talk.queue = <<>> /\ talk.resolved = <<>>
        /\ talk.handed = {} /\ talk.cleared = {}
    BY <1>0 DEF Talk
  <1>6. bar \in Bar /\ BarHolds
    BY <1>0, UtterancesAssumption DEF Bar, BarHolds
  <1>7. TalkTrue
    <2>1. \A v : ~HasCome(v) /\ ~InQueue(v) /\ ~InChat(v)
      BY <1>4, <1>5 DEF HasCome, InQueue, InChat
    <2>2. \A u \in Utterances : voice[u].outcome = "none"
      BY <1>1
    <2>3. QED BY <1>4, <1>5, <2>1, <2>2 DEF TalkTrue, CameOnce, Placed, Ordered, Bubbles
  <1>8. troubles \in Settings
    BY DEF Init
  <1>9. QED BY <1>2, <1>3, <1>4, <1>5, <1>6, <1>7, <1>8 DEF IInv, TypeOK, Chat, Talk, Bar

LEMMA NextInv == IInv /\ [Next]_vars => IInv'
  <1> SUFFICES ASSUME IInv, [Next]_vars PROVE IInv'
    OBVIOUS
  <1>1. ASSUME NEW u \in Utterances, Person(u)
        PROVE  IInv'
    BY <1>1, PressInv, ReleaseTapInv, ReleaseInv, CancelInv DEF Person
  <1>2. ASSUME NEW u \in Utterances, Browser(u) \/ onDead(u) \/ resolveTimeout(u)
        PROVE  IInv'
    BY <1>2, OpenAudioInv, MicrophoneFailsInv, OnOpenInv, MessageInv, OnDeadInv, ResolveTimeoutInv
       DEF Browser
  <1>3. ASSUME NEW u \in Utterances, Server(u)
        PROVE  IInv'
    BY <1>3, AcceptInv, StartInv, FinishInv, CloseConversationInv, CloseSocketInv DEF Server
  <1>4. ASSUME NEW u \in Utterances, Recogniser(u)
        PROVE  IInv'
    BY <1>4, DraftedInv, CompletedInv, SessionFinishedInv, RecogniserFailsInv DEF Recogniser
  <1>5. ASSUME Type PROVE IInv'
    BY <1>5, TurnInv DEF Type
  <1>6. ASSUME Turn("sent", "loading") \/ Turn("loading", "idle") PROVE IInv'
    BY <1>6, TurnInv
  <1>7. ASSUME UNCHANGED vars PROVE IInv'
    <2>1. UNCHANGED <<voice, stt, events, bar, chat, talk, troubles>>
      BY <1>7 DEF vars
    <2>2. TalkTrue' /\ talk' \in Talk /\ chat' \in Chat
      BY <2>1, TalkStays DEF IInv, TypeOK, Talk, Chat
    <2>3. QED BY <2>1, <2>2, TalkOnly DEF Chat
  <1>8. QED BY <1>1, <1>2, <1>3, <1>4, <1>5, <1>6, <1>7, DrainInv, SwitchThreadInv, SignOutInv, UnmountInv
            DEF Next

LEMMA Invariant == Spec => []IInv
  BY InitInv, NextInv, PTL DEF Spec

-----------------------------------------------------------------------------
(* Theorems.                                                               *)

\* Type correctness.
THEOREM TypeCorrect == Spec => []TypeOK
  BY Invariant, PTL DEF IInv

\* The bar is idle exactly when nothing is being spoken, what it records has not been settled,
\* and the microphone of a settled utterance is off, also when it was granted too late.
THEOREM BarStaysTrue == Spec => []BarIsTrue
  <1>1. IInv => BarIsTrue
    BY DEF IInv, BarHolds, PageTrue, VoiceTrue, BarIsTrue
  <1>2. QED BY <1>1, Invariant, PTL

\* A set of positions of which no two differ has at most one element.
LEMMA AtMostOne ==
    ASSUME NEW S, \A i, k \in S : i = k
    PROVE  Cardinality(S) = IF S = {} THEN 0 ELSE 1
  <1>1. CASE S = {}
    BY <1>1, FS_EmptySet
  <1>2. CASE S # {}
    <2>1. PICK i \in S : TRUE
      BY <1>2
    <2>2. S = {i}
      BY <2>1
    <2>3. QED BY <1>2, <2>2, FS_Singleton
  <1>3. QED BY <1>1, <1>2

LEMMA OneOrNone ==
    ASSUME NEW u, NEW S
    PROVE  Cardinality({u} \cap S) = IF u \in S THEN 1 ELSE 0
  <1>1. \A i, k \in {u} \cap S : i = k
    OBVIOUS
  <1>2. {u} \cap S = {} <=> u \notin S
    OBVIOUS
  <1>3. QED BY <1>1, <1>2, AtMostOne

\* Every transcript is in one place.
LEMMA InvAccounted == IInv => Accounted
  <1> SUFFICES ASSUME IInv PROVE Accounted
    OBVIOUS
  <1>1. talk.queue \in Seq(Utterances) /\ chat.sent \in Seq([u : Utterances, thread : Threads])
    BY DEF IInv, TypeOK
  <1>2. DOMAIN talk.queue = 1 .. Len(talk.queue) /\ Len(talk.queue) \in Nat
    BY <1>1
  <1>3. DOMAIN chat.sent = 1 .. Len(chat.sent) /\ Len(chat.sent) \in Nat
    <2> DEFINE Message == [u : Utterances, thread : Threads]  sent == chat.sent
    <2>1. sent \in Seq(Message)
      BY <1>1
    <2> HIDE DEF Message, sent
    <2>2. DOMAIN sent = 1 .. Len(sent) /\ Len(sent) \in Nat
      BY <2>1
    <2>3. QED BY <2>2 DEF sent
  <1>4. ASSUME NEW u \in Utterances, voice[u].outcome = "text"
        PROVE  Cardinality({i \in DOMAIN talk.queue : talk.queue[i] = u})
                 + Cardinality({i \in DOMAIN chat.sent : chat.sent[i].u = u})
                 + Cardinality({u} \cap talk.handed) + Cardinality({u} \cap talk.cleared) = 1
    <2> DEFINE Q == {i \in DOMAIN talk.queue : talk.queue[i] = u}
               C == {i \in DOMAIN chat.sent : chat.sent[i].u = u}
    <2>1. ~Before(u, u)
      BY NotBeforeItself
    <2>2. \A i, k \in Q : i = k
      <3>1. \A i, k \in Q : ~(i < k)
        BY <1>2, <2>1 DEF IInv, TalkTrue, Ordered
      <3>2. QED BY <1>2, <3>1
    <2>3. \A i, k \in C : i = k
      <3>1. \A i, k \in C : ~(i < k)
        BY <1>3, <2>1 DEF IInv, TalkTrue, Ordered
      <3>2. QED BY <1>3, <3>1
    <2>4. /\ Q = {} <=> ~InQueue(u)
          /\ C = {} <=> ~InChat(u)
      BY <1>2, <1>3 DEF InQueue, InChat
    <2>5. Q = {} \/ C = {}
      BY <1>2, <1>3, <2>1 DEF IInv, TalkTrue, Ordered
    <2>6. /\ Cardinality(Q) = IF Q = {} THEN 0 ELSE 1
          /\ Cardinality(C) = IF C = {} THEN 0 ELSE 1
          /\ Cardinality({u} \cap talk.handed) = IF u \in talk.handed THEN 1 ELSE 0
          /\ Cardinality({u} \cap talk.cleared) = IF u \in talk.cleared THEN 1 ELSE 0
      <3> HIDE DEF Q, C
      <3>1. QED BY <2>2, <2>3, AtMostOne, OneOrNone
    <2>7. /\ InQueue(u) \/ InChat(u) \/ u \in talk.handed \/ u \in talk.cleared
          /\ u \in talk.handed => ~InQueue(u) /\ ~InChat(u) /\ u \notin talk.cleared
          /\ u \in talk.cleared => ~InQueue(u) /\ ~InChat(u)
      BY <1>4 DEF IInv, TalkTrue, Placed
    <2> DEFINE q == Cardinality(Q)  c == Cardinality(C)  h == Cardinality({u} \cap talk.handed)
               d == Cardinality({u} \cap talk.cleared)
    <2>8. /\ q \in {0, 1} /\ c \in {0, 1} /\ h \in {0, 1} /\ d \in {0, 1}
          /\ q = 1 \/ c = 1 \/ h = 1 \/ d = 1
          /\ q = 1 => c = 0 /\ h = 0 /\ d = 0
          /\ c = 1 => q = 0 /\ h = 0 /\ d = 0
          /\ h = 1 => q = 0 /\ c = 0 /\ d = 0
          /\ d = 1 => q = 0 /\ c = 0 /\ h = 0
      <3> HIDE DEF Q, C
      <3>1. QED BY <2>4, <2>5, <2>6, <2>7
    <2>9. q + c + h + d = 1
      <3> HIDE DEF q, c, h, d
      <3>1. QED BY <2>8
    <2>10. QED BY <2>9
  <1>5. \A u \in talk.pendingIds :
            voice[u].st = "released" /\ (~voice[u].settled \/ u \in Range(talk.queue))
    <2>1. \A v : v \in Range(talk.queue) <=> InQueue(v)
      BY <1>2 DEF Range, InQueue
    <2>2. QED BY <2>1 DEF IInv, TalkTrue, Bubbles
  <1>6. QED BY <1>4, <1>5 DEF Accounted

\* Nothing is swallowed, nothing sent twice, and the messages are sent in the order in which
\* their transcripts came, whichever utterances were released, answered or timed out first.
THEOREM SentInOrder == Spec => []SentAsResolved
  <1>1. IInv => SentAsResolved
    <2> SUFFICES ASSUME IInv PROVE SentAsResolved
      OBVIOUS
    <2> DEFINE came(u) == CHOOSE i \in DOMAIN talk.resolved : talk.resolved[i] = u
               spoken == [i \in DOMAIN chat.sent |-> chat.sent[i].u]
               toGo == spoken \o talk.queue
    <2>1. Accounted
      BY InvAccounted
    <2>2. /\ talk.queue \in Seq(Utterances) /\ talk.resolved \in Seq(Utterances)
          /\ chat.sent \in Seq([u : Utterances, thread : Threads])
      BY DEF IInv, TypeOK
    <2>3. /\ DOMAIN chat.sent = 1 .. Len(chat.sent) /\ Len(chat.sent) \in Nat
          /\ \A i \in 1 .. Len(chat.sent) : chat.sent[i].u \in Utterances
      <3> DEFINE Message == [u : Utterances, thread : Threads]  sent == chat.sent
      <3>1. sent \in Seq(Message)
        BY <2>2
      <3> HIDE DEF Message, sent
      <3>2. DOMAIN sent = 1 .. Len(sent) /\ Len(sent) \in Nat
        BY <3>1
      <3>3. QED BY <3>2, QueuedHaveCome DEF sent
    <2>4. DOMAIN talk.resolved = 1 .. Len(talk.resolved) /\ Len(talk.resolved) \in Nat
      BY <2>2
    <2>5. ASSUME NEW a, NEW b, Before(a, b)
          PROVE  came(a) < came(b)
      <3>1. PICK i \in 1 .. Len(talk.resolved), k \in 1 .. Len(talk.resolved) :
                i < k /\ talk.resolved[i] = a /\ talk.resolved[k] = b
        BY <2>5 DEF Before
      <3>2. /\ came(a) \in 1 .. Len(talk.resolved) /\ talk.resolved[came(a)] = a
            /\ came(b) \in 1 .. Len(talk.resolved) /\ talk.resolved[came(b)] = b
        BY <2>4, <3>1
      <3> HIDE DEF came
      <3>3. came(a) = i /\ came(b) = k
        BY <3>1, <3>2 DEF IInv, TalkTrue, CameOnce
      <3>4. QED BY <3>1, <3>3
    <2>6. /\ spoken \in Seq(Utterances) /\ Len(spoken) = Len(chat.sent)
          /\ \A i \in 1 .. Len(spoken) : spoken[i] = chat.sent[i].u
      BY <2>3
    <2> HIDE DEF came, spoken
    <2>7. /\ Len(toGo) = Len(spoken) + Len(talk.queue) /\ DOMAIN toGo = 1 .. Len(toGo)
          /\ Len(talk.queue) \in Nat /\ Len(spoken) \in Nat
          /\ \A i \in 1 .. Len(toGo) :
                toGo[i] = IF i <= Len(spoken) THEN spoken[i] ELSE talk.queue[i - Len(spoken)]
      <3> DEFINE queue == talk.queue
      <3>1. queue \in Seq(Utterances)
        BY <2>2
      <3>2. toGo = spoken \o queue
        OBVIOUS
      <3> HIDE DEF queue, toGo
      <3>3. /\ Len(spoken \o queue) = Len(spoken) + Len(queue)
            /\ DOMAIN (spoken \o queue) = 1 .. Len(spoken \o queue)
            /\ Len(queue) \in Nat /\ Len(spoken) \in Nat
            /\ \A i \in 1 .. Len(spoken \o queue) :
                  (spoken \o queue)[i] = IF i <= Len(spoken) THEN spoken[i] ELSE queue[i - Len(spoken)]
        BY <2>6, <3>1, Joined
      <3>4. QED BY <3>2, <3>3 DEF queue
    <2> HIDE DEF toGo
    <2>8. ASSUME NEW i \in DOMAIN toGo, NEW j \in DOMAIN toGo, i < j
          PROVE  Before(toGo[i], toGo[j])
      <3>1. CASE j <= Len(spoken)
        <4>1. i \in 1 .. Len(spoken) /\ j \in 1 .. Len(spoken)
          BY <2>7, <2>8, <3>1
        <4>2. toGo[i] = spoken[i] /\ toGo[j] = spoken[j]
          <5>1. i <= Len(spoken)
            BY <4>1
          <5>2. QED BY <2>7, <3>1, <5>1
        <4>3. QED BY <2>6, <2>8, <4>1, <4>2 DEF IInv, TalkTrue, Ordered
      <3>2. CASE i <= Len(spoken) /\ ~(j <= Len(spoken))
        <4>1. i \in 1 .. Len(spoken) /\ j - Len(spoken) \in 1 .. Len(talk.queue)
          BY <2>7, <2>8, <3>2
        <4>2. toGo[i] = chat.sent[i].u /\ toGo[j] = talk.queue[j - Len(spoken)]
          BY <2>6, <2>7, <3>2, <4>1
        <4>3. QED BY <2>6, <4>1, <4>2 DEF IInv, TalkTrue, Ordered
      <3>3. CASE ~(i <= Len(spoken))
        <4>1. /\ i - Len(spoken) \in 1 .. Len(talk.queue) /\ j - Len(spoken) \in 1 .. Len(talk.queue)
              /\ i - Len(spoken) < j - Len(spoken) /\ ~(j <= Len(spoken))
          BY <2>7, <2>8, <3>3
        <4>2. toGo[i] = talk.queue[i - Len(spoken)] /\ toGo[j] = talk.queue[j - Len(spoken)]
          BY <2>7, <3>3, <4>1
        <4>3. QED BY <4>1, <4>2 DEF IInv, TalkTrue, Ordered
      <3>4. QED BY <2>7, <2>8, <3>1, <3>2, <3>3
    <2>9. \A i, j \in DOMAIN toGo : i < j => came(toGo[i]) < came(toGo[j])
      BY <2>5, <2>8
    <2>10. QED BY <2>1, <2>9 DEF SentAsResolved, came, toGo, spoken
  <1>2. QED BY <1>1, Invariant, PTL
=============================================================================
