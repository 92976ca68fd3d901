---------------------------- MODULE VoiceSession ----------------------------
(***************************************************************************)
(* Push-to-talk: the page's machine for one utterance after another        *)
(* (use-voice-input.ts), the socket and its session on the server          *)
(* (api/stt_ws.py, speech/stt.py), and the queue from which the utterances *)
(* are sent as messages (use-voice-utterances.ts).                         *)
(*                                                                         *)
(* An utterance has its own socket, its own server session and its own     *)
(* connection to the recogniser, which is external: in its manual mode it  *)
(* sends drafts while it hears, and one final transcript after the commit. *)
(* What the server queues for the page is delivered in order, so the       *)
(* queue of the session and the socket are one sequence here (events).     *)
(* Of a text only its extent is kept: nothing, a draft, or the whole.      *)
(***************************************************************************)
EXTENDS Naturals, Sequences, SequencesExt, FiniteSets

CONSTANTS
  MaxUtterances,       \* the utterances are 1..MaxUtterances, pressed in this order
  Threads,    \* the chat sessions the page may show
  Settings    \* sets of troubles, of which a behaviour meets those of one

Troubles == {"deaf", "error", "refuse", "die", "deny", "slow", "switch",
             "signout", "type", "unmount"}

ASSUME UtterancesAssumption == MaxUtterances \in Nat
ASSUME ThreadsAssumption == Threads # {}
ASSUME SettingsAssumption == Settings \subseteq SUBSET Troubles

Utterances == 1..MaxUtterances
Texts == {"", "draft", "whole"}

VARIABLES
  voice,    \* the VoiceSession of each utterance, in the page
  stt,      \* the DashScopeSttSession of each, with its recogniser
  events,   \* what each session has for the page
  bar,      \* currentRef and status: the input bar
  chat,     \* the page's thread and turn, and what was sent
  talk,     \* use-voice-utterances: the bubbles and the queue
  troubles

vars == <<voice, stt, events, bar, chat, talk, troubles>>

Voice == [st : {"new", "pressed", "released"}, settled : BOOLEAN,
          sock : {"none", "opening", "open", "closed"},
          finishRequested : BOOLEAN, finishSent : BOOLEAN, timer : BOOLEAN,
          interimText : {"", "draft"}, finalText : {"", "whole"},
          mic : {"none", "asked", "on", "off"},
          outcome : {"none", "text", "failed", "dropped"},
          thread : Threads]

Stt == [st : {"none", "start", "loop", "finish", "drain", "closed"},
        conversation : {"none", "open", "closed"}, finishing : BOOLEAN,
        final_parts : {"", "whole"}, latest_text : Texts, done_sent : BOOLEAN,
        completed : BOOLEAN, erred : BOOLEAN]

Event == [type : {"sentence", "final", "done", "error", "closed"}, text : Texts]

TypeOK ==
  /\ voice \in [Utterances -> Voice]
  /\ stt \in [Utterances -> Stt]
  /\ events \in [Utterances -> Seq(Event)]
  /\ bar \in [current : 0..MaxUtterances, status : {"idle", "starting", "recording"}]
  /\ chat \in [thread : Threads, turn : {"idle", "sent", "loading"}, signedIn : BOOLEAN,
              mounted : BOOLEAN, sent : Seq([u : Utterances, thread : Threads])]
  /\ talk \in [pendingIds : SUBSET Utterances, queue : Seq(Utterances),
              resolved : Seq(Utterances), handed : SUBSET Utterances, cleared : SUBSET Utterances]
  /\ troubles \in Settings

Init ==
  LET t == CHOOSE t \in Threads : TRUE IN
    /\ voice = [u \in Utterances |->
         [st |-> "new", settled |-> FALSE, sock |-> "none", finishRequested |-> FALSE,
          finishSent |-> FALSE, timer |-> FALSE, interimText |-> "", finalText |-> "",
          mic |-> "none", outcome |-> "none", thread |-> t]]
    /\ stt = [u \in Utterances |->
         [st |-> "none", conversation |-> "none", finishing |-> FALSE, final_parts |-> "",
          latest_text |-> "", done_sent |-> FALSE, completed |-> FALSE, erred |-> FALSE]]
    /\ events = [u \in Utterances |-> <<>>]
    /\ bar = [current |-> 0, status |-> "idle"]
    /\ chat = [thread |-> t, turn |-> "idle", signedIn |-> TRUE, mounted |-> TRUE,
               sent |-> <<>>]
    /\ talk = [pendingIds |-> {},    \* the bubbles, whose order is left out
               queue |-> <<>>,
               resolved |-> <<>>,   \* in the order the transcripts came
               handed |-> {},       \* handed to the sign-in flow
               cleared |-> {}]      \* dropped with their thread or the page
    /\ troubles \in Settings

(***************************************************************************)
(* How an utterance ends in the page.  Each takes the utterance as it is   *)
(* after what happened to it (w), and determines voice', bar' and talk'.   *)
(***************************************************************************)
Torn(w) == [w EXCEPT !.settled = TRUE, !.sock = IF @ = "none" THEN @ ELSE "closed",
                     !.timer = FALSE, !.mic = IF @ = "on" THEN "off" ELSE @]

Without(ids, u) == ids \ {u}

partialText(w) == IF w.finalText # "" THEN w.finalText ELSE w.interimText

\* resolved: the transcript joins the queue, the bubble stays until it is sent.
Resolved(u) == [talk EXCEPT !.queue = Append(@, u), !.resolved = Append(@, u)]

\* failed: the bubble goes, with a message.
Failed(u) == [talk EXCEPT !.pendingIds = Without(@, u)]

\* settleSession: with a text it is resolved, without one it has failed.
settleSession(u, w, text) ==
  /\ voice' = [voice EXCEPT ![u] =
       [Torn(w) EXCEPT !.outcome = IF text # "" THEN "text" ELSE "failed"]]
  /\ talk' = IF text # "" THEN Resolved(u) ELSE Failed(u)
  /\ UNCHANGED bar

\* failActive: the recording ends, with the error in the bar.
failActive(u, w) ==
  /\ voice' = [voice EXCEPT ![u] = [Torn(w) EXCEPT !.outcome = "failed"]]
  /\ bar' = IF bar.current = u THEN [current |-> 0, status |-> "idle"] ELSE bar
  /\ UNCHANGED talk

abortWithError(u, w) ==
  IF w.settled THEN voice' = [voice EXCEPT ![u] = w] /\ UNCHANGED <<bar, talk>>
  ELSE IF w.st = "released" THEN settleSession(u, w, partialText(w))
  ELSE failActive(u, w)

\* Mutant: a finish that could not be sent is not remembered.
ForgetsFinish(w) ==
  IF w.finishSent \/ w.settled \/ w.sock # "open" THEN w
  ELSE [w EXCEPT !.finishSent = TRUE, !.timer = TRUE]

\* sendFinish, which onopen repeats when the socket was not open yet.
sendFinish(w) ==
  IF w.finishSent \/ w.settled THEN w
  ELSE IF w.sock # "open" THEN [w EXCEPT !.finishRequested = TRUE]
  ELSE [w EXCEPT !.finishRequested = TRUE, !.finishSent = TRUE, !.timer = TRUE]

Keep(u, w) == voice' = [voice EXCEPT ![u] = w] /\ UNCHANGED <<bar, talk>>

(***************************************************************************)
(* The person at the bar.                                                  *)
(***************************************************************************)
\* press: a socket is opened and the microphone is asked for.
press(u) ==
  /\ chat.mounted /\ chat.signedIn /\ bar.current = 0
  /\ voice[u].st = "new" /\ \A v \in 1..(u - 1) : voice[v].st # "new"
  /\ voice' = [voice EXCEPT ![u].st = "pressed", ![u].sock = "opening",
                            ![u].mic = "asked", ![u].thread = chat.thread]
  /\ bar' = [current |-> u, status |-> "starting"]
  /\ UNCHANGED <<stt, events, chat, talk, troubles>>

\* release too soon (the microphone is not on, or has not been for 350 ms):
\* the utterance is dropped with a message.
releaseTap(u) ==
  /\ bar.current = u /\ ~voice[u].settled
  /\ voice' = [voice EXCEPT ![u] = [Torn(@) EXCEPT !.outcome = "failed"]]
  /\ bar' = [current |-> 0, status |-> "idle"]
  /\ UNCHANGED <<stt, events, chat, talk, troubles>>

\* release: the bar is free at once, a bubble appears, finish is sent.
release(u) ==
  /\ bar.current = u /\ ~voice[u].settled /\ voice[u].mic = "on"
  /\ voice' = [voice EXCEPT ![u] =
                 sendFinish([@ EXCEPT !.st = "released", !.thread = chat.thread])]
  /\ bar' = [current |-> 0, status |-> "idle"]
  /\ talk' = [talk EXCEPT !.pendingIds = @ \cup {u}]
  /\ UNCHANGED <<stt, events, chat, troubles>>

\* cancel: silently.
cancel(u) ==
  /\ bar.current = u
  /\ voice' = IF voice[u].settled THEN voice
              ELSE [voice EXCEPT ![u] = [Torn(@) EXCEPT !.outcome = "dropped"]]
  /\ bar' = [current |-> 0, status |-> "idle"]
  /\ UNCHANGED <<stt, events, chat, talk, troubles>>

(***************************************************************************)
(* The browser: microphone, socket and timer.                              *)
(***************************************************************************)
\* Mutant: nobody looks whether the utterance was settled meanwhile.
KeepsMicrophone(u) ==
  /\ voice[u].mic = "asked"
  /\ voice' = [voice EXCEPT ![u].mic = "on"]
  /\ bar' = IF bar.current = u THEN [bar EXCEPT !.status = "recording"] ELSE bar
  /\ UNCHANGED <<talk, stt, events, chat, troubles>>

\* getUserMedia and the audio context are there; too late, they are let go.
openAudioPipeline(u) ==
  LET w == voice[u] IN
  /\ w.mic = "asked"
  /\ IF w.settled THEN Keep(u, [w EXCEPT !.mic = "off"])
     ELSE /\ voice' = [voice EXCEPT ![u] = [w EXCEPT !.mic = "on"]]
          /\ bar' = IF bar.current = u THEN [bar EXCEPT !.status = "recording"] ELSE bar
          /\ UNCHANGED talk
  /\ UNCHANGED <<stt, events, chat, troubles>>

\* No permission, or the audio context does not run.
MicrophoneFails(u) ==
  /\ "deny" \in troubles /\ voice[u].mic = "asked"
  /\ abortWithError(u, [voice[u] EXCEPT !.mic = "off"])
  /\ UNCHANGED <<stt, events, chat, troubles>>

onopen(u) ==
  /\ voice[u].sock = "opening" /\ stt[u].st \in {"start", "loop"}
  /\ LET w == [voice[u] EXCEPT !.sock = "open"] IN
     Keep(u, IF w.finishRequested THEN sendFinish(w) ELSE w)
  /\ UNCHANGED <<stt, events, chat, troubles>>

\* onclose or onerror: the server has closed, or the connection broke.
onDead(u) ==
  /\ voice[u].sock \in {"opening", "open"}
  /\ stt[u].st = "closed" \/ "die" \in troubles
  /\ abortWithError(u, [voice[u] EXCEPT !.sock = "closed"])
  /\ UNCHANGED <<stt, events, chat, troubles>>

\* No final transcript five seconds after finish: the draft, or a failure.
resolveTimeout(u) ==
  /\ voice[u].timer /\ "slow" \in troubles
  /\ settleSession(u, voice[u], partialText(voice[u]))
  /\ UNCHANGED <<stt, events, chat, troubles>>

\* handleSessionMessage, by the type of the message.
TakeSentence(u, w, e) == Keep(u, [w EXCEPT !.interimText = e.text])

TakeFinal(u, w, e) ==
  LET heard == IF e.text = "" THEN w
               ELSE [w EXCEPT !.finalText = e.text, !.interimText = ""] IN
  IF w.st = "released" THEN settleSession(u, heard, heard.finalText)
  ELSE Keep(u, heard)

TakeDone(u, w, e) ==
  settleSession(u, w, IF e.text # "" THEN e.text ELSE partialText(w))

handleSessionMessage(u) ==
  LET w == voice[u]  e == Head(events[u]) IN
  /\ w.sock = "open" /\ ~w.settled
  /\ events[u] # <<>> /\ e.type # "closed" /\ stt[u].st # "start"
  /\ CASE e.type = "sentence" -> TakeSentence(u, w, e)
       [] e.type = "final" -> TakeFinal(u, w, e)
       [] e.type = "done" -> TakeDone(u, w, e)
       [] e.type = "error" -> abortWithError(u, w)
  /\ events' = [events EXCEPT ![u] = Tail(@)]
  /\ UNCHANGED <<stt, chat, troubles>>

(***************************************************************************)
(* The server: stt_websocket and finish.                                   *)
(***************************************************************************)
Enqueue(u, more) == events' = [events EXCEPT ![u] = @ \o more]
Event_(type, text) == [type |-> type, text |-> text]

\* Token and key are right and the socket is accepted; or it is closed.
Accept(u) ==
  /\ voice[u].sock = "opening" /\ stt[u].st = "none"
  /\ \/ stt' = [stt EXCEPT ![u].st = "start"]
     \/ "refuse" \in troubles /\ stt' = [stt EXCEPT ![u].st = "closed"]
  /\ UNCHANGED <<voice, events, bar, chat, talk, troubles>>

\* start connects to the recogniser; when that fails the socket is closed,
\* and the error it has queued is forwarded by nobody.
start(u) ==
  /\ stt[u].st = "start"
  /\ \/ /\ stt' = [stt EXCEPT ![u].st = "loop", ![u].conversation = "open"]
        /\ UNCHANGED events
     \/ /\ "refuse" \in troubles
        /\ stt' = [stt EXCEPT ![u].st = "closed"]
        /\ Enqueue(u, <<Event_("error", "")>>)
  /\ UNCHANGED <<voice, bar, chat, talk, troubles>>

\* The loop ends on the finish message or when the page is gone; finish
\* commits what was heard.
finish(u) ==
  /\ stt[u].st = "loop"
  /\ voice[u].finishSent \/ voice[u].sock = "closed"
  /\ stt' = [stt EXCEPT ![u].st = "finish", ![u].finishing = TRUE]
  /\ UNCHANGED <<voice, events, bar, chat, talk, troubles>>

\* finish goes on with the final transcript, or without it after 2.5 s, and
\* closes the connection, of which the call-back on_close tells the queue.
CloseConversation(u) ==
  /\ stt[u].st = "finish"
  /\ \/ stt[u].final_parts # "" \/ "slow" \in troubles
     \/ stt[u].completed \/ stt[u].conversation = "closed"
  /\ stt' = [stt EXCEPT ![u].st = "drain", ![u].conversation = "closed"]
  /\ IF stt[u].conversation = "open" THEN Enqueue(u, <<Event_("closed", "")>>)
     ELSE UNCHANGED events
  /\ UNCHANGED <<voice, bar, chat, talk, troubles>>

\* The forwarding ends at "closed", or with the page's socket.
CloseSocket(u) ==
  /\ stt[u].st = "drain"
  /\ events[u] # <<>>
  /\ Head(events[u]).type = "closed" \/ voice[u].sock = "closed"
  /\ stt' = [stt EXCEPT ![u].st = "closed"]
  /\ events' = [events EXCEPT ![u] = <<>>]
  /\ UNCHANGED <<voice, bar, chat, talk, troubles>>

(***************************************************************************)
(* The recogniser's call-backs.                                            *)
(***************************************************************************)
Connected(u) == stt[u].conversation = "open"

\* Mutant: without a transcript the text of "done" is null.
NullText(s) ==
  IF s.done_sent THEN <<>>
  ELSE <<Event_("done", IF s.final_parts # "" THEN s.final_parts ELSE "null")>>

\* _emit_done, once, with the final transcript or else the latest draft.
emit_done(s) ==
  IF s.done_sent THEN <<>>
  ELSE <<Event_("done", IF s.final_parts # "" THEN s.final_parts ELSE s.latest_text)>>

\* _on_text with a draft.
Drafted(u) ==
  /\ Connected(u) /\ stt[u].latest_text = "" /\ ~stt[u].completed
  /\ stt' = [stt EXCEPT ![u].latest_text = "draft"]
  /\ Enqueue(u, <<Event_("sentence", "draft")>>)
  /\ UNCHANGED <<voice, bar, chat, talk, troubles>>

\* _on_text with the transcript that follows the commit; empty when the
\* recogniser heard nothing.
Completed(u) ==
  /\ Connected(u) /\ stt[u].finishing /\ ~stt[u].completed
  /\ \E text \in {"whole"} \cup (IF "deaf" \in troubles THEN {""} ELSE {}) :
       LET s == IF text = "" THEN [stt[u] EXCEPT !.completed = TRUE]
                ELSE [stt[u] EXCEPT !.completed = TRUE, !.final_parts = text,
                                    !.latest_text = text] IN
       /\ stt' = [stt EXCEPT ![u] = [s EXCEPT !.done_sent = TRUE]]
       /\ Enqueue(u, <<Event_("final", text)>> \o emit_done(s))
  /\ UNCHANGED <<voice, bar, chat, talk, troubles>>

\* session.finished, which the recogniser sends after the commit.
SessionFinished(u) ==
  /\ Connected(u) /\ stt[u].finishing /\ ~stt[u].done_sent
  /\ "deaf" \in troubles
  /\ stt' = [stt EXCEPT ![u].done_sent = TRUE, ![u].completed = TRUE]
  /\ Enqueue(u, emit_done(stt[u]))
  /\ UNCHANGED <<voice, bar, chat, talk, troubles>>

\* Bound: one error or one early close in a behaviour.
ErrsOnce(u) ==
  "error" \in troubles /\ Connected(u) /\ \A v \in Utterances : ~stt[v].erred

RecogniserErrs(u) ==
  /\ ErrsOnce(u)
  /\ stt' = [stt EXCEPT ![u].erred = TRUE]
  /\ Enqueue(u, <<Event_("error", "")>>)
  /\ UNCHANGED <<voice, bar, chat, talk, troubles>>

RecogniserCloses(u) ==
  /\ ErrsOnce(u)
  /\ stt' = [stt EXCEPT ![u].conversation = "closed", ![u].erred = TRUE]
  /\ Enqueue(u, <<Event_("closed", "")>>)
  /\ UNCHANGED <<voice, bar, chat, talk, troubles>>

(***************************************************************************)
(* The queue of utterances (use-voice-utterances.ts) and the chat.         *)
(***************************************************************************)
\* What sendMessage answers: prepareSendIntent looks at the turn in flight.
SendIntent ==
  IF chat.turn # "idle" THEN "blocked"
  ELSE IF ~chat.signedIn THEN "auth_required" ELSE "accepted"

\* Mutant: a blocked message goes to the end of the queue.
ToTheEnd(next, rest) == Append(rest, next)

\* Blocked: put back at the head, for the next round.
PutBack(next, rest) == <<next>> \o rest

\* The drain effect, while no turn is shown as loading.
drain ==
  LET next == Head(talk.queue)  rest == Tail(talk.queue) IN
  /\ chat.mounted /\ chat.turn # "loading" /\ talk.queue # <<>>
  /\ CASE SendIntent = "blocked" ->
             talk' = [talk EXCEPT !.queue = PutBack(next, rest)] /\ UNCHANGED chat
       [] SendIntent = "auth_required" ->
             /\ talk' = [talk EXCEPT !.queue = rest, !.handed = @ \cup {next},
                                     !.pendingIds = Without(@, next)]
             /\ UNCHANGED chat
       [] SendIntent = "accepted" ->
             /\ talk' = [talk EXCEPT !.queue = rest, !.pendingIds = Without(@, next)]
             /\ chat' = [chat EXCEPT !.turn = "sent",
                                     !.sent = Append(@, [u |-> next, thread |-> chat.thread])]
  /\ UNCHANGED <<voice, stt, events, bar, troubles>>

\* Another thread is shown: the queue and the bubbles are dropped.
SwitchThread(t) ==
  /\ "switch" \in troubles /\ chat.mounted /\ t # chat.thread
  /\ chat' = [chat EXCEPT !.thread = t]
  /\ talk' = [talk EXCEPT !.queue = <<>>, !.pendingIds = {},
                          !.cleared = @ \cup Range(talk.queue)]
  /\ UNCHANGED <<voice, stt, events, bar, troubles>>

\* The turn of a message: in flight, then rendered as loading, then over.
Turn(from, to) ==
  /\ chat.turn = from /\ chat' = [chat EXCEPT !.turn = to]
  /\ UNCHANGED <<voice, stt, events, bar, talk, troubles>>

\* A message typed in the text mode of the bar.
Type == "type" \in troubles /\ chat.mounted /\ chat.signedIn /\ Turn("idle", "sent")

SignOut ==
  /\ "signout" \in troubles /\ chat.signedIn
  /\ chat' = [chat EXCEPT !.signedIn = FALSE]
  /\ UNCHANGED <<voice, stt, events, bar, talk, troubles>>

\* The page is left: everything that was spoken ends silently.
Unmount ==
  /\ "unmount" \in troubles /\ chat.mounted
  /\ voice' = [u \in Utterances |->
                 IF voice[u].st = "new" \/ voice[u].settled THEN voice[u]
                 ELSE [Torn(voice[u]) EXCEPT !.outcome = "dropped"]]
  /\ bar' = [current |-> 0, status |-> "idle"]
  /\ chat' = [chat EXCEPT !.mounted = FALSE]
  /\ talk' = [talk EXCEPT !.queue = <<>>, !.pendingIds = {},
                          !.cleared = @ \cup Range(talk.queue)]
  /\ UNCHANGED <<stt, events, troubles>>

-----------------------------------------------------------------------------
Person(u) == press(u) \/ releaseTap(u) \/ release(u) \/ cancel(u)

Browser(u) ==
  \/ openAudioPipeline(u) \/ MicrophoneFails(u)
  \/ onopen(u) \/ handleSessionMessage(u)

Server(u) ==
  Accept(u) \/ start(u) \/ finish(u) \/ CloseConversation(u) \/ CloseSocket(u)

Recogniser(u) ==
  \/ Drafted(u) \/ Completed(u) \/ SessionFinished(u)
  \/ RecogniserErrs(u) \/ RecogniserCloses(u)

Next ==
  \/ \E u \in Utterances :
       \/ Person(u) \/ Browser(u) \/ onDead(u) \/ resolveTimeout(u)
       \/ Server(u) \/ Recogniser(u)
  \/ drain \/ Turn("sent", "loading") \/ Turn("loading", "idle")
  \/ \E t \in Threads : SwitchThread(t)
  \/ Type \/ SignOut \/ Unmount

Spec == Init /\ [][Next]_vars

\* The browser and the server run what is due, a closed socket is noticed, the
\* recogniser answers a commit, turns end, nobody holds the bar for ever, and
\* the drain effect, which follows every render, is not outrun by typing.
Fairness ==
  /\ \A u \in Utterances :
       /\ WF_vars(Browser(u)) /\ WF_vars(Server(u))
       /\ WF_vars(stt[u].st = "closed" /\ onDead(u))
       /\ WF_vars(Completed(u)) /\ WF_vars(releaseTap(u) \/ release(u) \/ cancel(u))
  /\ SF_vars(drain)
  /\ WF_vars(Turn("sent", "loading")) /\ WF_vars(Turn("loading", "idle"))

FairSpec == Spec /\ Fairness

-----------------------------------------------------------------------------
(***************************************************************************)
(* Properties.                                                             *)
(***************************************************************************)
\* The bar says what is the case: it is idle exactly when nothing is being
\* spoken (else no press would work any more), what it records has not been
\* settled, and the microphone of a settled utterance is off, also when it
\* was granted after the tap or the error that settled it.
BarIsTrue ==
  /\ bar.status = "idle" <=> bar.current = 0
  /\ bar.current # 0 => ~voice[bar.current].settled
  /\ bar.status = "recording" => voice[bar.current].mic = "on"
  /\ \A u \in Utterances : voice[u].settled => voice[u].mic # "on"

\* A transcript is in exactly one place: the queue, the chat, the sign-in
\* flow, or dropped with its thread; a bubble stands for an utterance that is
\* still being transcribed or sent.
Accounted ==
  /\ \A u \in Utterances : voice[u].outcome = "text" =>
       Cardinality({i \in DOMAIN talk.queue : talk.queue[i] = u})
         + Cardinality({i \in DOMAIN chat.sent : chat.sent[i].u = u})
         + Cardinality({u} \cap talk.handed) + Cardinality({u} \cap talk.cleared) = 1
  /\ \A u \in talk.pendingIds :
       voice[u].st = "released" /\ (~voice[u].settled \/ u \in Range(talk.queue))

\* Nothing is swallowed, nothing sent twice, and messages are sent in the order
\* in which their transcripts came, however often the page was busy.
SentAsResolved ==
  LET came(u) == CHOOSE i \in DOMAIN talk.resolved : talk.resolved[i] = u
      toGo == [i \in DOMAIN chat.sent |-> chat.sent[i].u] \o talk.queue IN
  /\ Accounted
  /\ \A i, j \in DOMAIN toGo : i < j => came(toGo[i]) < came(toGo[j])

\* Every utterance comes to an end: it is settled, its bubble is gone, and the
\* server has let go of its recogniser.
EveryUtteranceEnds ==
  \A u \in Utterances : voice[u].st # "new" ~>
    /\ voice[u].settled /\ u \notin talk.pendingIds
    /\ stt[u].conversation # "open" /\ stt[u].st \in {"none", "closed"}

\* "Utterances are dropped when the thread changes, lest they be sent to the
\* wrong one" (use-voice-utterances.ts:6): a message goes to the thread in
\* which it was spoken.
SentWhereSpoken ==
  \A i \in DOMAIN chat.sent : chat.sent[i].thread = voice[chat.sent[i].u].thread
=============================================================================
