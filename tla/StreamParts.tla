---------------------------- MODULE StreamParts ----------------------------
(***************************************************************************)
(* One streamed turn: how the deltas and tool calls of an agent run become *)
(* the parts of an assistant message, on the server (AgentStreamService,   *)
(* stream_invoke) and on the page (use-chat-agent), and what is stored.    *)
(*                                                                         *)
(* Two consumers read two projections of the run, each at its own pace,    *)
(* and put events on one queue; the request handler relays the queue to    *)
(* the page.  A consumer's step between two awaits is one action (a put on *)
(* the unbounded queue never waits).                                       *)
(***************************************************************************)
EXTENDS ToolPayloads, FiniteSets

CONSTANT
    Runs    \* the agent runs to examine; a behaviour follows one of them

Consumers  == {"messages", "tools"}
TextTypes  == {"text", "reasoning"}
PartStatus == {"streaming", "completed", "stopped", "failed", "running", "success", "error"}
Faults     == {"raises",  \* an exception may end a consumer
               "stops"}   \* the page may drop the stream

\* Where stream_invoke stands.
Phases == {"relaying",    \* inside stream_agent_run, or at one of its events
           "closing",     \* cancelled there, and waiting for the consumers
           "failing",     \* in the except block, awaiting the roll-back: it failed,
           "stopping",    \* or was cancelled
           "completing",  \* behind the try, awaiting the newest checkpoint
           "over",        \* the row is written
           "gone"}        \* cut off before

\* A run: its deltas and its tool calls, in order.  Those of one step follow on
\* the answers to the calls of the steps before; the calls of a step run together.
\* A delta that cites names the source by its number, 0 is none.
ASSUME RunsAssumption == \A r \in Runs :
    /\ r.faults \subseteq Faults
    /\ r.deltas \in Seq([type : TextTypes, cites : Nat, step : Nat])
    /\ r.calls \in Seq(Range(r.calls))
    /\ \A c \in DOMAIN r.calls : /\ r.calls[c].step \in Nat
                                 /\ r.calls[c].hotel \in BOOLEAN
                                 /\ r.calls[c].error \in BOOLEAN
                                 /\ r.calls[c].wrap \in {"bare", "json", "block", "blocks"}
                                 /\ IsPayload(r.calls[c].payload)

VARIABLES
    run,        \* what the model says and the tools answer; never changes
    returned,   \* the calls whose tool has answered
    state,      \* StreamRunState
    consumer,   \* per consumer: where it stands, and how much it has read
    queue,      \* the asyncio.Queue between the consumers and the handler
    handler,    \* the request handler
    stored,     \* the message's row
    wire,       \* events on their way to the page
    page        \* the page's copy of the message

vars == <<run, returned, state, consumer, queue, handler, stored, wire, page>>

-----------------------------------------------------------------------------
(***************************************************************************)
(* Parts.  A text is the sequence of its deltas, each named by its number. *)
(* The id of a tool part names its call; the cards and sources of the part *)
(* are what CardsOf and SourcesOf make of the call's payload.              *)
(***************************************************************************)
TextPart(id, type, text, status) ==
    [id |-> id, type |-> type, text |-> text, status |-> status]
ToolPart(c, status) ==
    [id |-> <<"tool", c>>, type |-> "tool", text |-> <<>>, status |-> status]

PartDelta(id, type, delta, status) ==
    [event |-> "part.delta", part |-> TextPart(id, type, delta, status)]
ToolEvent(part) == [event |-> "tool", part |-> part]
Completed(row)  == [event |-> "message.completed", row |-> row]
ErrorEvent      == [event |-> "error"]
Sentinel        == [event |-> "none"]

IsTextLike(part) == part.type \in TextTypes
Streams(part)    == IsTextLike(part) /\ part.status = "streaming"
TextOf(parts, type) ==
    FlattenSeq([i \in DOMAIN parts |-> IF parts[i].type = type THEN parts[i].text ELSE <<>>])
PartAt(parts, id) == SelectInSeq(parts, LAMBDA p : p.id = id)

\* What the projections may yield so far: all of a step, once the calls of the
\* steps before it have been answered.
Reached(step) == \A c \in DOMAIN run.calls : run.calls[c].step < step => c \in returned
AllAnswered   == returned = DOMAIN run.calls

-----------------------------------------------------------------------------
Init ==
    /\ run \in Runs
    /\ returned = {}
    /\ state = [parts |-> <<>>, text |-> <<>>, last |-> [t \in TextTypes |-> 0],
                sources |-> <<>>]
    /\ consumer = [c \in Consumers |-> [pc |-> "reading", n |-> 0]]
    /\ queue = <<>>
    /\ handler = [pc |-> "relaying", done |-> 0]
    /\ stored = [status |-> "streaming", text |-> <<>>, parts |-> <<>>, sources |-> <<>>]
    /\ wire = <<>>
    /\ page = [status |-> "streaming", text |-> <<>>, parts |-> <<>>]

\* External: a tool answers.
ToolAnswers(c) ==
    /\ c \notin returned /\ Reached(run.calls[c].step)
    /\ returned' = returned \cup {c}
    /\ UNCHANGED <<run, state, consumer, queue, handler, stored, wire, page>>

(***************************************************************************)
(* The consumer of the messages.                                           *)
(***************************************************************************)
\* _seal_streaming_text_like_parts, and the events that say so.
Sealed(parts) ==
    [i \in DOMAIN parts |-> IF Streams(parts[i]) THEN [parts[i] EXCEPT !.status = "completed"]
                            ELSE parts[i]]
SealEvents(parts) ==
    FlattenSeq([i \in DOMAIN parts |->
        IF Streams(parts[i]) THEN <<PartDelta(parts[i].id, parts[i].type, <<>>, "completed")>>
        ELSE <<>>])

\* Mutant: the newest part of the type is continued, wherever it stands.
AppendTextToNewest(s, type, d) ==
    LET id == <<type, s.last[type]>>
        i  == PartAt(s.parts, id)
    IN
    IF i # 0
    THEN [state |-> [s EXCEPT !.parts[i].text = Append(@, d), !.parts[i].status = "streaming"],
          events |-> <<PartDelta(id, type, <<d>>, "streaming")>>]
    ELSE [state |-> [s EXCEPT !.parts = Append(Sealed(s.parts),
                                   TextPart(<<type, s.last[type] + 1>>, type, <<d>>, "streaming")),
                              !.last[type] = @ + 1],
          events |-> Append(SealEvents(s.parts),
                            PartDelta(<<type, s.last[type] + 1>>, type, <<d>>, "streaming"))]

\* _append_text_like_part: continue the last part, or seal and open another.
AppendText(s, type, d) ==
    IF s.parts # <<>> /\ Last(s.parts).type = type
    THEN [state |-> [s EXCEPT !.parts[Len(s.parts)].text = Append(@, d),
                              !.parts[Len(s.parts)].status = "streaming"],
          events |-> <<PartDelta(Last(s.parts).id, type, <<d>>, "streaming")>>]
    ELSE LET id == <<type, s.last[type] + 1>> IN
         [state |-> [s EXCEPT !.parts = Append(Sealed(@), TextPart(id, type, <<d>>, "streaming")),
                              !.last[type] = @ + 1],
          events |-> Append(SealEvents(s.parts), PartDelta(id, type, <<d>>, "streaming"))]

ReadDelta ==
    LET d == consumer["messages"].n + 1
        type == run.deltas[d].type
        new == AppendText(state, type, d)
    IN
    /\ consumer["messages"].pc = "reading"
    /\ d \in DOMAIN run.deltas /\ Reached(run.deltas[d].step)
    /\ state' = [new.state EXCEPT !.text = IF type = "text" THEN Append(@, d) ELSE @]
    /\ queue' = queue \o new.events
    /\ consumer' = [consumer EXCEPT !["messages"].n = d]
    /\ UNCHANGED <<run, returned, handler, stored, wire, page>>

(***************************************************************************)
(* The consumer of the tool calls: one call at a time, in order.           *)
(***************************************************************************)
\* Mutant: the text that streams is left open when a tool starts.
StartToolUnsealed ==
    LET c == consumer["tools"].n + 1 IN
    /\ consumer["tools"].pc = "reading"
    /\ c \in DOMAIN run.calls /\ Reached(run.calls[c].step)
    /\ state' = [state EXCEPT !.parts = Append(@, ToolPart(c, "running"))]
    /\ queue' = Append(queue, ToolEvent(ToolPart(c, "running")))
    /\ consumer' = [consumer EXCEPT !["tools"] = [pc |-> "awaiting", n |-> c]]
    /\ UNCHANGED <<run, returned, handler, stored, wire, page>>

StartTool ==
    LET c == consumer["tools"].n + 1 IN
    /\ consumer["tools"].pc = "reading"
    /\ c \in DOMAIN run.calls /\ Reached(run.calls[c].step)
    /\ state' = [state EXCEPT !.parts = Append(Sealed(@), ToolPart(c, "running"))]
    /\ queue' = Append(queue \o SealEvents(state.parts), ToolEvent(ToolPart(c, "running")))
    /\ consumer' = [consumer EXCEPT !["tools"] = [pc |-> "awaiting", n |-> c]]
    /\ UNCHANGED <<run, returned, handler, stored, wire, page>>

\* The payload of the done trace, as the tool's server wrapped it, and what is
\* read out of it.
Wrapped(call) ==
    IF call.error THEN Plain ELSE
    CASE call.wrap = "bare"   -> call.payload
      [] call.wrap = "json"   -> Json(call.payload)
      [] call.wrap = "block"  -> Block(Json(call.payload))
      [] call.wrap = "blocks" -> List(<<Block(Plain), Block(Json(call.payload))>>)
CardsOf(call)   == ExtractCards(call.hotel, Wrapped(call))
SourcesOf(call) == ExtractSources(Wrapped(call))

\* Mutant: an error is a result like any other.
DonePartUnchecked(c) == ToolPart(c, "success")

DonePart(c) == ToolPart(c, IF run.calls[c].error THEN "error" ELSE "success")

\* Mutant: the sources of the newest call come first.
FinishToolPrepended ==
    LET c == consumer["tools"].n IN
    /\ consumer["tools"].pc = "awaiting" /\ c \in returned
    /\ state' = [state EXCEPT !.parts[PartAt(state.parts, <<"tool", c>>)] = DonePart(c),
                              !.sources = <<c>> \o @]
    /\ queue' = Append(queue, ToolEvent(DonePart(c)))
    /\ consumer' = [consumer EXCEPT !["tools"].pc = "reading"]
    /\ UNCHANGED <<run, returned, handler, stored, wire, page>>

FinishTool ==
    LET c == consumer["tools"].n IN
    /\ consumer["tools"].pc = "awaiting" /\ c \in returned
    /\ state' = [state EXCEPT !.parts[PartAt(state.parts, <<"tool", c>>)] = DonePart(c),
                              !.sources = Append(@, c)]
    /\ queue' = Append(queue, ToolEvent(DonePart(c)))
    /\ consumer' = [consumer EXCEPT !["tools"].pc = "reading"]
    /\ UNCHANGED <<run, returned, handler, stored, wire, page>>

(***************************************************************************)
(* The end of a consumer.  Its sentinel is put whatever ended it.          *)
(***************************************************************************)
\* Mutant: the sentinel is not put in a finally block.
EndsSilently(who, how) ==
    /\ consumer' = [consumer EXCEPT ![who].pc = how]
    /\ queue' = IF how = "raised" THEN queue ELSE Append(queue, Sentinel)
    /\ UNCHANGED <<run, returned, state, handler, stored, wire, page>>

Ends(who, how) ==
    /\ consumer' = [consumer EXCEPT ![who].pc = how]
    /\ queue' = Append(queue, Sentinel)
    /\ UNCHANGED <<run, returned, state, handler, stored, wire, page>>

ConsumerEnds(who) ==
    /\ consumer[who].pc = "reading" /\ AllAnswered
    /\ consumer[who].n = Len(IF who = "messages" THEN run.deltas ELSE run.calls)
    /\ Ends(who, "over")

ConsumerRaises(who) ==
    /\ "raises" \in run.faults
    /\ consumer[who].pc \in {"reading", "awaiting"}
    /\ Ends(who, "raised")

SomeRaised    == \E who \in Consumers : consumer[who].pc = "raised"
\* gather is done when one of them has raised or all are through.
ConsumersGone == SomeRaised \/ \A who \in Consumers : consumer[who].pc = "over"

(***************************************************************************)
(* The request handler.                                                    *)
(***************************************************************************)
Relay ==
    /\ handler.pc = "relaying" /\ handler.done < 2 /\ queue # <<>>
    /\ IF Head(queue) = Sentinel
       THEN handler' = [handler EXCEPT !.done = @ + 1] /\ UNCHANGED wire
       ELSE wire' = Append(wire, Head(queue)) /\ UNCHANGED handler
    /\ queue' = Tail(queue)
    /\ UNCHANGED <<run, returned, state, consumer, stored, page>>

\* _finalize_ui_parts; a turn that wrote no part has no text either.
Finalized(parts) ==
    [i \in DOMAIN parts |-> IF IsTextLike(parts[i])
                            THEN [parts[i] EXCEPT !.status = "completed"] ELSE parts[i]]
\* resolve_annotations_from_text: where a text of the stored message says [src-N],
\* and the source it stands for; a number without a source is passed over.
Annotations(text, sources) ==
    LET all == FlattenSeq([k \in DOMAIN sources |-> SourcesOf(run.calls[sources[k]])])
        marks == Only([i \in DOMAIN text |-> [at |-> i, n |-> run.deltas[text[i]].cites]],
                      LAMBDA m : m.n \in DOMAIN all)
    IN  [k \in DOMAIN marks |-> [at |-> marks[k].at, source |-> all[marks[k].n]]]

\* The relay has ended and nobody raised.
RelayEnds ==
    /\ handler.pc = "relaying" /\ handler.done = 2 /\ ~SomeRaised
    /\ handler' = [handler EXCEPT !.pc = "completing"]
    /\ UNCHANGED <<run, returned, state, consumer, queue, stored, wire, page>>

CompletedRow ==
    [status |-> "completed", text |-> state.text, parts |-> Finalized(state.parts),
     sources |-> state.sources]

\* The newest checkpoint has been read.
Complete ==
    /\ handler.pc = "completing"
    /\ stored' = CompletedRow
    /\ wire' = Append(wire, Completed(CompletedRow))
    /\ handler' = [handler EXCEPT !.pc = "over"]
    /\ UNCHANGED <<run, returned, state, consumer, queue, page>>

\* Mutant: only the text that was sealed is kept.
InterruptedSealed(outcome) ==
    LET kept == SelectSeq(state.parts, LAMBDA p : ~Streams(p)) IN
    [status |-> outcome, text |-> TextOf(kept, "text"),
     parts |-> [i \in DOMAIN kept |-> [kept[i] EXCEPT !.status = outcome]],
     sources |-> <<>>]

\* Mutant: the parts are given a status of their own.
InterruptedAsCancelled(outcome) ==
    [status |-> outcome, text |-> state.text,
     parts |-> [i \in DOMAIN state.parts |-> [state.parts[i] EXCEPT !.status = "cancelled"]],
     sources |-> <<>>]

\* What an interrupted turn stores: the parts that streamed, or a notice.
Interrupted(outcome) ==
    [status |-> outcome,
     text |-> IF outcome = "stopped" THEN state.text ELSE <<>>,
     parts |-> IF outcome = "stopped" /\ state.parts # <<>>
               THEN [i \in DOMAIN state.parts |-> [state.parts[i] EXCEPT !.status = outcome]]
               ELSE <<TextPart(<<"text", 1>>, "text", <<>>, outcome)>>,
     sources |-> <<>>]

\* The except block is entered, and awaits the roll-back of the thread.
RollBack(phase) ==
    /\ handler' = [handler EXCEPT !.pc = phase]
    /\ UNCHANGED <<run, returned, state, consumer, queue, stored, wire, page>>

Fail ==
    /\ handler.pc = "relaying" /\ handler.done = 2 /\ SomeRaised
    /\ RollBack("failing")

\* The server notices that the page is gone.  It cancels the relay, whose finally
\* block waits for the consumers ...
Cancel ==
    /\ page.status = "stopped" /\ handler.pc = "relaying"
    /\ handler' = [handler EXCEPT !.pc = "closing"]
    /\ UNCHANGED <<run, returned, state, consumer, queue, stored, wire, page>>

\* ... or closes the stream at an event it relayed, which waits for nobody and counts
\* as failed.
Close ==
    /\ page.status = "stopped" /\ handler.pc = "relaying" /\ handler.done < 2
    /\ wire # <<>> \/ page.parts # <<>>
    /\ RollBack("failing")

\* A second cancellation ends the consumers too.
CancelConsumers ==
    /\ handler.pc = "closing" /\ ~ConsumersGone
    /\ consumer' = [who \in Consumers |-> [consumer[who] EXCEPT !.pc = "over"]]
    /\ UNCHANGED <<run, returned, state, queue, handler, stored, wire, page>>

\* The cancelled relay is through; what a consumer raised replaces the cancellation.
Closed ==
    /\ handler.pc = "closing" /\ ConsumersGone
    /\ RollBack(IF SomeRaised THEN "failing" ELSE "stopping")

\* The thread has been rolled back.
Settle ==
    LET row == Interrupted(IF handler.pc = "stopping" THEN "stopped" ELSE "failed") IN
    /\ handler.pc \in {"failing", "stopping"}
    /\ stored' = row
    /\ wire' = wire \o <<Completed(row), ErrorEvent>>
    /\ handler' = [handler EXCEPT !.pc = "over"]
    /\ UNCHANGED <<run, returned, state, consumer, queue, page>>

\* A cancellation that nothing catches: at the await of the newest checkpoint, which
\* is outside the try, or at the roll-back, inside the except block.  The row stays.
Vanish ==
    /\ page.status = "stopped" /\ handler.pc \in {"completing", "failing", "stopping"}
    /\ handler' = [handler EXCEPT !.pc = "gone"]
    /\ UNCHANGED <<run, returned, state, consumer, queue, stored, wire, page>>

(***************************************************************************)
(* The page.                                                               *)
(***************************************************************************)
\* mergeTextDelta: text that continues behind a tool gets a part of its own.
MergeTextDelta(parts, delta) ==
    LET i == PartAt(parts, delta.id)
        tools == {k \in DOMAIN parts : parts[k].type = "tool"}
        lastTool == CHOOSE k \in tools : \A j \in tools : j <= k
        contId == delta.id \o <<"after-tool", lastTool>>
        With(k) == [parts EXCEPT ![k].text = @ \o delta.text, ![k].status = delta.status]
    IN
    CASE i = 0 -> Append(parts, delta)
      [] i # 0 /\ delta.type = "text" /\ (\E k \in tools : k > i) ->
            IF PartAt(parts, contId) # 0 THEN With(PartAt(parts, contId))
            ELSE Append(parts, [delta EXCEPT !.id = contId])
      [] OTHER -> With(i)

UpsertToolPart(parts, part) ==
    IF PartAt(parts, part.id) = 0 THEN Append(parts, part)
    ELSE [parts EXCEPT ![PartAt(parts, part.id)] = part]

ApplyPart(parts, e) ==
    CASE e.event = "part.delta" -> MergeTextDelta(parts, e.part)
      [] e.event = "tool"       -> UpsertToolPart(parts, e.part)
      [] OTHER                  -> parts

\* applyStreamEvent: a completed message replaces what was shown.
PageReceives ==
    LET e == Head(wire)
        parts == ApplyPart(page.parts, e)
    IN
    /\ wire # <<>> /\ page.status # "stopped"
    /\ page' = CASE e.event = "message.completed" ->
                      [status |-> e.row.status, text |-> e.row.text, parts |-> e.row.parts]
                 [] e.event = "error" -> [page EXCEPT !.status = "failed"]
                 [] OTHER -> [status |-> "streaming", text |-> TextOf(parts, "text"),
                              parts |-> parts]
    /\ wire' = Tail(wire)
    /\ UNCHANGED <<run, returned, state, consumer, queue, handler, stored>>

\* The page drops the stream, and with it whatever is on its way.
PageStops ==
    /\ "stops" \in run.faults /\ page.status = "streaming"
    /\ page' = [page EXCEPT !.status = "stopped",
                            !.parts = [i \in DOMAIN @ |-> IF IsTextLike(@[i])
                                         THEN [@[i] EXCEPT !.status = "stopped"] ELSE @[i]]]
    /\ UNCHANGED <<run, returned, state, consumer, queue, handler, stored, wire>>

-----------------------------------------------------------------------------
Next ==
    \/ \E c \in DOMAIN run.calls : ToolAnswers(c)
    \/ ReadDelta \/ StartTool \/ FinishTool
    \/ \E who \in Consumers : ConsumerEnds(who) \/ ConsumerRaises(who)
    \/ Relay \/ RelayEnds \/ Complete
    \/ Fail \/ Cancel \/ Close \/ CancelConsumers \/ Closed \/ Settle \/ Vanish
    \/ PageReceives \/ PageStops

Spec == Init /\ [][Next]_vars

\* The run makes progress, the event loop runs every coroutine that is ready, and
\* the page reads its stream; nobody has to raise, stop, cancel or close.
FairSpec ==
    /\ Spec
    /\ \A c \in 1 .. 3 : WF_vars(c \in DOMAIN run.calls /\ ToolAnswers(c))
    /\ WF_vars(ReadDelta) /\ WF_vars(StartTool) /\ WF_vars(FinishTool)
    /\ \A who \in Consumers : WF_vars(ConsumerEnds(who))
    /\ WF_vars(Relay) /\ WF_vars(RelayEnds) /\ WF_vars(Complete)
    /\ WF_vars(Fail) /\ WF_vars(Closed) /\ WF_vars(Settle)
    /\ WF_vars(PageReceives)
-----------------------------------------------------------------------------
(* Properties *)

IsPart(p) == /\ p.type \in TextTypes \cup {"tool"} /\ p.status \in PartStatus
             /\ p.text \in Seq(DOMAIN run.deltas)
IsParts(parts) == \A i \in DOMAIN parts : IsPart(parts[i])

\* Every variable has its type; parts are text, reasoning or tool parts.
TypeOK ==
    /\ returned \subseteq DOMAIN run.calls
    /\ IsParts(state.parts) /\ IsParts(stored.parts) /\ IsParts(page.parts)
    /\ state.text \in Seq(DOMAIN run.deltas)
    /\ state.last \in [TextTypes -> Nat]
    /\ consumer \in [Consumers -> [pc: {"reading", "awaiting", "over", "raised"}, n: Nat]]
    /\ handler \in [pc: Phases, done: 0 .. 2]
    /\ stored.status \in {"streaming", "completed", "stopped", "failed"}
    /\ page.status \in {"streaming", "completed", "stopped", "failed"}

\* What the page shows after each of the events, when it shows parts before them.
Shown(parts, events) ==
    LET shown[n \in 0 .. Len(events)] ==
            IF n = 0 THEN parts ELSE ApplyPart(shown[n - 1], events[n])
    IN  shown

\* The page rebuilds the parts from events alone, by other rules than the server
\* (a delta behind a tool would open a part the server does not have).  However
\* the consumers interleave, the page's parts and the events on their way make up
\* the server's parts, ids, order, texts and states.
PageMirrors ==
    LET events == wire \o queue IN
    handler.pc \in {"relaying", "completing"} /\ page.status # "stopped" =>
        Shown(page.parts, events)[Len(events)] = state.parts

\* The deltas of a type among the first n.
SaidOf(type, n) == FlattenSeq([d \in 1 .. n |-> IF run.deltas[d].type = type THEN <<d>> ELSE <<>>])

\* Parts are told apart by their ids, only the last one ever grows, a tool runs only
\* while its call is awaited, and together the parts hold every delta in its order.
\* A reply that is stored as completed is whole: all the run said, every call with
\* what it came to, and no part that the page would show as still going on.
PartsInOrder ==
    LET parts == state.parts IN
    /\ \A i, j \in DOMAIN parts : parts[i].id = parts[j].id => i = j
    /\ \A i \in DOMAIN parts : Streams(parts[i]) => i = Len(parts)
    /\ \A i \in DOMAIN parts : parts[i].status = "running" =>
            parts[i].id = <<"tool", consumer["tools"].n>>
    /\ \A type \in TextTypes : TextOf(parts, type) = SaidOf(type, consumer["messages"].n)
    /\ state.text = SaidOf("text", consumer["messages"].n)
    /\ stored.status = "completed" =>
        /\ \A type \in TextTypes : TextOf(stored.parts, type) = SaidOf(type, Len(run.deltas))
        /\ stored.text = TextOf(stored.parts, "text")
        /\ \A c \in DOMAIN run.calls :
                \E i \in DOMAIN stored.parts :
                    /\ stored.parts[i].id = <<"tool", c>>
                    /\ stored.parts[i].status = IF run.calls[c].error THEN "error" ELSE "success"
        /\ \A i \in DOMAIN stored.parts : stored.parts[i].status \notin {"streaming", "running"}

\* The cards under a tool are the hotels of its payload, however the tool's server
\* wrapped that payload, and a citation leads to the source of its number, counted
\* over the calls in the order they were made whichever was answered first.
PayloadIsShown ==
    /\ \A c \in DOMAIN run.calls :
          LET call == run.calls[c] IN
          CardsOf(call) = IF call.hotel /\ ~call.error THEN HotelsIn(call.payload) ELSE <<>>
    /\ LET all == FlattenSeq([c \in DOMAIN run.calls |-> SourcesOf(run.calls[c])]) IN
       stored.status = "completed" =>
          \A i \in DOMAIN stored.parts :
             LET text == stored.parts[i].text
                 notes == Annotations(text, stored.sources)
             IN
             /\ \A k \in DOMAIN notes :
                   notes[k].source = all[run.deltas[text[notes[k].at]].cites]
             /\ {notes[k].at : k \in DOMAIN notes} =
                   {k \in DOMAIN text : run.deltas[text[k]].cites \in DOMAIN all}

\* Stopping loses nothing that could be read already: what the page shows after a
\* stop begins the text that is kept.
StopKeepsWhatWasRead ==
    page.status = "stopped" /\ stored.status = "stopped" => IsPrefix(page.text, stored.text)

\* Every turn that is relayed is settled, one whose consumers fail or whose page stops
\* included, unless a cancellation hits an await that nothing guards (Vanish); and a
\* page that did not stop its turn ends up showing what is stored.
TurnSettles ==
    <>[](\/ handler.pc = "gone"
         \/ /\ stored.status # "streaming"
            /\ \/ page.status = "stopped"
               \/ page.status # "streaming" /\ page.parts = stored.parts)

\* A stored part has a status its schema allows, for the row is validated when it is
\* read: ChatToolPart.status is "running", "success" or "error".
StoredIsReadable ==
    \A i \in DOMAIN stored.parts :
        stored.parts[i].type = "tool" => stored.parts[i].status \in {"running", "success", "error"}
=============================================================================
