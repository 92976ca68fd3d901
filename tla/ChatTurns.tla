------------------------------ MODULE ChatTurns ------------------------------
(***************************************************************************)
(* The life of the chat turns of ONE conversation thread: the rows of      *)
(* chat_sessions, chat_messages and assistant_message_versions, the        *)
(* LangGraph checkpoints of the thread, and the request handlers           *)
(* (stream_invoke, stream_regenerate, switch, delete) that change them.    *)
(*                                                                         *)
(* The back end is one asyncio process.  Code between two real awaits is   *)
(* one action; the synchronous SQLite calls never interleave.  A turn is   *)
(* one streaming request.  It creates exactly one assistant version, so a  *)
(* turn also names that version, and the turn that created a message also  *)
(* names the message and its original (index 1) version.                   *)
(***************************************************************************)
EXTENDS Naturals, Sequences, FiniteSets

CONSTANTS
    MaxTurns,      \* how many streaming requests are ever made (bounds a run)
    Environments   \* the surroundings to examine; a behaviour runs in one of them

EventNames ==
    {"stop",        \* the page drops the stream of its turn
     "fail",        \* an exception ends a turn
     "vanish",      \* a turn ends beyond the reach of its clean-up
     "crash",       \* the process dies and is started again
     "switch", "regenerate", "delete",
     "api"}         \* a regeneration the page would not offer

ASSUME TurnsAssumption == MaxTurns \in Nat \ {0}
\* tabs: how many tabs talk to the thread, each streaming one turn at a time.
ASSUME EnvironmentsAssumption ==
    Environments \subseteq [tabs: Nat, turns: 0 .. MaxTurns, events: SUBSET EventNames]

\* Ids are opaque: a turn is named by its number in the order of the requests.
Turn   == 1 .. MaxTurns
NoTurn == 0         \* NULL where a version id is expected
MaxVersions == 3    \* ChatSQLiteStore.MAX_ASSISTANT_VERSIONS
NoCkpt == 0         \* NULL checkpoint id; real ids grow with time and start at 1

VARIABLES
    session,    \* does the chat_sessions row exist
    stable,     \* chat_sessions.stable_checkpoint_id
    messages,   \* the assistant messages of the thread, in creation order
    shown,      \* per message: current_version_id, status and text of chat_messages
    versions,   \* the rows of assistant_message_versions
    ckpts,      \* the saved checkpoints of the thread
    lastCkpt,   \* the last checkpoint id handed out
    task,       \* per turn: where its coroutine stands, and its locals
    purges,     \* delete_session calls still waiting for adelete_thread
    env         \* the surroundings of this behaviour; never changes

rows  == <<session, messages, shown, versions>>
saver == <<ckpts, lastCkpt>>
vars  == <<session, stable, messages, shown, versions, ckpts, lastCkpt, task, purges,
          env>>

-----------------------------------------------------------------------------
(* Data *)

Status == {"streaming", "completed", "stopped", "failed"}

\* Who wrote a text and how far it got: nothing yet, a whole answer, or what an
\* interrupted turn leaves (the streamed prefix or the fixed notice).
Texts == [by: Turn \cup {NoTurn}, kind: {"empty", "answer", "remains"}]
EmptyText == [by |-> NoTurn, kind |-> "empty"]
Text(t, kind) == [by |-> t, kind |-> kind]

\* One exchange as the agent remembers it; ~whole is a turn cut off half way
\* (a tool call without its answer, or a question without a reply).
Exchange == [turn: Turn, whole: BOOLEAN]
Ckpt == [id: Nat \ {NoCkpt}, root: BOOLEAN, mem: Seq(Exchange)]

VersionRow == [msg: Turn \cup {NoTurn}, index: 0 .. MaxVersions, status: Status,
               text: Texts, parent: Nat, result: Nat]
NoVersion == [msg |-> NoTurn, index |-> 0, status |-> "streaming",
              text |-> EmptyText, parent |-> NoCkpt, result |-> NoCkpt]

MessageRow == [current: Turn \cup {NoTurn}, status: Status, text: Texts]
NoMessage == [current |-> NoTurn, status |-> "streaming", text |-> EmptyText]

Streaming   == {"announced", "started", "halfway", "answered", "completing"}
CleaningUp  == {"pruning", "settling"}
TaskRow == [pc: Streaming \cup CleaningUp \cup {"idle", "ended"},
            msg: Turn \cup {NoTurn},      \* the message this turn writes
            base: Nat,                    \* the checkpoint it was told to run from
            fallback: Turn \cup {NoTurn}, \* the version shown before a regeneration
            mem: Seq(Exchange),           \* what the run loaded from its base
            ckpt: Nat,                    \* rollback target, then result checkpoint
            outcome: {"stopped", "failed"},
            left: BOOLEAN]                \* the client has closed the stream
IdleTask == [pc |-> "idle", msg |-> NoTurn, base |-> NoCkpt, fallback |-> NoTurn,
             mem |-> <<>>, ckpt |-> NoCkpt, outcome |-> "failed", left |-> FALSE]

-----------------------------------------------------------------------------
(* Queries *)

Exists(v) == v \in Turn /\ versions[v].msg # NoTurn
IsMessage(m) == \E i \in DOMAIN messages : messages[i] = m
LatestMessage == messages[Len(messages)]
VersionsOf(m) == {v \in Turn : versions[v].msg = m}

Live(t) == task[t].pc \in Streaming \cup CleaningUp
\* A tab whose turn failed waits for the error event, which follows the clean-up;
\* one that pressed stop has dropped the stream already and may send again.
Busy(t) == Live(t) /\ ~task[t].left
Allowed(event) == event \in env.events
\* The next request, from a tab that has no stream open.
Request(t) ==
    /\ task[t].pc = "idle" /\ t <= env.turns
    /\ \A u \in Turn : u < t => task[u].pc # "idle"
    /\ Cardinality({u \in Turn : Busy(u)}) < env.tabs

CkptIds == {c.id : c \in ckpts}
LatestCkpt ==
    IF ckpts = {} THEN NoCkpt
    ELSE CHOOSE i \in CkptIds : \A j \in CkptIds : j <= i
RootCkpt ==
    LET roots == {c.id : c \in {d \in ckpts : d.root}} IN
    IF roots = {} THEN NoCkpt ELSE CHOOSE i \in roots : \A j \in roots : i <= j
\* What the saver loads for an id: an id that was pruned loads an empty state.
MemoryAt(id) ==
    IF \E c \in ckpts : c.id = id THEN (CHOOSE c \in ckpts : c.id = id).mem ELSE <<>>

\* The result checkpoint of the version the latest message shows.  The query joins
\* on current_version_id, so a message whose version is gone is passed over, and
\* a version that is still streaming answers NULL.
Persisted ==
    LET joined == {i \in DOMAIN messages : Exists(shown[messages[i]].current)} IN
    IF joined = {} THEN NoCkpt
    ELSE LET i == CHOOSE k \in joined : \A j \in joined : j <= k
         IN  versions[shown[messages[i]].current].result

\* Mutant: falls back to the newest checkpoint instead of the root.
EffectiveNewest == IF stable # NoCkpt THEN stable
                   ELSE IF Persisted # NoCkpt THEN Persisted
                   ELSE LatestCkpt

Effective == IF stable # NoCkpt THEN stable
             ELSE IF Persisted # NoCkpt THEN Persisted
             ELSE RootCkpt

-----------------------------------------------------------------------------
Init ==
    /\ session = FALSE
    /\ stable = NoCkpt
    /\ messages = <<>>
    /\ shown = [t \in Turn |-> NoMessage]
    /\ versions = [t \in Turn |-> NoVersion]
    /\ ckpts = {}
    /\ lastCkpt = 0
    /\ task = [t \in Turn |-> IdleTask]
    /\ purges = 0
    /\ env \in Environments

(***************************************************************************)
(* Opening a turn: everything up to the yield of turn.start.               *)
(***************************************************************************)
Placeholder(m, index, parent) ==
    [msg |-> m, index |-> index, status |-> "streaming", text |-> EmptyText,
     parent |-> parent, result |-> NoCkpt]

Announce(t, m, base, fallback) ==
    /\ shown' = [shown EXCEPT ![m] =
                    [current |-> t, status |-> "streaming", text |-> EmptyText]]
    /\ task' = [task EXCEPT ![t] =
                    [IdleTask EXCEPT !.pc = "announced", !.msg = m,
                                     !.base = base, !.fallback = fallback]]

BeginInvoke(t) ==
    /\ Request(t)
    /\ session' = TRUE
    /\ stable' = IF stable # NoCkpt THEN stable ELSE Persisted
    /\ messages' = Append(messages, t)
    /\ versions' = [versions EXCEPT ![t] = Placeholder(t, 1, Effective)]
    /\ Announce(t, t, Effective, NoTurn)
    /\ UNCHANGED <<ckpts, lastCkpt, purges, env>>

NextIndex(m) ==
    (CHOOSE k \in 1 .. MaxVersions :
        /\ \A v \in VersionsOf(m) : versions[v].index <= k
        /\ \/ k = 1
           \/ \E v \in VersionsOf(m) : versions[v].index = k) + 1

\* The page's view of it may be old, but a completed original stays completed.
CanRegenerate(m) == Exists(m) /\ versions[m].status = "completed"

\* Mutant: the limit of versions is not enforced.
BeginRegenerateUnlimited(t) ==
    /\ Allowed("regenerate") /\ Request(t) /\ messages # <<>>
    /\ LET m == LatestMessage IN
        /\ CanRegenerate(m)
        /\ versions' = [versions EXCEPT ![t] =
                            Placeholder(m, NextIndex(m), versions[m].parent)]
        /\ Announce(t, m, versions[m].parent, shown[m].current)
    /\ UNCHANGED <<session, stable, messages, ckpts, lastCkpt, purges, env>>

\* Mutant: runs from the stable checkpoint, as a new question does.
BeginRegenerateFromStable(t) ==
    /\ Allowed("regenerate") /\ Request(t) /\ messages # <<>>
    /\ LET m == LatestMessage IN
        /\ CanRegenerate(m) /\ NextIndex(m) <= MaxVersions
        /\ versions' = [versions EXCEPT ![t] =
                            Placeholder(m, NextIndex(m), versions[m].parent)]
        /\ Announce(t, m, Effective, shown[m].current)
    /\ UNCHANGED <<session, stable, messages, ckpts, lastCkpt, purges, env>>

BeginRegenerate(t) ==
    /\ Allowed("regenerate")
    /\ Request(t)
    /\ messages # <<>>
    /\ LET m == LatestMessage IN
        /\ CanRegenerate(m) \/ Allowed("api")
        /\ Exists(m)
        /\ NextIndex(m) <= MaxVersions
        /\ versions' = [versions EXCEPT ![t] =
                            Placeholder(m, NextIndex(m), versions[m].parent)]
        /\ Announce(t, m, versions[m].parent, shown[m].current)
    /\ UNCHANGED <<session, stable, messages, ckpts, lastCkpt, purges, env>>

(***************************************************************************)
(* The agent run.  LangGraph loads the named checkpoint, or the newest one *)
(* of the thread when no id is given, and saves a checkpoint per step.     *)
(***************************************************************************)
Save(root, mem) ==
    /\ lastCkpt' = lastCkpt + 1
    /\ ckpts' = ckpts \cup {[id |-> lastCkpt + 1, root |-> root, mem |-> mem]}

Start(t) ==
    LET from == IF task[t].base # NoCkpt THEN task[t].base ELSE LatestCkpt IN
    /\ task[t].pc = "announced"
    /\ Save(from = NoCkpt, MemoryAt(from))
    /\ task' = [task EXCEPT ![t].pc = "started", ![t].mem = MemoryAt(from)]
    /\ UNCHANGED <<rows, stable, purges, env>>

StepHalfway(t) ==
    /\ task[t].pc = "started"
    /\ Save(FALSE, Append(task[t].mem, [turn |-> t, whole |-> FALSE]))
    /\ task' = [task EXCEPT ![t].pc = "halfway"]
    /\ UNCHANGED <<rows, stable, purges, env>>

Answer(t) ==
    /\ task[t].pc = "halfway"
    /\ Save(FALSE, Append(task[t].mem, [turn |-> t, whole |-> TRUE]))
    /\ task' = [task EXCEPT ![t].pc = "answered"]
    /\ UNCHANGED <<rows, stable, purges, env>>

(***************************************************************************)
(* The successful end: read the newest checkpoint (an await), then         *)
(* complete the version and advance the stable checkpoint.                 *)
(***************************************************************************)
ReadLatest(t) ==
    /\ task[t].pc = "answered"
    /\ task' = [task EXCEPT ![t].pc = "completing", ![t].ckpt = LatestCkpt]
    /\ UNCHANGED <<rows, stable, saver, purges, env>>

\* Mutant: updates the version the message shows instead of the turn's own.
WriteTurnToShown(t, status, text, result) ==
    LET m == task[t].msg
        v == shown[m].current
    IN
    /\ versions' = IF session /\ IsMessage(m) /\ Exists(v)
                   THEN [versions EXCEPT ![v].status = status, ![v].text = text,
                                         ![v].result = result]
                   ELSE versions
    /\ shown' = IF session /\ IsMessage(m)
                THEN [shown EXCEPT ![m] =
                        [current |-> v, status |-> status, text |-> text]]
                ELSE shown

\* complete_assistant_message: the version, then the message, each by its id.
WriteTurn(t, status, text, result) ==
    LET m == task[t].msg IN
    /\ versions' = IF session /\ Exists(t)
                   THEN [versions EXCEPT ![t].status = status, ![t].text = text,
                                         ![t].result = result]
                   ELSE versions
    /\ shown' = IF session /\ IsMessage(m)
                THEN [shown EXCEPT ![m] =
                        [current |-> t, status |-> status, text |-> text]]
                ELSE shown

\* The coroutine is gone, and its locals with it.
Ended == [IdleTask EXCEPT !.pc = "ended"]
End(t) == task' = [task EXCEPT ![t] = Ended]

\* Mutant: the stable checkpoint is not advanced.
CompleteUnadvanced(t) ==
    /\ task[t].pc = "completing"
    /\ WriteTurn(t, "completed", Text(t, "answer"), task[t].ckpt)
    /\ End(t)
    /\ UNCHANGED <<session, stable, messages, saver, purges, env>>

Complete(t) ==
    /\ task[t].pc = "completing"
    /\ WriteTurn(t, "completed", Text(t, "answer"), task[t].ckpt)
    /\ stable' = IF session /\ IsMessage(task[t].msg) THEN task[t].ckpt ELSE stable
    /\ End(t)
    /\ UNCHANGED <<session, messages, saver, purges, env>>

(***************************************************************************)
(* The interrupted end: the except block of either handler.  A turn whose  *)
(* client dropped the stream is cancelled ("stopped"), or closed by the    *)
(* generator's finalizer ("failed" like any other exception).              *)
(***************************************************************************)
\* Mutant: except Exception, which a cancellation passes by.
InterruptExceptionOnly(t, outcome, left) ==
    /\ task[t].pc \in Streaming \ {"completing"}
    /\ stable' = IF session /\ outcome = "failed" THEN Persisted ELSE stable
    /\ task' = [task EXCEPT ![t] =
                IF outcome = "failed"
                THEN [@ EXCEPT !.pc = "pruning", !.ckpt = Persisted,
                               !.outcome = outcome, !.left = left]
                ELSE Ended]
    /\ UNCHANGED <<rows, saver, purges, env>>

Interrupt(t, outcome, left) ==
    /\ task[t].pc \in Streaming \ {"completing"}
    /\ stable' = IF session THEN Persisted ELSE stable
    /\ task' = [task EXCEPT ![t].pc = "pruning", ![t].ckpt = Persisted,
                            ![t].outcome = outcome, ![t].left = left]
    /\ UNCHANGED <<rows, saver, purges, env>>

Stop(t) == Allowed("stop") /\ \E o \in {"stopped", "failed"} : Interrupt(t, o, TRUE)
Fail(t) == Allowed("fail") /\ Interrupt(t, "failed", FALSE)

\* prune_after: no target deletes the whole thread.
Prune(t) ==
    /\ task[t].pc = "pruning"
    /\ ckpts' = {c \in ckpts : task[t].ckpt # NoCkpt /\ c.id <= task[t].ckpt}
    /\ task' = [task EXCEPT ![t].pc = "settling"]
    /\ UNCHANGED <<rows, stable, lastCkpt, purges, env>>

SettleInvoke(t) ==
    /\ task[t].pc = "settling"
    /\ task[t].msg = t
    /\ WriteTurn(t, task[t].outcome, Text(t, "remains"), NoCkpt)
    /\ End(t)
    /\ UNCHANGED <<session, stable, messages, saver, purges, env>>

\* Mutant: the version and its fallback are swapped in the call.
SettleRegenerateSwapped(t) ==
    LET m == task[t].msg
        f == task[t].fallback
    IN
    /\ task[t].pc = "settling" /\ m # t
    /\ versions' = IF session /\ f \in Turn THEN [versions EXCEPT ![f] = NoVersion]
                   ELSE versions
    /\ End(t)
    /\ UNCHANGED <<session, stable, messages, shown, saver, purges, env>>

\* Mutant: the fallback is taken to be completed.
SettleRegenerateAsCompleted(t) ==
    LET m == task[t].msg
        f == task[t].fallback
        kept == [versions EXCEPT ![t] = NoVersion]
    IN
    /\ task[t].pc = "settling" /\ m # t
    /\ versions' = IF session THEN kept ELSE versions
    /\ shown' = IF session /\ f \in Turn /\ IsMessage(m) /\ kept[f].msg = m
                THEN [shown EXCEPT ![m] = [current |-> f, status |-> "completed",
                                           text |-> kept[f].text]]
                ELSE shown
    /\ End(t)
    /\ UNCHANGED <<session, stable, messages, saver, purges, env>>

\* discard_assistant_version: delete the row; restore the fallback if it is there.
SettleRegenerate(t) ==
    LET m == task[t].msg
        f == task[t].fallback
        kept == [versions EXCEPT ![t] = NoVersion]
    IN
    /\ task[t].pc = "settling"
    /\ m # t
    /\ versions' = IF session THEN kept ELSE versions
    /\ shown' = IF session /\ f \in Turn /\ IsMessage(m) /\ kept[f].msg = m
                THEN [shown EXCEPT ![m] = [current |-> f, status |-> kept[f].status,
                                           text |-> kept[f].text]]
                ELSE shown
    /\ End(t)
    /\ UNCHANGED <<session, stable, messages, saver, purges, env>>

\* The coroutine ends outside the reach of the except block: the stream is dropped
\* at turn.start, at the await that reads the newest checkpoint, or a second
\* cancellation hits the await of the clean-up.
Vanish(t) ==
    /\ Allowed("vanish")
    /\ task[t].pc \in {"announced", "completing"} \cup CleaningUp
    /\ End(t)
    /\ UNCHANGED <<rows, stable, saver, purges, env>>

-----------------------------------------------------------------------------
(* Requests on the thread as a whole, and a crash of the process. *)

Switch(v) ==
    /\ Allowed("switch")
    /\ messages # <<>>
    /\ versions[v].msg = LatestMessage
    /\ shown' = [shown EXCEPT ![LatestMessage] =
                    [current |-> v, status |-> versions[v].status,
                     text |-> versions[v].text]]
    /\ stable' = versions[v].result
    /\ UNCHANGED <<session, messages, versions, saver, task, purges, env>>

DeleteSession ==
    /\ Allowed("delete")
    /\ session
    /\ session' = FALSE
    /\ stable' = NoCkpt
    /\ messages' = <<>>
    /\ shown' = [t \in Turn |-> NoMessage]
    /\ versions' = [t \in Turn |-> NoVersion]
    /\ purges' = purges + 1
    /\ UNCHANGED <<saver, task, env>>

PurgeThread ==
    /\ purges > 0
    /\ purges' = purges - 1
    /\ ckpts' = {}
    /\ UNCHANGED <<rows, stable, lastCkpt, task, env>>

Crash ==
    /\ Allowed("crash")
    /\ \E t \in Turn : Live(t)
    /\ task' = [t \in Turn |-> IF Live(t) THEN Ended ELSE task[t]]
    /\ purges' = 0
    /\ UNCHANGED <<rows, stable, saver, env>>

-----------------------------------------------------------------------------
Advance(t) ==
    \/ Start(t) \/ StepHalfway(t) \/ Answer(t)
    \/ ReadLatest(t) \/ Complete(t)
    \/ Prune(t) \/ SettleInvoke(t) \/ SettleRegenerate(t)

Next ==
    \/ \E t \in Turn :
        \/ BeginInvoke(t) \/ BeginRegenerate(t)
        \/ Start(t) \/ StepHalfway(t) \/ Answer(t)
        \/ ReadLatest(t) \/ Complete(t)
        \/ Stop(t) \/ Fail(t)
        \/ Prune(t) \/ SettleInvoke(t) \/ SettleRegenerate(t)
        \/ Vanish(t)
        \/ Switch(t)
    \/ DeleteSession
    \/ PurgeThread
    \/ Crash

Spec == Init /\ [][Next]_vars

\* asyncio runs every ready task, and a run ends by itself: tool calls time out
\* and the graph has a step limit.  The user and the faults owe nothing.
FairSpec == Spec /\ (\A t \in Turn : WF_vars(Advance(t))) /\ WF_vars(PurgeThread)
-----------------------------------------------------------------------------
(* Properties *)

TypeOK ==
    /\ session \in BOOLEAN
    /\ stable \in Nat
    /\ messages \in Seq(Turn)
    /\ shown \in [Turn -> MessageRow]
    /\ versions \in [Turn -> VersionRow]
    /\ ckpts \subseteq Ckpt
    /\ lastCkpt \in Nat
    /\ task \in [Turn -> TaskRow]
    /\ purges \in Nat
    /\ env \in Environments

\* chat_messages repeats the status and text of its current version, and five
\* statements update the two copies: whatever turns, switches and roll-backs
\* interleave, a message never shows a status or a text its version does not have.
MirrorsCurrent ==
    \A i \in DOMAIN messages :
        LET row == shown[messages[i]] IN
        Exists(row.current) =>
            /\ versions[row.current].msg = messages[i]
            /\ row.status = versions[row.current].status
            /\ row.text = versions[row.current].text

\* No roll-back, race or deletion strands a version row or costs a message its
\* original, which regeneration joins on, and no two versions share an index.
VersionsNumbered ==
    /\ \A v \in Turn : Exists(v) => IsMessage(versions[v].msg)
    /\ \A i \in DOMAIN messages :
        LET m == messages[i] IN
        /\ versions[m].msg = m /\ versions[m].index = 1
        /\ \A v, w \in VersionsOf(m) : versions[v].index = versions[w].index => v = w

\* A regeneration that was given the parent checkpoint of the original never has
\* an answer of the message it replaces in its memory.
RegeneratesFromParent ==
    \A t \in Turn : Live(t) /\ task[t].base # NoCkpt =>
        \A i \in DOMAIN task[t].mem :
            /\ task[t].mem[i].turn # task[t].msg
            /\ versions[task[t].mem[i].turn].msg # task[t].msg

\* An interrupted turn does not pollute the thread: no later turn finds half an
\* exchange in its memory.
NoHalfTurnLoaded ==
    \A t \in Turn : Live(t) =>
        \A i \in DOMAIN task[t].mem : task[t].mem[i].whole

\* What the agent remembers behind a completed reply holds, in order, the reply
\* shown for every earlier message.
HistoryRemembered ==
    \A i \in DOMAIN messages : \A v \in VersionsOf(messages[i]) :
        versions[v].status = "completed" =>
            /\ versions[v].result \in CkptIds
            /\ \E f \in [1 .. i -> DOMAIN MemoryAt(versions[v].result)] :
                /\ \A j, k \in 1 .. i : j < k => f[j] < f[k]
                /\ \A j \in 1 .. i :
                    MemoryAt(versions[v].result)[f[j]] =
                        [turn |-> IF j = i THEN v ELSE shown[messages[j]].current,
                         whole |-> TRUE]

\* The memory of the agent is the conversation.  As long as one tab never presses
\* stop, regenerates or deletes, no exception, lost clean-up or crash pollutes it; with
\* one tab and no interruption it is the history, whatever is regenerated and switched.
MemoryIsHistory ==
    env.tabs = 1 =>
        /\ env.events \subseteq {"fail", "vanish", "crash", "switch"} => NoHalfTurnLoaded
        /\ env.events \subseteq {"switch", "regenerate"} => HistoryRemembered

\* The rows of the tables and the coroutines, read as what a reader is promised:
\* an open request is a coroutine that has not ended, a version is a row that exists.
Reader == INSTANCE AssistantVersions WITH
    asked   <- {t \in Turn : task[t].pc # "idle"},
    open    <- {[turn |-> t, before |-> task[t].fallback] : t \in {u \in Turn : Live(u)}},
    thread  <- messages,
    version <- [v \in Turn |->
                    IF Exists(v)
                    THEN [of |-> versions[v].msg, number |-> versions[v].index,
                          status |-> versions[v].status, text |-> versions[v].text]
                    ELSE [of |-> NoTurn]]

\* Whatever turns, switches, deletions, stops and crashes interleave, the tables
\* implement the promise: versions are numbered on, settle once, by their own turn
\* only, are discarded only while streaming, and are shown as they are.
ImplementsVersions == Reader!Spec

\* Every message that is streaming settles or is deleted.
EventuallySettled ==
    \A m \in Turn :
        (IsMessage(m) /\ shown[m].status = "streaming")
            ~> (~IsMessage(m) \/ shown[m].status # "streaming")

\* A roll-back goes back to the newest valid checkpoint: a reply that is shown as
\* completed keeps the checkpoint from which the conversation can go on.
CompletedIsResumable ==
    \A i \in DOMAIN messages :
        LET v == shown[messages[i]].current IN
        Exists(v) /\ versions[v].status = "completed" => versions[v].result \in CkptIds
=============================================================================
