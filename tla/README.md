# Formal models of the AI travel agent

A web application in which signed-in users chat with a travel agent (LangGraph), stop, regenerate and switch its replies, buy
chats through Alipay, connect third-party MCP servers by OAuth, listen to replies and dictate questions. This directory holds
TLA+ models of its protocols, the TLC configurations that check them on small instances, and TLAPS proofs of the theorems that
hold for every instance. Line numbers below refer to the files under `src/`.

Run a configuration with `tlc -config <run>.cfg <MC module>.tla`, a proof module with `tlapm <module>.tla`. `PROJECT.json` lists
the runs, the source lines behind every definition, the hazards, the findings, the theorems, and for every checked property a
mutation of the code that violates it.

## 1. The system

The back end (`backend/app`, FastAPI) is **one asyncio process** over one SQLite file, which it calls synchronously: code between
two real awaits is atomic, and everything that spans an await interleaves with every other request. Exceptions to "one thread" are
the speech synthesiser and recogniser, whose libraries call back from threads of their own. The front end (`frontend/src`, React)
keeps its own copies of messages, voice sessions and payments, and drops requests when the user navigates. Outside are the model
provider, LangGraph's SQLite checkpointer, MCP servers with their authorisation servers, Alipay, DashScope and the mail server.

| component (source) | state | operations | hard behaviour | what makes it correct | status |
|---|---|---|---|---|---|
| **Chat turns** `agent/service.py`, `agent/checkpoints.py`, `memory/sqlite_store.py`, `api/chat.py`, `api/sessions.py` | rows of sessions, messages and versions; the thread's checkpoints; a stable checkpoint; one coroutine per turn | invoke, regenerate, switch, delete; the clean-up of a stopped or failed turn | clean-ups race the next turn; two tabs; the client goes away; the process dies; status and text are stored twice | a message shows its version; versions stay numbered; completed replies are kept; faults leave nothing half in memory; streaming ends | `ChatTurns`, `AssistantVersions` |
| **Payment and quota** `payment/`, `api/alipay_payment.py`, `subscribe-result-page.tsx` | orders, quota rows with a date, the result page's polling | create order, notice, query, consume; poll, retry, leave | notices repeat, reorder, stray and stop; the day changes lazily; answers of an earlier polling | credit once; only for money received; acknowledge only what is settled; the page tells the truth and ends | `Payment`, `QuotaLedger` |
| **Connectors and agent cache** `connectors/`, `agent/runtime.py`, `mcp/client.py` | one row per user and connector, OAuth states, a version of all credentials, cached agents | start, call-back, disconnect, refresh and assemble at a chat turn | handlers await servers with a row they read before; refresh tokens that are accepted once; a cache that outlives credentials | status and tokens agree; a state serves once; no connection is lost for no reason; the agent is the user's and current | `Connectors` |
| **Stream events and parts** `agent/streaming.py`, `presentation.py`, `cards.py`, `service.py`, `use-chat-agent.ts` | the parts of the message, on the server and on the page; the queue between two consumers and the relay; sources | text, reasoning and tool events, seal, complete, fail, cancel; the page's fold | the two consumers of a run are paced apart; tools of a step run together; a page stops while parts go on growing | the page's parts are the server's; parts in order and closed; cards and citations are those of the payload; a stop loses nothing that was read | `StreamParts`, `ToolPayloads` |
| **Speech synthesis** `speech/service.py`, `object_store.py`, `api/speech.py` | a job per version: spool, readers, flags; the stored asset | start, bind, append, finish, cancel, play; the worker's and the synthesiser's call-backs | three threads; the last reader deletes the spool; a worker that dies | what is ready is whole; readers hear every byte; nobody waits for ever; nothing is left behind | `SpeechJobs` |
| **Voice input** `speech/stt.py`, `api/stt_ws.py`, `use-voice-input.ts`, `use-voice-utterances.ts` | recogniser session, socket, page state, queue of utterances | press, release, cancel; start, finish, drain; settle; enqueue, send | transcript, done, error, two time-outs and close race for one utterance while the next is recorded | the bar is true; every utterance ends; each transcript is sent once, in order, or dropped with its thread | `VoiceSession` |
| **Sign-in codes** `auth/`, `api/auth.py`, `auth-page.tsx`, `auth.context.tsx` | codes, accounts, tokens, mails, the page's signed-in state | send, verify, me; load, refresh, sign out | stored before the mail is sent; account and code are separate commits; two browsers; late answers | a code opens once and works until it expires or is replaced; the page shows the owner of its token; who goes on asking gets in | `EmailCodes` |
| Chat page `use-chat-agent.ts` | the page's messages, the open session, the stream in progress | send, stop, regenerate, open or start a session, events | late events and late answers after a switch | what is shown is the open session's | not modelled as a whole (section 8) |
| Database bootstrap `db/` | migrations applied and recorded | run at startup | crash between a script and its record | applied once, in order | not modelled (section 8) |
| MCP tools, models, prompts, tools, middleware | per request | discovery, calls | isolated failures | - | not modelled: no shared state or protocol of their own |
| Other pages, UI primitives | forms, toasts, location | - | - | - | not modelled: rendering |

Interactions: `api/chat.py` consumes quota, then starts a turn; the turn asks Connectors for the user's tools, the runtime for an
agent, streams its events through the parts into the store, and hands finished text to speech. A turn that names no connector runs
with the common agent. ChatTurns, Payment and Connectors share no state in the code beyond this order of calls, so they are
separate modules: what a turn does to the thread does not depend on which tools it had, and Payment's chat request ends where the
turn begins. ChatTurns keeps of the page only its guard (a tab streams one turn at a time). The places where two components do meet
are kept on both sides: SpeechJobs has the turn that starts, feeds, finishes or cancels the job and the deletion of its session;
StreamParts has the rows `stream_invoke` stores; VoiceSession has the page's guard on sending, a turn in flight and the sign-in.

## 2. Modules

| module | what it is |
|---|---|
| `AssistantVersions` | abstract: what the reader of a thread is promised (a message shows one of its numbered versions as it is; a version settles once, by its own request; a failed regeneration brings back what it replaced) |
| `ChatTurns` | one thread, all its turns, tabs, faults; refines `AssistantVersions` |
| `MCChatTurns` | its surroundings for TLC |
| `ChatTurnsProofs` | seven theorems, the refinement among them |
| `QuotaLedger` | abstract: what payment promises (a purchase is credited once, a day brings an allowance, a chat is refused only at zero) |
| `Payment` | orders, notices, quota rows, the result page; refines `QuotaLedger` |
| `MCPayment`, `PaymentProofs` | surroundings; six theorems, the refinement among them |
| `Connectors` | one connector, its users, handlers and chat turns, the cache of agents |
| `MCConnectors`, `ConnectorsProofs` | surroundings; five theorems |
| `SpeechJobs` | the speech of one version: turn, job, three threads, listeners, deletion, restart |
| `MCSpeechJobs`, `SpeechJobsProofs` | surroundings; four theorems |
| `ToolPayloads` | pure: what the code reads out of a tool's payload, beside what it is to read |
| `StreamParts`, `MCStreamParts` | one streamed turn: two consumers, relay, store, page; its surroundings |
| `StreamPartsProofs` | five theorems |
| `DataLemmas` | lemmas about sequences and sums, and induction over the naturals as a fact about sets |
| `EmailCodes`, `MCEmailCodes`, `EmailCodesProofs` | sign-in by mailed codes; surroundings; three theorems |
| `VoiceSession` | push-to-talk: bar, microphone, socket, session, recogniser, the queue of utterances |
| `MCVoiceSession`, `VoiceSessionProofs` | surroundings; three theorems |

Every module follows the same conventions. A handler that awaits is split at its awaits: one action per stretch of code, a record
per coroutine (`task`, `start`, `turn`, `poll`) with its place and the locals it carries over. A row is a record, NULL a reserved
value. Texts, tokens and checkpoints are numbers in the order they are made; a token is told from another only by its owner. What
a behaviour may meet (how many tabs, whether the server fails, ...) is a constant record, `env`, chosen in `Init` from a set: one
run then examines several *surroundings*, each with only as much freedom as its question needs. The operators that a comment calls
"Mutant" are plausible bugs kept next to the code they imitate; nothing in the specification uses them.

### 2.1 ChatTurns

| TLA+ | code |
|---|---|
| `BeginInvoke`, `BeginRegenerate` | the synchronous head of `stream_invoke` / `stream_regenerate`: the guard, the rows of the turn |
| `Start` | the first read of the graph: the checkpoint is chosen and its memory loaded |
| `StepHalfway`, `Answer` | the graph saves a checkpoint half way through, and one with the answer |
| `ReadLatest`, `Complete` | the two awaits at the end: read the newest checkpoint, then write the rows and move `stable_checkpoint_id` |
| `Stop`, `Fail` | the `except BaseException` branch: the roll-back target is computed |
| `Prune`, `SettleInvoke`, `SettleRegenerate` | `rollback_thread`, then the rows |
| `Vanish` | a turn that ends beyond its clean-up: closed at the yield of `turn.start` or cancelled at the read of the newest checkpoint (both outside `try`), or cancelled again inside the clean-up |
| `Switch`, `DeleteSession`, `PurgeThread` | the session endpoints; the checkpoints are deleted after the rows |
| `Crash` | the process goes; nothing is repaired at startup |

A turn makes exactly one version, so turns name versions and, for a first reply, messages. Checkpoints are kept as the sequence of
exchanges an agent that starts from them remembers, each whole or cut off. The checkpointer itself is LangGraph's and is external.

The refinement mapping of `ImplementsVersions` reads each version off its row and off the index it was given, what is shown off the
row of its message, the requests made off the coroutines, and `open` off those that still may write, with the version each would
restore. Sessions, checkpoints, stages and tabs disappear: reading, answering and pruning are stutters, `Complete` and `SettleInvoke`
a `Settle`, `SettleRegenerate` a `Discard`, `Vanish` and `Crash` a `Leave`. A late end of a turn
whose session is gone is a `Leave` as well: the code's updates then meet no row. What the abstract specification leaves open is which
surroundings let which request come when, and that anything settles at all.

### 2.2 Payment

`Notify` is the whole endpoint: `handle_notify` with its tests of application, amount and status, the `BEGIN IMMEDIATE` settlement
and the answer; a notice it does not accept stays with Alipay and comes again. `ConsumeFree`, `ConsumeBought` and `Exhausted` are
the three outcomes of `consume_quota`. Alipay's side (`Pay`, `Finish`, `TimeOut`, `Refund`, `Stray`, `GiveUp`) is external. The
result page's polling is a closure: `poll` has a record per closure, `page.run` is the one that counts, `ReceiveStale` is the
answer that finds itself outdated.

The refinement mapping reads `allowance` off a row lazily: the limit, when the date column is not today, else what the counter
leaves. `NextDay` changes no row and yet is the ledger's `NewDay`; a notice that creates a row with an empty date is a `Settle`.

### 2.3 Connectors

| TLA+ | code |
|---|---|
| `BeginStart`, `Discover`, `Register`, `StartFails` | `start_authorization`, split at the discovery and at the dynamic registration |
| `Callback`, `Denied`, `Exchange`, `ExchangeFails` | `complete_authorization`, split at the exchange |
| `Disconnect` | `disconnect` |
| `OpenBare`, `OpenWithToken`, `OpenUnrenewable`, `OpenRefreshing` | `list_user_active_connections` up to its first await, by the state of the row |
| `Grant` (server), `Refreshed`, `RefreshFails` | `_ensure_fresh_token`; the answer may be lost after the server granted it |
| `Assemble`, `AssembleFails` | `user_connector_tools` after the tools are listed, and `build_user_agent` |
| `FallsDue`, `StateExpires` | the clock |
| `Restart` | the handlers, the version and the cache are gone; the rows stay |

One connector is modelled: several connectors of a user are independent rows, refreshed side by side with isolated failures. Rows
and the cached signature differ per connector, so nothing is lost but the number of rows. That the authorisation server binds a
code to its client is kept (an authorisation page opened for one client, a code exchanged under another); that it binds refresh
tokens to one is not, because only overlapping starts can change a row's client, and those are examined where the server may refuse
anyway.

### 2.4 SpeechJobs

| TLA+ | code |
|---|---|
| `StartGeneration`, `BindGeneration`, `AppendText`, `FinishGeneration`, `CancelGeneration`, `DiscardVersion`, `Vanish` | what a turn calls, in its order |
| `CreateRunner` ... `CompleteFails` | `_run_generation_worker`, split where the other threads can come between |
| `on_data`, `on_complete`, `on_error` | call-backs of the synthesiser's thread; what they schedule on the loop waits in `posted` |
| `RunComplete`, `RunFinalize`, `RunMarkFailed`, `Finalize`, `PutFile`, `Stored`, `NotStored` | the loop: completion, `_finalize_generation` split at the copy in the thread pool |
| `GetUrl`, `Play`, `Fetch`, `Admit`, `OpenSpool`, `ReadChunk`, `ReadNothing`, `AtEnd`, `Again`, `Leaves` | playback: promise, admission, the loop of `_iter_generating_audio` |
| `BeginDelete`, `DeleteFiles`, `Shutdown`, `Restart` | the session is deleted; the service and the process end |

A version has one job and jobs meet only in dictionaries keyed by job and version, so one job is modelled. Audio is counted in
chunks; the address' signature, its expiry and formats are left out.

### 2.5 StreamParts and ToolPayloads

A *run* is data: deltas and tool calls with the step each belongs to. `ReadDelta` is one iteration of the message consumer with all it
appends, seals and puts; `StartTool` and `FinishTool` one of the tool consumer before and after its await; `ConsumerEnds`,
`ConsumerRaises` and `Relay` are the rest of `stream_agent_run`; `PageReceives` is the page's fold of an event (`ApplyPart`), `PageStops`
its abort. The model begins where the relay does, behind `turn.start`. The endings of `stream_invoke` are split at their awaits
(`Phases`):

| TLA+ | code |
|---|---|
| `RelayEnds`, `Complete` | the relay ends without an exception; `get_latest_checkpoint_id` is awaited, outside the `try`; then the row is written |
| `Fail` | a consumer raised, and the relay ends with its exception |
| `Cancel`, `CancelConsumers`, `Closed` | a cancellation inside the relay, whose `finally` awaits the consumers; a second one, which ends them; the relay is through |
| `Close` | `GeneratorExit` at an event that was relayed: no await of the consumers, outcome "failed" |
| `Settle` | after `Fail`, `Close` or `Closed`, behind the await of `rollback_thread`: the row of an interrupted turn |
| `Vanish` | a cancellation at `get_latest_checkpoint_id` or at `rollback_thread`, which nothing catches: the row stays streaming, as in `ChatTurns` |

`TurnSettles` excludes the last, and only it: the code has nothing that would settle such a row. `PageMirrors` is a small
refinement: the fold of the events on their way, applied to the page's parts, yields the server's. `ToolPayloads` holds the pure
functions of `cards.py` and of the citations, and beside them what they should compute (`HotelsIn`, by places in the tree), compared
over several hundred payload trees and proved the same for all (§4). Left out: the normalisation of a hotel's fields and of prices, and blank deltas.

### 2.6 EmailCodes

The handlers call blocking code, so the loop runs one request at a time and only a crash separates its commits: `SaveCode` then
`MailSent` or `MailFails`; `AcceptCode` (the account) then `IssueToken` (code consumed, token signed). `RefuseSend` and `RefuseCode`
are the refusals in the order of the tests. A page has at most one request of each kind (`slot`); `Load`, `Refreshed`,
`logout` and `TakeVerified` are `auth.context.tsx`. The person is *diligent* (asks with the address of the plan, types the newest code that
came, asks again when refused); every departure from that, of person, mail, network, clock or server, is a slip, and `plan.slips` bounds them. Hashes
stand for what they hash. Time is its events: a code expires, a token expires, a cool-down ends.

### 2.7 VoiceSession

| TLA+ | code |
|---|---|
| `press`, `releaseTap`, `release`, `cancel`, `Unmount` | the bar |
| `openAudioPipeline`, `MicrophoneFails`, `onopen`, `onDead`, `resolveTimeout`, `handleSessionMessage` | the browser's call-backs; each settles through `settleSession`, `failActive` or `abortWithError` |
| `Accept`, `start`, `finish`, `CloseConversation`, `CloseSocket` | `stt_websocket` and `DashScopeSttSession`, split at their awaits |
| `Drafted`, `Completed`, `SessionFinished`, `RecogniserErrs`, `RecogniserCloses` | the recogniser's call-backs; the recogniser itself is external |
| `drain`, `SwitchThread`, `Turn`, `Type`, `SignOut` | the queue of utterances and what the page does meanwhile |

What the server queues for a page is forwarded in order, so its queue and the socket are one sequence. Of a text only its extent is
kept (nothing, a draft, the whole), of the bubbles that wait for their transcripts only which they are. Audio content and the silence check that rebuilds the audio graph are left out.

## 3. Runs

| run | surroundings | bounds | what it shows |
|---|---|---|---|
| `turns` | one tab with every event; two tabs with failures, switches, regenerations the page would not offer; two tabs that stop and regenerate; a long undisturbed conversation; one tab with faults only | 3, 3, 3, 5, 4 turns | type; `MirrorsCurrent`, `VersionsNumbered`, the refinement `ImplementsVersions`, `RegeneratesFromParent`; `MemoryIsHistory` for the tab with faults only and the undisturbed one |
| `turns_settle` | one tab that stops, fails, regenerates | 3 turns | `EventuallySettled` under fairness |
| `turns_rollback` | one tab that stops | 4 turns | violation, see 6 |
| `payment` | two users who order and chat over two days; stray notices and a deaf Alipay; a result page | 2 orders, 2 prices, limit 1, 2 days, 2 pollings of 2 attempts | conservation, refinement, `AcknowledgedIsSettled`, `PageTellsTheTruth`, `PollingEnds` |
| `connectors` | quiet with rotating, kept and no refresh tokens; overlapping requests with faults; one at a time with faults; two users | 2 starts, 2 turns, 5 tokens, 4 versions, a cache of 1 | `StatusMatchesTokens`, `StaysConnected`, `AgentIsCurrent`, `StateUsedOnce`, `TurnsGoOn` |
| `connectors_agents` | two users | as in the .cfg | violation, see 6 |
| `speech` | calm with two listeners; prompt reads with a store that fails; a turn that stops; a synthesiser that fails; everything at once with one listener | 1 text, 2 chunks | `ReadyIsWhole`, `RefusedForCause`, `ReaderHearsAll`, `SettledAndCleaned`, `EveryoneEnds` |
| `parts` | two or three deltas of both types, none to two tools at once or in turn, a consumer that raises, a page that stops, a turn cut off at any await; some hundred payloads in four wrappings | `MCStreamParts` | `PageMirrors`, `PartsInOrder`, `PayloadIsShown`, `StopKeepsWhatWasRead`, `TurnSettles` |
| `parts_stopped` | one tool, a page that stops | | violation, see 6 |
| `codes` | two addresses with or without an account, and a misspelt one; their owner at two browsers with one slip, or at one browser with two | 2 codes, 2 slips | `CodeOpensOnce`, `ShownIsOwner`, `SignsIn` |
| `voice` | two utterances with, in turn: a recogniser that hears nothing, errs, or is slow; a thread that changes; refused and broken sockets; a microphone denied and a page left; typing and a sign-out | 2 utterances, 2 threads | `BarIsTrue`, `SentAsResolved`, `EveryUtteranceEnds` |
| `voice_thread` | one utterance, a thread that changes | | violation, see 6 |

Why these bounds are enough. A race in this code needs a handler that is suspended, and another that changes what it read; two
turns make every such pair, and the third shows what a later one finds (the damage of a roll-back, the newest checkpoint, a
switched version). Version indices end at 3 by `MAX_ASSISTANT_VERSIONS`, so an original and two regenerations reach the limit, and
the long conversation reaches it with two messages. In Payment a second user and a second order are the other of every pair; a
daily limit of 1 reaches both edges (first free chat, first refused one) on both days; two pollings are an outdated and a current
one. In Connectors two turns are two refreshes in a row or at once, and a cache of one agent is cleared by the second. Five tokens
are one per authorisation and refresh plus one. Where a bound could itself cause a refusal (`MaxTokens`: a server that issues no
more), the property that it would disturb is conditioned on the bound not being reached. A second chunk is the one that arrives
while the first is read, a second listener the one that is there when the other leaves. Three deltas are one before, between and
behind two tools, which is every place where a part can be opened, continued or sealed. A second code and a second browser are
what makes an earlier code stale; two slips are a failure and another in the recovery from it. Of two utterances the second is
recorded while the first is transcribed, and is queued while the first is being sent; a third would only wait behind it. `CHECK_DEADLOCK FALSE` is set everywhere,
because every model may stop: its users have made all requests the bound allows.

Fairness. `ChatTurns!FairSpec`: asyncio runs every ready task, and a run of the graph ends (tool calls time out, the graph has a
recursion limit), so a turn's next own step is weakly fair, and so is the purge that follows a deletion; users, faults and lost
clean-ups owe nothing. `Payment!FairSpec`: a query is answered or fails and a browser timer fires; notices are *not* fair.
`Connectors!FairSpec`: the HTTP and MCP clients have time-outs, so each opening of a turn moves on; the authorisation flows, which
wait for a person, are not fair. `SpeechJobs!FairSpec`: threads and the loop run, reads return, a reader takes what it is given;
failures owe nothing. `StreamParts!FairSpec`: the run goes on, the loop runs ready coroutines, the page reads its stream; nothing
has to raise, stop, cancel, close or vanish, so a page that is gone may be noticed at any of the turn's awaits or never. `EmailCodes!FairSpec`: the loop, the delivery of mail that is not lost, and the diligent person, who is what `SignsIn`
is about. `VoiceSession!FairSpec`: browser, server and recogniser answer, a closed socket is noticed, nobody holds the bar for ever;
`drain` is strongly fair, because the effect runs after every render and a turn's end is one, so typing cannot outrun it for ever.

## 4. Theorems

Proved by `tlapm` for all constants that satisfy the modules' assumptions (`TurnsAssumption`, `EnvironmentsAssumption`;
`NoOrderIsNone`, `PricesAssumption`, `LimitsAssumption`, `SurroundingsAssumption`; `BoundsAssumption`, `SurroundingsAssumption`;
`NormalAssumption`, `NoneAssumption`, `PlansAssumption`; `BoundsAssumption`, `SurroundingsAssumption`; `UtterancesAssumption`,
`ThreadsAssumption`, `SettingsAssumption`; `RunsAssumption`), which TLC evaluates on every run.

**ChatTurnsProofs**: `TypeCorrect`, `ShowsCurrent` (`MirrorsCurrent`), `NumbersVersions`, `KeepsSettled`,
`VersionsImplemented` (`ImplementsVersions`), `ForgetsReplaced` (`RegeneratesFromParent`), `RemembersTheHistory`. The inductive invariant has three layers, each kept by a step from states that satisfy those before it:

1. `TypeInv`: types, and that no checkpoint has an id that was not handed out.
2. `RowsInv`: a request not made yet has left no trace; a running turn is the only writer of its version, which is still streaming,
   and its message (if the row is still there) shows it only together with its version's status; without a session there are no
   messages; and the two properties themselves. They are not inductive alone: that a late completion writes both copies or neither
   is known only because no other turn can have settled the version.
3. `MemoryInv`: a checkpoint that serves as parent remembers only turns requested before the message it serves. As checkpoints are
   pruned and never rewritten this survives every roll-back, and a regeneration that starts there cannot know the reply it replaces.

`KeepsSettled` is an action property: a version that has settled is neither rewritten nor thrown away while its session exists. It
follows from layer 2, since every action that writes a version writes a running turn's.

`VersionsImplemented` maps `Init` to that of `AssistantVersions` and every action to one of its steps or a stutter. Layers 1 and 2 do
not suffice: they allow a turn whose version is gone while its message is still there, and its completion would then make the
message show a version that does not exist. `Attached` excludes it: as long as the message of a running turn exists, so does the version the turn writes,
and the request that opened the message was made. It is kept because a version is thrown away only by its own turn, which ends with
it, and by the deletion of the session, which takes the message too. The rest is one lemma per abstract action (`ReaderAsks`,
`ReaderAsksAgain`, `ReaderSettles`, `ReaderDiscards`, ...), which says how the rows before and after are read (`ReadOne`,
`ReadVersions`, `OpenLess`). `NextIndexFresh` supplies what `Again` asks of a number: it is one more than one the message has, and
more than all of them, though regenerations that failed may have left gaps, so that it is not how many there are.

`RemembersTheHistory` (`MemoryIsHistory`) adds three invariants that hold in the surroundings the property names. `AloneInv`: with one
tab that neither stops a turn nor deletes the session, turns do not overlap, a turn under way writes the last message, and an id is of
one checkpoint. `FaultyInv`, for the tab that meets faults: half an exchange may lie in the checkpoints of a turn that was cut off, but
no later turn starts there, since the stable checkpoint, the results of the replies and the roots are whole (`StartsWhole`), and one
of them is there whenever anything is saved (`StartsKept`); a run without a base would otherwise load the newest checkpoint. That a
roll-back keeps this is the surprise: as the persisted result is then the NULL of the placeholder, it empties the whole thread (section
6), and `TurnsWhole` has to say so. `UndisturbedInv`: the memory of a base contains the replies shown before the message as a
subsequence (`ParentsRecall`, `TurnsRecall`), a turn appends its own (`RecalledMore`), and switches and regenerations change only the
last reply shown, which no memory has to recall yet (`OnlyLastChanges`). TLC confirmed the three as invariants of one tab with every
fault, with faults only, and undisturbed.

**PaymentProofs**: `TypeCorrect`, `OnlyBoughtIsPaid`, `LedgerImplemented`. The invariant `IInv` adds to the types that a waiting
notice is about an existing order and, if it would settle, that Alipay has the money (a notice is believed because of what it says,
so what it says must be true); that an order without row has no bill; that the counter of today is within the limit (otherwise
"exhausted" would not mean an allowance of zero); and that a timer belongs to a polling with no query out.
`LedgerImplemented` maps `Init` to the ledger's and every action to a ledger step or a stutter. `AcknowledgedOnlyIfSettled`
(`AcknowledgedIsSettled`) shows that the three ways in which a notice ends (settled, refused, given up) leave either the order paid
or a notice that comes again; giving up needs an Alipay that the property excludes. `PageIsTruthful` (`PageTellsTheTruth`) needs
`TabInv`: an answer under way to a polling is true of the order it was asked about, and the newest polling asks about the page's own
order. Older closures may ask about another, which is why the page compares runs before it believes one. `NothingGrantedTwice`
(`Conservation`) is about a sum over the settled orders of a user: there may be any number of orders, so `BoughtTrue` adds that those
placed are finitely many. That `MapThenSumSet` takes its elements in an order of its own choosing does not matter (`AnyOrder`), and a
settled order adds what it is worth (`SumGrows`).

**ConnectorsProofs**: `TypeCorrect`, `StatusIsTrue` (`StatusMatchesTokens`), `StatesUsedOnce`, `AgentStaysCurrent`. The first three
rest on what waiting handlers hold: a user who may send requests, a token once the server has answered, a saved state only while
its authorisation is offered. `AgentStaysCurrent` needs more: cached agents carry versions up to the present, those of the present
version carry the row's token, and so does a turn about to ask for its agent; every change of the token changes the version, and
that no other handler changes it in between is `OneAtATime`, the invariant behind "requests of a user do not overlap".
`ConnectionsLast` (`StaysConnected`) is about rotation: the row must hold the refresh token the server will accept next, or a turn
under way must. `RInv` says who holds it at each await (`RefreshesOwned`, `TurnsHoldRefresh`), that it is alive at the server
(`RefreshesAlive`), and that a client is known wherever one will be needed (`ClientsKnown`).

**SpeechJobsProofs**: `TypeCorrect`, `ReadyOnlyWhole` (`ReadyIsWhole`), `NoIdleRefusal` (`RefusedForCause`), `ListenersHearAll`
(`ReaderHearsAll`). What the call-backs of the synthesiser's thread leave on the loop is the hard part: `PostsTrue` says that each
call waiting there has its cause, and that the finaliser is asked for once and before it runs; `StoreTrue` then ties the stages of
the finaliser to the file and the row, so that a key is never of a file that is not there; `AssetTrue` says that a promise
("generating") is backed by a job, a failure or a restart, and `SpoolTrue` that the spool outlives everyone admitted in time.
`NothingYet`, `CompletedTrue` and `AfterRestart` cover the two ends. The exceptions `ReaderHearsAll` makes are the reader admitted
after the end and the empty read overtaken by the last chunk; section 6 describes both.

**VoiceSessionProofs**: `TypeCorrect`, `BarStaysTrue` (`BarIsTrue`), `SentInOrder` (`SentAsResolved`). `PageTrue` is about each
utterance alone (a timer runs only after the end was asked for, a settled one has its microphone off), `BarHolds` about the one the
bar holds. A transcript or `done` must not settle an utterance that is still spoken; that none arrives is `ServerTrue`: the
recogniser is told to finish only by the page, and both come only after that. `TalkTrue` puts every transcript in exactly one of
the queue, the chat, the sign-in flow and what was dropped, and relates the order of the queue and the chat to the order in which
transcripts came, which the deletion of a queued one and the sending of a handed-over one both disturb.

**EmailCodesProofs**: `TypeCorrect`, `CodesOpenOnce` (`CodeOpensOnce`), `OwnerIsShown` (`ShownIsOwner`). The invariant `IInv` has
a part for the tables, the loop, the requests and the pages. A code opens once because the row being verified is unconsumed and the
newest of its address and purpose when the loop takes the request, and nothing but the loop touches the tables until the token is
signed; so `LoopInv` says that the loop's request names a row and that its page, if there still is one, waits for it. The token row
that is appended refers to a row of codes, which `SlotsInv` carries to the request and `PagesInv` to the browser. That the newest row
exists at all (`Greatest`) comes from the well-foundedness of the naturals. `OwnerIsShown` adds `ShownInv`: unless a sign-in or
sign-out overtook it, a `/me` under way asks about the token that its page has stored. A reload does not end such a mismatch (the
stored user is shown until `/me` answers); no instance small enough for `codes` gets that far.

**StreamPartsProofs**: `TypeCorrect`, `MirrorsTheServer` (`PageMirrors`), `PartsAreInOrder` (`PartsInOrder`), `StopKeepsTheText`
(`StopKeepsWhatWasRead`), `PayloadsAreShown` (`PayloadIsShown`), for runs of any length. None of the properties is inductive. The page's parts are the server's only
once *all* events under way are applied, so an action that appends an event says nothing of the middle; `MirrorTrue` therefore
follows the parts along the wire and then along the queue (`Leads`), and says of each stage that it shows no more text than the
server has. That is also what a page that stops needs, since it may stop anywhere on the wire. An appended event must not
disturb what the earlier ones do to the page's parts: each of its three forms (a part that is added, one that is continued, those
that are sealed before it) has a lemma that says how the page folds it (`AddsPart`, `ContinuesPart`), and they need the parts to be
named uniquely and only the last to stream, which is `PartsTrue`; the counters of the names make a new name fresh. `ToolsTrue`
ties a running part to the call its consumer awaits. `SaidTrue` says that the parts of a type, joined, are the deltas of that type
read so far, by induction over the flattened sequence. The completed row is whole because the relay ends with two sentinels:
`EndsTrue` counts those relayed and those in the queue against the consumers that are gone, and `OverTrue` says that, unless the turn
was cut off, a consumer that went without raising had read everything; nothing runs on while the newest checkpoint is awaited. While the
thread is rolled back the consumers of a closed stream do run on, but what fails stores a notice and no text, so `StopTrue` need only
follow a stop.

`PayloadsAreShown` has two halves. The cards need no run: `CardsAre` says for every payload (`IsPayload`: as wide and as deep as one
likes, not wrapped already) and each of the four wrappings that the traversal of `cards.py` finds what `HotelsIn` defines by places.
`Read` stands between them. `ExtractIs` and `WrappedReads` bring the code's side to it: the code flattens, filters and then takes the
first list that has hotels, which is the first of what is first in each part (`FirstOfFlatten`, `FirstKept`), so the traversal can be
taken apart level by level, two deep, as the code has it. `ReferenceIs` brings the definition's side to it: the places with hotels lie
under the items that have some (`FoundIn`), in the order of the items (`BeforeIs`), and that order has one least element
(`FirstPlace`). The citations need an invariant, `SourcesTrue`: while tools are read, the sources are those of the calls that are done,
counted up, so `Complete` stores those of every call; `NotesAre` follows the numbers of a text to them. The modules write `Only`
for the filter of a sequence because the prover cannot expand the library's `SelectSeq`.

The recursive functions of the model (`Shown`, and `FlattenSeq` and `MapThenSumSet` of the community modules) exist and have their
values by induction over the naturals; `DataLemmas!Induction` has it for a set instead of an operator, so that it can be instantiated.

## 5. Only model-checked

Liveness (`EventuallySettled`, `PollingEnds`, `TurnsGoOn`, `TurnSettles`, `SignsIn`, `EveryUtteranceEnds`, `EveryoneEnds`, and the
liveness in `SettledAndCleaned`): outside the prover's reach.

## 6. Where the code departs from its documentation

- `turns_rollback`: `get_latest_persisted_result_checkpoint_id` asks for the result of the version shown *now*, which is NULL while
  the latest message streams or was stopped; the roll-back then prunes the whole thread. `agent/checkpoints.py:24` promises the
  latest valid checkpoint.
- `connectors_agents`: the signature of a cached agent is the global version and the connector ids. Two users with the same connectors
  share it, so the second chats with the agent built with the first one's token, although the comment at `connectors/service.py:85`
  says that the user is part of the signature. `AgentIsCurrent` is therefore stated for one user.

- `parts_stopped`: a stop writes "stopped" into tool parts too, a status `ChatToolPart` does not know (`schemas/chat.py:109`). The row is
  validated when it is read, so the session with that message can no longer be opened.
- `voice_thread`: an utterance still being transcribed when the thread changes is sent into the new thread, though the queue is
  emptied "lest it be sent to the wrong one" (`use-voice-utterances.ts:6`, `docs/voice-input.md:206`).

Met while modelling. None of these is a run; where a property would be violated by one, its statement excludes the case and says so.

*Chat turns.* Pressing stop frees the page at once: a turn sent before the clean-up has run starts from the stopped turn's half
exchange (`docs/agent-implementation-retrospective.md:208` says a stop does not pollute the session). With two tabs a failed
regeneration "restores" the other tab's placeholder (`memory/sqlite_store.py:1001` says the last stable version). A first reply has
no parent checkpoint, so regenerating it continues from the newest one, its own answer included. Deleting a session during a turn
leaves checkpoints without a row. After a crash, streaming rows stay.

*Payment.* A chat that fails is not refunded; an order whose notices Alipay gave up stays pending.

*Connectors.* A refresh under way when the user disconnects saves its tokens afterwards, and the row is connected again
(`docs/connectors-prd.md:176`). Two overlapping starts each register a client, and the authorisation opened with the first then fails
(`docs/connectors-prd.md:155`). A late call-back is accepted until the next start purges expired states.

*Speech.* A session deleted while its last reply is being synthesised leaves the file in the object store (`agent/service.py:169`
says the files are deleted). A stopped first reply keeps an asset that says "generating" without a job. An empty reply is marked
failed only in memory. After a synthesiser's error the job leaves the dictionaries while its worker still waits for the sentinel.
Cancelling sets no event, so readers of a cancelled job wait on. A reader admitted before the clean-up that begins after it hears
nothing; one whose empty read is on its way back when the last chunk and the end arrive misses that chunk.

*Stream parts.* `_unwrap_mcp_text_blocks` unwraps one layer, where its docstring says recursively; citations are not unwrapped at all. A
page that aborts leaves its tool parts running. A consumer that raises during a cancellation makes the outcome "failed", and so does a stream that is closed
instead of cancelled. A cancellation at `service.py:464` or `service.py:501` leaves the row streaming.

*Sign-in.* A 401 to a `/me` asked with an old token removes the token of a newer sign-in; a late success shows the earlier user
(`auth.context.tsx:95`). Two browsers that ask in turn can void each other's codes for ever, which is why asking elsewhere is a
slip. `expires_at` is computed before the mail is sent.

*Voice.* Transcripts are sent in the order they come, not in the order they were spoken (`docs/voice-input.md:45`). A `done` that
arrives during recording would settle the session and leave the bar stuck; the recogniser, in manual mode, finishes only after the
commit, so the model has none. The error of a failed `start` is forwarded by nobody.

## 7. Plan

Done: `ChatTurns` with `AssistantVersions`, `Payment` with `QuotaLedger`, `Connectors`, `SpeechJobs`, `StreamParts` with
`ToolPayloads`, `EmailCodes`, `VoiceSession`. Every safety and action property of a passing run is proved, both refinements among them.
What would come next: abstract specifications of the other components; their properties are stated directly so far.

## 8. Not modelled

- **Chat page as a whole.** Its fold of stream events is in `StreamParts`, its guard on sending in `ChatTurns` and `VoiceSession`.
  The rest, loading sessions while a stream of another runs, lives in a React reducer and in refs whose order is React's rendering; a model
  of it would have to guess that order.
- **Database bootstrap.** A straight line of statements with one crash point each (`db/bootstrap.py:201`: `executescript` commits at
  once, the version row follows), executed once before anything else runs: it is read more surely than modelled.
- **MCP client, models, prompts, tools, middleware, location.** No state beyond a request; failures are isolated.
- **Schemas, settings, routing, rendering.** Data definitions and layout.
- Inside modelled components: renaming, feedback and previews of sessions, PKCE and metadata formats of connectors, the signature of
  playback addresses, the content of audio, prices and fields of hotel cards.
