------------------------------ MODULE SpeechJobs ------------------------------
(***************************************************************************)
(* The speech of ONE assistant version (app/speech/service.py): the job    *)
(* that is started with the turn, its worker thread, the call-backs of the *)
(* synthesiser's thread, the coroutine that stores the finished file, the  *)
(* people who listen, and the deletion of the session.  Jobs meet only in  *)
(* dictionaries keyed by job and by version, and a version has one job.    *)
(*                                                                         *)
(* Three kinds of threads take turns.  The event loop is atomic between    *)
(* awaits; what another thread tells it goes through call_soon_threadsafe  *)
(* and waits in `posted'.  Audio is counted in chunks.                     *)
(***************************************************************************)
EXTENDS Naturals, Sequences, FiniteSets

CONSTANTS
    Readers,            \* requests for playback
    MaxTexts,           \* bound: pieces of text the turn hands over
    MaxChunks,          \* bound: chunks of audio the synthesiser makes
    Surroundings        \* the circumstances to examine; a behaviour has one of them

ASSUME BoundsAssumption == IsFiniteSet(Readers) /\ MaxTexts \in Nat /\ MaxChunks \in Nat
\* Who listens; and what may happen: the turn is stopped, the session deleted, the service shut
\* down, the process killed; the synthesiser or its connection (synth), the worker by itself (worker: no synthesiser,
\* an exception or a time-out of the library) or the object store fails; lag: the loop is busy
\* with other things between a read in the thread pool and the reader that awaits it.
ASSUME SurroundingsAssumption ==
    Surroundings \subseteq [listeners: SUBSET Readers,
                            stops: BOOLEAN, deletes: BOOLEAN, shuts: BOOLEAN, kills: BOOLEAN,
                            synth: BOOLEAN, worker: BOOLEAN, store: BOOLEAN, lag: BOOLEAN]

VARIABLES
    turn,       \* the turn the speech belongs to
    job,        \* SpeechGenerationJob, and whether the two dictionaries know it
    texts,      \* job.text_queue
    worker,     \* the thread of _run_generation_worker
    synth,      \* external: the synthesiser's task
    spool,      \* the file in the spool directory
    written,    \* the chunks written to it
    posted,     \* what the other threads scheduled on the loop
    finalizer,  \* the coroutine _finalize_generation
    asset,      \* the row of assistant_version_speech_assets
    object,     \* the file in the object store: its chunks, or Absent
    deletion,   \* delete_session: its stage, and whether it collected the object key
    reader,     \* per request: its stage, and the chunks it has delivered
    up,         \* the process is alive
    env         \* the circumstances of this behaviour; never changes

threads == <<texts, worker, synth>>
files   == <<spool, written>>
world   == <<up, env>>
vars == <<turn, job, threads, files, posted, finalizer, asset, object, deletion, reader, world>>

SENTINEL == "end"
Absent == MaxChunks + 1

Job == [known: BOOLEAN,         \* in _jobs_by_id
        bound: BOOLEAN,         \* in _jobs_by_version_id
        cancelled: BOOLEAN, textEnqueued: BOOLEAN, textCompleted: BOOLEAN,
        failed: BOOLEAN,        \* error_message is not None
        completed: BOOLEAN,     \* completed_event; failed_event is set just before it
        finalizeStarted: BOOLEAN, cleanupRequested: BOOLEAN, cleanupDone: BOOLEAN]

Listening == {"awaiting", "reading", "empty"}   \* inside _iter_generating_audio
Reader == [pc: {"idle", "promised", "admitted", "fetching", "ended", "refused", "left"} \cup Listening,
           heard: 0 .. MaxChunks,
           late: BOOLEAN]       \* it began to listen after the clean-up

TypeOK ==
    /\ turn \in {"new", "started", "writing", "finished", "stopped", "vanished", "lost"}
    /\ job \in Job
    /\ texts \in Seq({"text", SENTINEL})
    /\ worker \in {"none", "creating", "taking", "completing", "ended"}
    /\ synth \in {"closed", "open", "finishing", "complete", "broken"}
    /\ spool \in {"none", "linked", "removed"} /\ written \in 0 .. MaxChunks
    /\ posted \in Seq({"complete", "finalize", "markFailed"})
    /\ finalizer \in {"none", "created", "copying", "copied", "uncopied", "ended"}
    /\ asset \in [status: {"none", "generating", "ready", "failed", "gone"}, key: BOOLEAN]
    /\ object \in 0 .. Absent
    /\ deletion \in [pc: {"none", "purging", "done", "lost"}, key: BOOLEAN]
    /\ reader \in [Readers -> Reader]
    /\ up \in BOOLEAN
    /\ env \in Surroundings

Init ==
    /\ turn = "new"
    /\ job = [known |-> FALSE, bound |-> FALSE, cancelled |-> FALSE, textEnqueued |-> FALSE,
              textCompleted |-> FALSE, failed |-> FALSE, completed |-> FALSE,
              finalizeStarted |-> FALSE, cleanupRequested |-> FALSE, cleanupDone |-> FALSE]
    /\ texts = <<>> /\ worker = "none" /\ synth = "closed"
    /\ spool = "none" /\ written = 0
    /\ posted = <<>>
    /\ finalizer = "none"
    /\ asset = [status |-> "none", key |-> FALSE]
    /\ object = Absent
    /\ deletion = [pc |-> "none", key |-> FALSE]
    /\ reader = [r \in Readers |-> [pc |-> "idle", heard |-> 0, late |-> FALSE]]
    /\ up = TRUE
    /\ env \in Surroundings

-----------------------------------------------------------------------------
(* Shared parts.                                                           *)

\* The job j after _cleanup_job, and what becomes of the spool file.
Cleaned(j) == [j EXCEPT !.known = j.known /\ j.cleanupDone, !.bound = j.bound /\ j.cleanupDone,
                        !.cleanupDone = TRUE]
Unlinked == IF ~job.cleanupDone /\ spool = "linked" THEN "removed" ELSE spool

active_readers == {r \in Readers : reader[r].pc \in Listening}

\* upsert_speech_asset writes nothing once the version's rows are gone.
Upserted(status, key) ==
    IF asset.status = "gone" THEN asset ELSE [status |-> status, key |-> key]

\* Mutant: a failure does not wake those who wait for the end.
MarkFailedSilently == job' = [job EXCEPT !.failed = TRUE] /\ UNCHANGED posted

\* mark_failed, called from any thread.
MarkFailed == /\ job' = [job EXCEPT !.failed = TRUE]
              /\ posted' = Append(posted, "complete")

-----------------------------------------------------------------------------
(* The turn (agent/service.py), on the event loop.                         *)

\* start_generation: the worker thread runs from here on.
StartGeneration ==
    /\ turn = "new" /\ turn' = "started"
    /\ job' = [job EXCEPT !.known = TRUE]
    /\ worker' = "creating"
    /\ UNCHANGED <<texts, synth, files, posted, finalizer, asset, object, deletion, reader, world>>

\* bind_generation follows at once, but the worker may already have failed.  (That the stream be
\* complete before it is bound cannot happen: there is no text yet.)
BindGeneration ==
    /\ turn = "started" /\ turn' = "writing"
    /\ job' = [job EXCEPT !.bound = TRUE]
    /\ asset' = Upserted(IF job.failed THEN "failed" ELSE "generating", FALSE)
    /\ UNCHANGED <<threads, files, posted, finalizer, object, deletion, reader, world>>

AppendText ==
    /\ turn = "writing"
    /\ job.known /\ ~job.cancelled
    /\ Len(SelectSeq(texts, LAMBDA t : t = "text")) < MaxTexts
    /\ job' = [job EXCEPT !.textEnqueued = TRUE]
    /\ texts' = Append(texts, "text")
    /\ UNCHANGED <<turn, worker, synth, files, posted, finalizer, asset, object, deletion, reader, world>>

\* The end of a turn whose rows are still there: finish_generation, which hands the whole reply
\* over when no piece of it was, unless the reply is empty too.
FinishGeneration(fallback) ==
    /\ turn = "writing" /\ turn' = "finished"
    /\ asset.status # "gone"
    /\ IF job.known /\ ~job.cancelled /\ ~job.textCompleted
       THEN LET whole == ~job.textEnqueued /\ fallback
            IN /\ texts' = texts \o (IF whole THEN <<"text">> ELSE <<>>) \o <<SENTINEL>>
               /\ job' = [job EXCEPT !.textEnqueued = @ \/ whole, !.textCompleted = TRUE]
       ELSE UNCHANGED <<texts, job>>
    /\ UNCHANGED <<worker, synth, files, posted, finalizer, asset, object, deletion, reader, world>>

\* Mutant: the worker is not told.
CancelWithoutSentinel ==
    IF job.known
    THEN /\ job' = Cleaned([job EXCEPT !.cancelled = TRUE, !.textCompleted = TRUE])
         /\ spool' = Unlinked /\ UNCHANGED texts
    ELSE UNCHANGED <<job, texts, spool>>

cancel_generation ==
    IF job.known
    THEN /\ job' = Cleaned([job EXCEPT !.cancelled = TRUE, !.textCompleted = TRUE])
         /\ texts' = IF job.textCompleted THEN texts ELSE Append(texts, SENTINEL)
         /\ spool' = Unlinked
    ELSE UNCHANGED <<job, texts, spool>>

\* The turn is stopped or fails, or finds at its end that its session was deleted.
CancelGeneration ==
    /\ turn = "writing" /\ turn' = "stopped"
    /\ env.stops \/ asset.status = "gone"
    /\ cancel_generation
    /\ UNCHANGED <<worker, synth, written, posted, finalizer, asset, object, deletion, reader, world>>

\* The turn is cancelled outside its `try': nothing is said to the job.
Vanish ==
    /\ env.stops
    /\ turn = "writing" /\ turn' = "vanished"
    /\ UNCHANGED <<job, threads, files, posted, finalizer, asset, object, deletion, reader, world>>

\* discard_assistant_version: a stopped regeneration loses its version, and the asset with it.
DiscardVersion ==
    /\ turn = "stopped" /\ asset.status # "gone"
    /\ asset' = [status |-> "gone", key |-> FALSE]
    /\ UNCHANGED <<turn, job, threads, files, posted, finalizer, object, deletion, reader, world>>

\* The application stops: shutdown cancels what is registered, also jobs whose turn is over.
Shutdown ==
    /\ env.shuts /\ job.known /\ turn # "started"
    /\ cancel_generation
    /\ UNCHANGED <<turn, worker, synth, written, posted, finalizer, asset, object, deletion, reader, world>>

-----------------------------------------------------------------------------
(* The worker thread.                                                      *)

\* _create_runner: the call-back object opens the spool file.
CreateRunner ==
    /\ worker = "creating" /\ worker' = "taking"
    /\ spool' = "linked"
    /\ UNCHANGED <<turn, job, texts, synth, written, posted, finalizer, asset, object, deletion, reader, world>>

\* The synthesiser cannot be created, before or after the file was opened.
CreateFails ==
    /\ env.worker
    /\ worker = "creating" /\ worker' = "ended"
    /\ spool' \in {spool, "linked"}
    /\ MarkFailed
    /\ UNCHANGED <<turn, texts, synth, written, finalizer, asset, object, deletion, reader, world>>

\* A piece of text is sent; the first one opens the connection.
SendText ==
    /\ worker = "taking" /\ texts # <<>> /\ Head(texts) = "text"
    /\ synth \in {"closed", "open"} /\ synth' = "open"
    /\ texts' = Tail(texts)
    /\ UNCHANGED <<turn, job, worker, files, posted, finalizer, asset, object, deletion, reader, world>>

\* streaming_call raises, because the task is broken or for a reason of its own.
SendFails ==
    /\ worker = "taking" /\ texts # <<>> /\ Head(texts) = "text"
    /\ synth = "broken" \/ env.worker
    /\ worker' = "ended" /\ texts' = Tail(texts)
    /\ MarkFailed
    /\ UNCHANGED <<turn, synth, files, finalizer, asset, object, deletion, reader, world>>

\* The sentinel: the end of the text.
TakeSentinel ==
    /\ worker = "taking" /\ texts # <<>> /\ Head(texts) = SENTINEL
    /\ texts' = Tail(texts)
    /\ \/ /\ job.cancelled
          /\ worker' = "ended" /\ UNCHANGED <<job, posted, synth>>
       \/ /\ ~job.cancelled /\ job.textEnqueued
          /\ worker' = "completing"
          /\ synth' = IF synth = "open" THEN "finishing" ELSE synth
          /\ UNCHANGED <<job, posted>>
       \/ /\ ~job.cancelled /\ ~job.textEnqueued
          /\ worker' = "ended" /\ MarkFailed /\ UNCHANGED synth
    /\ UNCHANGED <<turn, files, finalizer, asset, object, deletion, reader, world>>

\* streaming_complete returns once the task is over, or gives up before.
CompleteReturns ==
    /\ worker = "completing" /\ synth \in {"complete", "broken"}
    /\ worker' = "ended"
    /\ UNCHANGED <<turn, job, texts, synth, files, posted, finalizer, asset, object, deletion, reader, world>>

CompleteFails ==
    /\ worker = "completing" /\ worker' = "ended"
    /\ synth = "broken" \/ env.worker
    /\ MarkFailed
    /\ UNCHANGED <<turn, texts, synth, files, finalizer, asset, object, deletion, reader, world>>

-----------------------------------------------------------------------------
(* The synthesiser's thread, which calls back.                             *)

on_data ==
    /\ synth \in {"open", "finishing"} /\ written < MaxChunks
    /\ written' = written + 1
    /\ UNCHANGED <<turn, job, threads, spool, posted, finalizer, asset, object, deletion, reader, world>>

on_complete ==
    /\ synth = "finishing" /\ synth' = "complete"
    /\ posted' = posted \o (IF job.failed THEN <<"complete">> ELSE <<"complete", "finalize">>)
    /\ UNCHANGED <<turn, job, texts, worker, files, finalizer, asset, object, deletion, reader, world>>

\* Mutant: the failure stays in memory.
OnErrorUnrecorded ==
    /\ env.synth
    /\ synth \in {"open", "finishing"} /\ synth' = "broken"
    /\ job' = [job EXCEPT !.failed = TRUE]
    /\ posted' = Append(posted, "complete")
    /\ UNCHANGED <<turn, texts, worker, files, finalizer, asset, object, deletion, reader, world>>

on_error ==
    /\ env.synth
    /\ synth \in {"open", "finishing"} /\ synth' = "broken"
    /\ job' = [job EXCEPT !.failed = TRUE]
    /\ posted' = posted \o <<"complete", "markFailed">>
    /\ UNCHANGED <<turn, texts, worker, files, finalizer, asset, object, deletion, reader, world>>

-----------------------------------------------------------------------------
(* The event loop.                                                         *)

\* completed_event.set
RunComplete ==
    /\ posted # <<>> /\ Head(posted) = "complete"
    /\ posted' = Tail(posted)
    /\ job' = [job EXCEPT !.completed = TRUE]
    /\ UNCHANGED <<turn, threads, files, finalizer, asset, object, deletion, reader, world>>

\* The task of the finaliser is created.
RunFinalize ==
    /\ posted # <<>> /\ Head(posted) = "finalize"
    /\ posted' = Tail(posted)
    /\ finalizer' = "created"
    /\ UNCHANGED <<turn, job, threads, files, asset, object, deletion, reader, world>>

\* _mark_generation_failed
MarkGenerationFailed ==
    /\ asset' = Upserted("failed", FALSE)
    /\ job' = Cleaned([job EXCEPT !.failed = TRUE])
    /\ spool' = Unlinked

RunMarkFailed ==
    /\ posted # <<>> /\ Head(posted) = "markFailed"
    /\ posted' = Tail(posted)
    /\ MarkGenerationFailed
    /\ UNCHANGED <<turn, threads, written, finalizer, object, deletion, reader, world>>

\* Mutant: the job is withdrawn from listeners as soon as it is being stored.
FinalizeUnlisted ==
    /\ finalizer = "created"
    /\ IF job.failed \/ job.finalizeStarted
       THEN finalizer' = "ended" /\ UNCHANGED job
       ELSE finalizer' = "copying" /\ job' = [job EXCEPT !.finalizeStarted = TRUE, !.bound = FALSE]
    /\ UNCHANGED <<turn, threads, files, posted, asset, object, deletion, reader, world>>

\* _finalize_generation, up to the copy to the object store.
Finalize ==
    /\ finalizer = "created"
    /\ IF job.failed \/ job.finalizeStarted
       THEN finalizer' = "ended" /\ UNCHANGED job
       ELSE finalizer' = "copying" /\ job' = [job EXCEPT !.finalizeStarted = TRUE]
    /\ UNCHANGED <<turn, threads, files, posted, asset, object, deletion, reader, world>>

\* Mutant: the failure of the upload is swallowed.
PutFileUnchecked ==
    /\ finalizer = "copying" /\ finalizer' = "copied"
    /\ object' = IF spool = "linked" /\ ~env.store THEN written ELSE object
    /\ UNCHANGED <<turn, job, threads, files, posted, asset, deletion, reader, world>>

\* put_file in the thread pool.  It needs the spool file and the store.
PutFile ==
    /\ finalizer = "copying"
    /\ \/ spool = "linked" /\ object' = written /\ finalizer' = "copied"
       \/ (spool # "linked" \/ env.store) /\ finalizer' = "uncopied" /\ UNCHANGED object
    /\ UNCHANGED <<turn, job, threads, files, posted, asset, deletion, reader, world>>

\* Mutant: the spool goes at once.
StoredUnderReaders ==
    /\ finalizer = "copied" /\ finalizer' = "ended"
    /\ asset' = Upserted("ready", TRUE)
    /\ job' = Cleaned(job) /\ spool' = Unlinked
    /\ UNCHANGED <<turn, threads, written, posted, object, deletion, reader, world>>

\* The asset becomes ready; the spool goes, now or with its last reader.
Stored ==
    /\ finalizer = "copied" /\ finalizer' = "ended"
    /\ asset' = Upserted("ready", TRUE)
    /\ IF active_readers = {}
       THEN job' = Cleaned(job) /\ spool' = Unlinked
       ELSE job' = [job EXCEPT !.cleanupRequested = TRUE] /\ UNCHANGED spool
    /\ UNCHANGED <<turn, threads, written, posted, object, deletion, reader, world>>

NotStored ==
    /\ finalizer = "uncopied" /\ finalizer' = "ended"
    /\ posted' = Append(posted, "complete")
    /\ MarkGenerationFailed
    /\ UNCHANGED <<turn, threads, written, object, deletion, reader, world>>

-----------------------------------------------------------------------------
(* Listening.                                                              *)

UnchangedByReaders == UNCHANGED <<turn, threads, written, posted, finalizer, asset, object, deletion, world>>
Goes(r, pc) == reader' = [reader EXCEPT ![r].pc = pc]

\* build_playback_url: a token, if there is something to play.
GetUrl(r) ==
    /\ r \in env.listeners /\ reader[r].pc = "idle" /\ asset.status \in {"generating", "ready"}
    /\ Goes(r, "promised")
    /\ UnchangedByReaders /\ UNCHANGED <<job, spool>>

\* get_playback_target, when the token is used: the stream of a job, or the stored file.
Play(r) ==
    /\ reader[r].pc = "promised"
    /\ Goes(r, CASE asset.status = "generating" /\ job.bound -> "admitted"
                 [] asset.status = "ready" /\ asset.key -> "fetching"
                 [] OTHER -> "refused")
    /\ UnchangedByReaders /\ UNCHANGED <<job, spool>>

\* iter_file of the object store.
Fetch(r) ==
    /\ reader[r].pc = "fetching"
    /\ reader' = [reader EXCEPT ![r] = IF object = Absent THEN [@ EXCEPT !.pc = "refused"]
                                       ELSE [@ EXCEPT !.pc = "ended", !.heard = object]]
    /\ UnchangedByReaders /\ UNCHANGED <<job, spool>>

\* The head of _iter_generating_audio runs when the response asks for its first chunk.
Admit(r) ==
    /\ reader[r].pc = "admitted"
    /\ reader' = [reader EXCEPT ![r].pc = "awaiting", ![r].late = job.cleanupDone]
    /\ UnchangedByReaders /\ UNCHANGED <<job, spool>>

\* Mutant: nobody cleans up after the last reader.
LeavesOnly(r, pc) == Goes(r, pc) /\ UNCHANGED <<job, spool>>

\* Its `finally': the last reader cleans up if that was left to it.
Leaves(r, pc) ==
    /\ Goes(r, pc)
    /\ IF job.cleanupRequested /\ active_readers = {r}
       THEN job' = Cleaned(job) /\ spool' = Unlinked
       ELSE UNCHANGED <<job, spool>>

OpenSpool(r) ==
    /\ reader[r].pc = "awaiting" /\ spool = "linked"
    /\ Goes(r, "reading")
    /\ UnchangedByReaders /\ UNCHANGED <<job, spool>>

NoSpool(r) ==
    /\ reader[r].pc = "awaiting" /\ spool # "linked" /\ job.completed
    /\ Leaves(r, "ended")
    /\ UnchangedByReaders

\* Mutant: a chunk is counted whether or not there is one.
ReadBlindly(r) ==
    /\ reader[r].pc = "reading"
    /\ reader' = [reader EXCEPT ![r].heard = @ + 1]
    /\ UnchangedByReaders /\ UNCHANGED <<job, spool>>

ReadChunk(r) ==
    /\ reader[r].pc = "reading" /\ reader[r].heard < written
    /\ reader' = [reader EXCEPT ![r].heard = @ + 1]
    /\ UnchangedByReaders /\ UNCHANGED <<job, spool>>

\* The thread pool read nothing; the coroutine is resumed with this, perhaps after other things.
ReadNothing(r) ==
    /\ env.lag
    /\ reader[r].pc = "reading" /\ reader[r].heard = written
    /\ Goes(r, "empty")
    /\ UnchangedByReaders /\ UNCHANGED <<job, spool>>

\* Nothing more was read: the end, if the stream is complete; else the reader waits for an update
\* or one second, and reads again.
AtEnd(r) ==
    \/ reader[r].pc = "empty"
    \/ ~env.lag /\ reader[r].pc = "reading" /\ reader[r].heard = written

Stop(r) ==
    /\ AtEnd(r) /\ job.completed
    /\ Leaves(r, "ended")
    /\ UnchangedByReaders

Again(r) ==
    /\ reader[r].pc = "empty" /\ ~job.completed
    /\ Goes(r, "reading")
    /\ UnchangedByReaders /\ UNCHANGED <<job, spool>>

\* The listener goes away; a request that never asked for a chunk leaves no trace.
Disconnect(r) ==
    /\ reader[r].pc \in Listening \cup {"admitted"}
    /\ IF reader[r].pc = "admitted" THEN Goes(r, "left") /\ UNCHANGED <<job, spool>>
       ELSE Leaves(r, "left")
    /\ UnchangedByReaders

-----------------------------------------------------------------------------
(* Deletion of the session, and the end of the process.                    *)

\* delete_session: the keys are collected and the rows deleted at once, ...
BeginDelete ==
    /\ env.deletes /\ deletion.pc = "none" /\ turn \notin {"new", "started"}
    /\ deletion' = [pc |-> "purging", key |-> asset.key]
    /\ asset' = [status |-> "gone", key |-> FALSE]
    /\ UNCHANGED <<turn, job, threads, files, posted, finalizer, object, reader, world>>

\* ... the files after the checkpoints.
DeleteFiles ==
    /\ deletion.pc = "purging"
    /\ deletion' = [deletion EXCEPT !.pc = "done"]
    /\ object' = IF deletion.key THEN Absent ELSE object
    /\ UNCHANGED <<turn, job, threads, files, posted, finalizer, asset, reader, world>>

\* The process is killed and started again.  Rows and files stay; nothing looks at them.
Restart ==
    /\ env.kills /\ up /\ up' = FALSE
    /\ turn \notin {"new", "started"} /\ turn' = "lost"
    /\ job' = [job EXCEPT !.known = FALSE, !.bound = FALSE]
    /\ texts' = <<>> /\ worker' = "ended" /\ synth' = "broken" /\ posted' = <<>>
    /\ finalizer' = "ended"
    /\ deletion' = [deletion EXCEPT !.pc = IF @ = "purging" THEN "lost" ELSE @]
    /\ reader' = [r \in Readers |-> IF reader[r].pc \in Listening \cup {"admitted", "fetching"}
                                    THEN [reader[r] EXCEPT !.pc = "left"] ELSE reader[r]]
    /\ UNCHANGED <<files, asset, object, env>>

-----------------------------------------------------------------------------
TurnSteps ==
    \/ StartGeneration \/ BindGeneration \/ AppendText
    \/ \E fallback \in BOOLEAN : FinishGeneration(fallback)
    \/ CancelGeneration \/ Vanish \/ DiscardVersion \/ Shutdown
WorkerSteps ==
    \/ CreateRunner \/ CreateFails \/ SendText \/ SendFails \/ TakeSentinel
    \/ CompleteReturns \/ CompleteFails
LoopSteps ==
    \/ RunComplete \/ RunFinalize \/ RunMarkFailed \/ Finalize \/ Stored \/ NotStored
ReaderSteps(r) ==
    \/ Admit(r) \/ OpenSpool(r) \/ NoSpool(r) \/ ReadChunk(r) \/ ReadNothing(r) \/ Stop(r) \/ Again(r)

Next ==
    \/ TurnSteps \/ WorkerSteps \/ LoopSteps
    \/ on_data \/ on_complete \/ on_error
    \/ PutFile \/ BeginDelete \/ DeleteFiles
    \/ \E r \in Readers : GetUrl(r) \/ Play(r) \/ Fetch(r) \/ ReaderSteps(r) \/ Disconnect(r)
    \/ Restart

Spec == Init /\ [][Next]_vars

\* The threads and the loop run; the synthesiser answers streaming_complete, one way or the other;
\* the object store answers (its client has time-outs).  The turn, the listeners and the
\* deletion owe nothing, but once a reader's response has begun it is read.
FairSpec ==
    /\ Spec
    /\ WF_vars(WorkerSteps)
    /\ WF_vars(synth = "finishing" /\ (on_complete \/ on_error))
    /\ WF_vars(LoopSteps) /\ WF_vars(PutFile)
    /\ \A r \in Readers : WF_vars(ReaderSteps(r))

-----------------------------------------------------------------------------
(* Properties.                                                             *)

\* An asset that is shown as ready can be played: its file is in the object store, and it is the
\* whole of a stream that the synthesiser completed.
ReadyIsWhole ==
    asset.status = "ready" => asset.key /\ object = written /\ (up => synth = "complete")

\* A request that was promised something to play is refused only for a cause: the speech failed or
\* was cancelled, its version was deleted, or the process was restarted meanwhile.
RefusedForCause ==
    \A r \in Readers : reader[r].pc = "refused" =>
        job.failed \/ job.cancelled \/ asset.status = "gone" \/ ~up

\* Who listens to the end of a speech that succeeds hears all of it, also when it is finished and
\* its spool deleted meanwhile.  (Not if the request is admitted before and begins after the
\* clean-up, or if the end arrives while a read is on its way back: see the README.)
ReaderHearsAll ==
    \A r \in Readers :
        reader[r].pc = "ended" /\ ~reader[r].late /\ ~env.lag /\ ~job.failed /\ ~job.cancelled
            => synth \in {"complete", "broken"} /\ reader[r].heard = written

\* The speech of a finished turn with some text becomes ready or failed, and leaves
\* neither an entry in the dictionaries nor a spool file behind, unless it is cancelled
\* by a shutdown or the worker dies without a word to the loop.
SettledAndCleaned ==
    ~env.worker =>
        (turn = "finished" /\ job.textEnqueued
            ~> \/ /\ asset.status \in {"ready", "failed", "gone"}
                  /\ ~job.known /\ ~job.bound /\ spool = "removed"
               \/ job.cancelled \/ ~up)

\* Nobody waits for ever: every worker thread ends when its turn is over, if the
\* synthesiser did not fail, and a reader of a finished turn's speech comes to an end.
EveryoneEnds ==
    /\ ~env.synth => (turn \in {"finished", "stopped"} ~> worker = "ended")
    /\ \A r \in Readers :
          turn = "finished" /\ reader[r].pc \in Listening
              ~> reader[r].pc \notin Listening \/ job.cancelled
=============================================================================
