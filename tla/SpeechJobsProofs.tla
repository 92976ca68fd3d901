--------------------------- MODULE SpeechJobsProofs ---------------------------
(***************************************************************************)
(* Theorems about SpeechJobs for every number of listeners, texts and      *)
(* chunks of audio, and whatever may fail, be stopped, deleted or killed.  *)
(***************************************************************************)
EXTENDS SpeechJobs, TLAPS

\* Before the turn writes, only the worker can have moved, and it can only have failed.
NothingYet ==
    turn \in {"new", "started"} =>
        /\ texts = <<>> /\ synth = "closed" /\ finalizer = "none" /\ asset.status = "none"
        /\ ~job.cleanupRequested /\ up
        /\ turn = "new" => ~job.known

\* What waits for the loop was said for a cause, and the finaliser is asked for once.
PostsTrue ==
    /\ \A i \in 1 .. Len(posted) :
        /\ posted[i] = "complete"   => job.failed \/ synth = "complete"
        /\ posted[i] = "markFailed" => synth = "broken"
        /\ posted[i] = "finalize"   => synth = "complete" /\ finalizer = "none"
    /\ \A i, k \in 1 .. Len(posted) : posted[i] = "finalize" /\ posted[k] = "finalize" => i = k

CompletedTrue == job.completed => job.failed \/ synth = "complete" \/ ~up

\* Nothing of the old process runs on after a restart.
AfterRestart ==
    ~up => /\ synth = "broken" /\ worker = "ended" /\ posted = <<>> /\ turn = "lost"
           /\ finalizer = "ended" /\ ~job.known /\ ~job.bound
           /\ \A r \in Readers : reader[r].pc \notin Listening \cup {"admitted"}

\* What is stored is the whole of a stream, and keys are of files that are there.
StoreTrue ==
    /\ finalizer # "none" => synth = "complete" \/ ~up
    /\ object # Absent => object = written /\ synth \in {"complete", "broken"}
    /\ finalizer = "copied" => object # Absent
    /\ asset.key \/ asset.status = "ready" => finalizer = "ended"
    /\ deletion.key => finalizer = "ended" /\ asset.status = "gone"
    /\ asset.status = "ready" => asset.key /\ object # Absent /\ (up => synth = "complete")

\* An asset is promised as long as somebody works for it.
AssetTrue ==
    /\ asset.status = "failed" => job.failed
    /\ asset.status = "generating" => job.bound \/ job.failed \/ job.cancelled \/ ~up
    /\ job.cleanupRequested => asset.status # "generating"
    /\ \A r \in Readers :
        /\ reader[r].pc = "promised" => asset.status # "none"
        /\ reader[r].pc = "fetching" => object # Absent \/ job.failed \/ asset.status = "gone" \/ ~up

\* The spool is kept for those who listen to it.
SpoolTrue ==
    /\ spool = "none" => worker \in {"none", "creating", "ended"} /\ (synth = "closed" \/ ~up)
    /\ spool = "removed" => job.cleanupDone
    /\ \A r \in Readers :
        /\ reader[r].pc \in Listening /\ ~reader[r].late /\ job.cleanupDone => job.failed \/ job.cancelled
        /\ ~env.lag => reader[r].pc # "empty"

IInv == /\ TypeOK /\ NothingYet /\ PostsTrue /\ CompletedTrue /\ AfterRestart
        /\ StoreTrue /\ AssetTrue /\ SpoolTrue /\ RefusedForCause /\ ReaderHearsAll

-----------------------------------------------------------------------------
(* What every step keeps in common.                                        *)

SameSpeech(i, j) ==
    /\ i.cancelled = j.cancelled /\ i.failed = j.failed
    /\ i.completed = j.completed /\ i.cleanupRequested = j.cleanupRequested

\* The clean-up takes a job out of the dictionaries and says nothing of its speech.
LEMMA CleanedIs ==
    ASSUME NEW j \in Job
    PROVE  /\ Cleaned(j) \in Job /\ Cleaned(j).cleanupDone /\ SameSpeech(Cleaned(j), j)
           /\ (Cleaned(j).known => j.known) /\ (Cleaned(j).bound => j.bound)
           /\ Cleaned(j).cancelled = j.cancelled /\ Cleaned(j).failed = j.failed
           /\ Cleaned(j).bound = (j.bound /\ j.cleanupDone)
           /\ Cleaned(j).textEnqueued = j.textEnqueued
  <1> DEFINE k == j.known /\ j.cleanupDone
             b == j.bound /\ j.cleanupDone
  <1>1. k \in BOOLEAN /\ b \in BOOLEAN /\ (k => j.known) /\ (b => j.bound)
    BY DEF Job
  <1>2. Cleaned(j) = [j EXCEPT !.known = k, !.bound = b, !.cleanupDone = TRUE]
    BY DEF Cleaned
  <1>3. b = (j.bound /\ j.cleanupDone)
    OBVIOUS
  <1> HIDE DEF k, b
  <1>4. QED BY <1>1, <1>2, <1>3 DEF Job, SameSpeech

\* A speech only moves on: what failed, was cancelled or deleted stays so, and a stream that has
\* ended has its length.
Onwards ==
    /\ (job.failed => job'.failed) /\ (job.cancelled => job'.cancelled)
    /\ asset.status = "gone" => asset'.status = "gone"
    /\ synth = "complete" => synth' \in {"complete", "broken"}
    /\ synth \in {"complete", "broken"} => synth' \in {"complete", "broken"} /\ written' = written

LEMMA ReadersKept ==
    ASSUME IInv, Onwards, UNCHANGED <<reader, env>>, ~up => ~up'
    PROVE  RefusedForCause' /\ ReaderHearsAll'
  BY DEF IInv, RefusedForCause, ReaderHearsAll, Onwards

\* What the loop is told for a cause keeps its cause.
LEMMA PostsMore ==
    ASSUME TypeOK, PostsTrue, NEW what \in {"complete", "markFailed"},
           posted' = Append(posted, what),
           what = "complete" => job'.failed \/ synth' = "complete",
           what = "markFailed" => synth' = "broken",
           job.failed => job'.failed, synth' = synth, finalizer' = finalizer
    PROVE  PostsTrue' /\ posted' \in Seq({"complete", "finalize", "markFailed"})
  <1>1. /\ Len(posted') = Len(posted) + 1 /\ posted'[Len(posted')] = what
        /\ \A i \in 1 .. Len(posted) : posted'[i] = posted[i]
        /\ Len(posted) \in Nat /\ posted' \in Seq({"complete", "finalize", "markFailed"})
    BY DEF TypeOK
  <1>2. \A i \in 1 .. Len(posted') : i \in 1 .. Len(posted) \/ posted'[i] = what
    BY <1>1
  <1>3. QED BY <1>1, <1>2 DEF PostsTrue

LEMMA PostsFewer ==
    ASSUME TypeOK, PostsTrue, posted # <<>>, posted' = Tail(posted),
           job.failed => job'.failed, synth' = synth,
           finalizer' = finalizer \/ Head(posted) = "finalize"
    PROVE  PostsTrue' /\ posted' \in Seq({"complete", "finalize", "markFailed"})
  <1>1. /\ Len(posted') = Len(posted) - 1 /\ Len(posted) \in Nat \ {0}
        /\ \A i \in 1 .. Len(posted') : posted'[i] = posted[i + 1]
        /\ posted' \in Seq({"complete", "finalize", "markFailed"})
        /\ Head(posted) = posted[1]
    BY DEF TypeOK
  <1>2. \A i \in 1 .. Len(posted') : i + 1 \in 1 .. Len(posted) /\ i + 1 # 1
    BY <1>1
  <1>3. finalizer' # finalizer =>
            posted[1] = "finalize" /\ \A i \in 1 .. Len(posted') : posted'[i] # "finalize"
    BY <1>1, <1>2 DEF PostsTrue
  <1>4. \A i \in 1 .. Len(posted') :
            /\ posted'[i] = "complete"   => job'.failed \/ synth' = "complete"
            /\ posted'[i] = "markFailed" => synth' = "broken"
            /\ posted'[i] = "finalize"   => synth' = "complete" /\ finalizer' = "none"
    BY <1>1, <1>2, <1>3 DEF PostsTrue
  <1>5. \A i, k \in 1 .. Len(posted') :
            posted'[i] = "finalize" /\ posted'[k] = "finalize" => i = k
    <2>1. SUFFICES ASSUME NEW i \in 1 .. Len(posted'), NEW k \in 1 .. Len(posted'),
                          posted'[i] = "finalize", posted'[k] = "finalize"
                   PROVE  i = k
      OBVIOUS
    <2>2. i + 1 = k + 1
      BY <1>1, <1>2, <2>1 DEF PostsTrue
    <2>3. QED BY <1>1, <2>2
  <1>6. QED BY <1>1, <1>4, <1>5 DEF PostsTrue

LEMMA InitInv == Init => IInv
  <1>1. Init => TypeOK
    BY BoundsAssumption DEF Init, TypeOK, Job, Reader, Absent
  <1>2. Init => /\ NothingYet /\ PostsTrue /\ CompletedTrue /\ AfterRestart
                /\ StoreTrue /\ AssetTrue /\ SpoolTrue /\ RefusedForCause /\ ReaderHearsAll
    BY DEF Init, NothingYet, PostsTrue, CompletedTrue, AfterRestart, StoreTrue, AssetTrue,
           SpoolTrue, RefusedForCause, ReaderHearsAll, Listening
  <1>3. QED BY <1>1, <1>2 DEF IInv

-----------------------------------------------------------------------------
(* The turn.                                                               *)

\* What a step that leaves the listeners alone has to show.
LEMMA Conclude ==
    ASSUME IInv, Onwards, UNCHANGED <<reader, env>>, ~up => ~up',
           TypeOK', NothingYet', PostsTrue', CompletedTrue', AfterRestart',
           StoreTrue', AssetTrue', SpoolTrue'
    PROVE  IInv'
  BY ReadersKept DEF IInv

\* What upsert_speech_asset leaves in the row.
LEMMA UpsertedIs ==
    ASSUME TypeOK, NEW status \in {"generating", "ready", "failed"}, NEW key \in BOOLEAN,
           asset' = Upserted(status, key)
    PROVE  /\ asset' \in [status: {"none", "generating", "ready", "failed", "gone"}, key: BOOLEAN]
           /\ asset.status = "gone" => asset' = asset
           /\ asset.status # "gone" => asset'.status = status /\ asset'.key = key
  BY DEF TypeOK, Upserted

LEMMA StartGenerationInv == ASSUME IInv, StartGeneration PROVE IInv'
  <1> USE DEF IInv
  <1>0. /\ job' \in Job /\ job'.known /\ job'.bound = job.bound /\ job'.cleanupDone = job.cleanupDone
        /\ SameSpeech(job', job)
    BY DEF StartGeneration, TypeOK, Job, SameSpeech
  <1>1. TypeOK'
    BY <1>0 DEF StartGeneration, TypeOK, files, world
  <1>2. NothingYet' /\ PostsTrue' /\ CompletedTrue' /\ AfterRestart'
    BY <1>0 DEF StartGeneration, TypeOK, SameSpeech, files, world,
                NothingYet, PostsTrue, CompletedTrue, AfterRestart
  <1>3. StoreTrue' /\ AssetTrue' /\ SpoolTrue'
    BY <1>0 DEF StartGeneration, TypeOK, SameSpeech, files, world,
                NothingYet, AfterRestart, StoreTrue, AssetTrue, SpoolTrue
  <1>4. Onwards /\ UNCHANGED <<reader, env, up>>
    BY <1>0 DEF StartGeneration, Onwards, SameSpeech, files, world
  <1>5. QED BY <1>1, <1>2, <1>3, <1>4, Conclude

LEMMA BindGenerationInv == ASSUME IInv, BindGeneration PROVE IInv'
  <1> USE DEF IInv
  <1>1. /\ turn = "started" /\ turn' = "writing"
        /\ UNCHANGED <<texts, worker, synth, spool, written, posted, finalizer, object, deletion,
                       reader, up, env>>
    BY DEF BindGeneration, threads, files, world
  <1>2. /\ job' \in Job /\ job'.bound /\ job'.known = job.known /\ job'.cleanupDone = job.cleanupDone
        /\ SameSpeech(job', job)
    BY DEF BindGeneration, TypeOK, Job, SameSpeech
  <1>3. /\ asset' \in [status: {"none", "generating", "ready", "failed", "gone"}, key: BOOLEAN]
        /\ asset'.status \in {"generating", "failed"} /\ asset'.key = FALSE
        /\ asset'.status = "failed" => job.failed
        /\ asset.status = "none"
    <2>1. asset.status = "none"
      BY <1>1 DEF NothingYet
    <2>2. CASE job.failed
      <3>1. asset' = Upserted("failed", FALSE)
        BY <2>2 DEF BindGeneration
      <3>2. QED BY <2>1, <2>2, <3>1, UpsertedIs
    <2>3. CASE ~job.failed
      <3>1. asset' = Upserted("generating", FALSE)
        BY <2>3 DEF BindGeneration
      <3>2. QED BY <2>1, <3>1, UpsertedIs
    <2>4. QED BY <2>2, <2>3
  <1>4. TypeOK'
    BY <1>1, <1>2, <1>3 DEF TypeOK
  <1>5. NothingYet' /\ PostsTrue' /\ CompletedTrue' /\ AfterRestart'
    BY <1>1, <1>2, <1>3 DEF TypeOK, SameSpeech,
                NothingYet, PostsTrue, CompletedTrue, AfterRestart
  <1>6. StoreTrue' /\ AssetTrue' /\ SpoolTrue'
    BY <1>1, <1>2, <1>3 DEF TypeOK, SameSpeech, 
                NothingYet, AfterRestart, StoreTrue, AssetTrue, SpoolTrue
  <1>7. Onwards
    BY <1>1, <1>2, <1>3 DEF Onwards, SameSpeech
  <1>8. QED BY <1>1, <1>4, <1>5, <1>6, <1>7, Conclude

\* A step of the turn that only adds to the texts, from "writing" on.
LEMMA TextsKept ==
    ASSUME IInv, UNCHANGED <<worker, synth, files, posted, finalizer, asset, object, deletion, reader, world>>,
           turn = "writing", turn' \in {"writing", "finished", "vanished"},
           texts' \in Seq({"text", SENTINEL}),
           job' \in Job, SameSpeech(job', job), job'.known = job.known, job'.bound = job.bound,
           job'.cleanupDone = job.cleanupDone
    PROVE  IInv'
  <1> USE DEF IInv
  <1>1. TypeOK'
    <2>1. /\ turn' \in {"new", "started", "writing", "finished", "stopped", "vanished", "lost"}
          /\ UNCHANGED <<worker, synth, spool, written, posted, finalizer, asset, object,
                         deletion, reader, up, env>>
      BY DEF files, world
    <2>2. QED BY <2>1 DEF TypeOK
  <1>2. NothingYet' /\ PostsTrue' /\ CompletedTrue' /\ AfterRestart'
    BY DEF TypeOK, SameSpeech, files, world, NothingYet, PostsTrue, CompletedTrue, AfterRestart
  <1>3. StoreTrue' /\ AssetTrue' /\ SpoolTrue'
    BY DEF TypeOK, SameSpeech, files, world, AfterRestart, StoreTrue, AssetTrue, SpoolTrue
  <1>4. Onwards /\ UNCHANGED <<reader, env, up>>
    BY DEF Onwards, SameSpeech, files, world
  <1>5. QED BY <1>1, <1>2, <1>3, <1>4, Conclude

LEMMA AppendTextInv == ASSUME IInv, AppendText PROVE IInv'
  <1>1. /\ job' = [job EXCEPT !.textEnqueued = TRUE] /\ texts' = Append(texts, "text")
        /\ turn = "writing" /\ turn' = turn
        /\ UNCHANGED <<worker, synth, files, posted, finalizer, asset, object, deletion, reader, world>>
    BY DEF AppendText
  <1>2. /\ job' \in Job /\ SameSpeech(job', job) /\ job'.known = job.known /\ job'.bound = job.bound
        /\ job'.cleanupDone = job.cleanupDone /\ texts' \in Seq({"text", SENTINEL})
    <2>1. job \in Job /\ texts \in Seq({"text", SENTINEL})
      BY DEF IInv, TypeOK
    <2>2. texts' \in Seq({"text", SENTINEL})
      BY <1>1, <2>1
    <2>3. QED BY <1>1, <2>1, <2>2 DEF Job, SameSpeech
  <1>3. QED BY <1>1, <1>2, TextsKept

LEMMA FinishGenerationInv ==
    ASSUME IInv, NEW fallback \in BOOLEAN, FinishGeneration(fallback)
    PROVE  IInv'
  <1>1. /\ job' \in Job /\ SameSpeech(job', job) /\ job'.known = job.known /\ job'.bound = job.bound
        /\ job'.cleanupDone = job.cleanupDone /\ texts' \in Seq({"text", SENTINEL})
    <2>0. job \in Job /\ texts \in Seq({"text", SENTINEL})
      BY DEF IInv, TypeOK
    <2>1. CASE UNCHANGED <<texts, job>>
      BY <2>0, <2>1 DEF SameSpeech
    <2>2. CASE ~UNCHANGED <<texts, job>>
      <3> DEFINE whole == ~job.textEnqueued /\ fallback
                 more == IF whole THEN <<"text">> ELSE <<>>
      <3>1. /\ texts' = texts \o more \o <<SENTINEL>>
            /\ job' = [job EXCEPT !.textEnqueued = @ \/ whole, !.textCompleted = TRUE]
        BY <2>2 DEF FinishGeneration
      <3>2. more \in Seq({"text", SENTINEL})
        <4>1. <<>> \in Seq({"text", SENTINEL}) /\ <<"text">> \in Seq({"text", SENTINEL})
          OBVIOUS
        <4>2. QED BY <4>1
      <3>3. (job.textEnqueued \/ whole) \in BOOLEAN
        BY <2>0 DEF Job
      <3> HIDE DEF whole, more
      <3>4. texts' \in Seq({"text", SENTINEL})
        <4>1. <<SENTINEL>> \in Seq({"text", SENTINEL})
          OBVIOUS
        <4>2. QED BY <2>0, <3>1, <3>2, <4>1
      <3>5. QED BY <2>0, <3>1, <3>3, <3>4 DEF Job, SameSpeech
    <2>3. QED BY <2>1, <2>2
  <1>2. QED BY <1>1, TextsKept DEF FinishGeneration

LEMMA VanishInv == ASSUME IInv, Vanish PROVE IInv'
  BY TextsKept DEF Vanish, threads, IInv, TypeOK, SameSpeech

LEMMA DiscardVersionInv == ASSUME IInv, DiscardVersion PROVE IInv'
  <1> USE DEF IInv
  <1>1. TypeOK' /\ NothingYet' /\ PostsTrue' /\ CompletedTrue' /\ AfterRestart'
    BY DEF DiscardVersion, TypeOK, threads, files, world,
           NothingYet, PostsTrue, CompletedTrue, AfterRestart
  <1>2. StoreTrue' /\ AssetTrue' /\ SpoolTrue'
    BY DEF DiscardVersion, TypeOK, threads, files, world, StoreTrue, AssetTrue, SpoolTrue
  <1>3. Onwards /\ UNCHANGED <<reader, env, up>>
    BY DEF DiscardVersion, Onwards, threads, files, world
  <1>4. QED BY <1>1, <1>2, <1>3, Conclude

\* cancel_generation says that it was cancelled before it takes the job away.
LEMMA CancelIs ==
    ASSUME TypeOK, cancel_generation
    PROVE  /\ job' \in Job /\ texts' \in Seq({"text", SENTINEL})
           /\ spool' \in {"none", "linked", "removed"}
           /\ job'.failed = job.failed /\ job'.completed = job.completed
           /\ job'.cleanupRequested = job.cleanupRequested
           /\ (job.cancelled => job'.cancelled) /\ (job.cleanupDone => job'.cleanupDone)
           /\ (job'.known => job.known) /\ (job'.bound => job.bound)
           /\ job.known => job'.cancelled /\ job'.cleanupDone
           /\ ~job.known => UNCHANGED <<job, texts, spool>>
           /\ spool' = spool \/ (spool = "linked" /\ spool' = "removed" /\ job'.cleanupDone)
  <1>1. CASE ~job.known
    BY <1>1 DEF cancel_generation, TypeOK
  <1>2. CASE job.known
    <2> DEFINE j == [job EXCEPT !.cancelled = TRUE, !.textCompleted = TRUE]
    <2>1. /\ j \in Job /\ j.cancelled /\ j.failed = job.failed /\ j.completed = job.completed
          /\ j.cleanupRequested = job.cleanupRequested
          /\ j.known = job.known /\ j.bound = job.bound
      BY DEF TypeOK, Job
    <2>2. job' = Cleaned(j)
      BY <1>2 DEF cancel_generation
    <2> HIDE DEF j
    <2>3. /\ job' \in Job /\ job'.cleanupDone /\ SameSpeech(job', j) /\ (job'.known => j.known)
          /\ (job'.bound => j.bound)
      BY <2>1, <2>2, CleanedIs
    <2>4. texts' \in Seq({"text", SENTINEL})
      <3>1. texts \in Seq({"text", SENTINEL})
        BY DEF TypeOK
      <3>2. texts' = texts \/ texts' = Append(texts, SENTINEL)
        BY <1>2 DEF cancel_generation
      <3>3. QED BY <3>1, <3>2
    <2>5. /\ spool' \in {"none", "linked", "removed"}
          /\ spool' = spool \/ (spool = "linked" /\ spool' = "removed")
      <3>1. spool \in {"none", "linked", "removed"}
        BY DEF TypeOK
      <3>2. spool' = spool \/ (spool = "linked" /\ spool' = "removed")
        BY <1>2 DEF cancel_generation, Unlinked
      <3>3. QED BY <3>1, <3>2
    <2>6. QED BY <1>2, <2>1, <2>3, <2>4, <2>5 DEF SameSpeech
  <1>3. QED BY <1>1, <1>2

LEMMA CancelInv == ASSUME IInv, CancelGeneration \/ Shutdown PROVE IInv'
  <1> USE DEF IInv
  <1>1. /\ cancel_generation /\ turn \notin {"started"}
        /\ turn' = turn \/ (turn = "writing" /\ turn' = "stopped")
        /\ UNCHANGED <<worker, synth, written, posted, finalizer, asset, object, deletion, reader, world>>
    BY DEF CancelGeneration, Shutdown
  <1>2. /\ job' \in Job /\ texts' \in Seq({"text", SENTINEL})
        /\ spool' \in {"none", "linked", "removed"}
        /\ job'.failed = job.failed /\ job'.completed = job.completed
        /\ job'.cleanupRequested = job.cleanupRequested
        /\ (job.cancelled => job'.cancelled) /\ (job.cleanupDone => job'.cleanupDone)
        /\ (job'.known => job.known) /\ (job'.bound => job.bound)
        /\ job.known => job'.cancelled /\ job'.cleanupDone
        /\ ~job.known => UNCHANGED <<job, texts, spool>>
        /\ spool' = spool \/ (spool = "linked" /\ spool' = "removed" /\ job'.cleanupDone)
    BY <1>1, CancelIs
  <1>3. TypeOK'
    BY <1>1, <1>2 DEF TypeOK, world
  <1>4. NothingYet' /\ PostsTrue' /\ CompletedTrue' /\ AfterRestart'
    BY <1>1, <1>2 DEF TypeOK, world, NothingYet, PostsTrue, CompletedTrue, AfterRestart
  <1>5. StoreTrue' /\ AssetTrue' /\ SpoolTrue'
    BY <1>1, <1>2 DEF TypeOK, world, AfterRestart, StoreTrue, AssetTrue, SpoolTrue
  <1>6. Onwards /\ UNCHANGED <<reader, env, up>>
    BY <1>1, <1>2 DEF Onwards, world
  <1>7. QED BY <1>3, <1>4, <1>5, <1>6, Conclude

-----------------------------------------------------------------------------
(* The worker and the synthesiser.                                         *)

\* To fail changes nothing of the job but that.
LEMMA FailedIs ==
    ASSUME NEW j \in Job
    PROVE  LET k == [j EXCEPT !.failed = TRUE]
           IN /\ k \in Job /\ k.failed /\ k.cancelled = j.cancelled /\ k.completed = j.completed
              /\ k.cleanupRequested = j.cleanupRequested /\ k.cleanupDone = j.cleanupDone
              /\ k.known = j.known /\ k.bound = j.bound
  BY DEF Job

\* A step of the worker, which may end with a failure.
LEMMA WorkerKept ==
    ASSUME IInv, UNCHANGED <<turn, written, finalizer, asset, object, deletion, reader, up, env>>,
           worker \in {"creating", "taking", "completing"},
           worker' \in {"taking", "completing", "ended"},
           texts' = texts \/ (texts # <<>> /\ texts' = Tail(texts)),
           \/ synth' = synth
           \/ texts # <<>> /\ worker = "taking" /\ synth \in {"closed", "open"}
              /\ synth' \in {"open", "finishing"},
           spool' = spool \/ (worker = "creating" /\ spool' = "linked"),
           worker' = "ended" \/ spool' # "none",
           UNCHANGED <<job, posted>> \/ MarkFailed
    PROVE  IInv'
  <1> USE DEF IInv
  <1>1. up
    BY DEF AfterRestart
  <1>2. /\ job' \in Job /\ job'.cancelled = job.cancelled /\ job'.completed = job.completed
        /\ job'.cleanupRequested = job.cleanupRequested /\ job'.cleanupDone = job.cleanupDone
        /\ job'.known = job.known /\ job'.bound = job.bound
        /\ (job.failed => job'.failed) /\ (posted' # posted => job'.failed)
    BY FailedIs DEF MarkFailed, TypeOK
  <1>3. PostsTrue' /\ posted' \in Seq({"complete", "finalize", "markFailed"})
    <2>1. CASE posted' = posted
      BY <1>2, <2>1 DEF PostsTrue, TypeOK
    <2>2. CASE posted' = Append(posted, "complete") /\ job'.failed
      <3>1. /\ Len(posted') = Len(posted) + 1 /\ posted'[Len(posted')] = "complete"
            /\ \A i \in 1 .. Len(posted) : posted'[i] = posted[i]
            /\ Len(posted) \in Nat /\ posted' \in Seq({"complete", "finalize", "markFailed"})
        BY <2>2 DEF TypeOK
      <3>2. \A i \in 1 .. Len(posted') : i \in 1 .. Len(posted) \/ posted'[i] = "complete"
        BY <3>1
      <3>3. QED BY <1>2, <2>2, <3>1, <3>2 DEF PostsTrue
    <2>3. QED BY <1>2, <2>1, <2>2 DEF MarkFailed
  <1>4. texts' \in Seq({"text", SENTINEL})
    <2>1. texts \in Seq({"text", SENTINEL})
      BY DEF TypeOK
    <2>2. QED BY <2>1
  <1>5. /\ synth' \in {"closed", "open", "finishing", "complete", "broken"}
        /\ spool' \in {"none", "linked", "removed"}
    BY DEF TypeOK
  <1>6. TypeOK'
    BY <1>2, <1>3, <1>4, <1>5 DEF TypeOK
  <1>7. NothingYet' /\ CompletedTrue' /\ AfterRestart'
    BY <1>1, <1>2 DEF NothingYet, CompletedTrue, AfterRestart
  <1>8. StoreTrue' /\ AssetTrue' /\ SpoolTrue'
    BY <1>1, <1>2 DEF StoreTrue, AssetTrue, SpoolTrue
  <1>9. Onwards
    BY <1>1, <1>2 DEF Onwards
  <1>10. QED BY <1>3, <1>6, <1>7, <1>8, <1>9, Conclude

LEMMA CreateInv == ASSUME IInv, CreateRunner \/ CreateFails PROVE IInv'
  <1>1. CASE CreateRunner
    BY <1>1, WorkerKept DEF CreateRunner, world
  <1>2. CASE CreateFails
    BY <1>2, WorkerKept DEF CreateFails, world
  <1>3. QED BY <1>1, <1>2

\* A worker that takes texts has its spool file, and so does one that waits for the end.
LEMMA SpoolIsThere ==
    ASSUME IInv, worker \in {"taking", "completing"}
    PROVE  spool # "none"
  BY DEF IInv, SpoolTrue

LEMMA SendInv == ASSUME IInv, SendText \/ SendFails PROVE IInv'
  <1>1. CASE SendText
    BY <1>1, WorkerKept, SpoolIsThere DEF SendText, files, world
  <1>2. CASE SendFails
    BY <1>2, WorkerKept DEF SendFails, files, world
  <1>3. QED BY <1>1, <1>2

LEMMA TakeSentinelInv == ASSUME IInv, TakeSentinel PROVE IInv'
  <1>1. /\ worker = "taking" /\ texts # <<>> /\ texts' = Tail(texts)
        /\ worker' \in {"ended", "completing"}
        /\ synth' = synth \/ (synth = "open" /\ synth' = "finishing")
        /\ UNCHANGED <<job, posted>> \/ MarkFailed
        /\ UNCHANGED <<turn, spool, written, finalizer, asset, object, deletion, reader, up, env>>
    BY DEF TakeSentinel, files, world
  <1>2. QED BY <1>1, WorkerKept, SpoolIsThere

LEMMA CompleteInv == ASSUME IInv, CompleteReturns \/ CompleteFails PROVE IInv'
  <1>1. CASE CompleteReturns
    BY <1>1, WorkerKept DEF CompleteReturns, files, world
  <1>2. CASE CompleteFails
    BY <1>2, WorkerKept DEF CompleteFails, files, world
  <1>3. QED BY <1>1, <1>2

LEMMA OnDataInv == ASSUME IInv, on_data PROVE IInv'
  <1> USE DEF IInv
  <1>1. /\ synth \in {"open", "finishing"} /\ written' = written + 1 /\ written' \in 0 .. MaxChunks
        /\ UNCHANGED <<turn, job, texts, worker, synth, spool, posted, finalizer, asset, object,
                       deletion, reader, up, env>>
    BY BoundsAssumption DEF on_data, TypeOK, threads, world
  <1>2. TypeOK' /\ NothingYet' /\ PostsTrue' /\ CompletedTrue' /\ AfterRestart'
    BY <1>1 DEF TypeOK, NothingYet, PostsTrue, CompletedTrue, AfterRestart
  <1>3. StoreTrue' /\ AssetTrue' /\ SpoolTrue'
    BY <1>1 DEF StoreTrue, AssetTrue, SpoolTrue
  <1>4. Onwards
    BY <1>1 DEF Onwards
  <1>5. QED BY <1>1, <1>2, <1>3, <1>4, Conclude

\* Before the stream is complete nobody has asked for the finaliser.
LEMMA OnCompleteInv == ASSUME IInv, on_complete PROVE IInv'
  <1> USE DEF IInv
  <1>1. /\ synth = "finishing" /\ synth' = "complete"
        /\ UNCHANGED <<turn, job, texts, worker, spool, written, finalizer, asset, object,
                       deletion, reader, up, env>>
        /\ posted' = posted \o (IF job.failed THEN <<"complete">> ELSE <<"complete", "finalize">>)
    BY DEF on_complete, files, world
  <1>2. up /\ finalizer = "none"
    BY <1>1 DEF AfterRestart, StoreTrue
  <1>3. /\ posted' \in Seq({"complete", "finalize", "markFailed"})
        /\ Len(posted) \in Nat /\ Len(posted') \in {Len(posted) + 1, Len(posted) + 2}
        /\ \A i \in 1 .. Len(posted) : posted'[i] = posted[i]
        /\ posted'[Len(posted) + 1] = "complete"
        /\ Len(posted') = Len(posted) + 2 => posted'[Len(posted) + 2] = "finalize"
    <2>1. posted \in Seq({"complete", "finalize", "markFailed"})
      BY DEF TypeOK
    <2>2. CASE job.failed
      BY <1>1, <2>1, <2>2
    <2>3. CASE ~job.failed
      BY <1>1, <2>1, <2>3
    <2>4. QED BY <2>2, <2>3
  <1>4. \A i \in 1 .. Len(posted') :
            posted'[i] # "markFailed" /\ (posted'[i] = "finalize" => i = Len(posted) + 2)
    BY <1>1, <1>3 DEF PostsTrue
  <1>5. PostsTrue'
    BY <1>1, <1>2, <1>3, <1>4 DEF PostsTrue
  <1>6. TypeOK' /\ NothingYet' /\ CompletedTrue' /\ AfterRestart'
    BY <1>1, <1>2, <1>3 DEF TypeOK, NothingYet, CompletedTrue, AfterRestart
  <1>7. StoreTrue' /\ AssetTrue' /\ SpoolTrue'
    BY <1>1, <1>2 DEF StoreTrue, AssetTrue, SpoolTrue
  <1>8. Onwards
    BY <1>1 DEF Onwards
  <1>9. QED BY <1>1, <1>5, <1>6, <1>7, <1>8, Conclude

LEMMA OnErrorInv == ASSUME IInv, on_error PROVE IInv'
  <1> USE DEF IInv
  <1>1. /\ synth \in {"open", "finishing"} /\ synth' = "broken"
        /\ UNCHANGED <<turn, texts, worker, spool, written, finalizer, asset, object,
                       deletion, reader, up, env>>
        /\ posted' = posted \o <<"complete", "markFailed">>
        /\ job' = [job EXCEPT !.failed = TRUE]
    BY DEF on_error, files, world
  <1>2. up /\ finalizer = "none"
    BY <1>1 DEF AfterRestart, StoreTrue
  <1>3. /\ posted' \in Seq({"complete", "finalize", "markFailed"})
        /\ Len(posted) \in Nat /\ Len(posted') = Len(posted) + 2
        /\ \A i \in 1 .. Len(posted) : posted'[i] = posted[i]
        /\ posted'[Len(posted) + 1] = "complete" /\ posted'[Len(posted) + 2] = "markFailed"
    <2>1. posted \in Seq({"complete", "finalize", "markFailed"})
      BY DEF TypeOK
    <2>2. QED BY <1>1, <2>1
  <1>4. \A i \in 1 .. Len(posted') : posted'[i] # "finalize"
    BY <1>1, <1>3 DEF PostsTrue
  <1>5. /\ job' \in Job /\ job'.cancelled = job.cancelled /\ job'.completed = job.completed
        /\ job'.cleanupRequested = job.cleanupRequested /\ job'.cleanupDone = job.cleanupDone
        /\ job'.known = job.known /\ job'.bound = job.bound /\ job'.failed
    BY <1>1, FailedIs DEF TypeOK
  <1>6. PostsTrue'
    BY <1>1, <1>4, <1>5 DEF PostsTrue
  <1>7. TypeOK' /\ NothingYet' /\ CompletedTrue' /\ AfterRestart'
    BY <1>1, <1>2, <1>3, <1>5 DEF TypeOK, NothingYet, CompletedTrue, AfterRestart
  <1>8. StoreTrue' /\ AssetTrue' /\ SpoolTrue'
    BY <1>1, <1>2, <1>5 DEF StoreTrue, AssetTrue, SpoolTrue
  <1>9. Onwards
    BY <1>1, <1>5 DEF Onwards
  <1>10. QED BY <1>1, <1>6, <1>7, <1>8, <1>9, Conclude

-----------------------------------------------------------------------------
(* The event loop, the object store and the deletion.                      *)

LEMMA RunCompleteInv == ASSUME IInv, RunComplete PROVE IInv'
  <1> USE DEF IInv
  <1>1. /\ posted # <<>> /\ Head(posted) = "complete" /\ posted' = Tail(posted)
        /\ job' = [job EXCEPT !.completed = TRUE]
        /\ UNCHANGED <<turn, texts, worker, synth, spool, written, finalizer, asset, object,
                       deletion, reader, up, env>>
    BY DEF RunComplete, threads, files, world
  <1>2. up /\ (job.failed \/ synth = "complete")
    <2>1. posted \in Seq({"complete", "finalize", "markFailed"})
      BY DEF TypeOK
    <2>2. 1 \in 1 .. Len(posted) /\ posted[1] = "complete"
      BY <1>1, <2>1
    <2>3. QED BY <1>1, <2>2 DEF PostsTrue, AfterRestart
  <1>3. /\ job' \in Job /\ job'.cancelled = job.cancelled /\ job'.failed = job.failed
        /\ job'.cleanupRequested = job.cleanupRequested /\ job'.cleanupDone = job.cleanupDone
        /\ job'.known = job.known /\ job'.bound = job.bound
    BY <1>1 DEF TypeOK, Job
  <1>4. PostsTrue' /\ posted' \in Seq({"complete", "finalize", "markFailed"})
    BY <1>1, <1>3, PostsFewer
  <1>5. TypeOK'
    BY <1>1, <1>3, <1>4 DEF TypeOK
  <1>6. NothingYet' /\ CompletedTrue' /\ AfterRestart'
    BY <1>1, <1>2, <1>3 DEF NothingYet, CompletedTrue, AfterRestart
  <1>7. StoreTrue' /\ AssetTrue' /\ SpoolTrue'
    BY <1>1, <1>2, <1>3 DEF StoreTrue, AssetTrue, SpoolTrue
  <1>8. Onwards
    BY <1>1, <1>3 DEF Onwards
  <1>9. QED BY <1>1, <1>4, <1>5, <1>6, <1>7, <1>8, Conclude

LEMMA RunFinalizeInv == ASSUME IInv, RunFinalize PROVE IInv'
  <1> USE DEF IInv
  <1>1. /\ posted # <<>> /\ Head(posted) = "finalize" /\ posted' = Tail(posted)
        /\ finalizer' = "created"
        /\ UNCHANGED <<turn, job, texts, worker, synth, spool, written, asset, object,
                       deletion, reader, up, env>>
    BY DEF RunFinalize, threads, files, world
  <1>2. up /\ synth = "complete" /\ finalizer = "none"
    <2>1. posted \in Seq({"complete", "finalize", "markFailed"})
      BY DEF TypeOK
    <2>2. 1 \in 1 .. Len(posted) /\ posted[1] = "finalize"
      BY <1>1, <2>1
    <2>3. QED BY <1>1, <2>2 DEF PostsTrue, AfterRestart
  <1>3. PostsTrue' /\ posted' \in Seq({"complete", "finalize", "markFailed"})
    BY <1>1, PostsFewer
  <1>4. TypeOK' /\ NothingYet' /\ CompletedTrue' /\ AfterRestart'
    BY <1>1, <1>2, <1>3 DEF TypeOK, NothingYet, CompletedTrue, AfterRestart
  <1>5. StoreTrue' /\ AssetTrue' /\ SpoolTrue'
    BY <1>1, <1>2 DEF StoreTrue, AssetTrue, SpoolTrue
  <1>6. Onwards
    BY <1>1 DEF Onwards
  <1>7. QED BY <1>1, <1>3, <1>4, <1>5, <1>6, Conclude

\* The clean-up removes the spool file only.
LEMMA UnlinkedIs ==
    ASSUME TypeOK, spool' = Unlinked
    PROVE  /\ spool' \in {"none", "linked", "removed"}
           /\ spool' = spool \/ (spool = "linked" /\ spool' = "removed")
  <1>1. spool \in {"none", "linked", "removed"}
    BY DEF TypeOK
  <1>2. spool' = spool \/ (spool = "linked" /\ spool' = "removed")
    BY DEF Unlinked
  <1>3. QED BY <1>1, <1>2

LEMMA MarkIs ==
    ASSUME TypeOK, MarkGenerationFailed
    PROVE  /\ job' \in Job /\ job'.failed /\ job'.cancelled = job.cancelled
           /\ job'.completed = job.completed /\ job'.cleanupRequested = job.cleanupRequested
           /\ job'.cleanupDone /\ (job'.known => job.known) /\ (job'.bound => job.bound)
           /\ asset' \in [status: {"none", "generating", "ready", "failed", "gone"}, key: BOOLEAN]
           /\ asset.status = "gone" => asset' = asset
           /\ asset.status # "gone" => asset'.status = "failed" /\ asset'.key = FALSE
           /\ spool' \in {"none", "linked", "removed"}
           /\ spool' = spool \/ (spool = "linked" /\ spool' = "removed")
  <1>1. /\ asset' \in [status: {"none", "generating", "ready", "failed", "gone"}, key: BOOLEAN]
        /\ asset.status = "gone" => asset' = asset
        /\ asset.status # "gone" => asset'.status = "failed" /\ asset'.key = FALSE
    BY UpsertedIs DEF MarkGenerationFailed
  <1> DEFINE j == [job EXCEPT !.failed = TRUE]
  <1>2. /\ j \in Job /\ j.failed /\ j.cancelled = job.cancelled /\ j.completed = job.completed
        /\ j.cleanupRequested = job.cleanupRequested /\ j.cleanupDone = job.cleanupDone
        /\ j.known = job.known /\ j.bound = job.bound
    BY FailedIs DEF TypeOK
  <1>3. job' = Cleaned(j)
    BY DEF MarkGenerationFailed
  <1> HIDE DEF j
  <1>4. /\ job' \in Job /\ job'.cleanupDone /\ SameSpeech(job', j)
        /\ (job'.known => j.known) /\ (job'.bound => j.bound)
    BY <1>2, <1>3, CleanedIs
  <1>5. /\ spool' \in {"none", "linked", "removed"}
        /\ spool' = spool \/ (spool = "linked" /\ spool' = "removed")
    BY UnlinkedIs DEF MarkGenerationFailed
  <1>6. QED BY <1>1, <1>2, <1>4, <1>5 DEF SameSpeech

\* The failure of a stream or of its storing reaches the asset.
LEMMA MarkKept ==
    ASSUME IInv, MarkGenerationFailed, turn \notin {"new", "started"}, up,
           UNCHANGED <<turn, texts, worker, synth, written, object, deletion, reader, up, env>>,
           finalizer' = finalizer \/ (finalizer = "uncopied" /\ finalizer' = "ended"),
           posted' \in Seq({"complete", "finalize", "markFailed"}), PostsTrue'
    PROVE  IInv'
  <1> USE DEF IInv
  <1>1. /\ job' \in Job /\ job'.failed /\ job'.cancelled = job.cancelled
        /\ job'.completed = job.completed /\ job'.cleanupRequested = job.cleanupRequested
        /\ job'.cleanupDone /\ (job'.known => job.known) /\ (job'.bound => job.bound)
        /\ asset' \in [status: {"none", "generating", "ready", "failed", "gone"}, key: BOOLEAN]
        /\ asset.status = "gone" => asset' = asset
        /\ asset.status # "gone" => asset'.status = "failed" /\ asset'.key = FALSE
        /\ spool' \in {"none", "linked", "removed"}
        /\ spool' = spool \/ (spool = "linked" /\ spool' = "removed")
    BY MarkIs
  <1>2. TypeOK'
    BY <1>1 DEF TypeOK
  <1>3. NothingYet' /\ CompletedTrue' /\ AfterRestart'
    BY <1>1 DEF NothingYet, CompletedTrue, AfterRestart
  <1>4. StoreTrue'
    BY <1>1 DEF StoreTrue
  <1>5. AssetTrue' /\ SpoolTrue'
    BY <1>1 DEF AssetTrue, SpoolTrue
  <1>6. Onwards
    BY <1>1 DEF Onwards
  <1>7. QED BY <1>2, <1>3, <1>4, <1>5, <1>6, Conclude

LEMMA RunMarkFailedInv == ASSUME IInv, RunMarkFailed PROVE IInv'
  <1>1. /\ posted # <<>> /\ Head(posted) = "markFailed" /\ posted' = Tail(posted)
        /\ MarkGenerationFailed
        /\ UNCHANGED <<turn, texts, worker, synth, written, finalizer, object, deletion, reader, up, env>>
    BY DEF RunMarkFailed, threads, world
  <1>2. up /\ turn \notin {"new", "started"}
    <2>1. posted \in Seq({"complete", "finalize", "markFailed"})
      BY DEF IInv, TypeOK
    <2>2. 1 \in 1 .. Len(posted) /\ posted[1] = "markFailed"
      BY <1>1, <2>1
    <2>3. QED BY <1>1, <2>2 DEF IInv, PostsTrue, AfterRestart, NothingYet
  <1>3. job.failed => job'.failed
    BY <1>1, MarkIs DEF IInv
  <1>4. posted' \in Seq({"complete", "finalize", "markFailed"}) /\ PostsTrue'
    BY <1>1, <1>3, PostsFewer DEF IInv
  <1>5. QED BY <1>1, <1>2, <1>4, MarkKept

LEMMA NotStoredInv == ASSUME IInv, NotStored PROVE IInv'
  <1>1. /\ posted' = Append(posted, "complete") /\ MarkGenerationFailed
        /\ finalizer = "uncopied" /\ finalizer' = "ended"
        /\ UNCHANGED <<turn, texts, worker, synth, written, object, deletion, reader, up, env>>
    BY DEF NotStored, threads, world
  <1>2. up /\ turn \notin {"new", "started"} /\ synth = "complete"
    BY <1>1 DEF IInv, AfterRestart, NothingYet, StoreTrue
  <1>3. job'.failed
    BY <1>1, MarkIs DEF IInv
  <1>4. posted' \in Seq({"complete", "finalize", "markFailed"}) /\ PostsTrue'
    <2>1. /\ Len(posted') = Len(posted) + 1 /\ posted'[Len(posted')] = "complete"
          /\ \A i \in 1 .. Len(posted) : posted'[i] = posted[i]
          /\ Len(posted) \in Nat /\ posted' \in Seq({"complete", "finalize", "markFailed"})
      BY <1>1 DEF IInv, TypeOK
    <2>2. \A i \in 1 .. Len(posted) : posted[i] # "finalize"
      BY <1>1 DEF IInv, PostsTrue
    <2>3. \A i \in 1 .. Len(posted') : i \in 1 .. Len(posted) \/ posted'[i] = "complete"
      BY <2>1
    <2>4. QED BY <1>1, <1>3, <2>1, <2>2, <2>3 DEF IInv, PostsTrue
  <1>5. QED BY <1>1, <1>2, <1>4, MarkKept

LEMMA FinalizeInv == ASSUME IInv, Finalize PROVE IInv'
  <1> USE DEF IInv
  <1>1. /\ finalizer = "created" /\ finalizer' \in {"ended", "copying"}
        /\ job' = job \/ job' = [job EXCEPT !.finalizeStarted = TRUE]
        /\ UNCHANGED <<turn, texts, worker, synth, spool, written, posted, asset, object, deletion,
                       reader, up, env>>
    BY DEF Finalize, threads, files, world
  <1>2. up /\ synth = "complete" /\ turn \notin {"new", "started"}
    BY <1>1 DEF AfterRestart, StoreTrue, NothingYet
  <1>3. /\ job' \in Job /\ job'.cancelled = job.cancelled /\ job'.failed = job.failed
        /\ job'.cleanupRequested = job.cleanupRequested /\ job'.cleanupDone = job.cleanupDone
        /\ job'.known = job.known /\ job'.bound = job.bound /\ job'.completed = job.completed
    BY <1>1 DEF TypeOK, Job
  <1>4. TypeOK'
    BY <1>1, <1>3 DEF TypeOK
  <1>5. NothingYet' /\ PostsTrue' /\ CompletedTrue' /\ AfterRestart'
    BY <1>1, <1>2, <1>3 DEF NothingYet, PostsTrue, CompletedTrue, AfterRestart
  <1>6. StoreTrue' /\ AssetTrue' /\ SpoolTrue'
    BY <1>1, <1>2, <1>3 DEF StoreTrue, AssetTrue, SpoolTrue
  <1>7. Onwards
    BY <1>1, <1>3 DEF Onwards
  <1>8. QED BY <1>1, <1>4, <1>5, <1>6, <1>7, Conclude

\* The file that is stored has the length of the stream, which is complete.
LEMMA PutFileInv == ASSUME IInv, PutFile PROVE IInv'
  <1> USE DEF IInv
  <1>1. /\ finalizer = "copying"
        /\ \/ finalizer' = "copied" /\ object' = written
           \/ finalizer' = "uncopied" /\ object' = object
        /\ UNCHANGED <<turn, job, texts, worker, synth, spool, written, posted, asset, deletion,
                       reader, up, env>>
    BY DEF PutFile, threads, files, world
  <1>2. up /\ synth = "complete" /\ turn \notin {"new", "started"}
    BY <1>1 DEF AfterRestart, StoreTrue, NothingYet
  <1>3. written # Absent /\ written \in 0 .. Absent
    BY BoundsAssumption DEF TypeOK, Absent
  <1>4. TypeOK' /\ NothingYet' /\ PostsTrue' /\ CompletedTrue' /\ AfterRestart'
    BY <1>1, <1>2, <1>3 DEF TypeOK, NothingYet, PostsTrue, CompletedTrue, AfterRestart
  <1>5. StoreTrue' /\ AssetTrue' /\ SpoolTrue'
    BY <1>1, <1>2, <1>3 DEF StoreTrue, AssetTrue, SpoolTrue
  <1>6. Onwards
    BY <1>1 DEF Onwards
  <1>7. QED BY <1>1, <1>4, <1>5, <1>6, Conclude

\* The spool is left to those who still read it.
LEMMA StoredInv == ASSUME IInv, Stored PROVE IInv'
  <1> USE DEF IInv
  <1>1. /\ finalizer = "copied" /\ finalizer' = "ended" /\ asset' = Upserted("ready", TRUE)
        /\ UNCHANGED <<turn, texts, worker, synth, written, posted, object, deletion, reader, up, env>>
    BY DEF Stored, threads, world
  <1>2. up /\ synth = "complete" /\ turn \notin {"new", "started"} /\ object # Absent
    BY <1>1 DEF AfterRestart, StoreTrue, NothingYet
  <1>3. /\ asset' \in [status: {"none", "generating", "ready", "failed", "gone"}, key: BOOLEAN]
        /\ asset.status = "gone" => asset' = asset
        /\ asset.status # "gone" => asset'.status = "ready" /\ asset'.key = TRUE
    BY <1>1, UpsertedIs
  <1>4. /\ job' \in Job /\ job'.cancelled = job.cancelled /\ job'.failed = job.failed
        /\ job'.completed = job.completed
        /\ (job'.known => job.known) /\ (job'.bound => job.bound)
        /\ (job.cleanupDone => job'.cleanupDone)
        /\ job'.cleanupDone # job.cleanupDone => active_readers = {}
        /\ spool' \in {"none", "linked", "removed"}
        /\ spool' = spool \/ (spool = "linked" /\ spool' = "removed" /\ job'.cleanupDone)
    <2>1. CASE active_readers = {}
      <3>1. job' = Cleaned(job) /\ spool' = Unlinked /\ job \in Job
        BY <2>1 DEF Stored, TypeOK
      <3>2. QED BY <2>1, <3>1, CleanedIs, UnlinkedIs DEF SameSpeech
    <2>2. CASE active_readers # {}
      <3>1. job' = [job EXCEPT !.cleanupRequested = TRUE] /\ spool' = spool /\ job \in Job
            /\ spool \in {"none", "linked", "removed"}
        BY <2>2 DEF Stored, TypeOK
      <3>2. QED BY <3>1 DEF Job
    <2>3. QED BY <2>1, <2>2
  <1>5. TypeOK'
    BY <1>1, <1>3, <1>4 DEF TypeOK
  <1>6. NothingYet' /\ PostsTrue' /\ CompletedTrue' /\ AfterRestart'
    BY <1>1, <1>2, <1>4 DEF NothingYet, PostsTrue, CompletedTrue, AfterRestart
  <1>7. StoreTrue' /\ AssetTrue'
    BY <1>1, <1>2, <1>3, <1>4 DEF StoreTrue, AssetTrue
  <1>8. SpoolTrue'
    BY <1>1, <1>2, <1>4 DEF SpoolTrue, active_readers
  <1>9. Onwards
    BY <1>1, <1>3, <1>4 DEF Onwards
  <1>10. QED BY <1>1, <1>5, <1>6, <1>7, <1>8, <1>9, Conclude

LEMMA DeletionInv == ASSUME IInv, BeginDelete \/ DeleteFiles PROVE IInv'
  <1> USE DEF IInv
  <1>1. CASE BeginDelete
    <2>1. /\ turn \notin {"new", "started"}
          /\ deletion' = [pc |-> "purging", key |-> asset.key]
          /\ asset' = [status |-> "gone", key |-> FALSE]
          /\ UNCHANGED <<turn, job, texts, worker, synth, spool, written, posted, finalizer, object,
                         reader, up, env>>
      BY <1>1 DEF BeginDelete, threads, files, world
    <2>2. asset.key \in BOOLEAN
      BY DEF TypeOK
    <2>3. TypeOK' /\ NothingYet' /\ PostsTrue' /\ CompletedTrue' /\ AfterRestart'
      BY <2>1, <2>2 DEF TypeOK, NothingYet, PostsTrue, CompletedTrue, AfterRestart
    <2>4. StoreTrue' /\ AssetTrue' /\ SpoolTrue'
      BY <2>1, <2>2 DEF StoreTrue, AssetTrue, SpoolTrue
    <2>5. Onwards
      BY <2>1 DEF Onwards
    <2>6. QED BY <2>1, <2>3, <2>4, <2>5, Conclude
  <1>2. CASE DeleteFiles
    <2>1. /\ deletion' = [deletion EXCEPT !.pc = "done"]
          /\ object' = object \/ (deletion.key /\ object' = Absent)
          /\ UNCHANGED <<turn, job, texts, worker, synth, spool, written, posted, finalizer, asset,
                         reader, up, env>>
      BY <1>2 DEF DeleteFiles, threads, files, world
    <2>2. /\ deletion' \in [pc: {"none", "purging", "done", "lost"}, key: BOOLEAN]
          /\ deletion'.key = deletion.key
      BY <2>1 DEF TypeOK
    <2>3. Absent \in 0 .. Absent
      BY BoundsAssumption DEF Absent
    <2>4. TypeOK' /\ NothingYet' /\ PostsTrue' /\ CompletedTrue' /\ AfterRestart'
      BY <2>1, <2>2, <2>3 DEF TypeOK, NothingYet, PostsTrue, CompletedTrue, AfterRestart
    <2>5. StoreTrue' /\ AssetTrue' /\ SpoolTrue'
      BY <2>1, <2>2 DEF StoreTrue, AssetTrue, SpoolTrue
    <2>6. Onwards
      BY <2>1 DEF Onwards
    <2>7. QED BY <2>1, <2>4, <2>5, <2>6, Conclude
  <1>3. QED BY <1>1, <1>2

-----------------------------------------------------------------------------
(* Listening.                                                              *)

Stages == {"idle", "promised", "admitted", "fetching", "ended", "refused", "left"} \cup Listening

LEMMA GoesIs ==
    ASSUME TypeOK, NEW r \in Readers, NEW pc \in Stages, Goes(r, pc)
    PROVE  /\ reader' \in [Readers -> Reader] /\ reader'[r].pc = pc
           /\ reader'[r].heard = reader[r].heard /\ reader'[r].late = reader[r].late
           /\ \A q \in Readers : q # r => reader'[q] = reader[q]
  <1>1. reader \in [Readers -> Reader] /\ reader[r] \in Reader
    BY DEF TypeOK
  <1>2. reader' = [reader EXCEPT ![r] = [reader[r] EXCEPT !.pc = pc]]
    BY DEF Goes
  <1>3. /\ [reader[r] EXCEPT !.pc = pc] \in Reader
        /\ [reader[r] EXCEPT !.pc = pc].pc = pc
        /\ [reader[r] EXCEPT !.pc = pc].heard = reader[r].heard
        /\ [reader[r] EXCEPT !.pc = pc].late = reader[r].late
    BY <1>1 DEF Reader, Stages
  <1>4. QED BY <1>1, <1>2, <1>3

\* A clean-up by a reader is one by the last of them.
QuietClean(r) ==
    /\ job' \in Job /\ SameSpeech(job', job)
    /\ (job'.known => job.known) /\ (job'.bound => job.bound) /\ (job.cleanupDone => job'.cleanupDone)
    /\ job'.bound # job.bound => job.cleanupRequested
    /\ job'.cleanupDone # job.cleanupDone => active_readers = {r}
    /\ spool' \in {"none", "linked", "removed"}
    /\ spool' = spool \/ (spool = "linked" /\ spool' = "removed" /\ job'.cleanupDone)

LEMMA LeavesIs ==
    ASSUME TypeOK, NEW r \in Readers, NEW pc \in Stages, Leaves(r, pc)
    PROVE  Goes(r, pc) /\ QuietClean(r)
  <1>1. job \in Job /\ spool \in {"none", "linked", "removed"}
    BY DEF TypeOK
  <1>2. CASE job.cleanupRequested /\ active_readers = {r}
    <2>1. job' = Cleaned(job) /\ spool' = Unlinked /\ Goes(r, pc)
      BY <1>2 DEF Leaves
    <2>2. QED BY <1>1, <1>2, <2>1, CleanedIs, UnlinkedIs DEF QuietClean
  <1>3. CASE ~(job.cleanupRequested /\ active_readers = {r})
    BY <1>1, <1>3 DEF Leaves, QuietClean, SameSpeech
  <1>4. QED BY <1>2, <1>3

LEMMA NothingCleaned ==
    ASSUME TypeOK, UNCHANGED <<job, spool>>, NEW r
    PROVE  QuietClean(r)
  BY DEF TypeOK, QuietClean, SameSpeech

\* What a listener has to show of itself when it moves; the others do not notice.
ReaderTrue(r) ==
    /\ ~up => reader[r].pc \notin Listening \cup {"admitted"}
    /\ reader[r].pc = "promised" => asset.status # "none"
    /\ reader[r].pc = "fetching" => object # Absent \/ job.failed \/ asset.status = "gone" \/ ~up
    /\ reader[r].pc \in Listening /\ ~reader[r].late /\ job.cleanupDone => job.failed \/ job.cancelled
    /\ ~env.lag => reader[r].pc # "empty"
    /\ reader[r].pc = "refused" => job.failed \/ job.cancelled \/ asset.status = "gone" \/ ~up
    /\ reader[r].pc = "ended" /\ ~reader[r].late /\ ~env.lag /\ ~job.failed /\ ~job.cancelled
            => synth \in {"complete", "broken"} /\ reader[r].heard = written

LEMMA ReaderIsTrue ==
    ASSUME IInv, NEW r \in Readers
    PROVE  ReaderTrue(r)
  BY DEF IInv, ReaderTrue, AfterRestart, AssetTrue, SpoolTrue, RefusedForCause, ReaderHearsAll

LEMMA ReaderKept ==
    ASSUME IInv, NEW r \in Readers, UnchangedByReaders, QuietClean(r),
           reader' \in [Readers -> Reader], ReaderTrue(r)',
           \A q \in Readers : q # r => reader'[q] = reader[q]
    PROVE  IInv'
  <1> USE DEF IInv
  <1>1. UNCHANGED <<turn, texts, worker, synth, written, posted, finalizer, asset, object, deletion, up, env>>
    BY DEF UnchangedByReaders, threads, world
  <1>2. /\ job' \in Job /\ job'.cancelled = job.cancelled /\ job'.failed = job.failed
        /\ job'.completed = job.completed /\ job'.cleanupRequested = job.cleanupRequested
        /\ (job'.known => job.known) /\ (job'.bound => job.bound) /\ (job.cleanupDone => job'.cleanupDone)
        /\ job'.bound # job.bound => job.cleanupRequested
        /\ job'.cleanupDone # job.cleanupDone => active_readers = {r}
        /\ spool' \in {"none", "linked", "removed"}
        /\ spool' = spool \/ (spool = "linked" /\ spool' = "removed" /\ job'.cleanupDone)
    BY DEF QuietClean, SameSpeech
  <1>3. TypeOK'
    BY <1>1, <1>2 DEF TypeOK
  <1>4. \A q \in Readers : ReaderTrue(q)'
    <2>1. SUFFICES ASSUME NEW q \in Readers, q # r
                   PROVE  ReaderTrue(q)'
      OBVIOUS
    <2>2. reader'[q] = reader[q] /\ ReaderTrue(q)
      BY <2>1, ReaderIsTrue
    <2>3. reader[q].pc \in Listening => q \in active_readers
      BY DEF active_readers
    <2>4. QED BY <1>1, <1>2, <2>1, <2>2, <2>3 DEF ReaderTrue
  <1>5. NothingYet' /\ PostsTrue' /\ CompletedTrue' /\ StoreTrue'
    BY <1>1, <1>2 DEF NothingYet, PostsTrue, CompletedTrue, StoreTrue
  <1>6. AfterRestart' /\ AssetTrue' /\ SpoolTrue' /\ RefusedForCause' /\ ReaderHearsAll'
    BY <1>1, <1>2, <1>4 DEF ReaderTrue, AfterRestart, AssetTrue, SpoolTrue, RefusedForCause, ReaderHearsAll
  <1>7. QED BY <1>3, <1>5, <1>6

LEMMA GetUrlInv == ASSUME IInv, NEW r \in Readers, GetUrl(r) PROVE IInv'
  <1>1. /\ Goes(r, "promised") /\ asset.status # "none" /\ UNCHANGED <<job, spool>> /\ UnchangedByReaders
    BY DEF GetUrl
  <1>2. /\ reader' \in [Readers -> Reader] /\ reader'[r].pc = "promised"
        /\ \A q \in Readers : q # r => reader'[q] = reader[q]
    BY <1>1, GoesIs DEF Stages, IInv
  <1>3. ReaderTrue(r)'
    BY <1>1, <1>2 DEF ReaderTrue, UnchangedByReaders, Listening
  <1>4. QED BY <1>1, <1>2, <1>3, NothingCleaned, ReaderKept DEF IInv

\* A promise that cannot be kept was broken for a cause.
LEMMA PlayInv == ASSUME IInv, NEW r \in Readers, Play(r) PROVE IInv'
  <1> USE DEF IInv
  <1>1. PICK pc \in {"admitted", "fetching", "refused"} :
            /\ Goes(r, pc)
            /\ pc = "admitted" => asset.status = "generating" /\ job.bound
            /\ pc = "fetching" => asset.status = "ready" /\ asset.key
            /\ pc = "refused" => ~(asset.status = "generating" /\ job.bound)
                                 /\ ~(asset.status = "ready" /\ asset.key)
    <2>1. CASE asset.status = "generating" /\ job.bound
      BY <2>1 DEF Play
    <2>2. CASE asset.status = "ready" /\ asset.key
      BY <2>2 DEF Play
    <2>3. CASE ~(asset.status = "generating" /\ job.bound) /\ ~(asset.status = "ready" /\ asset.key)
      BY <2>3 DEF Play
    <2>4. QED BY <2>1, <2>2, <2>3
  <1>2. reader[r].pc = "promised" /\ UNCHANGED <<job, spool>> /\ UnchangedByReaders
    BY DEF Play
  <1>3. /\ reader' \in [Readers -> Reader] /\ reader'[r].pc = pc
        /\ \A q \in Readers : q # r => reader'[q] = reader[q]
    BY <1>1, GoesIs DEF Stages
  <1>4. asset.status \in {"generating", "ready", "failed", "gone"}
    <2>1. asset.status \in {"none", "generating", "ready", "failed", "gone"}
      BY DEF TypeOK
    <2>2. QED BY <1>2, <2>1 DEF AssetTrue
  <1>5. CASE pc = "admitted"
    <2>1. up
      BY <1>1, <1>5 DEF AfterRestart
    <2>2. QED BY <1>2, <1>3, <1>5, <2>1, NothingCleaned, ReaderKept
                 DEF ReaderTrue, UnchangedByReaders, Listening, world
  <1>6. CASE pc = "fetching"
    <2>1. object # Absent
      BY <1>1, <1>6 DEF StoreTrue
    <2>2. QED BY <1>2, <1>3, <1>6, <2>1, NothingCleaned, ReaderKept
                 DEF ReaderTrue, UnchangedByReaders, Listening, world
  <1>7. CASE pc = "refused"
    <2>1. job.failed \/ job.cancelled \/ asset.status = "gone" \/ ~up
      BY <1>1, <1>4, <1>7 DEF AssetTrue, StoreTrue
    <2>2. QED BY <1>2, <1>3, <1>7, <2>1, NothingCleaned, ReaderKept
                 DEF ReaderTrue, UnchangedByReaders, Listening, world
  <1>8. QED BY <1>1, <1>5, <1>6, <1>7

LEMMA FetchInv == ASSUME IInv, NEW r \in Readers, Fetch(r) PROVE IInv'
  <1> USE DEF IInv
  <1>1. reader[r].pc = "fetching" /\ UNCHANGED <<job, spool>> /\ UnchangedByReaders
    BY DEF Fetch
  <1>2. reader \in [Readers -> Reader] /\ reader[r] \in Reader /\ object \in 0 .. Absent
    BY DEF TypeOK
  <1>3. CASE object = Absent
    <2>1. Goes(r, "refused")
      BY <1>2, <1>3 DEF Fetch, Goes
    <2>2. /\ reader' \in [Readers -> Reader] /\ reader'[r].pc = "refused"
          /\ \A q \in Readers : q # r => reader'[q] = reader[q]
      BY <2>1, GoesIs DEF Stages
    <2>3. job.failed \/ asset.status = "gone" \/ ~up
      BY <1>1, <1>3 DEF AssetTrue
    <2>4. QED BY <1>1, <2>2, <2>3, NothingCleaned, ReaderKept
                 DEF ReaderTrue, UnchangedByReaders, Listening, world
  <1>4. CASE object # Absent
    <2>1. reader' = [reader EXCEPT ![r] = [reader[r] EXCEPT !.pc = "ended", !.heard = object]]
      BY <1>2, <1>4 DEF Fetch
    <2>2. object \in 0 .. MaxChunks /\ object = written /\ synth \in {"complete", "broken"}
      BY <1>2, <1>4, BoundsAssumption DEF StoreTrue, Absent
    <2>3. /\ [reader[r] EXCEPT !.pc = "ended", !.heard = object] \in Reader
          /\ [reader[r] EXCEPT !.pc = "ended", !.heard = object].pc = "ended"
          /\ [reader[r] EXCEPT !.pc = "ended", !.heard = object].heard = object
      BY <1>2, <2>2 DEF Reader
    <2>4. /\ reader' \in [Readers -> Reader] /\ reader'[r].pc = "ended" /\ reader'[r].heard = object
          /\ \A q \in Readers : q # r => reader'[q] = reader[q]
      BY <1>2, <2>1, <2>3
    <2>5. ReaderTrue(r)'
      BY <1>1, <2>2, <2>4 DEF ReaderTrue, UnchangedByReaders, Listening, threads, world
    <2>6. QED BY <1>1, <2>4, <2>5, NothingCleaned, ReaderKept
  <1>5. QED BY <1>3, <1>4

\* Who begins to listen after the clean-up is late.
LEMMA AdmitInv == ASSUME IInv, NEW r \in Readers, Admit(r) PROVE IInv'
  <1> USE DEF IInv
  <1>1. reader[r].pc = "admitted" /\ UNCHANGED <<job, spool>> /\ UnchangedByReaders
    BY DEF Admit
  <1>2. reader \in [Readers -> Reader] /\ reader[r] \in Reader /\ job.cleanupDone \in BOOLEAN
    BY DEF TypeOK, Job
  <1>3. reader' = [reader EXCEPT ![r] = [reader[r] EXCEPT !.pc = "awaiting", !.late = job.cleanupDone]]
    BY <1>2 DEF Admit
  <1>4. /\ [reader[r] EXCEPT !.pc = "awaiting", !.late = job.cleanupDone] \in Reader
        /\ [reader[r] EXCEPT !.pc = "awaiting", !.late = job.cleanupDone].pc = "awaiting"
        /\ [reader[r] EXCEPT !.pc = "awaiting", !.late = job.cleanupDone].late = job.cleanupDone
    BY <1>2 DEF Reader, Listening
  <1>5. /\ reader' \in [Readers -> Reader] /\ reader'[r].pc = "awaiting"
        /\ reader'[r].late = job.cleanupDone
        /\ \A q \in Readers : q # r => reader'[q] = reader[q]
    BY <1>2, <1>3, <1>4
  <1>6. up
    BY <1>1 DEF AfterRestart
  <1>7. ReaderTrue(r)'
    BY <1>1, <1>5, <1>6 DEF ReaderTrue, UnchangedByReaders, Listening, world
  <1>8. QED BY <1>1, <1>5, <1>7, NothingCleaned, ReaderKept

\* A listener that goes on listening.
LEMMA ListensOn ==
    ASSUME IInv, NEW r \in Readers, NEW pc \in {"reading", "empty"}, reader[r].pc \in Listening,
           pc = "empty" => env.lag, Goes(r, pc), UnchangedByReaders, UNCHANGED <<job, spool>>
    PROVE  IInv'
  <1>1. /\ reader' \in [Readers -> Reader] /\ reader'[r].pc = pc /\ reader'[r].late = reader[r].late
        /\ \A q \in Readers : q # r => reader'[q] = reader[q]
    BY GoesIs DEF Stages, Listening, IInv
  <1>2. ReaderTrue(r)'
    BY <1>1, ReaderIsTrue DEF ReaderTrue, UnchangedByReaders, Listening, world
  <1>3. QED BY <1>1, <1>2, NothingCleaned, ReaderKept DEF IInv

LEMMA ListenInv ==
    ASSUME IInv, NEW r \in Readers, OpenSpool(r) \/ ReadNothing(r) \/ Again(r)
    PROVE  IInv'
  <1>1. CASE OpenSpool(r)
    BY <1>1, ListensOn DEF OpenSpool, Listening
  <1>2. CASE ReadNothing(r)
    BY <1>2, ListensOn DEF ReadNothing, Listening
  <1>3. CASE Again(r)
    BY <1>3, ListensOn DEF Again, Listening
  <1>4. QED BY <1>1, <1>2, <1>3

LEMMA ReadChunkInv == ASSUME IInv, NEW r \in Readers, ReadChunk(r) PROVE IInv'
  <1> USE DEF IInv
  <1>1. /\ reader[r].pc = "reading" /\ reader[r].heard < written
        /\ UNCHANGED <<job, spool>> /\ UnchangedByReaders
    BY DEF ReadChunk
  <1>2. reader \in [Readers -> Reader] /\ reader[r] \in Reader /\ written \in 0 .. MaxChunks
    BY DEF TypeOK
  <1>3. reader' = [reader EXCEPT ![r] = [reader[r] EXCEPT !.heard = reader[r].heard + 1]]
    BY <1>2 DEF ReadChunk
  <1>4. reader[r].heard \in 0 .. MaxChunks /\ reader[r].heard + 1 \in 0 .. MaxChunks
    BY <1>1, <1>2, BoundsAssumption DEF Reader
  <1>5. /\ [reader[r] EXCEPT !.heard = reader[r].heard + 1] \in Reader
        /\ [reader[r] EXCEPT !.heard = reader[r].heard + 1].pc = "reading"
        /\ [reader[r] EXCEPT !.heard = reader[r].heard + 1].late = reader[r].late
    BY <1>1, <1>2, <1>4 DEF Reader
  <1>6. /\ reader' \in [Readers -> Reader] /\ reader'[r].pc = "reading"
        /\ reader'[r].late = reader[r].late
        /\ \A q \in Readers : q # r => reader'[q] = reader[q]
    BY <1>2, <1>3, <1>5
  <1>7. ReaderTrue(r)'
    BY <1>1, <1>6, ReaderIsTrue DEF ReaderTrue, UnchangedByReaders, Listening, world
  <1>8. QED BY <1>1, <1>6, <1>7, NothingCleaned, ReaderKept

\* A listener that leaves, at the end of what there is or before.
LEMMA LeavesKept ==
    ASSUME IInv, NEW r \in Readers, NEW pc \in {"ended", "left"}, Leaves(r, pc), UnchangedByReaders,
           pc = "ended" /\ ~reader[r].late /\ ~env.lag /\ ~job.failed /\ ~job.cancelled
               => synth = "complete" /\ reader[r].heard = written
    PROVE  IInv'
  <1>1. Goes(r, pc) /\ QuietClean(r)
    BY LeavesIs DEF IInv, Stages
  <1>2. /\ reader' \in [Readers -> Reader] /\ reader'[r].pc = pc
        /\ reader'[r].heard = reader[r].heard /\ reader'[r].late = reader[r].late
        /\ \A q \in Readers : q # r => reader'[q] = reader[q]
    BY <1>1, GoesIs DEF Stages, IInv
  <1>3. job'.failed = job.failed /\ job'.cancelled = job.cancelled
    BY <1>1 DEF QuietClean, SameSpeech
  <1>4. UNCHANGED <<synth, written, asset, object, up, env>>
    BY DEF UnchangedByReaders, threads, world
  <1>5. ReaderTrue(r)'
    BY <1>2, <1>3, <1>4 DEF ReaderTrue, Listening
  <1>6. QED BY <1>1, <1>2, <1>5, ReaderKept

\* Without a spool file the end comes early only for those who were late, or after a failure.
LEMMA NoSpoolInv == ASSUME IInv, NEW r \in Readers, NoSpool(r) PROVE IInv'
  <1> USE DEF IInv
  <1>1. /\ reader[r].pc = "awaiting" /\ spool # "linked" /\ job.completed
        /\ Leaves(r, "ended") /\ UnchangedByReaders
    BY DEF NoSpool
  <1>2. up
    BY <1>1 DEF AfterRestart, Listening
  <1>3. spool \in {"none", "removed"}
    BY <1>1 DEF TypeOK
  <1>4. CASE spool = "none"
    BY <1>1, <1>2, <1>4, LeavesKept DEF SpoolTrue, CompletedTrue
  <1>5. CASE spool = "removed"
    BY <1>1, <1>5, LeavesKept DEF SpoolTrue, Listening
  <1>6. QED BY <1>3, <1>4, <1>5

LEMMA StopInv == ASSUME IInv, NEW r \in Readers, Stop(r) PROVE IInv'
  <1> USE DEF IInv
  <1>1. /\ AtEnd(r) /\ job.completed /\ Leaves(r, "ended") /\ UnchangedByReaders
    BY DEF Stop
  <1>2. up
    BY <1>1 DEF AfterRestart, Listening, AtEnd
  <1>3. job.failed \/ synth = "complete"
    BY <1>1, <1>2 DEF CompletedTrue
  <1>4. ~env.lag => reader[r].heard = written
    BY <1>1 DEF AtEnd, SpoolTrue
  <1>5. QED BY <1>1, <1>3, <1>4, LeavesKept

LEMMA DisconnectInv == ASSUME IInv, NEW r \in Readers, Disconnect(r) PROVE IInv'
  <1> USE DEF IInv
  <1>1. UnchangedByReaders
    BY DEF Disconnect
  <1>2. CASE reader[r].pc = "admitted"
    <2>1. Goes(r, "left") /\ UNCHANGED <<job, spool>>
      BY <1>2 DEF Disconnect
    <2>2. /\ reader' \in [Readers -> Reader] /\ reader'[r].pc = "left"
          /\ \A q \in Readers : q # r => reader'[q] = reader[q]
      BY <2>1, GoesIs DEF Stages
    <2>3. ReaderTrue(r)'
      BY <2>2 DEF ReaderTrue, Listening
    <2>4. QED BY <1>1, <2>1, <2>2, <2>3, NothingCleaned, ReaderKept
  <1>3. CASE reader[r].pc # "admitted"
    BY <1>1, <1>3, LeavesKept DEF Disconnect
  <1>4. QED BY <1>2, <1>3

\* The process is killed: what was under way ends, what is stored stays.
LEMMA RestartInv == ASSUME IInv, Restart PROVE IInv'
  <1> USE DEF IInv
  <1>1. /\ up /\ ~up' /\ up' \in BOOLEAN /\ turn' = "lost" /\ texts' = <<>> /\ worker' = "ended" /\ synth' = "broken"
        /\ posted' = <<>> /\ finalizer' = "ended" /\ UNCHANGED <<spool, written, asset, object, env>>
    BY DEF Restart, files
  <1>2. /\ job' \in Job /\ ~job'.known /\ ~job'.bound /\ job'.failed = job.failed
        /\ job'.cancelled = job.cancelled /\ job'.completed = job.completed
        /\ job'.cleanupDone = job.cleanupDone /\ job'.cleanupRequested = job.cleanupRequested
    BY DEF Restart, TypeOK, Job
  <1>3. /\ deletion' \in [pc: {"none", "purging", "done", "lost"}, key: BOOLEAN]
        /\ deletion'.key = deletion.key
    <2>1. deletion \in [pc: {"none", "purging", "done", "lost"}, key: BOOLEAN]
      BY DEF TypeOK
    <2>2. \/ deletion' = [deletion EXCEPT !.pc = "lost"]
          \/ deletion' = [deletion EXCEPT !.pc = deletion.pc]
      BY DEF Restart
    <2>3. QED BY <2>1, <2>2
  <1>4. /\ reader' \in [Readers -> Reader]
        /\ \A r \in Readers :
            \/ reader'[r] = reader[r] /\ reader[r].pc \notin Listening \cup {"admitted", "fetching"}
            \/ reader'[r].pc = "left"
    <2>1. reader \in [Readers -> Reader] /\ \A r \in Readers : reader[r] \in Reader
      BY DEF TypeOK
    <2>2. \A r \in Readers : /\ [reader[r] EXCEPT !.pc = "left"] \in Reader
                             /\ [reader[r] EXCEPT !.pc = "left"].pc = "left"
      BY <2>1 DEF Reader
    <2>3. reader' = [r \in Readers |-> IF reader[r].pc \in Listening \cup {"admitted", "fetching"}
                                       THEN [reader[r] EXCEPT !.pc = "left"] ELSE reader[r]]
      BY DEF Restart
    <2>4. QED BY <2>1, <2>2, <2>3
  <1>5. TypeOK'
    BY <1>1, <1>2, <1>3, <1>4 DEF TypeOK
  <1>6. NothingYet' /\ PostsTrue' /\ CompletedTrue' /\ AfterRestart'
    BY <1>1, <1>2, <1>4 DEF NothingYet, PostsTrue, CompletedTrue, AfterRestart, Listening
  <1>7. StoreTrue' /\ AssetTrue' /\ SpoolTrue'
    BY <1>1, <1>2, <1>3, <1>4 DEF StoreTrue, AssetTrue, SpoolTrue, Listening
  <1>8. RefusedForCause' /\ ReaderHearsAll'
    BY <1>1, <1>2, <1>4 DEF RefusedForCause, ReaderHearsAll
  <1>9. QED BY <1>5, <1>6, <1>7, <1>8

LEMMA StutterInv == ASSUME IInv, UNCHANGED vars PROVE IInv'
  <1>1. UNCHANGED <<turn, job, texts, worker, synth, spool, written, posted, finalizer, asset,
                    object, deletion, reader, up, env>>
    BY DEF vars, threads, files, world
  <1>2. TypeOK' /\ NothingYet' /\ PostsTrue' /\ CompletedTrue' /\ AfterRestart'
    BY <1>1 DEF IInv, TypeOK, NothingYet, PostsTrue, CompletedTrue, AfterRestart
  <1>3. StoreTrue' /\ AssetTrue' /\ SpoolTrue' /\ Onwards
    BY <1>1 DEF IInv, StoreTrue, AssetTrue, SpoolTrue, Onwards
  <1>4. QED BY <1>1, <1>2, <1>3, Conclude

-----------------------------------------------------------------------------
(* The theorems.                                                           *)

LEMMA TurnInv == ASSUME IInv, TurnSteps PROVE IInv'
  BY StartGenerationInv, BindGenerationInv, AppendTextInv, FinishGenerationInv, CancelInv,
     VanishInv, DiscardVersionInv DEF TurnSteps

LEMMA WorkerInv == ASSUME IInv, WorkerSteps PROVE IInv'
  BY CreateInv, SendInv, TakeSentinelInv, CompleteInv DEF WorkerSteps

LEMMA LoopInv == ASSUME IInv, LoopSteps PROVE IInv'
  BY RunCompleteInv, RunFinalizeInv, RunMarkFailedInv, FinalizeInv, StoredInv, NotStoredInv
     DEF LoopSteps

LEMMA ReaderInv == ASSUME IInv, NEW r \in Readers, ReaderSteps(r) PROVE IInv'
  BY AdmitInv, ListenInv, NoSpoolInv, ReadChunkInv, StopInv DEF ReaderSteps

LEMMA NextInv == ASSUME IInv, [Next]_vars PROVE IInv'
  BY TurnInv, WorkerInv, LoopInv, OnDataInv, OnCompleteInv, OnErrorInv, PutFileInv, DeletionInv,
     GetUrlInv, PlayInv, FetchInv, ReaderInv, DisconnectInv, RestartInv, StutterInv DEF Next

LEMMA Invariant == Spec => []IInv
  BY InitInv, NextInv, PTL DEF Spec

\* Every reachable state is well typed: what is queued for the worker and for the loop, what is
\* heard and what is stored stay within what the turn and the synthesiser produced.
THEOREM TypeCorrect == Spec => []TypeOK
  <1>1. IInv => TypeOK
    BY DEF IInv
  <1>2. QED BY <1>1, Invariant, PTL

\* The asset of a version becomes ready only with the whole of a completed stream in the store,
\* however failures, deletions, clean-ups and restarts interleave.
THEOREM ReadyOnlyWhole == Spec => []ReadyIsWhole
  <1>1. IInv => ReadyIsWhole
    BY DEF IInv, StoreTrue, ReadyIsWhole
  <1>2. QED BY <1>1, Invariant, PTL

\* A promised playback is refused only after a failure, a cancellation, a deletion or a restart.
THEOREM NoIdleRefusal == Spec => []RefusedForCause
  <1>1. IInv => RefusedForCause
    BY DEF IInv
  <1>2. QED BY <1>1, Invariant, PTL

\* Listeners, however many, hear the whole of a speech that succeeds, also when it is stored and its
\* spool file removed while they listen.
THEOREM ListenersHearAll == Spec => []ReaderHearsAll
  <1>1. IInv => ReaderHearsAll
    BY DEF IInv
  <1>2. QED BY <1>1, Invariant, PTL

=============================================================================
