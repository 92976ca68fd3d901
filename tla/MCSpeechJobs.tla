----------------------------- MODULE MCSpeechJobs -----------------------------
(* The circumstances in which TLC examines SpeechJobs. *)
EXTENDS SpeechJobs

Calm == [listeners |-> Readers, stops |-> FALSE, deletes |-> FALSE, shuts |-> FALSE, kills |-> FALSE,
         synth |-> FALSE, worker |-> FALSE, store |-> FALSE, lag |-> TRUE]
\* The reader is resumed with what the thread pool read before anything else happens.
Prompt  == [Calm EXCEPT !.lag = FALSE, !.store = TRUE]
Stopped == [Calm EXCEPT !.stops = TRUE, !.lag = FALSE]
Faulty  == [Prompt EXCEPT !.synth = TRUE]
\* Everything may go wrong.
Rough   == [listeners |-> {CHOOSE r \in Readers : TRUE}, stops |-> TRUE, deletes |-> TRUE, shuts |-> TRUE, kills |-> TRUE,
            synth |-> TRUE, worker |-> TRUE, store |-> TRUE, lag |-> TRUE]

AllSurroundings == {Calm, Prompt, Stopped, Faulty, Rough}
=============================================================================
