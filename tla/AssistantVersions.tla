------------------------- MODULE AssistantVersions -------------------------
(***************************************************************************)
(* What the chat component promises the reader of a thread, without        *)
(* sessions, checkpoints and coroutines: a message has numbered versions   *)
(* and shows one of them as it is; a version is written by its own request *)
(* alone, settles once and then stays; a regeneration that fails takes its *)
(* version away and brings back the one it replaced.  A request that is    *)
(* lost leaves its version streaming.                                      *)
(***************************************************************************)
EXTENDS Naturals, Sequences

CONSTANTS
    Turn, NoTurn,   \* requests, each named like the one version it creates
    MaxVersions     \* how many versions a message may have

VARIABLES
    asked,      \* the requests made so far
    open,       \* those still writing, with the version each has replaced
    thread,     \* the messages, in order, each named by its first version
    version,    \* per name: the version, or Nothing
    shown       \* per message: what its reader sees

reader == <<asked, open, thread, version, shown>>

Nothing == [of |-> NoTurn]
VersionOf(m, number, status, text) ==
    [of |-> m, number |-> number, status |-> status, text |-> text]
Row(v, status, text) == [current |-> v, status |-> status, text |-> text]

NoText == [by |-> NoTurn, kind |-> "empty"]
\* A completed version holds its request's answer, another what came of it.
Words(v, status) ==
    [by |-> v, kind |-> IF status = "completed" THEN "answer" ELSE "remains"]

Versions(m) == {v \in Turn : version[v].of = m}
Latest == thread[Len(thread)]

Init ==
    /\ asked = {} /\ open = {}
    /\ thread = <<>>
    /\ version = [v \in Turn |-> Nothing]
    /\ shown = [m \in Turn |-> Row(NoTurn, "streaming", NoText)]

Begin(v, m, number, before) ==
    /\ v \notin asked
    /\ asked' = asked \cup {v}
    /\ open' = open \cup {[turn |-> v, before |-> before]}
    /\ version' = [version EXCEPT ![v] = VersionOf(m, number, "streaming", NoText)]
    /\ shown' = [shown EXCEPT ![m] = Row(v, "streaming", NoText)]

\* A question opens a message with its first version.
Ask(v) ==
    /\ thread' = Append(thread, v)
    /\ Begin(v, v, 1, NoTurn)

\* The latest message gets another version, numbered after the last one it has.
Again(v) ==
    /\ thread # <<>>
    /\ \E number \in 2 .. MaxVersions :
        /\ \A w \in Versions(Latest) : version[w].number < number
        /\ \E w \in Versions(Latest) : version[w].number = number - 1
        /\ Begin(v, Latest, number, shown[Latest].current)
    /\ UNCHANGED thread

\* A streaming version settles, in the hands of its request, and is shown.  Only the
\* first version of a message stays when it was stopped or has failed.
Settle(w, status) ==
    LET v == w.turn IN
    /\ w \in open /\ open' = open \ {w}
    /\ version[v].of # NoTurn
    /\ version[v].status = "streaming"
    /\ status = "completed" \/ version[v].of = v
    /\ version' = [version EXCEPT ![v].status = status, ![v].text = Words(v, status)]
    /\ shown' = [shown EXCEPT ![version[v].of] = Row(v, status, Words(v, status))]
    /\ UNCHANGED <<asked, thread>>

\* A failed regeneration leaves no trace, if what it replaced is still there.
Discard(w) ==
    LET v == w.turn
        m == version[v].of
        b == w.before
    IN
    /\ w \in open /\ open' = open \ {w}
    /\ m \notin {NoTurn, v}
    /\ version[v].status = "streaming"
    /\ version' = [version EXCEPT ![v] = Nothing]
    /\ shown' = IF b \in Versions(m) \ {v}
                THEN [shown EXCEPT ![m] = Row(b, version[b].status, version[b].text)]
                ELSE shown
    /\ UNCHANGED <<asked, thread>>

\* Requests whose thread was cleared, or that are lost, write nothing any more.
Leave ==
    /\ open' \subseteq open
    /\ UNCHANGED <<asked, thread, version, shown>>

\* The reader turns the pages of the latest message.
Show(v) ==
    /\ thread # <<>> /\ v \in Versions(Latest)
    /\ shown' = [shown EXCEPT ![Latest] = Row(v, version[v].status, version[v].text)]
    /\ UNCHANGED <<asked, open, thread, version>>

Clear ==
    /\ thread' = <<>>
    /\ version' = [v \in Turn |-> Nothing]
    /\ shown' = [m \in Turn |-> Row(NoTurn, "streaming", NoText)]
    /\ UNCHANGED <<asked, open>>

Next ==
    \/ Leave
    \/ \E w \in open :
        \/ \E status \in {"completed", "stopped", "failed"} : Settle(w, status)
        \/ Discard(w)
    \/ \E v \in Turn : Ask(v) \/ Again(v) \/ Show(v)
    \/ Clear

Spec == Init /\ [][Next]_reader
=============================================================================
