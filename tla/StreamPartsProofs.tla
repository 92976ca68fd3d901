--------------------------- MODULE StreamPartsProofs ---------------------------
(***************************************************************************)
(* Theorems about StreamParts for every run of the agent: any number of    *)
(* deltas and tool calls, and whatever raises or stops.                    *)
(***************************************************************************)
EXTENDS StreamParts, DataLemmas

\* A part is a record of its four fields, its text a sequence of S; parts are a
\* sequence of them.
TypedPart(p, S) ==
    /\ p = TextPart(p.id, p.type, p.text, p.status)
    /\ p.type \in TextTypes \cup {"tool"} /\ p.status \in PartStatus /\ p.text \in Seq(S)
TypedParts(parts, S) == IsSeq(parts) /\ \A i \in 1 .. Len(parts) : TypedPart(parts[i], S)
TypedEvent(e, S) ==
    \/ e.event \in {"part.delta", "tool"} /\ TypedPart(e.part, S)
    \/ /\ e.event = "message.completed" /\ TypedParts(e.row.parts, S)
       /\ e.row.status \in {"completed", "stopped", "failed"}
    \/ e = ErrorEvent \/ e = Sentinel
TypedEvents(events, S) == IsSeq(events) /\ \A i \in 1 .. Len(events) : TypedEvent(events[i], S)

Statuses == {"streaming", "completed", "stopped", "failed"}
Typed ==
    LET S == DOMAIN run.deltas IN
    /\ run \in Runs /\ returned \subseteq DOMAIN run.calls
    /\ state = [parts |-> state.parts, text |-> state.text, last |-> state.last,
                sources |-> state.sources]
    /\ TypedParts(state.parts, S) /\ state.text \in Seq(S) /\ state.last \in [TextTypes -> Nat]
    /\ consumer \in [Consumers -> [pc: {"reading", "awaiting", "over", "raised"}, n: Nat]]
    /\ TypedEvents(queue, S) /\ TypedEvents(wire, S)
    /\ handler \in [pc: Phases, done: 0 .. 2]
    /\ TypedParts(stored.parts, S) /\ stored.status \in Statuses
    /\ page = [status |-> page.status, text |-> page.text, parts |-> page.parts]
    /\ TypedParts(page.parts, S) /\ page.status \in Statuses

\* The names of the parts: texts count on by type, tools are named by their calls.
NamedText(p, last) == p.type \in TextTypes /\ \E k \in 1 .. last[p.type] : p.id = <<p.type, k>>
NamedTool(p, n)    == p.type = "tool" /\ \E c \in 1 .. n : p.id = <<"tool", c>>
Named(parts, last, n) ==
    /\ \A i \in 1 .. Len(parts) : NamedText(parts[i], last) \/ NamedTool(parts[i], n)
    /\ \A i, k \in 1 .. Len(parts) : parts[i].id = parts[k].id => i = k
LastStreams(parts) == \A i \in 1 .. Len(parts) : Streams(parts[i]) => i = Len(parts)
PartsTrue == Named(state.parts, state.last, consumer["tools"].n) /\ LastStreams(state.parts)

\* The turn has neither failed nor been cut off.
Undisturbed == handler.pc \in {"relaying", "completing"}

\* Every call that was started has its part, which runs only while the call is awaited.
DoneStatus(call) == IF call.error THEN "error" ELSE "success"
Started(parts, n, calls) ==
    \A c \in 1 .. n : \E i \in 1 .. Len(parts) :
        /\ parts[i].id = <<"tool", c>>
        /\ parts[i].status = DoneStatus(calls[c]) \/ (c = n /\ parts[i].status = "running")
ToolsTrue ==
    LET n == consumer["tools"].n  pc == consumer["tools"].pc IN
    /\ n <= Len(run.calls)
    /\ pc = "awaiting" => n # 0
    /\ Started(state.parts, n, run.calls)
    /\ \A i \in 1 .. Len(state.parts) : state.parts[i].status = "running" =>
          /\ state.parts[i].id = <<"tool", n>> /\ pc # "reading"
          /\ ~(pc = "over" /\ Undisturbed)

\* The parts hold what was read.
SaidBy(deltas, type, n) ==
    FlattenSeq([d \in 1 .. n |-> IF deltas[d].type = type THEN <<d>> ELSE <<>>])
SaidTrue ==
    LET n == consumer["messages"].n IN
    /\ n <= Len(run.deltas)
    /\ \A type \in TextTypes : TextOf(state.parts, type) = SaidBy(run.deltas, type, n)
    /\ state.text = SaidBy(run.deltas, "text", n)

\* Each consumer puts one sentinel, at its end.
Gone == {who \in Consumers : consumer[who].pc \in {"over", "raised"}}
EndsSeen(q, done, gone) ==
    LET ends == {i \in 1 .. Len(q) : q[i].event = "none"} IN
    /\ done = 0 => /\ \A i \in ends : gone # {}
                   /\ \A i, k \in ends : i # k => gone = Consumers
    /\ done = 1 => gone # {} /\ \A i \in ends : gone = Consumers
    /\ done = 2 => gone = Consumers
EndsTrue == EndsSeen(queue, handler.done, Gone)

\* Unless the turn is cut off, a consumer that is over has read everything, and the
\* relay ends when both are.
OverTrue ==
    /\ Undisturbed => \A who \in Consumers : consumer[who].pc = "over" =>
          AllAnswered /\ consumer[who].n = Len(IF who = "messages" THEN run.deltas ELSE run.calls)
    /\ handler.pc = "completing" => \A who \in Consumers : consumer[who].pc = "over"

\* s begins t.
Begins(s, t) == /\ IsSeq(s) /\ IsSeq(t) /\ Len(s) <= Len(t)
                /\ \A i \in 1 .. Len(s) : s[i] = t[i]

\* Events turn parts P into Q, and after each of them no more is shown than was said.
Leads(P, events, Q, said) ==
    /\ Shown(P, events)[Len(events)] = Q
    /\ \A n \in 0 .. Len(events) : Begins(TextOf(Shown(P, events)[n], "text"), said)

\* The wire takes the page to what the handler has relayed, the queue from there to the server's parts.
Mirrors(shown, w, q, parts, said) ==
    /\ \A i \in 1 .. Len(w) : w[i].event \in {"part.delta", "tool"}
    /\ \A i \in 1 .. Len(q) : q[i].event \in {"part.delta", "tool", "none"}
    /\ Leads(shown, w, Shown(shown, w)[Len(w)], said)
    /\ Leads(Shown(shown, w)[Len(w)], q, parts, said)
MirrorTrue ==
    Undisturbed /\ page.status # "stopped" =>
        /\ page.status = "streaming" /\ Begins(page.text, state.text)
        /\ Mirrors(page.parts, wire, queue, state.parts, state.text)

\* What is stored, and what a page that has stopped goes on showing.
Whole(row, deltas, calls) ==
    /\ \A type \in TextTypes : TextOf(row.parts, type) = SaidBy(deltas, type, Len(deltas))
    /\ row.text = TextOf(row.parts, "text")
    /\ \A c \in 1 .. Len(calls) : \E i \in 1 .. Len(row.parts) :
            row.parts[i].id = <<"tool", c>> /\ row.parts[i].status = DoneStatus(calls[c])
    /\ \A i \in 1 .. Len(row.parts) : row.parts[i].status \notin {"streaming", "running"}
StoredTrue == stored.status = "completed" => Whole(stored, run.deltas, run.calls)
StopTrue ==
    /\ handler.pc # "over" => stored.status = "streaming"
    /\ handler.pc \in {"closing", "stopping"} => page.status = "stopped"
    /\ stored.status = "stopped" => page.status = "stopped" /\ Begins(page.text, stored.text)
    /\ page.status = "stopped" /\ handler.pc \notin {"failing", "over", "gone"} =>
          Begins(page.text, state.text)

IInv == Typed /\ PartsTrue /\ ToolsTrue /\ SaidTrue /\ EndsTrue /\ OverTrue /\ MirrorTrue
        /\ StoredTrue /\ StopTrue

-----------------------------------------------------------------------------
(* Beginnings.                                                             *)

LEMMA BeginsItself == ASSUME NEW s, IsSeq(s) PROVE Begins(s, s)
  BY SeqFacts DEF Begins

LEMMA BeginsMore ==
    ASSUME NEW s, NEW t, Begins(s, t), NEW e
    PROVE  Begins(s, Append(t, e))
  <1> DEFINE u == Append(t, e)
  <1>1. /\ IsSeq(s) /\ IsSeq(t) /\ Len(s) <= Len(t) /\ \A i \in 1 .. Len(s) : s[i] = t[i]
        /\ Len(s) \in Nat /\ Len(t) \in Nat
    BY SeqFacts DEF Begins
  <1>2. IsSeq(u) /\ Len(u) = Len(t) + 1 /\ \A i \in 1 .. Len(t) : u[i] = t[i]
    BY <1>1, AppendIs
  <1> HIDE DEF u
  <1>3. Begins(s, u)
    BY <1>1, <1>2 DEF Begins
  <1>4. QED BY <1>3 DEF u

LEMMA BeginsIsPrefix == ASSUME NEW s, NEW t, Begins(s, t) PROVE IsPrefix(s, t)
  <1> DEFINE S == Range(s) \cup Range(t)  m == Len(s)
  <1>1. /\ IsSeq(s) /\ IsSeq(t) /\ m <= Len(t) /\ \A i \in 1 .. m : s[i] = t[i]
        /\ m \in Nat /\ Len(t) \in Nat
    BY SeqFacts DEF Begins
  <1>2. (\A i \in 1 .. Len(s) : s[i] \in S) /\ (\A i \in 1 .. Len(t) : t[i] \in S)
    BY <1>1, SeqFacts DEF Range
  <1> HIDE DEF S
  <1>3. s \in Seq(S) /\ t \in Seq(S)
    BY <1>1, <1>2, SeqFacts
  <1>4. SubSeq(s, 1, m) = [i \in 1 .. m |-> s[i]] /\ SubSeq(t, 1, m) = [i \in 1 .. m |-> t[i]]
    <2>1. Len(s) = m
      OBVIOUS
    <2> HIDE DEF m
    <2>2. SubSeq(s, 1, m) = [i \in 1 .. m |-> s[i]]
      BY <1>1, <1>3, <2>1
    <2>3. SubSeq(t, 1, m) = [i \in 1 .. m |-> t[i]]
      BY <1>1, <1>3
    <2>4. QED BY <2>2, <2>3
  <1>5. SubSeq(s, 1, m) = SubSeq(t, 1, m)
    BY <1>1, <1>4
  <1>6. QED BY <1>1, <1>5 DEF IsPrefix

-----------------------------------------------------------------------------
(* What the page shows after some events.                                  *)

\* F shows what each of the first n events makes of the parts.
Shows(F, P, E, n) == F = [i \in 0 .. n |-> IF i = 0 THEN P ELSE ApplyPart(F[i - 1], E[i])]

LEMMA ShowsUpTo == ASSUME NEW m \in Nat, NEW P, NEW E PROVE \E F : Shows(F, P, E, m)
  <1> DEFINE T == {n \in Nat : \E F : Shows(F, P, E, n)}
  <1>1. 0 \in T
    <2> DEFINE F == [i \in 0 .. 0 |-> P]
    <2>1. Shows(F, P, E, 0)
      BY DEF Shows
    <2>2. QED BY <2>1
  <1>2. ASSUME NEW n \in Nat, n \in T
        PROVE  n + 1 \in T
    <2>1. PICK F : Shows(F, P, E, n)
      BY <1>2
    <2> DEFINE G == [i \in 0 .. n + 1 |-> IF i = n + 1 THEN ApplyPart(F[n], E[n + 1]) ELSE F[i]]
    <2>2. \A i \in 0 .. n : F[i] = IF i = 0 THEN P ELSE ApplyPart(F[i - 1], E[i])
      BY <2>1 DEF Shows
    <2>3. ASSUME NEW i \in 0 .. n + 1
          PROVE  G[i] = IF i = 0 THEN P ELSE ApplyPart(G[i - 1], E[i])
      <3>1. CASE i = n + 1
        <4>1. i # 0 /\ i - 1 = n /\ n \in 0 .. n + 1 /\ n # n + 1
          BY <3>1
        <4>2. G[i - 1] = F[n] /\ G[i] = ApplyPart(F[n], E[n + 1])
          BY <3>1, <4>1
        <4>3. QED BY <3>1, <4>1, <4>2
      <3>2. CASE i # n + 1
        <4>1. i \in 0 .. n /\ (i # 0 => i - 1 \in 0 .. n + 1 /\ i - 1 # n + 1)
          BY <3>2
        <4>2. G[i] = F[i] /\ (i # 0 => G[i - 1] = F[i - 1])
          BY <4>1, <3>2
        <4>3. QED BY <2>2, <4>1, <4>2
      <3>3. QED BY <3>1, <3>2
    <2>4. Shows(G, P, E, n + 1)
      <3>1. G = [i \in 0 .. n + 1 |-> G[i]]
        OBVIOUS
      <3> HIDE DEF G
      <3>2. QED BY <2>3, <3>1 DEF Shows
    <2>5. QED BY <2>4
  <1> HIDE DEF T
  <1>3. m \in T
    BY <1>1, <1>2, Induction
  <1>4. QED BY <1>3 DEF T

LEMMA ShownIs ==
    ASSUME NEW P, NEW E, IsSeq(E)
    PROVE  /\ Shown(P, E)[0] = P
           /\ \A n \in 1 .. Len(E) : Shown(P, E)[n] = ApplyPart(Shown(P, E)[n - 1], E[n])
  <1> DEFINE G == Shown(P, E)
  <1>1. Len(E) \in Nat
    BY SeqFacts
  <1>2. \E F : F = [i \in 0 .. Len(E) |-> IF i = 0 THEN P ELSE ApplyPart(F[i - 1], E[i])]
    <2>1. PICK F : Shows(F, P, E, Len(E))
      BY <1>1, ShowsUpTo
    <2>2. F = [i \in 0 .. Len(E) |-> IF i = 0 THEN P ELSE ApplyPart(F[i - 1], E[i])]
      BY <2>1 DEF Shows
    <2>3. QED BY <2>2
  <1>3. G = [i \in 0 .. Len(E) |-> IF i = 0 THEN P ELSE ApplyPart(G[i - 1], E[i])]
    <2> DEFINE H == CHOOSE F :
                      F = [i \in 0 .. Len(E) |-> IF i = 0 THEN P ELSE ApplyPart(F[i - 1], E[i])]
    <2>1. G = H
      BY DEF Shown
    <2>2. H = [i \in 0 .. Len(E) |-> IF i = 0 THEN P ELSE ApplyPart(H[i - 1], E[i])]
      BY <1>2
    <2> HIDE DEF G, H
    <2>3. QED BY <2>1, <2>2
  <1> HIDE DEF G
  <1>4. G[0] = P /\ \A n \in 1 .. Len(E) : G[n] = ApplyPart(G[n - 1], E[n])
    <2>1. 0 \in 0 .. Len(E) /\ \A n \in 1 .. Len(E) : n \in 0 .. Len(E) /\ n # 0
      BY <1>1
    <2>2. QED BY <1>3, <2>1
  <1>5. QED BY <1>4 DEF G

\* Where the events agree, so does what they show.
LEMMA ShownSame ==
    ASSUME NEW P, NEW D, IsSeq(D), NEW E, IsSeq(E), NEW m \in Nat, m <= Len(D), m <= Len(E),
           \A i \in 1 .. m : D[i] = E[i]
    PROVE  \A n \in 0 .. m : Shown(P, D)[n] = Shown(P, E)[n]
  <1> DEFINE F == Shown(P, D)  G == Shown(P, E)
             T == {n \in Nat : n > m \/ F[n] = G[n]}
  <1>1. /\ F[0] = P /\ \A n \in 1 .. Len(D) : F[n] = ApplyPart(F[n - 1], D[n])
        /\ G[0] = P /\ \A n \in 1 .. Len(E) : G[n] = ApplyPart(G[n - 1], E[n])
        /\ Len(D) \in Nat /\ Len(E) \in Nat
    BY ShownIs, SeqFacts
  <1> HIDE DEF F, G
  <1>2. 0 \in T
    BY <1>1
  <1>3. ASSUME NEW n \in Nat, n \in T
        PROVE  n + 1 \in T
    <2>1. CASE n + 1 > m
      BY <2>1
    <2>2. CASE n + 1 <= m
      <3>1. n + 1 \in 1 .. m /\ n + 1 \in 1 .. Len(D) /\ n + 1 \in 1 .. Len(E) /\ (n + 1) - 1 = n
        BY <1>1, <2>2
      <3>2. F[n] = G[n] /\ D[n + 1] = E[n + 1]
        BY <1>3, <2>2, <3>1
      <3>3. QED BY <1>1, <3>1, <3>2
    <2>3. QED BY <2>1, <2>2
  <1> HIDE DEF T
  <1>4. \A n \in Nat : n \in T
    BY <1>2, <1>3, Induction
  <1>5. \A n \in 0 .. m : F[n] = G[n]
    BY <1>4 DEF T
  <1>6. QED BY <1>5 DEF F, G

LEMMA ShownAppend ==
    ASSUME NEW P, NEW E, IsSeq(E), NEW e
    PROVE  /\ \A n \in 0 .. Len(E) : Shown(P, Append(E, e))[n] = Shown(P, E)[n]
           /\ Shown(P, Append(E, e))[Len(E) + 1] = ApplyPart(Shown(P, E)[Len(E)], e)
  <1> DEFINE D == Append(E, e)  m == Len(E)
  <1>1. /\ IsSeq(D) /\ Len(D) = m + 1 /\ D[m + 1] = e /\ m \in Nat
        /\ \A i \in 1 .. m : D[i] = E[i]
    BY AppendIs, SeqFacts
  <1> HIDE DEF D
  <1>2. \A n \in 0 .. m : Shown(P, D)[n] = Shown(P, E)[n]
    <2>1. m <= Len(D) /\ m <= Len(E)
      BY <1>1
    <2>2. QED BY <1>1, <2>1, ShownSame
  <1>3. Shown(P, D)[m + 1] = ApplyPart(Shown(P, D)[m], e)
    <2>1. m + 1 \in 1 .. Len(D) /\ (m + 1) - 1 = m
      BY <1>1
    <2>2. Shown(P, D)[m + 1] = ApplyPart(Shown(P, D)[(m + 1) - 1], D[m + 1])
      BY <1>1, <2>1, ShownIs
    <2>3. QED BY <1>1, <2>1, <2>2
  <1>4. m \in 0 .. m
    BY <1>1
  <1>5. QED BY <1>2, <1>3, <1>4 DEF D

\* Showing the first event now and the others after it comes to the same.
LEMMA ShownTail ==
    ASSUME NEW P, NEW E, IsSeq(E), E # <<>>
    PROVE  \A n \in 0 .. Len(E) - 1 :
                Shown(ApplyPart(P, Head(E)), Tail(E))[n] = Shown(P, E)[n + 1]
  <1> DEFINE F == Shown(ApplyPart(P, Head(E)), Tail(E))  G == Shown(P, E)
             T == {n \in Nat : n > Len(E) - 1 \/ F[n] = G[n + 1]}
  <1>1. /\ IsSeq(Tail(E)) /\ Len(Tail(E)) = Len(E) - 1 /\ Len(E) >= 1 /\ Head(E) = E[1]
        /\ \A i \in 1 .. Len(E) - 1 : Tail(E)[i] = E[i + 1]
        /\ Len(E) \in Nat
    BY TailIs, SeqFacts
  <1>2. /\ F[0] = ApplyPart(P, Head(E))
        /\ \A n \in 1 .. Len(Tail(E)) : F[n] = ApplyPart(F[n - 1], Tail(E)[n])
        /\ G[0] = P /\ \A n \in 1 .. Len(E) : G[n] = ApplyPart(G[n - 1], E[n])
    <2> DEFINE Q == ApplyPart(P, Head(E))  D == Tail(E)
    <2>1. IsSeq(D)
      BY <1>1
    <2> HIDE DEF Q, D
    <2>2. /\ Shown(Q, D)[0] = Q
          /\ \A n \in 1 .. Len(D) : Shown(Q, D)[n] = ApplyPart(Shown(Q, D)[n - 1], D[n])
      BY <2>1, ShownIs
    <2>3. G[0] = P /\ \A n \in 1 .. Len(E) : G[n] = ApplyPart(G[n - 1], E[n])
      BY ShownIs
    <2>4. QED BY <2>2, <2>3 DEF Q, D
  <1> HIDE DEF F, G
  <1>3. 0 \in T
    <2>1. 1 \in 1 .. Len(E) /\ 1 - 1 = 0 /\ 0 + 1 = 1
      BY <1>1
    <2>2. G[1] = ApplyPart(G[1 - 1], E[1])
      BY <1>2, <2>1
    <2>3. F[0] = G[0 + 1]
      BY <1>1, <1>2, <2>1, <2>2
    <2>4. QED BY <2>3
  <1>4. ASSUME NEW n \in Nat, n \in T
        PROVE  n + 1 \in T
    <2>1. CASE n + 1 > Len(E) - 1
      BY <2>1
    <2>2. CASE n + 1 <= Len(E) - 1
      <3>1. /\ n + 1 \in 1 .. Len(E) - 1 /\ (n + 1) + 1 \in 1 .. Len(E) /\ (n + 1) - 1 = n
            /\ ((n + 1) + 1) - 1 = n + 1
        BY <1>1, <2>2
      <3>2. F[n] = G[n + 1]
        BY <1>4, <2>2, <1>1
      <3>3. F[n + 1] = ApplyPart(F[n], E[(n + 1) + 1])
        BY <1>1, <1>2, <3>1
      <3>4. G[(n + 1) + 1] = ApplyPart(G[n + 1], E[(n + 1) + 1])
        BY <1>2, <3>1
      <3>5. F[n + 1] = G[(n + 1) + 1]
        BY <3>2, <3>3, <3>4
      <3>6. QED BY <3>5
    <2>3. QED BY <1>1, <2>1, <2>2
  <1> HIDE DEF T
  <1>5. \A n \in Nat : n \in T
    BY <1>3, <1>4, Induction
  <1>6. \A n \in 0 .. Len(E) - 1 : F[n] = G[n + 1]
    BY <1>1, <1>5 DEF T
  <1>7. QED BY <1>6 DEF F, G

\* The events of the wire, and then those of the queue.
LEMMA ShownConcat ==
    ASSUME NEW P, NEW D, IsSeq(D), NEW E, IsSeq(E)
    PROVE  \A n \in 0 .. Len(E) :
                Shown(P, D \o E)[Len(D) + n] = Shown(Shown(P, D)[Len(D)], E)[n]
  <1> DEFINE C == D \o E  Q == Shown(P, D)[Len(D)]  F == Shown(P, C)  G == Shown(Q, E)
             T == {n \in Nat : n > Len(E) \/ F[Len(D) + n] = G[n]}
  <1>1. /\ IsSeq(C) /\ Len(C) = Len(D) + Len(E) /\ Len(D) \in Nat /\ Len(E) \in Nat
        /\ \A i \in 1 .. Len(D) + Len(E) : C[i] = IF i <= Len(D) THEN D[i] ELSE E[i - Len(D)]
    BY ConcatIs, SeqFacts
  <1> HIDE DEF C
  <1>2. F[Len(D)] = Q
    <2>1. Len(D) <= Len(D) /\ Len(D) <= Len(C) /\ Len(D) \in 0 .. Len(D)
          /\ \A i \in 1 .. Len(D) : C[i] = D[i]
      BY <1>1
    <2>2. QED BY <1>1, <2>1, ShownSame
  <1>3. /\ \A n \in 1 .. Len(C) : F[n] = ApplyPart(F[n - 1], C[n])
        /\ G[0] = Q /\ \A n \in 1 .. Len(E) : G[n] = ApplyPart(G[n - 1], E[n])
    <2> HIDE DEF Q
    <2>1. QED BY <1>1, ShownIs
  <1> HIDE DEF F, G, Q
  <1>4. 0 \in T
    BY <1>1, <1>2, <1>3
  <1>5. ASSUME NEW n \in Nat, n \in T
        PROVE  n + 1 \in T
    <2>1. CASE n + 1 > Len(E)
      BY <2>1
    <2>2. CASE n + 1 <= Len(E)
      <3>1. /\ n + 1 \in 1 .. Len(E) /\ Len(D) + (n + 1) \in 1 .. Len(C) /\ (n + 1) - 1 = n
            /\ (Len(D) + (n + 1)) - 1 = Len(D) + n /\ (Len(D) + (n + 1)) - Len(D) = n + 1
            /\ ~(Len(D) + (n + 1) <= Len(D))
        BY <1>1, <2>2
      <3>2. F[Len(D) + n] = G[n]
        BY <1>1, <1>5, <2>2
      <3>3. C[Len(D) + (n + 1)] = E[n + 1]
        BY <1>1, <3>1
      <3>4. F[Len(D) + (n + 1)] = G[n + 1]
        BY <1>3, <3>1, <3>2, <3>3
      <3>5. QED BY <3>4
    <2>3. QED BY <1>1, <2>1, <2>2
  <1> HIDE DEF T
  <1>6. \A n \in Nat : n \in T
    BY <1>4, <1>5, Induction
  <1>7. \A n \in 0 .. Len(E) : F[Len(D) + n] = G[n]
    BY <1>1, <1>6 DEF T
  <1>8. QED BY <1>7 DEF F, G, Q, C

-----------------------------------------------------------------------------
(* Parts.                                                                  *)

LEMMA BelowLast ==
    \A n \in Nat : /\ \A i \in 1 .. n - 1 : i \in 1 .. n /\ i # n
                  /\ \A i \in 1 .. n : i # n => i \in 1 .. n - 1
  OBVIOUS

LEMMA SmallestIs ==
    ASSUME NEW I, I \subseteq Nat, I # {}
    PROVE  \E x \in I : \A y \in I : x <= y
  <1> DEFINE Below == {ss \in Nat \X Nat : ss[1] < ss[2]}
  <1>1. IsWellFoundedOn(Below, Nat)
    BY NatLessThanWellFounded DEF OpToRel
  <1>2. \E x \in I : \A y \in I : <<y, x>> \notin Below
    <2> HIDE DEF Below
    <2>1. QED BY <1>1, WFMin
  <1>3. PICK x \in I : \A y \in I : <<y, x>> \notin Below
    BY <1>2
  <1>4. \A y \in I : x <= y
    <2>1. SUFFICES ASSUME NEW y \in I PROVE x <= y
      OBVIOUS
    <2>2. x \in Nat /\ y \in Nat /\ ~(<<y, x>> \in Below)
      BY <1>3
    <2>3. ~(y < x)
      BY <2>2
    <2>4. QED BY <2>2, <2>3
  <1>5. QED BY <1>4

LEMMA PartAtFinds ==
    ASSUME NEW parts, IsSeq(parts), NEW id
    PROVE  \/ /\ PartAt(parts, id) = 0 /\ \A i \in 1 .. Len(parts) : parts[i].id # id
           \/ /\ PartAt(parts, id) \in 1 .. Len(parts) /\ parts[PartAt(parts, id)].id = id
  <1> DEFINE I == {i \in 1 .. Len(parts) : parts[i].id = id}  m == CHOOSE x \in I : \A y \in I : x <= y
  <1>1. Len(parts) \in Nat
    BY SeqFacts
  <1>2. PartAt(parts, id) = IF I # {} THEN m ELSE 0
    BY DEF PartAt, SelectInSeq, Min
  <1>3. CASE I = {}
    BY <1>2, <1>3
  <1>4. CASE I # {}
    <2>1. \E x \in I : \A y \in I : x <= y
      <3>1. I \subseteq Nat
        BY <1>1
      <3> HIDE DEF I
      <3>2. QED BY <1>4, <3>1, SmallestIs
    <2>2. m \in I
      <3> HIDE DEF I
      <3>1. QED BY <2>1
    <2> HIDE DEF m
    <2>3. QED BY <1>2, <1>4, <2>2
  <1>5. QED BY <1>3, <1>4

\* Where ids are told apart, an id has one place.
LEMMA PartAtIs ==
    ASSUME NEW parts, IsSeq(parts), NEW i \in 1 .. Len(parts),
           \A k \in 1 .. Len(parts) : parts[k].id = parts[i].id => k = i
    PROVE  PartAt(parts, parts[i].id) = i
  BY PartAtFinds

LEMMA PartAtNone ==
    ASSUME NEW parts, IsSeq(parts), NEW id, \A i \in 1 .. Len(parts) : parts[i].id # id
    PROVE  PartAt(parts, id) = 0
  BY PartAtFinds

\* The texts that the text of the parts is made of.
TextsOf(parts, type) ==
    [i \in 1 .. Len(parts) |-> IF parts[i].type = type THEN parts[i].text ELSE <<>>]

LEMMA TextOfIs ==
    ASSUME NEW parts, IsSeq(parts), NEW type
    PROVE  /\ TextOf(parts, type) = FlattenSeq(TextsOf(parts, type))
           /\ IsSeq(TextsOf(parts, type)) /\ Len(TextsOf(parts, type)) = Len(parts)
           /\ \A i \in 1 .. Len(parts) : TextsOf(parts, type)[i] =
                    IF parts[i].type = type THEN parts[i].text ELSE <<>>
  <1> DEFINE T == TextsOf(parts, type)
  <1>1. DOMAIN parts = 1 .. Len(parts) /\ Len(parts) \in Nat
    BY SeqFacts
  <1>2. TextOf(parts, type) = FlattenSeq(T)
    BY <1>1 DEF TextOf, TextsOf
  <1>3. \A i \in 1 .. Len(parts) : T[i] = IF parts[i].type = type THEN parts[i].text ELSE <<>>
    BY DEF TextsOf
  <1>4. T = [i \in 1 .. Len(parts) |-> T[i]]
    BY DEF TextsOf
  <1> HIDE DEF T
  <1>5. IsSeq(T) /\ Len(T) = Len(parts)
    BY <1>1, <1>4, FcnIsSeq
  <1>6. QED BY <1>2, <1>3, <1>5 DEF T

LEMMA TextEmpty == ASSUME NEW type PROVE TextOf(<<>>, type) = <<>>
  <1>1. IsSeq(<<>>) /\ Len(<<>>) = 0
    BY EmptyIs
  <1> DEFINE T == TextsOf(<<>>, type)
  <1>2. TextOf(<<>>, type) = FlattenSeq(T) /\ IsSeq(T) /\ Len(T) = 0
    BY <1>1, TextOfIs
  <1> HIDE DEF T
  <1>3. T = <<>>
    BY <1>2, EmptyIs
  <1>4. QED BY <1>2, <1>3, FlattenEmpty

\* Parts with the same texts say the same.
LEMMA TextSame ==
    ASSUME NEW P, IsSeq(P), NEW Q, IsSeq(Q), Len(P) = Len(Q), NEW type,
           \A i \in 1 .. Len(P) : \/ P[i].type = Q[i].type /\ P[i].text = Q[i].text
                                  \/ P[i].type # type /\ Q[i].type # type
    PROVE  TextOf(P, type) = TextOf(Q, type)
  <1> DEFINE T == TextsOf(P, type)  U == TextsOf(Q, type)
  <1>1. /\ TextOf(P, type) = FlattenSeq(T) /\ IsSeq(T) /\ Len(T) = Len(P)
        /\ \A i \in 1 .. Len(P) : T[i] = IF P[i].type = type THEN P[i].text ELSE <<>>
    BY TextOfIs
  <1>2. /\ TextOf(Q, type) = FlattenSeq(U) /\ IsSeq(U) /\ Len(U) = Len(Q)
        /\ \A i \in 1 .. Len(Q) : U[i] = IF Q[i].type = type THEN Q[i].text ELSE <<>>
    BY TextOfIs
  <1> HIDE DEF T, U
  <1>3. Len(T) = Len(U) /\ \A i \in 1 .. Len(T) : T[i] = U[i]
    BY <1>1, <1>2
  <1>4. T = U
    BY <1>1, <1>2, <1>3, SeqEq
  <1>5. QED BY <1>1, <1>2, <1>4

LEMMA TextAppend ==
    ASSUME NEW P, IsSeq(P), NEW p, IsSeq(p.text), NEW type
    PROVE  TextOf(Append(P, p), type) =
                TextOf(P, type) \o (IF p.type = type THEN p.text ELSE <<>>)
  <1> DEFINE Q == Append(P, p)  T == TextsOf(P, type)  U == TextsOf(Q, type)
             x == IF p.type = type THEN p.text ELSE <<>>
             V == Append(T, x)
  <1>1. /\ IsSeq(Q) /\ Len(Q) = Len(P) + 1 /\ Q[Len(P) + 1] = p /\ Len(P) \in Nat
        /\ \A i \in 1 .. Len(P) : Q[i] = P[i]
    BY AppendIs, SeqFacts
  <1> HIDE DEF Q
  <1>2. /\ TextOf(P, type) = FlattenSeq(T) /\ IsSeq(T) /\ Len(T) = Len(P)
        /\ \A i \in 1 .. Len(P) : T[i] = IF P[i].type = type THEN P[i].text ELSE <<>>
    BY TextOfIs
  <1>3. /\ TextOf(Q, type) = FlattenSeq(U) /\ IsSeq(U) /\ Len(U) = Len(Q)
        /\ \A i \in 1 .. Len(Q) : U[i] = IF Q[i].type = type THEN Q[i].text ELSE <<>>
    BY <1>1, TextOfIs
  <1>4. IsSeq(x)
    BY EmptyIs
  <1>5. Q[Len(P) + 1].type = p.type /\ Q[Len(P) + 1].text = p.text
    BY <1>1
  <1>6. U[Len(P) + 1] = x
    BY <1>1, <1>3, <1>5
  <1> HIDE DEF T, U, x
  <1>7. /\ IsSeq(V) /\ Len(V) = Len(T) + 1 /\ V[Len(T) + 1] = x
        /\ \A i \in 1 .. Len(T) : V[i] = T[i]
    BY <1>2, AppendIs
  <1>8. FlattenSeq(V) = FlattenSeq(T) \o x
    BY <1>2, <1>4, FlattenAppend
  <1> HIDE DEF V
  <1>9. \A i \in 1 .. Len(P) : U[i] = V[i]
    <2>1. SUFFICES ASSUME NEW i \in 1 .. Len(P) PROVE U[i] = V[i]
      OBVIOUS
    <2>2. Q[i] = P[i] /\ i \in 1 .. Len(Q) /\ i \in 1 .. Len(T)
      BY <1>1, <1>2
    <2>3. Q[i].type = P[i].type /\ Q[i].text = P[i].text
      BY <2>2
    <2>4. QED BY <1>2, <1>3, <1>7, <2>2, <2>3
  <1>10. U = V
    <2>1. Len(U) = Len(V) /\ \A i \in 1 .. Len(U) : U[i] = V[i]
      BY <1>1, <1>2, <1>3, <1>6, <1>7, <1>9
    <2>2. QED BY <1>3, <1>7, <2>1, SeqEq
  <1>11. QED BY <1>2, <1>3, <1>8, <1>10 DEF Q, x

LEMMA TextIsSeq ==
    ASSUME NEW P, IsSeq(P), \A i \in 1 .. Len(P) : IsSeq(P[i].text), NEW type
    PROVE  IsSeq(TextOf(P, type))
  <1> DEFINE T == TextsOf(P, type)
  <1>1. /\ TextOf(P, type) = FlattenSeq(T) /\ IsSeq(T) /\ Len(T) = Len(P)
        /\ \A i \in 1 .. Len(P) : T[i] = IF P[i].type = type THEN P[i].text ELSE <<>>
    BY TextOfIs
  <1> HIDE DEF T
  <1>2. \A i \in 1 .. Len(T) : IsSeq(T[i])
    BY <1>1, EmptyIs
  <1>3. QED BY <1>1, <1>2, FlattenIsSeq

\* Parts are those before the last, and the last.
LEMMA FrontAndLast ==
    ASSUME NEW P, IsSeq(P), P # <<>>
    PROVE  \E F : /\ IsSeq(F) /\ P = Append(F, P[Len(P)]) /\ Len(F) = Len(P) - 1
                  /\ \A i \in 1 .. Len(P) - 1 : F[i] = P[i]
  <1> DEFINE n == Len(P)  F == [i \in 1 .. n - 1 |-> P[i]]  Q == Append(F, P[n])
  <1>1. n \in Nat /\ n # 0 /\ n - 1 \in Nat
    BY SeqFacts, EmptyIs
  <1>2. F = [i \in 1 .. n - 1 |-> F[i]] /\ \A i \in 1 .. n - 1 : F[i] = P[i]
    OBVIOUS
  <1> HIDE DEF F
  <1>3. IsSeq(F) /\ Len(F) = n - 1
    BY <1>1, <1>2, FcnIsSeq
  <1>4. IsSeq(Q) /\ Len(Q) = (n - 1) + 1 /\ Q[(n - 1) + 1] = P[n] /\ \A i \in 1 .. n - 1 : Q[i] = F[i]
    BY <1>3, AppendIs
  <1> HIDE DEF Q
  <1>5. Len(Q) = n /\ \A i \in 1 .. n : P[i] = Q[i]
    BY <1>1, <1>2, <1>4
  <1>6. P = Q
    BY <1>4, <1>5, SeqEq
  <1>7. QED BY <1>2, <1>3, <1>6 DEF Q

\* s with another element at k.
Put(s, k, e) == [s EXCEPT ![k] = e]

LEMMA PutIs ==
    ASSUME NEW s, IsSeq(s), NEW k \in 1 .. Len(s), NEW e
    PROVE  /\ IsSeq(Put(s, k, e)) /\ Len(Put(s, k, e)) = Len(s) /\ Put(s, k, e)[k] = e
           /\ \A i \in 1 .. Len(s) : i # k => Put(s, k, e)[i] = s[i]
  BY ExceptIs DEF Put

\* The last part goes on: its text, and nothing else that is said.
LEMMA TextGrows ==
    ASSUME NEW P, IsSeq(P), P # <<>>, NEW p, NEW d,
           \A i \in 1 .. Len(P) : IsSeq(P[i].text),
           p.type = P[Len(P)].type, p.text = Append(P[Len(P)].text, d), NEW type,
           NEW Q, Q = Put(P, Len(P), p)
    PROVE  TextOf(Q, type) =
                IF p.type = type THEN Append(TextOf(P, type), d) ELSE TextOf(P, type)
  <1> DEFINE n == Len(P)
  <1>1. PICK F : /\ IsSeq(F) /\ P = Append(F, P[n]) /\ Len(F) = n - 1
                 /\ \A i \in 1 .. n - 1 : F[i] = P[i]
    BY FrontAndLast
  <1>2. n \in Nat /\ n # 0
    BY SeqFacts, EmptyIs
  <1>3. Q = Append(F, p)
    <2> DEFINE R == Append(F, p)
    <2>1. n \in 1 .. n
      BY <1>2
    <2>2. IsSeq(Q) /\ Len(Q) = n /\ Q[n] = p /\ \A i \in 1 .. n : i # n => Q[i] = P[i]
      BY <2>1, PutIs
    <2>3. \A i \in 1 .. n - 1 : P[i] = F[i]
      BY <1>1
    <2>4. IsSeq(R) /\ Len(R) = (n - 1) + 1 /\ R[(n - 1) + 1] = p /\ \A i \in 1 .. n - 1 : R[i] = F[i]
      BY <1>1, AppendIs
    <2> HIDE DEF R
    <2>5. Len(Q) = Len(R) /\ \A i \in 1 .. Len(Q) : Q[i] = R[i]
      BY <1>2, <2>2, <2>3, <2>4
    <2>6. Q = R
      BY <2>2, <2>4, <2>5, SeqEq
    <2>7. QED BY <2>6 DEF R
  <1>4. IsSeq(P[n].text) /\ IsSeq(p.text)
    BY <1>2, AppendIs
  <1> DEFINE q == P[n]
  <1>5. /\ q.type = p.type /\ IsSeq(q.text) /\ p.text = Append(q.text, d)
        /\ TextOf(P, type) = TextOf(F, type) \o (IF q.type = type THEN q.text ELSE <<>>)
    <2>1. IsSeq(q.text) /\ q.type = p.type /\ p.text = Append(q.text, d) /\ P = Append(F, q)
      BY <1>1, <1>4
    <2> HIDE DEF q
    <2>2. TextOf(Append(F, q), type) = TextOf(F, type) \o (IF q.type = type THEN q.text ELSE <<>>)
      BY <1>1, <2>1, TextAppend
    <2>3. QED BY <2>1, <2>2
  <1> HIDE DEF q
  <1>6. TextOf(Q, type) = TextOf(F, type) \o (IF p.type = type THEN p.text ELSE <<>>)
    <2>1. TextOf(Append(F, p), type) = TextOf(F, type) \o (IF p.type = type THEN p.text ELSE <<>>)
      <3>1. IsSeq(F) /\ IsSeq(p.text)
        BY <1>1, <1>4
      <3>2. QED BY ONLY <3>1, TextAppend
    <2>2. QED BY <1>3, <2>1
  <1> DEFINE x == TextOf(Q, type)  y == TextOf(P, type)  z == TextOf(F, type)
  <1> HIDE DEF x, y, z
  <1>0. x = z \o (IF p.type = type THEN p.text ELSE <<>>) /\ y = z \o (IF q.type = type THEN q.text ELSE <<>>)
    BY <1>5, <1>6 DEF x, y, z
  <1>7. ASSUME p.type # type PROVE x = y
    <2>1. x = z \o <<>> /\ y = z \o <<>> /\ q.type # type
      BY <1>0, <1>5, <1>7
    <2>2. QED BY <2>1
  <1>8. ASSUME p.type = type PROVE x = Append(y, d)
    <2>1. x = z \o p.text /\ y = z \o q.text /\ p.text = Append(q.text, d)
      BY <1>0, <1>5, <1>8
    <2>2. IsSeq(z)
      <3>1. \A i \in 1 .. Len(F) : IsSeq(F[i].text)
        <4>1. \A i \in 1 .. Len(F) : i \in 1 .. n - 1 /\ i \in 1 .. Len(P)
          BY <1>1, <1>2
        <4>2. QED BY <1>1, <4>1
      <3>2. QED BY <1>1, <3>1, TextIsSeq DEF z
    <2>3. z \o Append(q.text, d) = Append(z \o q.text, d)
      BY <1>5, <2>2, ConcatAppend
    <2>4. QED BY <2>1, <2>3
  <1>9. x = IF p.type = type THEN Append(y, d) ELSE y
    BY <1>7, <1>8
  <1>10. QED BY <1>9 DEF x, y

-----------------------------------------------------------------------------
(* What an event does to the parts.                                        *)

LEMMA TypedIs ==
    ASSUME NEW S, NEW P, TypedParts(P, S)
    PROVE  /\ IsSeq(P) /\ Len(P) \in Nat /\ DOMAIN P = 1 .. Len(P)
           /\ \A i \in 1 .. Len(P) : TypedPart(P[i], S) /\ IsSeq(P[i].text)
  <1>1. \A i \in 1 .. Len(P) : TypedPart(P[i], S)
    BY DEF TypedParts
  <1>2. \A i \in 1 .. Len(P) : P[i].text \in Seq(S)
    BY <1>1 DEF TypedPart
  <1>3. \A i \in 1 .. Len(P) : IsSeq(P[i].text)
    BY <1>2, SeqIs
  <1>4. QED BY <1>1, <1>3, SeqFacts DEF TypedParts

LEMMA TextPartIs ==
    ASSUME NEW S, NEW id, NEW type \in TextTypes \cup {"tool"}, NEW text \in Seq(S),
           NEW status \in PartStatus
    PROVE  LET p == TextPart(id, type, text, status) IN
           /\ TypedPart(p, S) /\ p.id = id /\ p.type = type /\ p.text = text /\ p.status = status
  BY DEF TextPart, TypedPart

\* A part that is given another text and status is a part written anew.
With(P, k, x, s) == [P EXCEPT ![k].text = x, ![k].status = s]

LEMMA PartWith ==
    ASSUME NEW S, NEW P, TypedParts(P, S), NEW k \in 1 .. Len(P), NEW x, NEW s
    PROVE  With(P, k, x, s) = [P EXCEPT ![k] = TextPart(P[k].id, P[k].type, x, s)]
  <1>1. TypedPart(P[k], S) /\ P = [i \in 1 .. Len(P) |-> P[i]] /\ k \in DOMAIN P
    BY TypedIs, SeqFacts
  <1> DEFINE p == P[k]
  <1>2. p = [id |-> p.id, type |-> p.type, text |-> p.text, status |-> p.status]
    BY <1>1 DEF TypedPart, TextPart
  <1>3. [P EXCEPT ![k].text = x] = [P EXCEPT ![k] = [p EXCEPT !.text = x]]
    BY <1>1
  <1> DEFINE q == [p EXCEPT !.text = x]
  <1>4. q = [id |-> p.id, type |-> p.type, text |-> x, status |-> p.status]
    BY <1>2
  <1>5. [q EXCEPT !.status = s] = TextPart(p.id, p.type, x, s)
    <2> HIDE DEF q, p
    <2>1. QED BY <1>4 DEF TextPart
  <1> DEFINE R == [P EXCEPT ![k] = q]
  <1>6. R[k] = q /\ [R EXCEPT ![k].status = s] = [R EXCEPT ![k] = [R[k] EXCEPT !.status = s]]
    BY <1>1
  <1>7. [R EXCEPT ![k] = TextPart(p.id, p.type, x, s)] = [P EXCEPT ![k] = TextPart(p.id, p.type, x, s)]
    <2> HIDE DEF q, p
    <2>1. QED BY <1>1
  <1>8. With(P, k, x, s) = [R EXCEPT ![k].status = s]
    BY <1>3 DEF With
  <1>9. QED BY <1>5, <1>6, <1>7, <1>8

\* Where a delta goes.
LEMMA MergeIs ==
    ASSUME NEW P, NEW d
    PROVE  /\ PartAt(P, d.id) = 0 => MergeTextDelta(P, d) = Append(P, d)
           /\ PartAt(P, d.id) # 0 =>
                \/ MergeTextDelta(P, d) =
                        With(P, PartAt(P, d.id), P[PartAt(P, d.id)].text \o d.text, d.status)
                \/ /\ \E k \in DOMAIN P : k > PartAt(P, d.id)
                   /\ \E c : \/ MergeTextDelta(P, d) = Append(P, [d EXCEPT !.id = c])
                              \/ /\ PartAt(P, c) # 0
                                 /\ MergeTextDelta(P, d) =
                                        With(P, PartAt(P, c), P[PartAt(P, c)].text \o d.text, d.status)
  <1> DEFINE i == PartAt(P, d.id)
             tools == {k \in DOMAIN P : P[k].type = "tool"}
             lastTool == CHOOSE k \in tools : \A j \in tools : j <= k
             contId == d.id \o <<"after-tool", lastTool>>
             W(k) == [P EXCEPT ![k].text = @ \o d.text, ![k].status = d.status]
             x == Append(P, d)
             y == IF PartAt(P, contId) # 0 THEN W(PartAt(P, contId))
                  ELSE Append(P, [d EXCEPT !.id = contId])
             z == W(i)
             first == i = 0
             second == d.type = "text" /\ (\E k \in tools : k > i)
  <1>0. MergeTextDelta(P, d) = CASE i = 0 -> x [] i # 0 /\ second -> y [] OTHER -> z
    BY DEF MergeTextDelta
  <1>1. /\ first => MergeTextDelta(P, d) = x
        /\ ~first /\ second => MergeTextDelta(P, d) = y
        /\ ~first /\ ~second => MergeTextDelta(P, d) = z
    <2> DEFINE more == \E k \in tools : k > i
    <2> HIDE DEF x, y, z, i, more
    <2>1. MergeTextDelta(P, d) = CASE i = 0 -> x [] i # 0 /\ d.type = "text" /\ more -> y [] OTHER -> z
      BY <1>0 DEF more
    <2>2. ASSUME i = 0 PROVE MergeTextDelta(P, d) = x
      BY <2>1, <2>2
    <2>3. ASSUME i # 0, d.type = "text" /\ more PROVE MergeTextDelta(P, d) = y
      BY <2>1, <2>3
    <2>4. ASSUME i # 0, ~(d.type = "text" /\ more) PROVE MergeTextDelta(P, d) = z
      BY <2>1, <2>4
    <2>5. QED BY <2>2, <2>3, <2>4 DEF more
  <1>2. ASSUME NEW k PROVE W(k) = With(P, k, P[k].text \o d.text, d.status)
    BY DEF With
  <1>3. second => \E k \in DOMAIN P : k > i
    OBVIOUS
  <1> HIDE DEF contId, W, i, tools, lastTool, second
  <1>4. CASE first
    BY <1>1, <1>4 DEF i
  <1>5. CASE ~first /\ ~second
    <2>1. MergeTextDelta(P, d) = With(P, i, P[i].text \o d.text, d.status)
      BY <1>1, <1>2, <1>5
    <2>2. QED BY <1>5, <2>1 DEF i
  <1>6. CASE ~first /\ second
    <2>1. MergeTextDelta(P, d) = y /\ \E k \in DOMAIN P : k > i
      BY <1>1, <1>3, <1>6
    <2>2. \/ y = Append(P, [d EXCEPT !.id = contId])
          \/ /\ PartAt(P, contId) # 0
             /\ y = With(P, PartAt(P, contId), P[PartAt(P, contId)].text \o d.text, d.status)
      BY <1>2
    <2> HIDE DEF y
    <2>3. QED BY <1>6, <2>1, <2>2 DEF i
  <1>7. QED BY <1>4, <1>5, <1>6

LEMMA NewDelta ==
    ASSUME NEW P, IsSeq(P), NEW e, e.event = "part.delta", \A i \in 1 .. Len(P) : P[i].id # e.part.id
    PROVE  ApplyPart(P, e) = Append(P, e.part)
  <1>1. PartAt(P, e.part.id) = 0
    BY PartAtNone
  <1>2. ApplyPart(P, e) = MergeTextDelta(P, e.part)
    BY DEF ApplyPart
  <1>3. QED BY <1>1, <1>2, MergeIs

LEMMA NewTool ==
    ASSUME NEW P, IsSeq(P), NEW e, e.event = "tool", \A i \in 1 .. Len(P) : P[i].id # e.part.id
    PROVE  ApplyPart(P, e) = Append(P, e.part)
  <1>1. PartAt(P, e.part.id) = 0
    BY PartAtNone
  <1>2. ApplyPart(P, e) = UpsertToolPart(P, e.part)
    BY DEF ApplyPart
  <1>3. QED BY <1>1, <1>2 DEF UpsertToolPart

LEMMA ToolAgain ==
    ASSUME NEW P, IsSeq(P), NEW e, e.event = "tool", NEW k \in 1 .. Len(P), P[k].id = e.part.id,
           \A i \in 1 .. Len(P) : P[i].id = P[k].id => i = k
    PROVE  ApplyPart(P, e) = [P EXCEPT ![k] = e.part]
  <1>1. PartAt(P, e.part.id) = k /\ k # 0
    <2>1. PartAt(P, P[k].id) = k
      BY PartAtIs
    <2>2. k # 0
      BY SeqFacts
    <2>3. QED BY <2>1, <2>2
  <1>2. ApplyPart(P, e) = UpsertToolPart(P, e.part)
    BY DEF ApplyPart
  <1>3. QED BY <1>1, <1>2 DEF UpsertToolPart

\* A delta of the last part goes there.
LEMMA LastDelta ==
    ASSUME NEW S, NEW P, TypedParts(P, S), P # <<>>, NEW n, n = Len(P), NEW e, e.event = "part.delta",
           e.part.id = P[n].id, \A i \in 1 .. n : P[i].id = P[n].id => i = n
    PROVE  ApplyPart(P, e) =
            [P EXCEPT ![n] = TextPart(P[n].id, P[n].type, P[n].text \o e.part.text, e.part.status)]
  <1>1. IsSeq(P) /\ n \in Nat /\ DOMAIN P = 1 .. n /\ n # 0
    BY TypedIs, EmptyIs
  <1>2. n \in 1 .. Len(P)
    BY <1>1
  <1>3. PartAt(P, e.part.id) = n
    BY <1>1, <1>2, PartAtIs
  <1>4. ApplyPart(P, e) = MergeTextDelta(P, e.part)
    BY DEF ApplyPart
  <1>5. ~ \E k \in DOMAIN P : k > n
    <2>1. \A k \in 1 .. n : ~(k > n)
      BY <1>1
    <2>2. QED BY <1>1, <2>1
  <1> DEFINE x == P[n].text \o e.part.text  st == e.part.status
  <1>6. MergeTextDelta(P, e.part) = With(P, n, x, st)
    BY <1>1, <1>3, <1>5, MergeIs
  <1>7. With(P, n, x, st) = [P EXCEPT ![n] = TextPart(P[n].id, P[n].type, x, st)]
    <2> HIDE DEF x, st
    <2>1. QED BY <1>2, PartWith
  <1>8. QED BY <1>4, <1>6, <1>7

\* Whatever the event, parts stay parts.
LEMMA EventTyped ==
    ASSUME NEW S, NEW P, TypedParts(P, S), NEW e, TypedEvent(e, S)
    PROVE  TypedParts(ApplyPart(P, e), S)
  <1>1. /\ IsSeq(P) /\ Len(P) \in Nat /\ DOMAIN P = 1 .. Len(P)
        /\ \A i \in 1 .. Len(P) : TypedPart(P[i], S) /\ IsSeq(P[i].text)
    BY TypedIs
  <1>2. ASSUME NEW p, TypedPart(p, S) PROVE TypedParts(Append(P, p), S)
    <2> DEFINE Q == Append(P, p)
    <2>1. IsSeq(Q) /\ Len(Q) = Len(P) + 1 /\ Q[Len(P) + 1] = p /\ \A i \in 1 .. Len(P) : Q[i] = P[i]
      BY <1>1, AppendIs
    <2> HIDE DEF Q
    <2>2. \A i \in 1 .. Len(Q) : TypedPart(Q[i], S)
      <3>1. \A i \in 1 .. Len(Q) : i \in 1 .. Len(P) \/ i = Len(P) + 1
        BY <1>1, <2>1
      <3>2. QED BY <1>1, <1>2, <2>1, <3>1
    <2>3. QED BY <2>1, <2>2 DEF TypedParts, Q
  <1>3. ASSUME NEW p, TypedPart(p, S), NEW k \in 1 .. Len(P) PROVE TypedParts([P EXCEPT ![k] = p], S)
    <2> DEFINE Q == [P EXCEPT ![k] = p]
    <2>1. IsSeq(Q) /\ Len(Q) = Len(P) /\ Q[k] = p /\ \A i \in 1 .. Len(P) : i # k => Q[i] = P[i]
      BY <1>1, ExceptIs
    <2> HIDE DEF Q
    <2>2. \A i \in 1 .. Len(Q) : TypedPart(Q[i], S)
      BY <1>1, <1>3, <2>1
    <2>3. QED BY <2>1, <2>2 DEF TypedParts, Q
  <1>4. CASE e.event = "tool"
    <2>1. TypedPart(e.part, S)
      BY <1>4 DEF TypedEvent, ErrorEvent, Sentinel
    <2>2. ApplyPart(P, e) = UpsertToolPart(P, e.part)
      BY <1>4 DEF ApplyPart
    <2>3. PartAt(P, e.part.id) = 0 \/ PartAt(P, e.part.id) \in 1 .. Len(P)
      BY <1>1, PartAtFinds
    <2>4. QED BY <1>2, <1>3, <2>1, <2>2, <2>3 DEF UpsertToolPart
  <1>5. CASE e.event = "part.delta"
    <2> DEFINE d == e.part
    <2>1. TypedPart(d, S)
      BY <1>5 DEF TypedEvent, ErrorEvent, Sentinel
    <2>2. ApplyPart(P, e) = MergeTextDelta(P, d)
      BY <1>5 DEF ApplyPart
    <2> HIDE DEF d
    <2>3. ASSUME NEW k \in 1 .. Len(P)
          PROVE  TypedParts(With(P, k, P[k].text \o d.text, d.status), S)
      <3> DEFINE x == P[k].text \o d.text  p == TextPart(P[k].id, P[k].type, x, d.status)
      <3>1. x \in Seq(S)
        <4> DEFINE a == P[k].text  b == d.text
        <4>1. a \in Seq(S) /\ b \in Seq(S)
          BY <1>1, <2>1 DEF TypedPart
        <4> HIDE DEF a, b
        <4>2. a \o b \in Seq(S)
          BY <4>1
        <4>3. QED BY <4>2 DEF a, b
      <3> HIDE DEF x
      <3>3. With(P, k, x, d.status) = [P EXCEPT ![k] = p]
        BY PartWith
      <3>4. TypedPart(p, S)
        <4>1. P[k].type \in TextTypes \cup {"tool"} /\ d.status \in PartStatus
          BY <1>1, <2>1 DEF TypedPart
        <4>2. QED BY <3>1, <4>1, TextPartIs
      <3> HIDE DEF p
      <3>5. TypedParts(With(P, k, x, d.status), S)
        BY <1>3, <3>3, <3>4
      <3>6. QED BY <3>5 DEF x
    <2>4. ASSUME NEW c PROVE TypedPart([d EXCEPT !.id = c], S)
      <3>1. d = [id |-> d.id, type |-> d.type, text |-> d.text, status |-> d.status]
        BY <2>1 DEF TypedPart, TextPart
      <3>2. [d EXCEPT !.id = c] = TextPart(c, d.type, d.text, d.status)
        BY <3>1 DEF TextPart
      <3>3. QED BY <2>1, <3>2, TextPartIs DEF TypedPart
    <2>5. \A c : PartAt(P, c) = 0 \/ PartAt(P, c) \in 1 .. Len(P)
      BY <1>1, PartAtFinds
    <2>6. \/ MergeTextDelta(P, d) = Append(P, d)
          \/ \E c : MergeTextDelta(P, d) = Append(P, [d EXCEPT !.id = c])
          \/ \E k \in 1 .. Len(P) :
                MergeTextDelta(P, d) = With(P, k, P[k].text \o d.text, d.status)
      BY <2>5, MergeIs
    <2>7. QED BY <1>2, <2>1, <2>2, <2>3, <2>4, <2>6
  <1>6. CASE e.event \notin {"tool", "part.delta"}
    BY <1>6 DEF ApplyPart
  <1>7. QED BY <1>4, <1>5, <1>6

-----------------------------------------------------------------------------
(* Sealing.                                                                *)

LEMMA SealedIs ==
    ASSUME NEW S, NEW P, TypedParts(P, S)
    PROVE  /\ TypedParts(Sealed(P), S) /\ Len(Sealed(P)) = Len(P)
           /\ \A i \in 1 .. Len(P) :
                /\ Sealed(P)[i].id = P[i].id /\ Sealed(P)[i].type = P[i].type
                /\ Sealed(P)[i].text = P[i].text /\ ~Streams(Sealed(P)[i])
                /\ (Streams(P[i]) => Sealed(P)[i].status = "completed")
                /\ (~Streams(P[i]) => Sealed(P)[i].status = P[i].status)
  <1> DEFINE Q == Sealed(P)
  <1>1. /\ IsSeq(P) /\ Len(P) \in Nat /\ DOMAIN P = 1 .. Len(P)
        /\ \A i \in 1 .. Len(P) : TypedPart(P[i], S)
    BY TypedIs
  <1>2. /\ Q = [i \in 1 .. Len(P) |-> Q[i]]
        /\ \A i \in 1 .. Len(P) :
              Q[i] = IF Streams(P[i]) THEN [P[i] EXCEPT !.status = "completed"] ELSE P[i]
    BY <1>1 DEF Sealed
  <1> HIDE DEF Q
  <1>3. IsSeq(Q) /\ Len(Q) = Len(P)
    BY <1>1, <1>2, FcnIsSeq
  <1>4. ASSUME NEW i \in 1 .. Len(P)
        PROVE  /\ TypedPart(Q[i], S) /\ Q[i].id = P[i].id /\ Q[i].type = P[i].type
               /\ Q[i].text = P[i].text /\ ~Streams(Q[i])
               /\ (Streams(P[i]) => Q[i].status = "completed")
               /\ (~Streams(P[i]) => Q[i].status = P[i].status)
    <2> DEFINE p == P[i]  q == [p EXCEPT !.status = "completed"]
    <2>1. p = [id |-> p.id, type |-> p.type, text |-> p.text, status |-> p.status]
          /\ p.type \in TextTypes \cup {"tool"} /\ p.text \in Seq(S)
      BY <1>1 DEF TypedPart, TextPart
    <2>2. q = [id |-> p.id, type |-> p.type, text |-> p.text, status |-> "completed"]
      BY <2>1
    <2>3. Q[i] = IF Streams(p) THEN q ELSE p
      BY <1>2
    <2> HIDE DEF p, q
    <2>4. CASE Streams(p)
      <3>1. Q[i] = TextPart(p.id, p.type, p.text, "completed")
        BY <2>2, <2>3, <2>4 DEF TextPart
      <3>2. "completed" \in PartStatus /\ p.type \in TextTypes \cup {"tool"} /\ p.text \in Seq(S)
        BY <2>1 DEF PartStatus
      <3>3. TypedPart(Q[i], S) /\ Q[i].id = p.id /\ Q[i].type = p.type /\ Q[i].text = p.text /\ Q[i].status = "completed"
        <4>1. LET t == TextPart(p.id, p.type, p.text, "completed") IN
              TypedPart(t, S) /\ t.id = p.id /\ t.type = p.type /\ t.text = p.text /\ t.status = "completed"
          BY ONLY <3>2, TextPartIs
        <4>2. QED BY <3>1, <4>1
      <3>4. QED BY <2>4, <3>3 DEF p, Streams
    <2>5. CASE ~Streams(p)
      <3>1. Q[i] = p /\ TypedPart(p, S)
        BY <1>1, <2>3, <2>5 DEF p
      <3>2. QED BY <2>5, <3>1 DEF p
    <2>6. QED BY <2>4, <2>5
  <1>5. QED BY <1>3, <1>4 DEF TypedParts, Q

LEMMA ClosedKept ==
    ASSUME NEW P, IsSeq(P)
    PROVE  \A i \in 1 .. Len(P) : ~Streams(P[i]) => Sealed(P)[i] = P[i]
  BY SeqFacts DEF Sealed

\* Only the last part can be open, and one event says that it is closed.
LEMMA SealingIs ==
    ASSUME NEW S, NEW P, TypedParts(P, S), LastStreams(P)
    PROVE  \/ /\ Sealed(P) = P /\ SealEvents(P) = <<>>
              /\ \A i \in 1 .. Len(P) : ~Streams(P[i])
           \/ /\ P # <<>> /\ Streams(P[Len(P)])
              /\ SealEvents(P) = <<PartDelta(P[Len(P)].id, P[Len(P)].type, <<>>, "completed")>>
              /\ Sealed(P) = [P EXCEPT ![Len(P)] =
                        TextPart(P[Len(P)].id, P[Len(P)].type, P[Len(P)].text, "completed")]
  <1> DEFINE n == Len(P)  Q == Sealed(P)
             E(i) == IF Streams(P[i]) THEN <<PartDelta(P[i].id, P[i].type, <<>>, "completed")>> ELSE <<>>
             ee == [i \in 1 .. n |-> E(i)]
  <1>1. /\ IsSeq(P) /\ n \in Nat /\ DOMAIN P = 1 .. n
        /\ \A i \in 1 .. n : TypedPart(P[i], S)
    BY TypedIs
  <1>2. /\ Q = [i \in 1 .. n |-> Q[i]]
        /\ \A i \in 1 .. n :
              Q[i] = IF Streams(P[i]) THEN [P[i] EXCEPT !.status = "completed"] ELSE P[i]
    BY <1>1 DEF Sealed
  <1>3. SealEvents(P) = FlattenSeq(ee)
    BY <1>1 DEF SealEvents
  <1>4. ee = [i \in 1 .. n |-> ee[i]] /\ \A i \in 1 .. n : ee[i] = E(i)
    OBVIOUS
  <1>5. P = [i \in 1 .. n |-> P[i]]
    BY <1>1, SeqFacts
  <1> HIDE DEF ee, Q
  <1>6. IsSeq(ee) /\ Len(ee) = n
    BY <1>1, <1>4, FcnIsSeq
  <1>7. CASE \A i \in 1 .. n : ~Streams(P[i])
    <2>1. \A i \in 1 .. n : ee[i] = <<>> /\ Q[i] = P[i]
      BY <1>2, <1>4, <1>7
    <2>2. FlattenSeq(ee) = <<>>
      BY <1>6, <2>1, FlattenNothing
    <2>3. Q = P
      BY <1>2, <1>5, <2>1
    <2>4. QED BY <1>3, <1>7, <2>2, <2>3 DEF Q
  <1>8. CASE \E i \in 1 .. n : Streams(P[i])
    <2>1. n \in 1 .. n /\ Streams(P[n]) /\ \A i \in 1 .. n - 1 : ~Streams(P[i])
      <3>1. \A i \in 1 .. n : Streams(P[i]) => i = n
        BY DEF LastStreams
      <3>2. \A i \in 1 .. n - 1 : i \in 1 .. n /\ i # n
        BY <1>1, BelowLast
      <3>3. QED BY <1>8, <3>1, <3>2
    <2>2. P # <<>> /\ ee # <<>>
      BY <1>1, <1>6, <2>1, EmptyIs
    <2> DEFINE e == PartDelta(P[n].id, P[n].type, <<>>, "completed")
    <2>3. ee[n] = <<e>> /\ \A i \in 1 .. n - 1 : ee[i] = <<>>
      <3>1. \A i \in 1 .. n - 1 : i \in 1 .. n
        BY <1>1
      <3>2. QED BY <1>4, <2>1, <3>1
    <2> HIDE DEF e
    <2>4. IsSeq(<<e>>)
      <3>1. <<e>> \in Seq({e})
        OBVIOUS
      <3>2. QED BY <3>1, SeqIs
    <2>5. FlattenSeq(ee) = <<e>>
      <3>1. \A i \in 1 .. Len(ee) - 1 : ee[i] = <<>>
        BY <1>6, <2>3
      <3>2. ee[Len(ee)] = <<e>>
        BY <1>6, <2>3
      <3> HIDE DEF E
      <3>3. QED BY <1>6, <2>2, <2>4, <3>1, <3>2, FlattenLast
    <2> DEFINE p == P[n]  q == TextPart(p.id, p.type, p.text, "completed")
    <2>6. [p EXCEPT !.status = "completed"] = q
      <3>1. p = [id |-> p.id, type |-> p.type, text |-> p.text, status |-> p.status]
        BY <1>1, <2>1 DEF TypedPart, TextPart
      <3> HIDE DEF p
      <3>2. QED BY <3>1 DEF TextPart
    <2>7. Q[n] = q /\ \A i \in 1 .. n : i # n => Q[i] = P[i]
      <3>1. Q[n] = q
        BY <1>2, <2>1, <2>6
      <3>2. \A i \in 1 .. n : i # n => i \in 1 .. n - 1
        BY <1>1, BelowLast
      <3>3. QED BY <1>2, <2>1, <3>1, <3>2
    <2> HIDE DEF q
    <2>8. Q = [P EXCEPT ![n] = q]
      BY <1>2, <1>5, <2>7
    <2>9. QED BY <1>3, <2>1, <2>2, <2>5, <2>8 DEF e, q, Q
  <1>9. QED BY <1>7, <1>8

\* What the seal's event does to the page is what the server does.
LEMMA SealShows ==
    ASSUME NEW S, NEW P, TypedParts(P, S), P # <<>>,
           \A i, k \in 1 .. Len(P) : P[i].id = P[k].id => i = k
    PROVE  ApplyPart(P, PartDelta(P[Len(P)].id, P[Len(P)].type, <<>>, "completed")) =
                [P EXCEPT ![Len(P)] = TextPart(P[Len(P)].id, P[Len(P)].type, P[Len(P)].text, "completed")]
  <1> DEFINE n == Len(P)  e == PartDelta(P[n].id, P[n].type, <<>>, "completed")
  <1>1. /\ e.event = "part.delta" /\ e.part.id = P[n].id /\ e.part.text = <<>>
        /\ e.part.status = "completed"
    BY DEF PartDelta, TextPart
  <1>2. n \in 1 .. n /\ IsSeq(P[n].text)
    <2>1. n \in Nat /\ n # 0
      BY TypedIs, EmptyIs
    <2>2. n \in 1 .. n
      BY <2>1
    <2>3. QED BY <2>2, TypedIs
  <1>0. n = Len(P) /\ P # <<>>
    OBVIOUS
  <1> HIDE DEF e, n
  <1>3. ApplyPart(P, e) =
            [P EXCEPT ![n] = TextPart(P[n].id, P[n].type, P[n].text \o e.part.text, e.part.status)]
    <2>1. \A i \in 1 .. n : P[i].id = P[n].id => i = n
      BY <1>0, <1>2
    <2>2. TypedParts(P, S) /\ P # <<>> /\ n = Len(P) /\ e.event = "part.delta" /\ e.part.id = P[n].id
      BY <1>0, <1>1
    <2>3. QED BY ONLY <2>1, <2>2, LastDelta
  <1>4. P[n].text \o <<>> = P[n].text
    BY <1>2, ConcatEmpty
  <1>5. QED BY <1>1, <1>3, <1>4 DEF e, n

-----------------------------------------------------------------------------
(* How events lead from the page's parts to the server's.                  *)

LEMMA LeadsMore ==
    ASSUME NEW P, NEW E, NEW Q, NEW t, NEW u, Leads(P, E, Q, t),
           \A s : Begins(s, t) => Begins(s, u)
    PROVE  Leads(P, E, Q, u)
  BY DEF Leads

LEMMA LeadsAppend ==
    ASSUME NEW P, NEW E, IsSeq(E), NEW Q, NEW t, Leads(P, E, Q, t), NEW e, NEW R,
           ApplyPart(Q, e) = R, Begins(TextOf(R, "text"), t)
    PROVE  Leads(P, Append(E, e), R, t)
  <1> DEFINE m == Len(E)  D == Append(E, e)
  <1>1. Len(D) = m + 1 /\ m \in Nat
    BY AppendIs, SeqFacts
  <1>2. /\ \A n \in 0 .. m : Shown(P, D)[n] = Shown(P, E)[n]
        /\ Shown(P, D)[m + 1] = ApplyPart(Shown(P, E)[m], e)
    BY ShownAppend
  <1> HIDE DEF D
  <1>3. Shown(P, E)[m] = Q /\ \A n \in 0 .. m : Begins(TextOf(Shown(P, E)[n], "text"), t)
    BY DEF Leads
  <1>4. Shown(P, D)[m + 1] = R
    BY <1>2, <1>3
  <1>5. ASSUME NEW n \in 0 .. m + 1
        PROVE  Begins(TextOf(Shown(P, D)[n], "text"), t)
    <2>1. n \in 0 .. m \/ n = m + 1
      BY <1>1
    <2>2. CASE n \in 0 .. m
      BY <1>2, <1>3, <2>2
    <2>3. CASE n = m + 1
      BY <1>4, <2>3
    <2>4. QED BY <2>1, <2>2, <2>3
  <1>6. Leads(P, D, R, t)
    BY <1>1, <1>4, <1>5 DEF Leads
  <1>7. QED BY <1>6 DEF D

LEMMA LeadsTail ==
    ASSUME NEW P, NEW E, IsSeq(E), E # <<>>, NEW Q, NEW t, Leads(P, E, Q, t)
    PROVE  /\ Leads(ApplyPart(P, Head(E)), Tail(E), Q, t)
           /\ Begins(TextOf(P, "text"), t) /\ Begins(TextOf(ApplyPart(P, Head(E)), "text"), t)
  <1> DEFINE m == Len(E)  D == Tail(E)  O == ApplyPart(P, Head(E))
  <1>1. Len(D) = m - 1 /\ m \in Nat /\ m # 0 /\ IsSeq(D)
    BY TailIs, SeqFacts, EmptyIs
  <1>2. \A n \in 0 .. m - 1 : Shown(O, D)[n] = Shown(P, E)[n + 1]
    BY ShownTail
  <1>3. Shown(O, D)[0] = O /\ Shown(P, E)[0] = P
    <2> HIDE DEF O, D
    <2>1. QED BY <1>1, ShownIs
  <1> HIDE DEF D, O
  <1>4. Shown(P, E)[m] = Q /\ \A n \in 0 .. m : Begins(TextOf(Shown(P, E)[n], "text"), t)
    BY DEF Leads
  <1>5. m - 1 \in 0 .. m - 1 /\ (m - 1) + 1 = m /\ 0 \in 0 .. m - 1 /\ 0 \in 0 .. m
    BY <1>1
  <1>6. Shown(O, D)[m - 1] = Q
    BY <1>2, <1>4, <1>5
  <1>7. ASSUME NEW n \in 0 .. m - 1
        PROVE  Begins(TextOf(Shown(O, D)[n], "text"), t)
    <2>1. n + 1 \in 0 .. m
      BY <1>1
    <2>2. QED BY <1>2, <1>4, <2>1
  <1>8. Leads(O, D, Q, t)
    BY <1>1, <1>6, <1>7 DEF Leads
  <1>9. Begins(TextOf(P, "text"), t) /\ Begins(TextOf(O, "text"), t)
    BY <1>3, <1>4, <1>5, <1>7
  <1>10. QED BY <1>8, <1>9 DEF D, O

LEMMA LeadsNowhere ==
    ASSUME NEW P, NEW t, Begins(TextOf(P, "text"), t)
    PROVE  Leads(P, <<>>, P, t)
  <1>1. IsSeq(<<>>) /\ Len(<<>>) = 0
    BY EmptyIs
  <1>2. Shown(P, <<>>)[0] = P
    BY <1>1, ShownIs
  <1>3. \A n \in 0 .. 0 : n = 0
    OBVIOUS
  <1>4. QED BY <1>1, <1>2, <1>3 DEF Leads

\* The seal's events, put on the queue.
LEMMA LeadsSealed ==
    ASSUME NEW S, NEW P, TypedParts(P, S), LastStreams(P),
           \A i, k \in 1 .. Len(P) : P[i].id = P[k].id => i = k,
           NEW O, NEW E, TypedEvents(E, S), NEW t, Leads(O, E, P, t), Begins(TextOf(P, "text"), t)
    PROVE  Leads(O, E \o SealEvents(P), Sealed(P), t)
  <1>1. IsSeq(E)
    BY DEF TypedEvents
  <1>2. CASE Sealed(P) = P /\ SealEvents(P) = <<>>
    BY <1>1, <1>2, ConcatEmpty
  <1>3. CASE ~(Sealed(P) = P /\ SealEvents(P) = <<>>)
    <2> DEFINE e == PartDelta(P[Len(P)].id, P[Len(P)].type, <<>>, "completed")  Q == Sealed(P)
    <2>1. P # <<>> /\ SealEvents(P) = <<e>> /\ ApplyPart(P, e) = Q
      BY <1>3, SealingIs, SealShows
    <2>2. TextOf(Q, "text") = TextOf(P, "text")
      <3>1. /\ IsSeq(Q) /\ Len(P) = Len(Q)
            /\ \A i \in 1 .. Len(P) : P[i].type = Q[i].type /\ P[i].text = Q[i].text
        BY SealedIs, TypedIs
      <3>2. IsSeq(P)
        BY TypedIs
      <3> HIDE DEF Q
      <3>3. QED BY <3>1, <3>2, TextSame
    <2> HIDE DEF e, Q
    <2>3. E \o <<e>> = Append(E, e)
      BY <1>1, ConcatOne
    <2>4. Leads(O, Append(E, e), Q, t)
      BY <1>1, <2>1, <2>2, LeadsAppend
    <2>5. QED BY <2>1, <2>3, <2>4 DEF Q
  <1>4. QED BY <1>2, <1>3

\* and what they are.
LEMMA SealedEvents ==
    ASSUME NEW S, NEW P, TypedParts(P, S), LastStreams(P), NEW E, TypedEvents(E, S)
    PROVE  /\ TypedEvents(E \o SealEvents(P), S) /\ Len(E \o SealEvents(P)) \in Nat
           /\ Len(E) <= Len(E \o SealEvents(P)) /\ Len(E) \in Nat
           /\ \A i \in 1 .. Len(E) : (E \o SealEvents(P))[i] = E[i]
           /\ \A i \in 1 .. Len(E \o SealEvents(P)) :
                 i \in 1 .. Len(E) \/ (E \o SealEvents(P))[i].event = "part.delta"
  <1>1. IsSeq(E) /\ Len(E) \in Nat
    BY SeqFacts DEF TypedEvents
  <1>2. CASE SealEvents(P) = <<>>
    BY <1>1, <1>2, ConcatEmpty
  <1>3. CASE SealEvents(P) # <<>>
    <2> DEFINE p == P[Len(P)]  e == PartDelta(p.id, p.type, <<>>, "completed")  F == Append(E, e)
    <2>1. P # <<>> /\ SealEvents(P) = <<e>>
      BY <1>3, SealingIs
    <2>2. TypedEvent(e, S) /\ e.event = "part.delta"
      <3>1. p.type \in TextTypes \cup {"tool"}
        <4>1. Len(P) \in Nat /\ Len(P) # 0
          BY <2>1, TypedIs, EmptyIs
        <4>2. QED BY <4>1, TypedIs DEF TypedPart
      <3>2. <<>> \in Seq(S) /\ "completed" \in PartStatus
        BY DEF PartStatus
      <3> HIDE DEF p
      <3>3. TypedPart(TextPart(p.id, p.type, <<>>, "completed"), S)
        BY <3>1, <3>2, TextPartIs
      <3>4. QED BY <3>3 DEF PartDelta, TypedEvent
    <2> HIDE DEF e, p
    <2>3. E \o SealEvents(P) = F
      BY <1>1, <2>1, ConcatOne
    <2>4. IsSeq(F) /\ Len(F) = Len(E) + 1 /\ F[Len(E) + 1] = e /\ \A i \in 1 .. Len(E) : F[i] = E[i]
      BY <1>1, AppendIs
    <2> HIDE DEF F
    <2>5. \A i \in 1 .. Len(F) : i \in 1 .. Len(E) \/ F[i] = e
      BY <1>1, <2>4
    <2>6. TypedEvents(F, S)
      BY <2>2, <2>4, <2>5 DEF TypedEvents
    <2>7. QED BY <1>1, <2>2, <2>3, <2>4, <2>5, <2>6
  <1>4. QED BY <1>2, <1>3

-----------------------------------------------------------------------------
(* What the run says.                                                      *)

LEMMA RunIs ==
    ASSUME NEW r \in Runs
    PROVE  /\ IsSeq(r.deltas) /\ Len(r.deltas) \in Nat /\ DOMAIN r.deltas = 1 .. Len(r.deltas)
           /\ \A d \in 1 .. Len(r.deltas) : r.deltas[d].type \in TextTypes
           /\ IsSeq(r.calls) /\ Len(r.calls) \in Nat /\ DOMAIN r.calls = 1 .. Len(r.calls)
  <1>1. r.deltas \in Seq([type : TextTypes, cites : Nat, step : Nat]) /\ IsSeq(r.calls)
    BY RunsAssumption DEF IsSeq
  <1>2. \A d \in 1 .. Len(r.deltas) : r.deltas[d] \in [type : TextTypes, cites : Nat, step : Nat]
    BY <1>1, SeqIs
  <1>3. QED BY <1>1, <1>2, SeqIs, SeqFacts

LEMMA SaidNothing == ASSUME NEW deltas, NEW type PROVE SaidBy(deltas, type, 0) = <<>>
  <1> DEFINE ss == [d \in 1 .. 0 |-> IF deltas[d].type = type THEN <<d>> ELSE <<>>]
  <1>1. ss = <<>>
    OBVIOUS
  <1>2. SaidBy(deltas, type, 0) = FlattenSeq(ss)
    BY DEF SaidBy
  <1>3. QED BY <1>1, <1>2, FlattenEmpty

LEMMA SaidMore ==
    ASSUME NEW deltas, NEW type, NEW n \in Nat
    PROVE  /\ IsSeq(SaidBy(deltas, type, n))
           /\ SaidBy(deltas, type, n + 1) = IF deltas[n + 1].type = type
                    THEN Append(SaidBy(deltas, type, n), n + 1) ELSE SaidBy(deltas, type, n)
  <1> DEFINE one(d) == IF deltas[d].type = type THEN <<d>> ELSE <<>>
             ss == [d \in 1 .. n |-> one(d)]
             tt == [d \in 1 .. n + 1 |-> one(d)]
             a  == SaidBy(deltas, type, n)
  <1>1. a = FlattenSeq(ss) /\ SaidBy(deltas, type, n + 1) = FlattenSeq(tt)
    BY DEF SaidBy
  <1>2. \A d : IsSeq(one(d))
    <2>1. \A d : IsSeq(<<d>>)
      <3>1. \A d : <<d>> \in Seq({d})
        OBVIOUS
      <3>2. QED BY <3>1, SeqIs
    <2>2. QED BY <2>1, EmptyIs
  <1>3. /\ ss = [d \in 1 .. n |-> ss[d]] /\ \A d \in 1 .. n : ss[d] = one(d)
        /\ tt = [d \in 1 .. n + 1 |-> tt[d]] /\ \A d \in 1 .. n + 1 : tt[d] = one(d)
    OBVIOUS
  <1> HIDE DEF ss, tt, one
  <1>4. IsSeq(ss) /\ Len(ss) = n /\ IsSeq(tt) /\ Len(tt) = n + 1
    <2>1. n + 1 \in Nat
      OBVIOUS
    <2>2. QED BY <1>3, <2>1, FcnIsSeq
  <1>5. tt = Append(ss, one(n + 1))
    <2> DEFINE u == Append(ss, one(n + 1))
    <2>1. IsSeq(u) /\ Len(u) = n + 1 /\ u[n + 1] = one(n + 1) /\ \A i \in 1 .. n : u[i] = ss[i]
      BY <1>4, AppendIs
    <2> HIDE DEF u
    <2>2. \A i \in 1 .. n + 1 : u[i] = tt[i]
      <3>1. \A i \in 1 .. n + 1 : i \in 1 .. n \/ i = n + 1
        OBVIOUS
      <3>2. QED BY <1>3, <2>1, <3>1
    <2>3. u = tt
      BY <1>4, <2>1, <2>2, SeqEq
    <2>4. QED BY <2>3 DEF u
  <1>6. IsSeq(a)
    BY <1>1, <1>2, <1>3, <1>4, FlattenIsSeq
  <1>7. FlattenSeq(tt) = FlattenSeq(ss) \o one(n + 1)
    BY <1>2, <1>4, <1>5, FlattenAppend
  <1> HIDE DEF a
  <1>8. a \o <<n + 1>> = Append(a, n + 1) /\ a \o <<>> = a
    BY <1>6, ConcatOne, ConcatEmpty
  <1>9. IF deltas[n + 1].type = type THEN one(n + 1) = <<n + 1>> ELSE one(n + 1) = <<>>
    BY DEF one
  <1>10. QED BY <1>1, <1>6, <1>7, <1>8, <1>9 DEF a

-----------------------------------------------------------------------------
(* How the server's parts grow.                                            *)

\* Q holds the parts of P and maybe more, the tools among them as they were, and runs no other.
ToolsKept(P, Q) ==
    /\ Len(P) \in Nat /\ Len(Q) \in Nat /\ Len(P) <= Len(Q)
    /\ \A i \in 1 .. Len(P) : P[i].type = "tool" =>
            /\ Q[i].id = P[i].id /\ Q[i].type = "tool" /\ Q[i].status = P[i].status
    /\ \A i \in 1 .. Len(Q) : Q[i].status = "running" =>
            i \in 1 .. Len(P) /\ P[i].status = "running" /\ Q[i].id = P[i].id

LEMMA ToolsKeptOn ==
    ASSUME NEW P, NEW Q, NEW R, ToolsKept(P, Q), ToolsKept(Q, R)
    PROVE  ToolsKept(P, R)
  <1>1. \A i \in 1 .. Len(P) : i \in 1 .. Len(Q)
    BY DEF ToolsKept
  <1>2. QED BY <1>1 DEF ToolsKept

LEMMA ToolNamed ==
    ASSUME NEW P, NEW last, NEW m, Named(P, last, m), NEW i \in 1 .. Len(P), NEW c, P[i].id = <<"tool", c>>
    PROVE  P[i].type = "tool"
  <1>1. NamedText(P[i], last) => FALSE
    BY DEF NamedText, TextTypes
  <1>2. QED BY <1>1 DEF Named, NamedTool

LEMMA StartedKept ==
    ASSUME NEW P, NEW Q, ToolsKept(P, Q), NEW last, NEW m, Named(P, last, m), NEW n, NEW calls, Started(P, n, calls)
    PROVE  Started(Q, n, calls)
  <1>1. ASSUME NEW c \in 1 .. n
        PROVE  \E k \in 1 .. Len(Q) :
                    /\ Q[k].id = <<"tool", c>>
                    /\ Q[k].status = DoneStatus(calls[c]) \/ (c = n /\ Q[k].status = "running")
    <2>1. PICK i \in 1 .. Len(P) :
                /\ P[i].id = <<"tool", c>>
                /\ P[i].status = DoneStatus(calls[c]) \/ (c = n /\ P[i].status = "running")
      BY DEF Started
    <2>2. P[i].type = "tool"
      BY <2>1, ToolNamed
    <2>3. i \in 1 .. Len(Q) /\ Q[i].id = P[i].id /\ Q[i].status = P[i].status
      BY <2>2 DEF ToolsKept
    <2>4. QED BY <2>1, <2>3
  <1>2. QED BY <1>1 DEF Started

\* The parts that a delta makes, when it continues the last one and when it opens another,
\* and the events that say so.
Continued(P, type, d) ==
    Put(P, Len(P), TextPart(P[Len(P)].id, type, Append(P[Len(P)].text, d), "streaming"))
Begun(P, id, type, d) == Append(Sealed(P), TextPart(id, type, <<d>>, "streaming"))

\* What comes of the former.
ContinuesPart(P, last, m, type, d, Q, S) ==
    LET e == PartDelta(P[Len(P)].id, type, <<d>>, "streaming") IN
    /\ TypedParts(Q, S) /\ LastStreams(Q) /\ Named(Q, last, m) /\ ToolsKept(P, Q)
    /\ \A t \in TextTypes : TextOf(Q, t) = IF type = t THEN Append(TextOf(P, t), d) ELSE TextOf(P, t)
    /\ ApplyPart(P, e) = Q /\ TypedEvent(e, S)

\* The last part goes on.
LEMMA TextContinues ==
    ASSUME NEW S, NEW P, TypedParts(P, S), LastStreams(P), NEW last, NEW m, Named(P, last, m),
           P # <<>>, NEW n, n = Len(P), NEW type \in TextTypes, P[n].type = type, NEW d \in S,
           NEW Q, Q = Continued(P, type, d)
    PROVE  ContinuesPart(P, last, m, type, d, Q, S)
  <1> DEFINE x == Append(P[n].text, d)  q == TextPart(P[n].id, type, x, "streaming")
             e == PartDelta(P[n].id, type, <<d>>, "streaming")
  <1>1. /\ IsSeq(P) /\ n \in Nat /\ DOMAIN P = 1 .. n /\ n # 0 /\ n \in 1 .. n
        /\ \A i \in 1 .. n : TypedPart(P[i], S) /\ IsSeq(P[i].text)
    <2>1. n # 0 /\ n \in Nat
      BY TypedIs, EmptyIs
    <2>2. n \in 1 .. n
      BY <2>1
    <2>3. QED BY <2>1, <2>2, TypedIs
  <1>2. x \in Seq(S) /\ "streaming" \in PartStatus /\ type \in TextTypes \cup {"tool"} /\ <<d>> \in Seq(S)
    <2>1. P[n].text \in Seq(S)
      BY <1>1 DEF TypedPart
    <2>2. QED BY <2>1 DEF PartStatus
  <1>3. e.event = "part.delta" /\ e.part = TextPart(P[n].id, type, <<d>>, "streaming")
    BY DEF PartDelta
  <1> HIDE DEF x
  <1>4. TypedPart(q, S) /\ q.id = P[n].id /\ q.type = type /\ q.text = x /\ q.status = "streaming"
    BY ONLY <1>2, TextPartIs
  <1>5. TypedPart(e.part, S) /\ e.part.id = P[n].id /\ e.part.text = <<d>> /\ e.part.status = "streaming"
    <2> HIDE DEF e
    <2> DEFINE y == <<d>>
    <2>1. y \in Seq(S) /\ e.part = TextPart(P[n].id, type, y, "streaming")
      BY <1>2, <1>3
    <2> HIDE DEF y, q
    <2>2. LET t == TextPart(P[n].id, type, y, "streaming") IN
          TypedPart(t, S) /\ t.id = P[n].id /\ t.text = y /\ t.status = "streaming"
      BY ONLY <1>2, <2>1, TextPartIs
    <2>3. QED BY <2>1, <2>2 DEF y
  <1>6. TypedEvent(e, S)
    BY <1>3, <1>5 DEF TypedEvent
  <1>7. Q = [P EXCEPT ![n] = q]
    BY DEF x, Continued, Put
  <1> HIDE DEF q, e
  <1>8. IsSeq(Q) /\ Len(Q) = n /\ Q[n] = q /\ \A i \in 1 .. n : i # n => Q[i] = P[i]
    <2>1. n \in 1 .. Len(P) /\ IsSeq(P) /\ Len(P) = n
      BY <1>1
    <2>2. Q = Put(P, n, q)
      BY <1>7 DEF Put
    <2>3. QED BY ONLY <2>1, <2>2, PutIs
  <1>9. TypedParts(Q, S)
    BY <1>1, <1>4, <1>8 DEF TypedParts
  <1>10. LastStreams(Q)
    BY <1>8 DEF LastStreams
  <1>11. \A i \in 1 .. n : Q[i].id = P[i].id /\ Q[i].type = P[i].type
    BY <1>4, <1>8
  <1>12. Named(Q, last, m)
    <2>1. \A i, k \in 1 .. Len(Q) : Q[i].id = Q[k].id => i = k
      BY <1>8, <1>11 DEF Named
    <2>2. ASSUME NEW i \in 1 .. Len(Q) PROVE NamedText(Q[i], last) \/ NamedTool(Q[i], m)
      <3>1. NamedText(P[i], last) \/ NamedTool(P[i], m)
        BY <1>8 DEF Named
      <3>2. QED BY <1>8, <1>11, <3>1 DEF NamedText, NamedTool
    <2>3. QED BY <2>1, <2>2 DEF Named
  <1>13. ToolsKept(P, Q)
    BY <1>1, <1>4, <1>8 DEF ToolsKept, TextTypes
  <1>14. ASSUME NEW t \in TextTypes
         PROVE  TextOf(Q, t) = IF type = t THEN Append(TextOf(P, t), d) ELSE TextOf(P, t)
    <2>1. q.type = P[Len(P)].type /\ q.text = Append(P[Len(P)].text, d)
      BY <1>4 DEF x
    <2>2. IsSeq(P) /\ P # <<>> /\ (\A i \in 1 .. Len(P) : IsSeq(P[i].text)) /\ Q = Put(P, Len(P), q)
      BY <1>1, <1>7 DEF Put
    <2>3. TextOf(Q, t) = IF q.type = t THEN Append(TextOf(P, t), d) ELSE TextOf(P, t)
      BY ONLY <2>1, <2>2, TextGrows
    <2>4. QED BY <1>4, <2>2, <2>3
  <1>15. ApplyPart(P, e) = Q
    <2>1. \A i \in 1 .. n : P[i].id = P[n].id => i = n
      BY <1>1 DEF Named
    <2>2. ApplyPart(P, e) =
            [P EXCEPT ![n] = TextPart(P[n].id, P[n].type, P[n].text \o e.part.text, e.part.status)]
      <3>1. TypedParts(P, S) /\ P # <<>> /\ n = Len(P) /\ e.event = "part.delta" /\ e.part.id = P[n].id
        BY <1>3, <1>5
      <3>2. QED BY ONLY <2>1, <3>1, LastDelta
    <2>3. P[n].text \o <<d>> = x
      BY <1>1, ConcatOne DEF x
    <2>4. QED BY <1>5, <1>7, <2>2, <2>3 DEF q
  <1>16. QED BY <1>6, <1>9, <1>10, <1>12, <1>13, <1>14, <1>15 DEF e, ContinuesPart

\* A part is added behind parts that are closed.
LEMMA PartAdded ==
    ASSUME NEW S, NEW P, TypedParts(P, S), \A i \in 1 .. Len(P) : ~Streams(P[i]),
           NEW p, TypedPart(p, S), \A i \in 1 .. Len(P) : P[i].id # p.id,
           \A i, k \in 1 .. Len(P) : P[i].id = P[k].id => i = k
    PROVE  LET Q == Append(P, p) IN
           /\ TypedParts(Q, S) /\ LastStreams(Q) /\ Len(Q) = Len(P) + 1 /\ Q[Len(P) + 1] = p
           /\ Len(P) \in Nat /\ \A i \in 1 .. Len(P) : Q[i] = P[i]
           /\ \A i, k \in 1 .. Len(Q) : Q[i].id = Q[k].id => i = k
           /\ \A t : TextOf(Q, t) = TextOf(P, t) \o (IF p.type = t THEN p.text ELSE <<>>)
  <1> DEFINE Q == Append(P, p)
  <1>1. /\ IsSeq(P) /\ Len(P) \in Nat
        /\ \A i \in 1 .. Len(P) : TypedPart(P[i], S)
    BY TypedIs
  <1>2. IsSeq(Q) /\ Len(Q) = Len(P) + 1 /\ Q[Len(P) + 1] = p /\ \A i \in 1 .. Len(P) : Q[i] = P[i]
    BY <1>1, AppendIs
  <1>6. IsSeq(p.text)
    <2>1. p.text \in Seq(S)
      BY DEF TypedPart
    <2>2. QED BY <2>1, SeqIs
  <1>7. \A t : TextOf(Q, t) = TextOf(P, t) \o (IF p.type = t THEN p.text ELSE <<>>)
    BY <1>1, <1>6, TextAppend
  <1> HIDE DEF Q
  <1>3. \A i \in 1 .. Len(Q) : i \in 1 .. Len(P) \/ i = Len(P) + 1
    BY <1>1, <1>2
  <1>4. TypedParts(Q, S) /\ LastStreams(Q)
    BY <1>1, <1>2, <1>3 DEF TypedParts, LastStreams
  <1>5. \A i, k \in 1 .. Len(Q) : Q[i].id = Q[k].id => i = k
    BY <1>2, <1>3
  <1>8. QED BY <1>1, <1>2, <1>4, <1>5, <1>7 DEF Q

-----------------------------------------------------------------------------
(* Reading a delta.                                                        *)

TypedState(s, S) ==
    /\ s = [parts |-> s.parts, text |-> s.text, last |-> s.last, sources |-> s.sources]
    /\ TypedParts(s.parts, S) /\ s.last \in [TextTypes -> Nat]

LEMMA AppendTextIs ==
    ASSUME NEW S, NEW s, TypedState(s, S), NEW type \in TextTypes, NEW d, NEW new, new = AppendText(s, type, d)
    PROVE  \/ /\ s.parts # <<>> /\ s.parts[Len(s.parts)].type = type
              /\ new.state = [parts |-> Continued(s.parts, type, d), text |-> s.text, last |-> s.last,
                              sources |-> s.sources]
              /\ new.events = <<PartDelta(s.parts[Len(s.parts)].id, type, <<d>>, "streaming")>>
           \/ LET id == <<type, s.last[type] + 1>> IN
              /\ new.state = [parts |-> Begun(s.parts, id, type, d), text |-> s.text,
                              last |-> [s.last EXCEPT ![type] = @ + 1], sources |-> s.sources]
              /\ new.events = Append(SealEvents(s.parts), PartDelta(id, type, <<d>>, "streaming"))
  <1> DEFINE P == s.parts  n == Len(P)  x == Append(P[n].text, d)
  <1>1. s = [parts |-> P, text |-> s.text, last |-> s.last, sources |-> s.sources] /\ TypedParts(P, S)
    BY DEF TypedState
  <1>2. CASE P # <<>> /\ Last(P).type = type
    <2>1. Last(P) = P[n]
      BY DEF Last
    <2>2. /\ new.state = [s EXCEPT !.parts[n].text = x, !.parts[n].status = "streaming"]
          /\ new.events = <<PartDelta(P[n].id, type, <<d>>, "streaming")>>
      BY <1>2, <2>1 DEF AppendText
    <2>3. [s EXCEPT !.parts[n].text = x, !.parts[n].status = "streaming"] =
            [s EXCEPT !.parts = [P EXCEPT ![n].text = x, ![n].status = "streaming"]]
      BY <1>1
    <2>4. [P EXCEPT ![n].text = x, ![n].status = "streaming"] = With(P, n, x, "streaming")
      BY DEF With
    <2>5. With(P, n, x, "streaming") = Continued(P, type, d)
      <3>1. n \in Nat /\ n # 0
        BY <1>1, <1>2, TypedIs, EmptyIs
      <3>2. n \in 1 .. Len(P)
        BY <3>1
      <3>3. With(P, n, x, "streaming") = [P EXCEPT ![n] = TextPart(P[n].id, P[n].type, x, "streaming")]
        <4> HIDE DEF P, n, x
        <4>1. TypedParts(P, S) /\ n \in 1 .. Len(P)
          BY <1>1, <3>2
        <4>2. QED BY ONLY <4>1, PartWith
      <3>4. P[n].type = type
        BY <1>2, <2>1
      <3>5. QED BY <3>3, <3>4 DEF Continued, Put
    <2> DEFINE Q == Continued(P, type, d)
    <2> HIDE DEF P, Q, n, x
    <2>6. new.state = [s EXCEPT !.parts = Q]
      BY <2>2, <2>3, <2>4, <2>5 DEF Q
    <2>7. new.state = [parts |-> Q, text |-> s.text, last |-> s.last, sources |-> s.sources]
      BY <1>1, <2>6
    <2>8. QED BY <1>2, <2>1, <2>2, <2>7 DEF P, Q, n
  <1>3. CASE ~(P # <<>> /\ Last(P).type = type)
    <2> DEFINE id == <<type, s.last[type] + 1>>  Q == Begun(P, id, type, d)
               l == [s.last EXCEPT ![type] = @ + 1]
    <2>1. /\ new.state = [s EXCEPT !.parts = Append(Sealed(@), TextPart(id, type, <<d>>, "streaming")),
                                   !.last[type] = @ + 1]
          /\ new.events = Append(SealEvents(P), PartDelta(id, type, <<d>>, "streaming"))
      BY <1>3 DEF AppendText
    <2>2. new.state = [s EXCEPT !.parts = Q, !.last = l]
      BY <1>1, <2>1 DEF Begun
    <2> HIDE DEF P, Q, l
    <2>3. new.state = [parts |-> Q, text |-> s.text, last |-> l, sources |-> s.sources]
      BY <1>1, <2>2
    <2>4. QED BY <2>1, <2>3 DEF P, Q, l
  <1>4. QED BY <1>2, <1>3

-----------------------------------------------------------------------------
(* How the queue grows, and what it then leads to.                         *)

Grows(q, r, S) ==
    /\ TypedEvents(q, S) /\ TypedEvents(r, S) /\ Len(q) \in Nat /\ Len(r) \in Nat /\ Len(q) <= Len(r)
    /\ \A i \in 1 .. Len(q) : r[i] = q[i]
    /\ \A i \in 1 .. Len(r) : i \in 1 .. Len(q) \/ r[i].event \in {"part.delta", "tool"}

LEMMA EventsAppend ==
    ASSUME NEW S, NEW q, TypedEvents(q, S), NEW e, TypedEvent(e, S)
    PROVE  /\ TypedEvents(Append(q, e), S) /\ Len(q) \in Nat /\ Len(Append(q, e)) = Len(q) + 1
           /\ Append(q, e)[Len(q) + 1] = e /\ \A i \in 1 .. Len(q) : Append(q, e)[i] = q[i]
           /\ \A i \in 1 .. Len(q) + 1 : i \in 1 .. Len(q) \/ i = Len(q) + 1
  <1> DEFINE r == Append(q, e)
  <1>1. IsSeq(q) /\ Len(q) \in Nat
    BY SeqFacts DEF TypedEvents
  <1>2. IsSeq(r) /\ Len(r) = Len(q) + 1 /\ r[Len(q) + 1] = e /\ \A i \in 1 .. Len(q) : r[i] = q[i]
    BY <1>1, AppendIs
  <1>3. \A i \in 1 .. Len(q) + 1 : i \in 1 .. Len(q) \/ i = Len(q) + 1
    BY <1>1
  <1> HIDE DEF r
  <1>4. TypedEvents(r, S)
    BY <1>2, <1>3 DEF TypedEvents
  <1>5. QED BY <1>1, <1>2, <1>3, <1>4 DEF r

LEMMA GrowsAppend ==
    ASSUME NEW S, NEW q, NEW r, Grows(q, r, S), NEW e, TypedEvent(e, S), e.event \in {"part.delta", "tool"}
    PROVE  Grows(q, Append(r, e), S)
  <1> DEFINE s == Append(r, e)
  <1>1. /\ TypedEvents(s, S) /\ Len(s) = Len(r) + 1 /\ s[Len(r) + 1] = e
        /\ \A i \in 1 .. Len(r) : s[i] = r[i]
        /\ \A i \in 1 .. Len(r) + 1 : i \in 1 .. Len(r) \/ i = Len(r) + 1
    BY EventsAppend DEF Grows
  <1> HIDE DEF s
  <1>2. \A i \in 1 .. Len(q) : i \in 1 .. Len(r)
    BY DEF Grows
  <1>3. Grows(q, s, S)
    BY <1>1, <1>2 DEF Grows
  <1>4. QED BY <1>3 DEF s

\* The events that are added to E, and the parts Q that the page then gets to from P.
LeadsOn(E, F, P, Q) ==
    \A O, t, u : /\ Leads(O, E, P, t) /\ Begins(TextOf(P, "text"), t)
                 /\ \A x : Begins(x, t) => Begins(x, u)
                 /\ Begins(TextOf(Q, "text"), u)
                 => Leads(O, F, Q, u)

LEMMA OneLeads ==
    ASSUME NEW P, NEW Q, NEW e, ApplyPart(P, e) = Q, NEW E, IsSeq(E)
    PROVE  LeadsOn(E, Append(E, e), P, Q)
  <1>1. ASSUME NEW O, NEW t, NEW u, Leads(O, E, P, t), \A x : Begins(x, t) => Begins(x, u),
               Begins(TextOf(Q, "text"), u)
        PROVE  Leads(O, Append(E, e), Q, u)
    <2>1. Leads(O, E, P, u)
      BY <1>1, LeadsMore
    <2>2. QED BY <1>1, <2>1, LeadsAppend
  <1>2. QED BY <1>1 DEF LeadsOn

LEMMA SealLeads ==
    ASSUME NEW S, NEW P, TypedParts(P, S), LastStreams(P),
           \A i, k \in 1 .. Len(P) : P[i].id = P[k].id => i = k,
           NEW Q, NEW e, ApplyPart(Sealed(P), e) = Q, NEW E, TypedEvents(E, S)
    PROVE  LeadsOn(E, Append(E \o SealEvents(P), e), P, Q)
  <1> DEFINE F == E \o SealEvents(P)
  <1>1. IsSeq(F)
    BY SealedEvents DEF TypedEvents
  <1>2. ASSUME NEW O, NEW t, NEW u, Leads(O, E, P, t), Begins(TextOf(P, "text"), t),
               \A x : Begins(x, t) => Begins(x, u), Begins(TextOf(Q, "text"), u)
        PROVE  Leads(O, Append(F, e), Q, u)
    <2>1. Leads(O, F, Sealed(P), t)
      BY <1>2, LeadsSealed
    <2> HIDE DEF F
    <2>2. Leads(O, F, Sealed(P), u)
      BY <1>2, <2>1, LeadsMore
    <2>3. QED BY <1>1, <1>2, <2>2, LeadsAppend
  <1>3. QED BY <1>2 DEF LeadsOn

LEMMA SealedGrows ==
    ASSUME NEW S, NEW P, TypedParts(P, S), LastStreams(P), NEW E, TypedEvents(E, S)
    PROVE  Grows(E, E \o SealEvents(P), S)
  <1> DEFINE F == E \o SealEvents(P)
  <1>1. /\ TypedEvents(F, S) /\ Len(F) \in Nat /\ Len(E) <= Len(F) /\ Len(E) \in Nat
        /\ \A i \in 1 .. Len(E) : F[i] = E[i]
        /\ \A i \in 1 .. Len(F) : i \in 1 .. Len(E) \/ F[i].event = "part.delta"
    BY SealedEvents
  <1> HIDE DEF F
  <1>2. Grows(E, F, S)
    BY <1>1 DEF Grows
  <1>3. QED BY <1>2 DEF F

\* Behind parts P, sealed, the part of event e is added, and E grows by the events that say so.
AddsPart(P, e, Q, E, S) ==
    LET p == e.part IN
    /\ TypedParts(Q, S) /\ LastStreams(Q) /\ Len(Q) = Len(P) + 1 /\ Len(P) \in Nat
    /\ Q[Len(P) + 1] = p
    /\ \A i \in 1 .. Len(P) : /\ Q[i].id = P[i].id /\ Q[i].type = P[i].type
                              /\ (Streams(P[i]) => Q[i].status = "completed") /\ (~Streams(P[i]) => Q[i].status = P[i].status)
    /\ \A i, k \in 1 .. Len(Q) : Q[i].id = Q[k].id => i = k
    /\ \A t : TextOf(Q, t) = TextOf(P, t) \o (IF p.type = t THEN p.text ELSE <<>>)
    /\ LeadsOn(E, Append(E \o SealEvents(P), e), P, Q)
    /\ Grows(E, Append(E \o SealEvents(P), e), S)

\* A part is added when what streamed has been sealed.
LEMMA PartBegun ==
    ASSUME NEW S, NEW P, TypedParts(P, S), LastStreams(P), NEW last, NEW m, Named(P, last, m),
           NEW e, TypedEvent(e, S), e.event \in {"part.delta", "tool"}, TypedPart(e.part, S),
           \A i \in 1 .. Len(P) : P[i].id # e.part.id, NEW E, TypedEvents(E, S)
    PROVE  AddsPart(P, e, Append(Sealed(P), e.part), E, S)
  <1> DEFINE R == Sealed(P)  p == e.part  Q == Append(Sealed(P), p)
  <1>a. TypedPart(p, S) /\ \A i \in 1 .. Len(P) : P[i].id # p.id
    OBVIOUS
  <1>0. \A i, k \in 1 .. Len(P) : P[i].id = P[k].id => i = k
    BY DEF Named
  <1>1. /\ TypedParts(R, S) /\ Len(R) = Len(P)
        /\ \A i \in 1 .. Len(P) :
             /\ R[i].id = P[i].id /\ R[i].type = P[i].type /\ R[i].text = P[i].text /\ ~Streams(R[i])
             /\ (Streams(P[i]) => R[i].status = "completed") /\ (~Streams(P[i]) => R[i].status = P[i].status)
    <2>1. TypedParts(P, S)
      OBVIOUS
    <2>2. TypedParts(R, S) /\ Len(R) = Len(P)
      BY ONLY <2>1, SealedIs
    <2>3. \A i \in 1 .. Len(P) : R[i].id = P[i].id 
      BY ONLY <2>1, SealedIs
    <2>4. \A i \in 1 .. Len(P) : R[i].type = P[i].type 
      BY ONLY <2>1, SealedIs
    <2>5. \A i \in 1 .. Len(P) : R[i].text = P[i].text
      BY ONLY <2>1, SealedIs
    <2>6. \A i \in 1 .. Len(P) : ~Streams(R[i])
      BY ONLY <2>1, SealedIs
    <2>7. \A i \in 1 .. Len(P) : (Streams(P[i]) => R[i].status = "completed")
      BY ONLY <2>1, SealedIs
    <2>8. \A i \in 1 .. Len(P) : (~Streams(P[i]) => R[i].status = P[i].status)
      BY <2>1, TypedIs, ClosedKept
    <2>9. QED BY ONLY <2>2, <2>3, <2>4, <2>5, <2>6, <2>7, <2>8
  <1>3. Q = Append(R, p) /\ e.part = p
    OBVIOUS
  <1> HIDE DEF R, Q, p
  <1>2. /\ \A i \in 1 .. Len(R) : ~Streams(R[i]) /\ R[i].id # p.id
        /\ \A i, k \in 1 .. Len(R) : R[i].id = R[k].id => i = k
    BY <1>0, <1>1, <1>a
  <1>4. /\ TypedParts(Q, S) /\ LastStreams(Q) /\ Len(Q) = Len(R) + 1 /\ Q[Len(R) + 1] = p
        /\ Len(R) \in Nat /\ \A i \in 1 .. Len(R) : Q[i] = R[i]
        /\ \A i, k \in 1 .. Len(Q) : Q[i].id = Q[k].id => i = k
        /\ \A t : TextOf(Q, t) = TextOf(R, t) \o (IF p.type = t THEN p.text ELSE <<>>)
    <2>1. TypedPart(p, S)
      BY <1>a
    <2>2. TypedParts(R, S) /\ \A i \in 1 .. Len(R) : ~Streams(R[i])
      BY <1>1, <1>2
    <2>3. \A i \in 1 .. Len(R) : R[i].id # p.id
      BY <1>2
    <2>4. \A i, k \in 1 .. Len(R) : R[i].id = R[k].id => i = k
      BY <1>2
    <2>5. QED BY ONLY <1>3, <2>1, <2>2, <2>3, <2>4, PartAdded
  <1>5. \A t : TextOf(R, t) = TextOf(P, t)
    <2>1. IsSeq(P) /\ IsSeq(R)
      BY <1>1, TypedIs
    <2>2. QED BY <1>1, <2>1, TextSame
  <1>6. ApplyPart(R, e) = Q
    <2>1. IsSeq(R)
      BY <1>1, TypedIs
    <2>2. CASE e.event = "part.delta"
      BY <1>2, <1>3, <2>1, <2>2, NewDelta
    <2>3. CASE e.event = "tool"
      BY <1>2, <1>3, <2>1, <2>3, NewTool
    <2>4. QED BY <2>2, <2>3
  <1>7. LeadsOn(E, Append(E \o SealEvents(P), e), P, Q)
    BY <1>0, <1>6, SealLeads DEF R
  <1>8. Grows(E, Append(E \o SealEvents(P), e), S)
    BY SealedGrows, GrowsAppend
  <1>9. /\ Len(Q) = Len(P) + 1 /\ Len(P) \in Nat /\ Q[Len(P) + 1] = p
        /\ \A i \in 1 .. Len(P) : /\ Q[i].id = P[i].id /\ Q[i].type = P[i].type
                                  /\ (Streams(P[i]) => Q[i].status = "completed") /\ (~Streams(P[i]) => Q[i].status = P[i].status)
    BY ONLY <1>1, <1>4
  <1>10. \A t : TextOf(Q, t) = TextOf(P, t) \o (IF p.type = t THEN p.text ELSE <<>>)
    BY ONLY <1>4, <1>5
  <1>11. AddsPart(P, e, Q, E, S)
    BY ONLY <1>4, <1>7, <1>8, <1>9, <1>10 DEF AddsPart, p
  <1>12. QED BY <1>11 DEF Q, p

\* The two cases of a delta have this in common.
LEMMA ReadGrows ==
    ASSUME NEW S, NEW s, TypedState(s, S), LastStreams(s.parts), NEW m, Named(s.parts, s.last, m),
           NEW type \in TextTypes, NEW d \in S, NEW E, TypedEvents(E, S)
    PROVE  LET new == AppendText(s, type, d)  P == s.parts  Q == new.state.parts IN
           /\ TypedState(new.state, S) /\ LastStreams(Q) /\ Named(Q, new.state.last, m)
           /\ new.state.text = s.text /\ ToolsKept(P, Q)
           /\ \A t \in TextTypes : TextOf(Q, t) =
                    IF type = t THEN Append(TextOf(P, t), d) ELSE TextOf(P, t)
           /\ LeadsOn(E, E \o new.events, P, Q) /\ Grows(E, E \o new.events, S)
  <1> DEFINE new == AppendText(s, type, d)  P == s.parts  Q == new.state.parts  n == Len(P)
             l == s.last  id == <<type, l[type] + 1>>
  <1>1. TypedParts(P, S) /\ LastStreams(P) /\ Named(P, l, m) /\ l \in [TextTypes -> Nat]
    BY DEF TypedState
  <1>2. \/ /\ P # <<>> /\ P[n].type = type
           /\ new.state = [parts |-> Continued(P, type, d), text |-> s.text, last |-> l, sources |-> s.sources]
           /\ new.events = <<PartDelta(P[n].id, type, <<d>>, "streaming")>>
        \/ /\ new.state = [parts |-> Begun(P, id, type, d), text |-> s.text,
                           last |-> [l EXCEPT ![type] = @ + 1], sources |-> s.sources]
           /\ new.events = Append(SealEvents(P), PartDelta(id, type, <<d>>, "streaming"))
    <2> HIDE DEF new
    <2>1. new = AppendText(s, type, d) /\ TypedState(s, S)
      BY DEF new
    <2>2. QED BY <2>1, AppendTextIs
  <1>3. IsSeq(E) /\ Grows(E, E, S)
    <2>1. IsSeq(E) /\ Len(E) \in Nat
      BY SeqFacts DEF TypedEvents
    <2>2. QED BY <2>1 DEF Grows
  <1> HIDE DEF new, P, l
  <1>4. CASE /\ P # <<>> /\ P[n].type = type
             /\ new.state = [parts |-> Continued(P, type, d), text |-> s.text, last |-> l, sources |-> s.sources]
             /\ new.events = <<PartDelta(P[n].id, type, <<d>>, "streaming")>>
    <2> DEFINE e == PartDelta(P[n].id, type, <<d>>, "streaming")
    <2>1. Q = Continued(P, type, d)
      BY <1>4
    <2>2. new.state.last = l /\ new.state.text = s.text /\ new.state.sources = s.sources
          /\ new.state = [parts |-> Q, text |-> new.state.text, last |-> new.state.last,
                          sources |-> new.state.sources]
      BY <1>4
    <2> HIDE DEF Q
    <2>3. /\ TypedParts(Q, S) /\ LastStreams(Q) /\ Named(Q, l, m) /\ ToolsKept(P, Q)
          /\ \A t \in TextTypes : TextOf(Q, t) = IF type = t THEN Append(TextOf(P, t), d) ELSE TextOf(P, t)
          /\ ApplyPart(P, e) = Q /\ TypedEvent(e, S)
      <3> HIDE DEF n, e
      <3>1. n = Len(P) /\ P # <<>> /\ P[n].type = type
        BY <1>4 DEF n
      <3>2. ContinuesPart(P, l, m, type, d, Q, S)
        BY <1>1, <2>1, <3>1, TextContinues
      <3>3. QED BY <3>1, <3>2 DEF ContinuesPart, e
    <2>4. e.event = "part.delta"
      BY DEF PartDelta
    <2> HIDE DEF e
    <2>5. E \o new.events = Append(E, e)
      <3>1. new.events = <<e>>
        BY <1>4 DEF e
      <3>2. QED BY <1>3, <3>1, ConcatOne
    <2>6. LeadsOn(E, Append(E, e), P, Q)
      BY <1>3, <2>3, OneLeads
    <2>7. Grows(E, Append(E, e), S)
      BY <1>3, <2>3, <2>4, GrowsAppend
    <2>8. TypedState(new.state, S)
      <3>1. new.state.parts = Q
        BY DEF Q
      <3>2. QED BY <1>1, <2>2, <2>3, <3>1 DEF TypedState
    <2>9. QED BY <2>2, <2>3, <2>5, <2>6, <2>7, <2>8 DEF Q, P, new
  <1>5. CASE /\ new.state = [parts |-> Begun(P, id, type, d), text |-> s.text,
                           last |-> [l EXCEPT ![type] = @ + 1], sources |-> s.sources]
             /\ new.events = Append(SealEvents(P), PartDelta(id, type, <<d>>, "streaming"))
    <2> DEFINE p == TextPart(id, type, <<d>>, "streaming")  e == PartDelta(id, type, <<d>>, "streaming")
               k == [l EXCEPT ![type] = @ + 1]
    <2>1. Q = Append(Sealed(P), p)
      BY <1>5 DEF Begun
    <2>2. new.state.last = k /\ new.state.text = s.text /\ new.state.sources = s.sources
          /\ new.state = [parts |-> Q, text |-> new.state.text, last |-> new.state.last,
                          sources |-> new.state.sources]
      BY <1>5
    <2>3. e.event = "part.delta" /\ e.part = p
      BY DEF PartDelta
    <2> HIDE DEF Q
    <2>4. k \in [TextTypes -> Nat] /\ k[type] = l[type] + 1 /\ l[type] \in Nat
          /\ \A t \in TextTypes : t # type => k[t] = l[t]
      BY <1>1
    <2> HIDE DEF k, e
    <2>5. TypedPart(p, S) /\ p.id = id /\ p.type = type /\ p.text = <<d>> /\ p.status = "streaming"
      <3> DEFINE y == <<d>>
      <3>1. y \in Seq(S) /\ "streaming" \in PartStatus /\ type \in TextTypes \cup {"tool"}
        BY DEF PartStatus
      <3> HIDE DEF y, id
      <3>2. LET q == TextPart(id, type, y, "streaming") IN
            TypedPart(q, S) /\ q.id = id /\ q.type = type /\ q.text = y /\ q.status = "streaming"
        BY ONLY <3>1, TextPartIs
      <3>3. QED BY <3>2 DEF y
    <2> HIDE DEF p
    <2>6. TypedEvent(e, S)
      BY <2>3, <2>5 DEF TypedEvent
    <2>7. ASSUME NEW i \in 1 .. Len(P) PROVE P[i].id # p.id
      <3>1. ASSUME NamedText(P[i], l) PROVE P[i].id # id
        <4>1. PICK j \in 1 .. l[P[i].type] : P[i].id = <<P[i].type, j>>
          BY <3>1 DEF NamedText
        <4>2. P[i].type = type => j # l[type] + 1
          BY <2>4
        <4>3. QED BY <4>1, <4>2
      <3>2. ASSUME NamedTool(P[i], m) PROVE P[i].id # id
        BY <3>2 DEF NamedTool, TextTypes
      <3>3. QED BY <1>1, <2>5, <3>1, <3>2 DEF Named
    <2>8. /\ TypedParts(Q, S) /\ LastStreams(Q) /\ Len(Q) = Len(P) + 1 /\ Len(P) \in Nat
          /\ Q[Len(P) + 1] = p
          /\ \A i \in 1 .. Len(P) : /\ Q[i].id = P[i].id /\ Q[i].type = P[i].type
                    /\ (Streams(P[i]) => Q[i].status = "completed") /\ (~Streams(P[i]) => Q[i].status = P[i].status)
          /\ \A i, j \in 1 .. Len(Q) : Q[i].id = Q[j].id => i = j
          /\ \A t : TextOf(Q, t) = TextOf(P, t) \o (IF p.type = t THEN p.text ELSE <<>>)
          /\ LeadsOn(E, Append(E \o SealEvents(P), e), P, Q)
          /\ Grows(E, Append(E \o SealEvents(P), e), S)
      <3>1. e.event \in {"part.delta", "tool"} /\ e.part = p /\ TypedEvents(E, S)
        BY <2>3
      <3> DEFINE X == Append(Sealed(P), e.part)
      <3>2. TypedPart(e.part, S) /\ \A i \in 1 .. Len(P) : P[i].id # e.part.id
        BY <2>3, <2>5, <2>7
      <3>0. AddsPart(P, e, X, E, S)
        BY ONLY <1>1, <2>6, <3>1, <3>2, PartBegun
      <3> HIDE DEF X
      <3>3. /\ TypedParts(X, S) /\ LastStreams(X) /\ Len(X) = Len(P) + 1 /\ Len(P) \in Nat
            /\ X[Len(P) + 1] = e.part
            /\ \A i \in 1 .. Len(P) : /\ X[i].id = P[i].id /\ X[i].type = P[i].type
                    /\ (Streams(P[i]) => X[i].status = "completed") /\ (~Streams(P[i]) => X[i].status = P[i].status)
            /\ \A i, j \in 1 .. Len(X) : X[i].id = X[j].id => i = j
            /\ \A t : TextOf(X, t) = TextOf(P, t) \o (IF e.part.type = t THEN e.part.text ELSE <<>>)
            /\ LeadsOn(E, Append(E \o SealEvents(P), e), P, X)
            /\ Grows(E, Append(E \o SealEvents(P), e), S)
        BY ONLY <3>0 DEF AddsPart
      <3>4. X = Q /\ e.part = p
        BY <2>1, <2>3 DEF X
      <3>5. QED BY ONLY <3>3, <3>4
    <2>9. \A i \in 1 .. Len(Q) : i \in 1 .. Len(P) \/ i = Len(P) + 1
      BY <2>8
    <2>10. Named(Q, k, m)
      <3>1. ASSUME NEW i \in 1 .. Len(P) PROVE NamedText(Q[i], k) \/ NamedTool(Q[i], m)
        <4>1. CASE NamedText(P[i], l)
          <5>1. PICK j \in 1 .. l[P[i].type] : P[i].id = <<P[i].type, j>> /\ P[i].type \in TextTypes
            BY <4>1 DEF NamedText
          <5>2. j \in 1 .. k[P[i].type]
            BY <1>1, <2>4, <5>1
          <5>3. QED BY <2>8, <5>1, <5>2 DEF NamedText
        <4>2. CASE NamedTool(P[i], m)
          BY <2>8, <4>2 DEF NamedTool
        <4>3. QED BY <1>1, <4>1, <4>2 DEF Named
      <3>2. NamedText(p, k)
        <4>1. l[type] + 1 \in 1 .. k[type]
          BY <2>4
        <4>2. QED BY <2>5, <4>1 DEF NamedText
      <3>3. QED BY <2>8, <2>9, <3>1, <3>2 DEF Named
    <2>11. ToolsKept(P, Q)
      <3>1. \A i \in 1 .. Len(P) : P[i].type = "tool" => ~Streams(P[i])
        BY DEF Streams, IsTextLike, TextTypes
      <3>2. \A i \in 1 .. Len(Q) : Q[i].status = "running" =>
                i \in 1 .. Len(P) /\ P[i].status = "running" /\ Q[i].id = P[i].id
        BY <2>5, <2>8, <2>9
      <3>3. \A i \in 1 .. Len(P) : P[i].type = "tool" =>
                Q[i].id = P[i].id /\ Q[i].type = "tool" /\ Q[i].status = P[i].status
        BY <2>8, <3>1
      <3>4. Len(P) \in Nat /\ Len(Q) \in Nat /\ Len(P) <= Len(Q)
        BY <2>8
      <3>5. QED BY ONLY <3>2, <3>3, <3>4 DEF ToolsKept
    <2>12. ASSUME NEW t \in TextTypes
           PROVE  TextOf(Q, t) = IF type = t THEN Append(TextOf(P, t), d) ELSE TextOf(P, t)
      <3>1. IsSeq(TextOf(P, t))
        BY <1>1, TypedIs, TextIsSeq
      <3> DEFINE x == TextOf(P, t)
      <3>2. TextOf(Q, t) = x \o (IF type = t THEN <<d>> ELSE <<>>)
        BY <2>5, <2>8
      <3> HIDE DEF x
      <3>3. x \o <<d>> = Append(x, d) /\ x \o <<>> = x
        BY <3>1, ConcatOne, ConcatEmpty DEF x
      <3>4. QED BY <3>2, <3>3 DEF x
    <2>13. E \o new.events = Append(E \o SealEvents(P), e)
      <3>1. IsSeq(SealEvents(P))
        <4>1. \A y : IsSeq(<<y>>)
          <5>1. \A y : <<y>> \in Seq({y})
            OBVIOUS
          <5>2. QED BY <5>1, SeqIs
        <4>2. QED BY <1>1, <4>1, SealingIs, EmptyIs
      <3>2. new.events = Append(SealEvents(P), e)
        BY <1>5 DEF e
      <3>3. QED BY <1>3, <3>1, <3>2, ConcatAppend
    <2>14. TypedState(new.state, S)
      <3>1. new.state.parts = Q
        BY DEF Q
      <3>2. QED BY <2>2, <2>4, <2>8, <3>1 DEF TypedState
    <2>15. QED BY <2>2, <2>8, <2>10, <2>11, <2>12, <2>13, <2>14 DEF Q, P, new
  <1>6. QED BY <1>2, <1>4, <1>5

-----------------------------------------------------------------------------
(* Starting and finishing a tool.                                          *)

LEMMA ToolPartIs ==
    ASSUME NEW S, NEW c, NEW status \in PartStatus
    PROVE  LET p == ToolPart(c, status) IN
           TypedPart(p, S) /\ p.id = <<"tool", c>> /\ p.type = "tool" /\ p.text = <<>> /\ p.status = status
  <1> DEFINE id == <<"tool", c>>  x == <<>>  type == "tool"
  <1>1. x \in Seq(S) /\ type \in TextTypes \cup {"tool"}
    OBVIOUS
  <1>2. ToolPart(c, status) = TextPart(id, type, x, status)
    BY DEF ToolPart, TextPart
  <1> HIDE DEF id, x, type
  <1>3. LET p == TextPart(id, type, x, status) IN
        TypedPart(p, S) /\ p.id = id /\ p.type = type /\ p.text = x /\ p.status = status
    BY <1>1, TextPartIs
  <1>4. QED BY <1>2, <1>3 DEF id, x, type

LEMMA ToolBegun ==
    ASSUME NEW S, NEW P, TypedParts(P, S), LastStreams(P), NEW last, NEW m \in Nat, Named(P, last, m),
           NEW c, c = m + 1, NEW calls, Started(P, m, calls),
           \A i \in 1 .. Len(P) : P[i].status # "running", NEW E, TypedEvents(E, S)
    PROVE  LET p == ToolPart(c, "running")  e == ToolEvent(p)  Q == Append(Sealed(P), p) IN
           /\ TypedParts(Q, S) /\ LastStreams(Q) /\ Named(Q, last, c) /\ Started(Q, c, calls)
           /\ \A i \in 1 .. Len(Q) : Q[i].status = "running" => Q[i].id = <<"tool", c>>
           /\ \A t \in TextTypes : TextOf(Q, t) = TextOf(P, t)
           /\ LeadsOn(E, Append(E \o SealEvents(P), e), P, Q)
           /\ Grows(E, Append(E \o SealEvents(P), e), S)
  <1> DEFINE p == ToolPart(c, "running")  e == ToolEvent(p)  Q == Append(Sealed(P), e.part)
  <1>1. TypedPart(p, S) /\ p.id = <<"tool", c>> /\ p.type = "tool" /\ p.text = <<>> /\ p.status = "running"
    <2>1. "running" \in PartStatus
      BY DEF PartStatus
    <2>2. QED BY <2>1, ToolPartIs
  <1> HIDE DEF p
  <1>2. e.event = "tool" /\ e.part = p
    BY DEF ToolEvent
  <1> HIDE DEF e
  <1>3. TypedEvent(e, S) /\ TypedPart(e.part, S) /\ e.event \in {"part.delta", "tool"}
    BY <1>1, <1>2 DEF TypedEvent
  <1>4. \A i \in 1 .. Len(P) : P[i].id # e.part.id
    <2>1. ASSUME NEW i \in 1 .. Len(P) PROVE P[i].id # <<"tool", c>>
      <3>1. NamedText(P[i], last) => P[i].id # <<"tool", c>>
        BY DEF NamedText, TextTypes
      <3>2. NamedTool(P[i], m) => P[i].id # <<"tool", c>>
        <4>1. c \notin 1 .. m
          OBVIOUS
        <4>2. QED BY <4>1 DEF NamedTool
      <3>3. QED BY <3>1, <3>2 DEF Named
    <2>2. QED BY <1>1, <1>2, <2>1
  <1>5. AddsPart(P, e, Q, E, S)
    <2>1. TypedParts(P, S) /\ LastStreams(P) /\ Named(P, last, m) /\ TypedEvents(E, S)
      OBVIOUS
    <2>2. QED BY ONLY <1>3, <1>4, <2>1, PartBegun
  <1>6. Q = Append(Sealed(P), p)
    BY <1>2
  <1> HIDE DEF Q
  <1>7. /\ TypedParts(Q, S) /\ LastStreams(Q) /\ Len(Q) = Len(P) + 1 /\ Len(P) \in Nat
        /\ Q[Len(P) + 1] = p
        /\ \A i \in 1 .. Len(P) : /\ Q[i].id = P[i].id /\ Q[i].type = P[i].type
                  /\ (Streams(P[i]) => Q[i].status = "completed") /\ (~Streams(P[i]) => Q[i].status = P[i].status)
        /\ \A i, j \in 1 .. Len(Q) : Q[i].id = Q[j].id => i = j
        /\ \A t : TextOf(Q, t) = TextOf(P, t) \o (IF p.type = t THEN p.text ELSE <<>>)
        /\ LeadsOn(E, Append(E \o SealEvents(P), e), P, Q)
        /\ Grows(E, Append(E \o SealEvents(P), e), S)
    BY <1>2, <1>5 DEF AddsPart
  <1>8. /\ \A i \in 1 .. Len(Q) : i \in 1 .. Len(P) \/ i = Len(P) + 1
        /\ Len(P) + 1 \in 1 .. Len(Q) /\ \A i \in 1 .. Len(P) : i \in 1 .. Len(Q)
    BY <1>7
  <1>9. Named(Q, last, c)
    <2>1. ASSUME NEW i \in 1 .. Len(P) PROVE NamedText(Q[i], last) \/ NamedTool(Q[i], c)
      <3>1. CASE NamedText(P[i], last)
        BY <1>7, <3>1 DEF NamedText
      <3>2. CASE NamedTool(P[i], m)
        BY <1>7, <3>2 DEF NamedTool
      <3>3. QED BY <3>1, <3>2 DEF Named
    <2>2. NamedTool(p, c)
      <3>1. c \in 1 .. c
        OBVIOUS
      <3>2. QED BY <1>1, <3>1 DEF NamedTool
    <2>3. QED BY <1>7, <1>8, <2>1, <2>2 DEF Named
  <1>10. Started(Q, c, calls)
    <2>1. ASSUME NEW b \in 1 .. m
          PROVE  \E i \in 1 .. Len(Q) : Q[i].id = <<"tool", b>> /\ Q[i].status = DoneStatus(calls[b])
      <3>1. PICK i \in 1 .. Len(P) : P[i].id = <<"tool", b>> /\ P[i].status = DoneStatus(calls[b])
        BY DEF Started
      <3>2. P[i].type = "tool"
        BY <3>1, ToolNamed
      <3>3. ~Streams(P[i])
        BY <3>2 DEF Streams, IsTextLike, TextTypes
      <3>4. QED BY <1>7, <1>8, <3>1, <3>3
    <2>2. Q[Len(P) + 1].id = <<"tool", c>> /\ Q[Len(P) + 1].status = "running"
      BY <1>1, <1>7
    <2>3. \A b \in 1 .. c : b \in 1 .. m \/ b = c
      OBVIOUS
    <2>4. QED BY <1>8, <2>1, <2>2, <2>3 DEF Started
  <1>11. \A i \in 1 .. Len(Q) : Q[i].status = "running" => Q[i].id = <<"tool", c>>
    BY <1>1, <1>7, <1>8
  <1>12. ASSUME NEW t \in TextTypes PROVE TextOf(Q, t) = TextOf(P, t)
    <2>1. IsSeq(TextOf(P, t))
      BY TypedIs, TextIsSeq
    <2>2. p.type # t
      BY <1>1 DEF TextTypes
    <2>3. TextOf(Q, t) = TextOf(P, t) \o <<>>
      BY <1>7, <2>2
    <2>4. QED BY <2>1, <2>3, ConcatEmpty
  <1>13. QED BY <1>6, <1>7, <1>9, <1>10, <1>11, <1>12 DEF p, e

LEMMA ToolEnded ==
    ASSUME NEW S, NEW P, TypedParts(P, S), LastStreams(P), NEW last, NEW m \in Nat, m # 0, Named(P, last, m),
           NEW calls, Started(P, m, calls),
           \A i \in 1 .. Len(P) : P[i].status = "running" => P[i].id = <<"tool", m>>,
           NEW done, done = DoneStatus(calls[m]), NEW E, TypedEvents(E, S)
    PROVE  LET p == ToolPart(m, done)  e == ToolEvent(p)  Q == Put(P, PartAt(P, <<"tool", m>>), p) IN
           /\ TypedParts(Q, S) /\ LastStreams(Q) /\ Named(Q, last, m) /\ Started(Q, m, calls)
           /\ \A i \in 1 .. Len(Q) : Q[i].status # "running"
           /\ \A t \in TextTypes : TextOf(Q, t) = TextOf(P, t)
           /\ LeadsOn(E, Append(E, e), P, Q) /\ Grows(E, Append(E, e), S)
  <1> DEFINE id == <<"tool", m>>  p == ToolPart(m, done)  e == ToolEvent(p)  Q == Put(P, PartAt(P, id), p)
  <1>1. TypedPart(p, S) /\ p.id = id /\ p.type = "tool" /\ p.text = <<>> /\ p.status = done
    <2>1. done \in PartStatus
      BY DEF PartStatus, DoneStatus
    <2>2. QED BY <2>1, ToolPartIs
  <1>2. done \in {"error", "success"}
    BY DEF DoneStatus
  <1> HIDE DEF p
  <1>3. e.event = "tool" /\ e.part = p
    BY DEF ToolEvent
  <1> HIDE DEF e
  <1>4. TypedEvent(e, S)
    BY <1>1, <1>3 DEF TypedEvent
  <1>5. IsSeq(P) /\ Len(P) \in Nat /\ \A i \in 1 .. Len(P) : TypedPart(P[i], S)
    BY TypedIs
  <1>6. \A i, k \in 1 .. Len(P) : P[i].id = P[k].id => i = k
    BY DEF Named
  <1>7. PICK k \in 1 .. Len(P) : P[k].id = id
    <2>1. m \in 1 .. m
      OBVIOUS
    <2>2. QED BY <2>1 DEF Started
  <1>8. P[k].type = "tool"
    BY <1>7, ToolNamed
  <1>9. PartAt(P, id) = k
    <2>1. PartAt(P, P[k].id) = k
      BY <1>5, <1>6, PartAtIs
    <2>2. QED BY <1>7, <2>1
  <1>10. Q = Put(P, k, p)
    BY <1>9
  <1> HIDE DEF Q
  <1>11. IsSeq(Q) /\ Len(Q) = Len(P) /\ Q[k] = p /\ \A i \in 1 .. Len(P) : i # k => Q[i] = P[i]
    BY <1>5, <1>10, PutIs
  <1>12. ApplyPart(P, e) = Q
    <2>1. ApplyPart(P, e) = [P EXCEPT ![k] = e.part]
      BY <1>1, <1>3, <1>5, <1>6, <1>7, ToolAgain
    <2>2. QED BY <1>3, <1>10, <2>1 DEF Put
  <1>13. TypedParts(Q, S)
    BY <1>1, <1>5, <1>11 DEF TypedParts
  <1>14. ~Streams(p)
    BY <1>1 DEF Streams, IsTextLike, TextTypes
  <1>15. LastStreams(Q)
    BY <1>11, <1>14 DEF LastStreams
  <1>16. \A i \in 1 .. Len(P) : Q[i].id = P[i].id /\ Q[i].type = P[i].type
    BY <1>1, <1>7, <1>8, <1>11
  <1>17. Named(Q, last, m)
    <2>1. \A i, j \in 1 .. Len(Q) : Q[i].id = Q[j].id => i = j
      BY <1>6, <1>11, <1>16
    <2>2. ASSUME NEW i \in 1 .. Len(Q) PROVE NamedText(Q[i], last) \/ NamedTool(Q[i], m)
      <3>1. NamedText(P[i], last) \/ NamedTool(P[i], m)
        BY <1>11 DEF Named
      <3>2. QED BY <1>11, <1>16, <3>1 DEF NamedText, NamedTool
    <2>3. QED BY <2>1, <2>2 DEF Named
  <1>18. ASSUME NEW i \in 1 .. Len(P), Q[i].status = "running" PROVE FALSE
    <2>1. CASE i = k
      BY <1>1, <1>2, <1>11, <1>18, <2>1
    <2>2. CASE i # k
      <3>1. P[i].id = id
        BY <1>11, <1>18, <2>2
      <3>2. QED BY <1>6, <1>7, <2>2, <3>1
    <2>3. QED BY <2>1, <2>2
  <1>19. Started(Q, m, calls)
    <2>1. ASSUME NEW b \in 1 .. m
          PROVE  \E i \in 1 .. Len(Q) : Q[i].id = <<"tool", b>> /\ Q[i].status = DoneStatus(calls[b])
      <3>1. CASE b = m
        BY <1>1, <1>11, <3>1
      <3>2. CASE b # m
        <4>1. PICK i \in 1 .. Len(P) : P[i].id = <<"tool", b>> /\ P[i].status = DoneStatus(calls[b])
          BY <3>2 DEF Started
        <4>2. i # k
          BY <1>7, <3>2, <4>1
        <4>3. QED BY <1>11, <4>1, <4>2
      <3>3. QED BY <3>1, <3>2
    <2>2. QED BY <2>1 DEF Started
  <1>20. ASSUME NEW t \in TextTypes PROVE TextOf(Q, t) = TextOf(P, t)
    <2>1. \A i \in 1 .. Len(P) : \/ P[i].type = Q[i].type /\ P[i].text = Q[i].text
                                 \/ P[i].type # t /\ Q[i].type # t
      BY <1>1, <1>8, <1>11 DEF TextTypes
    <2>2. QED BY <1>5, <1>11, <2>1, TextSame
  <1>21. LeadsOn(E, Append(E, e), P, Q)
    <2>1. IsSeq(E)
      BY DEF TypedEvents
    <2>2. QED BY <1>12, <2>1, OneLeads
  <1>22. Grows(E, Append(E, e), S)
    <2>1. Grows(E, E, S)
      BY SeqFacts DEF TypedEvents, Grows
    <2>2. QED BY <1>3, <1>4, <2>1, GrowsAppend
  <1>23. QED BY <1>11, <1>13, <1>15, <1>17, <1>18, <1>19, <1>20, <1>21, <1>22 DEF Q, p, e

-----------------------------------------------------------------------------
(* The events on their way.                                                *)

LEMMA MirrorsGrow ==
    ASSUME NEW S, NEW shown, NEW w, NEW q, NEW P, NEW t, Mirrors(shown, w, q, P, t),
           NEW r, Grows(q, r, S), NEW Q, LeadsOn(q, r, P, Q), Begins(TextOf(P, "text"), t),
           NEW u, \A x : Begins(x, t) => Begins(x, u), Begins(TextOf(Q, "text"), u)
    PROVE  Mirrors(shown, w, r, Q, u)
  <1> DEFINE M == Shown(shown, w)[Len(w)]
  <1> HIDE DEF M
  <1>1. /\ \A i \in 1 .. Len(w) : w[i].event \in {"part.delta", "tool"}
        /\ \A i \in 1 .. Len(q) : q[i].event \in {"part.delta", "tool", "none"}
        /\ Leads(shown, w, M, t) /\ Leads(M, q, P, t)
    BY DEF Mirrors, M
  <1>2. Leads(shown, w, M, u)
    BY <1>1, LeadsMore
  <1>3. Leads(M, r, Q, u)
    BY <1>1 DEF LeadsOn
  <1>4. \A i \in 1 .. Len(r) : r[i].event \in {"part.delta", "tool", "none"}
    BY <1>1 DEF Grows
  <1>5. QED BY <1>1, <1>2, <1>3, <1>4 DEF Mirrors, M

LEMMA SentinelShows == ASSUME NEW P PROVE ApplyPart(P, Sentinel) = P
  BY DEF ApplyPart, Sentinel

LEMMA MirrorsEnds ==
    ASSUME NEW S, NEW shown, NEW w, NEW q, NEW P, NEW t, Mirrors(shown, w, q, P, t),
           TypedEvents(q, S), Begins(TextOf(P, "text"), t)
    PROVE  Mirrors(shown, w, Append(q, Sentinel), P, t)
  <1> DEFINE M == Shown(shown, w)[Len(w)]  r == Append(q, Sentinel)
  <1> HIDE DEF M
  <1>1. /\ \A i \in 1 .. Len(w) : w[i].event \in {"part.delta", "tool"}
        /\ \A i \in 1 .. Len(q) : q[i].event \in {"part.delta", "tool", "none"}
        /\ Leads(shown, w, M, t) /\ Leads(M, q, P, t)
    BY DEF Mirrors, M
  <1>2. IsSeq(q) /\ Len(q) \in Nat
    BY SeqFacts DEF TypedEvents
  <1>3. Leads(M, r, P, t)
    BY <1>1, <1>2, SentinelShows, LeadsAppend
  <1>4. Len(r) = Len(q) + 1 /\ r[Len(q) + 1] = Sentinel /\ \A i \in 1 .. Len(q) : r[i] = q[i]
    BY <1>2, AppendIs
  <1> HIDE DEF r
  <1>5. \A i \in 1 .. Len(r) : r[i].event \in {"part.delta", "tool", "none"}
    <2>1. \A i \in 1 .. Len(r) : i \in 1 .. Len(q) \/ i = Len(q) + 1
      BY <1>2, <1>4
    <2>2. QED BY <1>1, <1>4, <2>1 DEF Sentinel
  <1>6. Mirrors(shown, w, r, P, t)
    BY <1>1, <1>3, <1>5 DEF Mirrors, M
  <1>7. QED BY <1>6 DEF r

LEMMA TailEvents ==
    ASSUME NEW S, NEW q, TypedEvents(q, S), q # <<>>
    PROVE  /\ TypedEvents(Tail(q), S) /\ TypedEvent(Head(q), S) /\ IsSeq(q) /\ IsSeq(Tail(q))
           /\ Len(q) \in Nat /\ Len(q) >= 1 /\ Len(Tail(q)) = Len(q) - 1 /\ Head(q) = q[1]
           /\ \A i \in 1 .. Len(q) - 1 : Tail(q)[i] = q[i + 1]
           /\ 1 \in 1 .. Len(q) /\ \A i \in 1 .. Len(q) - 1 : i + 1 \in 1 .. Len(q)
  <1> DEFINE r == Tail(q)
  <1>1. IsSeq(q) /\ Len(q) \in Nat /\ \A i \in 1 .. Len(q) : TypedEvent(q[i], S)
    BY SeqFacts DEF TypedEvents
  <1>2. /\ IsSeq(r) /\ Len(r) = Len(q) - 1 /\ Len(q) >= 1 /\ Head(q) = q[1]
        /\ \A i \in 1 .. Len(q) - 1 : r[i] = q[i + 1]
    BY <1>1, TailIs
  <1> HIDE DEF r
  <1>3. 1 \in 1 .. Len(q) /\ \A i \in 1 .. Len(q) - 1 : i + 1 \in 1 .. Len(q)
    BY <1>1, <1>2
  <1>4. TypedEvents(r, S)
    BY <1>1, <1>2, <1>3 DEF TypedEvents
  <1>5. QED BY <1>1, <1>2, <1>3, <1>4 DEF r

LEMMA MirrorsRelay ==
    ASSUME NEW S, NEW shown, NEW w, TypedEvents(w, S), NEW q, TypedEvents(q, S), q # <<>>,
           NEW P, NEW t, Mirrors(shown, w, q, P, t)
    PROVE  /\ Head(q) = Sentinel => Mirrors(shown, w, Tail(q), P, t)
           /\ Head(q) # Sentinel => Mirrors(shown, Append(w, Head(q)), Tail(q), P, t)
  <1> DEFINE M == Shown(shown, w)[Len(w)]  r == Tail(q)  e == Head(q)  v == Append(w, e)  N == ApplyPart(M, e)
  <1> HIDE DEF M
  <1>1. /\ \A i \in 1 .. Len(w) : w[i].event \in {"part.delta", "tool"}
        /\ \A i \in 1 .. Len(q) : q[i].event \in {"part.delta", "tool", "none"}
        /\ Leads(shown, w, M, t) /\ Leads(M, q, P, t)
    BY DEF Mirrors, M
  <1>2. /\ IsSeq(q) /\ Len(r) = Len(q) - 1 /\ e = q[1] /\ TypedEvent(e, S)
        /\ \A i \in 1 .. Len(q) - 1 : r[i] = q[i + 1]
        /\ 1 \in 1 .. Len(q) /\ \A i \in 1 .. Len(q) - 1 : i + 1 \in 1 .. Len(q)
    BY TailEvents
  <1>3. Leads(N, r, P, t) /\ Begins(TextOf(N, "text"), t)
    BY <1>1, <1>2, LeadsTail
  <1>4. IsSeq(w)
    BY DEF TypedEvents
  <1>5. Len(v) = Len(w) + 1 /\ v[Len(w) + 1] = e /\ (\A i \in 1 .. Len(w) : v[i] = w[i]) /\ Len(w) \in Nat
    BY <1>4, AppendIs, SeqFacts
  <1> HIDE DEF r, e
  <1>6. \A i \in 1 .. Len(r) : r[i].event \in {"part.delta", "tool", "none"}
    BY <1>1, <1>2
  <1>7. ASSUME e = Sentinel PROVE Mirrors(shown, w, r, P, t)
    <2>1. N = M
      BY <1>7, SentinelShows
    <2>2. QED BY <1>1, <1>3, <1>6, <2>1 DEF Mirrors, M
  <1>8. ASSUME e # Sentinel PROVE Mirrors(shown, v, r, P, t)
    <2>1. e.event \in {"part.delta", "tool"}
      <3>1. e.event \in {"part.delta", "tool", "none"}
        BY <1>1, <1>2
      <3>2. QED BY <1>2, <1>8, <3>1 DEF TypedEvent, ErrorEvent
    <2>2. Leads(shown, v, N, t)
      <3> HIDE DEF v
      <3>1. Leads(shown, Append(w, e), N, t)
        BY <1>1, <1>3, <1>4, LeadsAppend
      <3>2. QED BY <3>1 DEF v
    <2> HIDE DEF v, N
    <2>3. \A i \in 1 .. Len(v) : i \in 1 .. Len(w) \/ i = Len(w) + 1
      BY <1>5
    <2>4. \A i \in 1 .. Len(v) : v[i].event \in {"part.delta", "tool"}
      BY <1>1, <1>5, <2>1, <2>3
    <2>5. Shown(shown, v)[Len(v)] = N
      BY <2>2 DEF Leads
    <2>6. QED BY <1>3, <1>6, <2>2, <2>4, <2>5 DEF Mirrors
  <1>9. QED BY <1>7, <1>8 DEF r, e

LEMMA MirrorsReceives ==
    ASSUME NEW S, NEW shown, NEW w, TypedEvents(w, S), w # <<>>, NEW q, NEW P, NEW t, Mirrors(shown, w, q, P, t)
    PROVE  /\ Mirrors(ApplyPart(shown, Head(w)), Tail(w), q, P, t)
           /\ Begins(TextOf(ApplyPart(shown, Head(w)), "text"), t) /\ Head(w).event \in {"part.delta", "tool"}
  <1> DEFINE M == Shown(shown, w)[Len(w)]  v == Tail(w)  e == Head(w)  N == ApplyPart(shown, e)
  <1> HIDE DEF M
  <1>1. /\ \A i \in 1 .. Len(w) : w[i].event \in {"part.delta", "tool"}
        /\ \A i \in 1 .. Len(q) : q[i].event \in {"part.delta", "tool", "none"}
        /\ Leads(shown, w, M, t) /\ Leads(M, q, P, t)
    BY DEF Mirrors, M
  <1>2. /\ IsSeq(w) /\ Len(v) = Len(w) - 1 /\ e = w[1]
        /\ \A i \in 1 .. Len(w) - 1 : v[i] = w[i + 1]
        /\ 1 \in 1 .. Len(w) /\ \A i \in 1 .. Len(w) - 1 : i + 1 \in 1 .. Len(w)
    BY TailEvents
  <1>3. Leads(N, v, M, t) /\ Begins(TextOf(N, "text"), t)
    BY <1>1, <1>2, LeadsTail
  <1> HIDE DEF v, e, N
  <1>4. \A i \in 1 .. Len(v) : v[i].event \in {"part.delta", "tool"}
    BY <1>1, <1>2
  <1>5. Shown(N, v)[Len(v)] = M
    BY <1>3 DEF Leads
  <1>6. Mirrors(N, v, q, P, t)
    BY <1>1, <1>3, <1>4, <1>5 DEF Mirrors
  <1>7. e.event \in {"part.delta", "tool"}
    BY <1>1, <1>2
  <1>8. QED BY <1>3, <1>6, <1>7 DEF v, e, N

-----------------------------------------------------------------------------
(* The sentinels.                                                          *)

LEMMA EndsGrow ==
    ASSUME NEW S, NEW q, NEW done, NEW gone, EndsSeen(q, done, gone), NEW r, Grows(q, r, S),
           NEW more, gone \subseteq more, more \subseteq Consumers
    PROVE  EndsSeen(r, done, more)
  <1>1. \A i \in 1 .. Len(r) : r[i].event = "none" => i \in 1 .. Len(q) /\ q[i].event = "none"
    BY DEF Grows
  <1>2. (gone # {} => more # {}) /\ (gone = Consumers => more = Consumers)
    OBVIOUS
  <1>3. QED BY <1>1, <1>2 DEF EndsSeen

LEMMA EndsMore ==
    ASSUME NEW S, NEW q, TypedEvents(q, S), NEW done, NEW gone, EndsSeen(q, done, gone), gone \subseteq Consumers,
           NEW who \in Consumers, who \notin gone
    PROVE  EndsSeen(Append(q, Sentinel), done, gone \cup {who})
  <1> DEFINE r == Append(q, Sentinel)  more == gone \cup {who}
  <1>1. IsSeq(q) /\ Len(q) \in Nat
    BY SeqFacts DEF TypedEvents
  <1>2. Len(r) = Len(q) + 1 /\ r[Len(q) + 1] = Sentinel /\ \A i \in 1 .. Len(q) : r[i] = q[i]
    BY <1>1, AppendIs
  <1> HIDE DEF r
  <1>3. \A i \in 1 .. Len(r) : i \in 1 .. Len(q) \/ i = Len(q) + 1
    BY <1>1, <1>2
  <1>4. more # {} /\ gone # Consumers /\ (gone # {} => more = Consumers)
    BY DEF Consumers
  <1> HIDE DEF more
  <1>5. done # 2
    BY <1>4 DEF EndsSeen
  <1>6. ASSUME done = 0, NEW i, NEW k, i \in 1 .. Len(r), k \in 1 .. Len(r), i # k,
               r[i].event = "none", r[k].event = "none"
        PROVE  more = Consumers
    <2>1. i \in 1 .. Len(q) \/ k \in 1 .. Len(q)
      BY <1>3, <1>6
    <2>2. \E j \in 1 .. Len(q) : q[j].event = "none"
      BY <1>2, <1>6, <2>1
    <2>3. QED BY <1>4, <1>6, <2>2 DEF EndsSeen
  <1>7. done = 1 => more = Consumers
    BY <1>4 DEF EndsSeen
  <1>8. EndsSeen(r, done, more)
    BY <1>4, <1>5, <1>6, <1>7 DEF EndsSeen
  <1>9. QED BY <1>8 DEF r, more

LEMMA EndsRelay ==
    ASSUME NEW S, NEW q, TypedEvents(q, S), q # <<>>, NEW done \in 0 .. 1, NEW gone, EndsSeen(q, done, gone)
    PROVE  /\ EndsSeen(Tail(q), done, gone)
           /\ Head(q) = Sentinel => EndsSeen(Tail(q), done + 1, gone)
  <1> DEFINE r == Tail(q)  e == Head(q)
  <1>1. /\ Len(q) \in Nat /\ Len(r) = Len(q) - 1 /\ e = q[1]
        /\ \A i \in 1 .. Len(q) - 1 : r[i] = q[i + 1]
        /\ 1 \in 1 .. Len(q) /\ \A i \in 1 .. Len(q) - 1 : i + 1 \in 1 .. Len(q)
    BY TailEvents
  <1> HIDE DEF r, e
  <1>2. \A i \in 1 .. Len(r) : /\ i + 1 \in 1 .. Len(q) /\ i + 1 # 1 /\ r[i] = q[i + 1]
                               /\ \A k \in 1 .. Len(r) : i # k => i + 1 # k + 1
    BY <1>1
  <1>3. CASE done = 0
    <2>1. \A i \in 1 .. Len(r) : r[i].event = "none" => gone # {}
      BY <1>2, <1>3 DEF EndsSeen
    <2>2. \A i, k \in 1 .. Len(r) : r[i].event = "none" /\ r[k].event = "none" /\ i # k => gone = Consumers
      BY <1>2, <1>3 DEF EndsSeen
    <2>3. ASSUME e = Sentinel
          PROVE  gone # {} /\ \A i \in 1 .. Len(r) : r[i].event = "none" => gone = Consumers
      <3>1. q[1].event = "none"
        BY <1>1, <2>3 DEF Sentinel
      <3>2. gone # {}
        BY <1>1, <1>3, <3>1 DEF EndsSeen
      <3>3. \A i \in 1 .. Len(r) : r[i].event = "none" => gone = Consumers
        BY <1>1, <1>2, <1>3, <3>1 DEF EndsSeen
      <3>4. QED BY <3>2, <3>3
    <2>4. EndsSeen(r, 0, gone)
      BY <2>1, <2>2 DEF EndsSeen
    <2>5. e = Sentinel => EndsSeen(r, 1, gone)
      BY <2>3 DEF EndsSeen
    <2>6. QED BY <1>3, <2>4, <2>5 DEF r, e
  <1>4. CASE done = 1
    <2>1. gone # {} /\ \A i \in 1 .. Len(q) : q[i].event = "none" => gone = Consumers
      BY <1>4 DEF EndsSeen
    <2>2. EndsSeen(r, 1, gone)
      BY <1>2, <2>1 DEF EndsSeen
    <2>3. ASSUME e = Sentinel PROVE gone = Consumers
      <3>1. q[1].event = "none"
        BY <1>1, <2>3 DEF Sentinel
      <3>2. QED BY <1>1, <2>1, <3>1
    <2>4. e = Sentinel => EndsSeen(r, 2, gone)
      BY <2>3 DEF EndsSeen
    <2>5. QED BY <1>4, <2>2, <2>4 DEF r, e
  <1>5. QED BY <1>3, <1>4

-----------------------------------------------------------------------------
(* The steps, one by one.                                                  *)

\* What the invariant says of the run, the consumers and the server's parts.
LEMMA Standing ==
    ASSUME IInv
    PROVE  LET S == DOMAIN run.deltas  P == state.parts IN
           /\ IsSeq(run.deltas) /\ Len(run.deltas) \in Nat /\ S = 1 .. Len(run.deltas)
           /\ \A d \in 1 .. Len(run.deltas) : run.deltas[d].type \in TextTypes
           /\ Len(run.calls) \in Nat /\ DOMAIN run.calls = 1 .. Len(run.calls)
           /\ TypedState(state, S) /\ TypedParts(P, S) /\ TypedEvents(queue, S) /\ TypedEvents(wire, S)
           /\ consumer = [who \in Consumers |-> [pc |-> consumer[who].pc, n |-> consumer[who].n]]
           /\ \A who \in Consumers : consumer[who].n \in Nat /\ Gone \subseteq Consumers
                    /\ consumer[who].pc \in {"reading", "awaiting", "over", "raised"}
           /\ Begins(TextOf(P, "text"), state.text) /\ TextOf(P, "text") = state.text
  <1> DEFINE S == DOMAIN run.deltas  P == state.parts
  <1>1. Typed /\ SaidTrue
    BY DEF IInv
  <1>2. run \in Runs
    BY <1>1 DEF Typed
  <1>3. /\ IsSeq(run.deltas) /\ Len(run.deltas) \in Nat /\ S = 1 .. Len(run.deltas)
        /\ \A d \in 1 .. Len(run.deltas) : run.deltas[d].type \in TextTypes
        /\ Len(run.calls) \in Nat /\ DOMAIN run.calls = 1 .. Len(run.calls)
    BY <1>2, RunIs
  <1>4. TypedState(state, S) /\ TypedParts(P, S) /\ TypedEvents(queue, S) /\ TypedEvents(wire, S)
    BY <1>1 DEF Typed, TypedState
  <1>5. consumer \in [Consumers -> [pc: {"reading", "awaiting", "over", "raised"}, n: Nat]]
    BY <1>1 DEF Typed
  <1>6. consumer = [who \in Consumers |-> [pc |-> consumer[who].pc, n |-> consumer[who].n]]
    <2>1. \A who \in Consumers : consumer[who] \in [pc: {"reading", "awaiting", "over", "raised"}, n: Nat]
      BY <1>5
    <2>2. \A who \in Consumers : consumer[who] = [pc |-> consumer[who].pc, n |-> consumer[who].n]
      BY <2>1
    <2>3. QED BY <1>5, <2>2
  <1>7. \A who \in Consumers : consumer[who].n \in Nat /\ Gone \subseteq Consumers
                    /\ consumer[who].pc \in {"reading", "awaiting", "over", "raised"}
    BY <1>5 DEF Gone
  <1>8. TextOf(P, "text") = state.text
    BY <1>1 DEF SaidTrue, TextTypes
  <1>9. Begins(TextOf(P, "text"), state.text)
    <2>1. IsSeq(TextOf(P, "text"))
      BY <1>4, TypedIs, TextIsSeq
    <2>2. QED BY <1>8, <2>1, BeginsItself
  <1>10. QED BY <1>3, <1>4, <1>6, <1>7, <1>8, <1>9

\* A consumer that reads on, that stops, and that does both.
LEMMA ConsumerMoves ==
    ASSUME NEW c, c = [who \in Consumers |-> [pc |-> c[who].pc, n |-> c[who].n]], NEW w \in Consumers,
           NEW pc, NEW n
    PROVE  /\ [c EXCEPT ![w].n = n] =
                    [who \in Consumers |-> [pc |-> c[who].pc, n |-> IF who = w THEN n ELSE c[who].n]]
           /\ [c EXCEPT ![w].pc = pc] =
                    [who \in Consumers |-> [pc |-> IF who = w THEN pc ELSE c[who].pc, n |-> c[who].n]]
  <1>1. c[w] = [pc |-> c[w].pc, n |-> c[w].n] /\ DOMAIN c = Consumers
    OBVIOUS
  <1> DEFINE r == c[w]
  <1>2. [r EXCEPT !.n = n] = [pc |-> r.pc, n |-> n] /\ [r EXCEPT !.pc = pc] = [pc |-> pc, n |-> r.n]
    <2> HIDE DEF r
    <2>1. r = [pc |-> r.pc, n |-> r.n]
      BY <1>1 DEF r
    <2>2. QED BY <2>1
  <1>3. [c EXCEPT ![w].n = n] = [c EXCEPT ![w] = [pc |-> r.pc, n |-> n]]
    BY <1>1, <1>2
  <1>4. [c EXCEPT ![w].pc = pc] = [c EXCEPT ![w] = [pc |-> pc, n |-> r.n]]
    BY <1>1, <1>2
  <1>5. QED BY <1>3, <1>4

LEMMA ToolAnswersKeeps == ASSUME IInv, NEW c \in DOMAIN run.calls, ToolAnswers(c) PROVE IInv'
  <1>1. /\ c \notin returned /\ returned' = returned \cup {c}
        /\ run' = run /\ state' = state /\ consumer' = consumer /\ queue' = queue
        /\ handler' = handler /\ stored' = stored /\ wire' = wire /\ page' = page
    BY DEF ToolAnswers
  <1>2. Typed'
    BY <1>1 DEF IInv, Typed
  <1>3. PartsTrue' /\ ToolsTrue' /\ SaidTrue'
    BY <1>1 DEF IInv, PartsTrue, ToolsTrue, Undisturbed, SaidTrue
  <1>4. EndsTrue'
    BY <1>1 DEF IInv, EndsTrue, Gone
  <1>5. OverTrue'
    <2>1. ~AllAnswered
      BY <1>1 DEF AllAnswered
    <2>2. Undisturbed => \A who \in Consumers : consumer[who].pc # "over"
      BY <2>1 DEF IInv, OverTrue
    <2>3. Undisturbed' = Undisturbed /\ (handler.pc = "completing" => \A who \in Consumers : consumer[who].pc = "over")
      BY <1>1 DEF Undisturbed, IInv, OverTrue
    <2>4. QED BY <1>1, <2>2, <2>3 DEF OverTrue
  <1>6. MirrorTrue' /\ StoredTrue' /\ StopTrue'
    BY <1>1 DEF IInv, MirrorTrue, Undisturbed, StoredTrue, StopTrue
  <1>7. QED BY <1>2, <1>3, <1>4, <1>5, <1>6 DEF IInv

LEMMA ReadDeltaKeeps == ASSUME IInv, ReadDelta PROVE IInv'
  <1> DEFINE S == DOMAIN run.deltas  P == state.parts  n == consumer["messages"].n  d == n + 1
             type == run.deltas[d].type  new == AppendText(state, type, d)  Q == new.state.parts
             l == new.state.last  m == consumer["tools"].n
  <1>1. /\ consumer["messages"].pc = "reading" /\ d \in S
        /\ state' = [new.state EXCEPT !.text = IF type = "text" THEN Append(@, d) ELSE @]
        /\ queue' = queue \o new.events /\ consumer' = [consumer EXCEPT !["messages"].n = d]
        /\ run' = run /\ returned' = returned /\ handler' = handler /\ stored' = stored
        /\ wire' = wire /\ page' = page
    BY DEF ReadDelta
  <1>2. /\ Len(run.deltas) \in Nat /\ S = 1 .. Len(run.deltas)
        /\ \A i \in 1 .. Len(run.deltas) : run.deltas[i].type \in TextTypes
        /\ TypedState(state, S) /\ TypedParts(P, S) /\ TypedEvents(queue, S)
        /\ consumer = [who \in Consumers |-> [pc |-> consumer[who].pc, n |-> consumer[who].n]]
        /\ \A who \in Consumers : consumer[who].n \in Nat
    BY Standing
  <1>3. Begins(TextOf(P, "text"), state.text) /\ TextOf(P, "text") = state.text
    BY Standing
  <1>4. n \in Nat /\ d \in 1 .. Len(run.deltas) /\ type \in TextTypes
    BY <1>1, <1>2 DEF Consumers
  <1>5. LastStreams(P) /\ Named(P, state.last, m)
    BY DEF IInv, PartsTrue
  <1>6. /\ TypedState(new.state, S) /\ LastStreams(Q) /\ Named(Q, l, m)
        /\ new.state.text = state.text /\ ToolsKept(P, Q)
        /\ \A t \in TextTypes : TextOf(Q, t) = IF type = t THEN Append(TextOf(P, t), d) ELSE TextOf(P, t)
        /\ LeadsOn(queue, queue \o new.events, P, Q) /\ Grows(queue, queue \o new.events, S)
    <2> HIDE DEF S, d, type, m
    <2>1. TypedState(state, S) /\ LastStreams(state.parts) /\ Named(state.parts, state.last, m)
          /\ type \in TextTypes /\ d \in S /\ TypedEvents(queue, S)
      BY <1>1, <1>2, <1>4, <1>5
    <2>2. QED BY ONLY <2>1, ReadGrows
  <1> DEFINE x == IF type = "text" THEN Append(state.text, d) ELSE state.text
  <1> HIDE DEF new
  <1>7. state' = [parts |-> Q, text |-> x, last |-> l, sources |-> new.state.sources]
    <2>1. new.state = [parts |-> Q, text |-> state.text, last |-> l, sources |-> new.state.sources]
      BY <1>6 DEF TypedState
    <2> DEFINE y == new.state
    <2>2. state' = [y EXCEPT !.text = IF type = "text" THEN Append(y.text, d) ELSE y.text] /\ y.text = state.text
      BY <1>1, <1>6
    <2>3. y = [parts |-> Q, text |-> state.text, last |-> l, sources |-> y.sources]
      BY <2>1
    <2> HIDE DEF Q, l, x, y, type, d
    <2>4. state' = [y EXCEPT !.text = x]
      BY <2>2 DEF x
    <2>5. state' = [parts |-> Q, text |-> x, last |-> l, sources |-> y.sources]
      BY <2>3, <2>4
    <2>6. QED BY <2>5 DEF y
  <1>8. TypedParts(Q, S) /\ l \in [TextTypes -> Nat]
    BY <1>6 DEF TypedState
  <1> HIDE DEF Q, l, x
  <1>9. state'.parts = Q /\ state'.text = x /\ state'.last = l /\ state' = [parts |-> state'.parts,
            text |-> state'.text, last |-> state'.last, sources |-> state'.sources]
    BY <1>7
  <1>10. consumer' = [who \in Consumers |->
                [pc |-> consumer[who].pc, n |-> IF who = "messages" THEN d ELSE consumer[who].n]]
    <2>1. "messages" \in Consumers
      BY DEF Consumers
    <2> HIDE DEF d
    <2>2. [consumer EXCEPT !["messages"].n = d] = [who \in Consumers |->
                [pc |-> consumer[who].pc, n |-> IF who = "messages" THEN d ELSE consumer[who].n]]
      BY ONLY <1>2, <2>1, ConsumerMoves
    <2>3. QED BY <1>1, <2>2
  <1>11. /\ consumer'["messages"].n = d /\ consumer'["tools"].n = m
         /\ \A who \in Consumers : consumer'[who].pc = consumer[who].pc
         /\ consumer'["tools"] = consumer["tools"]
    BY <1>1, <1>2, <1>10 DEF Consumers
  <1>12. state.text \in Seq(S) /\ x \in Seq(S)
    <2>1. state.text \in Seq(S)
      BY DEF IInv, Typed
    <2>2. Append(state.text, d) \in Seq(S)
      <3>1. d \in S
        BY <1>1
      <3> HIDE DEF S, d
      <3>2. QED BY ONLY <2>1, <3>1
    <2>3. QED BY <2>1, <2>2 DEF x
  <1>13. Typed'
    <2>1. consumer' \in [Consumers -> [pc: {"reading", "awaiting", "over", "raised"}, n: Nat]]
      <3>1. consumer \in [Consumers -> [pc: {"reading", "awaiting", "over", "raised"}, n: Nat]] /\ d \in Nat
        BY <1>4 DEF IInv, Typed
      <3>2. QED BY <1>10, <3>1
    <2>2. TypedEvents(queue', S)
      BY <1>1, <1>6 DEF Grows
    <2>3. QED BY <1>1, <1>8, <1>9, <1>12, <2>1, <2>2 DEF IInv, Typed
  <1>14. PartsTrue'
    BY <1>6, <1>9, <1>11 DEF PartsTrue
  <1>15. ToolsTrue'
    <2>1. Started(P, m, run.calls)
      BY DEF IInv, ToolsTrue, Undisturbed
    <2>2. Started(Q, m, run.calls)
      BY <1>5, <1>6, <2>1, StartedKept
    <2>3. \A i \in 1 .. Len(Q) : Q[i].status = "running" =>
                i \in 1 .. Len(P) /\ P[i].status = "running" /\ Q[i].id = P[i].id
      BY <1>6 DEF ToolsKept
    <2>4. QED BY <1>1, <1>9, <1>11, <2>2, <2>3 DEF IInv, ToolsTrue, Undisturbed
  <1>16. SaidTrue'
    <2>1. \A t \in TextTypes : TextOf(P, t) = SaidBy(run.deltas, t, n)
      BY DEF IInv, SaidTrue
    <2>2. \A t \in TextTypes : SaidBy(run.deltas, t, d) =
                IF type = t THEN Append(SaidBy(run.deltas, t, n), d) ELSE SaidBy(run.deltas, t, n)
      BY <1>4, SaidMore
    <2>3. \A t \in TextTypes : TextOf(Q, t) = SaidBy(run.deltas, t, d)
      BY <1>6, <2>1, <2>2
    <2>4. x = SaidBy(run.deltas, "text", d)
      BY <1>3, <2>1, <2>2 DEF x, TextTypes
    <2>5. d <= Len(run.deltas)
      BY <1>2, <1>4
    <2>6. QED BY <1>1, <1>9, <1>11, <2>3, <2>4, <2>5 DEF SaidTrue
  <1>17. EndsTrue'
    <2>1. Gone' = Gone
      BY <1>11 DEF Gone
    <2>2. EndsSeen(queue, handler.done, Gone) /\ Gone \subseteq Consumers
      BY DEF IInv, EndsTrue, Gone
    <2>3. EndsSeen(queue', handler.done, Gone)
      BY <1>1, <1>6, <2>2, EndsGrow
    <2>4. QED BY <1>1, <2>1, <2>3 DEF EndsTrue
  <1>18. OverTrue'
    BY <1>1, <1>11 DEF IInv, OverTrue, Undisturbed, AllAnswered, Consumers
  <1>19. \A s : Begins(s, state.text) => Begins(s, x)
    BY BeginsMore DEF x
  <1>20. MirrorTrue'
    <2>1. TextOf(Q, "text") = x
      BY <1>3, <1>6 DEF x, TextTypes
    <2>2. Begins(TextOf(Q, "text"), x)
      <3>1. IsSeq(x)
        BY <1>12, SeqIs
      <3>2. QED BY <2>1, <3>1, BeginsItself
    <2>3. ASSUME Mirrors(page.parts, wire, queue, P, state.text)
          PROVE  Mirrors(page.parts, wire, queue', Q, x)
      BY <1>1, <1>3, <1>6, <1>19, <2>2, <2>3, MirrorsGrow
    <2>4. QED BY <1>1, <1>9, <1>19, <2>3 DEF IInv, MirrorTrue, Undisturbed
  <1>21. StoredTrue'
    BY <1>1 DEF IInv, StoredTrue
  <1>22. StopTrue'
    BY <1>1, <1>9, <1>19 DEF IInv, StopTrue
  <1>23. QED BY <1>13, <1>14, <1>15, <1>16, <1>17, <1>18, <1>20, <1>21, <1>22 DEF IInv

\* A tool's event and the parts it makes keep what does not depend on which tool it is.
LEMMA ToolStepKeeps ==
    ASSUME IInv, NEW Q, NEW x, NEW z, state' = [parts |-> Q, text |-> state.text, last |-> state.last, sources |-> z],
           run' = run, returned' = returned, handler' = handler, stored' = stored, wire' = wire, page' = page,
           NEW pc \in {"reading", "awaiting"}, NEW m \in Nat,
           consumer["tools"].pc \in {"reading", "awaiting"},
           consumer' = [consumer EXCEPT !["tools"] = [pc |-> pc, n |-> m]],
           TypedParts(Q, DOMAIN run.deltas), LastStreams(Q), Named(Q, state.last, m),
           \A t \in TextTypes : TextOf(Q, t) = TextOf(state.parts, t),
           LeadsOn(queue, queue', state.parts, Q), Grows(queue, queue', DOMAIN run.deltas)
    PROVE  /\ Typed' /\ PartsTrue' /\ SaidTrue' /\ EndsTrue' /\ OverTrue' /\ MirrorTrue' /\ StoredTrue' /\ StopTrue'
           /\ state'.parts = Q /\ consumer'["tools"].pc = pc /\ consumer'["tools"].n = m
  <1> DEFINE S == DOMAIN run.deltas  P == state.parts
  <1>1. /\ TypedState(state, S) /\ TypedEvents(queue, S)
        /\ consumer = [who \in Consumers |-> [pc |-> consumer[who].pc, n |-> consumer[who].n]]
        /\ Begins(TextOf(P, "text"), state.text) /\ TextOf(P, "text") = state.text
    BY Standing
  <1>2. /\ state'.parts = Q /\ state'.text = state.text /\ state'.last = state.last
        /\ state' = [parts |-> state'.parts, text |-> state'.text, last |-> state'.last,
                     sources |-> state'.sources]
    OBVIOUS
  <1>3. /\ consumer'["tools"].pc = pc /\ consumer'["tools"].n = m
        /\ consumer'["messages"] = consumer["messages"]
    BY <1>1 DEF Consumers
  <1>4. Typed'
    <2>1. consumer' \in [Consumers -> [pc: {"reading", "awaiting", "over", "raised"}, n: Nat]]
      <3>1. consumer \in [Consumers -> [pc: {"reading", "awaiting", "over", "raised"}, n: Nat]]
        BY DEF IInv, Typed
      <3>2. QED BY <3>1
    <2>2. TypedEvents(queue', S)
      BY DEF Grows
    <2>3. QED BY <1>2, <2>1, <2>2 DEF IInv, Typed
  <1>5. PartsTrue'
    BY <1>2, <1>3 DEF PartsTrue
  <1>6. SaidTrue'
    BY <1>2, <1>3 DEF IInv, SaidTrue
  <1>7. Gone' = Gone
    BY <1>3 DEF Gone, Consumers
  <1>8. EndsTrue'
    <2>1. EndsSeen(queue, handler.done, Gone) /\ Gone \subseteq Consumers
      BY DEF IInv, EndsTrue, Gone
    <2>2. EndsSeen(queue', handler.done, Gone)
      BY <2>1, EndsGrow
    <2>3. QED BY <1>7, <2>2 DEF EndsTrue
  <1>9. OverTrue'
    BY <1>3 DEF IInv, OverTrue, Undisturbed, AllAnswered, Consumers
  <1>10. MirrorTrue'
    <2>1. Begins(TextOf(Q, "text"), state.text)
      BY <1>1 DEF TextTypes
    <2>2. ASSUME Mirrors(page.parts, wire, queue, P, state.text)
          PROVE  Mirrors(page.parts, wire, queue', Q, state.text)
      BY <1>1, <2>1, <2>2, MirrorsGrow
    <2>3. QED BY <1>2, <2>2 DEF IInv, MirrorTrue, Undisturbed
  <1>11. StoredTrue' /\ StopTrue'
    BY <1>2 DEF IInv, StoredTrue, StopTrue
  <1>12. QED BY <1>2, <1>3, <1>4, <1>5, <1>6, <1>8, <1>9, <1>10, <1>11

LEMMA StartToolKeeps == ASSUME IInv, StartTool PROVE IInv'
  <1> DEFINE S == DOMAIN run.deltas  P == state.parts  m == consumer["tools"].n  c == m + 1
             p == ToolPart(c, "running")  Q == Append(Sealed(P), p)
  <1>1. /\ consumer["tools"].pc = "reading" /\ c \in DOMAIN run.calls
        /\ state' = [state EXCEPT !.parts = Q]
        /\ queue' = Append(queue \o SealEvents(P), ToolEvent(p))
        /\ consumer' = [consumer EXCEPT !["tools"] = [pc |-> "awaiting", n |-> c]]
        /\ run' = run /\ returned' = returned /\ handler' = handler /\ stored' = stored
        /\ wire' = wire /\ page' = page
    BY DEF StartTool
  <1>2. /\ TypedParts(P, S) /\ TypedEvents(queue, S) /\ m \in Nat /\ TypedState(state, S)
        /\ Len(run.calls) \in Nat /\ DOMAIN run.calls = 1 .. Len(run.calls)
    BY Standing DEF Consumers
  <1>3. LastStreams(P) /\ Named(P, state.last, m) /\ Started(P, m, run.calls)
        /\ \A i \in 1 .. Len(P) : P[i].status # "running"
    BY <1>1 DEF IInv, PartsTrue, ToolsTrue, Undisturbed
  <1>4. /\ TypedParts(Q, S) /\ LastStreams(Q) /\ Named(Q, state.last, c) /\ Started(Q, c, run.calls)
        /\ \A i \in 1 .. Len(Q) : Q[i].status = "running" => Q[i].id = <<"tool", c>>
        /\ \A t \in TextTypes : TextOf(Q, t) = TextOf(P, t)
        /\ LeadsOn(queue, queue', P, Q) /\ Grows(queue, queue', S)
    <2> DEFINE calls == run.calls  last == state.last  d == m + 1
    <2>1. /\ queue' = Append(queue \o SealEvents(P), ToolEvent(p)) /\ d = m + 1 /\ m \in Nat
          /\ TypedParts(P, S) /\ TypedEvents(queue, S) /\ LastStreams(P) /\ Named(P, last, m)
          /\ Started(P, m, calls) /\ \A i \in 1 .. Len(P) : P[i].status # "running"
      BY <1>1, <1>2, <1>3
    <2>2. p = ToolPart(d, "running")
      OBVIOUS
    <2> HIDE DEF S, P, m, calls, last, d
    <2>3. LET pp == ToolPart(d, "running")  e == ToolEvent(pp)  QQ == Append(Sealed(P), pp) IN
          /\ TypedParts(QQ, S) /\ LastStreams(QQ) /\ Named(QQ, last, d) /\ Started(QQ, d, calls)
          /\ \A i \in 1 .. Len(QQ) : QQ[i].status = "running" => QQ[i].id = <<"tool", d>>
          /\ \A t \in TextTypes : TextOf(QQ, t) = TextOf(P, t)
          /\ LeadsOn(queue, Append(queue \o SealEvents(P), e), P, QQ)
          /\ Grows(queue, Append(queue \o SealEvents(P), e), S)
      BY ONLY <2>1, ToolBegun
    <2>4. QED BY <2>1, <2>2, <2>3 DEF d, calls, last
  <1> HIDE DEF p, Q
  <1>5. state' = [parts |-> Q, text |-> state.text, last |-> state.last, sources |-> state.sources]
    BY <1>1, <1>2 DEF TypedState
  <1>6. c \in Nat /\ c <= Len(run.calls) /\ c # 0
    BY <1>1, <1>2
  <1>7. /\ Typed' /\ PartsTrue' /\ SaidTrue' /\ EndsTrue' /\ OverTrue' /\ MirrorTrue' /\ StoredTrue' /\ StopTrue'
        /\ state'.parts = Q /\ consumer'["tools"].pc = "awaiting" /\ consumer'["tools"].n = c
    BY <1>1, <1>4, <1>5, <1>6, ToolStepKeeps
  <1>8. ToolsTrue'
    BY <1>1, <1>4, <1>6, <1>7 DEF ToolsTrue, Undisturbed
  <1>9. QED BY <1>7, <1>8 DEF IInv

LEMMA FinishToolKeeps == ASSUME IInv, FinishTool PROVE IInv'
  <1> DEFINE S == DOMAIN run.deltas  P == state.parts  m == consumer["tools"].n
             done == DoneStatus(run.calls[m])  p == ToolPart(m, done)  k == PartAt(P, <<"tool", m>>)
             Q == Put(P, k, p)
  <1>1. /\ consumer["tools"].pc = "awaiting" /\ m \in returned /\ DonePart(m) = p
        /\ state' = [state EXCEPT !.parts[k] = DonePart(m), !.sources = Append(@, m)]
        /\ queue' = Append(queue, ToolEvent(DonePart(m)))
        /\ consumer' = [consumer EXCEPT !["tools"].pc = "reading"]
        /\ run' = run /\ returned' = returned /\ handler' = handler /\ stored' = stored
        /\ wire' = wire /\ page' = page
    BY DEF FinishTool, DonePart, DoneStatus
  <1>2. /\ TypedParts(P, S) /\ TypedEvents(queue, S) /\ m \in Nat /\ TypedState(state, S)
        /\ Len(run.calls) \in Nat /\ DOMAIN run.calls = 1 .. Len(run.calls)
        /\ consumer = [who \in Consumers |-> [pc |-> consumer[who].pc, n |-> consumer[who].n]]
    BY Standing DEF Consumers
  <1>3. /\ LastStreams(P) /\ Named(P, state.last, m) /\ Started(P, m, run.calls) /\ m # 0 /\ m <= Len(run.calls)
        /\ \A i \in 1 .. Len(P) : P[i].status = "running" => P[i].id = <<"tool", m>>
    BY <1>1 DEF IInv, PartsTrue, ToolsTrue, Undisturbed
  <1>4. /\ TypedParts(Q, S) /\ LastStreams(Q) /\ Named(Q, state.last, m) /\ Started(Q, m, run.calls)
        /\ \A i \in 1 .. Len(Q) : Q[i].status # "running"
        /\ \A t \in TextTypes : TextOf(Q, t) = TextOf(P, t)
        /\ LeadsOn(queue, Append(queue, ToolEvent(p)), P, Q) /\ Grows(queue, Append(queue, ToolEvent(p)), S)
    <2> DEFINE calls == run.calls  last == state.last
    <2>1. /\ m \in Nat /\ done = DoneStatus(calls[m])
          /\ TypedParts(P, S) /\ TypedEvents(queue, S) /\ LastStreams(P) /\ Named(P, last, m)
          /\ Started(P, m, calls) /\ m # 0
          /\ \A i \in 1 .. Len(P) : P[i].status = "running" => P[i].id = <<"tool", m>>
      BY <1>1, <1>2, <1>3
    <2> HIDE DEF S, P, m, calls, last, done
    <2>2. QED BY ONLY <2>1, ToolEnded DEF calls, last
  <1>5. state' = [parts |-> Q, text |-> state.text, last |-> state.last, sources |-> Append(state.sources, m)]
    <2>1. [P EXCEPT ![k] = p] = Q
      BY DEF Put
    <2>2. state' = [state EXCEPT !.parts = [P EXCEPT ![k] = p], !.sources = Append(state.sources, m)]
      BY <1>1, <1>2 DEF TypedState
    <2> HIDE DEF Q, k, p, P, m
    <2>3. state' = [state EXCEPT !.parts = Q, !.sources = Append(state.sources, m)]
      BY <2>1, <2>2
    <2>4. QED BY <1>2, <2>3 DEF TypedState
  <1>6. consumer' = [consumer EXCEPT !["tools"] = [pc |-> "reading", n |-> m]]
    <2> DEFINE r == consumer["tools"]
    <2>1. r = [pc |-> r.pc, n |-> r.n]
      BY <1>2 DEF Consumers
    <2>2. [r EXCEPT !.pc = "reading"] = [pc |-> "reading", n |-> r.n]
      <3> HIDE DEF r
      <3>1. QED BY <2>1
    <2>3. QED BY <1>1, <1>2, <2>2 DEF Consumers
  <1>7. queue' = Append(queue, ToolEvent(p))
    BY <1>1
  <1> HIDE DEF p, Q, m, k, done
  <1>8. /\ Typed' /\ PartsTrue' /\ SaidTrue' /\ EndsTrue' /\ OverTrue' /\ MirrorTrue' /\ StoredTrue' /\ StopTrue'
        /\ state'.parts = Q /\ consumer'["tools"].pc = "reading" /\ consumer'["tools"].n = m
    BY <1>1, <1>2, <1>4, <1>5, <1>6, <1>7, ToolStepKeeps
  <1>9. ToolsTrue'
    BY <1>1, <1>3, <1>4, <1>8 DEF ToolsTrue, Undisturbed
  <1>10. QED BY <1>8, <1>9 DEF IInv

\* A queue that stays grows by nothing.
LEMMA GrowsItself == ASSUME NEW S, NEW q, TypedEvents(q, S) PROVE Grows(q, q, S)
  BY SeqFacts DEF TypedEvents, Grows

LEMMA EndsKeeps ==
    ASSUME IInv, NEW who \in Consumers, consumer[who].pc \in {"reading", "awaiting"},
           NEW how \in {"over", "raised"},
           how = "over" => /\ AllAnswered /\ consumer[who].pc = "reading"
                           /\ consumer[who].n = Len(IF who = "messages" THEN run.deltas ELSE run.calls),
           Ends(who, how)
    PROVE  IInv'
  <1> DEFINE S == DOMAIN run.deltas  P == state.parts
  <1>1. /\ consumer' = [consumer EXCEPT ![who].pc = how] /\ queue' = Append(queue, Sentinel)
        /\ run' = run /\ returned' = returned /\ state' = state /\ handler' = handler
        /\ stored' = stored /\ wire' = wire /\ page' = page
    BY DEF Ends
  <1>2. /\ TypedEvents(queue, S)
        /\ consumer = [w \in Consumers |-> [pc |-> consumer[w].pc, n |-> consumer[w].n]]
        /\ Begins(TextOf(P, "text"), state.text)
    BY Standing
  <1>3. consumer' = [w \in Consumers |-> [pc |-> IF w = who THEN how ELSE consumer[w].pc, n |-> consumer[w].n]]
    <2>1. [consumer EXCEPT ![who].pc = how] =
             [w \in Consumers |-> [pc |-> IF w = who THEN how ELSE consumer[w].pc, n |-> consumer[w].n]]
      BY ONLY <1>2, ConsumerMoves
    <2>2. QED BY <1>1, <2>1
  <1>4. /\ \A w \in Consumers : consumer'[w].n = consumer[w].n
                                /\ consumer'[w].pc = IF w = who THEN how ELSE consumer[w].pc
        /\ "tools" \in Consumers /\ "messages" \in Consumers
    BY <1>3 DEF Consumers
  <1>5. TypedEvent(Sentinel, S) /\ TypedEvents(queue', S)
    <2>1. TypedEvent(Sentinel, S)
      BY DEF TypedEvent
    <2>2. QED BY <1>1, <1>2, <2>1, EventsAppend
  <1>6. Typed'
    <2>1. consumer' \in [Consumers -> [pc: {"reading", "awaiting", "over", "raised"}, n: Nat]]
      <3>1. consumer \in [Consumers -> [pc: {"reading", "awaiting", "over", "raised"}, n: Nat]]
        BY DEF IInv, Typed
      <3>2. QED BY <1>3, <3>1
    <2>2. QED BY <1>1, <1>5, <2>1 DEF IInv, Typed
  <1>7. PartsTrue' /\ SaidTrue'
    BY <1>1, <1>4 DEF IInv, PartsTrue, SaidTrue
  <1>8. ToolsTrue'
    <2>1. ToolsTrue
      BY DEF IInv
    <2>2. CASE who = "tools"
      <3>1. how = "over" => \A i \in 1 .. Len(P) : P[i].status # "running"
        BY <2>1, <2>2 DEF ToolsTrue, Undisturbed
      <3>2. QED BY <1>1, <1>4, <2>1, <2>2, <3>1 DEF ToolsTrue, Undisturbed
    <2>3. CASE who # "tools"
      BY <1>1, <1>4, <2>1, <2>3 DEF ToolsTrue, Undisturbed
    <2>4. QED BY <2>2, <2>3
  <1>9. EndsTrue'
    <2>1. EndsSeen(queue, handler.done, Gone) /\ Gone \subseteq Consumers /\ who \notin Gone
      BY DEF IInv, EndsTrue, Gone
    <2>2. Gone' = Gone \cup {who}
      BY <1>4 DEF Gone
    <2>3. EndsSeen(queue', handler.done, Gone \cup {who})
      BY <1>1, <1>2, <2>1, EndsMore
    <2>4. QED BY <1>1, <2>2, <2>3 DEF EndsTrue
  <1>10. OverTrue'
    BY <1>1, <1>4 DEF IInv, OverTrue, Undisturbed, AllAnswered
  <1>11. MirrorTrue'
    <2>1. ASSUME Mirrors(page.parts, wire, queue, P, state.text)
          PROVE  Mirrors(page.parts, wire, queue', P, state.text)
      BY <1>1, <1>2, <2>1, MirrorsEnds
    <2>2. QED BY <1>1, <2>1 DEF IInv, MirrorTrue, Undisturbed
  <1>12. StoredTrue' /\ StopTrue'
    BY <1>1 DEF IInv, StoredTrue, StopTrue
  <1>13. QED BY <1>6, <1>7, <1>8, <1>9, <1>10, <1>11, <1>12 DEF IInv

LEMMA ConsumerEndsKeeps ==
    ASSUME IInv, NEW who \in Consumers, ConsumerEnds(who) \/ ConsumerRaises(who)
    PROVE  IInv'
  <1>1. CASE ConsumerEnds(who)
    BY <1>1, EndsKeeps DEF ConsumerEnds
  <1>2. CASE ConsumerRaises(who)
    BY <1>2, EndsKeeps DEF ConsumerRaises
  <1>3. QED BY <1>1, <1>2

LEMMA RelayKeeps == ASSUME IInv, Relay PROVE IInv'
  <1> DEFINE S == DOMAIN run.deltas  P == state.parts  e == Head(queue)
  <1>1. /\ handler.pc = "relaying" /\ handler.done < 2 /\ queue # <<>>
        /\ queue' = Tail(queue)
        /\ run' = run /\ returned' = returned /\ state' = state /\ consumer' = consumer
        /\ stored' = stored /\ page' = page
    BY DEF Relay
  <1>2. /\ e = Sentinel => handler' = [handler EXCEPT !.done = @ + 1] /\ wire' = wire
        /\ e # Sentinel => wire' = Append(wire, e) /\ handler' = handler
    BY DEF Relay
  <1>3. handler \in [pc: Phases, done: 0 .. 2]
    BY DEF IInv, Typed
  <1>4. /\ handler' \in [pc: Phases, done: 0 .. 2] /\ handler'.pc = handler.pc
        /\ e = Sentinel => handler'.done = handler.done + 1
        /\ e # Sentinel => handler'.done = handler.done
    <2>1. handler.done + 1 \in 0 .. 2
      BY <1>1, <1>3
    <2> HIDE DEF e
    <2>2. QED BY <1>2, <1>3, <2>1
  <1>5. TypedEvents(queue, S) /\ TypedEvents(wire, S)
    BY Standing
  <1>6. TypedEvents(Tail(queue), S) /\ TypedEvent(e, S)
    BY <1>1, <1>5, TailEvents
  <1>7. TypedEvents(Append(wire, e), S)
    BY <1>5, <1>6, EventsAppend
  <1> HIDE DEF e
  <1>8. Typed'
    BY <1>1, <1>2, <1>4, <1>6, <1>7 DEF IInv, Typed
  <1>9. PartsTrue' /\ ToolsTrue' /\ SaidTrue' /\ OverTrue'
    BY <1>1, <1>4 DEF IInv, PartsTrue, ToolsTrue, Undisturbed, SaidTrue, OverTrue, AllAnswered
  <1>10. EndsTrue'
    <2>1. Gone' = Gone /\ EndsSeen(queue, handler.done, Gone)
      BY <1>1 DEF Gone, IInv, EndsTrue
    <2>2. handler.done \in 0 .. 1
      BY <1>1, <1>3
    <2>3. EndsSeen(Tail(queue), handler.done, Gone) /\ (e = Sentinel => EndsSeen(Tail(queue), handler.done + 1, Gone))
      BY <1>1, <1>5, <2>1, <2>2, EndsRelay DEF e
    <2>4. QED BY <1>1, <1>4, <2>1, <2>3 DEF EndsTrue
  <1>11. MirrorTrue'
    <2>1. ASSUME Mirrors(page.parts, wire, queue, P, state.text)
          PROVE  Mirrors(page.parts, wire', Tail(queue), P, state.text)
      <3>1. /\ e = Sentinel => Mirrors(page.parts, wire, Tail(queue), P, state.text)
            /\ e # Sentinel => Mirrors(page.parts, Append(wire, e), Tail(queue), P, state.text)
        BY <1>1, <1>5, <2>1, MirrorsRelay DEF e
      <3>2. QED BY <1>2, <3>1
    <2>2. QED BY <1>1, <1>4, <2>1 DEF IInv, MirrorTrue, Undisturbed
  <1>12. StoredTrue' /\ StopTrue'
    BY <1>1, <1>4 DEF IInv, StoredTrue, StopTrue
  <1>13. QED BY <1>8, <1>9, <1>10, <1>11, <1>12 DEF IInv

\* The handler goes on to another phase and writes nothing yet.
LEMMA PhaseKeeps ==
    ASSUME IInv, NEW phase \in Phases \ {"relaying", "over"}, handler' = [handler EXCEPT !.pc = phase],
           phase = "completing" => Undisturbed /\ \A who \in Consumers : consumer[who].pc = "over",
           phase \in {"closing", "stopping"} =>
                page.status = "stopped" /\ handler.pc \in {"relaying", "closing"},
           handler.pc # "over", run' = run, returned' = returned, state' = state, consumer' = consumer,
           queue' = queue, stored' = stored, wire' = wire, page' = page
    PROVE  IInv'
  <1>1. /\ handler' \in [pc: Phases, done: 0 .. 2]
        /\ handler'.pc = phase /\ handler'.done = handler.done
    <2>1. handler \in [pc: Phases, done: 0 .. 2]
      BY DEF IInv, Typed
    <2>2. QED BY <2>1
  <1>2. Typed'
    BY <1>1 DEF IInv, Typed
  <1>3. Undisturbed' => Undisturbed
    BY <1>1 DEF Undisturbed
  <1>4. PartsTrue' /\ ToolsTrue' /\ SaidTrue'
    BY <1>3 DEF IInv, PartsTrue, ToolsTrue, SaidTrue
  <1>5. EndsTrue' /\ MirrorTrue' /\ StoredTrue'
    BY <1>1, <1>3 DEF IInv, EndsTrue, Gone, MirrorTrue, StoredTrue
  <1>6. OverTrue'
    BY <1>1, <1>3 DEF IInv, OverTrue, AllAnswered
  <1>7. StopTrue'
    BY <1>1 DEF IInv, StopTrue, Undisturbed, Phases
  <1>8. QED BY <1>2, <1>4, <1>5, <1>6, <1>7 DEF IInv

LEMMA RelayEndsKeeps == ASSUME IInv, RelayEnds PROVE IInv'
  <1>1. /\ handler.pc = "relaying" /\ handler.done = 2 /\ ~SomeRaised
        /\ handler' = [handler EXCEPT !.pc = "completing"]
        /\ run' = run /\ returned' = returned /\ state' = state /\ consumer' = consumer /\ queue' = queue
        /\ stored' = stored /\ wire' = wire /\ page' = page
    BY DEF RelayEnds
  <1>2. \A who \in Consumers : consumer[who].pc = "over"
    <2>1. Gone = Consumers
      BY <1>1 DEF IInv, EndsTrue, EndsSeen
    <2>2. QED BY <1>1, <2>1 DEF Gone, SomeRaised
  <1>3. Undisturbed /\ "completing" \in Phases \ {"relaying", "over"}
    BY <1>1 DEF Undisturbed, Phases
  <1>4. QED BY <1>1, <1>2, <1>3, PhaseKeeps

\* The except block is entered.
LEMMA RollBackKeeps ==
    ASSUME IInv, NEW phase \in {"failing", "stopping"}, RollBack(phase), handler.pc \in {"relaying", "closing"},
           phase = "stopping" => handler.pc = "closing"
    PROVE  IInv'
  <1>1. /\ handler' = [handler EXCEPT !.pc = phase]
        /\ run' = run /\ returned' = returned /\ state' = state /\ consumer' = consumer /\ queue' = queue
        /\ stored' = stored /\ wire' = wire /\ page' = page
    BY DEF RollBack
  <1>2. phase \in Phases \ {"relaying", "over"} /\ phase # "completing" /\ handler.pc # "over"
    BY DEF Phases
  <1>3. phase \in {"closing", "stopping"} => page.status = "stopped"
    BY DEF IInv, StopTrue
  <1>4. QED BY <1>1, <1>2, <1>3, PhaseKeeps

LEMMA BreaksKeep == ASSUME IInv, Fail \/ Cancel \/ Close \/ Closed \/ Vanish PROVE IInv'
  <1>1. CASE Fail \/ Close
    <2>1. RollBack("failing") /\ handler.pc = "relaying"
      BY <1>1 DEF Fail, Close
    <2>2. QED BY <2>1, RollBackKeeps
  <1>2. CASE Closed
    <2>1. PICK phase \in {"failing", "stopping"} : RollBack(phase)
      BY <1>2 DEF Closed
    <2>2. handler.pc = "closing"
      BY <1>2 DEF Closed
    <2>3. QED BY <2>1, <2>2, RollBackKeeps
  <1>3. CASE Cancel
    <2>1. /\ page.status = "stopped" /\ handler.pc = "relaying" /\ handler' = [handler EXCEPT !.pc = "closing"]
          /\ run' = run /\ returned' = returned /\ state' = state /\ consumer' = consumer /\ queue' = queue
          /\ stored' = stored /\ wire' = wire /\ page' = page
      BY <1>3 DEF Cancel
    <2>2. "closing" \in Phases \ {"relaying", "over"}
      BY DEF Phases
    <2>3. QED BY <2>1, <2>2, PhaseKeeps
  <1>4. CASE Vanish
    <2>1. /\ handler.pc # "over" /\ handler' = [handler EXCEPT !.pc = "gone"]
          /\ run' = run /\ returned' = returned /\ state' = state /\ consumer' = consumer /\ queue' = queue
          /\ stored' = stored /\ wire' = wire /\ page' = page
      BY <1>4 DEF Vanish
    <2>2. "gone" \in Phases \ {"relaying", "over"}
      BY DEF Phases
    <2>3. QED BY <2>1, <2>2, PhaseKeeps
  <1>5. QED BY <1>1, <1>2, <1>3, <1>4

LEMMA CancelConsumersKeeps == ASSUME IInv, CancelConsumers PROVE IInv'
  <1> DEFINE S == DOMAIN run.deltas
             next(w) == [consumer[w] EXCEPT !.pc = "over"]
  <1>1. /\ handler.pc = "closing" /\ consumer' = [w \in Consumers |-> next(w)]
        /\ run' = run /\ returned' = returned /\ state' = state /\ queue' = queue /\ handler' = handler
        /\ stored' = stored /\ wire' = wire /\ page' = page
    BY DEF CancelConsumers
  <1>2. consumer \in [Consumers -> [pc: {"reading", "awaiting", "over", "raised"}, n: Nat]]
    BY DEF IInv, Typed
  <1>3. ASSUME NEW w \in Consumers
        PROVE  /\ consumer'[w] \in [pc: {"reading", "awaiting", "over", "raised"}, n: Nat]
               /\ consumer'[w].n = consumer[w].n /\ consumer'[w].pc \in {"over", "raised"}
    <2>1. consumer'[w] = next(w)
      BY <1>1
    <2>2. consumer[w] \in [pc: {"reading", "awaiting", "over", "raised"}, n: Nat]
      BY <1>2
    <2>3. QED BY <2>1, <2>2
  <1>4. Typed'
    <2>1. consumer' \in [Consumers -> [pc: {"reading", "awaiting", "over", "raised"}, n: Nat]]
      <3> HIDE DEF next
      <3>1. QED BY <1>1, <1>3
    <2>2. QED BY <1>1, <2>1 DEF IInv, Typed
  <1> HIDE DEF next
  <1>5. PartsTrue' /\ SaidTrue'
    BY <1>1, <1>3 DEF IInv, PartsTrue, SaidTrue, Consumers
  <1>6. ToolsTrue'
    <2>1. "tools" \in Consumers
      BY DEF Consumers
    <2>2. consumer'["tools"].n = consumer["tools"].n /\ consumer'["tools"].pc \in {"over", "raised"}
      BY <1>3, <2>1
    <2>3. QED BY <1>1, <2>2 DEF IInv, ToolsTrue, Undisturbed
  <1>7. EndsTrue'
    <2>1. EndsSeen(queue, handler.done, Gone) /\ TypedEvents(queue, S)
      BY Standing DEF IInv, EndsTrue
    <2>2. Grows(queue, queue, S)
      BY <2>1, GrowsItself
    <2>3. Gone \subseteq Gone' /\ Gone' \subseteq Consumers
      BY <1>3 DEF Gone
    <2> DEFINE g == Gone'
    <2>4. EndsSeen(queue, handler.done, g)
      <3>1. Gone \subseteq g /\ g \subseteq Consumers
        BY <2>3
      <3> HIDE DEF g
      <3>2. QED BY <2>1, <2>2, <3>1, EndsGrow
    <2>5. QED BY <1>1, <2>4 DEF EndsTrue
  <1>8. OverTrue' /\ MirrorTrue' /\ StoredTrue' /\ StopTrue'
    BY <1>1 DEF IInv, OverTrue, Undisturbed, MirrorTrue, StoredTrue, StopTrue
  <1>9. QED BY <1>4, <1>5, <1>6, <1>7, <1>8 DEF IInv

\* Parts that are given another status, all or some of them.
InState(p, s) == [p EXCEPT !.status = s]

LEMMA Restated ==
    ASSUME NEW S, NEW P, TypedParts(P, S), NEW s \in PartStatus, NEW Q, Q = [i \in DOMAIN P |-> Q[i]],
           \A i \in DOMAIN P : Q[i] = P[i] \/ Q[i] = InState(P[i], s)
    PROVE  /\ TypedParts(Q, S) /\ Len(Q) = Len(P)
           /\ \A i \in 1 .. Len(P) : /\ Q[i].id = P[i].id /\ Q[i].type = P[i].type /\ Q[i].text = P[i].text
                                     /\ Q[i] = P[i] \/ Q[i].status = s
  <1>1. IsSeq(P) /\ Len(P) \in Nat /\ DOMAIN P = 1 .. Len(P) /\ \A i \in 1 .. Len(P) : TypedPart(P[i], S)
    BY TypedIs
  <1>2. IsSeq(Q) /\ Len(Q) = Len(P)
    BY <1>1, FcnIsSeq
  <1>3. ASSUME NEW i \in 1 .. Len(P)
        PROVE  /\ TypedPart(Q[i], S) /\ Q[i].id = P[i].id /\ Q[i].type = P[i].type /\ Q[i].text = P[i].text
               /\ Q[i] = P[i] \/ Q[i].status = s
    <2> DEFINE p == P[i]  q == InState(p, s)
    <2>1. p = [id |-> p.id, type |-> p.type, text |-> p.text, status |-> p.status]
          /\ p.type \in TextTypes \cup {"tool"} /\ p.text \in Seq(S) /\ TypedPart(p, S)
      BY <1>1 DEF TypedPart, TextPart
    <2>2. Q[i] = p \/ Q[i] = q
      BY <1>1
    <2> HIDE DEF p
    <2>3. q = TextPart(p.id, p.type, p.text, s)
      BY <2>1 DEF TextPart, InState
    <2>4. TypedPart(q, S) /\ q.id = p.id /\ q.type = p.type /\ q.text = p.text /\ q.status = s
      <3> HIDE DEF q
      <3>1. LET t == TextPart(p.id, p.type, p.text, s) IN
            TypedPart(t, S) /\ t.id = p.id /\ t.type = p.type /\ t.text = p.text /\ t.status = s
        <4>1. s \in PartStatus
          OBVIOUS
        <4>2. QED BY ONLY <2>1, <4>1, TextPartIs
      <3>2. QED BY <2>3, <3>1
    <2> HIDE DEF q
    <2>5. QED BY <2>1, <2>2, <2>4 DEF p
  <1>4. TypedParts(Q, S)
    BY <1>2, <1>3 DEF TypedParts
  <1>5. QED BY <1>2, <1>3, <1>4

\* The handler is over: what it stored, and what it told the page.
LEMMA OverKeeps ==
    ASSUME IInv, handler.pc # "over", handler' = [handler EXCEPT !.pc = "over"], run' = run,
           returned' = returned, state' = state, consumer' = consumer, queue' = queue, page' = page,
           TypedParts(stored'.parts, DOMAIN run.deltas), stored'.status \in {"completed", "stopped", "failed"},
           TypedEvents(wire', DOMAIN run.deltas), StoredTrue',
           stored'.status = "stopped" => handler.pc = "stopping" /\ stored'.text = state.text
    PROVE  IInv'
  <1>1. /\ handler' \in [pc: Phases, done: 0 .. 2]
        /\ handler'.pc = "over" /\ handler'.done = handler.done
    <2>1. handler \in [pc: Phases, done: 0 .. 2]
      BY DEF IInv, Typed
    <2>2. "over" \in Phases
      BY DEF Phases
    <2>3. QED BY <2>1, <2>2
  <1>2. Typed'
    BY <1>1 DEF IInv, Typed, Statuses
  <1>3. PartsTrue' /\ ToolsTrue' /\ SaidTrue'
    BY <1>1 DEF IInv, PartsTrue, ToolsTrue, Undisturbed, SaidTrue
  <1>4. EndsTrue' /\ OverTrue' /\ MirrorTrue'
    BY <1>1 DEF IInv, EndsTrue, OverTrue, Undisturbed, MirrorTrue, Gone
  <1>5. StopTrue'
    <2>1. stored'.status = "stopped" => page.status = "stopped" /\ Begins(page.text, stored'.text)
      BY DEF IInv, StopTrue
    <2>2. QED BY <1>1, <2>1 DEF StopTrue
  <1>6. QED BY <1>2, <1>3, <1>4, <1>5 DEF IInv

LEMMA SettleKeeps == ASSUME IInv, Settle PROVE IInv'
  <1> DEFINE S == DOMAIN run.deltas  P == state.parts
             outcome == IF handler.pc = "stopping" THEN "stopped" ELSE "failed"  row == Interrupted(outcome)
             notice == TextPart(<<"text", 1>>, "text", <<>>, outcome)
             Q == [i \in DOMAIN P |-> [P[i] EXCEPT !.status = outcome]]
  <1>1. /\ handler.pc # "over" /\ stored' = row /\ wire' = wire \o <<Completed(row), ErrorEvent>>
        /\ handler' = [handler EXCEPT !.pc = "over"]
        /\ run' = run /\ returned' = returned /\ state' = state /\ consumer' = consumer /\ queue' = queue
        /\ page' = page
    BY DEF Settle
  <1>2. outcome \in {"stopped", "failed"} /\ (outcome = "stopped" => handler.pc = "stopping")
    OBVIOUS
  <1> HIDE DEF outcome
  <1>3. /\ row.status = outcome /\ (outcome = "stopped" => row.text = state.text)
        /\ row.parts = Q \/ row.parts = <<notice>>
    BY DEF Interrupted
  <1>4. TypedParts(P, S) /\ TypedEvents(wire, S)
    BY Standing
  <1>5. TypedParts(Q, S)
    <2>1. /\ outcome \in PartStatus /\ Q = [i \in DOMAIN P |-> Q[i]]
          /\ \A i \in DOMAIN P : Q[i] = P[i] \/ Q[i] = InState(P[i], outcome)
      BY <1>2 DEF PartStatus, InState
    <2> HIDE DEF Q, P, S
    <2>2. QED BY ONLY <1>4, <2>1, Restated
  <1>6. TypedParts(<<notice>>, S)
    <2>1. TypedPart(notice, S)
      <3> DEFINE id == <<"text", 1>>  x == <<>>
      <3>1. x \in Seq(S) /\ outcome \in PartStatus /\ "text" \in TextTypes \cup {"tool"}
        BY <1>2 DEF PartStatus, TextTypes
      <3> HIDE DEF id, x, S
      <3>2. TypedPart(TextPart(id, "text", x, outcome), S)
        BY <3>1, TextPartIs
      <3>3. QED BY <3>2 DEF id, x
    <2> HIDE DEF notice
    <2>2. <<notice>> \in Seq({notice}) /\ Len(<<notice>>) = 1 /\ <<notice>>[1] = notice
      OBVIOUS
    <2>3. IsSeq(<<notice>>)
      BY <2>2, SeqIs
    <2>4. \A i \in 1 .. 1 : i = 1
      OBVIOUS
    <2>5. QED BY <2>1, <2>2, <2>3, <2>4 DEF TypedParts
  <1>7. TypedParts(row.parts, S)
    BY <1>3, <1>5, <1>6
  <1> HIDE DEF Q, notice, row
  <1>8. TypedEvents(wire', S)
    <2> DEFINE a == Completed(row)  b == ErrorEvent
    <2>1. TypedEvent(a, S) /\ TypedEvent(b, S)
      <3>1. a.event = "message.completed" /\ a.row = row
        BY DEF Completed
      <3> HIDE DEF a
      <3>2. TypedEvent(a, S)
        BY <1>2, <1>3, <1>7, <3>1 DEF TypedEvent
      <3>3. QED BY <3>2 DEF TypedEvent
    <2> HIDE DEF a, b
    <2>2. TypedEvents(Append(Append(wire, a), b), S)
      <3>1. TypedEvents(Append(wire, a), S)
        BY <1>4, <2>1, EventsAppend
      <3>2. QED BY <2>1, <3>1, EventsAppend
    <2>3. wire \o <<a, b>> = Append(Append(wire, a), b)
      <3>1. IsSeq(wire) /\ IsSeq(<<a>>)
        <4>1. <<a>> \in Seq({a})
          OBVIOUS
        <4>2. QED BY <1>4, <4>1, SeqIs DEF TypedEvents
      <3>2. <<a, b>> = Append(<<a>>, b)
        OBVIOUS
      <3>3. wire \o Append(<<a>>, b) = Append(wire \o <<a>>, b)
        BY <3>1, ConcatAppend
      <3>4. wire \o <<a>> = Append(wire, a)
        BY <3>1, ConcatOne
      <3>5. QED BY <3>2, <3>3, <3>4
    <2>4. QED BY <1>1, <2>2, <2>3 DEF a, b
  <1>9. StoredTrue'
    BY <1>1, <1>2, <1>3 DEF StoredTrue
  <1>10. QED BY <1>1, <1>2, <1>3, <1>7, <1>8, <1>9, OverKeeps

LEMMA CompleteKeeps == ASSUME IInv, Complete PROVE IInv'
  <1> DEFINE S == DOMAIN run.deltas  P == state.parts  Q == Finalized(P)  calls == run.calls  n == consumer["tools"].n
             row == [status |-> "completed", text |-> state.text, parts |-> Q, sources |-> state.sources]
  <1>1. /\ handler.pc = "completing"
        /\ stored' = row /\ wire' = Append(wire, Completed(row))
        /\ handler' = [handler EXCEPT !.pc = "over"]
        /\ run' = run /\ returned' = returned /\ state' = state /\ consumer' = consumer /\ queue' = queue
        /\ page' = page
    BY DEF Complete, CompletedRow
  <1>2. /\ TypedParts(P, S) /\ TypedEvents(wire, S) /\ Len(calls) \in Nat /\ DOMAIN calls = 1 .. Len(calls)
        /\ TextOf(P, "text") = state.text
    BY Standing
  <1>3. IsSeq(P) /\ Len(P) \in Nat /\ DOMAIN P = 1 .. Len(P) /\ \A i \in 1 .. Len(P) : TypedPart(P[i], S)
    BY <1>2, TypedIs
  <1>4. /\ TypedParts(Q, S) /\ Len(Q) = Len(P)
        /\ \A i \in 1 .. Len(P) : /\ Q[i].id = P[i].id /\ Q[i].type = P[i].type /\ Q[i].text = P[i].text
                                  /\ IsTextLike(P[i]) => Q[i].status = "completed"
                                  /\ ~IsTextLike(P[i]) => Q[i] = P[i]
    <2>1. "completed" \in PartStatus /\ Q = [i \in DOMAIN P |-> Q[i]]
      BY DEF Finalized, PartStatus
    <2>2. \A i \in DOMAIN P : IF IsTextLike(P[i]) THEN Q[i] = InState(P[i], "completed") ELSE Q[i] = P[i]
      BY DEF Finalized, InState
    <2> HIDE DEF Q, P, S
    <2>3. /\ TypedParts(Q, S) /\ Len(Q) = Len(P)
          /\ \A i \in 1 .. Len(P) : Q[i].id = P[i].id /\ Q[i].type = P[i].type /\ Q[i].text = P[i].text
      <3>1. \A i \in DOMAIN P : Q[i] = P[i] \/ Q[i] = InState(P[i], "completed")
        BY <2>2
      <3>2. QED BY ONLY <1>2, <2>1, <3>1, Restated
    <2>4. ASSUME NEW i \in 1 .. Len(P), IsTextLike(P[i]) PROVE Q[i].status = "completed"
      <3> DEFINE p == P[i]
      <3>1. p = [id |-> p.id, type |-> p.type, text |-> p.text, status |-> p.status]
        BY <1>3 DEF TypedPart, TextPart
      <3>2. Q[i] = [p EXCEPT !.status = "completed"]
        BY <1>3, <2>2, <2>4 DEF InState
      <3> HIDE DEF p
      <3>3. QED BY <3>1, <3>2
    <2>5. \A i \in 1 .. Len(P) : ~IsTextLike(P[i]) => Q[i] = P[i]
      BY <1>3, <2>2
    <2>6. QED BY <2>3, <2>4, <2>5
  <1> HIDE DEF Q
  <1>5. \A w \in Consumers : consumer[w].pc = "over"
    BY <1>1 DEF IInv, OverTrue
  <1>6. n = Len(calls) /\ consumer["messages"].n = Len(run.deltas)
    BY <1>1, <1>5 DEF IInv, OverTrue, Undisturbed, Consumers
  <1>7. /\ Started(P, n, calls) /\ (\A i \in 1 .. Len(P) : P[i].status # "running")
        /\ Named(P, state.last, n)
    BY <1>1, <1>5 DEF IInv, ToolsTrue, Undisturbed, PartsTrue, Consumers
  <1>8. \A c \in 1 .. n : \E i \in 1 .. Len(P) : P[i].id = <<"tool", c>> /\ P[i].status = DoneStatus(calls[c])
    BY <1>7 DEF Started
  <1>9. Whole(row, run.deltas, calls)
    <2>1. \A t \in TextTypes : TextOf(Q, t) = TextOf(P, t)
      <3>1. IsSeq(Q)
        BY <1>4, TypedIs
      <3>2. QED BY <1>3, <1>4, <3>1, TextSame
    <2>2. \A t \in TextTypes : TextOf(P, t) = SaidBy(run.deltas, t, Len(run.deltas))
      BY <1>6 DEF IInv, SaidTrue
    <2>3. \A c \in 1 .. Len(calls) : \E i \in 1 .. Len(Q) :
             Q[i].id = <<"tool", c>> /\ Q[i].status = DoneStatus(calls[c])
      <3>1. ASSUME NEW c \in 1 .. Len(calls)
            PROVE  \E i \in 1 .. Len(Q) : Q[i].id = <<"tool", c>> /\ Q[i].status = DoneStatus(calls[c])
        <4>1. PICK i \in 1 .. Len(P) : P[i].id = <<"tool", c>> /\ P[i].status = DoneStatus(calls[c])
          BY <1>6, <1>8
        <4>2. P[i].type = "tool"
          BY <1>7, <4>1, ToolNamed
        <4>3. ~IsTextLike(P[i])
          BY <4>2 DEF IsTextLike, TextTypes
        <4>4. QED BY <1>4, <4>1, <4>3
      <3>2. QED BY <3>1
    <2>4. ASSUME NEW i \in 1 .. Len(Q) PROVE Q[i].status \notin {"streaming", "running"}
      <3>1. CASE IsTextLike(P[i])
        BY <1>4, <3>1
      <3>2. CASE ~IsTextLike(P[i])
        <4>1. NamedTool(P[i], n)
          BY <1>4, <1>7, <3>2 DEF Named, NamedText, IsTextLike
        <4>2. PICK c \in 1 .. n : P[i].id = <<"tool", c>>
          BY <4>1 DEF NamedTool
        <4>3. PICK k \in 1 .. Len(P) : P[k].id = <<"tool", c>> /\ P[k].status = DoneStatus(calls[c])
          BY <1>8
        <4>4. i = k
          BY <1>4, <1>7, <4>2, <4>3 DEF Named
        <4>5. QED BY <1>4, <3>2, <4>3, <4>4 DEF DoneStatus
      <3>3. QED BY <3>1, <3>2
    <2>5. row.parts = Q /\ row.text = state.text
      OBVIOUS
    <2> HIDE DEF row
    <2>6. QED BY <1>2, <2>1, <2>2, <2>3, <2>4, <2>5 DEF Whole, TextTypes
  <1>10. row.status = "completed" /\ row.parts = Q
    OBVIOUS
  <1> HIDE DEF row
  <1>11. TypedEvents(wire', S)
    <2> DEFINE a == Completed(row)
    <2>1. a.event = "message.completed" /\ a.row = row
      BY DEF Completed
    <2> HIDE DEF a
    <2>2. TypedEvent(a, S)
      BY <1>4, <1>10, <2>1 DEF TypedEvent
    <2>3. TypedEvents(Append(wire, a), S)
      BY <1>2, <2>2, EventsAppend
    <2>4. QED BY <1>1, <2>3 DEF a
  <1>12. StoredTrue'
    BY <1>1, <1>9 DEF StoredTrue
  <1>13. QED BY <1>1, <1>4, <1>10, <1>11, <1>12, OverKeeps

LEMMA PageReceivesKeeps == ASSUME IInv, PageReceives PROVE IInv'
  <1> DEFINE S == DOMAIN run.deltas  P == state.parts  e == Head(wire)  Q == ApplyPart(page.parts, e)
  <1>1. /\ wire # <<>> /\ page.status # "stopped" /\ wire' = Tail(wire)
        /\ run' = run /\ returned' = returned /\ state' = state /\ consumer' = consumer /\ queue' = queue
        /\ handler' = handler /\ stored' = stored
    BY DEF PageReceives
  <1>2. /\ e.event = "message.completed" =>
                page' = [status |-> e.row.status, text |-> e.row.text, parts |-> e.row.parts]
        /\ e.event = "error" => page' = [page EXCEPT !.status = "failed"]
        /\ e.event \notin {"message.completed", "error"} =>
                page' = [status |-> "streaming", text |-> TextOf(Q, "text"), parts |-> Q]
    BY DEF PageReceives
  <1>3. /\ TypedEvents(wire, S) /\ TypedParts(page.parts, S) /\ page.status \in Statuses
        /\ page = [status |-> page.status, text |-> page.text, parts |-> page.parts]
    BY Standing DEF IInv, Typed
  <1>4. TypedEvents(Tail(wire), S) /\ TypedEvent(e, S)
    BY <1>1, <1>3, TailEvents
  <1>5. TypedParts(Q, S)
    BY <1>3, <1>4, EventTyped
  <1> HIDE DEF Q, e
  <1>6. /\ page' = [status |-> page'.status, text |-> page'.text, parts |-> page'.parts]
        /\ TypedParts(page'.parts, S) /\ page'.status \in Statuses
    <2>1. CASE e.event = "message.completed"
      <3>1. TypedParts(e.row.parts, S) /\ e.row.status \in Statuses
        BY <1>4, <2>1 DEF TypedEvent, ErrorEvent, Sentinel, Statuses
      <3>2. QED BY <1>2, <2>1, <3>1
    <2>2. CASE e.event = "error"
      <3>1. page' = [status |-> "failed", text |-> page.text, parts |-> page.parts]
        BY <1>2, <1>3, <2>2
      <3>2. QED BY <1>3, <3>1 DEF Statuses
    <2>3. CASE e.event \notin {"message.completed", "error"}
      BY <1>2, <1>5, <2>3 DEF Statuses
    <2>4. QED BY <2>1, <2>2, <2>3
  <1>7. Typed'
    BY <1>1, <1>4, <1>6 DEF IInv, Typed
  <1>8. PartsTrue' /\ ToolsTrue' /\ SaidTrue'
    BY <1>1 DEF IInv, PartsTrue, ToolsTrue, Undisturbed, SaidTrue
  <1>9. EndsTrue' /\ OverTrue' /\ StoredTrue'
    BY <1>1 DEF IInv, EndsTrue, OverTrue, Undisturbed, AllAnswered, Gone, StoredTrue
  <1>10. ASSUME Undisturbed
         PROVE  /\ page'.status = "streaming" /\ Begins(page'.text, state.text)
                /\ Mirrors(page'.parts, wire', queue, P, state.text)
    <2>1. Mirrors(page.parts, wire, queue, P, state.text)
      BY <1>1, <1>10 DEF IInv, MirrorTrue, Undisturbed
    <2>2. /\ Mirrors(Q, Tail(wire), queue, P, state.text)
          /\ Begins(TextOf(Q, "text"), state.text) /\ e.event \in {"part.delta", "tool"}
      BY <1>1, <1>3, <2>1, MirrorsReceives DEF Q, e
    <2>3. page' = [status |-> "streaming", text |-> TextOf(Q, "text"), parts |-> Q]
      BY <1>2, <2>2
    <2>4. QED BY <1>1, <2>2, <2>3
  <1>11. MirrorTrue'
    <2>1. Undisturbed' => Undisturbed
      BY <1>1 DEF Undisturbed
    <2>2. QED BY <1>1, <1>10, <2>1 DEF MirrorTrue
  <1>12. StopTrue'
    <2>1. handler.pc \notin {"failing", "over", "gone"} => Undisturbed
      BY <1>1 DEF IInv, Typed, StopTrue, Phases, Undisturbed
    <2>2. handler.pc \notin {"failing", "over", "gone"} => page'.status # "stopped"
      BY <1>10, <2>1
    <2>3. /\ stored.status # "stopped" /\ handler.pc \notin {"closing", "stopping"}
          /\ handler.pc # "over" => stored.status = "streaming"
      BY <1>1 DEF IInv, StopTrue
    <2>4. QED BY <1>1, <2>2, <2>3 DEF StopTrue
  <1>13. QED BY <1>7, <1>8, <1>9, <1>11, <1>12 DEF IInv

LEMMA PageStopsKeeps == ASSUME IInv, PageStops PROVE IInv'
  <1> DEFINE S == DOMAIN run.deltas  P == page.parts
             Q == [i \in DOMAIN P |-> IF IsTextLike(P[i]) THEN [P[i] EXCEPT !.status = "stopped"] ELSE P[i]]
  <1>1. /\ page.status = "streaming" /\ page' = [page EXCEPT !.status = "stopped", !.parts = Q]
        /\ run' = run /\ returned' = returned /\ state' = state /\ consumer' = consumer /\ queue' = queue
        /\ handler' = handler /\ stored' = stored /\ wire' = wire
    BY DEF PageStops
  <1>2. /\ TypedParts(P, S) /\ page = [status |-> page.status, text |-> page.text, parts |-> page.parts]
    BY DEF IInv, Typed
  <1>3. TypedParts(Q, S)
    <2>1. /\ "stopped" \in PartStatus /\ Q = [i \in DOMAIN P |-> Q[i]]
          /\ \A i \in DOMAIN P : Q[i] = P[i] \/ Q[i] = InState(P[i], "stopped")
      BY DEF PartStatus, InState
    <2> HIDE DEF Q, P, S
    <2>2. QED BY ONLY <1>2, <2>1, Restated
  <1> HIDE DEF Q
  <1>4. page' = [status |-> "stopped", text |-> page.text, parts |-> Q]
    BY <1>1, <1>2
  <1>5. Typed'
    BY <1>1, <1>3, <1>4 DEF IInv, Typed, Statuses
  <1>6. PartsTrue' /\ ToolsTrue' /\ SaidTrue'
    BY <1>1 DEF IInv, PartsTrue, ToolsTrue, Undisturbed, SaidTrue
  <1>7. EndsTrue' /\ OverTrue' /\ StoredTrue'
    BY <1>1 DEF IInv, EndsTrue, OverTrue, Undisturbed, AllAnswered, Gone, StoredTrue
  <1>8. MirrorTrue'
    BY <1>4 DEF MirrorTrue, Undisturbed
  <1>9. StopTrue'
    <2>1. handler.pc \notin {"failing", "over", "gone"} => Undisturbed
      BY <1>1 DEF IInv, Typed, StopTrue, Phases, Undisturbed
    <2>2. handler.pc \notin {"failing", "over", "gone"} => Begins(page.text, state.text)
      BY <1>1, <2>1 DEF IInv, MirrorTrue
    <2>3. stored.status # "stopped" /\ (handler.pc # "over" => stored.status = "streaming")
      BY <1>1 DEF IInv, StopTrue
    <2>4. QED BY <1>1, <1>4, <2>2, <2>3 DEF StopTrue
  <1>10. QED BY <1>5, <1>6, <1>7, <1>8, <1>9 DEF IInv

LEMMA Stutters == ASSUME IInv, UNCHANGED vars PROVE IInv'
  <1>1. Typed' /\ PartsTrue' /\ ToolsTrue' /\ SaidTrue'
    BY DEF vars, IInv, Typed, PartsTrue, ToolsTrue, Undisturbed, SaidTrue
  <1>2. EndsTrue' /\ OverTrue' /\ MirrorTrue' /\ StoredTrue' /\ StopTrue'
    BY DEF vars, IInv, EndsTrue, Gone, OverTrue, Undisturbed, AllAnswered, MirrorTrue, StoredTrue, StopTrue
  <1>3. QED BY <1>1, <1>2 DEF IInv

LEMMA Starts == ASSUME Init PROVE IInv
  <1> DEFINE S == DOMAIN run.deltas  nil == <<>>
  <1>1. /\ run \in Runs /\ returned = {}
        /\ state = [parts |-> nil, text |-> nil, last |-> [t \in TextTypes |-> 0], sources |-> nil]
        /\ consumer = [c \in Consumers |-> [pc |-> "reading", n |-> 0]]
        /\ queue = nil /\ handler = [pc |-> "relaying", done |-> 0]
        /\ stored = [status |-> "streaming", text |-> nil, parts |-> nil, sources |-> nil]
        /\ wire = nil /\ page = [status |-> "streaming", text |-> nil, parts |-> nil]
    BY DEF Init
  <1>2. Len(run.deltas) \in Nat /\ Len(run.calls) \in Nat
    BY <1>1, RunIs
  <1>3. /\ IsSeq(nil) /\ Len(nil) = 0 /\ nil \in Seq(S) /\ \A t : TextOf(nil, t) = nil
        /\ \A t : SaidBy(run.deltas, t, 0) = nil
    BY EmptyIs, TextEmpty, SaidNothing
  <1> HIDE DEF nil
  <1>4. \A i : i \notin 1 .. 0
    OBVIOUS
  <1>5. TypedParts(nil, S) /\ TypedEvents(nil, S)
    BY <1>3, <1>4 DEF TypedParts, TypedEvents
  <1>6. /\ state.parts = nil /\ state.text = nil /\ state.last = [t \in TextTypes |-> 0] /\ state.sources = nil
        /\ stored.status = "streaming" /\ stored.parts = nil
        /\ page.status = "streaming" /\ page.text = nil /\ page.parts = nil
        /\ handler.pc = "relaying" /\ handler.done = 0
    BY <1>1
  <1>7. \A c \in Consumers : consumer[c].pc = "reading" /\ consumer[c].n = 0
    BY <1>1
  <1>8. "tools" \in Consumers /\ "messages" \in Consumers
    BY DEF Consumers
  <1>9. Typed
    <2>1. consumer \in [Consumers -> [pc: {"reading", "awaiting", "over", "raised"}, n: Nat]]
      BY <1>1
    <2>2. state.last \in [TextTypes -> Nat]
      BY <1>6
    <2>3. handler \in [pc: Phases, done: 0 .. 2]
      BY <1>1 DEF Phases
    <2>4. QED BY <1>1, <1>3, <1>5, <1>6, <2>1, <2>2, <2>3 DEF Typed, Statuses
  <1>10. PartsTrue
    BY <1>3, <1>4, <1>6 DEF PartsTrue, Named, LastStreams
  <1>11. ToolsTrue
    <2>1. consumer["tools"].n = 0 /\ consumer["tools"].pc = "reading"
      BY <1>7, <1>8
    <2>2. QED BY <1>2, <1>3, <1>4, <1>6, <2>1 DEF ToolsTrue, Undisturbed, Started
  <1>12. SaidTrue
    <2>1. consumer["messages"].n = 0
      BY <1>7, <1>8
    <2>2. QED BY <1>2, <1>3, <1>6, <2>1 DEF SaidTrue
  <1>13. EndsTrue
    BY <1>1, <1>3, <1>4, <1>6 DEF EndsTrue, EndsSeen
  <1>14. OverTrue
    BY <1>6, <1>7 DEF OverTrue, Undisturbed
  <1>15. Begins(nil, nil)
    BY <1>3, BeginsItself
  <1>16. MirrorTrue
    <2>1. Leads(nil, nil, nil, nil)
      BY <1>3, <1>15, LeadsNowhere DEF nil
    <2>2. Shown(nil, nil)[Len(nil)] = nil
      BY <2>1 DEF Leads
    <2>3. Mirrors(nil, nil, nil, nil, nil)
      BY <1>3, <1>4, <2>1, <2>2 DEF Mirrors
    <2>4. QED BY <1>1, <1>6, <1>15, <2>3 DEF MirrorTrue, Undisturbed
  <1>17. StoredTrue /\ StopTrue
    BY <1>6 DEF StoredTrue, StopTrue
  <1>18. QED BY <1>9, <1>10, <1>11, <1>12, <1>13, <1>14, <1>16, <1>17 DEF IInv

LEMMA Invariance == Spec => []IInv
  <1>1. Init => IInv
    BY Starts
  <1>2. ASSUME IInv, [Next]_vars PROVE IInv'
    <2>1. CASE \E c \in DOMAIN run.calls : ToolAnswers(c)
      BY <1>2, <2>1, ToolAnswersKeeps
    <2>2. CASE ReadDelta \/ StartTool \/ FinishTool
      BY <1>2, <2>2, ReadDeltaKeeps, StartToolKeeps, FinishToolKeeps
    <2>3. CASE \E who \in Consumers : ConsumerEnds(who) \/ ConsumerRaises(who)
      BY <1>2, <2>3, ConsumerEndsKeeps
    <2>4. CASE Relay \/ RelayEnds \/ Complete \/ Settle
      BY <1>2, <2>4, RelayKeeps, RelayEndsKeeps, CompleteKeeps, SettleKeeps
    <2>5. CASE Fail \/ Cancel \/ Close \/ CancelConsumers \/ Closed \/ Vanish
      BY <1>2, <2>5, BreaksKeep, CancelConsumersKeeps
    <2>6. CASE PageReceives \/ PageStops
      BY <1>2, <2>6, PageReceivesKeeps, PageStopsKeeps
    <2>7. CASE UNCHANGED vars
      BY <1>2, <2>7, Stutters
    <2>8. QED BY <1>2, <2>1, <2>2, <2>3, <2>4, <2>5, <2>6, <2>7 DEF Next
  <1>3. QED BY <1>1, <1>2, PTL DEF Spec

-----------------------------------------------------------------------------
(* The first of some sequences that is not empty.                          *)

\* h is the first of the sequences that is not empty, or empty as they all are.
Firstly(h, seqs) ==
    \/ h = <<>> /\ \A i \in 1 .. Len(seqs) : seqs[i] = <<>>
    \/ \E i \in 1 .. Len(seqs) :
          h = seqs[i] /\ seqs[i] # <<>> /\ \A j \in 1 .. Len(seqs) : j < i => seqs[j] = <<>>

LEMMA FirstOfIs ==
    ASSUME NEW seqs, IsSeq(seqs)
    PROVE  Firstly(FirstOf(seqs), seqs)
  <1> DEFINE I == {i \in 1 .. Len(seqs) : seqs[i] # <<>>}  m == CHOOSE x \in I : \A y \in I : x <= y
  <1>1. Len(seqs) \in Nat /\ DOMAIN seqs = 1 .. Len(seqs)
    BY SeqFacts
  <1>2. FirstOf(seqs) = IF I = {} THEN <<>> ELSE seqs[m]
    BY <1>1 DEF FirstOf, Min
  <1>3. CASE I = {}
    BY <1>2, <1>3 DEF Firstly
  <1>4. CASE I # {}
    <2>1. \E x \in I : \A y \in I : x <= y
      <3>1. I \subseteq Nat
        BY <1>1
      <3> HIDE DEF I
      <3>2. QED BY <1>4, <3>1, SmallestIs
    <2>2. m \in I /\ \A y \in I : m <= y
      <3> HIDE DEF I
      <3>1. QED BY <2>1
    <2> HIDE DEF m
    <2>3. \A j \in 1 .. Len(seqs) : j < m => seqs[j] = <<>>
      BY <1>1, <2>2
    <2>4. QED BY <1>2, <1>4, <2>2, <2>3 DEF Firstly
  <1>5. QED BY <1>3, <1>4

LEMMA FirstlyUnique ==
    ASSUME NEW seqs, IsSeq(seqs), NEW g, NEW h, Firstly(g, seqs), Firstly(h, seqs)
    PROVE  g = h
  <1>1. Len(seqs) \in Nat
    BY SeqFacts
  <1>2. QED BY <1>1 DEF Firstly

\* The first of two sequences is that of the first of them, if it has any.
LEMMA FirstOfConcat ==
    ASSUME NEW s, IsSeq(s), NEW t, IsSeq(t)
    PROVE  FirstOf(s \o t) = IF FirstOf(s) # <<>> THEN FirstOf(s) ELSE FirstOf(t)
  <1> DEFINE u == s \o t  f == FirstOf(s)  g == FirstOf(t)
  <1>0. Len(s) \in Nat /\ Len(t) \in Nat
    BY SeqFacts
  <1>1. /\ IsSeq(u) /\ Len(u) = Len(s) + Len(t)
        /\ \A i \in 1 .. Len(s) + Len(t) : u[i] = IF i <= Len(s) THEN s[i] ELSE t[i - Len(s)]
    BY ConcatIs
  <1>2. Firstly(f, s) /\ Firstly(g, t) /\ Firstly(FirstOf(u), u)
    BY <1>1, FirstOfIs
  <1> HIDE DEF u, f, g
  <1>3. CASE f # <<>>
    <2>1. PICK i \in 1 .. Len(s) :
               f = s[i] /\ s[i] # <<>> /\ \A j \in 1 .. Len(s) : j < i => s[j] = <<>>
      BY <1>2, <1>3 DEF Firstly
    <2>2. i \in 1 .. Len(u) /\ u[i] = s[i]
      BY <1>0, <1>1
    <2>3. ASSUME NEW j \in 1 .. Len(u), j < i PROVE u[j] = <<>>
      <3>1. j \in 1 .. Len(s) /\ j <= Len(s)
        BY <1>0, <1>1, <2>3
      <3>2. QED BY <1>0, <1>1, <2>1, <2>3, <3>1
    <2>4. Firstly(f, u)
      BY <2>1, <2>2, <2>3 DEF Firstly
    <2>5. QED BY <1>1, <1>2, <1>3, <2>4, FirstlyUnique DEF u, f, g
  <1>4. CASE f = <<>>
    <2>1. \A i \in 1 .. Len(s) : s[i] = <<>>
      BY <1>2, <1>4 DEF Firstly
    <2>2. CASE g = <<>>
      <3>1. \A i \in 1 .. Len(t) : t[i] = <<>>
        BY <1>2, <2>2 DEF Firstly
      <3>2. ASSUME NEW i \in 1 .. Len(u) PROVE u[i] = <<>>
        <4>1. i <= Len(s) => i \in 1 .. Len(s)
          BY <1>0, <1>1
        <4>2. ~(i <= Len(s)) => i - Len(s) \in 1 .. Len(t)
          BY <1>0, <1>1
        <4>3. QED BY <1>1, <2>1, <3>1, <4>1, <4>2
      <3>3. Firstly(g, u)
        BY <2>2, <3>2 DEF Firstly
      <3>4. QED BY <1>1, <1>2, <1>4, <3>3, FirstlyUnique DEF u, f, g
    <2>3. CASE g # <<>>
      <3>1. PICK i \in 1 .. Len(t) :
                 g = t[i] /\ t[i] # <<>> /\ \A j \in 1 .. Len(t) : j < i => t[j] = <<>>
        BY <1>2, <2>3 DEF Firstly
      <3>2. Len(s) + i \in 1 .. Len(u) /\ u[Len(s) + i] = t[i]
        <4>1. Len(s) + i \in 1 .. Len(u) /\ ~(Len(s) + i <= Len(s)) /\ (Len(s) + i) - Len(s) = i
          BY <1>0, <1>1
        <4>2. QED BY <1>1, <4>1
      <3>3. ASSUME NEW j \in 1 .. Len(u), j < Len(s) + i PROVE u[j] = <<>>
        <4>1. j <= Len(s) => j \in 1 .. Len(s)
          BY <1>0, <1>1
        <4>2. ~(j <= Len(s)) => j - Len(s) \in 1 .. Len(t) /\ j - Len(s) < i
          BY <1>0, <1>1, <3>3
        <4>3. QED BY <1>1, <2>1, <3>1, <4>1, <4>2
      <3>4. Firstly(g, u)
        BY <3>1, <3>2, <3>3 DEF Firstly
      <3>5. QED BY <1>1, <1>2, <1>4, <3>4, FirstlyUnique DEF u, f, g
    <2>4. QED BY <2>2, <2>3
  <1>5. QED BY <1>3, <1>4

LEMMA FirstOfNone == FirstOf(<<>>) = <<>>
  BY FirstOfIs, EmptyIs DEF Firstly

LEMMA FirstOfOne == ASSUME NEW s PROVE FirstOf(<<s>>) = s
  <1> DEFINE u == <<s>>
  <1>1. IsSeq(u) /\ Len(u) = 1 /\ u[1] = s
    BY SingleIs
  <1> HIDE DEF u
  <1>2. Firstly(FirstOf(u), u)
    BY <1>1, FirstOfIs
  <1>3. FirstOf(u) = s
    BY <1>1, <1>2 DEF Firstly
  <1>4. QED BY <1>3 DEF u

\* The first of many is the first of what is the first of each.
LEMMA FirstOfFlatten ==
    ASSUME NEW ss, IsSeq(ss), \A i \in 1 .. Len(ss) : IsSeq(ss[i])
    PROVE  FirstOf(FlattenSeq(ss)) = FirstOf([i \in 1 .. Len(ss) |-> FirstOf(ss[i])])
  <1> DEFINE ff == [i \in 1 .. Len(ss) |-> FirstOf(ss[i])]
  <1>0. Len(ss) \in Nat
    BY SeqFacts
  <1>1. IsSeq(ff) /\ Len(ff) = Len(ss) /\ \A i \in 1 .. Len(ss) : ff[i] = FirstOf(ss[i])
    <2>1. ff = [i \in 1 .. Len(ss) |-> ff[i]] /\ \A i \in 1 .. Len(ss) : ff[i] = FirstOf(ss[i])
      OBVIOUS
    <2> HIDE DEF ff
    <2>2. QED BY <1>0, <2>1, FcnIsSeq
  <1> HIDE DEF ff
  <1> DEFINE T == {m \in 0 .. Len(ss) : FirstOf(FlattenSeq(Upto(ss, m))) = FirstOf(Upto(ff, m))}
  <1>3. 0 \in T
    <2>1. FlattenSeq(Upto(ss, 0)) = <<>> /\ 0 \in 0 .. Len(ss)
      BY <1>0, FlattenUpto
    <2>2. Upto(ff, 0) = <<>>
      BY <1>0, <1>1, UptoIs
    <2>3. QED BY <2>1, <2>2
  <1>4. ASSUME NEW m \in 0 .. Len(ss), m < Len(ss), m \in T PROVE m + 1 \in T
    <2> DEFINE a == FlattenSeq(Upto(ss, m))  b == Upto(ff, m)
    <2>1. IsSeq(a) /\ FlattenSeq(Upto(ss, m + 1)) = a \o ss[m + 1]
      BY <1>4, FlattenUpto
    <2>2. IsSeq(b) /\ Upto(ff, m + 1) = Append(b, ff[m + 1])
      BY <1>1, <1>4, UptoIs
    <2>3. m + 1 \in 1 .. Len(ss) /\ m + 1 \in 0 .. Len(ss) /\ FirstOf(a) = FirstOf(b)
      BY <1>0, <1>4
    <2> HIDE DEF a, b
    <2> DEFINE x == ff[m + 1]
    <2>4. FirstOf(a \o ss[m + 1]) = IF FirstOf(a) # <<>> THEN FirstOf(a) ELSE FirstOf(ss[m + 1])
      BY <2>1, <2>3, FirstOfConcat
    <2>5. FirstOf(b \o <<x>>) = IF FirstOf(b) # <<>> THEN FirstOf(b) ELSE x
      <3>1. IsSeq(<<x>>)
        BY SingleIs
      <3>2. QED BY <2>2, <3>1, FirstOfConcat, FirstOfOne
    <2>6. b \o <<x>> = Append(b, x) /\ x = FirstOf(ss[m + 1])
      BY <1>1, <2>2, <2>3, ConcatOne
    <2>7. QED BY <2>1, <2>2, <2>3, <2>4, <2>5, <2>6
  <1>5. Len(ss) \in T
    <2> HIDE DEF T
    <2>1. QED BY <1>0, <1>3, <1>4, CountUp
  <1>6. FirstOf(FlattenSeq(ss)) = FirstOf(ff)
    <2>1. FlattenSeq(Upto(ss, Len(ss))) = FlattenSeq(ss) /\ Upto(ff, Len(ff)) = ff
      <3>1. Len(ss) \in 0 .. Len(ss)
        BY <1>0
      <3>2. QED BY <1>1, <3>1, FlattenUpto, UptoIs
    <2>2. QED BY <1>1, <1>5, <2>1
  <1>7. QED BY <1>6 DEF ff

\* The first of what f makes of each element of a flattening.
LEMMA FirstOfMapped ==
    ASSUME NEW f, NEW ss, IsSeq(ss), \A i \in 1 .. Len(ss) : IsSeq(ss[i])
    PROVE  FirstOf(Mapped(f, FlattenSeq(ss))) = FirstOf([i \in 1 .. Len(ss) |-> FirstOf(Mapped(f, ss[i]))])
  <1> DEFINE mm == [i \in 1 .. Len(ss) |-> Mapped(f, ss[i])]
  <1>1. /\ IsSeq(mm) /\ Len(mm) = Len(ss) /\ \A i \in 1 .. Len(ss) : IsSeq(mm[i])
        /\ Mapped(f, FlattenSeq(ss)) = FlattenSeq(mm)
    BY MapFlatten
  <1>2. \A i \in 1 .. Len(ss) : mm[i] = Mapped(f, ss[i])
    OBVIOUS
  <1> HIDE DEF mm
  <1>3. FirstOf(FlattenSeq(mm)) = FirstOf([i \in 1 .. Len(mm) |-> FirstOf(mm[i])])
    BY <1>1, FirstOfFlatten
  <1>4. [i \in 1 .. Len(mm) |-> FirstOf(mm[i])] = [i \in 1 .. Len(ss) |-> FirstOf(Mapped(f, ss[i]))]
    BY <1>1, <1>2
  <1>5. QED BY <1>1, <1>3, <1>4

LEMMA MappedOne ==
    ASSUME NEW f, NEW x
    PROVE  FirstOf(Mapped(f, <<x>>)) = f[x] /\ FirstOf(Mapped(f, <<>>)) = <<>>
  <1>1. Mapped(f, <<x>>) = <<f[x]>>
    <2> DEFINE u == <<x>>  v == <<f[x]>>  w == Mapped(f, u)
    <2>1. IsSeq(u) /\ Len(u) = 1 /\ u[1] = x /\ IsSeq(v) /\ Len(v) = 1 /\ v[1] = f[x]
      BY SingleIs
    <2> HIDE DEF u, v
    <2>2. IsSeq(w) /\ Len(w) = 1 /\ w[1] = f[x]
      BY <2>1, MappedIs
    <2> HIDE DEF w
    <2>3. w = v
      BY <2>1, <2>2, SeqEq
    <2>4. QED BY <2>3 DEF u, v, w
  <1>2. Mapped(f, <<>>) = <<>>
    BY MappedIs, EmptyIs
  <1>3. QED BY <1>1, <1>2, FirstOfOne, FirstOfNone

LEMMA FirstKept ==
    ASSUME NEW s, IsSeq(s), NEW K, NEW f
    PROVE  FirstOf(Mapped(f, FlattenSeq(Kept(s, K)))) =
              FirstOf([i \in 1 .. Len(s) |-> IF i \in K THEN f[s[i]] ELSE <<>>])
  <1> DEFINE u == Kept(s, K)
  <1>1. /\ IsSeq(u) /\ Len(u) = Len(s)
        /\ \A i \in 1 .. Len(s) : u[i] = IF i \in K THEN <<s[i]>> ELSE <<>>
        /\ \A i \in 1 .. Len(s) : IsSeq(u[i])
    BY KeptIs
  <1> HIDE DEF u
  <1>2. FirstOf(Mapped(f, FlattenSeq(u))) = FirstOf([i \in 1 .. Len(u) |-> FirstOf(Mapped(f, u[i]))])
    BY <1>1, FirstOfMapped
  <1>3. \A i \in 1 .. Len(s) : FirstOf(Mapped(f, u[i])) = IF i \in K THEN f[s[i]] ELSE <<>>
    BY <1>1, MappedOne
  <1>4. [i \in 1 .. Len(u) |-> FirstOf(Mapped(f, u[i]))] =
          [i \in 1 .. Len(s) |-> IF i \in K THEN f[s[i]] ELSE <<>>]
    BY <1>1, <1>3
  <1>5. QED BY <1>2, <1>4 DEF u

-----------------------------------------------------------------------------
(* The lists that are walked.                                              *)

\* The hotels of a value that is a list, of the lists among a dict's values, and of
\* those in dicts among them.
ListHotels(x) == IF x.k = "list" THEN Hotels(x) ELSE <<>>
InDict(d)     == FirstOf([i \in 1 .. Len(d.of) |-> ListHotels(d.of[i])])
Inside(x)     == IF x.k = "dict" THEN InDict(x) ELSE ListHotels(x)
TwoDeep(d)    == FirstOf([i \in 1 .. Len(d.of) |-> Inside(d.of[i])])

LEMMA OpenedIs ==
    ASSUME NEW s, IsSeq(s), \A i \in 1 .. Len(s) : s[i].k = "dict" => IsSeq(s[i].of)
    PROVE  LET oo == [i \in 1 .. Len(s) |-> IF s[i].k = "dict" THEN s[i].of ELSE <<s[i]>>] IN
           /\ Opened(s) = FlattenSeq(oo) /\ IsSeq(oo) /\ Len(oo) = Len(s)
           /\ \A i \in 1 .. Len(s) : IsSeq(oo[i])
           /\ IsSeq(Opened(s))
  <1> DEFINE oo == [i \in 1 .. Len(s) |-> IF s[i].k = "dict" THEN s[i].of ELSE <<s[i]>>]
  <1>1. DOMAIN s = 1 .. Len(s) /\ Len(s) \in Nat
    BY SeqFacts
  <1>2. Opened(s) = FlattenSeq(oo)
    BY <1>1 DEF Opened
  <1>3. /\ oo = [i \in 1 .. Len(s) |-> oo[i]]
        /\ \A i \in 1 .. Len(s) : oo[i] = IF s[i].k = "dict" THEN s[i].of ELSE <<s[i]>>
    OBVIOUS
  <1> HIDE DEF oo
  <1>4. IsSeq(oo) /\ Len(oo) = Len(s)
    BY <1>1, <1>3, FcnIsSeq
  <1>5. \A i \in 1 .. Len(s) : IsSeq(oo[i])
    BY <1>3, SingleIs
  <1>6. IsSeq(FlattenSeq(oo))
    BY <1>4, <1>5, FlattenIsSeq
  <1>7. QED BY <1>2, <1>4, <1>5, <1>6 DEF oo

LEMMA OpenedOne ==
    ASSUME NEW d, d.k = "dict" => IsSeq(d.of)
    PROVE  Opened(<<d>>) = IF d.k = "dict" THEN d.of ELSE <<d>>
  <1> DEFINE s == <<d>>  x == IF d.k = "dict" THEN d.of ELSE <<d>>
  <1>1. IsSeq(s) /\ Len(s) = 1 /\ s[1] = d
    BY SingleIs
  <1>2. IsSeq(x)
    BY SingleIs
  <1> HIDE DEF s
  <1> DEFINE oo == [i \in 1 .. Len(s) |-> IF s[i].k = "dict" THEN s[i].of ELSE <<s[i]>>]
  <1>3. Opened(s) = FlattenSeq(oo) /\ IsSeq(oo) /\ Len(oo) = Len(s)
    BY <1>1, OpenedIs
  <1>4. oo[1] = x
    BY <1>1
  <1> HIDE DEF oo, x
  <1>5. oo # <<>> /\ \A i \in 1 .. Len(oo) - 1 : oo[i] = <<>>
    BY <1>1, <1>3, EmptyIs
  <1>6. FlattenSeq(oo) = x
    BY <1>1, <1>2, <1>3, <1>4, <1>5, FlattenLast
  <1>7. QED BY <1>3, <1>6 DEF s, x

LEMMA WalkIs ==
    ASSUME NEW d, d.k = "dict" => IsSeq(d.of),
           \A i \in 1 .. Len(d.of) : d.of[i].k = "dict" => IsSeq(d.of[i].of)
    PROVE  LET o == Opened(Opened(<<d>>)) IN
           /\ IsSeq(o) /\ WalkLists(d) = FlattenSeq(Kept(o, {i \in 1 .. Len(o) : o[i].k = "list"}))
           /\ IsSeq(WalkLists(d))
  <1> DEFINE p == Opened(<<d>>)  o == Opened(p)  K == {i \in 1 .. Len(o) : o[i].k = "list"}
  <1>1. p = IF d.k = "dict" THEN d.of ELSE <<d>>
    BY OpenedOne
  <1>2. IsSeq(p) /\ \A i \in 1 .. Len(p) : p[i].k = "dict" => IsSeq(p[i].of)
    <2>1. CASE d.k = "dict"
      BY <1>1, <2>1
    <2>2. CASE d.k # "dict"
      <3>1. IsSeq(p) /\ Len(p) = 1 /\ p[1] = d
        BY <1>1, <2>2, SingleIs
      <3> HIDE DEF p
      <3>2. QED BY <2>2, <3>1
    <2>3. QED BY <2>1, <2>2
  <1> HIDE DEF p
  <1>3. IsSeq(o)
    BY <1>2, OpenedIs
  <1>4. WalkLists(d) = Only(o, LAMBDA x : x.k = "list")
    BY DEF WalkLists, p
  <1> HIDE DEF o
  <1>5. DOMAIN o = 1 .. Len(o)
    BY <1>3, SeqFacts
  <1>6. Only(o, LAMBDA x : x.k = "list") = FlattenSeq(Kept(o, K))
    <2>1. [i \in DOMAIN o |-> IF o[i].k = "list" THEN <<o[i]>> ELSE <<>>] = Kept(o, K)
      BY <1>5 DEF Kept
    <2>2. QED BY <2>1 DEF Only
  <1>7. IsSeq(FlattenSeq(Kept(o, K)))
    BY <1>3, KeptIs
  <1>8. QED BY <1>3, <1>4, <1>6, <1>7 DEF o, p

LEMMA FirstHotelsIs ==
    ASSUME NEW lists, IsSeq(lists), NEW f, \A i \in 1 .. Len(lists) : f[lists[i]] = Hotels(lists[i])
    PROVE  FirstHotels(lists) = FirstOf(Mapped(f, lists))
  <1>1. DOMAIN lists = 1 .. Len(lists)
    BY SeqFacts
  <1>2. [i \in DOMAIN lists |-> Hotels(lists[i])] = Mapped(f, lists)
    BY <1>1 DEF Mapped
  <1>3. QED BY <1>2 DEF FirstHotels

LEMMA WalkOfDict ==
    ASSUME NEW d, d.k = "dict", IsSeq(d.of),
           \A i \in 1 .. Len(d.of) : d.of[i].k = "dict" => IsSeq(d.of[i].of)
    PROVE  FirstHotels(WalkLists(d)) = TwoDeep(d)
  <1> DEFINE p == d.of  o == Opened(p)  K == {i \in 1 .. Len(o) : o[i].k = "list"}
             w == FlattenSeq(Kept(o, K))
             oo == [i \in 1 .. Len(p) |-> IF p[i].k = "dict" THEN p[i].of ELSE <<p[i]>>]
             D == {o[i] : i \in 1 .. Len(o)} \cup {p[i] : i \in 1 .. Len(p)}
                  \cup UNION {{p[i].of[j] : j \in 1 .. Len(p[i].of)} : i \in 1 .. Len(p)}
             f == [x \in D |-> Hotels(x)]  g == [x \in D |-> ListHotels(x)]
  <1>1. IsSeq(p) /\ \A i \in 1 .. Len(p) : p[i].k = "dict" => IsSeq(p[i].of)
    OBVIOUS
  <1>2. IsSeq(o) /\ WalkLists(d) = w /\ IsSeq(w)
    BY WalkIs, OpenedOne
  <1>3. /\ o = FlattenSeq(oo) /\ IsSeq(oo) /\ Len(oo) = Len(p)
        /\ \A i \in 1 .. Len(p) : IsSeq(oo[i])
    BY <1>1, OpenedIs
  <1>4. /\ \A i \in 1 .. Len(o) : f[o[i]] = Hotels(o[i]) /\ g[o[i]] = ListHotels(o[i])
        /\ \A i \in 1 .. Len(p) : g[p[i]] = ListHotels(p[i])
        /\ \A i \in 1 .. Len(p) : \A j \in 1 .. Len(p[i].of) : g[p[i].of[j]] = ListHotels(p[i].of[j])
    <2>1. \A x \in D : f[x] = Hotels(x) /\ g[x] = ListHotels(x)
      OBVIOUS
    <2>2. \A i \in 1 .. Len(o) : o[i] \in D
      OBVIOUS
    <2>3. \A i \in 1 .. Len(p) : p[i] \in D /\ \A j \in 1 .. Len(p[i].of) : p[i].of[j] \in D
      OBVIOUS
    <2> HIDE DEF D, f, g, o, p
    <2>4. QED BY <2>1, <2>2, <2>3
  <1>5. \A i \in 1 .. Len(p) : oo[i] = IF p[i].k = "dict" THEN p[i].of ELSE <<p[i]>>
    OBVIOUS
  <1> HIDE DEF f, g, D, o, oo, p
  <1>6. FirstHotels(w) = FirstOf(Mapped(f, w))
    <2>1. \A i \in 1 .. Len(w) : \E k \in 1 .. Len(o) : w[i] = o[k]
      <3> HIDE DEF K
      <3>1. \A i \in 1 .. Len(w) : \E k \in 1 .. Len(o) : k \in K /\ w[i] = o[k]
        BY <1>2, KeptElements
      <3> HIDE DEF w
      <3>2. QED BY <3>1
    <2> HIDE DEF w
    <2>2. \A i \in 1 .. Len(w) : f[w[i]] = Hotels(w[i])
      BY <1>4, <2>1
    <2>3. QED BY <1>2, <2>2, FirstHotelsIs
  <1>7. FirstOf(Mapped(f, w)) = FirstOf(Mapped(g, o))
    <2>1. FirstOf(Mapped(f, w)) = FirstOf([i \in 1 .. Len(o) |-> IF i \in K THEN f[o[i]] ELSE <<>>])
      <3> HIDE DEF K
      <3>1. QED BY <1>2, FirstKept
    <2>2. \A i \in 1 .. Len(o) : (IF i \in K THEN f[o[i]] ELSE <<>>) = g[o[i]]
      BY <1>4 DEF ListHotels
    <2>3. [i \in 1 .. Len(o) |-> IF i \in K THEN f[o[i]] ELSE <<>>] = [i \in 1 .. Len(o) |-> g[o[i]]]
      <3> HIDE DEF K
      <3>1. QED BY <2>2
    <2>4. QED BY <2>1, <2>3 DEF Mapped
  <1>8. FirstOf(Mapped(g, o)) = FirstOf([i \in 1 .. Len(oo) |-> FirstOf(Mapped(g, oo[i]))])
    BY <1>3, FirstOfMapped
  <1>9. \A i \in 1 .. Len(p) : FirstOf(Mapped(g, oo[i])) = Inside(p[i])
    <2>1. ASSUME NEW i \in 1 .. Len(p), p[i].k = "dict" PROVE FirstOf(Mapped(g, oo[i])) = Inside(p[i])
      <3>1. Mapped(g, p[i].of) = [j \in 1 .. Len(p[i].of) |-> ListHotels(p[i].of[j])]
        BY <1>4 DEF Mapped
      <3>2. QED BY <1>5, <2>1, <3>1 DEF Inside, InDict
    <2>2. ASSUME NEW i \in 1 .. Len(p), p[i].k # "dict" PROVE FirstOf(Mapped(g, oo[i])) = Inside(p[i])
      <3> DEFINE x == p[i]
      <3>1. oo[i] = <<x>> /\ g[x] = ListHotels(x) /\ Inside(x) = ListHotels(x)
        BY <1>4, <1>5, <2>2 DEF Inside
      <3> HIDE DEF x
      <3>2. FirstOf(Mapped(g, <<x>>)) = g[x]
        BY MappedOne
      <3>3. FirstOf(Mapped(g, oo[i])) = Inside(x)
        BY <3>1, <3>2
      <3>4. QED BY <3>3 DEF x
    <2>3. QED BY <2>1, <2>2
  <1>10. [i \in 1 .. Len(oo) |-> FirstOf(Mapped(g, oo[i]))] = [i \in 1 .. Len(p) |-> Inside(p[i])]
    BY <1>3, <1>9
  <1>11. FirstHotels(WalkLists(d)) = FirstOf([i \in 1 .. Len(p) |-> Inside(p[i])])
    BY <1>2, <1>6, <1>7, <1>8, <1>10
  <1>12. QED BY <1>11 DEF TwoDeep, p

-----------------------------------------------------------------------------
(* The places in a dict.                                                   *)

LEMMA DictsRead ==
    ASSUME NEW s, IsSeq(s),
           \A k \in 1 .. Len(s) : s[k].k = "dict" =>
                /\ IsSeq(s[k].of)
                /\ \A i \in 1 .. Len(s[k].of) : s[k].of[i].k = "dict" => IsSeq(s[k].of[i].of)
    PROVE  LET dicts == Only(s, LAMBDA x : x.k = "dict") IN
           FirstHotels(FlattenSeq([i \in DOMAIN dicts |-> WalkLists(dicts[i])])) =
              FirstOf([k \in 1 .. Len(s) |-> IF s[k].k = "dict" THEN TwoDeep(s[k]) ELSE <<>>])
  <1> DEFINE K == {k \in 1 .. Len(s) : s[k].k = "dict"}
             dicts == FlattenSeq(Kept(s, K))
             ww == [i \in 1 .. Len(dicts) |-> WalkLists(dicts[i])]
             w == FlattenSeq(ww)
             D == {w[i] : i \in 1 .. Len(w)}
                  \cup UNION {{ww[i][j] : j \in 1 .. Len(ww[i])} : i \in 1 .. Len(dicts)}
             f == [x \in D |-> Hotels(x)]
             C == {s[k] : k \in 1 .. Len(s)}
             h == [x \in C |-> TwoDeep(x)]
  <1>1. Only(s, LAMBDA x : x.k = "dict") = dicts
    <2>1. DOMAIN s = 1 .. Len(s)
      BY SeqFacts
    <2>2. [i \in DOMAIN s |-> IF s[i].k = "dict" THEN <<s[i]>> ELSE <<>>] = Kept(s, K)
      BY <2>1 DEF Kept
    <2>3. QED BY <2>2 DEF Only
  <1>2. IsSeq(dicts) /\ \A i \in 1 .. Len(dicts) : \E k \in 1 .. Len(s) : k \in K /\ dicts[i] = s[k]
    <2> HIDE DEF K
    <2>1. IsSeq(dicts)
      BY KeptIs
    <2>2. \A i \in 1 .. Len(dicts) : \E k \in 1 .. Len(s) : k \in K /\ dicts[i] = s[k]
      BY KeptElements
    <2>3. QED BY <2>1, <2>2
  <1> HIDE DEF dicts
  <1>3. Len(dicts) \in Nat /\ DOMAIN dicts = 1 .. Len(dicts)
    BY <1>2, SeqFacts
  <1>4. ASSUME NEW i \in 1 .. Len(dicts)
        PROVE  /\ IsSeq(WalkLists(dicts[i])) /\ FirstHotels(WalkLists(dicts[i])) = TwoDeep(dicts[i])
               /\ dicts[i] \in C
    <2>1. PICK k \in 1 .. Len(s) : s[k].k = "dict" /\ dicts[i] = s[k]
      BY <1>2
    <2> DEFINE d == s[k]
    <2>2. /\ d.k = "dict" /\ IsSeq(d.of)
          /\ \A j \in 1 .. Len(d.of) : d.of[j].k = "dict" => IsSeq(d.of[j].of)
      BY <2>1
    <2>3. dicts[i] = d /\ d \in C
      BY <2>1
    <2> HIDE DEF d, C
    <2>4. IsSeq(WalkLists(d)) /\ FirstHotels(WalkLists(d)) = TwoDeep(d)
      BY <2>2, WalkIs, WalkOfDict
    <2>5. QED BY <2>3, <2>4
  <1>5. ww = [i \in 1 .. Len(dicts) |-> ww[i]] /\ \A i \in 1 .. Len(dicts) : ww[i] = WalkLists(dicts[i])
    OBVIOUS
  <1> HIDE DEF ww
  <1>6. IsSeq(ww) /\ Len(ww) = Len(dicts) /\ \A i \in 1 .. Len(dicts) : IsSeq(ww[i])
    BY <1>3, <1>4, <1>5, FcnIsSeq
  <1>7. IsSeq(w)
    BY <1>6, FlattenIsSeq
  <1>8. /\ \A i \in 1 .. Len(w) : f[w[i]] = Hotels(w[i])
        /\ \A i \in 1 .. Len(dicts) : \A j \in 1 .. Len(ww[i]) : f[ww[i][j]] = Hotels(ww[i][j])
    <2>1. \A x \in D : f[x] = Hotels(x)
      OBVIOUS
    <2>2. \A i \in 1 .. Len(w) : w[i] \in D
      OBVIOUS
    <2>3. \A i \in 1 .. Len(dicts) : \A j \in 1 .. Len(ww[i]) : ww[i][j] \in D
      OBVIOUS
    <2> HIDE DEF D, f, w
    <2>4. QED BY <2>1, <2>2, <2>3
  <1>9. \A i \in 1 .. Len(dicts) : h[dicts[i]] = TwoDeep(dicts[i])
    BY <1>4
  <1>10. \A k \in 1 .. Len(s) : h[s[k]] = TwoDeep(s[k])
    OBVIOUS
  <1> HIDE DEF f, D, h, C
  <1>11. FirstHotels(w) = FirstOf([i \in 1 .. Len(ww) |-> FirstOf(Mapped(f, ww[i]))])
    <2>1. FirstHotels(w) = FirstOf(Mapped(f, w))
      <3> HIDE DEF w
      <3>1. QED BY <1>7, <1>8, FirstHotelsIs
    <2>2. FirstOf(Mapped(f, w)) = FirstOf([i \in 1 .. Len(ww) |-> FirstOf(Mapped(f, ww[i]))])
      BY <1>6, FirstOfMapped
    <2>3. QED BY <2>1, <2>2
  <1>12. ASSUME NEW i \in 1 .. Len(dicts) PROVE FirstOf(Mapped(f, ww[i])) = h[dicts[i]]
    <2> DEFINE u == ww[i]
    <2>1. IsSeq(u) /\ u = WalkLists(dicts[i]) /\ \A j \in 1 .. Len(u) : f[u[j]] = Hotels(u[j])
      BY <1>5, <1>6, <1>8
    <2> HIDE DEF u
    <2>2. FirstHotels(u) = FirstOf(Mapped(f, u))
      BY <2>1, FirstHotelsIs
    <2>3. FirstHotels(u) = h[dicts[i]]
      BY <1>4, <1>9, <2>1
    <2>4. QED BY <2>2, <2>3 DEF u
  <1>13. [i \in 1 .. Len(ww) |-> FirstOf(Mapped(f, ww[i]))] = Mapped(h, dicts)
    BY <1>6, <1>12 DEF Mapped
  <1>14. FirstOf(Mapped(h, dicts)) = FirstOf([k \in 1 .. Len(s) |-> IF k \in K THEN h[s[k]] ELSE <<>>])
    <2> HIDE DEF K
    <2>1. QED BY FirstKept DEF dicts
  <1>15. [k \in 1 .. Len(s) |-> IF k \in K THEN h[s[k]] ELSE <<>>]
          = [k \in 1 .. Len(s) |-> IF s[k].k = "dict" THEN TwoDeep(s[k]) ELSE <<>>]
    BY <1>10
  <1>16. [i \in DOMAIN dicts |-> WalkLists(dicts[i])] = ww
    BY <1>3, <1>5
  <1>17. QED BY <1>1, <1>11, <1>13, <1>14, <1>15, <1>16

LEMMA BeforeIs ==
    ASSUME NEW pre, IsSeq(pre), NEW i \in Nat, NEW j \in Nat, i < j,
           NEW p, NEW q, Begins(Append(pre, i), p), Begins(Append(pre, j), q)
    PROVE  Before(p, q)
  <1> DEFINE a == Append(pre, i)  b == Append(pre, j)  n == Len(pre) + 1
  <1>1. /\ Len(pre) \in Nat /\ Len(a) = n /\ Len(b) = n /\ a[n] = i /\ b[n] = j
        /\ \A m \in 1 .. Len(pre) : a[m] = pre[m] /\ b[m] = pre[m]
    BY AppendIs, SeqFacts
  <1> HIDE DEF a, b
  <1>2. /\ IsSeq(p) /\ n <= Len(p) /\ \A m \in 1 .. n : a[m] = p[m]
        /\ IsSeq(q) /\ n <= Len(q) /\ \A m \in 1 .. n : b[m] = q[m]
    BY <1>1 DEF Begins, a, b
  <1>3. DOMAIN p = 1 .. Len(p) /\ DOMAIN q = 1 .. Len(q) /\ Len(p) \in Nat /\ Len(q) \in Nat
    BY <1>2, SeqFacts
  <1>4. n \in DOMAIN q /\ p[n] < q[n]
    BY <1>1, <1>2, <1>3
  <1>5. \A m \in 1 .. n - 1 : m \in DOMAIN p /\ p[m] = q[m]
    BY <1>1, <1>2, <1>3
  <1>6. QED BY <1>4, <1>5 DEF Before

LEMMA BeforeOnly ==
    ASSUME NEW p \in Seq(Nat), NEW q \in Seq(Nat), Before(p, q), Before(q, p)
    PROVE  FALSE
  <1>1. Len(p) \in Nat /\ Len(q) \in Nat /\ DOMAIN p = 1 .. Len(p) /\ DOMAIN q = 1 .. Len(q)
        /\ (\A i \in DOMAIN p : p[i] \in Nat) /\ (\A i \in DOMAIN q : q[i] \in Nat)
    BY SeqIs
  <1>2. PICK n \in DOMAIN q : /\ \A m \in 1 .. n - 1 : m \in DOMAIN p /\ p[m] = q[m]
                              /\ n \in DOMAIN p => p[n] < q[n]
    BY DEF Before
  <1>3. PICK l \in DOMAIN p : /\ \A m \in 1 .. l - 1 : m \in DOMAIN q /\ q[m] = p[m]
                              /\ l \in DOMAIN q => q[l] < p[l]
    BY DEF Before
  <1>4. n \in Nat /\ l \in Nat /\ n >= 1 /\ l >= 1
    BY <1>1
  <1>5. CASE n < l
    <2>1. n \in 1 .. l - 1 /\ n \in DOMAIN p
      BY <1>1, <1>4, <1>5
    <2>2. p[n] < q[n] /\ q[n] = p[n] /\ p[n] \in Nat
      BY <1>1, <1>2, <1>3, <2>1
    <2>3. QED BY <2>2
  <1>6. CASE l < n
    <2>1. l \in 1 .. n - 1 /\ l \in DOMAIN q
      BY <1>1, <1>4, <1>6
    <2>2. q[l] < p[l] /\ q[l] = p[l] /\ q[l] \in Nat
      BY <1>1, <1>2, <1>3, <2>1
    <2>3. QED BY <2>2
  <1>7. CASE l = n
    <2>1. p[n] \in Nat /\ q[n] \in Nat /\ p[n] < q[n] /\ q[n] < p[n]
      BY <1>1, <1>2, <1>3, <1>7
    <2>2. QED BY <2>1
  <1>8. QED BY <1>4, <1>5, <1>6, <1>7

\* The first of the places is the one that is chosen.
LEMMA FirstPlace ==
    ASSUME NEW S, NEW p \in S, \A q \in S : q.path \in Seq(Nat),
           \A q \in S \ {p} : Before(p.path, q.path)
    PROVE  (CHOOSE x \in S : \A q \in S \ {x} : Before(x.path, q.path)) = p
  <1> DEFINE Least(x) == \A q \in S \ {x} : Before(x.path, q.path)
  <1>1. ASSUME NEW x \in S, Least(x) PROVE x = p
    <2>1. CASE x # p
      <3>1. Before(x.path, p.path) /\ Before(p.path, x.path)
        BY <1>1, <2>1
      <3>2. QED BY <3>1, BeforeOnly
    <2>2. QED BY <2>1
  <1>2. Least(p)
    OBVIOUS
  <1> HIDE DEF Least
  <1>3. (CHOOSE x \in S : Least(x)) = p
    BY <1>1, <1>2
  <1>4. QED BY <1>3 DEF Least

\* A dict whose values can be looked into; where it stands, and the places in it.
IsDict(d) == /\ d.k = "dict" /\ IsSeq(d.of)
             /\ \A i \in 1 .. Len(d.of) : d.of[i].k = "dict" => IsSeq(d.of[i].of)
Place(path, node) == [path |-> path, node |-> node]
OneDown(d, pre, i)    == Place(Append(pre, i), d.of[i])
TwoDown(d, pre, i, j) == Place(Append(Append(pre, i), j), d.of[i].of[j])
Places(d, pre) == InDicts({Place(pre, d)}) \cup InDicts(InDicts({Place(pre, d)}))
HasHotels(p) == p.node.k = "list" /\ Hotels(p.node) # <<>>
Found(d, pre) == {p \in Places(d, pre) : HasHotels(p)}

LEMMA InDictsIs ==
    ASSUME NEW S, NEW q
    PROVE  q \in InDicts(S) <=>
              \E p \in S : p.node.k = "dict" /\ \E i \in DOMAIN p.node.of : q = Place(Append(p.path, i), p.node.of[i])
  BY DEF InDicts, Within, Under, Place

LEMMA PlacesAre ==
    ASSUME NEW d, IsDict(d), NEW pre, NEW q
    PROVE  q \in Places(d, pre) <=>
              \E i \in 1 .. Len(d.of) :
                 \/ q = OneDown(d, pre, i)
                 \/ d.of[i].k = "dict" /\ \E j \in 1 .. Len(d.of[i].of) : q = TwoDown(d, pre, i, j)
  <1> DEFINE P == Place(pre, d)  one == InDicts({P})
  <1>1. P.path = pre /\ P.node = d
    BY DEF Place
  <1>2. DOMAIN d.of = 1 .. Len(d.of) /\ \A i \in 1 .. Len(d.of) : d.of[i].k = "dict" =>
            DOMAIN d.of[i].of = 1 .. Len(d.of[i].of)
    BY SeqFacts DEF IsDict
  <1>3. \A x : x \in one <=> \E i \in 1 .. Len(d.of) : x = OneDown(d, pre, i)
    <2> HIDE DEF P
    <2>1. \A x : x \in one <=> \E i \in DOMAIN d.of : x = Place(Append(pre, i), d.of[i])
      BY <1>1, InDictsIs DEF IsDict
    <2>2. QED BY <1>2, <2>1 DEF OneDown
  <1> HIDE DEF P, one
  <1>4. \A i : OneDown(d, pre, i).path = Append(pre, i) /\ OneDown(d, pre, i).node = d.of[i]
    BY DEF OneDown, Place
  <1>5. q \in InDicts(one) <=> \E i \in 1 .. Len(d.of) : d.of[i].k = "dict" /\
            \E j \in 1 .. Len(d.of[i].of) : q = TwoDown(d, pre, i, j)
    <2>1. q \in InDicts(one) <=>
            \E p \in one : p.node.k = "dict" /\ \E j \in DOMAIN p.node.of : q = Place(Append(p.path, j), p.node.of[j])
      BY InDictsIs
    <2>2. q \in InDicts(one) <=>
            \E i \in 1 .. Len(d.of) : d.of[i].k = "dict" /\
               \E j \in DOMAIN d.of[i].of : q = Place(Append(Append(pre, i), j), d.of[i].of[j])
      <3>1. ASSUME NEW p \in one, p.node.k = "dict", NEW j \in DOMAIN p.node.of,
                   q = Place(Append(p.path, j), p.node.of[j])
            PROVE  \E i \in 1 .. Len(d.of) : d.of[i].k = "dict" /\
                      \E l \in DOMAIN d.of[i].of : q = Place(Append(Append(pre, i), l), d.of[i].of[l])
        <4>1. PICK i \in 1 .. Len(d.of) : p = OneDown(d, pre, i)
          BY <1>3
        <4>2. p.path = Append(pre, i) /\ p.node = d.of[i]
          BY <1>4, <4>1
        <4>3. QED BY <3>1, <4>2
      <3>2. ASSUME NEW i \in 1 .. Len(d.of), d.of[i].k = "dict", NEW j \in DOMAIN d.of[i].of,
                   q = Place(Append(Append(pre, i), j), d.of[i].of[j])
            PROVE  \E p \in one : p.node.k = "dict" /\
                      \E l \in DOMAIN p.node.of : q = Place(Append(p.path, l), p.node.of[l])
        <4> DEFINE p == OneDown(d, pre, i)
        <4>1. p \in one
          BY <1>3
        <4>2. p.path = Append(pre, i) /\ p.node = d.of[i]
          BY <1>4
        <4> HIDE DEF p
        <4>3. QED BY <3>2, <4>1, <4>2
      <3>3. QED BY <2>1, <3>1, <3>2
    <2>3. QED BY <1>2, <2>2 DEF TwoDown
  <1>6. QED BY <1>3, <1>5 DEF Places, one, P

LEMMA DownIs ==
    ASSUME NEW d, IsDict(d), NEW pre \in Seq(Nat), NEW i \in 1 .. Len(d.of)
    PROVE  /\ OneDown(d, pre, i).node = d.of[i] /\ OneDown(d, pre, i).path = Append(pre, i)
           /\ Append(pre, i) \in Seq(Nat) /\ IsSeq(Append(pre, i))
           /\ Begins(Append(pre, i), Append(pre, i)) /\ Begins(pre, Append(pre, i))
  <1> DEFINE a == Append(pre, i)
  <1>0. i \in Nat
    BY SeqFacts DEF IsDict
  <1>1. a \in Seq(Nat)
    BY <1>0
  <1>2. OneDown(d, pre, i).node = d.of[i] /\ OneDown(d, pre, i).path = a
    BY DEF OneDown, Place
  <1>3. IsSeq(pre)
    BY SeqIs
  <1>4. Begins(pre, a)
    BY <1>3, BeginsItself, BeginsMore
  <1> HIDE DEF a
  <1>5. IsSeq(a)
    BY <1>1, SeqIs
  <1>6. Begins(a, a)
    BY <1>5, BeginsItself
  <1>7. QED BY <1>1, <1>2, <1>4, <1>5, <1>6 DEF a

LEMMA TwoDownIs ==
    ASSUME NEW d, IsDict(d), NEW pre \in Seq(Nat), NEW i \in 1 .. Len(d.of), NEW j \in Nat
    PROVE  /\ TwoDown(d, pre, i, j).node = d.of[i].of[j]
           /\ TwoDown(d, pre, i, j).path = Append(Append(pre, i), j)
           /\ TwoDown(d, pre, i, j).path \in Seq(Nat)
           /\ Begins(Append(pre, i), TwoDown(d, pre, i, j).path)
           /\ Begins(pre, TwoDown(d, pre, i, j).path)
  <1> DEFINE a == Append(pre, i)  b == Append(a, j)
  <1>1. a \in Seq(Nat) /\ Begins(a, a) /\ Begins(pre, a)
    BY DownIs
  <1>2. TwoDown(d, pre, i, j).node = d.of[i].of[j] /\ TwoDown(d, pre, i, j).path = b
    BY DEF TwoDown, Place
  <1> HIDE DEF a
  <1>3. b \in Seq(Nat)
    BY <1>1
  <1>4. Begins(a, b) /\ Begins(pre, b)
    BY <1>1, BeginsMore
  <1>5. QED BY <1>2, <1>3, <1>4 DEF a

LEMMA FcnSeq ==
    ASSUME NEW n \in Nat, NEW f, f = [i \in 1 .. n |-> f[i]]
    PROVE  IsSeq(f) /\ Len(f) = n /\ Firstly(FirstOf(f), f)
  <1>1. IsSeq(f) /\ Len(f) = n
    BY FcnIsSeq
  <1>2. QED BY <1>1, FirstOfIs

LEMMA InDictIs ==
    ASSUME NEW d, IsSeq(d.of)
    PROVE  \/ InDict(d) = <<>> /\ \A j \in 1 .. Len(d.of) : ListHotels(d.of[j]) = <<>>
           \/ /\ InDict(d) # <<>>
              /\ \E j \in 1 .. Len(d.of) :
                    /\ InDict(d) = ListHotels(d.of[j])
                    /\ \A l \in 1 .. Len(d.of) : l < j => ListHotels(d.of[l]) = <<>>
  <1> DEFINE f == [i \in 1 .. Len(d.of) |-> ListHotels(d.of[i])]
  <1>1. f = [i \in 1 .. Len(d.of) |-> f[i]] /\ \A i \in 1 .. Len(d.of) : f[i] = ListHotels(d.of[i])
    OBVIOUS
  <1>2. InDict(d) = FirstOf(f) /\ Len(d.of) \in Nat
    BY SeqFacts DEF InDict
  <1> HIDE DEF f
  <1>3. Len(f) = Len(d.of) /\ Firstly(InDict(d), f)
    BY <1>1, <1>2, FcnSeq
  <1>4. QED BY <1>1, <1>3 DEF Firstly

LEMMA TwoDeepIs ==
    ASSUME NEW d, IsSeq(d.of)
    PROVE  \/ TwoDeep(d) = <<>> /\ \A j \in 1 .. Len(d.of) : Inside(d.of[j]) = <<>>
           \/ /\ TwoDeep(d) # <<>>
              /\ \E j \in 1 .. Len(d.of) :
                    /\ TwoDeep(d) = Inside(d.of[j])
                    /\ \A l \in 1 .. Len(d.of) : l < j => Inside(d.of[l]) = <<>>
  <1> DEFINE f == [i \in 1 .. Len(d.of) |-> Inside(d.of[i])]
  <1>1. f = [i \in 1 .. Len(d.of) |-> f[i]] /\ \A i \in 1 .. Len(d.of) : f[i] = Inside(d.of[i])
    OBVIOUS
  <1>2. TwoDeep(d) = FirstOf(f) /\ Len(d.of) \in Nat
    BY SeqFacts DEF TwoDeep
  <1> HIDE DEF f
  <1>3. Len(f) = Len(d.of) /\ Firstly(TwoDeep(d), f)
    BY <1>1, <1>2, FcnSeq
  <1>4. QED BY <1>1, <1>3 DEF Firstly

\* Which values of the dict the places with hotels are in.
LEMMA FoundIn ==
    ASSUME NEW d, IsDict(d), NEW pre \in Seq(Nat), NEW q \in Found(d, pre)
    PROVE  /\ q.path \in Seq(Nat) /\ Begins(pre, q.path)
           /\ \E i \in 1 .. Len(d.of) :
                /\ Inside(d.of[i]) # <<>> /\ Begins(Append(pre, i), q.path)
                /\ \/ q = OneDown(d, pre, i) /\ d.of[i].k = "list"
                   \/ /\ d.of[i].k = "dict"
                      /\ \E j \in 1 .. Len(d.of[i].of) :
                            q = TwoDown(d, pre, i, j) /\ ListHotels(d.of[i].of[j]) # <<>>
  <1>1. q \in Places(d, pre) /\ HasHotels(q)
    BY DEF Found
  <1>2. PICK i \in 1 .. Len(d.of) :
             \/ q = OneDown(d, pre, i)
             \/ d.of[i].k = "dict" /\ \E j \in 1 .. Len(d.of[i].of) : q = TwoDown(d, pre, i, j)
    BY <1>1, PlacesAre
  <1>3. CASE q = OneDown(d, pre, i)
    <2>1. q.node = d.of[i] /\ q.path \in Seq(Nat) /\ Begins(Append(pre, i), q.path) /\ Begins(pre, q.path)
      BY <1>3, DownIs
    <2>2. d.of[i].k = "list" /\ Inside(d.of[i]) # <<>>
      BY <1>1, <2>1 DEF HasHotels, Inside, ListHotels
    <2>3. QED BY <1>3, <2>1, <2>2
  <1>4. CASE d.of[i].k = "dict" /\ \E j \in 1 .. Len(d.of[i].of) : q = TwoDown(d, pre, i, j)
    <2>1. PICK j \in 1 .. Len(d.of[i].of) : q = TwoDown(d, pre, i, j)
      BY <1>4
    <2>2. IsSeq(d.of[i].of) /\ j \in Nat
      BY <1>4, SeqFacts DEF IsDict
    <2>3. q.node = d.of[i].of[j] /\ q.path \in Seq(Nat) /\ Begins(Append(pre, i), q.path) /\ Begins(pre, q.path)
      BY <2>1, <2>2, TwoDownIs
    <2>4. ListHotels(d.of[i].of[j]) # <<>>
      BY <1>1, <2>3 DEF HasHotels, ListHotels
    <2>5. Inside(d.of[i]) # <<>>
      BY <1>4, <2>2, <2>4, InDictIs DEF Inside
    <2>6. QED BY <1>4, <2>1, <2>3, <2>4, <2>5
  <1>5. QED BY <1>2, <1>3, <1>4

\* The traversal of a dict comes to the first of those places first.
LEMMA FoundFirst ==
    ASSUME NEW d, IsDict(d), NEW pre \in Seq(Nat)
    PROVE  /\ TwoDeep(d) = <<>> => Found(d, pre) = {}
           /\ TwoDeep(d) # <<>> =>
                \E p \in Found(d, pre) : /\ Hotels(p.node) = TwoDeep(d)
                                         /\ \A q \in Found(d, pre) \ {p} : Before(p.path, q.path)
  <1>0. IsSeq(d.of) /\ Len(d.of) \in Nat /\ IsSeq(pre)
    BY SeqFacts, SeqIs DEF IsDict
  <1>1. ASSUME TwoDeep(d) = <<>> PROVE Found(d, pre) = {}
    <2>1. \A i \in 1 .. Len(d.of) : Inside(d.of[i]) = <<>>
      BY <1>0, <1>1, TwoDeepIs
    <2>2. QED BY <2>1, FoundIn
  <1>2. ASSUME TwoDeep(d) # <<>>
        PROVE  \E p \in Found(d, pre) : /\ Hotels(p.node) = TwoDeep(d)
                                        /\ \A q \in Found(d, pre) \ {p} : Before(p.path, q.path)
    <2>1. PICK i \in 1 .. Len(d.of) : /\ TwoDeep(d) = Inside(d.of[i])
                                      /\ \A l \in 1 .. Len(d.of) : l < i => Inside(d.of[l]) = <<>>
      BY <1>0, <1>2, TwoDeepIs
    <2>2. ASSUME NEW p, Begins(Append(pre, i), p.path), NEW q \in Found(d, pre),
                 NEW l \in 1 .. Len(d.of), l # i, Inside(d.of[l]) # <<>>, Begins(Append(pre, l), q.path)
          PROVE  Before(p.path, q.path)
      <3>1. i < l /\ i \in Nat /\ l \in Nat
        BY <1>0, <2>1, <2>2
      <3>2. QED BY <1>0, <2>2, <3>1, BeforeIs
    <2>3. CASE d.of[i].k = "dict"
      <3> DEFINE e == d.of[i]
      <3>1. IsSeq(e.of) /\ Len(e.of) \in Nat /\ Inside(e) = InDict(e) /\ InDict(e) # <<>>
        BY <1>2, <2>1, <2>3, SeqFacts DEF IsDict, Inside
      <3>2. PICK j \in 1 .. Len(e.of) : /\ InDict(e) = ListHotels(e.of[j])
                                        /\ \A l \in 1 .. Len(e.of) : l < j => ListHotels(e.of[l]) = <<>>
        BY <3>1, InDictIs
      <3> DEFINE p == TwoDown(d, pre, i, j)
      <3>3. j \in Nat /\ p.node = e.of[j] /\ p.path = Append(Append(pre, i), j) /\ Begins(Append(pre, i), p.path)
        <4>1. j \in Nat
          BY <3>1
        <4>2. QED BY <4>1, TwoDownIs
      <3>4. p \in Found(d, pre) /\ Hotels(p.node) = TwoDeep(d)
        <4>1. p \in Places(d, pre)
          BY <2>3, <3>2, PlacesAre
        <4>2. HasHotels(p) /\ Hotels(p.node) = TwoDeep(d)
          BY <2>1, <3>1, <3>2, <3>3 DEF HasHotels, ListHotels
        <4>3. QED BY <4>1, <4>2 DEF Found
      <3>5. ASSUME NEW q \in Found(d, pre), q # p PROVE Before(p.path, q.path)
        <4>1. PICK l \in 1 .. Len(d.of) :
                  /\ Inside(d.of[l]) # <<>> /\ Begins(Append(pre, l), q.path)
                  /\ \/ q = OneDown(d, pre, l) /\ d.of[l].k = "list"
                     \/ /\ d.of[l].k = "dict"
                        /\ \E m \in 1 .. Len(d.of[l].of) :
                              q = TwoDown(d, pre, l, m) /\ ListHotels(d.of[l].of[m]) # <<>>
          BY FoundIn
        <4>2. CASE l # i
          BY <2>2, <3>3, <4>1, <4>2
        <4>3. CASE l = i
          <5>1. PICK m \in 1 .. Len(e.of) : q = TwoDown(d, pre, i, m) /\ ListHotels(e.of[m]) # <<>>
            BY <2>3, <4>1, <4>3
          <5>2. m \in Nat /\ m # j /\ ~(m < j)
            BY <3>1, <3>2, <3>5, <5>1
          <5>3. j < m
            BY <3>3, <5>2
          <5>4. q.path = Append(Append(pre, i), m)
            BY <5>1, <5>2, TwoDownIs
          <5> DEFINE a == Append(pre, i)
          <5>5. IsSeq(a)
            BY <1>0, AppendIs
          <5> HIDE DEF a
          <5>6. Begins(Append(a, j), Append(a, j)) /\ Begins(Append(a, m), Append(a, m))
            BY <5>5, AppendIs, BeginsItself
          <5>7. Before(Append(a, j), Append(a, m))
            BY <3>3, <5>2, <5>3, <5>5, <5>6, BeforeIs
          <5>8. QED BY <3>3, <5>4, <5>7 DEF a
        <4>4. QED BY <4>2, <4>3
      <3> HIDE DEF p
      <3>6. QED BY <3>4, <3>5
    <2>4. CASE d.of[i].k # "dict"
      <3> DEFINE p == OneDown(d, pre, i)
      <3>1. d.of[i].k = "list" /\ Hotels(d.of[i]) = TwoDeep(d)
        BY <1>2, <2>1, <2>4 DEF Inside, ListHotels
      <3>2. p.node = d.of[i] /\ Begins(Append(pre, i), p.path)
        BY DownIs
      <3>3. p \in Found(d, pre)
        <4>1. p \in Places(d, pre)
          BY PlacesAre
        <4>2. QED BY <1>2, <3>1, <3>2, <4>1 DEF Found, HasHotels
      <3>4. ASSUME NEW q \in Found(d, pre), q # p PROVE Before(p.path, q.path)
        <4>1. PICK l \in 1 .. Len(d.of) :
                  /\ Inside(d.of[l]) # <<>> /\ Begins(Append(pre, l), q.path)
                  /\ (q = OneDown(d, pre, l) \/ d.of[l].k = "dict")
          BY FoundIn
        <4>2. l # i
          BY <2>4, <3>4, <4>1
        <4>3. QED BY <2>2, <3>2, <4>1, <4>2
      <3> HIDE DEF p
      <3>5. QED BY <3>1, <3>2, <3>3, <3>4
    <2>5. QED BY <2>3, <2>4
  <1>3. QED BY <1>1, <1>2

-----------------------------------------------------------------------------
(* What is read of a payload, and what the reference finds.                *)

\* What the extractor makes of a value that is unwrapped.
ReadList(v) == FirstOf([k \in 1 .. Len(v.of) |-> IF v.of[k].k = "dict" THEN TwoDeep(v.of[k]) ELSE <<>>])
Read(v) ==
    CASE v.k = "list" -> IF Hotels(v) # <<>> THEN Hotels(v) ELSE ReadList(v)
      [] IsHotelLike(v) -> <<v>>
      [] v.k = "dict" /\ ~IsHotelLike(v) -> TwoDeep(v)
      [] OTHER -> <<>>
\* A value whose dicts can be looked into.
Looked(v) == /\ IsSeq(v.of)
             /\ \A i \in 1 .. Len(v.of) :
                    v.of[i].k = "dict" =>
                      /\ IsSeq(v.of[i].of)
                      /\ v.k = "list" => IsDict(v.of[i])

LEMMA PayloadIs ==
    ASSUME NEW v, IsPayload(v)
    PROVE  /\ Looked(v) /\ v.k \in {"null", "text", "list", "dict"}
           /\ v.k = "list" /\ v.of # <<>> => \E i \in 1 .. Len(v.of) : v.of[i].k # "block"
  <1>1. /\ \A x \in {v} \cup Items({v}) \cup Items(Items({v})) : IsSeq(x.of) /\ IsNode(x)
        /\ v.k \notin {"json", "block"}
        /\ v.k = "list" /\ v.of # <<>> => \E i \in DOMAIN v.of : v.of[i].k # "block"
    BY DEF IsPayload, IsNode, IsSeq
  <1>2. v.k \in {"null", "text", "list", "dict"} /\ IsSeq(v.of) /\ DOMAIN v.of = 1 .. Len(v.of)
    BY <1>1, SeqFacts DEF IsNode
  <1>3. ASSUME NEW i \in 1 .. Len(v.of)
        PROVE  /\ IsSeq(v.of[i].of)
               /\ \A j \in 1 .. Len(v.of[i].of) : IsSeq(v.of[i].of[j].of)
    <2>1. v.of[i] \in Items({v})
      BY <1>2 DEF Items, Range
    <2>2. IsSeq(v.of[i].of)
      BY <1>1, <2>1
    <2>3. ASSUME NEW j \in 1 .. Len(v.of[i].of) PROVE v.of[i].of[j] \in Items(Items({v}))
      <3>1. v.of[i].of[j] \in Range(v.of[i].of)
        BY <2>2, SeqFacts DEF Range
      <3>2. QED BY <2>1, <3>1 DEF Items
    <2>4. QED BY <1>1, <2>2, <2>3
  <1>4. QED BY <1>1, <1>2, <1>3 DEF Looked, IsDict

LEMMA ListsOfDict ==
    ASSUME NEW v, v.k # "list"
    PROVE  {p \in ListsIn(v) : Hotels(p.node) # <<>>} = IF v.k = "dict" THEN Found(v, <<>>) ELSE {}
  <1> DEFINE T == Place(<<>>, v)  outer == InDicts({T})
  <1>1. Top(v) = T /\ T.node = v
    BY DEF Top, Place
  <1>2. ListsIn(v) = {p \in {T} \cup outer \cup InDicts(outer) : p.node.k = "list"}
    BY <1>1 DEF ListsIn
  <1>3. CASE v.k = "dict"
    <2>1. Found(v, <<>>) = {p \in outer \cup InDicts(outer) : p.node.k = "list" /\ Hotels(p.node) # <<>>}
      BY DEF Found, HasHotels, Places
    <2> HIDE DEF T, outer
    <2>2. QED BY <1>1, <1>2, <1>3, <2>1
  <1>4. CASE v.k # "dict"
    <2>1. outer = {}
      <3> HIDE DEF T
      <3>1. \A q : q \notin InDicts({T})
        BY <1>1, <1>4, InDictsIs
      <3>2. QED BY <3>1
    <2>2. InDicts(outer) = {}
      <3> HIDE DEF outer
      <3>1. \A q : q \notin InDicts(outer)
        BY <2>1, InDictsIs
      <3>2. QED BY <3>1
    <2> HIDE DEF T, outer
    <2>3. QED BY <1>1, <1>2, <1>4, <2>1, <2>2
  <1>5. QED BY <1>3, <1>4

LEMMA ListsOfList ==
    ASSUME NEW v, v.k = "list", IsSeq(v.of), NEW q
    PROVE  q \in ListsIn(v) /\ Hotels(q.node) # <<>> <=>
              \/ q = Place(<<>>, v) /\ Hotels(v) # <<>>
              \/ \E k \in 1 .. Len(v.of) : v.of[k].k = "dict" /\ q \in Found(v.of[k], Append(<<>>, k))
  <1> DEFINE T == Place(<<>>, v)  S == Within({Top(v)})  outer == InDicts(S)
             P(k) == Place(Append(<<>>, k), v.of[k])
  <1>1. Top(v) = T /\ T.node = v /\ T.path = <<>>
    BY DEF Top, Place
  <1>2. ListsIn(v) = {p \in {T} \cup outer \cup InDicts(outer) : p.node.k = "list"}
    BY <1>1 DEF ListsIn
  <1>3. \A x : x \in S <=> \E k \in 1 .. Len(v.of) : x = P(k)
    <2>1. DOMAIN v.of = 1 .. Len(v.of)
      BY SeqFacts
    <2>2. \A k : Under(T, k) = P(k)
      BY <1>1 DEF Under, Place
    <2>3. Within({T}) = {Under(T, k) : k \in DOMAIN T.node.of}
      <3> HIDE DEF T
      <3>1. QED BY DEF Within
    <2>4. S = Within({T})
      BY <1>1
    <2> HIDE DEF T, P, S
    <2>5. QED BY <1>1, <2>1, <2>2, <2>3, <2>4
  <1>4. \A k : P(k).node = v.of[k]
    BY DEF Place
  <1> HIDE DEF P, T, S
  <1>5. ASSUME NEW x PROVE x \in outer <=> \E k \in 1 .. Len(v.of) : v.of[k].k = "dict" /\ x \in InDicts({P(k)})
    <2>1. x \in InDicts(S) <=>
            \E p \in S : p.node.k = "dict" /\ \E i \in DOMAIN p.node.of : x = Place(Append(p.path, i), p.node.of[i])
      BY InDictsIs
    <2>2. ASSUME NEW k
          PROVE  x \in InDicts({P(k)}) <=>
                   P(k).node.k = "dict" /\ \E i \in DOMAIN P(k).node.of : x = Place(Append(P(k).path, i), P(k).node.of[i])
      BY InDictsIs
    <2>3. ASSUME x \in outer PROVE \E k \in 1 .. Len(v.of) : v.of[k].k = "dict" /\ x \in InDicts({P(k)})
      <3>1. PICK p \in S : p.node.k = "dict" /\ \E i \in DOMAIN p.node.of : x = Place(Append(p.path, i), p.node.of[i])
        BY <2>1, <2>3
      <3>2. PICK k \in 1 .. Len(v.of) : p = P(k)
        BY <1>3
      <3>3. QED BY <1>4, <2>2, <3>1, <3>2
    <2>4. ASSUME NEW k \in 1 .. Len(v.of), v.of[k].k = "dict", x \in InDicts({P(k)}) PROVE x \in outer
      <3>1. P(k) \in S
        BY <1>3
      <3>2. QED BY <2>1, <2>2, <2>4, <3>1
    <2>5. QED BY <2>3, <2>4
  <1> HIDE DEF outer
  <1>6. q \in InDicts(outer) <=> \E k \in 1 .. Len(v.of) : v.of[k].k = "dict" /\ q \in InDicts(InDicts({P(k)}))
    <2>1. q \in InDicts(outer) <=>
            \E p \in outer : p.node.k = "dict" /\ \E i \in DOMAIN p.node.of : q = Place(Append(p.path, i), p.node.of[i])
      BY InDictsIs
    <2>2. \A k : q \in InDicts(InDicts({P(k)})) <=>
            \E p \in InDicts({P(k)}) :
               p.node.k = "dict" /\ \E i \in DOMAIN p.node.of : q = Place(Append(p.path, i), p.node.of[i])
      BY InDictsIs
    <2>3. QED BY <1>5, <2>1, <2>2
  <1>7. \A k : q \in Found(v.of[k], Append(<<>>, k)) <=>
            /\ q \in InDicts({P(k)}) \/ q \in InDicts(InDicts({P(k)}))
            /\ q.node.k = "list" /\ Hotels(q.node) # <<>>
    BY DEF Found, Places, HasHotels, P
  <1>8. q \in ListsIn(v) <=> (q = T \/ q \in outer \/ q \in InDicts(outer)) /\ q.node.k = "list"
    BY <1>2
  <1>9. q = T => q.node = v
    BY <1>1
  <1>10. QED BY <1>5, <1>6, <1>7, <1>8, <1>9 DEF T

LEMMA ReadListIs ==
    ASSUME NEW v, IsSeq(v.of)
    PROVE  \/ /\ ReadList(v) = <<>>
              /\ \A k \in 1 .. Len(v.of) : v.of[k].k = "dict" => TwoDeep(v.of[k]) = <<>>
           \/ /\ ReadList(v) # <<>>
              /\ \E k \in 1 .. Len(v.of) :
                    /\ v.of[k].k = "dict" /\ ReadList(v) = TwoDeep(v.of[k])
                    /\ \A l \in 1 .. Len(v.of) : l < k /\ v.of[l].k = "dict" => TwoDeep(v.of[l]) = <<>>
  <1> DEFINE f == [k \in 1 .. Len(v.of) |-> IF v.of[k].k = "dict" THEN TwoDeep(v.of[k]) ELSE <<>>]
  <1>1. /\ f = [i \in 1 .. Len(v.of) |-> f[i]]
        /\ \A i \in 1 .. Len(v.of) : f[i] = IF v.of[i].k = "dict" THEN TwoDeep(v.of[i]) ELSE <<>>
    OBVIOUS
  <1>2. ReadList(v) = FirstOf(f) /\ Len(v.of) \in Nat
    BY SeqFacts DEF ReadList
  <1> HIDE DEF f
  <1>3. Len(f) = Len(v.of) /\ Firstly(ReadList(v), f)
    BY <1>1, <1>2, FcnSeq
  <1>4. CASE \A i \in 1 .. Len(f) : f[i] = <<>>
    BY <1>1, <1>3, <1>4 DEF Firstly
  <1>5. CASE \E i \in 1 .. Len(f) : ReadList(v) = f[i] /\ f[i] # <<>> /\ \A j \in 1 .. Len(f) : j < i => f[j] = <<>>
    <2>1. PICK i \in 1 .. Len(f) : ReadList(v) = f[i] /\ f[i] # <<>> /\ \A j \in 1 .. Len(f) : j < i => f[j] = <<>>
      BY <1>5
    <2>2. QED BY <1>1, <1>3, <2>1
  <1>6. QED BY <1>3, <1>4, <1>5 DEF Firstly

\* The reference finds the hotels that the extractor finds.
LEMMA ReferenceIs ==
    ASSUME NEW v, Looked(v), v.k \in {"null", "text", "list", "dict"}
    PROVE  HotelsIn(v) = Read(v)
  <1> DEFINE found == {p \in ListsIn(v) : Hotels(p.node) # <<>>}
             First(p) == \A q \in found \ {p} : Before(p.path, q.path)
  <1>0. IsSeq(v.of) /\ Len(v.of) \in Nat /\ <<>> \in Seq(Nat)
    BY SeqFacts DEF Looked
  <1>1. ASSUME ~IsHotelLike(v), found = {} PROVE HotelsIn(v) = <<>>
    BY <1>1 DEF HotelsIn
  <1>2. ASSUME ~IsHotelLike(v), NEW p \in found, \A q \in found : q.path \in Seq(Nat), First(p)
        PROVE  HotelsIn(v) = Hotels(p.node)
    <2>1. HotelsIn(v) = Hotels((CHOOSE x \in found : \A q \in found \ {x} : Before(x.path, q.path)).node)
      BY <1>2 DEF HotelsIn
    <2> HIDE DEF found
    <2>2. (CHOOSE x \in found : \A q \in found \ {x} : Before(x.path, q.path)) = p
      BY <1>2, FirstPlace
    <2>3. QED BY <2>1, <2>2
  <1> HIDE DEF found
  <1>3. CASE v.k # "list" /\ IsHotelLike(v)
    BY <1>3 DEF HotelsIn, Read
  <1>4. CASE v.k # "list" /\ v.k # "dict"
    <2>1. ~IsHotelLike(v) /\ found = {}
      BY <1>4, ListsOfDict DEF IsHotelLike, found
    <2>2. QED BY <1>1, <1>4, <2>1 DEF Read
  <1>5. CASE v.k = "dict" /\ ~IsHotelLike(v)
    <2>1. found = Found(v, <<>>) /\ IsDict(v) /\ Read(v) = TwoDeep(v)
      BY <1>5, ListsOfDict DEF found, Looked, IsDict, Read
    <2>2. CASE TwoDeep(v) = <<>>
      BY <1>0, <1>1, <1>5, <2>1, <2>2, FoundFirst
    <2>3. CASE TwoDeep(v) # <<>>
      <3>1. PICK p \in found : Hotels(p.node) = TwoDeep(v) /\ First(p)
        BY <1>0, <2>1, <2>3, FoundFirst
      <3>2. \A q \in found : q.path \in Seq(Nat)
        BY <1>0, <2>1, FoundIn
      <3>3. QED BY <1>2, <1>5, <2>1, <3>1, <3>2
    <2>4. QED BY <2>2, <2>3
  <1>6. CASE v.k = "list"
    <2> DEFINE pre(k) == Append(<<>>, k)
    <2>1. \A q : q \in found <=>
                \/ q = Place(<<>>, v) /\ Hotels(v) # <<>>
                \/ \E k \in 1 .. Len(v.of) : v.of[k].k = "dict" /\ q \in Found(v.of[k], pre(k))
      <3>1. \A q : q \in found <=> q \in ListsIn(v) /\ Hotels(q.node) # <<>>
        BY DEF found
      <3>2. QED BY <1>0, <1>6, <3>1, ListsOfList
    <2>2. Place(<<>>, v).path = <<>> /\ Place(<<>>, v).node = v /\ ~IsHotelLike(v)
      BY <1>6 DEF Place, IsHotelLike
    <2>3. Read(v) = IF Hotels(v) # <<>> THEN Hotels(v) ELSE ReadList(v)
      BY <1>6, <2>2 DEF Read
    <2>4. ASSUME NEW k \in 1 .. Len(v.of), v.of[k].k = "dict"
          PROVE  /\ IsDict(v.of[k]) /\ k \in Nat /\ pre(k) \in Seq(Nat)
                 /\ \A q \in Found(v.of[k], pre(k)) : q.path \in Seq(Nat) /\ Begins(pre(k), q.path)
      <3>1. IsDict(v.of[k]) /\ k \in Nat /\ pre(k) \in Seq(Nat)
        BY <1>0, <1>6, <2>4 DEF Looked
      <3> HIDE DEF pre
      <3>2. QED BY <3>1, FoundIn
    <2> HIDE DEF pre
    <2>5. \A q \in found : q.path \in Seq(Nat)
      BY <1>0, <2>1, <2>2, <2>4
    <2>6. CASE Hotels(v) # <<>>
      <3> DEFINE p == Place(<<>>, v)
      <3>1. p \in found
        BY <2>1, <2>6
      <3>2. ASSUME NEW q \in found, q # p PROVE Before(p.path, q.path)
        <4>1. PICK k \in 1 .. Len(v.of) : v.of[k].k = "dict" /\ q \in Found(v.of[k], pre(k))
          BY <2>1, <3>2
        <4>2. Begins(pre(k), q.path) /\ k \in Nat
          BY <2>4, <4>1
        <4>3. Len(pre(k)) = 1
          BY <4>2, AppendIs, EmptyIs DEF pre
        <4>4. IsSeq(q.path) /\ 1 <= Len(q.path)
          BY <4>2, <4>3 DEF Begins
        <4>5. 1 \in DOMAIN q.path
          BY <4>4, SeqFacts
        <4>6. Before(<<>>, q.path)
          BY <4>5 DEF Before
        <4>7. QED BY <2>2, <4>6
      <3> HIDE DEF p
      <3>3. HotelsIn(v) = Hotels(p.node)
        BY <1>2, <2>2, <2>5, <3>1, <3>2
      <3>4. QED BY <2>2, <2>3, <2>6, <3>3 DEF p
    <2>7. CASE Hotels(v) = <<>> /\ ReadList(v) = <<>>
      <3>1. \A k \in 1 .. Len(v.of) : v.of[k].k = "dict" => TwoDeep(v.of[k]) = <<>>
        BY <1>0, <2>7, ReadListIs
      <3>2. \A k \in 1 .. Len(v.of) : v.of[k].k = "dict" => Found(v.of[k], pre(k)) = {}
        BY <2>4, <3>1, FoundFirst
      <3>3. found = {}
        BY <2>1, <2>7, <3>2
      <3>4. QED BY <1>1, <2>2, <2>3, <2>7, <3>3
    <2>8. CASE Hotels(v) = <<>> /\ ReadList(v) # <<>>
      <3>1. PICK k \in 1 .. Len(v.of) :
                 /\ v.of[k].k = "dict" /\ ReadList(v) = TwoDeep(v.of[k])
                 /\ \A l \in 1 .. Len(v.of) : l < k /\ v.of[l].k = "dict" => TwoDeep(v.of[l]) = <<>>
        BY <1>0, <2>8, ReadListIs
      <3>2. PICK p \in Found(v.of[k], pre(k)) :
                 /\ Hotels(p.node) = TwoDeep(v.of[k])
                 /\ \A q \in Found(v.of[k], pre(k)) \ {p} : Before(p.path, q.path)
        BY <2>4, <2>8, <3>1, FoundFirst
      <3>3. p \in found
        BY <2>1, <3>1, <3>2
      <3>4. ASSUME NEW q \in found, q # p PROVE Before(p.path, q.path)
        <4>1. PICK l \in 1 .. Len(v.of) : v.of[l].k = "dict" /\ q \in Found(v.of[l], pre(l))
          BY <2>1, <2>8
        <4>2. CASE l = k
          BY <3>2, <3>4, <4>1, <4>2
        <4>3. CASE l # k
          <5>1. TwoDeep(v.of[l]) # <<>>
            BY <2>4, <4>1, FoundFirst
          <5>2. k < l /\ k \in Nat /\ l \in Nat
            BY <1>0, <3>1, <4>1, <4>3, <5>1
          <5>3. Begins(pre(k), p.path) /\ Begins(pre(l), q.path)
            BY <2>4, <3>1, <3>2, <4>1
          <5>4. QED BY <5>2, <5>3, BeforeIs, EmptyIs DEF pre
        <4>4. QED BY <4>2, <4>3
      <3>5. HotelsIn(v) = Hotels(p.node)
        BY <1>2, <2>2, <2>5, <3>3, <3>4
      <3>6. QED BY <2>3, <2>8, <3>1, <3>2, <3>5
    <2>9. QED BY <2>6, <2>7, <2>8
  <1>7. QED BY <1>3, <1>4, <1>5, <1>6

-----------------------------------------------------------------------------
(* Wrapping.                                                               *)

LEMMA Nodes ==
    ASSUME NEW v
    PROVE  /\ Json(v).k = "json" /\ Json(v).of[1] = v
           /\ Block(v).k = "block" /\ Block(v).of[1] = v /\ Block(v).of = <<v>>
           /\ List(v).k = "list" /\ List(v).of = v
           /\ Null.k = "null" /\ Null.of = <<>> /\ Plain.k = "text"
  BY DEF Json, Block, List, Null, Plain

LEMMA HotelsIs ==
    ASSUME NEW v, IsSeq(v.of)
    PROVE  Hotels(v) = FlattenSeq(Kept(v.of, {i \in 1 .. Len(v.of) : IsHotelLike(v.of[i])}))
  <1> DEFINE K == {i \in 1 .. Len(v.of) : IsHotelLike(v.of[i])}
  <1>1. DOMAIN v.of = 1 .. Len(v.of)
    BY SeqFacts
  <1>2. [i \in DOMAIN v.of |-> IF IsHotelLike(v.of[i]) THEN <<v.of[i]>> ELSE <<>>] = Kept(v.of, K)
    BY <1>1 DEF Kept
  <1>3. QED BY <1>2 DEF Hotels, Only

LEMMA NoHotels ==
    ASSUME NEW v, IsSeq(v.of), \A i \in 1 .. Len(v.of) : ~IsHotelLike(v.of[i])
    PROVE  Hotels(v) = <<>>
  <1> DEFINE K == {i \in 1 .. Len(v.of) : IsHotelLike(v.of[i])}  h == FlattenSeq(Kept(v.of, K))
  <1>1. Hotels(v) = h
    BY HotelsIs
  <1>2. K = {}
    OBVIOUS
  <1> HIDE DEF K
  <1>3. IsSeq(h) /\ \A i \in 1 .. Len(h) : \E k \in 1 .. Len(v.of) : k \in K /\ h[i] = v.of[k]
    <2>1. IsSeq(h)
      BY KeptIs
    <2>2. \A i \in 1 .. Len(h) : \E k \in 1 .. Len(v.of) : k \in K /\ h[i] = v.of[k]
      BY KeptElements
    <2>3. QED BY <2>1, <2>2
  <1> HIDE DEF h
  <1>4. Len(h) \in Nat /\ ~(1 \in 1 .. Len(h))
    BY <1>2, <1>3, SeqFacts
  <1>5. QED BY <1>1, <1>3, <1>4, EmptyIs

LEMMA OneHotel ==
    ASSUME NEW p
    PROVE  Hotels(List(<<p>>)) = IF IsHotelLike(p) THEN <<p>> ELSE <<>>
  <1> DEFINE v == List(<<p>>)
  <1>1. v.of = <<p>> /\ IsSeq(v.of) /\ Len(v.of) = 1 /\ v.of[1] = p
    BY Nodes, SingleIs
  <1> HIDE DEF v
  <1>2. CASE IsHotelLike(p)
    <2> DEFINE K == {i \in 1 .. Len(v.of) : IsHotelLike(v.of[i])}  kk == Kept(v.of, K)
    <2>1. K = {1}
      BY <1>1, <1>2
    <2>2. Hotels(v) = FlattenSeq(kk)
      BY <1>1, HotelsIs
    <2> HIDE DEF K
    <2>3. IsSeq(kk) /\ Len(kk) = 1 /\ kk[1] = <<p>>
      BY <1>1, <2>1, KeptIs
    <2> HIDE DEF kk
    <2>4. kk # <<>> /\ IsSeq(<<p>>) /\ \A i \in 1 .. Len(kk) - 1 : kk[i] = <<>>
      BY <2>3, EmptyIs, SingleIs
    <2>5. FlattenSeq(kk) = <<p>>
      BY <2>3, <2>4, FlattenLast
    <2>6. QED BY <1>2, <2>2, <2>5 DEF v
  <1>3. CASE ~IsHotelLike(p)
    BY <1>1, <1>3, NoHotels DEF v
  <1>4. QED BY <1>2, <1>3

\* What is unwrapped of a payload; all that is read of it is read of that.
Unwrapped(payload) ==
    UnwrapMcpTextBlocks(IF IsString(payload) THEN EnsureParsed(payload) ELSE payload)

LEMMA ExtractIs ==
    ASSUME NEW payload, Looked(Unwrapped(payload))
    PROVE  Extract(payload) = Read(Unwrapped(payload))
  <1> DEFINE v == Unwrapped(payload)
  <1>1. IsSeq(v.of) /\ Looked(v)
    BY DEF Looked
  <1>2. Extract(payload) =
           CASE v.k = "list" /\ Hotels(v) # <<>> -> Hotels(v)
             [] v.k = "list" /\ Hotels(v) = <<>> ->
                   FirstHotels(FlattenSeq([i \in DOMAIN Only(v.of, LAMBDA x : x.k = "dict") |->
                                              WalkLists(Only(v.of, LAMBDA x : x.k = "dict")[i])]))
             [] IsHotelLike(v) -> <<v>>
             [] OTHER -> FirstHotels(WalkLists(v))
    BY DEF Extract, Unwrapped
  <1> HIDE DEF v
  <1>3. CASE v.k = "list"
    <2>1. ~IsHotelLike(v)
      BY <1>3 DEF IsHotelLike
    <2>2. CASE Hotels(v) # <<>>
      <3>1. Extract(payload) = Hotels(v)
        BY <1>2, <1>3, <2>1, <2>2
      <3>2. Read(v) = Hotels(v)
        BY <1>3, <2>1, <2>2 DEF Read
      <3>3. QED BY <3>1, <3>2 DEF v
    <2>3. CASE Hotels(v) = <<>>
      <3> DEFINE dicts == Only(v.of, LAMBDA x : x.k = "dict")
                 r == FirstHotels(FlattenSeq([i \in DOMAIN dicts |-> WalkLists(dicts[i])]))
      <3>1. Extract(payload) = r
        BY <1>2, <1>3, <2>1, <2>3
      <3>2. r = ReadList(v)
        <4>1. \A k \in 1 .. Len(v.of) : v.of[k].k = "dict" =>
                  /\ IsSeq(v.of[k].of)
                  /\ \A i \in 1 .. Len(v.of[k].of) : v.of[k].of[i].k = "dict" => IsSeq(v.of[k].of[i].of)
          BY <1>1, <1>3 DEF Looked, IsDict
        <4> DEFINE s == v.of
        <4>2. IsSeq(s) /\ \A k \in 1 .. Len(s) : s[k].k = "dict" =>
                  /\ IsSeq(s[k].of)
                  /\ \A i \in 1 .. Len(s[k].of) : s[k].of[i].k = "dict" => IsSeq(s[k].of[i].of)
          BY <1>1, <4>1
        <4>3. ReadList(v) = FirstOf([k \in 1 .. Len(s) |-> IF s[k].k = "dict" THEN TwoDeep(s[k]) ELSE <<>>])
          BY DEF ReadList
        <4> HIDE DEF s
        <4>4. FirstHotels(FlattenSeq([i \in DOMAIN Only(s, LAMBDA x : x.k = "dict") |->
                                         WalkLists(Only(s, LAMBDA x : x.k = "dict")[i])]))
                = FirstOf([k \in 1 .. Len(s) |-> IF s[k].k = "dict" THEN TwoDeep(s[k]) ELSE <<>>])
          BY <4>2, DictsRead
        <4>5. QED BY <4>3, <4>4 DEF s
      <3> HIDE DEF r
      <3>3. Read(v) = ReadList(v)
        BY <1>3, <2>1, <2>3 DEF Read
      <3>4. QED BY <3>1, <3>2, <3>3 DEF v
    <2>4. QED BY <2>2, <2>3
  <1>4. CASE v.k = "dict"
    <2>1. CASE IsHotelLike(v)
      <3>1. Extract(payload) = <<v>>
        BY <1>2, <1>4, <2>1
      <3>2. Read(v) = <<v>>
        BY <1>4, <2>1 DEF Read
      <3>3. QED BY <3>1, <3>2 DEF v
    <2>2. CASE ~IsHotelLike(v)
      <3>1. Extract(payload) = FirstHotels(WalkLists(v))
        BY <1>2, <1>4, <2>2
      <3>2. FirstHotels(WalkLists(v)) = TwoDeep(v)
        BY <1>1, <1>4, WalkOfDict DEF Looked
      <3>3. Read(v) = TwoDeep(v)
        BY <1>4, <2>2 DEF Read
      <3>4. QED BY <3>1, <3>2, <3>3 DEF v
    <2>3. QED BY <2>1, <2>2
  <1>5. CASE v.k \notin {"list", "dict"}
    <2>1. ~IsHotelLike(v)
      BY <1>5 DEF IsHotelLike
    <2>2. Extract(payload) = FirstHotels(WalkLists(v)) /\ Read(v) = <<>>
      BY <1>2, <1>5, <2>1 DEF Read
    <2>3. Opened(Opened(<<v>>)) = <<v>>
      BY <1>5, OpenedOne
    <2> DEFINE o == <<v>>  K == {i \in 1 .. Len(o) : o[i].k = "list"}  kk == Kept(o, K)
    <2>4. IsSeq(o) /\ Len(o) = 1 /\ o[1] = v
      BY SingleIs
    <2>5. WalkLists(v) = FlattenSeq(kk)
      <3>1. WalkLists(v) = FlattenSeq(Kept(Opened(Opened(<<v>>)),
               {i \in 1 .. Len(Opened(Opened(<<v>>))) : Opened(Opened(<<v>>))[i].k = "list"}))
        BY <1>1, <1>5, WalkIs DEF Looked
      <3>2. QED BY <2>3, <3>1
    <2> HIDE DEF o
    <2>6. 1 \notin K
      BY <1>5, <2>4
    <2> HIDE DEF K
    <2>7. IsSeq(kk) /\ Len(kk) = 1 /\ kk[1] = <<>>
      <3>1. /\ IsSeq(kk) /\ Len(kk) = Len(o)
            /\ \A i \in 1 .. Len(o) : kk[i] = IF i \in K THEN <<o[i]>> ELSE <<>>
        BY <2>4, KeptIs
      <3> HIDE DEF kk
      <3>2. QED BY <2>4, <2>6, <3>1
    <2> HIDE DEF kk
    <2>8. kk # <<>> /\ \A i \in 1 .. Len(kk) - 1 : kk[i] = <<>>
      BY <2>7, EmptyIs
    <2>9. FlattenSeq(kk) = <<>>
      BY <2>7, <2>8, EmptyIs, FlattenLast
    <2>10. FirstHotels(<<>>) = <<>>
      <3>1. [i \in DOMAIN <<>> |-> Hotels(<<>>[i])] = <<>>
        OBVIOUS
      <3>2. QED BY <3>1, FirstOfNone DEF FirstHotels
    <2>11. QED BY <2>2, <2>5, <2>9, <2>10 DEF v
  <1>6. QED BY <1>3, <1>4, <1>5

LEMMA NothingWrapped ==
    ASSUME NEW p, IsPayload(p)
    PROVE  UnwrapMcpTextBlocks(p) = p
  <1> DEFINE items == FlattenSeq([i \in DOMAIN p.of |-> BlockItems(p.of[i])])
             AllBlocks == \A i \in DOMAIN p.of : p.of[i].k = "block"
  <1>1. /\ p.k # "block" /\ DOMAIN p.of = 1 .. Len(p.of)
        /\ p.k = "list" /\ p.of # <<>> => \E i \in 1 .. Len(p.of) : p.of[i].k # "block"
    BY PayloadIs, SeqFacts DEF Looked
  <1>2. UnwrapMcpTextBlocks(p) = CASE p.k = "block" -> IF EnsureParsed(p.of[1]) = Null THEN p ELSE EnsureParsed(p.of[1])
                                   [] p.k = "list" /\ AllBlocks /\ items # <<>> -> List(items)
                                   [] OTHER -> p
    BY DEF UnwrapMcpTextBlocks
  <1>3. ~(p.k = "list" /\ AllBlocks /\ items # <<>>)
    <2>1. CASE p.of = <<>>
      <3>1. [i \in DOMAIN <<>> |-> BlockItems(<<>>[i])] = <<>>
        OBVIOUS
      <3>2. items = <<>>
        BY <2>1, <3>1, FlattenEmpty
      <3>3. QED BY <3>2
    <2>2. CASE p.of # <<>>
      BY <1>1, <2>2
    <2>3. QED BY <2>1, <2>2
  <1> HIDE DEF items, AllBlocks
  <1>4. QED BY <1>1, <1>2, <1>3

\* What one block holds.
LEMMA BlockHolds ==
    ASSUME NEW p
    PROVE  /\ BlockItems(Block(Plain)) = <<>>
           /\ BlockItems(Block(Json(p))) = IF p.k = "list" THEN p.of ELSE IF p = Null THEN <<>> ELSE <<p>>
  <1>1. EnsureParsed(Plain) = Null /\ EnsureParsed(Json(p)) = p
    BY Nodes DEF EnsureParsed
  <1>2. Block(Plain).of[1] = Plain /\ Block(Json(p)).of[1] = Json(p) /\ Null.k # "list"
    BY Nodes
  <1>3. BlockItems(Block(Plain)) = <<>>
    BY <1>1, <1>2 DEF BlockItems
  <1>4. BlockItems(Block(Json(p))) = CASE p.k = "list" -> p.of [] p = Null -> <<>> [] OTHER -> <<p>>
    BY <1>1, <1>2 DEF BlockItems
  <1>5. QED BY <1>2, <1>3, <1>4

\* A list is read by its items.
LEMMA ListReads ==
    ASSUME NEW p, p.k = "list"
    PROVE  Read(List(p.of)) = Read(p) /\ (Looked(p) => Looked(List(p.of)))
  <1> DEFINE v == List(p.of)
  <1>1. v.k = "list" /\ v.of = p.of
    BY Nodes
  <1> HIDE DEF v
  <1>2. Hotels(v) = Hotels(p) /\ ReadList(v) = ReadList(p)
    BY <1>1 DEF Hotels, ReadList
  <1>3. ~IsHotelLike(v) /\ ~IsHotelLike(p)
    BY <1>1 DEF IsHotelLike
  <1>4. Read(v) = Read(p)
    BY <1>1, <1>2, <1>3 DEF Read
  <1>5. Looked(p) => Looked(v)
    BY <1>1 DEF Looked
  <1>6. QED BY <1>4, <1>5 DEF v

\* A list without a dict is read in vain, and a list of one thing as that thing.
LEMMA NothingReads ==
    ASSUME NEW v, IsSeq(v.of), v.k = "list", \A i \in 1 .. Len(v.of) : v.of[i].k # "dict"
    PROVE  Read(v) = <<>> /\ Looked(v)
  <1>1. \A i \in 1 .. Len(v.of) : ~IsHotelLike(v.of[i])
    BY DEF IsHotelLike
  <1>2. Hotels(v) = <<>>
    BY <1>1, NoHotels
  <1>3. ReadList(v) = <<>>
    BY ReadListIs
  <1>4. ~IsHotelLike(v)
    BY DEF IsHotelLike
  <1>5. QED BY <1>2, <1>3, <1>4 DEF Read, Looked

LEMMA OneReads ==
    ASSUME NEW p, Looked(p), p.k # "list"
    PROVE  Read(List(<<p>>)) = Read(p) /\ Looked(List(<<p>>))
  <1> DEFINE v == List(<<p>>)
  <1>1. v.k = "list" /\ IsSeq(v.of) /\ Len(v.of) = 1 /\ v.of[1] = p
    BY Nodes, SingleIs
  <1>2. Hotels(v) = IF IsHotelLike(p) THEN <<p>> ELSE <<>>
    BY OneHotel
  <1> HIDE DEF v
  <1>3. CASE p.k # "dict"
    <2>1. Read(v) = <<>> /\ Looked(v)
      BY <1>1, <1>3, NothingReads
    <2>2. Read(p) = <<>>
      BY <1>3 DEF Read, IsHotelLike
    <2>3. QED BY <2>1, <2>2 DEF v
  <1>4. CASE p.k = "dict"
    <2>1. Looked(v)
      BY <1>1, <1>4 DEF Looked, IsDict
    <2>2. ~IsHotelLike(v)
      BY <1>1 DEF IsHotelLike
    <2>3. CASE IsHotelLike(p)
      <3>1. Hotels(v) # <<>>
        BY <1>2, <2>3, EmptyIs, SingleIs
      <3>2. Read(v) = <<p>>
        BY <1>1, <1>2, <2>2, <2>3, <3>1 DEF Read
      <3>3. Read(p) = <<p>>
        BY <1>4, <2>3 DEF Read
      <3>4. QED BY <2>1, <3>2, <3>3 DEF v
    <2>4. CASE ~IsHotelLike(p)
      <3>1. Read(v) = ReadList(v) /\ Read(p) = TwoDeep(p)
        BY <1>1, <1>2, <1>4, <2>2, <2>4 DEF Read
      <3>2. ReadList(v) = TwoDeep(p)
        <4>1. 1 \in 1 .. Len(v.of) /\ \A k \in 1 .. Len(v.of) : v.of[k] = p
          BY <1>1
        <4>2. QED BY <1>1, <1>4, <4>1, ReadListIs
      <3>3. QED BY <2>1, <3>1, <3>2 DEF v
    <2>5. QED BY <2>3, <2>4
  <1>5. QED BY <1>3, <1>4

Wraps == {"bare", "json", "block", "blocks"}
WrappedAs(wrap, p) ==
    CASE wrap = "bare"   -> p
      [] wrap = "json"   -> Json(p)
      [] wrap = "block"  -> Block(Json(p))
      [] wrap = "blocks" -> List(<<Block(Plain), Block(Json(p))>>)

LEMMA NullReads == Read(Null) = <<>> /\ Looked(Null) /\ Unwrapped(Plain) = Null
  <1>1. /\ Null.k = "null" /\ Null.of = <<>> /\ ~IsHotelLike(Null) /\ Plain.k = "text"
    BY Nodes DEF IsHotelLike
  <1>2. Read(Null) = <<>>
    BY <1>1 DEF Read
  <1>3. Looked(Null)
    BY <1>1, EmptyIs DEF Looked
  <1>4. IsString(Plain) /\ EnsureParsed(Plain) = Null
    BY <1>1 DEF IsString, EnsureParsed
  <1>5. UnwrapMcpTextBlocks(Null) = Null
    BY <1>1 DEF UnwrapMcpTextBlocks
  <1>6. QED BY <1>2, <1>3, <1>4, <1>5 DEF Unwrapped

\* However a payload is wrapped, what is unwrapped of it reads as the payload does.
LEMMA WrappedReads ==
    ASSUME NEW p, IsPayload(p), NEW wrap \in Wraps
    PROVE  LET v == Unwrapped(WrappedAs(wrap, p)) IN Looked(v) /\ Read(v) = Read(p)
  <1>1. /\ Looked(p) /\ p.k \in {"null", "text", "list", "dict"} /\ UnwrapMcpTextBlocks(p) = p
    BY PayloadIs, NothingWrapped
  <1>2. Read(Null) = <<>> /\ Looked(Null) /\ UnwrapMcpTextBlocks(Null) = Null
    <2>1. Null.k = "null"
      BY Nodes
    <2>2. QED BY <2>1, NullReads DEF UnwrapMcpTextBlocks
  <1>3. EnsureParsed(Json(p)) = p /\ IsString(Json(p)) /\ ~IsString(Block(Json(p)))
        /\ \A x : ~IsString(List(x))
    BY Nodes DEF EnsureParsed, IsString
  <1>4. CASE wrap = "bare"
    <2>1. WrappedAs(wrap, p) = p
      BY <1>4 DEF WrappedAs
    <2>2. CASE p.k = "text"
      <3>1. IsString(p) /\ EnsureParsed(p) = Null
        BY <2>2 DEF IsString, EnsureParsed
      <3>2. Unwrapped(p) = Null
        BY <1>2, <3>1 DEF Unwrapped
      <3>3. Read(p) = <<>>
        BY <2>2 DEF Read, IsHotelLike
      <3>4. QED BY <1>2, <2>1, <3>2, <3>3
    <2>3. CASE p.k # "text"
      <3>1. ~IsString(p)
        BY <1>1, <2>3 DEF IsString
      <3>2. Unwrapped(p) = p
        BY <1>1, <3>1 DEF Unwrapped
      <3>3. QED BY <1>1, <2>1, <3>2
    <2>4. QED BY <2>2, <2>3
  <1>5. CASE wrap = "json"
    <2>1. WrappedAs(wrap, p) = Json(p)
      BY <1>5 DEF WrappedAs
    <2>2. Unwrapped(Json(p)) = p
      BY <1>1, <1>3 DEF Unwrapped
    <2>3. QED BY <1>1, <2>1, <2>2
  <1>6. CASE wrap = "block"
    <2> DEFINE b == Block(Json(p))
    <2>1. WrappedAs(wrap, p) = b
      BY <1>6 DEF WrappedAs
    <2>2. b.k = "block" /\ b.of[1] = Json(p) /\ b.of = <<Json(p)>> /\ ~IsString(b)
      BY <1>3, Nodes
    <2> HIDE DEF b
    <2>3. Unwrapped(b) = IF p = Null THEN b ELSE p
      BY <1>3, <2>2 DEF Unwrapped, UnwrapMcpTextBlocks
    <2>4. CASE p = Null
      <3>1. Unwrapped(b) = b
        BY <2>3, <2>4
      <3>2. Read(b) = <<>>
        BY <2>2 DEF Read, IsHotelLike
      <3>3. IsSeq(b.of) /\ Len(b.of) = 1 /\ b.of[1].k = "json"
        BY <2>2, SingleIs, Nodes
      <3>4. Looked(b)
        BY <3>3 DEF Looked
      <3>5. QED BY <1>2, <2>1, <2>4, <3>1, <3>2, <3>4
    <2>5. CASE p # Null
      BY <1>1, <2>1, <2>3, <2>5
    <2>6. QED BY <2>4, <2>5
  <1>7. CASE wrap = "blocks"
    <2> DEFINE one == Block(Plain)  two == Block(Json(p))  s == <<one, two>>  l == List(s)
               x == IF p.k = "list" THEN p.of ELSE IF p = Null THEN <<>> ELSE <<p>>
               ii == [i \in DOMAIN s |-> BlockItems(s[i])]
    <2>1. WrappedAs(wrap, p) = l
      BY <1>7 DEF WrappedAs
    <2>2. /\ l.k = "list" /\ l.of = s /\ ~IsString(l)
          /\ one.k = "block" /\ two.k = "block" /\ BlockItems(one) = <<>> /\ BlockItems(two) = x
      BY <1>3, Nodes, BlockHolds
    <2> HIDE DEF one, two, l
    <2>3. IsSeq(s) /\ Len(s) = 2 /\ s[1] = one /\ s[2] = two /\ DOMAIN s = 1 .. 2
      <3>1. s \in Seq({one, two}) /\ Len(s) = 2
        OBVIOUS
      <3>2. QED BY <3>1, SeqIs
    <2> HIDE DEF s, x
    <2>4. IsSeq(x) /\ (p.k = "list" => x = p.of) /\ (p.k # "list" /\ p = Null => x = <<>>)
          /\ (p.k # "list" /\ p # Null => x = <<p>>)
      BY <1>1, EmptyIs, SingleIs DEF x, Looked
    <2>5. FlattenSeq(ii) = x
      <3>1. ii = [i \in 1 .. 2 |-> ii[i]] /\ ii[1] = <<>> /\ ii[2] = x
        BY <2>2, <2>3
      <3> HIDE DEF ii
      <3>2. IsSeq(ii) /\ Len(ii) = 2
        BY <3>1, FcnIsSeq
      <3>3. ii # <<>> /\ \A i \in 1 .. Len(ii) - 1 : ii[i] = <<>>
        BY <3>1, <3>2, EmptyIs
      <3>4. QED BY <2>4, <3>1, <3>2, <3>3, FlattenLast
    <2>6. \A i \in DOMAIN s : s[i].k = "block"
      BY <2>2, <2>3
    <2>7. Unwrapped(l) = IF x # <<>> THEN List(x) ELSE l
      <3>1. Unwrapped(l) = UnwrapMcpTextBlocks(l)
        BY <2>2 DEF Unwrapped
      <3>2. UnwrapMcpTextBlocks(l) = IF FlattenSeq(ii) # <<>> THEN List(FlattenSeq(ii)) ELSE l
        BY <2>2, <2>6 DEF UnwrapMcpTextBlocks
      <3>3. QED BY <2>5, <3>1, <3>2
    <2>8. Read(l) = <<>> /\ Looked(l)
      <3>1. \A i \in 1 .. Len(l.of) : l.of[i].k # "dict"
        BY <2>2, <2>3, <2>6
      <3>2. QED BY <2>2, <2>3, <3>1, NothingReads
    <2>9. CASE x = <<>>
      <3>1. Read(p) = <<>>
        <4>1. CASE p.k = "list"
          <5>1. \A i \in 1 .. Len(p.of) : p.of[i].k # "dict"
            BY <2>4, <2>9, <4>1, EmptyIs
          <5>2. QED BY <1>1, <4>1, <5>1, NothingReads DEF Looked
        <4>2. CASE p.k # "list"
          <5>1. <<p>> # <<>>
            BY EmptyIs, SingleIs
          <5>2. QED BY <1>2, <2>4, <2>9, <4>2, <5>1
        <4>3. QED BY <4>1, <4>2
      <3>2. QED BY <2>1, <2>7, <2>8, <2>9, <3>1
    <2>10. CASE x # <<>> /\ p.k = "list"
      BY <1>1, <2>1, <2>4, <2>7, <2>10, ListReads
    <2>11. CASE x # <<>> /\ p.k # "list"
      <3>1. x = <<p>>
        BY <2>4, <2>11
      <3>2. Read(List(x)) = Read(p) /\ Looked(List(x))
        BY <1>1, <2>11, <3>1, OneReads
      <3>3. QED BY <2>1, <2>7, <2>11, <3>2
    <2>12. QED BY <2>9, <2>10, <2>11
  <1>8. QED BY <1>4, <1>5, <1>6, <1>7 DEF Wraps

LEMMA CardsAre ==
    ASSUME NEW call, IsPayload(call.payload), call.wrap \in Wraps, call.error \in BOOLEAN, call.hotel \in BOOLEAN
    PROVE  CardsOf(call) = IF call.hotel /\ ~call.error THEN HotelsIn(call.payload) ELSE <<>>
  <1> DEFINE p == call.payload  w == WrappedAs(call.wrap, p)
  <1>1. Wrapped(call) = IF call.error THEN Plain ELSE w
    BY DEF Wrapped, WrappedAs
  <1>2. CardsOf(call) = IF call.hotel /\ Wrapped(call) # Null THEN Extract(Wrapped(call)) ELSE <<>>
    BY DEF CardsOf, ExtractCards
  <1>3. HotelsIn(p) = Read(p)
    BY PayloadIs, ReferenceIs
  <1>4. Looked(Unwrapped(w)) /\ Read(Unwrapped(w)) = Read(p)
    BY WrappedReads
  <1> HIDE DEF w
  <1>5. Extract(w) = Read(p)
    BY <1>4, ExtractIs
  <1>6. w = Null => Read(p) = <<>>
    <2>1. Unwrapped(Null) = Null
      BY Nodes DEF Unwrapped, IsString, UnwrapMcpTextBlocks
    <2>2. QED BY <1>4, <2>1, NullReads
  <1>7. Extract(Plain) = <<>>
    BY NullReads, ExtractIs
  <1>8. QED BY <1>1, <1>2, <1>3, <1>5, <1>6, <1>7

-----------------------------------------------------------------------------
(* Sources and citations.                                                  *)

\* The numbers up to n.
Counted(n) == [k \in 1 .. n |-> k]

\* While the tools are read, the sources are those of the calls that are done, in
\* their order, and a reply that is stored as completed has those of every call.
SourcesTrue ==
    LET n == consumer["tools"].n  pc == consumer["tools"].pc IN
    /\ pc = "reading" => state.sources = Counted(n)
    /\ pc = "awaiting" => state.sources = Counted(n - 1)
    /\ pc = "over" /\ Undisturbed => state.sources = Counted(n)
    /\ stored.status = "completed" => stored.sources = Counted(Len(run.calls))

LEMMA CountedMore ==
    ASSUME NEW n \in Nat
    PROVE  IsSeq(Counted(n)) /\ Len(Counted(n)) = n /\ Append(Counted(n), n + 1) = Counted(n + 1)
  <1>1. ASSUME NEW m \in Nat PROVE IsSeq(Counted(m)) /\ Len(Counted(m)) = m /\ \A k \in 1 .. m : Counted(m)[k] = k
    <2> DEFINE c == Counted(m)
    <2>1. c = [k \in 1 .. m |-> c[k]] /\ \A k \in 1 .. m : c[k] = k
      BY DEF Counted
    <2> HIDE DEF c
    <2>2. IsSeq(c) /\ Len(c) = m
      BY <2>1, FcnIsSeq
    <2>3. QED BY <2>1, <2>2 DEF c
  <1> DEFINE a == Append(Counted(n), n + 1)  b == Counted(n + 1)  c == Counted(n)
  <1>2. /\ IsSeq(b) /\ Len(b) = n + 1 /\ \A k \in 1 .. n + 1 : b[k] = k
        /\ IsSeq(c) /\ Len(c) = n /\ \A k \in 1 .. n : c[k] = k
    BY <1>1
  <1> HIDE DEF b, c
  <1>3. IsSeq(a) /\ Len(a) = n + 1 /\ a[n + 1] = n + 1 /\ \A k \in 1 .. n : a[k] = c[k]
    BY <1>2, AppendIs DEF c
  <1> HIDE DEF a
  <1>4. \A k \in 1 .. n + 1 : a[k] = b[k]
    BY <1>2, <1>3
  <1>5. a = b
    BY <1>2, <1>3, <1>4, SeqEq
  <1>6. QED BY <1>1, <1>5 DEF a, b

\* The sources and the tool consumer stay, and what is stored is not completed by it.
LEMMA SourcesStay ==
    ASSUME IInv, SourcesTrue, state'.sources = state.sources, run' = run,
           \/ consumer'["tools"].pc = consumer["tools"].pc
           \/ consumer["tools"].pc = "reading" /\ consumer'["tools"].pc = "over"
           \/ consumer'["tools"].pc = "raised"
           \/ ~Undisturbed /\ consumer'["tools"].pc = "over",
           consumer'["tools"].n = consumer["tools"].n,
           Undisturbed' => Undisturbed,
           stored'.status = "completed" => stored' = stored
    PROVE  SourcesTrue'
  BY DEF SourcesTrue, Undisturbed

LEMMA SourcesKept == ASSUME IInv, SourcesTrue, Next PROVE SourcesTrue'
  <1> DEFINE n == consumer["tools"].n
  <1>1. /\ "tools" \in Consumers /\ "messages" \in Consumers /\ TypedState(state, DOMAIN run.deltas)
        /\ consumer = [who \in Consumers |-> [pc |-> consumer[who].pc, n |-> consumer[who].n]]
        /\ \A who \in Consumers : consumer[who].n \in Nat
        /\ Len(run.calls) \in Nat /\ DOMAIN run.calls = 1 .. Len(run.calls)
    BY Standing DEF Consumers
  <1>2. CASE ReadDelta
    <2> DEFINE d == consumer["messages"].n + 1  type == run.deltas[d].type
               new == AppendText(state, type, d)
    <2>1. /\ state' = [new.state EXCEPT !.text = IF type = "text" THEN Append(@, d) ELSE @]
          /\ consumer' = [consumer EXCEPT !["messages"].n = d]
          /\ run' = run /\ handler' = handler /\ stored' = stored
      BY <1>2 DEF ReadDelta
    <2>2. consumer'["tools"] = consumer["tools"]
      BY <1>1, <2>1
    <2>3. new.state.sources = state.sources
      <3> HIDE DEF d, type
      <3>1. AppendText(state, type, d).state.sources = state.sources
        BY <1>1 DEF AppendText, TypedState
      <3>2. QED BY <3>1
    <2> HIDE DEF new, d, type
    <2>4. state'.sources = new.state.sources
      BY <2>1
    <2>5. Undisturbed' = Undisturbed
      BY <2>1 DEF Undisturbed
    <2>6. QED BY <2>1, <2>2, <2>3, <2>4, <2>5, SourcesStay
  <1>3. CASE StartTool
    <2> DEFINE c == n + 1
    <2>1. /\ consumer["tools"].pc = "reading"
          /\ state' = [state EXCEPT !.parts = Append(Sealed(@), ToolPart(c, "running"))]
          /\ consumer' = [consumer EXCEPT !["tools"] = [pc |-> "awaiting", n |-> c]]
          /\ run' = run /\ stored' = stored
      BY <1>3 DEF StartTool
    <2>2. consumer'["tools"].pc = "awaiting" /\ consumer'["tools"].n = c /\ c - 1 = n
      BY <1>1, <2>1
    <2>3. state'.sources = state.sources
      BY <1>1, <2>1 DEF TypedState
    <2>4. QED BY <2>1, <2>2, <2>3 DEF SourcesTrue, Undisturbed
  <1>4. CASE FinishTool
    <2>1. /\ consumer["tools"].pc = "awaiting"
          /\ state' = [state EXCEPT !.parts[PartAt(state.parts, <<"tool", n>>)] = DonePart(n),
                                    !.sources = Append(@, n)]
          /\ consumer' = [consumer EXCEPT !["tools"].pc = "reading"]
          /\ run' = run /\ stored' = stored
      BY <1>4 DEF FinishTool
    <2>2. consumer'["tools"].pc = "reading" /\ consumer'["tools"].n = n
      BY <1>1, <2>1
    <2>3. state'.sources = Append(state.sources, n)
      BY <1>1, <2>1 DEF TypedState
    <2>4. n \in Nat /\ n # 0 /\ n - 1 \in Nat /\ (n - 1) + 1 = n
      BY <1>1, <2>1 DEF IInv, ToolsTrue, Undisturbed
    <2>5. Append(Counted(n - 1), n) = Counted(n)
      BY <2>4, CountedMore
    <2>6. QED BY <2>1, <2>2, <2>3, <2>5 DEF SourcesTrue, Undisturbed
  <1>5. CASE \E who \in Consumers : ConsumerEnds(who) \/ ConsumerRaises(who)
    <2>1. PICK who \in Consumers : ConsumerEnds(who) \/ ConsumerRaises(who)
      BY <1>5
    <2>2. PICK how \in {"over", "raised"} : Ends(who, how) /\ (how = "over" => consumer[who].pc = "reading")
      BY <2>1 DEF ConsumerEnds, ConsumerRaises
    <2>3. /\ consumer' = [consumer EXCEPT ![who].pc = how]
          /\ run' = run /\ state' = state /\ handler' = handler /\ stored' = stored
      BY <2>2 DEF Ends
    <2>4. consumer'["tools"] = IF who = "tools" THEN [consumer["tools"] EXCEPT !.pc = how] ELSE consumer["tools"]
      BY <1>1, <2>3
    <2>5. /\ consumer'["tools"].n = n
          /\ consumer'["tools"].pc = IF who = "tools" THEN how ELSE consumer["tools"].pc
      <3> DEFINE r == consumer["tools"]
      <3>1. r = [pc |-> r.pc, n |-> r.n]
        BY <1>1
      <3> HIDE DEF r
      <3>2. [r EXCEPT !.pc = how].n = r.n /\ [r EXCEPT !.pc = how].pc = how
        BY <3>1
      <3>3. QED BY <2>4, <3>2 DEF r
    <2>6. Undisturbed' = Undisturbed
      BY <2>3 DEF Undisturbed
    <2>7. QED BY <2>2, <2>3, <2>5, <2>6, SourcesStay
  <1>6. CASE Relay
    <2>1. /\ run' = run /\ state' = state /\ consumer' = consumer /\ stored' = stored
          /\ handler' = handler \/ handler' = [handler EXCEPT !.done = @ + 1]
      BY <1>6 DEF Relay
    <2>2. handler'.pc = handler.pc
      BY <2>1 DEF IInv, Typed
    <2>3. Undisturbed' = Undisturbed
      BY <2>2 DEF Undisturbed
    <2>4. QED BY <2>1, <2>3, SourcesStay
  <1>7. CASE Complete
    <2> DEFINE row == [status |-> "completed", text |-> state.text,
                       parts |-> Finalized(state.parts), sources |-> state.sources]
    <2>1. /\ handler.pc = "completing"
          /\ stored' = row /\ handler' = [handler EXCEPT !.pc = "over"]
          /\ run' = run /\ state' = state /\ consumer' = consumer
      BY <1>7 DEF Complete, CompletedRow
    <2>2. stored'.sources = state.sources
      BY <2>1
    <2>3. consumer["tools"].pc = "over"
      BY <1>1, <2>1 DEF IInv, OverTrue
    <2>4. n = Len(run.calls)
      BY <1>1, <2>1, <2>3 DEF IInv, OverTrue, Undisturbed
    <2>5. state.sources = Counted(n)
      BY <2>1, <2>3 DEF SourcesTrue, Undisturbed
    <2> HIDE DEF row
    <2>6. QED BY <2>1, <2>2, <2>3, <2>4, <2>5 DEF SourcesTrue, Undisturbed
  <1>8. CASE Settle
    <2>1. PICK outcome \in {"stopped", "failed"} : stored' = Interrupted(outcome)
      BY <1>8 DEF Settle
    <2>2. /\ handler' = [handler EXCEPT !.pc = "over"]
          /\ run' = run /\ state' = state /\ consumer' = consumer
      BY <1>8 DEF Settle
    <2>3. stored'.status # "completed"
      BY <2>1 DEF Interrupted
    <2>4. handler'.pc = "over"
      BY <2>2 DEF IInv, Typed
    <2>5. ~Undisturbed'
      BY <2>4 DEF Undisturbed
    <2>6. QED BY <2>2, <2>3, <2>5, SourcesStay
  <1>9. CASE RelayEnds \/ Fail \/ Cancel \/ Close \/ Closed \/ Vanish
    <2>1. PICK phase \in Phases : /\ handler' = [handler EXCEPT !.pc = phase]
                                  /\ phase \in {"relaying", "completing"} => handler.pc = "relaying"
      BY <1>9 DEF RelayEnds, Fail, Cancel, Close, Closed, Vanish, RollBack, Phases
    <2>2. run' = run /\ state' = state /\ consumer' = consumer /\ stored' = stored
      BY <1>9 DEF RelayEnds, Fail, Cancel, Close, Closed, Vanish, RollBack
    <2>3. handler'.pc = phase
      BY <2>1 DEF IInv, Typed
    <2>4. Undisturbed' => Undisturbed
      BY <2>1, <2>3 DEF Undisturbed
    <2>5. QED BY <2>2, <2>4, SourcesStay
  <1>10. CASE CancelConsumers
    <2>1. /\ handler.pc = "closing"
          /\ consumer' = [who \in Consumers |-> [consumer[who] EXCEPT !.pc = "over"]]
          /\ run' = run /\ state' = state /\ handler' = handler /\ stored' = stored
      BY <1>10 DEF CancelConsumers
    <2> DEFINE r == consumer["tools"]
    <2>2. r = [pc |-> r.pc, n |-> r.n]
      BY <1>1
    <2>3. consumer'["tools"] = [r EXCEPT !.pc = "over"]
      BY <1>1, <2>1
    <2> HIDE DEF r
    <2>4. consumer'["tools"].pc = "over" /\ consumer'["tools"].n = r.n
      BY <2>2, <2>3
    <2>5. ~Undisturbed /\ ~Undisturbed'
      BY <2>1 DEF Undisturbed
    <2>6. QED BY <2>1, <2>4, <2>5, SourcesStay DEF r
  <1>11. CASE (\E c \in DOMAIN run.calls : ToolAnswers(c)) \/ PageReceives \/ PageStops
    <2>1. /\ run' = run /\ state' = state /\ consumer' = consumer /\ handler' = handler /\ stored' = stored
      BY <1>11 DEF ToolAnswers, PageReceives, PageStops
    <2>2. Undisturbed' = Undisturbed
      BY <2>1 DEF Undisturbed
    <2>3. QED BY <2>1, <2>2, SourcesStay
  <1>12. QED BY <1>2, <1>3, <1>4, <1>5, <1>6, <1>7, <1>8, <1>9, <1>10, <1>11 DEF Next

LEMMA SourcesInvariance == Spec => [](IInv /\ SourcesTrue)
  <1>1. Init => SourcesTrue
    <2>1. ASSUME Init PROVE SourcesTrue
      <3>1. /\ state.sources = <<>> /\ stored.status = "streaming"
            /\ consumer["tools"].pc = "reading" /\ consumer["tools"].n = 0
        BY <2>1 DEF Init, Consumers
      <3>2. Counted(0) = <<>>
        BY CountedMore, EmptyIs
      <3>3. QED BY <3>1, <3>2 DEF SourcesTrue, Undisturbed
    <2>2. QED BY <2>1
  <1>2. ASSUME IInv, SourcesTrue, UNCHANGED vars PROVE SourcesTrue'
    BY <1>2 DEF vars, SourcesTrue, Undisturbed
  <1>3. IInv /\ SourcesTrue /\ [Next]_vars => SourcesTrue'
    BY <1>2, SourcesKept
  <1>4. QED BY <1>1, <1>3, Invariance, PTL DEF Spec

\* Every citation of a text that has a source is noted, and leads to that source.
Noted(text, sources) ==
    LET all == FlattenSeq([c \in DOMAIN run.calls |-> SourcesOf(run.calls[c])])
        notes == Annotations(text, sources)
    IN  /\ \A k \in DOMAIN notes : notes[k].source = all[run.deltas[text[notes[k].at]].cites]
        /\ {notes[k].at : k \in DOMAIN notes} = {k \in DOMAIN text : run.deltas[text[k]].cites \in DOMAIN all}

LEMMA NotesAre ==
    ASSUME NEW text, IsSeq(text), NEW sources, sources = Counted(Len(run.calls)),
           Len(run.calls) \in Nat, DOMAIN run.calls = 1 .. Len(run.calls)
    PROVE  Noted(text, sources)
  <1> DEFINE all == FlattenSeq([c \in DOMAIN run.calls |-> SourcesOf(run.calls[c])])
             notes == Annotations(text, sources)
             cited(k) == run.deltas[text[k]].cites
             s == [i \in DOMAIN text |-> [at |-> i, n |-> cited(i)]]
             K == {i \in 1 .. Len(s) : s[i].n \in DOMAIN all}
             marks == FlattenSeq(Kept(s, K))
  <1>1. [k \in DOMAIN sources |-> SourcesOf(run.calls[sources[k]])] =
          [c \in DOMAIN run.calls |-> SourcesOf(run.calls[c])]
    BY DEF Counted
  <1>2. DOMAIN text = 1 .. Len(text) /\ Len(text) \in Nat
    BY SeqFacts
  <1>3. IsSeq(s) /\ Len(s) = Len(text) /\ DOMAIN s = 1 .. Len(s)
        /\ \A i \in 1 .. Len(s) : s[i].at = i /\ s[i].n = cited(i)
    <2>1. s = [i \in 1 .. Len(text) |-> s[i]] /\ \A i \in 1 .. Len(text) : s[i].at = i /\ s[i].n = cited(i)
      BY <1>2
    <2> HIDE DEF s, cited
    <2>2. IsSeq(s) /\ Len(s) = Len(text)
      BY <1>2, <2>1, FcnIsSeq
    <2>3. QED BY <2>1, <2>2, SeqFacts
  <1>4. notes = [k \in DOMAIN marks |-> [at |-> marks[k].at, source |-> all[marks[k].n]]]
    <2> DEFINE b == FlattenSeq([k \in DOMAIN sources |-> SourcesOf(run.calls[sources[k]])])
               m == Only(s, LAMBDA x : x.n \in DOMAIN b)
    <2>1. b = all
      BY <1>1
    <2>2. notes = [k \in DOMAIN m |-> [at |-> m[k].at, source |-> b[m[k].n]]]
      BY DEF Annotations
    <2> HIDE DEF s, all, b, notes
    <2>3. m = marks
      <3>1. [i \in DOMAIN s |-> IF s[i].n \in DOMAIN b THEN <<s[i]>> ELSE <<>>] = Kept(s, K)
        BY <1>3, <2>1 DEF Kept
      <3>2. QED BY <3>1 DEF Only
    <2> HIDE DEF m, marks
    <2>4. QED BY <2>1, <2>2, <2>3
  <1> HIDE DEF s, notes
  <1>5. /\ IsSeq(marks) /\ \A k \in 1 .. Len(marks) : \E i \in 1 .. Len(s) : i \in K /\ marks[k] = s[i]
        /\ \A i \in 1 .. Len(s) : i \in K => \E k \in 1 .. Len(marks) : marks[k] = s[i]
    <2> HIDE DEF K
    <2>1. IsSeq(marks)
      BY <1>3, KeptIs
    <2>2. QED BY <1>3, <2>1, KeptElements
  <1>6. \A i : i \in K <=> i \in 1 .. Len(text) /\ cited(i) \in DOMAIN all
    <2> HIDE DEF all, cited
    <2>1. QED BY <1>3
  <1> HIDE DEF K, marks, all, cited
  <1>7. DOMAIN marks = 1 .. Len(marks)
    BY <1>5, SeqFacts
  <1>8. DOMAIN notes = DOMAIN marks
        /\ \A k \in DOMAIN marks : notes[k].at = marks[k].at /\ notes[k].source = all[marks[k].n]
    BY <1>4
  <1>9. ASSUME NEW k \in DOMAIN notes
        PROVE  notes[k].at \in K /\ notes[k].source = all[cited(notes[k].at)]
    <2>1. PICK i \in 1 .. Len(s) : i \in K /\ marks[k] = s[i]
      BY <1>5, <1>7, <1>8
    <2>2. QED BY <1>3, <1>8, <2>1
  <1>10. ASSUME NEW i \in K PROVE \E k \in DOMAIN notes : notes[k].at = i
    <2>1. i \in 1 .. Len(s)
      BY <1>3, <1>6
    <2>2. PICK k \in 1 .. Len(marks) : marks[k] = s[i]
      BY <1>5, <2>1
    <2>3. QED BY <1>3, <1>7, <1>8, <2>1, <2>2
  <1>11. {notes[k].at : k \in DOMAIN notes} = {k \in DOMAIN text : cited(k) \in DOMAIN all}
    BY <1>2, <1>6, <1>9, <1>10
  <1>12. \A k \in DOMAIN notes : notes[k].source = all[cited(notes[k].at)]
    BY <1>9
  <1>13. QED BY <1>11, <1>12 DEF Noted, all, cited, notes

-----------------------------------------------------------------------------
(* The theorems.                                                           *)

\* The type invariant: whatever is read, merged, stored or shown, every part stays
\* a part whose text is made of the run's deltas.
THEOREM TypeCorrect == Spec => []TypeOK
  <1>1. ASSUME IInv PROVE TypeOK
    <2> DEFINE S == DOMAIN run.deltas
    <2>1. ASSUME NEW P, TypedParts(P, S) PROVE IsParts(P)
      BY <2>1, TypedIs DEF IsParts, IsPart, TypedPart
    <2>2. QED BY <1>1, <2>1 DEF IInv, Typed, TypeOK, Statuses
  <1>2. QED BY <1>1, Invariance, PTL

\* The page's own rules for applying the events (use-chat-agent) come to the parts the
\* server keeps (AgentStreamService), however the two consumers interleave: once the
\* page has applied what is on its way, and what waits in the queue, its parts are the
\* server's, ids, order, texts and states.
THEOREM MirrorsTheServer == Spec => []PageMirrors
  <1>1. ASSUME IInv PROVE PageMirrors
    <2>1. ASSUME Undisturbed, page.status # "stopped"
          PROVE  Shown(page.parts, wire \o queue)[Len(wire \o queue)] = state.parts
      <3> DEFINE M == Shown(page.parts, wire)[Len(wire)]
      <3> HIDE DEF M
      <3>1. Leads(M, queue, state.parts, state.text)
        BY <1>1, <2>1 DEF IInv, MirrorTrue, Undisturbed, Mirrors, M
      <3>2. Shown(M, queue)[Len(queue)] = state.parts
        BY <3>1 DEF Leads
      <3>3. IsSeq(wire) /\ IsSeq(queue)
        BY <1>1 DEF IInv, Typed, TypedEvents
      <3>4. Len(wire \o queue) = Len(wire) + Len(queue) /\ Len(queue) \in 0 .. Len(queue)
        BY <3>3, ConcatIs, SeqFacts
      <3>5. Shown(page.parts, wire \o queue)[Len(wire) + Len(queue)] = Shown(M, queue)[Len(queue)]
        BY <3>3, <3>4, ShownConcat DEF M
      <3>6. QED BY <3>2, <3>4, <3>5
    <2>2. QED BY <2>1 DEF PageMirrors, Undisturbed
  <1>2. QED BY <1>1, Invariance, PTL

\* The server's parts have ids of their own, only the last one grows, a tool runs only
\* while its call is awaited, and they hold every delta that was read, in its order; a
\* reply that is stored as completed is whole (stream_invoke, _finalize_ui_parts).
THEOREM PartsAreInOrder == Spec => []PartsInOrder
  <1>1. ASSUME IInv PROVE PartsInOrder
    <2> DEFINE P == state.parts
    <2>1. DOMAIN P = 1 .. Len(P) /\ DOMAIN stored.parts = 1 .. Len(stored.parts)
      BY <1>1, TypedIs DEF IInv, Typed
    <2>2. DOMAIN run.calls = 1 .. Len(run.calls)
      BY <1>1, Standing
    <2>3. \A i, j \in DOMAIN P : P[i].id = P[j].id => i = j
      BY <1>1, <2>1 DEF IInv, PartsTrue, Named
    <2>4. \A i \in DOMAIN P : Streams(P[i]) => i = Len(P)
      BY <1>1, <2>1 DEF IInv, PartsTrue, LastStreams
    <2>5. \A i \in DOMAIN P : P[i].status = "running" => P[i].id = <<"tool", consumer["tools"].n>>
      BY <1>1, <2>1 DEF IInv, ToolsTrue, Undisturbed
    <2>6. \A type, n : SaidOf(type, n) = SaidBy(run.deltas, type, n)
      BY DEF SaidOf, SaidBy
    <2>7. /\ \A type \in TextTypes : TextOf(P, type) = SaidOf(type, consumer["messages"].n)
          /\ state.text = SaidOf("text", consumer["messages"].n)
      BY <1>1, <2>6 DEF IInv, SaidTrue
    <2>8. stored.status = "completed" =>
            /\ \A type \in TextTypes : TextOf(stored.parts, type) = SaidOf(type, Len(run.deltas))
            /\ stored.text = TextOf(stored.parts, "text")
            /\ \A c \in DOMAIN run.calls :
                    \E i \in DOMAIN stored.parts :
                        /\ stored.parts[i].id = <<"tool", c>>
                        /\ stored.parts[i].status = IF run.calls[c].error THEN "error" ELSE "success"
            /\ \A i \in DOMAIN stored.parts : stored.parts[i].status \notin {"streaming", "running"}
      BY <1>1, <2>1, <2>2, <2>6 DEF IInv, StoredTrue, Whole, DoneStatus
    <2>9. QED BY <2>3, <2>4, <2>5, <2>7, <2>8 DEF PartsInOrder
  <1>2. QED BY <1>1, Invariance, PTL

\* Stopping loses nothing that could be read: what the page goes on showing begins the
\* text that is stored for the stopped turn.
THEOREM StopKeepsTheText == Spec => []StopKeepsWhatWasRead
  <1>1. ASSUME IInv PROVE StopKeepsWhatWasRead
    BY <1>1, BeginsIsPrefix DEF IInv, StopTrue, StopKeepsWhatWasRead
  <1>2. QED BY <1>1, Invariance, PTL

\* The cards that extract_cards (HotelCardExtractor) makes are the hotels of the tool's
\* payload, whatever its server wrapped it in, and each citation that
\* resolve_annotations_from_text notes leads to the source of its number, the calls
\* counted in the order they were made, whichever was answered first.
THEOREM PayloadsAreShown == Spec => []PayloadIsShown
  <1>1. ASSUME IInv, SourcesTrue PROVE PayloadIsShown
    <2>1. /\ run \in Runs /\ Len(run.calls) \in Nat /\ DOMAIN run.calls = 1 .. Len(run.calls)
          /\ TypedParts(stored.parts, DOMAIN run.deltas)
      BY <1>1, Standing DEF IInv, Typed
    <2>2. ASSUME NEW c \in DOMAIN run.calls
          PROVE  CardsOf(run.calls[c]) =
                    IF run.calls[c].hotel /\ ~run.calls[c].error THEN HotelsIn(run.calls[c].payload) ELSE <<>>
      <3> DEFINE call == run.calls[c]
      <3>1. /\ IsPayload(call.payload) /\ call.wrap \in Wraps
            /\ call.error \in BOOLEAN /\ call.hotel \in BOOLEAN
        BY <2>1, RunsAssumption DEF Wraps
      <3> HIDE DEF call
      <3>2. CardsOf(call) = IF call.hotel /\ ~call.error THEN HotelsIn(call.payload) ELSE <<>>
        BY <3>1, CardsAre
      <3>3. QED BY <3>2 DEF call
    <2>3. ASSUME stored.status = "completed", NEW i \in DOMAIN stored.parts
          PROVE  Noted(stored.parts[i].text, stored.sources)
      <3> DEFINE text == stored.parts[i].text  sources == stored.sources
      <3>1. IsSeq(text)
        BY <2>1, TypedIs, SeqIs DEF TypedPart
      <3>2. sources = Counted(Len(run.calls))
        BY <1>1, <2>3 DEF SourcesTrue, Undisturbed
      <3> HIDE DEF text, sources
      <3>3. Noted(text, sources)
        BY <2>1, <3>1, <3>2, NotesAre
      <3>4. QED BY <3>3 DEF text, sources
    <2>4. QED BY <2>2, <2>3 DEF PayloadIsShown, Noted
  <1>2. QED BY <1>1, SourcesInvariance, PTL

=============================================================================
