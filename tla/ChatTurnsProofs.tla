--------------------------- MODULE ChatTurnsProofs ---------------------------
(* Theorems about ChatTurns, for every number of turns and all surroundings. *)
EXTENDS ChatTurns, FiniteSetTheorems, SequenceTheorems, WellFoundedInduction, TLAPS

-----------------------------------------------------------------------------
(* Least and greatest elements, from the well-foundedness of < on Nat. *)

\* A nonempty set of naturals has a least element.
LEMMA LeastNumber ==
    ASSUME NEW T, T \subseteq Nat, T # {}
    PROVE  \E x \in T : \A y \in T : x <= y
<1> DEFINE Less == {ss \in Nat \X Nat : ss[1] < ss[2]}
<1>1. IsWellFoundedOn(Less, Nat)
  BY NatLessThanWellFounded, Zenon DEF OpToRel
<1>0. \A a, b \in Nat : a < b => <<a, b>> \in Less
  OBVIOUS
<1> HIDE DEF Less
<1>2. PICK x \in T : \A y \in T : ~(<<y, x>> \in Less)
  BY <1>1, WFMin, Zenon
<1>3. ASSUME NEW y \in T PROVE x <= y
  <2>1. x \in Nat /\ y \in Nat
    OBVIOUS
  <2>2. ~(y < x)
    BY <1>0, <1>2, <2>1, Zenon
  <2> QED BY <2>1, <2>2
<1> QED BY <1>3

\* A nonempty bounded set of naturals has a greatest element.
LEMMA GreatestNumber ==
    ASSUME NEW n \in Nat, NEW T, T \subseteq 0 .. n, T # {}
    PROVE  \E x \in T : \A y \in T : y <= x
<1> DEFINE Mirror == {n - x : x \in T}
<1>0. \A x \in T : x \in Nat /\ n - x \in Nat
  OBVIOUS
<1>1. Mirror \subseteq Nat /\ Mirror # {}
  BY <1>0
<1> HIDE DEF Mirror
<1>2. PICK z \in Mirror : \A y \in Mirror : z <= y
  BY <1>1, LeastNumber
<1>3. PICK x \in T : z = n - x
  BY <1>2 DEF Mirror
<1>4. \A y \in T : n - x <= n - y
  BY <1>2, <1>3 DEF Mirror
<1> QED BY <1>0, <1>3, <1>4
-----------------------------------------------------------------------------
(* The inductive invariant, in three layers: each is proved to be kept by a   *)
(* step from states that satisfy the layers before it.                        *)

\* Checkpoint ids are handed out in order.
IdsBounded == \A c \in ckpts : c.id <= lastCkpt
TypeInv == TypeOK /\ IdsBounded

\* A request that was not made yet has left no trace.
Unused ==
    \A t \in Turn : task[t].pc = "idle" =>
        ~Exists(t) /\ ~IsMessage(t) /\ \A m \in Turn : shown[m].current # t
\* A running turn is the only writer of its version, which is still streaming.
Owned ==
    \A t \in Turn : Live(t) =>
        /\ task[t].msg \in Turn
        /\ Exists(t) => versions[t].msg = task[t].msg /\ versions[t].status = "streaming"
        /\ IsMessage(t) => task[t].msg = t
NoSessionNoMessages == ~session => messages = <<>>
RowsInv ==
    Unused /\ Owned /\ NoSessionNoMessages /\ MirrorsCurrent /\ VersionsNumbered

Before(mem, m) == \A i \in DOMAIN mem : mem[i].turn < m
\* Requests are numbered in the order they are made.
InOrder == \A t, u \in Turn : t < u /\ task[t].pc = "idle" => task[u].pc = "idle"
\* Every checkpoint that is remembered somewhere was handed out.
RemembersIssued ==
    /\ stable <= lastCkpt
    /\ \A t \in Turn : versions[t].result <= lastCkpt /\ versions[t].parent <= lastCkpt
    /\ \A t \in Turn : task[t].ckpt <= lastCkpt /\ task[t].base <= lastCkpt
\* The agent remembers only turns that were requested.
RemembersMade ==
    /\ \A c \in ckpts : \A i \in DOMAIN c.mem : task[c.mem[i].turn].pc # "idle"
    /\ \A t \in Turn : \A i \in DOMAIN task[t].mem : task[task[t].mem[i].turn].pc # "idle"
\* Parents and bases were saved before the message they serve was asked for.
ParentBefore ==
    \A v \in Turn : Exists(v) /\ versions[v].parent # NoCkpt =>
        \A c \in ckpts : c.id = versions[v].parent => Before(c.mem, versions[v].msg)
BaseBefore ==
    \A t \in Turn : Live(t) /\ task[t].base # NoCkpt =>
        /\ \A c \in ckpts : c.id = task[t].base => Before(c.mem, task[t].msg)
        /\ Before(task[t].mem, task[t].msg)
MessagesFirst ==
    \A t \in Turn : versions[t].msg <= t
MemoryInv ==
    /\ InOrder /\ RemembersIssued /\ RemembersMade
    /\ ParentBefore /\ BaseBefore /\ MessagesFirst

-----------------------------------------------------------------------------
(* What the queries return. *)

\* The newest checkpoint is one that was handed out, or none.
LEMMA LatestCkptType ==
    ASSUME TypeInv
    PROVE  LatestCkpt \in 0 .. lastCkpt
<1>1. \A c \in ckpts : c.id \in Nat \ {NoCkpt} /\ c.id <= lastCkpt
  BY DEF TypeInv, TypeOK, IdsBounded, Ckpt
<1>2. lastCkpt \in Nat
  BY DEF TypeInv, TypeOK
<1>3. CASE ckpts = {}
  BY <1>2, <1>3 DEF LatestCkpt, NoCkpt
<1>4. CASE ckpts # {}
  <2>1. CkptIds # {} /\ CkptIds \subseteq 0 .. lastCkpt
    BY <1>1, <1>2, <1>4 DEF CkptIds
  <2>2. \E i \in CkptIds : \A j \in CkptIds : j <= i
    BY <1>2, <2>1, GreatestNumber
  <2> QED BY <1>4, <2>1, <2>2 DEF LatestCkpt
<1> QED BY <1>3, <1>4

\* The root checkpoint is one that was handed out, or none.
LEMMA RootCkptType ==
    ASSUME TypeInv
    PROVE  RootCkpt \in 0 .. lastCkpt
<1> DEFINE roots == {c.id : c \in {d \in ckpts : d.root}}
<1>1. roots \subseteq 0 .. lastCkpt /\ roots \subseteq Nat /\ lastCkpt \in Nat
  BY DEF TypeInv, TypeOK, IdsBounded, Ckpt
<1>2. RootCkpt = IF roots = {} THEN NoCkpt
                 ELSE CHOOSE i \in roots : \A j \in roots : i <= j
  BY DEF RootCkpt
<1> HIDE DEF roots
<1>3. CASE roots = {}
  BY <1>1, <1>2, <1>3 DEF NoCkpt
<1>4. CASE roots # {}
  <2>1. \E i \in roots : \A j \in roots : i <= j
    BY <1>1, <1>4, LeastNumber
  <2> QED BY <1>1, <1>2, <1>4, <2>1
<1> QED BY <1>3, <1>4

\* The memory behind an id is that of the checkpoint with that id, or empty.
LEMMA MemoryAtType ==
    ASSUME TypeInv, NEW id
    PROVE  /\ MemoryAt(id) \in Seq(Exchange)
           /\ \/ MemoryAt(id) = <<>>
              \/ \E c \in ckpts : c.id = id /\ MemoryAt(id) = c.mem
<1>1. CASE \E c \in ckpts : c.id = id
  <2>1. PICK c \in ckpts : c = CHOOSE d \in ckpts : d.id = id
    BY <1>1
  <2>2. c.id = id /\ MemoryAt(id) = c.mem
    BY <1>1, <2>1 DEF MemoryAt
  <2> QED BY <2>2 DEF TypeInv, TypeOK, Ckpt
<1>2. CASE ~\E c \in ckpts : c.id = id
  BY <1>2 DEF MemoryAt
<1> QED BY <1>1, <1>2

\* The persisted result is that of some version, or none.
LEMMA PersistedType ==
    ASSUME TypeInv
    PROVE  Persisted = NoCkpt \/ \E v \in Turn : Persisted = versions[v].result
<1> DEFINE joined == {i \in DOMAIN messages : Exists(shown[messages[i]].current)}
<1>1. Len(messages) \in Nat /\ joined \subseteq 0 .. Len(messages)
  BY DEF TypeInv, TypeOK
<1>2. CASE joined = {}
  BY <1>2 DEF Persisted
<1>3. CASE joined # {}
  <2>1. \E i \in joined : \A j \in joined : j <= i
    <3> HIDE DEF joined
    <3> QED BY <1>1, <1>3, GreatestNumber
  <2>2. PICK i \in joined : i = CHOOSE k \in joined : \A j \in joined : j <= k
    <3> HIDE DEF joined
    <3> QED BY <2>1
  <2>3. Persisted = versions[shown[messages[i]].current].result
    BY <1>3, <2>2 DEF Persisted
  <2> QED BY <2>3 DEF Exists
<1> QED BY <1>2, <1>3

LEMMA PersistedNat ==
    ASSUME TypeInv
    PROVE  Persisted \in Nat
BY PersistedType DEF TypeInv, TypeOK, VersionRow, NoCkpt

LEMMA EffectiveNat ==
    ASSUME TypeInv
    PROVE  Effective \in Nat
BY PersistedNat, RootCkptType DEF Effective, TypeInv, TypeOK

\* A regenerated version takes the index after the highest its message has.
LEMMA NextIndexFresh ==
    ASSUME TypeInv, NEW m \in Turn
    PROVE  /\ NextIndex(m) \in 2 .. MaxVersions + 1
           /\ \A v \in VersionsOf(m) : versions[v].index < NextIndex(m)
           /\ \/ NextIndex(m) = 2
              \/ \E v \in VersionsOf(m) : versions[v].index = NextIndex(m) - 1
<1> DEFINE Top(k) == /\ \A v \in VersionsOf(m) : versions[v].index <= k
                     /\ k = 1 \/ \E v \in VersionsOf(m) : versions[v].index = k
<1>1. \A v \in VersionsOf(m) : versions[v].index \in 0 .. 3
  BY DEF TypeInv, TypeOK, VersionRow, VersionsOf, MaxVersions
<1>2. \E k \in 1 .. MaxVersions : Top(k)
  <2>1. CASE \E v \in VersionsOf(m) : versions[v].index = 3
    <3>1. Top(3)
      BY <1>1, <2>1
    <3> QED BY <3>1 DEF MaxVersions
  <2>2. CASE /\ ~\E v \in VersionsOf(m) : versions[v].index = 3
             /\ \E v \in VersionsOf(m) : versions[v].index = 2
    <3>1. Top(2)
      BY <1>1, <2>2
    <3> QED BY <3>1 DEF MaxVersions
  <2>3. CASE ~\E v \in VersionsOf(m) : versions[v].index \in {2, 3}
    <3>1. Top(1)
      BY <1>1, <2>3
    <3> QED BY <3>1 DEF MaxVersions
  <2> QED BY <2>1, <2>2, <2>3
<1>3. PICK k \in 1 .. MaxVersions : k = CHOOSE j \in 1 .. MaxVersions : Top(j)
  <2> HIDE DEF Top
  <2> QED BY <1>2
<1>4. Top(k)
  <2> HIDE DEF Top
  <2> QED BY <1>2, <1>3
<1>5. NextIndex(m) = k + 1
  BY <1>3 DEF NextIndex
<1> QED BY <1>1, <1>4, <1>5 DEF MaxVersions

\* The newest message is a message.
LEMMA LatestIsMessage ==
    ASSUME TypeInv, messages # <<>>
    PROVE  LatestMessage \in Turn /\ IsMessage(LatestMessage)
<1>1. Len(messages) \in DOMAIN messages
  BY DEF TypeInv, TypeOK
<1> QED BY <1>1 DEF TypeInv, TypeOK, LatestMessage, IsMessage

-----------------------------------------------------------------------------
(* Type correctness. *)

\* Rows written by the actions are rows.
LEMMA IdleTaskType ==
    IdleTask \in TaskRow /\ Ended \in TaskRow
<1>1. IdleTask \in TaskRow
  BY DEF IdleTask, TaskRow, Streaming, CleaningUp, NoTurn, NoCkpt
<1>2. \A row \in TaskRow : [row EXCEPT !.pc = "ended"] \in TaskRow
  BY DEF TaskRow
<1> QED BY <1>1, <1>2 DEF Ended

LEMMA NoRowType ==
    NoMessage \in MessageRow /\ NoVersion \in VersionRow /\ <<>> \in Seq(Turn)
BY DEF NoMessage, MessageRow, NoVersion, VersionRow, Status, Texts, EmptyText, NoTurn,
       NoCkpt, MaxVersions

LEMMA InitTypeInv == Init => TypeInv
<1> SUFFICES ASSUME Init PROVE TypeInv
  OBVIOUS
<1>1. TypeOK
  BY IdleTaskType, NoRowType DEF Init, TypeOK, NoCkpt
<1> QED BY <1>1 DEF TypeInv, IdsBounded, Init

LEMMA PlaceholderType ==
    ASSUME NEW m \in Turn, NEW index \in 0 .. MaxVersions, NEW parent \in Nat
    PROVE  Placeholder(m, index, parent) \in VersionRow
BY DEF Placeholder, VersionRow, Status, Texts, EmptyText, NoTurn, NoCkpt

LEMMA AnnounceType ==
    ASSUME TypeOK, NEW t \in Turn, NEW m \in Turn, NEW base \in Nat,
           NEW fallback \in Turn \cup {NoTurn}, Announce(t, m, base, fallback)
    PROVE  shown' \in [Turn -> MessageRow] /\ task' \in [Turn -> TaskRow]
<1>1. [current |-> t, status |-> "streaming", text |-> EmptyText] \in MessageRow
  BY DEF MessageRow, Status, Texts, EmptyText, NoTurn
<1>2. [IdleTask EXCEPT !.pc = "announced", !.msg = m,
                       !.base = base, !.fallback = fallback] \in TaskRow
  <2>1. \A row \in TaskRow : [row EXCEPT !.pc = "announced"] \in TaskRow
    BY DEF TaskRow, Streaming
  <2>2. \A row \in TaskRow : [row EXCEPT !.msg = m] \in TaskRow
    BY DEF TaskRow
  <2>3. \A row \in TaskRow : [row EXCEPT !.base = base] \in TaskRow
    BY DEF TaskRow
  <2>4. \A row \in TaskRow : [row EXCEPT !.fallback = fallback] \in TaskRow
    BY DEF TaskRow
  <2> QED BY <2>1, <2>2, <2>3, <2>4, IdleTaskType
<1> QED BY <1>1, <1>2 DEF Announce, TypeOK

LEMMA SaveType ==
    ASSUME TypeInv, NEW root \in BOOLEAN, NEW mem \in Seq(Exchange), Save(root, mem)
    PROVE  ckpts' \subseteq Ckpt /\ lastCkpt' \in Nat /\ IdsBounded'
<1>1. [id |-> lastCkpt + 1, root |-> root, mem |-> mem] \in Ckpt
  BY DEF Ckpt, NoCkpt, TypeInv, TypeOK
<1>2. ckpts' \subseteq Ckpt /\ lastCkpt' \in Nat
  BY <1>1 DEF Save, TypeInv, TypeOK
<1>3. \A c \in ckpts : c.id \in Nat
  BY DEF TypeInv, TypeOK, Ckpt, NoCkpt
<1>4. IdsBounded'
  BY <1>3 DEF Save, TypeInv, TypeOK, IdsBounded
<1> QED BY <1>2, <1>4

LEMMA WriteTurnType ==
    ASSUME TypeOK, NEW t \in Turn, NEW status \in Status, NEW text \in Texts,
           NEW result \in Nat, WriteTurn(t, status, text, result)
    PROVE  shown' \in [Turn -> MessageRow] /\ versions' \in [Turn -> VersionRow]
<1>1. [current |-> t, status |-> status, text |-> text] \in MessageRow
  BY DEF MessageRow
<1>2. shown' \in [Turn -> MessageRow]
  BY <1>1 DEF WriteTurn, TypeOK
<1>3. versions' \in [Turn -> VersionRow]
  BY DEF WriteTurn, TypeOK, VersionRow
<1> QED BY <1>2, <1>3

LEMMA EndType ==
    ASSUME TypeOK, NEW t \in Turn, End(t)
    PROVE  task' \in [Turn -> TaskRow]
BY IdleTaskType DEF End, TypeOK

\* Moving a turn on, with a new value of one of its locals.
LEMMA MoveOn ==
    ASSUME NEW row \in TaskRow, NEW pc \in Streaming \cup CleaningUp
    PROVE  /\ \A mem \in Seq(Exchange) :
                  [row EXCEPT !.pc = pc, !.mem = mem] \in TaskRow
           /\ \A ckpt \in Nat : [row EXCEPT !.pc = pc, !.ckpt = ckpt] \in TaskRow
           /\ \A ckpt \in Nat, o \in {"stopped", "failed"}, left \in BOOLEAN :
                  [row EXCEPT !.pc = pc, !.ckpt = ckpt, !.outcome = o, !.left = left]
                      \in TaskRow
<1>1. ASSUME NEW mem \in Seq(Exchange)
      PROVE  [row EXCEPT !.pc = pc, !.mem = mem] \in TaskRow
  <2>1. [row EXCEPT !.pc = pc] \in TaskRow
    BY DEF TaskRow
  <2>2. \A r \in TaskRow : [r EXCEPT !.mem = mem] \in TaskRow
    BY DEF TaskRow
  <2> QED BY <2>1, <2>2
<1>2. ASSUME NEW ckpt \in Nat
      PROVE  [row EXCEPT !.pc = pc, !.ckpt = ckpt] \in TaskRow
  <2>1. [row EXCEPT !.pc = pc] \in TaskRow
    BY DEF TaskRow
  <2>2. \A r \in TaskRow : [r EXCEPT !.ckpt = ckpt] \in TaskRow
    BY DEF TaskRow
  <2> QED BY <2>1, <2>2
<1>3. ASSUME NEW ckpt \in Nat, NEW o \in {"stopped", "failed"}, NEW left \in BOOLEAN
      PROVE  [row EXCEPT !.pc = pc, !.ckpt = ckpt, !.outcome = o, !.left = left]
                 \in TaskRow
  <2>1. \A r \in TaskRow : [r EXCEPT !.outcome = o] \in TaskRow
    BY DEF TaskRow
  <2>2. \A r \in TaskRow : [r EXCEPT !.left = left] \in TaskRow
    BY DEF TaskRow
  <2> QED BY <1>2, <2>1, <2>2
<1> QED BY <1>1, <1>2, <1>3

LEMMA TextType ==
    ASSUME NEW t \in Turn, NEW kind \in {"answer", "remains"}
    PROVE  Text(t, kind) \in Texts
BY DEF Text, Texts

LEMMA TypeStep ==
    ASSUME TypeInv, [Next]_vars
    PROVE  TypeInv'
<1>0. TypeOK /\ IdsBounded
  BY DEF TypeInv
<1>1. ASSUME NEW t \in Turn, BeginInvoke(t) PROVE TypeInv'
  <2>1. Placeholder(t, 1, Effective) \in VersionRow
    BY EffectiveNat, PlaceholderType DEF MaxVersions
  <2>2. shown' \in [Turn -> MessageRow] /\ task' \in [Turn -> TaskRow]
    BY <1>0, <1>1, EffectiveNat, AnnounceType DEF BeginInvoke
  <2>3. stable' \in Nat
    BY <1>0, <1>1, PersistedNat DEF BeginInvoke, TypeOK
  <2>4. messages' \in Seq(Turn) /\ versions' \in [Turn -> VersionRow]
    BY <1>0, <1>1, <2>1 DEF BeginInvoke, TypeOK
  <2> QED BY <1>0, <1>1, <2>2, <2>3, <2>4 DEF BeginInvoke, TypeInv, TypeOK, IdsBounded
<1>2. ASSUME NEW t \in Turn, BeginRegenerate(t) PROVE TypeInv'
  <2> DEFINE m == LatestMessage
  <2>1. m \in Turn /\ NextIndex(m) \in 0 .. MaxVersions
    BY <1>2, LatestIsMessage, NextIndexFresh DEF BeginRegenerate, MaxVersions
  <2>2. versions[m].parent \in Nat /\ shown[m].current \in Turn \cup {NoTurn}
    BY <1>0, <2>1 DEF TypeOK, VersionRow, MessageRow
  <2>3. Placeholder(m, NextIndex(m), versions[m].parent) \in VersionRow
    BY <2>1, <2>2, PlaceholderType
  <2>4. shown' \in [Turn -> MessageRow] /\ task' \in [Turn -> TaskRow]
    BY <1>0, <1>2, <2>1, <2>2, AnnounceType DEF BeginRegenerate
  <2>5. versions' \in [Turn -> VersionRow]
    BY <1>0, <1>2, <2>3 DEF BeginRegenerate, TypeOK
  <2> QED BY <1>0, <1>2, <2>4, <2>5 DEF BeginRegenerate, TypeInv, TypeOK, IdsBounded
<1>3. ASSUME NEW t \in Turn, Start(t) PROVE TypeInv'
  <2> DEFINE from == IF task[t].base # NoCkpt THEN task[t].base ELSE LatestCkpt
  <2>1. MemoryAt(from) \in Seq(Exchange)
    BY MemoryAtType
  <2>2. Save(from = NoCkpt, MemoryAt(from))
    BY <1>3 DEF Start
  <2>3. ckpts' \subseteq Ckpt /\ lastCkpt' \in Nat /\ IdsBounded'
    BY <2>1, <2>2, SaveType
  <2>4. task' \in [Turn -> TaskRow]
    <3>1. [task[t] EXCEPT !.pc = "started", !.mem = MemoryAt(from)] \in TaskRow
      BY <1>0, <2>1, MoveOn DEF TypeOK, Streaming
    <3> QED BY <1>0, <1>3, <3>1 DEF Start, TypeOK
  <2> QED BY <1>0, <1>3, <2>3, <2>4 DEF Start, TypeInv, TypeOK, rows
<1>4. ASSUME NEW t \in Turn, StepHalfway(t) PROVE TypeInv'
  <2>1. Append(task[t].mem, [turn |-> t, whole |-> FALSE]) \in Seq(Exchange)
    <3>1. [turn |-> t, whole |-> FALSE] \in Exchange
      BY DEF Exchange
    <3>2. task[t].mem \in Seq(Exchange)
      BY <1>0 DEF TypeOK, TaskRow
    <3> QED BY <3>1, <3>2
  <2>2. ckpts' \subseteq Ckpt /\ lastCkpt' \in Nat /\ IdsBounded'
    BY <1>4, <2>1, SaveType DEF StepHalfway
  <2>3. task' \in [Turn -> TaskRow]
    BY <1>0, <1>4 DEF StepHalfway, TypeOK, TaskRow, Streaming
  <2> QED BY <1>0, <1>4, <2>2, <2>3 DEF StepHalfway, TypeInv, TypeOK, rows
<1>5. ASSUME NEW t \in Turn, Answer(t) PROVE TypeInv'
  <2>1. Append(task[t].mem, [turn |-> t, whole |-> TRUE]) \in Seq(Exchange)
    <3>1. [turn |-> t, whole |-> TRUE] \in Exchange
      BY DEF Exchange
    <3>2. task[t].mem \in Seq(Exchange)
      BY <1>0 DEF TypeOK, TaskRow
    <3> QED BY <3>1, <3>2
  <2>2. ckpts' \subseteq Ckpt /\ lastCkpt' \in Nat /\ IdsBounded'
    BY <1>5, <2>1, SaveType DEF Answer
  <2>3. task' \in [Turn -> TaskRow]
    BY <1>0, <1>5 DEF Answer, TypeOK, TaskRow, Streaming
  <2> QED BY <1>0, <1>5, <2>2, <2>3 DEF Answer, TypeInv, TypeOK, rows
<1>6. ASSUME NEW t \in Turn, ReadLatest(t) PROVE TypeInv'
  <2>1. LatestCkpt \in Nat
    BY <1>0, LatestCkptType DEF TypeOK
  <2>2. task' \in [Turn -> TaskRow]
    <3>1. [task[t] EXCEPT !.pc = "completing", !.ckpt = LatestCkpt] \in TaskRow
      BY <1>0, <2>1, MoveOn DEF TypeOK, Streaming
    <3> QED BY <1>0, <1>6, <3>1 DEF ReadLatest, TypeOK
  <2> QED BY <1>0, <1>6, <2>2 DEF ReadLatest, TypeInv, TypeOK, rows, saver, IdsBounded
<1>7. ASSUME NEW t \in Turn, Complete(t) PROVE TypeInv'
  <2>1. task[t].ckpt \in Nat
    BY <1>0 DEF TypeOK, TaskRow
  <2>2. shown' \in [Turn -> MessageRow] /\ versions' \in [Turn -> VersionRow]
    BY <1>0, <1>7, <2>1, TextType, WriteTurnType DEF Complete, Status
  <2>3. task' \in [Turn -> TaskRow]
    BY <1>0, <1>7, EndType DEF Complete
  <2>4. stable' \in Nat
    BY <1>0, <1>7, <2>1 DEF Complete, TypeOK
  <2> QED BY <1>0, <1>7, <2>2, <2>3, <2>4
      DEF Complete, TypeInv, TypeOK, saver, IdsBounded
<1>8. ASSUME NEW t \in Turn, NEW o \in {"stopped", "failed"}, NEW left \in BOOLEAN,
             Interrupt(t, o, left)
      PROVE  TypeInv'
  <2>1. task' \in [Turn -> TaskRow] /\ stable' \in Nat
    <3>1. [task[t] EXCEPT !.pc = "pruning", !.ckpt = Persisted,
                          !.outcome = o, !.left = left] \in TaskRow
      BY <1>0, PersistedNat, MoveOn DEF TypeOK, CleaningUp
    <3> QED BY <1>0, <1>8, <3>1, PersistedNat DEF Interrupt, TypeOK
  <2> QED BY <1>0, <1>8, <2>1 DEF Interrupt, TypeInv, TypeOK, rows, saver, IdsBounded
<1>9. ASSUME NEW t \in Turn, Prune(t) PROVE TypeInv'
  <2>1. task' \in [Turn -> TaskRow]
    BY <1>0, <1>9 DEF Prune, TypeOK, TaskRow, CleaningUp
  <2> QED BY <1>0, <1>9, <2>1 DEF Prune, TypeInv, TypeOK, rows, IdsBounded
<1>10. ASSUME NEW t \in Turn, SettleInvoke(t) PROVE TypeInv'
  <2>1. task[t].outcome \in Status
    BY <1>0 DEF TypeOK, TaskRow, Status
  <2>2. shown' \in [Turn -> MessageRow] /\ versions' \in [Turn -> VersionRow]
    BY <1>0, <1>10, <2>1, TextType, WriteTurnType DEF SettleInvoke, NoCkpt
  <2>3. task' \in [Turn -> TaskRow]
    BY <1>0, <1>10, EndType DEF SettleInvoke
  <2> QED BY <1>0, <1>10, <2>2, <2>3 DEF SettleInvoke, TypeInv, TypeOK, saver, IdsBounded
<1>11. ASSUME NEW t \in Turn, SettleRegenerate(t) PROVE TypeInv'
  <2> DEFINE kept == [versions EXCEPT ![t] = NoVersion]
             f == task[t].fallback
  <2>1. kept \in [Turn -> VersionRow]
    BY <1>0 DEF TypeOK, NoVersion, VersionRow, Status, Texts, EmptyText, NoTurn, NoCkpt,
                MaxVersions
  <2>2. versions' \in [Turn -> VersionRow]
    BY <1>0, <1>11, <2>1 DEF SettleRegenerate, TypeOK
  <2>3. f \in Turn =>
            [current |-> f, status |-> kept[f].status, text |-> kept[f].text] \in MessageRow
    BY <2>1 DEF MessageRow, VersionRow
  <2>4. shown' \in [Turn -> MessageRow]
    BY <1>0, <1>11, <2>3 DEF SettleRegenerate, TypeOK
  <2>5. task' \in [Turn -> TaskRow]
    BY <1>0, <1>11, EndType DEF SettleRegenerate
  <2> QED BY <1>0, <1>11, <2>2, <2>4, <2>5
      DEF SettleRegenerate, TypeInv, TypeOK, saver, IdsBounded
<1>12. ASSUME NEW t \in Turn, Vanish(t) PROVE TypeInv'
  <2>1. task' \in [Turn -> TaskRow]
    BY <1>0, <1>12, EndType DEF Vanish
  <2> QED BY <1>0, <1>12, <2>1 DEF Vanish, TypeInv, TypeOK, rows, saver, IdsBounded
<1>13. ASSUME NEW v \in Turn, Switch(v) PROVE TypeInv'
  <2>1. [current |-> v, status |-> versions[v].status, text |-> versions[v].text]
            \in MessageRow
    BY <1>0 DEF TypeOK, VersionRow, MessageRow
  <2>2. shown' \in [Turn -> MessageRow] /\ stable' \in Nat
    BY <1>0, <1>13, <2>1 DEF Switch, TypeOK, VersionRow
  <2> QED BY <1>0, <1>13, <2>2 DEF Switch, TypeInv, TypeOK, saver, IdsBounded
<1>14. ASSUME DeleteSession PROVE TypeInv'
  <2>0. purges' \in Nat
    BY <1>0, <1>14 DEF DeleteSession, TypeOK
  <2>1. session' \in BOOLEAN /\ stable' \in Nat
    BY <1>14 DEF DeleteSession, NoCkpt
  <2>3. messages' \in Seq(Turn)
    BY <1>14, NoRowType DEF DeleteSession
  <2>4. shown' \in [Turn -> MessageRow] /\ versions' \in [Turn -> VersionRow]
    BY <1>14, NoRowType DEF DeleteSession
  <2>2. UNCHANGED <<ckpts, lastCkpt, task, env>>
    BY <1>14 DEF DeleteSession, saver
  <2> QED BY <1>0, <2>0, <2>1, <2>2, <2>3, <2>4 DEF TypeInv, TypeOK, IdsBounded
<1>15. ASSUME PurgeThread PROVE TypeInv'
  BY <1>0, <1>15 DEF PurgeThread, TypeInv, TypeOK, rows, IdsBounded
<1>16. ASSUME Crash PROVE TypeInv'
  <2>1. task' \in [Turn -> TaskRow]
    BY <1>0, <1>16, IdleTaskType DEF Crash, TypeOK
  <2> QED BY <1>0, <1>16, <2>1 DEF Crash, TypeInv, TypeOK, rows, saver, IdsBounded
<1>17. ASSUME UNCHANGED vars PROVE TypeInv'
  BY <1>0, <1>17 DEF vars, TypeInv, TypeOK, IdsBounded
<1> QED
  BY <1>1, <1>2, <1>3, <1>4, <1>5, <1>6, <1>7, <1>8, <1>9, <1>10, <1>11, <1>12,
     <1>13, <1>14, <1>15, <1>16, <1>17 DEF Next, Stop, Fail

\* Every state is a state of the tables: ids, statuses and indexes stay in range,
\* whatever happens.
THEOREM TypeCorrect == Spec => []TypeOK
<1>1. TypeInv => TypeOK
  BY DEF TypeInv
<1> QED BY <1>1, InitTypeInv, TypeStep, PTL DEF Spec

-----------------------------------------------------------------------------
(* The rows of messages and versions. *)

LEMMA InitRowsInv == Init => RowsInv
<1> SUFFICES ASSUME Init PROVE RowsInv
  OBVIOUS
<1>1. \A t \in Turn : ~Exists(t) /\ ~Live(t) /\ ~IsMessage(t) /\ shown[t].current # t
  BY DEF Init, Exists, Live, IsMessage, NoVersion, NoMessage, IdleTask, Streaming,
         CleaningUp, NoTurn, Turn
<1>2. Unused /\ Owned /\ NoSessionNoMessages
  BY <1>1 DEF Init, Unused, Owned, NoSessionNoMessages, NoMessage, NoTurn, Turn
<1>3. MirrorsCurrent /\ VersionsNumbered
  BY <1>1 DEF Init, MirrorsCurrent, VersionsNumbered
<1> QED BY <1>2, <1>3 DEF RowsInv

\* Moving turns on, or ending them, does not disturb the rows.
LEMMA RowsKept ==
    ASSUME RowsInv, UNCHANGED rows,
           \A t \in Turn :
              /\ task'[t].pc = "idle" => task[t].pc = "idle"
              /\ Live(t)' => Live(t) /\ task'[t].msg = task[t].msg
    PROVE  RowsInv'
<1>1. UNCHANGED <<session, messages, shown, versions>>
  BY DEF rows
<1>2. Unused'
  BY <1>1 DEF RowsInv, Unused, Exists, IsMessage
<1>3. Owned'
  BY <1>1 DEF RowsInv, Owned, Exists, IsMessage
<1>4. NoSessionNoMessages' /\ MirrorsCurrent' /\ VersionsNumbered'
  BY <1>1 DEF RowsInv, NoSessionNoMessages, MirrorsCurrent, VersionsNumbered,
              Exists, IsMessage, VersionsOf
<1> QED BY <1>2, <1>3, <1>4 DEF RowsInv

\* Facts about the messages, for either state.
LEMMA MessageIsTurn ==
    ASSUME TypeInv, NEW m, IsMessage(m)
    PROVE  m \in Turn /\ m # NoTurn
<1>1. PICK i \in DOMAIN messages : messages[i] = m
  BY DEF IsMessage
<1>2. m \in Turn
  BY <1>1 DEF TypeInv, TypeOK
<1> QED BY <1>2 DEF NoTurn, Turn

LEMMA MessageAt ==
    ASSUME TypeInv, NEW i \in DOMAIN messages
    PROVE  messages[i] \in Turn /\ IsMessage(messages[i])
BY DEF TypeInv, TypeOK, IsMessage

\* The two invariants over positions, read as facts about messages.
LEMMA ByMessage ==
    /\ MirrorsCurrent <=>
        \A m : IsMessage(m) /\ Exists(shown[m].current) =>
            /\ versions[shown[m].current].msg = m
            /\ shown[m].status = versions[shown[m].current].status
            /\ shown[m].text = versions[shown[m].current].text
    /\ VersionsNumbered <=>
        /\ \A v \in Turn : Exists(v) => IsMessage(versions[v].msg)
        /\ \A m : IsMessage(m) =>
            /\ versions[m].msg = m /\ versions[m].index = 1
            /\ \A v, w \in VersionsOf(m) : versions[v].index = versions[w].index => v = w
BY DEF MirrorsCurrent, VersionsNumbered, IsMessage

LEMMA BeginInvokeRows ==
    ASSUME TypeInv, RowsInv, NEW t \in Turn, BeginInvoke(t)
    PROVE  RowsInv'
<1>1. task[t].pc = "idle"
  BY DEF BeginInvoke, Request
<1>2. ~Exists(t) /\ ~IsMessage(t) /\ \A m \in Turn : shown[m].current # t
  BY <1>1 DEF RowsInv, Unused
<1>3. \A m : IsMessage(m)' <=> IsMessage(m) \/ m = t
  <2>1. messages \in Seq(Turn) /\ messages' = Append(messages, t)
    BY DEF BeginInvoke, TypeInv, TypeOK
  <2>2. /\ DOMAIN messages = 1 .. Len(messages) /\ Len(messages) \in Nat
        /\ DOMAIN messages' = 1 .. Len(messages) + 1
        /\ \A i \in DOMAIN messages : messages'[i] = messages[i]
        /\ messages'[Len(messages) + 1] = t
    BY <2>1
  <2>3. ASSUME NEW m, IsMessage(m) PROVE IsMessage(m)'
    BY <2>2, <2>3 DEF IsMessage
  <2>4. IsMessage(t)'
    BY <2>2 DEF IsMessage
  <2>5. ASSUME NEW m, IsMessage(m)', m # t PROVE IsMessage(m)
    <3>1. PICK i \in DOMAIN messages' : messages'[i] = m
      BY <2>5 DEF IsMessage
    <3>2. i \in DOMAIN messages
      BY <2>2, <2>5, <3>1
    <3> QED BY <2>2, <3>1, <3>2 DEF IsMessage
  <2> QED BY <2>3, <2>4, <2>5
<1>4. versions' = [versions EXCEPT ![t] = Placeholder(t, 1, Effective)]
  BY DEF BeginInvoke
<1>5. /\ shown' = [shown EXCEPT ![t] =
                    [current |-> t, status |-> "streaming", text |-> EmptyText]]
      /\ \A u \in Turn : u # t => task'[u] = task[u]
      /\ task'[t].msg = t /\ task'[t].pc = "announced"
  BY DEF BeginInvoke, Announce, TypeInv, TypeOK, IdleTask
<1>6. /\ versions'[t] = Placeholder(t, 1, Effective)
      /\ \A u \in Turn : u # t => versions'[u] = versions[u] /\ shown'[u] = shown[u]
      /\ shown'[t] = [current |-> t, status |-> "streaming", text |-> EmptyText]
  BY <1>4, <1>5 DEF TypeInv, TypeOK
<1>7. t # NoTurn /\ \A v \in Turn : v # t => (Exists(v)' <=> Exists(v))
  BY <1>6 DEF Exists, Turn, NoTurn
<1>8. Unused'
  BY <1>2, <1>3, <1>5, <1>6, <1>7 DEF RowsInv, Unused
<1>9. Owned'
  <2>1. versions'[t].msg = t /\ versions'[t].status = "streaming"
    BY <1>6 DEF Placeholder
  <2>2. ASSUME NEW u \in Turn, Live(u)', u # t
        PROVE  /\ task'[u].msg \in Turn
               /\ Exists(u)' => /\ versions'[u].msg = task'[u].msg
                                /\ versions'[u].status = "streaming"
               /\ IsMessage(u)' => task'[u].msg = u
    BY <1>3, <1>5, <1>6, <1>7, <2>2 DEF RowsInv, Owned, Live
  <2> QED BY <1>5, <2>1, <2>2 DEF Owned
<1>10. NoSessionNoMessages'
  BY DEF BeginInvoke, NoSessionNoMessages
<1>11. MirrorsCurrent'
  <2> SUFFICES ASSUME NEW m, IsMessage(m)', Exists(shown[m].current)'
               PROVE  /\ versions'[shown'[m].current].msg = m
                      /\ shown'[m].status = versions'[shown'[m].current].status
                      /\ shown'[m].text = versions'[shown'[m].current].text
    BY DEF MirrorsCurrent, IsMessage
  <2>1. CASE m = t
    BY <1>6, <2>1 DEF Placeholder
  <2>2. CASE m # t
    <3>1. IsMessage(m) /\ m \in Turn
      BY <1>3, <2>2, MessageIsTurn
    <3>2. shown'[m] = shown[m] /\ shown[m].current # t /\ shown[m].current \in Turn
      BY <1>2, <1>6, <2>2, <3>1 DEF Exists
    <3>3. Exists(shown[m].current)
      BY <1>7, <3>2 DEF Exists
    <3> QED BY <1>6, <3>1, <3>2, <3>3, ByMessage DEF RowsInv
  <2> QED BY <2>1, <2>2
<1>12. VersionsNumbered'
  <2>1. \A v \in Turn : Exists(v)' => IsMessage(versions[v].msg)'
    <3> SUFFICES ASSUME NEW v \in Turn, Exists(v)' PROVE IsMessage(versions[v].msg)'
      OBVIOUS
    <3>1. CASE v = t
      BY <1>3, <1>6, <3>1 DEF Placeholder
    <3>2. CASE v # t
      BY <1>3, <1>6, <1>7, <3>2, ByMessage DEF RowsInv
    <3> QED BY <3>1, <3>2
  <2>2. ASSUME NEW m, IsMessage(m)'
        PROVE  /\ versions'[m].msg = m /\ versions'[m].index = 1
               /\ \A v, w \in VersionsOf(m)' : versions'[v].index = versions'[w].index => v = w
    <3>1. CASE m = t
      <4>1. \A v \in Turn : v # t => versions[v].msg # t
        BY <1>2, <1>7, ByMessage DEF RowsInv, Exists
      <4>2. VersionsOf(t)' = {t}
        BY <1>6, <4>1 DEF VersionsOf, Placeholder
      <4> QED BY <1>6, <3>1, <4>2 DEF Placeholder
    <3>2. CASE m # t
      <4>1. IsMessage(m) /\ m \in Turn
        BY <1>3, <2>2, <3>2, MessageIsTurn
      <4>2. VersionsOf(m)' = VersionsOf(m)
        <5>1. versions'[t].msg # m
          BY <1>6, <3>2 DEF Placeholder
        <5>2. versions[t].msg # m
          BY <1>2, <4>1, MessageIsTurn DEF Exists
        <5> QED BY <1>6, <5>1, <5>2 DEF VersionsOf
      <4>3. t \notin VersionsOf(m)'
        BY <1>6, <3>2 DEF Placeholder, VersionsOf
      <4> QED BY <1>6, <3>2, <4>1, <4>2, <4>3, ByMessage DEF RowsInv, VersionsOf
    <3> QED BY <3>1, <3>2
  <2> QED BY <2>1, <2>2 DEF VersionsNumbered, IsMessage
<1> QED BY <1>8, <1>9, <1>10, <1>11, <1>12 DEF RowsInv

LEMMA BeginRegenerateRows ==
    ASSUME TypeInv, RowsInv, NEW t \in Turn, BeginRegenerate(t)
    PROVE  RowsInv'
<1> DEFINE m == LatestMessage
           row == Placeholder(m, NextIndex(m), versions[m].parent)
<1>1. task[t].pc = "idle" /\ messages # <<>> /\ UNCHANGED <<session, messages>>
  BY DEF BeginRegenerate, Request
<1>2. ~Exists(t) /\ ~IsMessage(t) /\ \A k \in Turn : shown[k].current # t
  BY <1>1 DEF RowsInv, Unused
<1>3. m \in Turn /\ IsMessage(m) /\ m # t
  BY <1>1, <1>2, LatestIsMessage
<1>4. /\ versions' = [versions EXCEPT ![t] = row]
      /\ shown' = [shown EXCEPT ![m] =
                    [current |-> t, status |-> "streaming", text |-> EmptyText]]
      /\ \A u \in Turn : u # t => task'[u] = task[u]
      /\ task'[t].msg = m /\ task'[t].pc = "announced"
  BY DEF BeginRegenerate, Announce, TypeInv, TypeOK, IdleTask
<1>5. /\ versions'[t] = row
      /\ \A u \in Turn : u # t => versions'[u] = versions[u]
      /\ \A u \in Turn : u # m => shown'[u] = shown[u]
      /\ shown'[m] = [current |-> t, status |-> "streaming", text |-> EmptyText]
      /\ row.msg = m /\ row.status = "streaming" /\ row.text = EmptyText
      /\ row.index = NextIndex(m)
  BY <1>3, <1>4 DEF TypeInv, TypeOK, Placeholder
<1> HIDE DEF m, row
<1>6. \A k : IsMessage(k)' <=> IsMessage(k)
  BY <1>1 DEF IsMessage
<1>7. t # NoTurn /\ \A v \in Turn : v # t => (Exists(v)' <=> Exists(v))
  BY <1>5 DEF Exists, Turn, NoTurn
<1>8. Unused'
  BY <1>1, <1>2, <1>4, <1>5, <1>6, <1>7 DEF RowsInv, Unused
<1>9. Owned'
  <2>1. ASSUME NEW u \in Turn, Live(u)', u # t
        PROVE  /\ task'[u].msg \in Turn
               /\ Exists(u)' => /\ versions'[u].msg = task'[u].msg
                                /\ versions'[u].status = "streaming"
               /\ IsMessage(u)' => task'[u].msg = u
    BY <1>4, <1>5, <1>6, <1>7, <2>1 DEF RowsInv, Owned, Live
  <2> QED BY <1>2, <1>3, <1>4, <1>5, <1>6, <2>1 DEF Owned
<1>10. NoSessionNoMessages'
  BY <1>1 DEF RowsInv, NoSessionNoMessages
<1>11. MirrorsCurrent'
  <2> SUFFICES ASSUME NEW k, IsMessage(k)', Exists(shown[k].current)'
               PROVE  /\ versions'[shown'[k].current].msg = k
                      /\ shown'[k].status = versions'[shown'[k].current].status
                      /\ shown'[k].text = versions'[shown'[k].current].text
    BY DEF MirrorsCurrent, IsMessage
  <2>1. CASE k = m
    BY <1>5, <2>1
  <2>2. CASE k # m
    <3>1. IsMessage(k) /\ k \in Turn
      BY <1>6, MessageIsTurn
    <3>2. shown'[k] = shown[k] /\ shown[k].current # t /\ shown[k].current \in Turn
      BY <1>2, <1>5, <2>2, <3>1 DEF Exists
    <3>3. Exists(shown[k].current)
      BY <1>7, <3>2 DEF Exists
    <3> QED BY <1>5, <3>1, <3>2, <3>3, ByMessage DEF RowsInv
  <2> QED BY <2>1, <2>2
<1>12. VersionsNumbered'
  <2>1. ASSUME NEW v \in Turn, Exists(v)' PROVE IsMessage(versions[v].msg)'
    <3>1. CASE v = t
      BY <1>3, <1>5, <1>6, <3>1
    <3>2. CASE v # t
      BY <1>5, <1>6, <1>7, <2>1, <3>2, ByMessage DEF RowsInv
    <3> QED BY <3>1, <3>2
  <2>2. ASSUME NEW k, IsMessage(k)'
        PROVE  /\ versions'[k].msg = k /\ versions'[k].index = 1
               /\ \A v, w \in VersionsOf(k)' : versions'[v].index = versions'[w].index => v = w
    <3>1. IsMessage(k) /\ k \in Turn /\ k # t
      BY <1>2, <1>6, <2>2, MessageIsTurn
    <3>2. /\ versions[k].msg = k /\ versions[k].index = 1
          /\ \A v, w \in VersionsOf(k) : versions[v].index = versions[w].index => v = w
      BY <3>1, ByMessage DEF RowsInv
    <3>3. \A v \in VersionsOf(k)' : v # t => v \in VersionsOf(k)
      BY <1>5 DEF VersionsOf
    <3>4. CASE k = m
      <4>1. /\ \A v \in VersionsOf(k) : versions[v].index < versions'[t].index
            /\ NextIndex(m) \in Nat
        BY <1>3, <1>5, <3>4, NextIndexFresh
      <4>2. \A v \in VersionsOf(k) : v \in Turn /\ versions[v].index \in Nat
        BY DEF VersionsOf, TypeInv, TypeOK, VersionRow
      <4>3. \A v \in VersionsOf(k)' : v \in Turn
        BY DEF VersionsOf
      <4>4. \A v \in VersionsOf(k)' : v # t => versions'[v].index # versions'[t].index
        BY <1>5, <3>3, <4>1, <4>2
      <4> QED BY <1>5, <3>1, <3>2, <3>3, <4>2, <4>3, <4>4
    <3>5. CASE k # m
      <4>1. t \notin VersionsOf(k)'
        BY <1>5, <3>5 DEF VersionsOf
      <4>2. \A v \in VersionsOf(k)' : v \in Turn
        BY DEF VersionsOf
      <4> QED BY <1>5, <3>1, <3>2, <3>3, <4>1, <4>2
    <3> QED BY <3>4, <3>5
  <2> QED BY <2>1, <2>2 DEF VersionsNumbered, IsMessage
<1> QED BY <1>8, <1>9, <1>10, <1>11, <1>12 DEF RowsInv

\* The end of a turn, whole or interrupted, writes its own version and message.
LEMMA WriteTurnRows ==
    ASSUME TypeInv, RowsInv, NEW t \in Turn, Live(t),
           NEW status \in Status, NEW text \in Texts, NEW result \in Nat,
           WriteTurn(t, status, text, result), End(t), UNCHANGED <<session, messages>>
    PROVE  RowsInv'
<1> DEFINE m == task[t].msg
<1>1. /\ m \in Turn
      /\ Exists(t) => versions[t].msg = m
      /\ IsMessage(t) => m = t
  BY DEF RowsInv, Owned
<1>2. /\ \A u \in Turn : u # t => task'[u] = task[u]
      /\ task'[t].pc = "ended" /\ ~Live(t)'
  BY DEF End, Ended, IdleTask, TypeInv, TypeOK, Live, Streaming, CleaningUp
<1>3. /\ \A u \in Turn : u # t => versions'[u] = versions[u]
      /\ versions'[t].msg = versions[t].msg /\ versions'[t].index = versions[t].index
      /\ \A u \in Turn : u # m => shown'[u] = shown[u]
      /\ session /\ Exists(t) => versions'[t].status = status /\ versions'[t].text = text
      /\ session /\ IsMessage(m) =>
            shown'[m] = [current |-> t, status |-> status, text |-> text]
      /\ ~(session /\ IsMessage(m)) => shown' = shown
      /\ ~(session /\ Exists(t)) => versions' = versions
  BY <1>1 DEF WriteTurn, TypeInv, TypeOK, VersionRow
<1>4. \A k : IsMessage(k)' <=> IsMessage(k)
  BY DEF IsMessage
<1>5. \A u : Exists(u)' <=> Exists(u)
  BY <1>3 DEF Exists
<1>6. \A k : IsMessage(k) => session
  BY DEF RowsInv, NoSessionNoMessages, IsMessage
<1> HIDE DEF m
<1>7. Unused'
  <2> SUFFICES ASSUME NEW u \in Turn, task'[u].pc = "idle"
               PROVE  ~Exists(u)' /\ ~IsMessage(u)' /\ \A k \in Turn : shown'[k].current # u
    BY DEF Unused
  <2>1. u # t /\ task[u].pc = "idle"
    BY <1>2
  <2>2. ~Exists(u) /\ ~IsMessage(u) /\ \A k \in Turn : shown[k].current # u
    BY <2>1 DEF RowsInv, Unused
  <2>3. \A k \in Turn : shown'[k].current # u
    BY <1>3, <2>1, <2>2
  <2> QED BY <1>4, <1>5, <2>2, <2>3
<1>8. Owned'
  <2> SUFFICES ASSUME NEW u \in Turn, Live(u)'
               PROVE  /\ task'[u].msg \in Turn
                      /\ Exists(u)' => /\ versions'[u].msg = task'[u].msg
                                       /\ versions'[u].status = "streaming"
                      /\ IsMessage(u)' => task'[u].msg = u
    BY DEF Owned
  <2>1. u # t /\ Live(u)
    BY <1>2 DEF Live
  <2> QED BY <1>2, <1>3, <1>4, <1>5, <2>1 DEF RowsInv, Owned
<1>9. NoSessionNoMessages'
  BY DEF RowsInv, NoSessionNoMessages
<1>10. MirrorsCurrent'
  <2> SUFFICES ASSUME NEW k, IsMessage(k)', Exists(shown[k].current)'
               PROVE  /\ versions'[shown'[k].current].msg = k
                      /\ shown'[k].status = versions'[shown'[k].current].status
                      /\ shown'[k].text = versions'[shown'[k].current].text
    BY DEF MirrorsCurrent, IsMessage
  <2>0. IsMessage(k) /\ k \in Turn /\ session
    BY <1>4, <1>6, MessageIsTurn
  <2>1. CASE k = m
    BY <1>1, <1>3, <1>5, <2>0, <2>1
  <2>2. CASE k # m
    <3>1. shown'[k] = shown[k] /\ Exists(shown[k].current)
      BY <1>3, <1>5, <2>0, <2>2
    <3>2. /\ versions[shown[k].current].msg = k
          /\ shown[k].status = versions[shown[k].current].status
          /\ shown[k].text = versions[shown[k].current].text
      BY <2>0, <3>1, ByMessage DEF RowsInv
    <3>3. shown[k].current # t
      BY <1>1, <2>2, <3>1, <3>2
    <3> QED BY <1>3, <3>1, <3>2, <3>3 DEF Exists
  <2> QED BY <2>1, <2>2
<1>11. VersionsNumbered'
  <2>1. ASSUME NEW v \in Turn, Exists(v)' PROVE IsMessage(versions[v].msg)'
    BY <1>3, <1>4, <1>5, <2>1, ByMessage DEF RowsInv
  <2>2. \A k : VersionsOf(k)' = VersionsOf(k)
    BY <1>3 DEF VersionsOf
  <2>3. \A v \in Turn : versions'[v].index = versions[v].index
    BY <1>3
  <2>4. ASSUME NEW k, IsMessage(k)'
        PROVE  /\ versions'[k].msg = k /\ versions'[k].index = 1
               /\ \A v, w \in VersionsOf(k)' : versions'[v].index = versions'[w].index => v = w
    <3>1. IsMessage(k) /\ k \in Turn
      BY <1>4, <2>4, MessageIsTurn
    <3> QED BY <1>3, <2>2, <2>3, <3>1, ByMessage DEF RowsInv, VersionsOf
  <2> QED BY <2>1, <2>4 DEF VersionsNumbered, IsMessage
<1> QED BY <1>7, <1>8, <1>9, <1>10, <1>11 DEF RowsInv

LEMMA SettleRegenerateRows ==
    ASSUME TypeInv, RowsInv, NEW t \in Turn, SettleRegenerate(t)
    PROVE  RowsInv'
<1> DEFINE m == task[t].msg
           f == task[t].fallback
           restored == session /\ f \in Turn /\ f # t /\ IsMessage(m) /\ versions[f].msg = m
<1>1. /\ Live(t) /\ m # t
      /\ UNCHANGED <<session, messages>>
  BY DEF SettleRegenerate, Live, CleaningUp
<1>2. m \in Turn /\ ~IsMessage(t) /\ m # NoTurn
  BY <1>1 DEF RowsInv, Owned, Turn, NoTurn
<1>3. /\ \A u \in Turn : u # t => task'[u] = task[u]
      /\ task'[t].pc = "ended" /\ ~Live(t)'
  BY DEF SettleRegenerate, End, Ended, IdleTask, TypeInv, TypeOK, Live, Streaming, CleaningUp
<1>4. /\ \A u \in Turn : u # t => versions'[u] = versions[u]
      /\ session => versions'[t].msg = NoTurn
      /\ \A u \in Turn : u # m => shown'[u] = shown[u]
      /\ restored => /\ shown'[m].current = f
                     /\ shown'[m].status = versions[f].status
                     /\ shown'[m].text = versions[f].text
      /\ ~restored => shown' = shown
  BY <1>1, <1>2 DEF SettleRegenerate, TypeInv, TypeOK, VersionRow, NoVersion
<1>5. \A k : IsMessage(k)' <=> IsMessage(k)
  BY <1>1 DEF IsMessage
<1>6. \A k : IsMessage(k) => session
  BY DEF RowsInv, NoSessionNoMessages, IsMessage
<1>7. \A v : Exists(v) => v \in Turn /\ session
  BY <1>6, ByMessage DEF RowsInv, Exists
<1>8. \A v : Exists(v)' <=> Exists(v) /\ v # t
  <2>1. CASE session
    BY <1>4, <2>1 DEF Exists
  <2>2. CASE ~session
    <3>1. versions' = versions
      BY <2>2 DEF SettleRegenerate
    <3> QED BY <1>7, <2>2, <3>1 DEF Exists
  <2> QED BY <2>1, <2>2
<1> HIDE DEF m, f, restored
<1>9. Unused'
  <2> SUFFICES ASSUME NEW u \in Turn, task'[u].pc = "idle"
               PROVE  ~Exists(u)' /\ ~IsMessage(u)' /\ \A k \in Turn : shown'[k].current # u
    BY DEF Unused
  <2>1. u # t /\ task[u].pc = "idle"
    BY <1>3
  <2>2. ~Exists(u) /\ ~IsMessage(u) /\ \A k \in Turn : shown[k].current # u
    BY <2>1 DEF RowsInv, Unused
  <2>3. restored => f # u
    BY <1>2, <2>2 DEF restored, Exists
  <2>4. \A k \in Turn : shown'[k].current # u
    BY <1>4, <2>2, <2>3
  <2> QED BY <1>5, <1>8, <2>2, <2>4
<1>10. Owned'
  <2> SUFFICES ASSUME NEW u \in Turn, Live(u)'
               PROVE  /\ task'[u].msg \in Turn
                      /\ Exists(u)' => /\ versions'[u].msg = task'[u].msg
                                       /\ versions'[u].status = "streaming"
                      /\ IsMessage(u)' => task'[u].msg = u
    BY DEF Owned
  <2>1. u # t /\ Live(u)
    BY <1>3 DEF Live
  <2> QED BY <1>3, <1>4, <1>5, <1>8, <2>1 DEF RowsInv, Owned
<1>11. NoSessionNoMessages'
  BY <1>1 DEF RowsInv, NoSessionNoMessages
<1>12. MirrorsCurrent'
  <2> SUFFICES ASSUME NEW k, IsMessage(k)', Exists(shown[k].current)'
               PROVE  /\ versions'[shown'[k].current].msg = k
                      /\ shown'[k].status = versions'[shown'[k].current].status
                      /\ shown'[k].text = versions'[shown'[k].current].text
    BY DEF MirrorsCurrent, IsMessage
  <2>0. IsMessage(k) /\ k \in Turn
    BY <1>5, MessageIsTurn
  <2>1. CASE k = m /\ restored
    BY <1>4, <2>1 DEF restored
  <2>2. CASE ~(k = m /\ restored)
    <3>1. shown'[k] = shown[k]
      BY <1>4, <2>0, <2>2
    <3>2. Exists(shown[k].current) /\ shown[k].current # t
      BY <1>8, <3>1 DEF Exists
    <3> QED BY <1>4, <2>0, <3>1, <3>2, ByMessage DEF RowsInv, Exists
  <2> QED BY <2>1, <2>2
<1>13. VersionsNumbered'
  <2>1. ASSUME NEW v \in Turn, Exists(v)' PROVE IsMessage(versions[v].msg)'
    BY <1>4, <1>5, <1>8, <2>1, ByMessage DEF RowsInv
  <2>2. ASSUME NEW k, IsMessage(k)'
        PROVE  /\ versions'[k].msg = k /\ versions'[k].index = 1
               /\ \A v, w \in VersionsOf(k)' : versions'[v].index = versions'[w].index => v = w
    <3>1. IsMessage(k) /\ k \in Turn /\ k # t /\ k # NoTurn /\ session
      BY <1>2, <1>5, <1>6, <2>2, MessageIsTurn
    <3>2. t \notin VersionsOf(k)'
      BY <1>4, <3>1 DEF VersionsOf
    <3>3. \A v \in VersionsOf(k)' : v \in VersionsOf(k) /\ versions'[v] = versions[v]
      BY <1>4, <3>2 DEF VersionsOf
    <3> QED BY <1>4, <3>1, <3>3, ByMessage DEF RowsInv
  <2> QED BY <2>1, <2>2 DEF VersionsNumbered, IsMessage
<1> QED BY <1>9, <1>10, <1>11, <1>12, <1>13 DEF RowsInv

LEMMA SwitchRows ==
    ASSUME TypeInv, RowsInv, NEW v \in Turn, Switch(v)
    PROVE  RowsInv'
<1> DEFINE m == LatestMessage
<1>1. m \in Turn /\ IsMessage(m) /\ versions[v].msg = m /\ m # NoTurn
  BY LatestIsMessage, MessageIsTurn DEF Switch
<1>2. /\ UNCHANGED <<session, messages, versions, task>>
      /\ \A u \in Turn : u # m => shown'[u] = shown[u]
      /\ shown'[m] = [current |-> v, status |-> versions[v].status,
                      text |-> versions[v].text]
  BY <1>1 DEF Switch, TypeInv, TypeOK
<1> HIDE DEF m
<1>3. Exists(v)
  BY <1>1 DEF Exists
<1>4. Unused'
  BY <1>2, <1>3 DEF RowsInv, Unused, Exists, IsMessage
<1>5. Owned' /\ NoSessionNoMessages' /\ VersionsNumbered'
  BY <1>2 DEF RowsInv, Owned, NoSessionNoMessages, VersionsNumbered,
              Live, Exists, IsMessage, VersionsOf
<1>6. MirrorsCurrent'
  <2> SUFFICES ASSUME NEW k, IsMessage(k)', Exists(shown[k].current)'
               PROVE  /\ versions'[shown'[k].current].msg = k
                      /\ shown'[k].status = versions'[shown'[k].current].status
                      /\ shown'[k].text = versions'[shown'[k].current].text
    BY DEF MirrorsCurrent, IsMessage
  <2>1. IsMessage(k) /\ k \in Turn
    BY <1>2, MessageIsTurn DEF IsMessage
  <2>2. CASE k = m
    BY <1>1, <1>2, <2>2
  <2>3. CASE k # m
    BY <1>2, <2>1, <2>3, ByMessage DEF RowsInv, Exists
  <2> QED BY <2>2, <2>3
<1> QED BY <1>4, <1>5, <1>6 DEF RowsInv

LEMMA DeleteSessionRows ==
    ASSUME TypeInv, RowsInv, DeleteSession
    PROVE  RowsInv'
<1>1. /\ messages' = <<>> /\ UNCHANGED task
      /\ \A u \in Turn : versions'[u].msg = NoTurn /\ shown'[u].current = NoTurn
  BY DEF DeleteSession, NoVersion, NoMessage
<1>2. \A u : ~IsMessage(u)' /\ ~Exists(u)'
  BY <1>1 DEF IsMessage, Exists
<1>3. Unused' /\ Owned'
  BY <1>1, <1>2 DEF RowsInv, Unused, Owned, Live, Turn, NoTurn
<1>4. NoSessionNoMessages' /\ MirrorsCurrent' /\ VersionsNumbered'
  BY <1>1, <1>2 DEF NoSessionNoMessages, MirrorsCurrent, VersionsNumbered
<1> QED BY <1>3, <1>4 DEF RowsInv

LEMMA RowsStep ==
    ASSUME TypeInv, RowsInv, [Next]_vars
    PROVE  RowsInv'
<1>0. task \in [Turn -> TaskRow]
  BY DEF TypeInv, TypeOK
<1>1. ASSUME NEW t \in Turn,
             Start(t) \/ StepHalfway(t) \/ Answer(t) \/ ReadLatest(t) \/ Prune(t)
      PROVE  RowsInv'
  <2>1. UNCHANGED rows
    BY <1>1 DEF Start, StepHalfway, Answer, ReadLatest, Prune
  <2>2. /\ Live(t) /\ \A u \in Turn : u # t => task'[u] = task[u]
        /\ task'[t].pc \in Streaming \cup CleaningUp /\ task'[t].msg = task[t].msg
    <3>1. CASE Start(t)
      BY <1>0, <3>1 DEF Start, TaskRow, Live, Streaming
    <3>2. CASE StepHalfway(t)
      BY <1>0, <3>2 DEF StepHalfway, TaskRow, Live, Streaming
    <3>3. CASE Answer(t)
      BY <1>0, <3>3 DEF Answer, TaskRow, Live, Streaming
    <3>4. CASE ReadLatest(t)
      BY <1>0, <3>4 DEF ReadLatest, TaskRow, Live, Streaming
    <3>5. CASE Prune(t)
      BY <1>0, <3>5 DEF Prune, TaskRow, Live, CleaningUp
    <3> QED BY <1>1, <3>1, <3>2, <3>3, <3>4, <3>5
  <2>3. task'[t].pc # "idle"
    BY <2>2 DEF Streaming, CleaningUp
  <2>4. \A u \in Turn : /\ task'[u].pc = "idle" => task[u].pc = "idle"
                        /\ Live(u)' => Live(u) /\ task'[u].msg = task[u].msg
    BY <2>2, <2>3 DEF Live
  <2> QED BY <2>1, <2>4, RowsKept
<1>2. ASSUME NEW t \in Turn, NEW o, NEW left, Interrupt(t, o, left)
      PROVE  RowsInv'
  <2>1. UNCHANGED rows
    BY <1>2 DEF Interrupt
  <2>2. /\ Live(t) /\ \A u \in Turn : u # t => task'[u] = task[u]
        /\ task'[t].pc = "pruning" /\ task'[t].msg = task[t].msg
    BY <1>0, <1>2 DEF Interrupt, TaskRow, Live
  <2>3. \A u \in Turn : /\ task'[u].pc = "idle" => task[u].pc = "idle"
                        /\ Live(u)' => Live(u) /\ task'[u].msg = task[u].msg
    BY <2>2 DEF Live
  <2> QED BY <2>1, <2>3, RowsKept
<1>3. ASSUME NEW t \in Turn, Complete(t) PROVE RowsInv'
  <2>1. task[t].ckpt \in Nat /\ Live(t) /\ Text(t, "answer") \in Texts
    BY <1>0, <1>3 DEF TaskRow, Complete, Live, Streaming, Text, Texts
  <2> QED BY <1>3, <2>1, WriteTurnRows DEF Complete, Status
<1>4. ASSUME NEW t \in Turn, SettleInvoke(t) PROVE RowsInv'
  <2>1. task[t].outcome \in Status /\ Live(t) /\ Text(t, "remains") \in Texts
    BY <1>0, <1>4 DEF TaskRow, SettleInvoke, Live, CleaningUp, Text, Texts, Status
  <2> QED BY <1>4, <2>1, WriteTurnRows DEF SettleInvoke, NoCkpt
<1>5. Ended.pc = "ended" /\ "ended" \notin Streaming \cup CleaningUp
  BY DEF Ended, IdleTask, Streaming, CleaningUp
<1>6. ASSUME NEW t \in Turn, Vanish(t) PROVE RowsInv'
  <2>1. \A u \in Turn : /\ task'[u].pc = "idle" => task[u].pc = "idle"
                        /\ Live(u)' => Live(u) /\ task'[u].msg = task[u].msg
    BY <1>0, <1>5, <1>6 DEF Vanish, End, Live
  <2> QED BY <1>6, <2>1, RowsKept DEF Vanish
<1>7. ASSUME Crash PROVE RowsInv'
  <2>1. \A u \in Turn : /\ task'[u].pc = "idle" => task[u].pc = "idle"
                        /\ Live(u)' => Live(u) /\ task'[u].msg = task[u].msg
    BY <1>0, <1>5, <1>7 DEF Crash, Live
  <2> QED BY <1>7, <2>1, RowsKept DEF Crash
<1>8. ASSUME PurgeThread \/ UNCHANGED vars PROVE RowsInv'
  <2>1. UNCHANGED <<rows, task>>
    BY <1>8 DEF PurgeThread, vars, rows
  <2> QED BY <2>1, RowsKept DEF Live
<1> QED
  BY <1>1, <1>2, <1>3, <1>4, <1>6, <1>7, <1>8, BeginInvokeRows, BeginRegenerateRows,
     SettleRegenerateRows, SwitchRows, DeleteSessionRows DEF Next, Stop, Fail

LEMMA RowsAlways == Spec => [](TypeInv /\ RowsInv)
<1>1. Init => TypeInv /\ RowsInv
  BY InitTypeInv, InitRowsInv
<1>2. (TypeInv /\ RowsInv) /\ [Next]_vars => (TypeInv /\ RowsInv)'
  BY TypeStep, RowsStep
<1> QED BY <1>1, <1>2, PTL DEF Spec

\* Whatever turns, switches, roll-backs and deletions interleave, a message shows the
\* status and the text of its current version.
THEOREM ShowsCurrent == Spec => []MirrorsCurrent
<1>1. RowsInv => MirrorsCurrent
  BY DEF RowsInv
<1> QED BY <1>1, RowsAlways, PTL

\* Every version belongs to a message that has its original, and no two versions of
\* a message share an index.
THEOREM NumbersVersions == Spec => []VersionsNumbered
<1>1. RowsInv => VersionsNumbered
  BY DEF RowsInv
<1> QED BY <1>1, RowsAlways, PTL

\* A version that was completed, stopped or has failed is never rewritten or thrown
\* away by another turn, be it a late completion, a failed regeneration or a crash;
\* only deleting the session removes it.
SettledKept ==
    [][\A v \in Turn : Exists(v) /\ versions[v].status # "streaming" /\ session'
            => versions'[v] = versions[v]]_vars

LEMMA SettledStep ==
    ASSUME TypeInv, RowsInv, [Next]_vars,
           NEW v \in Turn, Exists(v), versions[v].status # "streaming", session'
    PROVE  versions'[v] = versions[v]
<1>0. \A t \in Turn : Live(t) \/ task[t].pc = "idle" => t # v
  BY DEF RowsInv, Owned, Unused
<1>1. ASSUME NEW t \in Turn, t # v,
             \E x : versions' = [versions EXCEPT ![t] = x] \/ versions' = versions
      PROVE  versions'[v] = versions[v]
  BY <1>1 DEF TypeInv, TypeOK
<1>2. ASSUME NEW t \in Turn, BeginInvoke(t) PROVE versions'[v] = versions[v]
  BY <1>0, <1>1, <1>2 DEF BeginInvoke, Request
<1>3. ASSUME NEW t \in Turn, BeginRegenerate(t) PROVE versions'[v] = versions[v]
  BY <1>0, <1>1, <1>3 DEF BeginRegenerate, Request
<1>4. ASSUME NEW t \in Turn, Live(t), NEW s, NEW x, NEW r, WriteTurn(t, s, x, r)
      PROVE  versions'[v] = versions[v]
  BY <1>0, <1>4 DEF WriteTurn, TypeInv, TypeOK
<1>5. ASSUME NEW t \in Turn, Complete(t) PROVE versions'[v] = versions[v]
  BY <1>4, <1>5 DEF Complete, Live, Streaming
<1>6. ASSUME NEW t \in Turn, SettleInvoke(t) PROVE versions'[v] = versions[v]
  BY <1>4, <1>6 DEF SettleInvoke, Live, CleaningUp
<1>7. ASSUME NEW t \in Turn, SettleRegenerate(t) PROVE versions'[v] = versions[v]
  <2>1. t # v
    BY <1>0, <1>7 DEF SettleRegenerate, Live, CleaningUp
  <2> QED BY <1>1, <1>7, <2>1 DEF SettleRegenerate
<1>8. ASSUME NEW t \in Turn,
             Start(t) \/ StepHalfway(t) \/ Answer(t) \/ ReadLatest(t) \/ Prune(t)
      PROVE  versions'[v] = versions[v]
  BY <1>8 DEF Start, StepHalfway, Answer, ReadLatest, Prune, rows
<1>9. ASSUME NEW t \in Turn, NEW o, NEW left, Interrupt(t, o, left) \/ Vanish(t) \/ Switch(t)
      PROVE  versions'[v] = versions[v]
  BY <1>9 DEF Interrupt, Vanish, Switch, rows
<1>10. ASSUME PurgeThread \/ Crash \/ UNCHANGED vars PROVE versions'[v] = versions[v]
  BY <1>10 DEF PurgeThread, Crash, vars, rows
<1>11. ~DeleteSession
  BY DEF DeleteSession
<1> QED
  BY <1>2, <1>3, <1>5, <1>6, <1>7, <1>8, <1>9, <1>10, <1>11 DEF Next, Stop, Fail

\* What has settled stays (the statements of complete_assistant_message and
\* discard_assistant_version reach only the streaming version of their own turn).
THEOREM KeepsSettled == Spec => SettledKept
<1>1. TypeInv /\ RowsInv /\ [Next]_vars
        => [\A v \in Turn : Exists(v) /\ versions[v].status # "streaming" /\ session'
                => versions'[v] = versions[v]]_vars
  BY SettledStep
<1> QED BY <1>1, RowsAlways, PTL DEF Spec, SettledKept

-----------------------------------------------------------------------------
(* What the agent remembers. *)

\* What is remembered was said by turns.
LEMMA RememberedTurns ==
    ASSUME TypeInv
    PROVE  /\ \A c \in ckpts : \A i \in DOMAIN c.mem : c.mem[i].turn \in Turn
           /\ \A t \in Turn : \A i \in DOMAIN task[t].mem : task[t].mem[i].turn \in Turn
<1>1. \A mem \in Seq(Exchange) : \A i \in DOMAIN mem : mem[i] \in Exchange
  OBVIOUS
<1>2. \A e \in Exchange : e.turn \in Turn
  BY DEF Exchange
<1>3. \A c \in ckpts : c.mem \in Seq(Exchange)
  BY DEF TypeInv, TypeOK, Ckpt
<1>4. \A t \in Turn : task[t].mem \in Seq(Exchange)
  BY DEF TypeInv, TypeOK, TaskRow
<1> QED BY <1>1, <1>2, <1>3, <1>4

LEMMA InitMemoryInv == Init => MemoryInv
<1> SUFFICES ASSUME Init PROVE MemoryInv
  OBVIOUS
<1>1. /\ stable = 0 /\ lastCkpt = 0 /\ ckpts = {}
      /\ \A t \in Turn : /\ task[t].pc = "idle" /\ ~Live(t) /\ ~Exists(t)
                         /\ task[t].ckpt = 0 /\ task[t].base = 0 /\ task[t].mem = <<>>
                         /\ versions[t].msg = 0 /\ versions[t].result = 0
                         /\ versions[t].parent = 0
  BY DEF Init, NoCkpt, NoTurn, IdleTask, NoVersion, Live, Exists, Streaming, CleaningUp
<1> QED BY <1>1 DEF MemoryInv, InOrder, RemembersIssued, RemembersMade, ParentBefore,
                    BaseBefore, MessagesFirst, Turn

\* Steps that save no checkpoint and open no turn.
LEMMA MemoryKept ==
    ASSUME TypeInv, MemoryInv,
           ckpts' \subseteq ckpts, lastCkpt' = lastCkpt, stable' <= lastCkpt,
           \A u \in Turn :
              /\ task'[u].pc = "idle" <=> task[u].pc = "idle"
              /\ task'[u].ckpt <= lastCkpt /\ task'[u].base <= lastCkpt
              /\ task'[u].mem \in {task[u].mem, <<>>}
              /\ Live(u)' => /\ Live(u) /\ task'[u].msg = task[u].msg
                             /\ task'[u].base = task[u].base /\ task'[u].mem = task[u].mem
              /\ versions'[u].result <= lastCkpt
              /\ \/ /\ versions'[u].msg = versions[u].msg
                    /\ versions'[u].parent = versions[u].parent
                 \/ versions'[u].msg = NoTurn /\ versions'[u].parent = NoCkpt
    PROVE  MemoryInv'
<1>1. InOrder' /\ RemembersIssued' /\ MessagesFirst'
  BY DEF MemoryInv, InOrder, RemembersIssued, MessagesFirst, TypeInv, TypeOK, NoTurn,
         NoCkpt, Turn
<1>2. RemembersMade'
  <2>1. \A c \in ckpts : \A i \in DOMAIN c.mem : c.mem[i].turn \in Turn
    BY RememberedTurns
  <2>2. \A t \in Turn : \A i \in DOMAIN task[t].mem : task[t].mem[i].turn \in Turn
    BY RememberedTurns
  <2>3. \A t \in Turn : \A i \in DOMAIN task'[t].mem : task'[t].mem = task[t].mem
    OBVIOUS
  <2>4. \A c \in ckpts' : \A i \in DOMAIN c.mem : task'[c.mem[i].turn].pc # "idle"
    BY <2>1 DEF MemoryInv, RemembersMade
  <2>5. \A t \in Turn : \A i \in DOMAIN task'[t].mem :
            task'[task'[t].mem[i].turn].pc # "idle"
    BY <2>2, <2>3 DEF MemoryInv, RemembersMade
  <2> QED BY <2>4, <2>5 DEF RemembersMade
<1>3. ParentBefore'
  BY DEF MemoryInv, ParentBefore, Exists
<1>4. BaseBefore'
  BY DEF MemoryInv, BaseBefore
<1> QED BY <1>1, <1>2, <1>3, <1>4 DEF MemoryInv

\* A step of the agent: it saves a checkpoint newer than every id remembered so far.
LEMMA SaveMemory ==
    ASSUME TypeInv, MemoryInv, NEW t \in Turn, Live(t),
           NEW root, NEW mem, Save(root, mem), UNCHANGED <<rows, stable>>,
           \A i \in DOMAIN mem : mem[i].turn \in Turn /\ task[mem[i].turn].pc # "idle",
           \A u \in Turn : u # t => task'[u] = task[u],
           task'[t].pc \in Streaming, task'[t].msg = task[t].msg,
           task'[t].base = task[t].base, task'[t].ckpt = task[t].ckpt,
           \A i \in DOMAIN task'[t].mem :
              task'[t].mem[i].turn \in Turn /\ task[task'[t].mem[i].turn].pc # "idle",
           task[t].base # NoCkpt => Before(task'[t].mem, task[t].msg)
    PROVE  MemoryInv'
<1>1. /\ lastCkpt \in Nat /\ lastCkpt' = lastCkpt + 1
      /\ \A c \in ckpts' : c \in ckpts \/ (c.id = lastCkpt + 1 /\ c.mem = mem)
      /\ UNCHANGED versions
  <2>1. lastCkpt \in Nat /\ lastCkpt' = lastCkpt + 1
    BY DEF Save, TypeInv, TypeOK
  <2>2. \A c \in ckpts' : c \in ckpts \/ (c.id = lastCkpt + 1 /\ c.mem = mem)
    <3> DEFINE new == [id |-> lastCkpt + 1, root |-> root, mem |-> mem]
    <3>1. new.id = lastCkpt + 1 /\ new.mem = mem
      OBVIOUS
    <3>2. ckpts' = ckpts \cup {new}
      BY DEF Save
    <3> HIDE DEF new
    <3> QED BY <3>1, <3>2
  <2>3. UNCHANGED versions
    BY DEF rows
  <2> QED BY <2>1, <2>2, <2>3
<1>2. \A u \in Turn : task'[u].pc = "idle" <=> task[u].pc = "idle"
  BY DEF Live, Streaming, CleaningUp
<1>3. InOrder' /\ MessagesFirst'
  BY <1>1, <1>2 DEF MemoryInv, InOrder, MessagesFirst
<1>4. RemembersIssued'
  <2>1. \A u \in Turn : /\ versions[u].result \in Nat /\ versions[u].parent \in Nat
                        /\ task[u].ckpt \in Nat /\ task[u].base \in Nat
    BY DEF TypeInv, TypeOK, VersionRow, TaskRow
  <2>2. stable \in Nat
    BY DEF TypeInv, TypeOK
  <2> QED BY <1>1, <2>1, <2>2 DEF MemoryInv, RemembersIssued
<1>5. RemembersMade'
  <2>1. \A c \in ckpts : \A i \in DOMAIN c.mem : c.mem[i].turn \in Turn
    BY RememberedTurns
  <2>2. \A u \in Turn : \A i \in DOMAIN task[u].mem : task[u].mem[i].turn \in Turn
    BY RememberedTurns
  <2>3. \A c \in ckpts' : \A i \in DOMAIN c.mem : task'[c.mem[i].turn].pc # "idle"
    BY <1>1, <1>2, <2>1 DEF MemoryInv, RemembersMade
  <2>4. \A u \in Turn : \A i \in DOMAIN task'[u].mem :
            task'[task'[u].mem[i].turn].pc # "idle"
    BY <1>2, <2>2 DEF MemoryInv, RemembersMade
  <2> QED BY <2>3, <2>4 DEF RemembersMade
<1>6. ParentBefore'
  <2>1. \A v \in Turn : versions[v].parent \in Nat /\ versions[v].parent <= lastCkpt
    BY DEF TypeInv, TypeOK, VersionRow, MemoryInv, RemembersIssued
  <2>2. \A v \in Turn : versions[v].parent # lastCkpt + 1
    BY <1>1, <2>1
  <2> QED BY <1>1, <2>2 DEF MemoryInv, ParentBefore, Exists
<1>7. BaseBefore'
  <2> SUFFICES ASSUME NEW u \in Turn, Live(u)', task'[u].base # NoCkpt
               PROVE  /\ \A c \in ckpts' : c.id = task'[u].base => Before(c.mem, task'[u].msg)
                      /\ Before(task'[u].mem, task'[u].msg)
    BY DEF BaseBefore
  <2>1. Live(u) /\ task'[u].base = task[u].base /\ task'[u].msg = task[u].msg
    BY DEF Live
  <2>2. task[u].base # lastCkpt + 1
    BY <1>1 DEF TypeInv, TypeOK, TaskRow, MemoryInv, RemembersIssued
  <2>3. \A c \in ckpts' : c.id = task'[u].base => Before(c.mem, task'[u].msg)
    BY <1>1, <2>1, <2>2 DEF MemoryInv, BaseBefore
  <2>4. Before(task'[u].mem, task'[u].msg)
    BY <2>1 DEF MemoryInv, BaseBefore
  <2> QED BY <2>3, <2>4
<1> QED BY <1>3, <1>4, <1>5, <1>6, <1>7 DEF MemoryInv

\* The checkpoints a new turn or a roll-back picks were handed out.
LEMMA PicksIssued ==
    ASSUME TypeInv, RemembersIssued
    PROVE  Persisted <= lastCkpt /\ Effective <= lastCkpt
<1>1. Persisted <= lastCkpt
  BY PersistedType DEF RemembersIssued, NoCkpt, TypeInv, TypeOK
<1> QED BY <1>1, RootCkptType DEF Effective, RemembersIssued, TypeInv, TypeOK

\* The turns requested so far have the smaller numbers.
LEMMA NumbersAscend ==
    ASSUME InOrder, NEW t \in Turn, Request(t), NEW u \in Turn, task[u].pc # "idle"
    PROVE  u < t
<1>1. u \in Nat /\ t \in Nat
  BY DEF Turn
<1>2. u # t /\ ~(t < u)
  BY DEF InOrder, Request
<1> QED BY <1>1, <1>2

\* Opening a turn, as a question or as a regeneration.
LEMMA OpenMemory ==
    ASSUME TypeInv, RowsInv, MemoryInv, NEW t \in Turn, NEW m \in Turn,
           NEW index, NEW base, NEW fallback, Request(t),
           versions' = [versions EXCEPT ![t] = Placeholder(m, index, base)],
           Announce(t, m, base, fallback), UNCHANGED <<ckpts, lastCkpt>>,
           stable' <= lastCkpt, m <= t, base <= lastCkpt,
           base # NoCkpt => \A c \in ckpts : c.id = base => Before(c.mem, m)
    PROVE  MemoryInv'
<1>1. /\ \A u \in Turn : u # t => versions'[u] = versions[u] /\ task'[u] = task[u]
      /\ versions'[t] = Placeholder(m, index, base)
      /\ task'[t].pc = "announced" /\ task'[t].msg = m /\ task'[t].base = base
      /\ task'[t].mem = <<>> /\ task'[t].ckpt = NoCkpt
  BY DEF Announce, TypeInv, TypeOK, IdleTask
<1>2. /\ versions'[t].msg = m /\ versions'[t].parent = base /\ versions'[t].result = NoCkpt
  BY <1>1 DEF Placeholder
<1>3. task[t].pc = "idle" /\ \A u \in Turn : u < t => task[u].pc # "idle"
  BY DEF Request
<1>4. InOrder'
  BY <1>1, <1>3 DEF MemoryInv, InOrder
<1>5. RemembersIssued'
  BY <1>1, <1>2 DEF MemoryInv, RemembersIssued, NoCkpt, TypeInv, TypeOK
<1>6. RemembersMade'
  <2>1. \A c \in ckpts : \A i \in DOMAIN c.mem : c.mem[i].turn \in Turn
    BY RememberedTurns
  <2>2. \A u \in Turn : \A i \in DOMAIN task[u].mem : task[u].mem[i].turn \in Turn
    BY RememberedTurns
  <2>3. \A u \in Turn : task[u].pc # "idle" => task'[u].pc # "idle"
    BY <1>1
  <2>4. \A c \in ckpts' : \A i \in DOMAIN c.mem : task'[c.mem[i].turn].pc # "idle"
    BY <2>1, <2>3 DEF MemoryInv, RemembersMade
  <2>5. \A u \in Turn : \A i \in DOMAIN task'[u].mem :
            task'[task'[u].mem[i].turn].pc # "idle"
    BY <1>1, <2>2, <2>3 DEF MemoryInv, RemembersMade
  <2> QED BY <2>4, <2>5 DEF RemembersMade
<1>7. ParentBefore'
  BY <1>1, <1>2 DEF MemoryInv, ParentBefore, Exists
<1>8. BaseBefore'
  <2>1. Before(<<>>, m)
    BY DEF Before
  <2>2. ASSUME NEW u \in Turn, Live(u)', task'[u].base # NoCkpt
        PROVE  /\ \A c \in ckpts' : c.id = task'[u].base => Before(c.mem, task'[u].msg)
               /\ Before(task'[u].mem, task'[u].msg)
    <3>1. CASE u = t
      BY <1>1, <2>1, <2>2, <3>1
    <3>2. CASE u # t
      BY <1>1, <2>2, <3>2 DEF MemoryInv, BaseBefore, Live
    <3> QED BY <3>1, <3>2
  <2> QED BY <2>2 DEF BaseBefore
<1>9. MessagesFirst'
  BY <1>1, <1>2 DEF MemoryInv, MessagesFirst
<1> QED BY <1>4, <1>5, <1>6, <1>7, <1>8, <1>9 DEF MemoryInv

LEMMA BeginInvokeMemory ==
    ASSUME TypeInv, RowsInv, MemoryInv, NEW t \in Turn, BeginInvoke(t)
    PROVE  MemoryInv'
<1>1. Persisted <= lastCkpt /\ Effective <= lastCkpt /\ stable <= lastCkpt /\ InOrder
  BY PicksIssued DEF MemoryInv, RemembersIssued
<1>2. \A c \in ckpts : Before(c.mem, t)
  BY <1>1, NumbersAscend, RememberedTurns DEF BeginInvoke, MemoryInv, RemembersMade, Before
<1>3. t <= t
  BY DEF Turn
<1> QED BY <1>1, <1>2, <1>3, OpenMemory DEF BeginInvoke

LEMMA BeginRegenerateMemory ==
    ASSUME TypeInv, RowsInv, MemoryInv, NEW t \in Turn, BeginRegenerate(t)
    PROVE  MemoryInv'
<1> DEFINE m == LatestMessage
<1>1. m \in Turn /\ IsMessage(m) /\ m # NoTurn
  BY LatestIsMessage, MessageIsTurn DEF BeginRegenerate
<1>2. Exists(m) /\ versions[m].msg = m /\ task[m].pc # "idle"
  BY <1>1, ByMessage DEF RowsInv, Exists, Unused
<1>3. m < t
  BY <1>1, <1>2, NumbersAscend DEF BeginRegenerate, MemoryInv
<1>4. m <= t
  BY <1>1, <1>3 DEF Turn
<1>5. /\ versions[m].parent <= lastCkpt /\ stable <= lastCkpt
      /\ versions[m].parent # NoCkpt =>
            \A c \in ckpts : c.id = versions[m].parent => Before(c.mem, m)
  BY <1>1, <1>2 DEF MemoryInv, RemembersIssued, ParentBefore
<1>6. /\ Request(t) /\ UNCHANGED <<stable, ckpts, lastCkpt>>
      /\ versions' = [versions EXCEPT ![t] = Placeholder(m, NextIndex(m), versions[m].parent)]
      /\ Announce(t, m, versions[m].parent, shown[m].current)
  BY DEF BeginRegenerate
<1> HIDE DEF m
<1> QED BY <1>1, <1>4, <1>5, <1>6, OpenMemory

LEMMA StartMemory ==
    ASSUME TypeInv, MemoryInv, NEW t \in Turn, Start(t)
    PROVE  MemoryInv'
<1> DEFINE from == IF task[t].base # NoCkpt THEN task[t].base ELSE LatestCkpt
           mem == MemoryAt(from)
<1>1. Live(t) /\ Save(from = NoCkpt, mem) /\ UNCHANGED <<rows, stable>>
  BY DEF Start, Live, Streaming
<1>2. /\ \A u \in Turn : u # t => task'[u] = task[u]
      /\ task'[t].pc \in Streaming /\ task'[t].msg = task[t].msg
      /\ task'[t].base = task[t].base /\ task'[t].ckpt = task[t].ckpt
      /\ task'[t].mem = mem
  <2>1. task' = [task EXCEPT ![t] = [@ EXCEPT !.pc = "started", !.mem = mem]]
    BY DEF Start
  <2>2. task'[t] = [task[t] EXCEPT !.pc = "started", !.mem = mem]
    BY <2>1 DEF TypeInv, TypeOK
  <2> HIDE DEF mem
  <2> QED BY <2>1, <2>2 DEF TypeInv, TypeOK, TaskRow, Streaming
<1>3. \/ mem = <<>>
      \/ \E c \in ckpts : c.id = from /\ mem = c.mem
  BY MemoryAtType
<1>4. \A i \in DOMAIN mem : mem[i].turn \in Turn /\ task[mem[i].turn].pc # "idle"
  <2> HIDE DEF mem
  <2> QED BY <1>3, RememberedTurns DEF MemoryInv, RemembersMade
<1>5. task[t].base # NoCkpt => Before(mem, task[t].msg)
  <2> SUFFICES ASSUME task[t].base # NoCkpt PROVE Before(mem, task[t].msg)
    OBVIOUS
  <2>1. from = task[t].base
    OBVIOUS
  <2> HIDE DEF mem, from
  <2>2. CASE mem = <<>>
    BY <2>2 DEF Before
  <2>3. CASE \E c \in ckpts : c.id = from /\ mem = c.mem
    BY <1>1, <2>1, <2>3 DEF MemoryInv, BaseBefore
  <2> QED BY <1>3, <2>2, <2>3
<1> HIDE DEF mem, from
<1> QED BY <1>1, <1>2, <1>4, <1>5, SaveMemory

\* The two later checkpoints of a run add the turn's own exchange.
LEMMA AddExchangeMemory ==
    ASSUME TypeInv, MemoryInv, NEW t \in Turn, NEW whole \in BOOLEAN,
           NEW pc \in Streaming, Live(t),
           Save(FALSE, Append(task[t].mem, [turn |-> t, whole |-> whole])),
           task' = [task EXCEPT ![t].pc = pc], UNCHANGED <<rows, stable>>
    PROVE  MemoryInv'
<1> DEFINE own == [turn |-> t, whole |-> whole]
           mem == Append(task[t].mem, own)
<1>1. /\ \A u \in Turn : u # t => task'[u] = task[u]
      /\ task'[t].pc \in Streaming /\ task'[t].msg = task[t].msg
      /\ task'[t].base = task[t].base /\ task'[t].ckpt = task[t].ckpt
      /\ task'[t].mem = task[t].mem
  BY DEF TypeInv, TypeOK, TaskRow
<1>2. own.turn = t /\ own \in Exchange /\ task[t].pc # "idle"
  BY DEF Exchange, Live, Streaming, CleaningUp
<1>3. \A i \in DOMAIN task[t].mem :
          task[t].mem[i].turn \in Turn /\ task[task[t].mem[i].turn].pc # "idle"
  BY RememberedTurns DEF MemoryInv, RemembersMade
<1>4. \A i \in DOMAIN mem : mem[i].turn \in Turn /\ task[mem[i].turn].pc # "idle"
  <2>1. task[t].mem \in Seq(Exchange)
    BY DEF TypeInv, TypeOK, TaskRow
  <2> HIDE DEF own
  <2>2. /\ DOMAIN mem = 1 .. Len(task[t].mem) + 1 /\ Len(task[t].mem) \in Nat
        /\ mem[Len(task[t].mem) + 1] = own
        /\ \A i \in DOMAIN task[t].mem : mem[i] = task[t].mem[i]
        /\ DOMAIN task[t].mem = 1 .. Len(task[t].mem)
    BY <1>2, <2>1
  <2> HIDE DEF mem
  <2>3. ASSUME NEW i \in DOMAIN mem
        PROVE  mem[i].turn \in Turn /\ task[mem[i].turn].pc # "idle"
    <3>1. CASE i = Len(task[t].mem) + 1
      BY <1>2, <2>2, <3>1
    <3>2. CASE i # Len(task[t].mem) + 1
      <4>1. i \in DOMAIN task[t].mem
        BY <2>2, <3>2
      <4> QED BY <1>3, <2>2, <4>1
    <3> QED BY <3>1, <3>2
  <2> QED BY <2>3
<1>5. task[t].base # NoCkpt => Before(task'[t].mem, task[t].msg)
  BY <1>1 DEF MemoryInv, BaseBefore
<1>6. Save(FALSE, mem)
  OBVIOUS
<1> HIDE DEF mem
<1> QED BY <1>1, <1>3, <1>4, <1>5, <1>6, SaveMemory

LEMMA MemoryStep ==
    ASSUME TypeInv, RowsInv, MemoryInv, [Next]_vars
    PROVE  MemoryInv'
<1>0. /\ task \in [Turn -> TaskRow] /\ versions \in [Turn -> VersionRow]
      /\ lastCkpt \in Nat /\ stable <= lastCkpt
      /\ \A u \in Turn : /\ task[u].ckpt <= lastCkpt /\ task[u].base <= lastCkpt
                         /\ versions[u].result <= lastCkpt
  BY DEF TypeInv, TypeOK, MemoryInv, RemembersIssued
<1>1. Ended.pc = "ended" /\ Ended.ckpt = 0 /\ Ended.base = 0 /\ Ended.mem = <<>>
  BY DEF Ended, IdleTask, NoCkpt
<1>2. Persisted <= lastCkpt /\ LatestCkpt <= lastCkpt
  BY PicksIssued, LatestCkptType, <1>0 DEF MemoryInv
\* What a turn that ends leaves behind.
<1>3. ASSUME NEW t \in Turn, Live(t), End(t)
      PROVE  \A u \in Turn :
              /\ task'[u].pc = "idle" <=> task[u].pc = "idle"
              /\ task'[u].ckpt <= lastCkpt /\ task'[u].base <= lastCkpt
              /\ task'[u].mem \in {task[u].mem, <<>>}
              /\ Live(u)' => /\ Live(u) /\ task'[u].msg = task[u].msg
                             /\ task'[u].base = task[u].base /\ task'[u].mem = task[u].mem
  <2> SUFFICES ASSUME NEW u \in Turn
               PROVE  /\ task'[u].pc = "idle" <=> task[u].pc = "idle"
                      /\ task'[u].ckpt <= lastCkpt /\ task'[u].base <= lastCkpt
                      /\ task'[u].mem \in {task[u].mem, <<>>}
                      /\ Live(u)' => /\ Live(u) /\ task'[u].msg = task[u].msg
                                     /\ task'[u].base = task[u].base
                                     /\ task'[u].mem = task[u].mem
    OBVIOUS
  <2>1. CASE u = t
    BY <1>0, <1>1, <1>3, <2>1 DEF End, Live, Streaming, CleaningUp
  <2>2. CASE u # t
    BY <1>0, <1>3, <2>2 DEF End, Live
  <2> QED BY <2>1, <2>2
<1>4. ASSUME NEW t \in Turn, NEW s, NEW x, NEW r, r <= lastCkpt, WriteTurn(t, s, x, r)
      PROVE  \A u \in Turn : /\ versions'[u].result <= lastCkpt
                             /\ versions'[u].msg = versions[u].msg
                             /\ versions'[u].parent = versions[u].parent
  BY <1>0, <1>4 DEF WriteTurn, VersionRow
<1>5. ASSUME NEW t \in Turn, ReadLatest(t) PROVE MemoryInv'
  <2>1. /\ \A u \in Turn : u # t => task'[u] = task[u]
        /\ task'[t] = [task[t] EXCEPT !.pc = "completing", !.ckpt = LatestCkpt]
        /\ Live(t) /\ task[t].pc = "answered"
    BY <1>0, <1>5 DEF ReadLatest, Live, Streaming
  <2>2. /\ task'[t].pc = "completing" /\ task'[t].ckpt = LatestCkpt
        /\ task'[t].msg = task[t].msg /\ task'[t].base = task[t].base
        /\ task'[t].mem = task[t].mem
    BY <1>0, <2>1 DEF TaskRow
  <2> QED BY <1>0, <1>2, <1>5, <2>1, <2>2, MemoryKept DEF ReadLatest, rows, saver, Live
<1>6. ASSUME NEW t \in Turn, NEW o, NEW left, Interrupt(t, o, left) PROVE MemoryInv'
  <2>1. /\ \A u \in Turn : u # t => task'[u] = task[u]
        /\ task'[t] = [task[t] EXCEPT !.pc = "pruning", !.ckpt = Persisted,
                                      !.outcome = o, !.left = left]
        /\ Live(t) /\ task[t].pc # "idle"
    BY <1>0, <1>6 DEF Interrupt, Live, Streaming
  <2>2. /\ task'[t].pc = "pruning" /\ task'[t].ckpt = Persisted
        /\ task'[t].msg = task[t].msg /\ task'[t].base = task[t].base
        /\ task'[t].mem = task[t].mem
    BY <1>0, <2>1 DEF TaskRow
  <2>3. stable' <= lastCkpt /\ UNCHANGED <<rows, saver>>
    BY <1>0, <1>2, <1>6 DEF Interrupt
  <2> QED BY <1>0, <1>2, <2>1, <2>2, <2>3, MemoryKept DEF rows, saver, Live
<1>7. ASSUME NEW t \in Turn, Prune(t) PROVE MemoryInv'
  <2>1. /\ \A u \in Turn : u # t => task'[u] = task[u]
        /\ task'[t] = [task[t] EXCEPT !.pc = "settling"]
        /\ Live(t) /\ task[t].pc # "idle"
    BY <1>0, <1>7 DEF Prune, Live, CleaningUp
  <2>2. /\ task'[t].pc = "settling" /\ task'[t].ckpt = task[t].ckpt
        /\ task'[t].msg = task[t].msg /\ task'[t].base = task[t].base
        /\ task'[t].mem = task[t].mem
    BY <1>0, <2>1 DEF TaskRow
  <2>3. ckpts' \subseteq ckpts /\ UNCHANGED <<rows, stable, lastCkpt>>
    BY <1>7 DEF Prune
  <2> QED BY <1>0, <2>1, <2>2, <2>3, MemoryKept DEF rows, Live
<1>8. ASSUME NEW t \in Turn, Complete(t) PROVE MemoryInv'
  <2>1. Live(t) /\ End(t) /\ stable' <= lastCkpt /\ UNCHANGED saver
    BY <1>0, <1>8 DEF Complete, Live, Streaming
  <2>2. \A u \in Turn : /\ versions'[u].result <= lastCkpt
                        /\ versions'[u].msg = versions[u].msg
                        /\ versions'[u].parent = versions[u].parent
    BY <1>0, <1>4, <1>8 DEF Complete
  <2> QED BY <1>3, <2>1, <2>2, MemoryKept DEF saver
<1>9. ASSUME NEW t \in Turn, SettleInvoke(t) PROVE MemoryInv'
  <2>1. Live(t) /\ End(t) /\ UNCHANGED <<stable, saver>>
    BY <1>9 DEF SettleInvoke, Live, CleaningUp
  <2>2. \A u \in Turn : /\ versions'[u].result <= lastCkpt
                        /\ versions'[u].msg = versions[u].msg
                        /\ versions'[u].parent = versions[u].parent
    BY <1>0, <1>4, <1>9 DEF SettleInvoke, NoCkpt
  <2> QED BY <1>0, <1>3, <2>1, <2>2, MemoryKept DEF saver
<1>10. ASSUME NEW t \in Turn, SettleRegenerate(t) PROVE MemoryInv'
  <2>1. Live(t) /\ End(t) /\ UNCHANGED <<stable, saver>>
    BY <1>10 DEF SettleRegenerate, Live, CleaningUp
  <2>2. NoVersion.msg = NoTurn /\ NoVersion.parent = NoCkpt /\ NoVersion.result = 0
    BY DEF NoVersion, NoCkpt
  <2>3. \A u \in Turn : versions'[u] = versions[u] \/ versions'[u] = NoVersion
    BY <1>0, <1>10 DEF SettleRegenerate
  <2> QED BY <1>0, <1>3, <2>1, <2>2, <2>3, MemoryKept DEF saver
<1>11. ASSUME NEW t \in Turn, Vanish(t) PROVE MemoryInv'
  <2>1. Live(t) /\ End(t) /\ UNCHANGED <<rows, stable, saver>>
    BY <1>11 DEF Vanish, Live, Streaming, CleaningUp
  <2> QED BY <1>0, <1>3, <2>1, MemoryKept DEF rows, saver
<1>12. ASSUME NEW v \in Turn, Switch(v) PROVE MemoryInv'
  <2>1. stable' <= lastCkpt /\ UNCHANGED <<versions, saver, task>>
    BY <1>0, <1>12 DEF Switch
  <2> QED BY <1>0, <2>1, MemoryKept DEF saver, Live
<1>13. ASSUME DeleteSession PROVE MemoryInv'
  <2>1. /\ \A u \in Turn : versions'[u].msg = NoTurn /\ versions'[u].parent = NoCkpt
                           /\ versions'[u].result = 0
        /\ stable' = 0 /\ UNCHANGED <<saver, task>>
    BY <1>13 DEF DeleteSession, NoVersion, NoCkpt
  <2> QED BY <1>0, <2>1, MemoryKept DEF saver, Live
<1>14. ASSUME PurgeThread PROVE MemoryInv'
  <2>1. ckpts' \subseteq ckpts /\ UNCHANGED <<rows, stable, lastCkpt, task>>
    BY <1>14 DEF PurgeThread
  <2> QED BY <1>0, <2>1, MemoryKept DEF rows, Live
<1>15. ASSUME Crash PROVE MemoryInv'
  <2>1. UNCHANGED <<rows, stable, saver>>
    BY <1>15 DEF Crash
  <2>2. \A u \in Turn : \/ task'[u] = task[u]
                        \/ task'[u] = Ended /\ Live(u)
    BY <1>15 DEF Crash
  <2>3. \A u \in Turn :
              /\ task'[u].pc = "idle" <=> task[u].pc = "idle"
              /\ task'[u].ckpt <= lastCkpt /\ task'[u].base <= lastCkpt
              /\ task'[u].mem \in {task[u].mem, <<>>}
              /\ Live(u)' => /\ Live(u) /\ task'[u].msg = task[u].msg
                             /\ task'[u].base = task[u].base /\ task'[u].mem = task[u].mem
    BY <1>0, <1>1, <2>2 DEF Live, Streaming, CleaningUp
  <2> QED BY <1>0, <2>1, <2>3, MemoryKept DEF rows, saver
<1>16. ASSUME NEW t \in Turn, StepHalfway(t) PROVE MemoryInv'
  BY <1>16, AddExchangeMemory DEF StepHalfway, Live, Streaming
<1>17. ASSUME NEW t \in Turn, Answer(t) PROVE MemoryInv'
  BY <1>17, AddExchangeMemory DEF Answer, Live, Streaming
<1>18. ASSUME UNCHANGED vars PROVE MemoryInv'
  <2>1. UNCHANGED <<versions, stable, ckpts, lastCkpt, task>>
    BY <1>18 DEF vars
  <2> QED BY <1>0, <2>1, MemoryKept DEF Live
<1> QED
  BY <1>5, <1>6, <1>7, <1>8, <1>9, <1>10, <1>11, <1>12, <1>13, <1>14, <1>15, <1>16,
     <1>17, <1>18, BeginInvokeMemory, BeginRegenerateMemory, StartMemory
     DEF Next, Stop, Fail

LEMMA MemorySafe ==
    ASSUME TypeInv, MemoryInv
    PROVE  RegeneratesFromParent
<1> SUFFICES ASSUME NEW t \in Turn, Live(t), task[t].base # NoCkpt,
                    NEW i \in DOMAIN task[t].mem
             PROVE  /\ task[t].mem[i].turn # task[t].msg
                    /\ versions[task[t].mem[i].turn].msg # task[t].msg
  BY DEF RegeneratesFromParent
<1>1. task[t].mem[i].turn < task[t].msg
  BY DEF MemoryInv, BaseBefore, Before
<1>2. task[t].mem[i].turn \in Turn
  BY RememberedTurns
<1>3. versions[task[t].mem[i].turn].msg <= task[t].mem[i].turn
  BY <1>2 DEF MemoryInv, MessagesFirst
<1>4. /\ task[t].msg \in Nat /\ versions[task[t].mem[i].turn].msg \in Nat
      /\ task[t].mem[i].turn \in Nat
  BY <1>2 DEF TypeInv, TypeOK, TaskRow, VersionRow, Turn, NoTurn
<1> QED BY <1>1, <1>3, <1>4

\* A turn that was given a checkpoint to run from remembers nothing of the message it
\* writes: a regeneration never reads the answer it replaces, however turns, faults and
\* switches interleave.
THEOREM ForgetsReplaced == Spec => []RegeneratesFromParent
<1>1. Init => TypeInv /\ RowsInv /\ MemoryInv
  BY InitTypeInv, InitRowsInv, InitMemoryInv
<1>2. (TypeInv /\ RowsInv /\ MemoryInv) /\ [Next]_vars => (TypeInv /\ RowsInv /\ MemoryInv)'
  BY TypeStep, RowsStep, MemoryStep
<1>3. TypeInv /\ RowsInv /\ MemoryInv => RegeneratesFromParent
  BY MemorySafe
<1> QED BY <1>1, <1>2, <1>3, PTL DEF Spec

-----------------------------------------------------------------------------
(***************************************************************************)
(* The memory of the agent.  With one tab that neither stops a turn nor    *)
(* deletes the session, turns do not overlap: AloneInv.  On it stand the   *)
(* two cases of MemoryIsHistory, a tab that meets faults and one that is   *)
(* not disturbed.                                                          *)
(***************************************************************************)
Alone       == env.tabs = 1 /\ env.events \cap {"stop", "delete"} = {}
Faulty      == env.tabs = 1 /\ env.events \subseteq {"fail", "vanish", "crash", "switch"}
Undisturbed == env.tabs = 1 /\ env.events \subseteq {"switch", "regenerate"}

OneAtATime ==
    /\ purges = 0
    /\ \A t \in Turn : Live(t) => ~task[t].left
    /\ \A t, u \in Turn : Live(t) /\ Live(u) => t = u
IdsUnique == \A c, d \in ckpts : c.id = d.id => c = d
Distinct  == \A i, k \in DOMAIN messages : messages[i] = messages[k] => i = k
\* A turn under way writes the latest message.
LiveIsLast ==
    \A t \in Turn : Live(t) =>
        /\ messages # <<>> /\ task[t].msg = LatestMessage
        /\ versions[t].msg = task[t].msg /\ versions[t].result = NoCkpt
AloneInv == Alone => OneAtATime /\ IdsUnique /\ Distinct /\ LiveIsLast

(* Half a turn is in the checkpoints of a turn that was cut off, and nowhere a *)
(* later turn starts from: those start from the stable checkpoint, the result  *)
(* of the latest reply, or the root, which is there as long as any is.         *)
Whole(mem)  == \A i \in DOMAIN mem : mem[i].whole
WholeAt(id) == \A c \in ckpts : c.id = id => Whole(c.mem)
Kept(id)    == id = NoCkpt \/ id \in CkptIds
OneVersionEach ==
    /\ \A v \in Turn : Exists(v) => versions[v].msg = v
    /\ \A i \in DOMAIN messages : shown[messages[i]].current = messages[i]
StartsKept ==
    /\ Kept(stable)
    /\ messages # <<>> => Kept(versions[LatestMessage].result)
    /\ ckpts # {} => \E c \in ckpts : c.root
StartsWhole ==
    /\ \A c \in ckpts : c.root => Whole(c.mem)
    /\ WholeAt(stable)
    /\ \A v \in Turn : WholeAt(versions[v].result)
TurnsWhole ==
    \A t \in Turn : Live(t) =>
        /\ Whole(task[t].mem)
        /\ task[t].pc = "announced" =>
              /\ Kept(task[t].base) /\ WholeAt(task[t].base)
              /\ task[t].base = NoCkpt => ckpts = {}
        /\ task[t].pc \in {"started", "halfway"} => ckpts # {}
        /\ task[t].pc = "answered" => lastCkpt \in CkptIds /\ WholeAt(lastCkpt)
        /\ task[t].pc = "completing" => Kept(task[t].ckpt) /\ WholeAt(task[t].ckpt)
        /\ task[t].pc \in CleaningUp => task[t].ckpt = NoCkpt /\ stable = NoCkpt
FaultyInv == Faulty => OneVersionEach /\ StartsKept /\ StartsWhole /\ TurnsWhole

(* A turn starts from a memory of the replies shown before its message, and    *)
(* adds its own.                                                               *)
Recalled(mem, who) ==
    \E f \in [DOMAIN who -> DOMAIN mem] :
        /\ \A i, j \in DOMAIN who : i < j => f[i] < f[j]
        /\ \A j \in DOMAIN who : mem[f[j]] = [turn |-> who[j], whole |-> TRUE]
Recalls(id, who) == id \in CkptIds /\ Recalled(MemoryAt(id), who)
\* The replies shown for the messages before the i-th.
Earlier(i) == [j \in 1 .. i - 1 |-> shown[messages[j]].current]
With(mem, t) == Append(mem, [turn |-> t, whole |-> TRUE])
AllCompleted == \A v \in Turn : Exists(v) /\ ~Live(v) => versions[v].status = "completed"
RepliesRecall ==
    \A i \in DOMAIN messages : \A v \in VersionsOf(messages[i]) :
        versions[v].status = "completed" => Recalls(versions[v].result, Append(Earlier(i), v))
ParentsRecall ==
    \A i \in DOMAIN messages : i > 1 => Recalls(versions[messages[i]].parent, Earlier(i))
TurnsRecall ==
    \A t \in Turn : Live(t) =>
        LET told == With(task[t].mem, t) IN
        /\ task[t].pc \in Streaming
        /\ IF task[t].pc = "announced"
           THEN Len(messages) > 1 => Recalls(task[t].base, Earlier(Len(messages)))
           ELSE Recalled(task[t].mem, Earlier(Len(messages)))
        /\ task[t].pc = "answered" => lastCkpt \in CkptIds /\ MemoryAt(lastCkpt) = told
        /\ task[t].pc = "completing" => task[t].ckpt \in CkptIds /\ MemoryAt(task[t].ckpt) = told
Rested ==
    (\A t \in Turn : ~Live(t)) /\ messages # <<>> =>
        LET v == shown[LatestMessage].current IN
        v \in Turn /\ versions[v].msg = LatestMessage /\ stable = versions[v].result
Remembering == AllCompleted /\ RepliesRecall /\ ParentsRecall /\ TurnsRecall /\ Rested
UndisturbedInv == Undisturbed => Remembering

\* With one tab, a request is made when no turn is under way.
LEMMA RequestAlone ==
    ASSUME Alone, OneAtATime, NEW t \in Turn, Request(t)
    PROVE  \A u \in Turn : ~Live(u)
<1> DEFINE B == {u \in Turn : Busy(u)}
<1>1. IsFiniteSet(Turn)
  BY TurnsAssumption, FS_Interval DEF Turn
<1>2. IsFiniteSet(B) /\ Cardinality(B) \in Nat
  <2>1. B \in SUBSET Turn
    OBVIOUS
  <2> HIDE DEF B
  <2> QED BY <1>1, <2>1, FS_Subset, FS_CardinalityType
<1>3. Cardinality(B) < 1
  BY DEF Request, Alone
<1>4. B = {}
  <2> HIDE DEF B
  <2>1. Cardinality(B) = 0
    BY <1>2, <1>3
  <2> QED BY <1>2, <2>1, FS_EmptySet
<1> QED BY <1>4 DEF Busy, OneAtATime

\* The surroundings never change.
LEMMA EnvSame ==
    ASSUME [Next]_vars
    PROVE  env' = env
BY DEF Next, vars, BeginInvoke, BeginRegenerate, Start, StepHalfway, Answer, ReadLatest,
       Complete, Stop, Fail, Interrupt, Prune, SettleInvoke, SettleRegenerate, Vanish,
       Switch, DeleteSession, PurgeThread, Crash

(* What a step does to the turns: one turn moves on, or it ends. *)
Others(t) == \A u \in Turn : u # t => task'[u] = task[u]
Moves(t, pc) ==
    /\ Live(t) /\ Live(t)' /\ task'[t].pc = pc /\ task'[t].msg = task[t].msg
    /\ task[t].left \/ ~task'[t].left
    /\ Others(t) /\ UNCHANGED <<rows, purges>>
Ends(t) ==
    /\ Live(t) /\ ~Live(t)' /\ Others(t)
    /\ UNCHANGED <<session, messages, saver, purges>>
\* The checkpoint a run starts from.
From(t) == IF task[t].base # NoCkpt THEN task[t].base ELSE LatestCkpt

LEMMA MoveIs ==
    ASSUME TypeInv, NEW t \in Turn
    PROVE  /\ Start(t) => Moves(t, "started") /\ task'[t].mem = MemoryAt(From(t))
           /\ StepHalfway(t) => Moves(t, "halfway") /\ task'[t].mem = task[t].mem
           /\ Answer(t) => Moves(t, "answered") /\ task'[t].mem = task[t].mem
           /\ ReadLatest(t) => /\ Moves(t, "completing") /\ task'[t].mem = task[t].mem
                               /\ task'[t].ckpt = LatestCkpt
           /\ Fail(t) => /\ Moves(t, "pruning") /\ task'[t].mem = task[t].mem
                         /\ task'[t].ckpt = Persisted
           /\ Prune(t) => /\ Moves(t, "settling") /\ task'[t].mem = task[t].mem
                          /\ task'[t].ckpt = task[t].ckpt
<1>0. task \in [Turn -> TaskRow]
  BY DEF TypeInv, TypeOK
<1> USE DEF Moves, Others, Live, Streaming, CleaningUp
<1>1. ASSUME Start(t) PROVE Moves(t, "started") /\ task'[t].mem = MemoryAt(From(t))
  <2> DEFINE mem == MemoryAt(From(t))
  <2>1. /\ task' = [task EXCEPT ![t] = [@ EXCEPT !.pc = "started", !.mem = mem]]
        /\ task[t].pc = "announced" /\ UNCHANGED <<rows, purges>>
    BY <1>1 DEF Start, From
  <2> HIDE DEF mem
  <2> QED BY <1>0, <2>1 DEF TaskRow, mem
<1>2. ASSUME StepHalfway(t) PROVE Moves(t, "halfway") /\ task'[t].mem = task[t].mem
  BY <1>0, <1>2 DEF StepHalfway, TaskRow
<1>3. ASSUME Answer(t) PROVE Moves(t, "answered") /\ task'[t].mem = task[t].mem
  BY <1>0, <1>3 DEF Answer, TaskRow
<1>4. ASSUME ReadLatest(t)
      PROVE  /\ Moves(t, "completing") /\ task'[t].mem = task[t].mem
             /\ task'[t].ckpt = LatestCkpt
  BY <1>0, <1>4 DEF ReadLatest, TaskRow
<1>5. ASSUME Fail(t)
      PROVE  /\ Moves(t, "pruning") /\ task'[t].mem = task[t].mem
             /\ task'[t].ckpt = Persisted
  BY <1>0, <1>5 DEF Fail, Interrupt, TaskRow
<1>6. ASSUME Prune(t)
      PROVE  /\ Moves(t, "settling") /\ task'[t].mem = task[t].mem
             /\ task'[t].ckpt = task[t].ckpt
  BY <1>0, <1>6 DEF Prune, TaskRow
<1> QED BY <1>1, <1>2, <1>3, <1>4, <1>5, <1>6

LEMMA EndIs ==
    ASSUME TypeInv, NEW t \in Turn,
           Complete(t) \/ SettleInvoke(t) \/ SettleRegenerate(t) \/ Vanish(t)
    PROVE  Ends(t)
<1>1. End(t) /\ Live(t) /\ UNCHANGED <<session, messages, saver, purges>>
  BY DEF Complete, SettleInvoke, SettleRegenerate, Vanish, rows, Live, Streaming, CleaningUp
<1>2. Ended.pc = "ended"
  BY DEF Ended, IdleTask
<1> QED BY <1>1, <1>2 DEF End, Ends, Others, Live, Streaming, CleaningUp, TypeInv, TypeOK

LEMMA OpenIs ==
    ASSUME TypeInv, NEW t \in Turn, NEW m, NEW base, NEW fallback,
           Announce(t, m, base, fallback)
    PROVE  /\ task'[t].pc = "announced" /\ task'[t].msg = m /\ task'[t].base = base
           /\ task'[t].mem = <<>> /\ ~task'[t].left /\ Live(t)' /\ Others(t)
BY DEF Announce, IdleTask, Others, Live, Streaming, TypeInv, TypeOK

\* One checkpoint has an id, so an id has one memory.
LEMMA OneMemory ==
    ASSUME NEW C, \A c, d \in C : c.id = d.id => c = d, NEW c \in C
    PROVE  (CHOOSE d \in C : d.id = c.id) = c
OBVIOUS

\* A saved checkpoint is a new one, and leaves the others what they were.
LEMMA SaveIs ==
    ASSUME TypeInv, IdsUnique, NEW root, NEW mem, Save(root, mem)
    PROVE  /\ lastCkpt' = lastCkpt + 1 /\ ckpts \subseteq ckpts' /\ IdsUnique'
           /\ \A c \in ckpts' : c \in ckpts \/ (c.id = lastCkpt' /\ c.root = root /\ c.mem = mem)
           /\ \E c \in ckpts' : c.id = lastCkpt' /\ c.root = root /\ c.mem = mem
           /\ lastCkpt' \in CkptIds' /\ MemoryAt(lastCkpt)' = mem
           /\ \A id \in CkptIds : id \in CkptIds' /\ MemoryAt(id)' = MemoryAt(id)
<1> DEFINE new == [id |-> lastCkpt + 1, root |-> root, mem |-> mem]
<1>1. ckpts' = ckpts \cup {new} /\ lastCkpt' = lastCkpt + 1
  BY DEF Save
<1>2. new.id = lastCkpt + 1 /\ new.root = root /\ new.mem = mem
  OBVIOUS
<1> HIDE DEF new
<1>3. \A c \in ckpts : c.id \in Nat /\ c.id <= lastCkpt
  BY DEF TypeInv, TypeOK, IdsBounded, Ckpt
<1>4. lastCkpt \in Nat
  BY DEF TypeInv, TypeOK
<1>5. \A c \in ckpts : c.id # new.id
  BY <1>2, <1>3, <1>4
<1>6. \A c, d \in ckpts' : c.id = d.id => c = d
  BY <1>1, <1>5 DEF IdsUnique
<1>7. \A c \in ckpts' : MemoryAt(c.id)' = c.mem
  BY <1>6, OneMemory DEF MemoryAt
<1>8. \A c \in ckpts : MemoryAt(c.id) = c.mem
  BY OneMemory DEF MemoryAt, IdsUnique
<1> QED BY <1>1, <1>2, <1>6, <1>7, <1>8 DEF IdsUnique, CkptIds

LEMMA InitAlone == Init => AloneInv
<1>1. Init => \A t \in Turn : ~Live(t)
  BY DEF Init, Live, IdleTask, Streaming, CleaningUp
<1> QED BY <1>1 DEF Init, AloneInv, OneAtATime, IdsUnique, Distinct, LiveIsLast

\* What the shapes of a step give: nobody else runs, and the rows follow the turn.
LEMMA MovesAlone ==
    ASSUME OneAtATime, Distinct, LiveIsLast, NEW t \in Turn, NEW pc, Moves(t, pc)
    PROVE  OneAtATime' /\ Distinct' /\ LiveIsLast'
<1>1. UNCHANGED <<messages, versions, purges>>
  BY DEF Moves, rows
<1>2. \A u \in Turn : Live(u)' => u = t
  BY DEF Moves, Others, OneAtATime, Live
<1>3. OneAtATime' /\ Distinct'
  BY <1>1, <1>2 DEF Moves, OneAtATime, Distinct
<1>4. LatestMessage' = LatestMessage
  BY <1>1 DEF LatestMessage
<1>5. LiveIsLast'
  BY <1>1, <1>2, <1>4 DEF Moves, LiveIsLast
<1> QED BY <1>3, <1>5

LEMMA EndsAlone ==
    ASSUME OneAtATime, Distinct, IdsUnique, NEW t \in Turn, Ends(t)
    PROVE  /\ OneAtATime' /\ Distinct' /\ IdsUnique' /\ LiveIsLast'
           /\ \A u \in Turn : ~Live(u)'
<1>1. \A u \in Turn : ~Live(u)'
  BY DEF Ends, Others, OneAtATime, Live
<1> QED BY <1>1 DEF Ends, OneAtATime, Distinct, IdsUnique, LiveIsLast, saver

\* A question is a new message, the last one.
LEMMA AskIs ==
    ASSUME TypeInv, RowsInv, NEW t \in Turn, BeginInvoke(t)
    PROVE  /\ DOMAIN messages = 1 .. Len(messages) /\ Len(messages) \in Nat
           /\ DOMAIN messages' = 1 .. Len(messages) + 1 /\ Len(messages') = Len(messages) + 1
           /\ \A i \in DOMAIN messages : messages'[i] = messages[i] /\ messages[i] # t
           /\ messages'[Len(messages) + 1] = t /\ LatestMessage' = t /\ messages' # <<>>
           /\ versions'[t] = Placeholder(t, 1, Effective)
           /\ \A v \in Turn : v # t => versions'[v] = versions[v] /\ shown'[v] = shown[v]
           /\ shown'[t].current = t /\ UNCHANGED <<ckpts, lastCkpt, purges>>
           /\ \A v \in Turn : versions[v].msg # t
<1>1. messages \in Seq(Turn) /\ messages' = Append(messages, t)
  BY DEF BeginInvoke, TypeInv, TypeOK
<1>2. /\ DOMAIN messages = 1 .. Len(messages) /\ Len(messages) \in Nat
      /\ DOMAIN messages' = 1 .. Len(messages) + 1 /\ Len(messages') = Len(messages) + 1
      /\ \A i \in DOMAIN messages : messages'[i] = messages[i]
      /\ messages'[Len(messages) + 1] = t /\ messages' # <<>>
  BY <1>1
<1>3. ~Exists(t) /\ ~IsMessage(t) /\ t # NoTurn
  BY DEF BeginInvoke, Request, RowsInv, Unused, Turn, NoTurn
<1>4. \A v \in Turn : versions[v].msg # t
  BY <1>3, ByMessage DEF RowsInv, Exists
<1>5. /\ versions'[t] = Placeholder(t, 1, Effective)
      /\ \A v \in Turn : v # t => versions'[v] = versions[v] /\ shown'[v] = shown[v]
      /\ shown'[t].current = t /\ UNCHANGED <<ckpts, lastCkpt, purges>>
  BY DEF BeginInvoke, Announce, TypeInv, TypeOK
<1> QED BY <1>2, <1>3, <1>4, <1>5 DEF LatestMessage, IsMessage

\* A regeneration writes the last message again.
LEMMA AskAgainIs ==
    ASSUME TypeInv, RowsInv, NEW t \in Turn, BeginRegenerate(t)
    PROVE  /\ messages # <<>> /\ LatestMessage \in Turn /\ LatestMessage # t
           /\ versions'[t].msg = LatestMessage /\ versions'[t].result = NoCkpt
           /\ versions'[t].status = "streaming"
           /\ \A v \in Turn : v # t => versions'[v] = versions[v]
           /\ \A m \in Turn : m # LatestMessage => shown'[m] = shown[m]
           /\ UNCHANGED <<messages, stable, ckpts, lastCkpt, purges>>
<1> DEFINE m == LatestMessage
<1>1. /\ messages # <<>> /\ UNCHANGED <<messages, stable, ckpts, lastCkpt, purges>>
      /\ versions' = [versions EXCEPT ![t] = Placeholder(m, NextIndex(m), versions[m].parent)]
      /\ shown' = [shown EXCEPT ![m] =
                    [current |-> t, status |-> "streaming", text |-> EmptyText]]
      /\ task[t].pc = "idle"
  BY DEF BeginRegenerate, Announce, Request
<1>2. m \in Turn /\ IsMessage(m)
  BY <1>1, LatestIsMessage
<1>3. m # t
  BY <1>1, <1>2 DEF RowsInv, Unused
<1> HIDE DEF m
<1>4. /\ versions'[t] = Placeholder(m, NextIndex(m), versions[m].parent)
      /\ \A v \in Turn : v # t => versions'[v] = versions[v]
      /\ \A k \in Turn : k # m => shown'[k] = shown[k]
  BY <1>1 DEF TypeInv, TypeOK
<1>5. m = LatestMessage
  BY DEF m
<1> QED BY <1>1, <1>2, <1>3, <1>4, <1>5 DEF Placeholder

LEMMA AloneStep ==
    ASSUME TypeInv, RowsInv, AloneInv, [Next]_vars
    PROVE  AloneInv'
<1> SUFFICES ASSUME Alone' PROVE (OneAtATime /\ IdsUnique /\ Distinct /\ LiveIsLast)'
  BY DEF AloneInv
<1>0. Alone /\ OneAtATime /\ IdsUnique /\ Distinct /\ LiveIsLast
  BY EnvSame DEF Alone, AloneInv
<1>1. ~Allowed("stop") /\ ~Allowed("delete")
  BY <1>0 DEF Alone, Allowed
<1>2. ASSUME NEW t \in Turn, BeginInvoke(t)
      PROVE  (OneAtATime /\ IdsUnique /\ Distinct /\ LiveIsLast)'
  <2>1. /\ Live(t)' /\ Others(t) /\ ~task'[t].left /\ task'[t].msg = t
    BY <1>2, OpenIs DEF BeginInvoke
  <2>2. \A u \in Turn : Live(u)' => u = t
    BY <1>0, <1>2, <2>1, RequestAlone DEF BeginInvoke, Others, Live
  <2>3. OneAtATime' /\ IdsUnique'
    BY <1>0, <1>2, <2>1, <2>2, AskIs DEF OneAtATime, IdsUnique
  <2>4. Distinct'
    <3> SUFFICES ASSUME NEW i \in DOMAIN messages', NEW k \in DOMAIN messages',
                        messages'[i] = messages'[k]
                 PROVE  i = k
      BY DEF Distinct
    <3>1. /\ i \in DOMAIN messages \/ i = Len(messages) + 1
          /\ k \in DOMAIN messages \/ k = Len(messages) + 1
      BY <1>2, AskIs
    <3>2. /\ \A j \in DOMAIN messages : messages'[j] = messages[j] /\ messages[j] # t
          /\ messages'[Len(messages) + 1] = t
      BY <1>2, AskIs
    <3> QED BY <1>0, <3>1, <3>2 DEF Distinct
  <2>5. LiveIsLast'
    <3>1. messages' # <<>> /\ LatestMessage' = t /\ versions'[t] = Placeholder(t, 1, Effective)
      BY <1>2, AskIs
    <3> QED BY <2>1, <2>2, <3>1 DEF LiveIsLast, Placeholder
  <2> QED BY <2>3, <2>4, <2>5
<1>3. ASSUME NEW t \in Turn, BeginRegenerate(t)
      PROVE  (OneAtATime /\ IdsUnique /\ Distinct /\ LiveIsLast)'
  <2>1. /\ Live(t)' /\ Others(t) /\ ~task'[t].left /\ task'[t].msg = LatestMessage
    BY <1>3, OpenIs DEF BeginRegenerate
  <2>2. \A u \in Turn : Live(u)' => u = t
    BY <1>0, <1>3, <2>1, RequestAlone DEF BeginRegenerate, Others, Live
  <2>3. /\ messages # <<>> /\ UNCHANGED <<messages, ckpts, purges>>
        /\ versions'[t].msg = LatestMessage /\ versions'[t].result = NoCkpt
    BY <1>3, AskAgainIs
  <2>4. OneAtATime' /\ IdsUnique' /\ Distinct'
    BY <1>0, <2>1, <2>2, <2>3 DEF OneAtATime, IdsUnique, Distinct
  <2>5. LiveIsLast'
    BY <2>1, <2>2, <2>3 DEF LiveIsLast, LatestMessage
  <2> QED BY <2>4, <2>5
<1>4. ASSUME NEW t \in Turn,
             Start(t) \/ StepHalfway(t) \/ Answer(t) \/ ReadLatest(t) \/ Fail(t) \/ Prune(t)
      PROVE  (OneAtATime /\ IdsUnique /\ Distinct /\ LiveIsLast)'
  <2>1. \E pc : Moves(t, pc)
    BY <1>4, MoveIs
  <2>2. OneAtATime' /\ Distinct' /\ LiveIsLast'
    BY <1>0, <2>1, MovesAlone
  <2>3. CASE Start(t) \/ StepHalfway(t) \/ Answer(t)
    <3>1. \E root, mem : Save(root, mem)
      BY <2>3 DEF Start, StepHalfway, Answer
    <3> QED BY <1>0, <2>2, <3>1, SaveIs
  <2>4. CASE ReadLatest(t) \/ Fail(t) \/ Prune(t)
    <3>1. ckpts' \subseteq ckpts
      BY <2>4 DEF ReadLatest, Fail, Interrupt, Prune, saver
    <3> QED BY <1>0, <2>2, <3>1 DEF IdsUnique
  <2> QED BY <1>4, <2>3, <2>4
<1>5. ASSUME NEW t \in Turn,
             Complete(t) \/ SettleInvoke(t) \/ SettleRegenerate(t) \/ Vanish(t)
      PROVE  (OneAtATime /\ IdsUnique /\ Distinct /\ LiveIsLast)'
  BY <1>0, <1>5, EndIs, EndsAlone
<1>6. ASSUME NEW v \in Turn, Switch(v)
      PROVE  (OneAtATime /\ IdsUnique /\ Distinct /\ LiveIsLast)'
  <2>1. UNCHANGED <<messages, versions, ckpts, task, purges>>
    BY <1>6 DEF Switch, saver
  <2> QED BY <1>0, <2>1 DEF OneAtATime, IdsUnique, Distinct, LiveIsLast, LatestMessage, Live
<1>7. ASSUME Crash PROVE (OneAtATime /\ IdsUnique /\ Distinct /\ LiveIsLast)'
  <2>1. purges' = 0 /\ UNCHANGED <<messages, ckpts>>
    BY <1>7 DEF Crash, rows, saver
  <2>2. \A u \in Turn : ~Live(u)'
    <3>1. Ended.pc = "ended"
      BY DEF Ended, IdleTask
    <3> QED BY <1>7, <3>1 DEF Crash, Live, Streaming, CleaningUp
  <2> QED BY <1>0, <2>1, <2>2 DEF OneAtATime, IdsUnique, Distinct, LiveIsLast
<1>8. ASSUME UNCHANGED vars PROVE (OneAtATime /\ IdsUnique /\ Distinct /\ LiveIsLast)'
  BY <1>0, <1>8 DEF vars, OneAtATime, IdsUnique, Distinct, LiveIsLast, LatestMessage, Live
<1>9. ~DeleteSession /\ ~PurgeThread /\ \A t \in Turn : ~Stop(t)
  <2>1. ~DeleteSession /\ \A t \in Turn : ~Stop(t)
    BY <1>1, Zenon DEF DeleteSession, Stop
  <2>2. ~(purges > 0)
    BY <1>0 DEF OneAtATime
  <2> QED BY <2>1, <2>2 DEF PurgeThread
<1> QED BY <1>2, <1>3, <1>4, <1>5, <1>6, <1>7, <1>8, <1>9 DEF Next

-----------------------------------------------------------------------------
(* One tab that meets faults. *)

LEMMA InitFaulty == Init => FaultyInv
<1>1. Init => \A t \in Turn : ~Live(t) /\ ~Exists(t)
  BY DEF Init, Live, IdleTask, Streaming, CleaningUp, Exists, NoVersion
<1> QED BY <1>1 DEF Init, FaultyInv, OneVersionEach, StartsKept, StartsWhole, TurnsWhole,
                    Kept, WholeAt

\* The root the queries pick is a root, if there is any.
LEMMA RootIs ==
    ASSUME TypeInv, \E c \in ckpts : c.root
    PROVE  \E c \in ckpts : c.root /\ c.id = RootCkpt
<1> DEFINE roots == {c.id : c \in {d \in ckpts : d.root}}
<1>1. roots # {} /\ roots \subseteq Nat
  BY DEF TypeInv, TypeOK, Ckpt
<1>2. RootCkpt = CHOOSE i \in roots : \A j \in roots : i <= j
  BY <1>1 DEF RootCkpt
<1>3. RootCkpt \in roots
  <2> HIDE DEF roots
  <2> QED BY <1>1, <1>2, LeastNumber
<1> QED BY <1>3

\* The newest checkpoint is the last one handed out, if that is still there.
LEMMA LatestIsLast ==
    ASSUME TypeInv, lastCkpt \in CkptIds
    PROVE  LatestCkpt = lastCkpt
<1>1. ckpts # {}
  BY DEF CkptIds
<1>2. CkptIds \subseteq Nat /\ \A j \in CkptIds : j <= lastCkpt
  BY DEF CkptIds, TypeInv, TypeOK, Ckpt, IdsBounded
<1>3. LatestCkpt = CHOOSE i \in CkptIds : \A j \in CkptIds : j <= i
  BY <1>1 DEF LatestCkpt
<1>4. LatestCkpt \in CkptIds /\ \A j \in CkptIds : j <= LatestCkpt
  BY <1>2, <1>3
<1> QED BY <1>2, <1>4

\* With one version to each message, the persisted result is that of the last reply.
LEMMA PersistedIsLast ==
    ASSUME TypeInv, RowsInv, OneVersionEach
    PROVE  Persisted = IF messages = <<>> THEN NoCkpt ELSE versions[LatestMessage].result
<1> DEFINE joined == {i \in DOMAIN messages : Exists(shown[messages[i]].current)}
<1>1. \A i \in DOMAIN messages : Exists(shown[messages[i]].current)
  <2> SUFFICES ASSUME NEW i \in DOMAIN messages PROVE Exists(messages[i])
    BY DEF OneVersionEach
  <2>1. messages[i] \in Turn /\ messages[i] # NoTurn
    BY MessageAt, MessageIsTurn
  <2>2. versions[messages[i]].msg = messages[i]
    BY DEF RowsInv, VersionsNumbered
  <2> QED BY <2>1, <2>2 DEF Exists
<1>2. joined = 1 .. Len(messages) /\ Len(messages) \in Nat
  BY <1>1 DEF TypeInv, TypeOK
<1>3. CASE messages = <<>>
  BY <1>2, <1>3 DEF Persisted
<1>4. CASE messages # <<>>
  <2>1. Len(messages) \in joined
    BY <1>2, <1>4 DEF TypeInv, TypeOK
  <2>2. Persisted = LET i == CHOOSE k \in joined : \A j \in joined : j <= k
                    IN  versions[shown[messages[i]].current].result
    BY <2>1 DEF Persisted
  <2>3. (CHOOSE k \in joined : \A j \in joined : j <= k) = Len(messages)
    <3> HIDE DEF joined
    <3>1. \A j \in joined : j <= Len(messages)
      BY <1>2
    <3>2. \A k \in joined : (\A j \in joined : j <= k) => k = Len(messages)
      BY <1>2, <2>1
    <3> QED BY <2>1, <3>1, <3>2
  <2>4. Persisted = versions[shown[messages[Len(messages)]].current].result
    BY <2>2, <2>3, Zenon
  <2>5. shown[messages[Len(messages)]].current = messages[Len(messages)]
    BY <2>1 DEF OneVersionEach
  <2> HIDE DEF joined
  <2> QED BY <1>4, <2>4, <2>5, Zenon DEF LatestMessage
<1> QED BY <1>3, <1>4

LEMMA WholeMemory ==
    ASSUME TypeInv, NEW id, WholeAt(id)
    PROVE  Whole(MemoryAt(id))
BY MemoryAtType DEF WholeAt, Whole

LEMMA WholeAdded ==
    ASSUME NEW mem \in Seq(Exchange), Whole(mem), NEW t \in Turn
    PROVE  Whole(With(mem, t))
<1> DEFINE own == [turn |-> t, whole |-> TRUE]
<1>1. own \in Exchange /\ own.whole
  BY DEF Exchange
<1>2. With(mem, t) = Append(mem, own)
  BY DEF With
<1> HIDE DEF own
<1>3. /\ DOMAIN Append(mem, own) = 1 .. Len(mem) + 1 /\ Len(mem) \in Nat
      /\ DOMAIN mem = 1 .. Len(mem) /\ Append(mem, own)[Len(mem) + 1] = own
      /\ \A i \in DOMAIN mem : Append(mem, own)[i] = mem[i]
  BY <1>1
<1>4. ASSUME NEW i \in DOMAIN Append(mem, own) PROVE Append(mem, own)[i].whole
  <2>1. CASE i = Len(mem) + 1
    BY <1>1, <1>3, <2>1
  <2>2. CASE i # Len(mem) + 1
    <3>1. i \in DOMAIN mem
      BY <1>3, <2>2
    <3> QED BY <1>3, <3>1 DEF Whole
  <2> QED BY <2>1, <2>2
<1> QED BY <1>2, <1>4 DEF Whole

\* A new question starts from whole exchanges, or from nothing when nothing is saved.
LEMMA EffectiveIsWhole ==
    ASSUME TypeInv, RowsInv, IdsUnique, OneVersionEach, StartsKept, StartsWhole
    PROVE  /\ Kept(Persisted) /\ WholeAt(Persisted)
           /\ Kept(Effective) /\ WholeAt(Effective) /\ (Effective = NoCkpt => ckpts = {})
<1>1. Kept(NoCkpt) /\ WholeAt(NoCkpt) /\ \A c \in ckpts : c.id # NoCkpt
  BY DEF Kept, WholeAt, TypeInv, TypeOK, Ckpt
<1>2. Kept(Persisted) /\ WholeAt(Persisted)
  <2>1. CASE messages = <<>>
    BY <1>1, <2>1, PersistedIsLast
  <2>2. CASE messages # <<>>
    BY <2>2, PersistedIsLast, LatestIsMessage DEF StartsKept, StartsWhole
  <2> QED BY <2>1, <2>2
<1>3. CASE stable # NoCkpt
  BY <1>2, <1>3 DEF Effective, StartsKept, StartsWhole
<1>4. CASE stable = NoCkpt /\ Persisted # NoCkpt
  BY <1>2, <1>4 DEF Effective
<1>5. CASE stable = NoCkpt /\ Persisted = NoCkpt
  <2>1. Effective = RootCkpt
    BY <1>5 DEF Effective
  <2>2. CASE ckpts = {}
    <3>1. RootCkpt = NoCkpt
      BY <2>2 DEF RootCkpt
    <3> QED BY <1>1, <1>2, <2>1, <2>2, <3>1
  <2>3. CASE ckpts # {}
    <3>1. PICK c \in ckpts : c.root /\ c.id = RootCkpt
      BY <2>3, RootIs DEF StartsKept
    <3>2. WholeAt(RootCkpt)
      BY <3>1 DEF WholeAt, IdsUnique, StartsWhole
    <3>3. RootCkpt \in CkptIds /\ RootCkpt # NoCkpt
      BY <1>1, <3>1 DEF CkptIds
    <3> QED BY <1>2, <2>1, <3>2, <3>3 DEF Kept
  <2> QED BY <2>2, <2>3
<1> QED BY <1>2, <1>3, <1>4, <1>5

\* A saved checkpoint takes nothing from the ids that are known.
LEMMA SaveStarts ==
    ASSUME TypeInv, MemoryInv, IdsUnique, StartsKept, StartsWhole, UNCHANGED <<rows, stable>>,
           NEW root, NEW mem, Save(root, mem), root => Whole(mem), root \/ ckpts # {}
    PROVE  StartsKept' /\ StartsWhole' /\ ckpts' # {}
<1>1. /\ ckpts \subseteq ckpts' /\ lastCkpt' = lastCkpt + 1
      /\ \A c \in ckpts' : c \in ckpts \/ (c.id = lastCkpt' /\ c.root = root /\ c.mem = mem)
      /\ \E c \in ckpts' : c.id = lastCkpt' /\ c.root = root /\ c.mem = mem
  BY SaveIs
<1>2. UNCHANGED <<messages, versions, stable, LatestMessage>>
  BY DEF rows, LatestMessage
<1>3. stable # lastCkpt' /\ \A v \in Turn : versions[v].result # lastCkpt'
  BY <1>1 DEF MemoryInv, RemembersIssued, TypeInv, TypeOK, VersionRow
<1>4. StartsKept'
  BY <1>1, <1>2 DEF StartsKept, Kept, CkptIds
<1>5. StartsWhole'
  BY <1>1, <1>2, <1>3 DEF StartsWhole, WholeAt
<1> QED BY <1>1, <1>4, <1>5

LEMMA OnlyMover ==
    ASSUME OneAtATime, NEW t \in Turn, NEW pc, Moves(t, pc)
    PROVE  \A u \in Turn : Live(u)' => u = t
BY DEF Moves, Others, OneAtATime, Live

\* A step of the agent, with the faults around it.
LEMMA SaveFaulty ==
    ASSUME TypeInv, MemoryInv, OneAtATime, IdsUnique,
           OneVersionEach, StartsKept, StartsWhole, TurnsWhole,
           NEW t \in Turn, Start(t) \/ StepHalfway(t) \/ Answer(t)
    PROVE  OneVersionEach' /\ StartsKept' /\ StartsWhole' /\ TurnsWhole'
<1>1. UNCHANGED <<rows, stable>>
  BY DEF Start, StepHalfway, Answer
<1>2. OneVersionEach'
  BY <1>1 DEF OneVersionEach, Exists, rows
<1>3. CASE Start(t)
  <2> DEFINE mem == MemoryAt(From(t))
  <2>1. /\ Moves(t, "started") /\ task'[t].mem = mem /\ Save(From(t) = NoCkpt, mem)
        /\ task[t].pc = "announced"
    BY <1>3, MoveIs DEF Start, From
  <2>2. /\ Kept(task[t].base) /\ WholeAt(task[t].base)
        /\ task[t].base = NoCkpt => ckpts = {}
    BY <2>1 DEF TurnsWhole, Live, Streaming
  <2>3. Whole(mem)
    <3>1. CASE task[t].base = NoCkpt
      <4>1. mem = <<>>
        BY <2>2, <3>1 DEF MemoryAt
      <4> HIDE DEF mem
      <4> QED BY <4>1 DEF Whole
    <3>2. CASE task[t].base # NoCkpt
      BY <2>2, <3>2, WholeMemory DEF From
    <3> QED BY <3>1, <3>2
  <2>4. From(t) = NoCkpt \/ ckpts # {}
    <3>1. CASE task[t].base = NoCkpt
      BY <2>2, <3>1 DEF From, LatestCkpt
    <3>2. CASE task[t].base # NoCkpt
      BY <2>2, <3>2 DEF Kept, CkptIds
    <3> QED BY <3>1, <3>2
  <2> HIDE DEF mem
  <2>5. StartsKept' /\ StartsWhole' /\ ckpts' # {}
    BY <1>1, <2>1, <2>3, <2>4, SaveStarts
  <2>6. TurnsWhole'
    BY <2>1, <2>3, <2>5, OnlyMover DEF TurnsWhole, Moves, CleaningUp
  <2> QED BY <1>2, <2>5, <2>6
<1>4. CASE StepHalfway(t)
  <2>1. /\ Moves(t, "halfway") /\ task'[t].mem = task[t].mem /\ task[t].pc = "started"
        /\ \E mem : Save(FALSE, mem)
    BY <1>4, MoveIs DEF StepHalfway
  <2>2. Whole(task[t].mem) /\ ckpts # {}
    BY <2>1 DEF TurnsWhole, Live, Streaming
  <2>3. StartsKept' /\ StartsWhole' /\ ckpts' # {}
    BY <1>1, <2>1, <2>2, SaveStarts
  <2>4. TurnsWhole'
    BY <2>1, <2>2, <2>3, OnlyMover DEF TurnsWhole, Moves, CleaningUp
  <2> QED BY <1>2, <2>3, <2>4
<1>5. CASE Answer(t)
  <2> DEFINE told == With(task[t].mem, t)
  <2>1. /\ Moves(t, "answered") /\ task'[t].mem = task[t].mem /\ task[t].pc = "halfway"
        /\ Save(FALSE, told)
    BY <1>5, MoveIs DEF Answer, With
  <2>2. Whole(task[t].mem) /\ ckpts # {}
    BY <2>1 DEF TurnsWhole, Live, Streaming
  <2>3. Whole(told)
    BY <2>2, WholeAdded DEF TypeInv, TypeOK, TaskRow
  <2> HIDE DEF told
  <2>4. StartsKept' /\ StartsWhole' /\ ckpts' # {}
    BY <1>1, <2>1, <2>2, SaveStarts
  <2>5. lastCkpt' \in CkptIds' /\ WholeAt(lastCkpt)'
    <3>1. /\ lastCkpt' = lastCkpt + 1 /\ lastCkpt' \in CkptIds'
          /\ \A c \in ckpts' : c \in ckpts \/ (c.id = lastCkpt' /\ c.mem = told)
      BY <2>1, SaveIs
    <3>2. \A c \in ckpts : c.id # lastCkpt'
      BY <3>1 DEF TypeInv, TypeOK, IdsBounded, Ckpt
    <3> QED BY <2>3, <3>1, <3>2 DEF WholeAt
  <2>6. TurnsWhole'
    BY <2>1, <2>2, <2>5, OnlyMover DEF TurnsWhole, Moves, CleaningUp
  <2> QED BY <1>2, <2>4, <2>6
<1> QED BY <1>3, <1>4, <1>5

LEMMA FaultyStep ==
    ASSUME TypeInv, RowsInv, MemoryInv, AloneInv, FaultyInv, [Next]_vars
    PROVE  FaultyInv'
<1> DEFINE Goal == OneVersionEach /\ StartsKept /\ StartsWhole /\ TurnsWhole
<1> SUFFICES ASSUME Faulty' PROVE Goal'
  BY DEF FaultyInv
<1>0. /\ OneAtATime /\ IdsUnique /\ Distinct /\ LiveIsLast
      /\ OneVersionEach /\ StartsKept /\ StartsWhole /\ TurnsWhole
  BY EnvSame DEF Alone, AloneInv, Faulty, FaultyInv
<1>1. /\ ~Allowed("stop") /\ ~Allowed("delete") /\ ~Allowed("regenerate")
  BY EnvSame DEF Faulty, Allowed
<1>2. versions \in [Turn -> VersionRow] /\ shown \in [Turn -> MessageRow]
  BY DEF TypeInv, TypeOK
\* A turn under way is its own message, and the last.
<1>3. ASSUME NEW t \in Turn, Live(t)
      PROVE  /\ session /\ messages # <<>> /\ LatestMessage = t /\ task[t].msg = t
             /\ versions[t].msg = t /\ versions[t].result = NoCkpt /\ IsMessage(t)
  <2>1. /\ messages # <<>> /\ task[t].msg = LatestMessage
        /\ versions[t].msg = task[t].msg /\ versions[t].result = NoCkpt
    BY <1>0, <1>3 DEF LiveIsLast
  <2>2. LatestMessage \in Turn /\ LatestMessage # NoTurn /\ IsMessage(LatestMessage)
    BY <2>1, LatestIsMessage, MessageIsTurn
  <2>3. versions[t].msg = t
    BY <1>0, <2>1, <2>2 DEF OneVersionEach, Exists
  <2>4. session
    BY <2>1 DEF RowsInv, NoSessionNoMessages
  <2> QED BY <2>1, <2>2, <2>3, <2>4
<1>4. ASSUME NEW t \in Turn, BeginInvoke(t) PROVE Goal'
  <2>1. /\ \A i \in DOMAIN messages' :
              messages'[i] = t \/ (i \in DOMAIN messages /\ messages'[i] = messages[i])
        /\ messages' # <<>> /\ LatestMessage' = t
        /\ versions'[t] = Placeholder(t, 1, Effective) /\ shown'[t].current = t
        /\ \A v \in Turn : v # t => versions'[v] = versions[v] /\ shown'[v] = shown[v]
        /\ UNCHANGED <<ckpts, lastCkpt, CkptIds>>
    BY <1>4, AskIs DEF CkptIds
  <2>2. versions'[t].msg = t /\ versions'[t].result = NoCkpt
    BY <2>1 DEF Placeholder
  <2>3. OneVersionEach'
    BY <1>0, <2>1, <2>2, MessageAt DEF OneVersionEach, Exists
  <2>4. /\ Kept(Persisted) /\ WholeAt(Persisted)
        /\ Kept(Effective) /\ WholeAt(Effective) /\ (Effective = NoCkpt => ckpts = {})
    BY <1>0, EffectiveIsWhole
  <2>5. stable' \in {stable, Persisted}
    BY <1>4 DEF BeginInvoke
  <2>6. WholeAt(NoCkpt)
    BY DEF WholeAt, TypeInv, TypeOK, Ckpt
  <2>7. StartsKept'
    BY <1>0, <2>1, <2>2, <2>4, <2>5 DEF StartsKept, Kept
  <2>8. StartsWhole'
    BY <1>0, <2>1, <2>2, <2>4, <2>5, <2>6 DEF StartsWhole, WholeAt
  <2>9. TurnsWhole'
    <3>1. /\ task'[t].pc = "announced" /\ task'[t].base = Effective
          /\ task'[t].mem = <<>> /\ Others(t)
      BY <1>4, OpenIs DEF BeginInvoke
    <3>2. \A u \in Turn : Live(u)' => u = t
      BY <1>0, <1>4, <3>1, RequestAlone, EnvSame
         DEF BeginInvoke, Others, Live, Alone, Faulty
    <3>3. Whole(<<>>)
      BY DEF Whole
    <3> QED BY <2>1, <2>4, <3>1, <3>2, <3>3 DEF TurnsWhole, Kept, WholeAt, CleaningUp
  <2> QED BY <2>3, <2>7, <2>8, <2>9
<1>5. ASSUME NEW t \in Turn, Start(t) \/ StepHalfway(t) \/ Answer(t) PROVE Goal'
  BY <1>0, <1>5, SaveFaulty
<1>6. ASSUME NEW t \in Turn, ReadLatest(t) PROVE Goal'
  <2>1. /\ Moves(t, "completing") /\ task'[t].mem = task[t].mem /\ task'[t].ckpt = LatestCkpt
        /\ task[t].pc = "answered" /\ UNCHANGED <<rows, stable, saver>>
    BY <1>6, MoveIs DEF ReadLatest
  <2>2. UNCHANGED <<messages, shown, versions, stable, ckpts, lastCkpt, CkptIds, LatestMessage>>
    BY <2>1 DEF rows, saver, CkptIds, LatestMessage
  <2>3. OneVersionEach' /\ StartsKept' /\ StartsWhole'
    BY <1>0, <2>2 DEF OneVersionEach, Exists, StartsKept, StartsWhole, Kept, WholeAt
  <2>4. Whole(task[t].mem) /\ lastCkpt \in CkptIds /\ WholeAt(lastCkpt)
    BY <1>0, <2>1 DEF TurnsWhole, Moves
  <2>5. LatestCkpt = lastCkpt
    BY <2>4, LatestIsLast
  <2>6. TurnsWhole'
    BY <1>0, <2>1, <2>2, <2>4, <2>5, OnlyMover
       DEF TurnsWhole, Moves, CleaningUp, Kept, WholeAt
  <2> QED BY <2>3, <2>6
<1>7. ASSUME NEW t \in Turn, Fail(t) PROVE Goal'
  <2>1. /\ Moves(t, "pruning") /\ task'[t].mem = task[t].mem /\ task'[t].ckpt = Persisted
        /\ stable' = (IF session THEN Persisted ELSE stable) /\ UNCHANGED <<rows, saver>>
    BY <1>7, MoveIs DEF Fail, Interrupt
  <2>2. UNCHANGED <<messages, shown, versions, ckpts, lastCkpt, CkptIds, LatestMessage>>
    BY <2>1 DEF rows, saver, CkptIds, LatestMessage
  <2>3. Persisted = NoCkpt /\ stable' = NoCkpt
    BY <1>0, <1>3, <2>1, PersistedIsLast DEF Moves
  <2>4. WholeAt(NoCkpt)
    BY DEF WholeAt, TypeInv, TypeOK, Ckpt
  <2>5. OneVersionEach' /\ StartsKept' /\ StartsWhole'
    BY <1>0, <2>2, <2>3, <2>4
       DEF OneVersionEach, Exists, StartsKept, StartsWhole, Kept, WholeAt
  <2>6. Whole(task[t].mem)
    BY <1>0, <2>1 DEF TurnsWhole, Moves
  <2>7. TurnsWhole'
    BY <1>0, <2>1, <2>3, <2>6, OnlyMover DEF TurnsWhole, Moves, CleaningUp
  <2> QED BY <2>5, <2>7
<1>8. ASSUME NEW t \in Turn, Prune(t) PROVE Goal'
  <2>1. /\ Moves(t, "settling") /\ task'[t].mem = task[t].mem /\ task'[t].ckpt = task[t].ckpt
        /\ ckpts' = {c \in ckpts : task[t].ckpt # NoCkpt /\ c.id <= task[t].ckpt}
        /\ task[t].pc = "pruning" /\ UNCHANGED <<rows, stable>>
    BY <1>8, MoveIs DEF Prune
  <2>2. /\ Whole(task[t].mem) /\ task[t].ckpt = NoCkpt /\ stable = NoCkpt
        /\ versions[t].result = NoCkpt /\ LatestMessage = t
    BY <1>0, <1>3, <2>1 DEF TurnsWhole, Moves, CleaningUp
  <2>3. ckpts' = {} /\ UNCHANGED <<messages, shown, versions, LatestMessage>>
    BY <2>1, <2>2 DEF rows, LatestMessage
  <2>4. OneVersionEach' /\ StartsKept' /\ StartsWhole'
    BY <1>0, <2>1, <2>2, <2>3
       DEF OneVersionEach, Exists, StartsKept, StartsWhole, Kept, WholeAt
  <2>5. TurnsWhole'
    BY <1>0, <2>1, <2>2, OnlyMover DEF TurnsWhole, Moves, CleaningUp
  <2> QED BY <2>4, <2>5
<1>9. ASSUME NEW t \in Turn, Complete(t) PROVE Goal'
  <2>1. Ends(t) /\ \A u \in Turn : ~Live(u)'
    BY <1>0, <1>9, EndIs, EndsAlone
  <2>2. session /\ LatestMessage = t /\ task[t].msg = t /\ versions[t].msg = t /\ IsMessage(t)
        /\ messages # <<>>
    BY <1>3, <2>1 DEF Ends
  <2>3. /\ versions'[t].msg = t /\ versions'[t].result = task[t].ckpt
        /\ \A v \in Turn : v # t => versions'[v] = versions[v]
        /\ shown'[t].current = t /\ \A v \in Turn : v # t => shown'[v] = shown[v]
        /\ stable' = task[t].ckpt
    <3>1. Exists(t)
      BY <2>2, MessageIsTurn DEF Exists
    <3> QED BY <1>2, <1>9, <2>2, <3>1 DEF Complete, WriteTurn, VersionRow
  <2>4. UNCHANGED <<messages, ckpts, lastCkpt, CkptIds, LatestMessage>>
    BY <2>1 DEF Ends, saver, CkptIds, LatestMessage
  <2>5. Kept(task[t].ckpt) /\ WholeAt(task[t].ckpt)
    BY <1>0, <1>9, <2>1 DEF Complete, Ends, TurnsWhole
  <2>6. OneVersionEach'
    BY <1>0, <2>3, <2>4, MessageAt DEF OneVersionEach, Exists
  <2>7. StartsKept'
    BY <1>0, <2>2, <2>3, <2>4, <2>5 DEF StartsKept, Kept
  <2>8. StartsWhole'
    BY <1>0, <2>3, <2>4, <2>5 DEF StartsWhole, WholeAt
  <2> QED BY <2>1, <2>6, <2>7, <2>8 DEF TurnsWhole
<1>10. ASSUME NEW t \in Turn, SettleInvoke(t) PROVE Goal'
  <2>1. Ends(t) /\ \A u \in Turn : ~Live(u)'
    BY <1>0, <1>10, EndIs, EndsAlone
  <2>2. session /\ LatestMessage = t /\ task[t].msg = t /\ versions[t].msg = t /\ IsMessage(t)
        /\ messages # <<>> /\ versions[t].result = NoCkpt
    BY <1>3, <2>1 DEF Ends
  <2>3. /\ versions'[t].msg = t /\ versions'[t].result = NoCkpt
        /\ \A v \in Turn : v # t => versions'[v] = versions[v]
        /\ shown'[t].current = t /\ \A v \in Turn : v # t => shown'[v] = shown[v]
        /\ stable' = stable
    <3>1. Exists(t)
      BY <2>2, MessageIsTurn DEF Exists
    <3> QED BY <1>2, <1>10, <2>2, <3>1 DEF SettleInvoke, WriteTurn, VersionRow
  <2>4. UNCHANGED <<messages, ckpts, lastCkpt, CkptIds, LatestMessage>>
    BY <2>1 DEF Ends, saver, CkptIds, LatestMessage
  <2>5. OneVersionEach'
    BY <1>0, <2>3, <2>4, MessageAt DEF OneVersionEach, Exists
  <2>6. StartsKept' /\ StartsWhole'
    BY <1>0, <2>2, <2>3, <2>4 DEF StartsKept, Kept, StartsWhole, WholeAt
  <2> QED BY <2>1, <2>5, <2>6 DEF TurnsWhole
<1>11. ASSUME NEW t \in Turn PROVE ~SettleRegenerate(t)
  BY <1>3 DEF SettleRegenerate, Live, CleaningUp
<1>12. ASSUME NEW t \in Turn, Vanish(t) PROVE Goal'
  <2>1. \A u \in Turn : ~Live(u)'
    BY <1>0, <1>12, EndIs, EndsAlone
  <2>2. UNCHANGED <<messages, shown, versions, stable, ckpts, CkptIds, LatestMessage>>
    BY <1>12 DEF Vanish, rows, saver, CkptIds, LatestMessage
  <2> QED BY <1>0, <2>1, <2>2
          DEF OneVersionEach, Exists, StartsKept, StartsWhole, Kept, WholeAt, TurnsWhole
<1>13. ASSUME NEW v \in Turn, Switch(v) PROVE Goal'
  <2>1. /\ messages # <<>> /\ versions[v].msg = LatestMessage
        /\ shown' = [shown EXCEPT ![LatestMessage] =
              [current |-> v, status |-> versions[v].status, text |-> versions[v].text]]
        /\ stable' = versions[v].result
        /\ UNCHANGED <<messages, versions, ckpts, lastCkpt, task>>
    BY <1>13 DEF Switch, saver
  <2>2. UNCHANGED <<CkptIds, LatestMessage>>
    BY <2>1 DEF CkptIds, LatestMessage
  <2>3. LatestMessage \in Turn /\ LatestMessage # NoTurn
    BY <2>1, LatestIsMessage, MessageIsTurn
  <2>4. v = LatestMessage
    BY <1>0, <2>1, <2>3 DEF OneVersionEach, Exists
  <2>5. shown'[v].current = v /\ \A u \in Turn : u # v => shown'[u] = shown[u]
    BY <1>2, <2>1, <2>4
  <2>6. OneVersionEach'
    BY <1>0, <2>1, <2>5, MessageAt DEF OneVersionEach, Exists
  <2>7. StartsKept' /\ StartsWhole'
    BY <1>0, <2>1, <2>2, <2>4 DEF StartsKept, Kept, StartsWhole, WholeAt
  <2>8. TurnsWhole'
    <3>1. \A t \in Turn : Live(t) => stable' = NoCkpt
      BY <1>3, <2>1, <2>4
    <3> QED BY <1>0, <2>1, <2>2, <3>1 DEF TurnsWhole, Live, Kept, WholeAt
  <2> QED BY <2>6, <2>7, <2>8
<1>14. ASSUME Crash PROVE Goal'
  <2>1. \A u \in Turn : ~Live(u)'
    <3>1. Ended.pc = "ended"
      BY DEF Ended, IdleTask
    <3> QED BY <1>14, <3>1 DEF Crash, Live, Streaming, CleaningUp
  <2>2. UNCHANGED <<messages, shown, versions, stable, ckpts, CkptIds, LatestMessage>>
    BY <1>14 DEF Crash, rows, saver, CkptIds, LatestMessage
  <2> QED BY <1>0, <2>1, <2>2
          DEF OneVersionEach, Exists, StartsKept, StartsWhole, Kept, WholeAt, TurnsWhole
<1>15. ASSUME UNCHANGED vars PROVE Goal'
  <2>1. UNCHANGED <<messages, shown, versions, stable, ckpts, lastCkpt, task, CkptIds,
                    LatestMessage>>
    BY <1>15 DEF vars, CkptIds, LatestMessage
  <2> QED BY <1>0, <2>1
          DEF OneVersionEach, Exists, StartsKept, StartsWhole, Kept, WholeAt, TurnsWhole, Live
<1>16. ~DeleteSession /\ ~PurgeThread /\ \A t \in Turn : ~Stop(t) /\ ~BeginRegenerate(t)
  <2>1. ~DeleteSession /\ \A t \in Turn : ~Stop(t) /\ ~BeginRegenerate(t)
    BY <1>1, Zenon DEF DeleteSession, Stop, BeginRegenerate
  <2>2. ~(purges > 0)
    BY <1>0 DEF OneAtATime
  <2> QED BY <2>1, <2>2 DEF PurgeThread
<1> HIDE DEF Goal
<1> QED BY <1>4, <1>5, <1>6, <1>7, <1>8, <1>9, <1>10, <1>11, <1>12, <1>13, <1>14, <1>15,
           <1>16 DEF Next

-----------------------------------------------------------------------------
(* One tab that is not disturbed. *)

\* The replies before a message are a sequence, one shorter than its number.
LEMMA EarlierType ==
    ASSUME TypeInv, NEW i \in 1 .. Len(messages) + 1
    PROVE  /\ Earlier(i) \in Seq(Turn \cup {NoTurn}) /\ Len(Earlier(i)) = i - 1
           /\ DOMAIN Earlier(i) = 1 .. i - 1
           /\ \A j \in 1 .. i - 1 : Earlier(i)[j] = shown[messages[j]].current
<1>1. Len(messages) \in Nat /\ \A j \in 1 .. Len(messages) : messages[j] \in Turn
  BY DEF TypeInv, TypeOK
<1>2. \A j \in 1 .. i - 1 : shown[messages[j]].current \in Turn \cup {NoTurn}
  BY <1>1 DEF TypeInv, TypeOK, MessageRow
<1>3. i - 1 \in Nat
  BY <1>1
<1> QED BY <1>2, <1>3 DEF Earlier

LEMMA RecalledNone ==
    ASSUME NEW mem, NEW who, DOMAIN who = {}
    PROVE  Recalled(mem, who)
<1>1. [j \in DOMAIN who |-> j] \in [DOMAIN who -> DOMAIN mem]
  OBVIOUS
<1> QED BY <1>1 DEF Recalled

\* A memory that recalls some replies, and is told one more, recalls that one too.
LEMMA RecalledMore ==
    ASSUME NEW mem \in Seq(Exchange), NEW who \in Seq(Turn \cup {NoTurn}),
           Recalled(mem, who), NEW t \in Turn
    PROVE  Recalled(With(mem, t), Append(who, t))
<1> DEFINE own  == [turn |-> t, whole |-> TRUE]
           told == Append(mem, own)
           all  == Append(who, t)
           k    == Len(who)
           n    == Len(mem)
<1>1. PICK f \in [DOMAIN who -> DOMAIN mem] :
          /\ \A i, j \in DOMAIN who : i < j => f[i] < f[j]
          /\ \A j \in DOMAIN who : mem[f[j]] = [turn |-> who[j], whole |-> TRUE]
  BY DEF Recalled
<1>2. /\ k \in Nat /\ DOMAIN who = 1 .. k /\ DOMAIN all = 1 .. k + 1
      /\ all[k + 1] = t /\ \A j \in 1 .. k : all[j] = who[j]
  OBVIOUS
<1>3. own \in Exchange
  BY DEF Exchange
<1>4. /\ n \in Nat /\ DOMAIN mem = 1 .. n /\ DOMAIN told = 1 .. n + 1
      /\ told[n + 1] = own /\ \A j \in 1 .. n : told[j] = mem[j]
  <2> HIDE DEF own
  <2> QED BY <1>3
<1>5. With(mem, t) = told
  BY DEF With
<1> HIDE DEF told, all, k, n
<1> DEFINE g == [j \in 1 .. k + 1 |-> IF j = k + 1 THEN n + 1 ELSE f[j]]
<1>6. \A j \in 1 .. k : f[j] \in 1 .. n
  BY <1>1, <1>2, <1>4
<1>7. \A j \in 1 .. k + 1 : j = k + 1 \/ j \in 1 .. k
  BY <1>2
<1>8. g[k + 1] = n + 1 /\ \A j \in 1 .. k : g[j] = f[j]
  BY <1>2
<1>9. g \in [DOMAIN all -> DOMAIN told]
  BY <1>2, <1>4, <1>6, <1>7
<1> HIDE DEF g
<1>10. \A i, j \in DOMAIN all : i < j => g[i] < g[j]
  <2> SUFFICES ASSUME NEW i \in 1 .. k + 1, NEW j \in 1 .. k + 1, i < j
               PROVE  g[i] < g[j]
    BY <1>2
  <2>1. i \in 1 .. k
    BY <1>2
  <2>2. CASE j = k + 1
    BY <1>4, <1>6, <1>8, <2>1, <2>2
  <2>3. CASE j \in 1 .. k
    BY <1>1, <1>2, <1>8, <2>1, <2>3
  <2> QED BY <1>7, <2>2, <2>3
<1>11. \A j \in DOMAIN all : told[g[j]] = [turn |-> all[j], whole |-> TRUE]
  <2> SUFFICES ASSUME NEW j \in 1 .. k + 1
               PROVE  told[g[j]] = [turn |-> all[j], whole |-> TRUE]
    BY <1>2
  <2>1. CASE j = k + 1
    BY <1>2, <1>4, <1>8, <2>1
  <2>2. CASE j \in 1 .. k
    <3>1. told[g[j]] = mem[f[j]]
      BY <1>4, <1>6, <1>8, <2>2
    <3> QED BY <1>1, <1>2, <2>2, <3>1
  <2> QED BY <1>7, <2>1, <2>2
<1> HIDE DEF own
<1>12. Recalled(told, all)
  BY <1>9, <1>10, <1>11 DEF Recalled
<1> QED BY <1>5, <1>12 DEF all

\* What the replies recall is what HistoryRemembered promises.
LEMMA RecallsHistory ==
    ASSUME TypeInv, RepliesRecall
    PROVE  HistoryRemembered
<1> SUFFICES ASSUME NEW i \in DOMAIN messages, NEW v \in VersionsOf(messages[i]),
                    versions[v].status = "completed"
             PROVE  /\ versions[v].result \in CkptIds
                    /\ \E f \in [1 .. i -> DOMAIN MemoryAt(versions[v].result)] :
                        /\ \A j, k \in 1 .. i : j < k => f[j] < f[k]
                        /\ \A j \in 1 .. i :
                            MemoryAt(versions[v].result)[f[j]] =
                                [turn |-> IF j = i THEN v ELSE shown[messages[j]].current,
                                 whole |-> TRUE]
  BY DEF HistoryRemembered
<1> DEFINE mem == MemoryAt(versions[v].result)
           who == Append(Earlier(i), v)
<1>1. versions[v].result \in CkptIds /\ Recalled(mem, who)
  BY DEF RepliesRecall, Recalls
<1>2. v \in Turn /\ i \in 1 .. Len(messages) + 1 /\ i \in Nat /\ i >= 1
  BY DEF VersionsOf, TypeInv, TypeOK
<1>3. /\ Earlier(i) \in Seq(Turn \cup {NoTurn}) /\ Len(Earlier(i)) = i - 1
      /\ \A j \in 1 .. i - 1 : Earlier(i)[j] = shown[messages[j]].current
  BY <1>2, EarlierType
<1>4. /\ DOMAIN who = 1 .. i /\ who[i] = v
      /\ \A j \in 1 .. i - 1 : who[j] = shown[messages[j]].current
  BY <1>2, <1>3
<1>5. \A j \in 1 .. i : who[j] = IF j = i THEN v ELSE shown[messages[j]].current
  <2> HIDE DEF who
  <2> QED BY <1>2, <1>4
<1> HIDE DEF who, mem
<1>6. PICK f \in [1 .. i -> DOMAIN mem] :
          /\ \A j, k \in 1 .. i : j < k => f[j] < f[k]
          /\ \A j \in 1 .. i : mem[f[j]] = [turn |-> who[j], whole |-> TRUE]
  BY <1>1, <1>4 DEF Recalled
<1>7. \A j \in 1 .. i : mem[f[j]] =
          [turn |-> IF j = i THEN v ELSE shown[messages[j]].current, whole |-> TRUE]
  BY <1>5, <1>6
<1> QED BY <1>1, <1>6, <1>7 DEF mem

LEMMA InitUndisturbed == Init => UndisturbedInv
<1>1. Init => \A t \in Turn : ~Live(t) /\ ~Exists(t)
  BY DEF Init, Live, IdleTask, Streaming, CleaningUp, Exists, NoVersion
<1> QED BY <1>1 DEF Init, UndisturbedInv, Remembering, AllCompleted, RepliesRecall, ParentsRecall,
                    TurnsRecall, Rested

\* Nothing that is remembered is lost or changed by a step.
Remembers == \A id \in CkptIds : id \in CkptIds' /\ MemoryAt(id)' = MemoryAt(id)
\* A step leaves the replies before each message what they were.
EarlierSame == \A i \in DOMAIN messages : Earlier(i)' = Earlier(i)

LEMMA SameMemory ==
    ASSUME UNCHANGED ckpts
    PROVE  Remembers
BY DEF Remembers, CkptIds, MemoryAt

\* A step that changes at most which version the last message shows.
LEMMA OnlyLastChanges ==
    ASSUME TypeInv, Distinct, UNCHANGED messages,
           \A m \in Turn : messages # <<>> /\ m # LatestMessage => shown'[m] = shown[m]
    PROVE  EarlierSame
<1> SUFFICES ASSUME NEW i \in DOMAIN messages PROVE Earlier(i)' = Earlier(i)
  BY DEF EarlierSame
<1>1. /\ Len(messages) \in Nat /\ DOMAIN messages = 1 .. Len(messages)
      /\ \A j \in DOMAIN messages : messages[j] \in Turn
  BY DEF TypeInv, TypeOK
<1>2. messages # <<>> /\ Len(messages) \in DOMAIN messages
  BY <1>1
<1>3. \A j \in 1 .. i - 1 : j \in DOMAIN messages /\ j # Len(messages)
  <2>1. PICK n \in Nat : n = Len(messages)
    BY <1>1
  <2>2. i \in 1 .. n
    BY <1>1, <2>1
  <2>3. \A j \in 1 .. i - 1 : j \in 1 .. n /\ j # n
    BY <2>1, <2>2
  <2> QED BY <1>1, <2>1, <2>3
<1>4. \A j \in 1 .. i - 1 : messages[j] # LatestMessage
  BY <1>2, <1>3 DEF Distinct, LatestMessage
<1>5. \A j \in 1 .. i - 1 : shown'[messages[j]] = shown[messages[j]]
  BY <1>1, <1>2, <1>3, <1>4
<1> QED BY <1>5 DEF Earlier

\* What the replies and the parents recall survives a step that keeps the versions.
LEMMA RecallKept ==
    ASSUME RepliesRecall, ParentsRecall, Remembers, EarlierSame, UNCHANGED <<messages, versions>>
    PROVE  RepliesRecall' /\ ParentsRecall'
<1>1. ASSUME NEW i \in DOMAIN messages', NEW v \in VersionsOf(messages[i])',
             versions'[v].status = "completed"
      PROVE  Recalls(versions[v].result, Append(Earlier(i), v))'
  <2>1. i \in DOMAIN messages /\ v \in VersionsOf(messages[i])
    BY <1>1 DEF VersionsOf
  <2>2. Recalls(versions[v].result, Append(Earlier(i), v)) /\ Earlier(i)' = Earlier(i)
    BY <1>1, <2>1 DEF RepliesRecall, EarlierSame
  <2> QED BY <2>2 DEF Remembers, Recalls
<1>2. ASSUME NEW i \in DOMAIN messages', i > 1
      PROVE  Recalls(versions[messages[i]].parent, Earlier(i))'
  <2>1. Recalls(versions[messages[i]].parent, Earlier(i)) /\ Earlier(i)' = Earlier(i)
    BY <1>2 DEF ParentsRecall, EarlierSame
  <2> QED BY <2>1 DEF Remembers, Recalls
<1> QED BY <1>1, <1>2 DEF RepliesRecall, ParentsRecall

\* When no turn is under way, the stable checkpoint recalls the whole conversation.
LEMMA StableRecalls ==
    ASSUME TypeInv, RowsInv, AllCompleted, RepliesRecall, Rested, messages # <<>>,
           \A t \in Turn : ~Live(t)
    PROVE  /\ stable \in CkptIds /\ stable # NoCkpt
           /\ Recalls(stable, Append(Earlier(Len(messages)), shown[LatestMessage].current))
<1> DEFINE v == shown[LatestMessage].current
           n == Len(messages)
<1>1. v \in Turn /\ versions[v].msg = LatestMessage /\ stable = versions[v].result
  BY DEF Rested
<1>2. LatestMessage # NoTurn /\ n \in DOMAIN messages /\ messages[n] = LatestMessage
  <2>1. LatestMessage # NoTurn
    BY LatestIsMessage, MessageIsTurn
  <2>2. n \in DOMAIN messages
    BY DEF TypeInv, TypeOK
  <2> QED BY <2>1, <2>2 DEF LatestMessage
<1>3. versions[v].status = "completed"
  BY <1>1, <1>2 DEF AllCompleted, Exists
<1>4. Recalls(stable, Append(Earlier(n), v))
  BY <1>1, <1>2, <1>3 DEF RepliesRecall, VersionsOf
<1>5. stable \in CkptIds /\ stable # NoCkpt
  BY <1>4 DEF Recalls, CkptIds, TypeInv, TypeOK, Ckpt
<1> QED BY <1>4, <1>5

\* Before the next question, the last reply joins the earlier ones.
LEMMA EarlierNext ==
    ASSUME TypeInv, messages # <<>>
    PROVE  Append(Earlier(Len(messages)), shown[LatestMessage].current)
                = Earlier(Len(messages) + 1)
<1> DEFINE n == Len(messages)
           v == shown[LatestMessage].current
<1>1. n \in Nat /\ n >= 1 /\ LatestMessage = messages[n]
  BY DEF TypeInv, TypeOK, LatestMessage
<1>2. /\ Earlier(n) \in Seq(Turn \cup {NoTurn}) /\ Len(Earlier(n)) = n - 1
      /\ \A j \in 1 .. n - 1 : Earlier(n)[j] = shown[messages[j]].current
  BY <1>1, EarlierType
<1>3. /\ Earlier(n + 1) \in Seq(Turn \cup {NoTurn}) /\ Len(Earlier(n + 1)) = n
      /\ \A j \in 1 .. n : Earlier(n + 1)[j] = shown[messages[j]].current
  BY <1>1, EarlierType
<1>4. v \in Turn \cup {NoTurn}
  BY <1>1, <1>3
<1> HIDE DEF n, v
<1>5. /\ Append(Earlier(n), v) \in Seq(Turn \cup {NoTurn})
      /\ Len(Append(Earlier(n), v)) = n
      /\ Append(Earlier(n), v)[n] = v
      /\ \A j \in 1 .. n - 1 : Append(Earlier(n), v)[j] = Earlier(n)[j]
  BY <1>1, <1>2, <1>4
<1>6. \A j \in 1 .. n : j = n \/ j \in 1 .. n - 1
  BY <1>1
<1>7. \A j \in 1 .. n : Append(Earlier(n), v)[j] = Earlier(n + 1)[j]
  BY <1>1, <1>2, <1>3, <1>5, <1>6 DEF v
<1> QED BY <1>3, <1>5, <1>7, SeqEqual DEF n, v

\* A new question goes on from the whole conversation.
LEMMA AskRecalls ==
    ASSUME TypeInv, RowsInv, Alone, OneAtATime, Remembering,
           NEW t \in Turn, BeginInvoke(t)
    PROVE  Remembering'
<1>1. \A u \in Turn : ~Live(u)
  BY RequestAlone DEF BeginInvoke
<1>2. PICK n : n = Len(messages)
  OBVIOUS
<1>3. PICK base : base = Effective
  OBVIOUS
<1>4. /\ DOMAIN messages = 1 .. n /\ n \in Nat
      /\ DOMAIN messages' = 1 .. n + 1 /\ Len(messages') = n + 1
      /\ \A i \in DOMAIN messages : messages'[i] = messages[i] /\ messages[i] # t
      /\ messages'[n + 1] = t
      /\ versions'[t] = Placeholder(t, 1, base)
      /\ \A v \in Turn : v # t => versions'[v] = versions[v] /\ shown'[v] = shown[v]
      /\ UNCHANGED ckpts /\ \A v \in Turn : versions[v].msg # t
  BY <1>2, <1>3, AskIs
<1>5. /\ versions'[t].msg = t /\ versions'[t].status = "streaming"
      /\ versions'[t].parent = base
  BY <1>4 DEF Placeholder
<1>6. /\ task'[t].pc = "announced" /\ task'[t].base = base /\ Live(t)'
      /\ \A u \in Turn : Live(u)' => u = t
  <2>1. /\ task'[t].pc = "announced" /\ task'[t].base = base /\ Live(t)' /\ Others(t)
    BY <1>3, OpenIs DEF BeginInvoke
  <2> QED BY <1>1, <2>1 DEF Others, Live
<1>7. Remembers
  BY <1>4, SameMemory
<1>8. \A i \in 1 .. n + 1 : Earlier(i)' = Earlier(i)
  <2> SUFFICES ASSUME NEW i \in 1 .. n + 1 PROVE Earlier(i)' = Earlier(i)
    OBVIOUS
  <2>1. \A j \in 1 .. i - 1 : j \in DOMAIN messages
    BY <1>4
  <2>2. \A j \in 1 .. i - 1 : messages[j] \in Turn
    BY <2>1, MessageAt
  <2>3. \A j \in 1 .. i - 1 : shown'[messages'[j]].current = shown[messages[j]].current
    BY <1>4, <2>1, <2>2
  <2> QED BY <2>3 DEF Earlier
<1>9. n + 1 > 1 => Recalls(base, Earlier(n + 1))'
  <2> SUFFICES ASSUME n + 1 > 1 PROVE Recalls(base, Earlier(n + 1))'
    OBVIOUS
  <2>1. messages # <<>>
    BY <1>2, <1>4
  <2>2. stable # NoCkpt /\ Recalls(stable, Earlier(n + 1))
    BY <1>1, <1>2, <2>1, StableRecalls, EarlierNext DEF Remembering
  <2>3. base = stable
    BY <1>3, <2>2 DEF Effective
  <2>4. Recalls(base, Earlier(n + 1)) /\ Earlier(n + 1)' = Earlier(n + 1)
    BY <1>4, <1>8, <2>2, <2>3
  <2> QED BY <1>7, <2>4 DEF Remembers, Recalls
<1>10. AllCompleted'
  BY <1>1, <1>4, <1>6 DEF Remembering, AllCompleted, Exists
<1>11. RepliesRecall'
  <2> SUFFICES ASSUME NEW i \in DOMAIN messages', NEW v \in VersionsOf(messages[i])',
                      versions'[v].status = "completed"
               PROVE  Recalls(versions[v].result, Append(Earlier(i), v))'
    BY DEF RepliesRecall
  <2>1. v \in Turn /\ v # t /\ versions'[v] = versions[v] /\ versions'[v].msg = messages'[i]
    BY <1>4, <1>5 DEF VersionsOf
  <2>2. i \in DOMAIN messages
    BY <1>4, <2>1
  <2>3. v \in VersionsOf(messages[i]) /\ Earlier(i)' = Earlier(i)
    BY <1>4, <1>8, <2>1, <2>2 DEF VersionsOf
  <2>4. Recalls(versions[v].result, Append(Earlier(i), v))
    BY <2>1, <2>2, <2>3 DEF Remembering, RepliesRecall
  <2> QED BY <1>7, <2>1, <2>3, <2>4 DEF Remembers, Recalls
<1>12. ParentsRecall'
  <2> SUFFICES ASSUME NEW i \in DOMAIN messages', i > 1
               PROVE  Recalls(versions[messages[i]].parent, Earlier(i))'
    BY DEF ParentsRecall
  <2>1. CASE i = n + 1
    BY <1>4, <1>5, <1>9, <2>1
  <2>2. CASE i # n + 1
    <3>1. i \in DOMAIN messages /\ messages'[i] = messages[i] /\ messages[i] # t
      BY <1>4, <2>2
    <3>2. versions'[messages'[i]] = versions[messages[i]] /\ Earlier(i)' = Earlier(i)
      BY <1>4, <1>8, <3>1, MessageAt
    <3>3. Recalls(versions[messages[i]].parent, Earlier(i))
      BY <3>1 DEF Remembering, ParentsRecall
    <3> QED BY <1>7, <3>2, <3>3 DEF Remembers, Recalls
  <2> QED BY <2>1, <2>2
<1>13. TurnsRecall'
  BY <1>4, <1>6, <1>9 DEF TurnsRecall, Streaming
<1>14. Rested'
  BY <1>6 DEF Rested
<1> QED BY <1>10, <1>11, <1>12, <1>13, <1>14 DEF Remembering

\* A regeneration goes on from where the message it rewrites did.
LEMMA AskAgainRecalls ==
    ASSUME TypeInv, RowsInv, Alone, OneAtATime, Distinct, Remembering,
           NEW t \in Turn, BeginRegenerate(t)
    PROVE  Remembering'
<1>1. \A u \in Turn : ~Live(u)
  BY RequestAlone DEF BeginRegenerate
<1>2. /\ messages # <<>> /\ LatestMessage \in Turn
      /\ versions'[t].msg = LatestMessage /\ versions'[t].status = "streaming"
      /\ \A v \in Turn : v # t => versions'[v] = versions[v]
      /\ \A m \in Turn : m # LatestMessage => shown'[m] = shown[m]
      /\ UNCHANGED <<messages, ckpts>>
  BY AskAgainIs
<1>3. PICK base : base = versions[LatestMessage].parent
  OBVIOUS
<1>4. /\ task'[t].pc = "announced" /\ task'[t].base = base /\ Live(t)'
      /\ \A u \in Turn : Live(u)' => u = t
  <2>1. /\ task'[t].pc = "announced" /\ task'[t].base = base /\ Live(t)' /\ Others(t)
    BY <1>3, OpenIs DEF BeginRegenerate
  <2> QED BY <1>1, <2>1 DEF Others, Live
<1>5. Remembers /\ EarlierSame
  BY <1>2, SameMemory, OnlyLastChanges
<1>6. \A i \in DOMAIN messages : messages[i] \in Turn /\ messages[i] # t
  <2>1. ~IsMessage(t)
    BY DEF BeginRegenerate, Request, RowsInv, Unused
  <2> QED BY <2>1, MessageAt DEF IsMessage
<1>7. AllCompleted'
  BY <1>1, <1>2, <1>4 DEF Remembering, AllCompleted, Exists
<1>8. RepliesRecall'
  <2> SUFFICES ASSUME NEW i \in DOMAIN messages', NEW v \in VersionsOf(messages[i])',
                      versions'[v].status = "completed"
               PROVE  Recalls(versions[v].result, Append(Earlier(i), v))'
    BY DEF RepliesRecall
  <2>1. v # t /\ versions'[v] = versions[v] /\ v \in VersionsOf(messages[i])
    BY <1>2 DEF VersionsOf
  <2>2. i \in DOMAIN messages /\ Earlier(i)' = Earlier(i)
    BY <1>2, <1>5 DEF EarlierSame
  <2>3. Recalls(versions[v].result, Append(Earlier(i), v))
    BY <2>1, <2>2 DEF Remembering, RepliesRecall
  <2> QED BY <1>5, <2>1, <2>2, <2>3 DEF Remembers, Recalls
<1>9. ParentsRecall'
  <2> SUFFICES ASSUME NEW i \in DOMAIN messages', i > 1
               PROVE  Recalls(versions[messages[i]].parent, Earlier(i))'
    BY DEF ParentsRecall
  <2>1. i \in DOMAIN messages /\ Earlier(i)' = Earlier(i)
    BY <1>2, <1>5 DEF EarlierSame
  <2>2. versions'[messages'[i]] = versions[messages[i]]
    BY <1>2, <1>6, <2>1
  <2>3. Recalls(versions[messages[i]].parent, Earlier(i))
    BY <2>1 DEF Remembering, ParentsRecall
  <2> QED BY <1>5, <2>1, <2>2, <2>3 DEF Remembers, Recalls
<1>10. TurnsRecall'
  <2>1. ASSUME Len(messages') > 1
        PROVE  Recalls(base, Earlier(Len(messages)))'
    <3>1. PICK n : n = Len(messages)
      OBVIOUS
    <3>2. n \in DOMAIN messages /\ n > 1 /\ messages[n] = LatestMessage /\ Len(messages') = n
      BY <1>2, <2>1, <3>1 DEF TypeInv, TypeOK, LatestMessage
    <3>3. Recalls(base, Earlier(n)) /\ Earlier(n)' = Earlier(n)
      BY <1>3, <1>5, <3>2 DEF Remembering, ParentsRecall, EarlierSame
    <3>4. Recalls(base, Earlier(n))'
      BY <1>5, <3>3 DEF Remembers, Recalls
    <3> QED BY <3>2, <3>4
  <2> QED BY <1>4, <2>1 DEF TurnsRecall, Streaming
<1>11. Rested'
  BY <1>4 DEF Rested
<1> QED BY <1>7, <1>8, <1>9, <1>10, <1>11 DEF Remembering

\* A turn that moves on takes nothing from what is remembered.
LEMMA MoveRecalls ==
    ASSUME TypeInv, OneAtATime, Distinct, LiveIsLast, Remembering,
           NEW t \in Turn, NEW pc, Moves(t, pc), Remembers
    PROVE  /\ AllCompleted' /\ RepliesRecall' /\ ParentsRecall' /\ Rested'
           /\ \A u \in Turn : Live(u)' => u = t
           /\ UNCHANGED messages /\ messages # <<>>
           /\ Len(messages) \in DOMAIN messages
           /\ Earlier(Len(messages))' = Earlier(Len(messages))
<1>1. UNCHANGED <<messages, shown, versions>>
  BY DEF Moves, rows
<1>2. \A u \in Turn : Live(u)' => u = t
  BY OnlyMover
<1>3. EarlierSame
  BY <1>1, OnlyLastChanges
<1>4. RepliesRecall' /\ ParentsRecall'
  BY <1>1, <1>3, RecallKept DEF Remembering
<1>5. AllCompleted'
  BY <1>1 DEF Remembering, AllCompleted, Exists, Moves, Others, Live
<1>6. Rested'
  BY DEF Moves, Rested
<1>7. messages # <<>> /\ Len(messages) \in DOMAIN messages
  BY DEF Moves, LiveIsLast, TypeInv, TypeOK
<1>8. Earlier(Len(messages))' = Earlier(Len(messages))
  <2>1. PICK n : n = Len(messages)
    OBVIOUS
  <2> QED BY <1>1, <1>3, <1>7, <2>1 DEF EarlierSame
<1> QED BY <1>1, <1>2, <1>4, <1>5, <1>6, <1>7, <1>8

\* The agent loads what its base remembers, and at the end it has added its answer.
LEMMA RunRecalls ==
    ASSUME TypeInv, OneAtATime, IdsUnique, Distinct, LiveIsLast, Remembering, NEW t \in Turn,
           Start(t) \/ StepHalfway(t) \/ Answer(t) \/ ReadLatest(t)
    PROVE  Remembering'
<1>1. CASE Start(t)
  <2> DEFINE mem == MemoryAt(From(t))
  <2>1. /\ Moves(t, "started") /\ task'[t].mem = mem /\ Save(From(t) = NoCkpt, mem)
        /\ task[t].pc = "announced"
    BY <1>1, MoveIs DEF Start, From
  <2>2. Remembers
    BY <2>1, SaveIs DEF Remembers
  <2>3. PICK n : n = Len(messages)
    OBVIOUS
  <2>4. Recalled(mem, Earlier(n))
    <3>1. CASE n > 1
      <4>1. Recalls(task[t].base, Earlier(n))
        BY <2>1, <2>3, <3>1 DEF Remembering, TurnsRecall, Moves
      <4>2. task[t].base # NoCkpt
        BY <4>1 DEF Recalls, CkptIds, TypeInv, TypeOK, Ckpt
      <4> QED BY <4>1, <4>2 DEF From, Recalls
    <3>2. CASE ~(n > 1)
      <4>1. n \in Nat /\ 1 .. n - 1 = {}
        BY <2>3, <3>2 DEF TypeInv, TypeOK
      <4>2. DOMAIN Earlier(n) = {}
        BY <4>1 DEF Earlier
      <4> QED BY <4>2, RecalledNone
    <3> QED BY <3>1, <3>2
  <2> HIDE DEF mem
  <2>5. Recalled(task[t].mem, Earlier(Len(messages)))'
    BY <2>1, <2>2, <2>3, <2>4, MoveRecalls
  <2>6. TurnsRecall'
    BY <2>1, <2>2, <2>5, MoveRecalls DEF TurnsRecall, Moves, Streaming
  <2> QED BY <2>1, <2>2, <2>6, MoveRecalls DEF Remembering
<1>2. CASE StepHalfway(t)
  <2>1. /\ Moves(t, "halfway") /\ task'[t].mem = task[t].mem /\ task[t].pc = "started"
        /\ \E mem : Save(FALSE, mem)
    BY <1>2, MoveIs DEF StepHalfway
  <2>2. Remembers
    BY <2>1, SaveIs DEF Remembers
  <2>3. Recalled(task[t].mem, Earlier(Len(messages)))
    BY <2>1 DEF Remembering, TurnsRecall, Moves
  <2>4. Recalled(task[t].mem, Earlier(Len(messages)))'
    BY <2>1, <2>2, <2>3, MoveRecalls
  <2>5. TurnsRecall'
    BY <2>1, <2>2, <2>4, MoveRecalls DEF TurnsRecall, Moves, Streaming
  <2> QED BY <2>1, <2>2, <2>5, MoveRecalls DEF Remembering
<1>3. CASE Answer(t)
  <2>1. /\ Moves(t, "answered") /\ task'[t].mem = task[t].mem /\ task[t].pc = "halfway"
        /\ Save(FALSE, With(task[t].mem, t))
    BY <1>3, MoveIs DEF Answer, With
  <2>2. /\ Remembers /\ lastCkpt' \in CkptIds'
        /\ MemoryAt(lastCkpt)' = With(task[t].mem, t)
    BY <2>1, SaveIs DEF Remembers
  <2>3. Recalled(task[t].mem, Earlier(Len(messages)))
    BY <2>1 DEF Remembering, TurnsRecall, Moves
  <2>4. Recalled(task[t].mem, Earlier(Len(messages)))'
    BY <2>1, <2>2, <2>3, MoveRecalls
  <2>5. TurnsRecall'
    BY <2>1, <2>2, <2>4, MoveRecalls DEF TurnsRecall, Moves, Streaming, With
  <2> QED BY <2>1, <2>2, <2>5, MoveRecalls DEF Remembering
<1>4. CASE ReadLatest(t)
  <2>1. /\ Moves(t, "completing") /\ task'[t].mem = task[t].mem
        /\ task'[t].ckpt = LatestCkpt /\ task[t].pc = "answered" /\ UNCHANGED ckpts
    BY <1>4, MoveIs DEF ReadLatest, saver
  <2>2. Remembers
    BY <2>1, SameMemory
  <2>3. /\ Recalled(task[t].mem, Earlier(Len(messages)))
        /\ lastCkpt \in CkptIds /\ MemoryAt(lastCkpt) = With(task[t].mem, t)
    BY <2>1 DEF Remembering, TurnsRecall, Moves
  <2>4. PICK id : id = lastCkpt
    OBVIOUS
  <2>5. task'[t].ckpt = id /\ id \in CkptIds' /\ MemoryAt(id)' = With(task[t].mem, t)
    BY <2>1, <2>2, <2>3, <2>4, LatestIsLast DEF Remembers
  <2>6. Recalled(task[t].mem, Earlier(Len(messages)))'
    BY <2>1, <2>2, <2>3, MoveRecalls
  <2>7. task'[t].ckpt \in CkptIds' /\ MemoryAt(task[t].ckpt)' = With(task[t].mem, t)'
    BY <2>1, <2>5 DEF With
  <2>8. TurnsRecall'
    BY <2>1, <2>2, <2>6, <2>7, MoveRecalls DEF TurnsRecall, Moves, Streaming
  <2> QED BY <2>1, <2>2, <2>8, MoveRecalls DEF Remembering
<1> QED BY <1>1, <1>2, <1>3, <1>4

\* A completed reply recalls what was shown before it, and itself.
LEMMA CompleteRecalls ==
    ASSUME TypeInv, RowsInv, OneAtATime, IdsUnique, Distinct, LiveIsLast, Remembering,
           NEW t \in Turn, Complete(t)
    PROVE  Remembering'
<1>1. Live(t) /\ task[t].pc = "completing" /\ \A u \in Turn : ~Live(u)' /\ (Live(u) => u = t)
  BY EndIs, EndsAlone DEF Complete, Ends, OneAtATime
<1>2. /\ messages # <<>> /\ task[t].msg = LatestMessage /\ versions[t].msg = LatestMessage
      /\ LatestMessage \in Turn /\ LatestMessage # NoTurn /\ IsMessage(LatestMessage) /\ session
  <2>1. /\ messages # <<>> /\ task[t].msg = LatestMessage /\ versions[t].msg = LatestMessage
    BY <1>1 DEF LiveIsLast
  <2> QED BY <2>1, LatestIsMessage, MessageIsTurn DEF RowsInv, NoSessionNoMessages
<1>3. PICK id : id = task[t].ckpt
  OBVIOUS
<1>4. /\ versions'[t].msg = LatestMessage /\ versions'[t].status = "completed"
      /\ versions'[t].result = id /\ versions'[t].parent = versions[t].parent
      /\ \A v \in Turn : v # t => versions'[v] = versions[v]
      /\ shown'[LatestMessage].current = t
      /\ \A m \in Turn : m # LatestMessage => shown'[m] = shown[m]
      /\ stable' = id /\ UNCHANGED <<messages, ckpts>>
  BY <1>2, <1>3 DEF Complete, WriteTurn, Exists, saver, TypeInv, TypeOK, VersionRow
<1>5. Remembers /\ EarlierSame /\ LatestMessage' = LatestMessage
  BY <1>4, SameMemory, OnlyLastChanges DEF LatestMessage
<1>6. PICK n : n = Len(messages)
  OBVIOUS
<1>7. n \in DOMAIN messages /\ messages[n] = LatestMessage
  BY <1>2, <1>6 DEF TypeInv, TypeOK, LatestMessage
<1>8. Recalls(id, Append(Earlier(n), t))
  <2>1. id \in CkptIds /\ MemoryAt(id) = With(task[t].mem, t)
    BY <1>1, <1>3 DEF Remembering, TurnsRecall
  <2>2. Recalled(task[t].mem, Earlier(n))
    BY <1>1, <1>6 DEF Remembering, TurnsRecall
  <2>3. task[t].mem \in Seq(Exchange)
    BY DEF TypeInv, TypeOK, TaskRow
  <2>4. Earlier(n) \in Seq(Turn \cup {NoTurn})
    BY <1>6, <1>7, EarlierType DEF TypeInv, TypeOK
  <2> QED BY <2>1, <2>2, <2>3, <2>4, RecalledMore DEF Recalls
<1>9. AllCompleted'
  BY <1>1, <1>4 DEF Remembering, AllCompleted, Exists
<1>10. RepliesRecall'
  <2> SUFFICES ASSUME NEW i \in DOMAIN messages', NEW v \in VersionsOf(messages[i])',
                      versions'[v].status = "completed"
               PROVE  Recalls(versions[v].result, Append(Earlier(i), v))'
    BY DEF RepliesRecall
  <2>1. i \in DOMAIN messages /\ Earlier(i)' = Earlier(i) /\ v \in Turn
    BY <1>4, <1>5 DEF EarlierSame, VersionsOf
  <2>2. CASE v = t
    <3>1. messages[i] = messages[n]
      BY <1>4, <1>7, <2>2 DEF VersionsOf
    <3>2. i = n
      BY <1>7, <2>1, <3>1 DEF Distinct
    <3> QED BY <1>4, <1>5, <1>8, <2>1, <2>2, <3>2 DEF Remembers, Recalls
  <2>3. CASE v # t
    <3>1. versions'[v] = versions[v] /\ v \in VersionsOf(messages[i])
      BY <1>4, <2>1, <2>3 DEF VersionsOf
    <3>2. Recalls(versions[v].result, Append(Earlier(i), v))
      BY <2>1, <3>1 DEF Remembering, RepliesRecall
    <3> QED BY <1>5, <2>1, <3>1, <3>2 DEF Remembers, Recalls
  <2> QED BY <2>2, <2>3
<1>11. ParentsRecall'
  <2> SUFFICES ASSUME NEW i \in DOMAIN messages', i > 1
               PROVE  Recalls(versions[messages[i]].parent, Earlier(i))'
    BY DEF ParentsRecall
  <2>1. i \in DOMAIN messages /\ Earlier(i)' = Earlier(i)
    BY <1>4, <1>5 DEF EarlierSame
  <2>2. versions'[messages'[i]].parent = versions[messages[i]].parent
    BY <1>4, <2>1, MessageAt
  <2>3. Recalls(versions[messages[i]].parent, Earlier(i))
    BY <2>1 DEF Remembering, ParentsRecall
  <2> QED BY <1>5, <2>1, <2>2, <2>3 DEF Remembers, Recalls
<1>12. TurnsRecall'
  BY <1>1 DEF TurnsRecall
<1>13. Rested'
  BY <1>4, <1>5 DEF Rested
<1> QED BY <1>9, <1>10, <1>11, <1>12, <1>13 DEF Remembering

\* Switching goes on from another reply to the last question.
LEMMA SwitchRecalls ==
    ASSUME TypeInv, Distinct, Remembering, NEW v \in Turn, Switch(v)
    PROVE  Remembering'
<1>1. /\ messages # <<>> /\ versions[v].msg = LatestMessage
      /\ shown' = [shown EXCEPT ![LatestMessage] =
            [current |-> v, status |-> versions[v].status, text |-> versions[v].text]]
      /\ stable' = versions[v].result
      /\ UNCHANGED <<messages, versions, ckpts, lastCkpt, task>>
  BY DEF Switch, saver
<1>2. LatestMessage' = LatestMessage /\ LatestMessage \in Turn
  BY <1>1, LatestIsMessage DEF LatestMessage
<1>3. /\ shown'[LatestMessage].current = v
      /\ \A m \in Turn : m # LatestMessage => shown'[m] = shown[m]
  BY <1>1, <1>2 DEF TypeInv, TypeOK
<1>4. Remembers /\ EarlierSame
  BY <1>1, <1>3, SameMemory, OnlyLastChanges
<1>5. RepliesRecall' /\ ParentsRecall'
  BY <1>1, <1>4, RecallKept DEF Remembering
<1>6. AllCompleted'
  BY <1>1 DEF Remembering, AllCompleted, Exists, Live
<1>7. Rested'
  BY <1>1, <1>2, <1>3 DEF Rested
<1>8. TurnsRecall'
  <2>1. PICK n : n = Len(messages)
    OBVIOUS
  <2>2. n \in DOMAIN messages
    BY <1>1, <2>1 DEF TypeInv, TypeOK
  <2>3. Earlier(Len(messages))' = Earlier(Len(messages))
    BY <1>1, <1>4, <2>1, <2>2 DEF EarlierSame
  <2>4. UNCHANGED CkptIds /\ \A id : MemoryAt(id)' = MemoryAt(id)
    BY <1>1 DEF CkptIds, MemoryAt
  <2> QED BY <1>1, <2>3, <2>4 DEF Remembering, TurnsRecall, Live, Recalls
<1> QED BY <1>5, <1>6, <1>7, <1>8 DEF Remembering

LEMMA UndisturbedStep ==
    ASSUME TypeInv, RowsInv, AloneInv, UndisturbedInv, [Next]_vars
    PROVE  UndisturbedInv'
<1> SUFFICES ASSUME Undisturbed' PROVE Remembering'
  BY DEF UndisturbedInv
<1>0. Alone /\ OneAtATime /\ IdsUnique /\ Distinct /\ LiveIsLast /\ Remembering
  BY EnvSame DEF Alone, AloneInv, Undisturbed, UndisturbedInv
<1>1. /\ ~Allowed("stop") /\ ~Allowed("delete") /\ ~Allowed("fail")
      /\ ~Allowed("vanish") /\ ~Allowed("crash")
  BY EnvSame DEF Undisturbed, Allowed
<1>2. /\ ~DeleteSession /\ ~Crash /\ ~PurgeThread
      /\ \A t \in Turn : ~Stop(t) /\ ~Fail(t) /\ ~Vanish(t)
  <2>1. /\ ~DeleteSession /\ ~Crash
        /\ \A t \in Turn : ~Stop(t) /\ ~Fail(t) /\ ~Vanish(t)
    BY <1>1, Zenon DEF DeleteSession, Crash, Stop, Fail, Vanish
  <2>2. ~(purges > 0)
    BY <1>0 DEF OneAtATime
  <2> QED BY <2>1, <2>2 DEF PurgeThread
\* No turn is cleaning up.
<1>3. \A t \in Turn : ~Prune(t) /\ ~SettleInvoke(t) /\ ~SettleRegenerate(t)
  BY <1>0 DEF Remembering, TurnsRecall, Prune, SettleInvoke, SettleRegenerate, Live,
              Streaming, CleaningUp
<1>4. ASSUME UNCHANGED vars PROVE Remembering'
  <2>1. UNCHANGED <<messages, shown, versions, stable, ckpts, lastCkpt, task>>
    BY <1>4 DEF vars
  <2>2. /\ UNCHANGED <<CkptIds, LatestMessage>> /\ \A id : MemoryAt(id)' = MemoryAt(id)
        /\ \A i : Earlier(i)' = Earlier(i)
    BY <2>1 DEF CkptIds, LatestMessage, MemoryAt, Earlier
  <2>3. Remembers /\ EarlierSame
    BY <2>1, <2>2, SameMemory DEF EarlierSame
  <2>4. RepliesRecall' /\ ParentsRecall'
    BY <1>0, <2>1, <2>3, RecallKept DEF Remembering
  <2>5. PICK n : n = Len(messages)
    OBVIOUS
  <2>6. Earlier(Len(messages))' = Earlier(Len(messages))
    BY <2>1, <2>2, <2>5
  <2> QED BY <1>0, <2>1, <2>2, <2>4, <2>6
          DEF Remembering, AllCompleted, Exists, Live, TurnsRecall, Recalls, Rested
<1> QED BY <1>0, <1>2, <1>3, <1>4, AskRecalls, AskAgainRecalls, RunRecalls, CompleteRecalls,
           SwitchRecalls DEF Next

\* With one tab, the agent's memory is the conversation: without stops, regenerations and
\* deletions no fault leaves half a turn where a later one finds it, and undisturbed, every
\* completed reply remembers the replies shown before it, in order.
THEOREM RemembersTheHistory == Spec => []MemoryIsHistory
<1> DEFINE Inv == /\ TypeInv /\ RowsInv /\ MemoryInv
                  /\ AloneInv /\ FaultyInv /\ UndisturbedInv
<1>1. Init => Inv
  BY InitTypeInv, InitRowsInv, InitMemoryInv, InitAlone, InitFaulty, InitUndisturbed
<1>2. Inv /\ [Next]_vars => Inv'
  BY TypeStep, RowsStep, MemoryStep, AloneStep, FaultyStep, UndisturbedStep
<1>3. Inv => MemoryIsHistory
  <2> SUFFICES ASSUME Inv, env.tabs = 1
               PROVE  /\ env.events \subseteq {"fail", "vanish", "crash", "switch"}
                            => NoHalfTurnLoaded
                      /\ env.events \subseteq {"switch", "regenerate"} => HistoryRemembered
    BY DEF MemoryIsHistory
  <2>1. Faulty => NoHalfTurnLoaded
    BY DEF FaultyInv, TurnsWhole, Whole, NoHalfTurnLoaded
  <2>2. Undisturbed => HistoryRemembered
    BY RecallsHistory DEF UndisturbedInv, Remembering
  <2> QED BY <2>1, <2>2 DEF Faulty, Undisturbed
<1> QED BY <1>1, <1>2, <1>3, PTL DEF Spec

-----------------------------------------------------------------------------
(* What the reader is promised: every step of the tables and coroutines is a  *)
(* step of AssistantVersions, or none.                                        *)

\* A request's message was asked for, and as long as it is there it has the version
\* that the request writes.
Attached ==
    \A t \in Turn : Live(t) =>
        /\ task[task[t].msg].pc # "idle"
        /\ IsMessage(task[t].msg) => Exists(t)
ReaderInv == TypeInv /\ RowsInv /\ Attached

\* The state that the instance of AssistantVersions reads.
Asked == {t \in Turn : task[t].pc # "idle"}
Opened(t) == [turn |-> t, before |-> task[t].fallback]
Open == {Opened(t) : t \in {u \in Turn : Live(u)}}
ReadAs(v) ==
    IF Exists(v)
    THEN [of |-> versions[v].msg, number |-> versions[v].index,
          status |-> versions[v].status, text |-> versions[v].text]
    ELSE [of |-> NoTurn]
Read == [v \in Turn |-> ReadAs(v)]

LEMMA InitAttached == Init => Attached
BY DEF Init, Attached, Live, IdleTask, Streaming, CleaningUp

\* The message of a running turn is there if its version is, and then the session is.
LEMMA VersionHasMessage ==
    ASSUME ReaderInv, NEW t \in Turn, Live(t)
    PROVE  /\ task[t].msg \in Turn /\ task[t].msg # NoTurn
           /\ Exists(t) => /\ IsMessage(task[t].msg) /\ session
                           /\ versions[t].msg = task[t].msg
                           /\ versions[t].status = "streaming"
           /\ ~Exists(t) => ~IsMessage(task[t].msg)
<1>1. /\ task[t].msg \in Turn
      /\ Exists(t) => versions[t].msg = task[t].msg /\ versions[t].status = "streaming"
  BY DEF ReaderInv, RowsInv, Owned
<1>2. Exists(t) => IsMessage(versions[t].msg)
  BY ByMessage DEF ReaderInv, RowsInv
<1>3. \A m : IsMessage(m) => session
  BY DEF ReaderInv, RowsInv, NoSessionNoMessages, IsMessage
<1>4. ~Exists(t) => ~IsMessage(task[t].msg)
  BY DEF ReaderInv, Attached
<1> QED BY <1>1, <1>2, <1>3, <1>4 DEF Turn, NoTurn

\* A step that starts no turn, adds no message and deletes at most the version of a
\* turn that ends leaves the turns attached.
LEMMA AttachedKept ==
    ASSUME ReaderInv,
           \A u \in Turn :
               /\ task'[u].pc = "idle" => task[u].pc = "idle"
               /\ Live(u)' => /\ Live(u) /\ task'[u].msg = task[u].msg
                              /\ Exists(u) => Exists(u)' \/ messages' = <<>>,
           messages' = messages \/ messages' = <<>>
    PROVE  Attached'
<1>1. \A m : IsMessage(m)' => IsMessage(m) /\ messages' = messages /\ messages' # <<>>
  BY DEF IsMessage
<1>2. ASSUME NEW u \in Turn, Live(u)'
      PROVE  task'[task'[u].msg].pc # "idle" /\ (IsMessage(task[u].msg)' => Exists(u)')
  <2>1. Live(u) /\ task'[u].msg = task[u].msg /\ task[u].msg \in Turn
    BY <1>2, VersionHasMessage
  <2>2. task[task[u].msg].pc # "idle" /\ (IsMessage(task[u].msg) => Exists(u))
    BY <2>1 DEF ReaderInv, Attached
  <2> QED BY <1>1, <1>2, <2>1, <2>2
<1> QED BY <1>2 DEF Attached

LEMMA BeginAttached ==
    ASSUME ReaderInv, NEW t \in Turn, BeginInvoke(t) \/ BeginRegenerate(t)
    PROVE  Attached'
<1>1. /\ task[t].pc = "idle" /\ ~Exists(t) /\ ~IsMessage(t) /\ t # NoTurn
  BY DEF BeginInvoke, BeginRegenerate, Request, ReaderInv, RowsInv, Unused, Turn, NoTurn
<1>2. /\ Live(t)' /\ task'[t].pc # "idle" /\ Others(t)
      /\ BeginInvoke(t) => task'[t].msg = t
      /\ BeginRegenerate(t) => task'[t].msg = LatestMessage
  BY OpenIs DEF BeginInvoke, BeginRegenerate, ReaderInv
<1>3. /\ versions'[t].msg # NoTurn
      /\ \A v \in Turn : v # t => versions'[v] = versions[v]
      /\ \A m : IsMessage(m)' => IsMessage(m) \/ m = t
  <2>1. CASE BeginInvoke(t)
    <3>1. /\ versions'[t] = Placeholder(t, 1, Effective)
          /\ \A v \in Turn : v # t => versions'[v] = versions[v]
          /\ DOMAIN messages = 1 .. Len(messages) /\ Len(messages) \in Nat
          /\ DOMAIN messages' = 1 .. Len(messages) + 1
          /\ \A i \in DOMAIN messages : messages'[i] = messages[i]
          /\ messages'[Len(messages) + 1] = t
      BY <2>1, AskIs DEF ReaderInv
    <3>2. ASSUME NEW m, IsMessage(m)', m # t PROVE IsMessage(m)
      <4>1. PICK i \in DOMAIN messages' : messages'[i] = m
        BY <3>2 DEF IsMessage
      <4>2. i \in DOMAIN messages
        BY <3>1, <3>2, <4>1
      <4> QED BY <3>1, <4>1, <4>2 DEF IsMessage
    <3> QED BY <1>1, <3>1, <3>2 DEF Placeholder
  <2>2. CASE BeginRegenerate(t)
    <3>1. /\ messages # <<>> /\ versions'[t].msg = LatestMessage /\ UNCHANGED messages
          /\ \A v \in Turn : v # t => versions'[v] = versions[v]
      BY <2>2, AskAgainIs DEF ReaderInv
    <3>2. LatestMessage # NoTurn
      BY <3>1, LatestIsMessage, MessageIsTurn DEF ReaderInv
    <3> QED BY <3>1, <3>2 DEF IsMessage
  <2> QED BY <2>1, <2>2
<1>4. task'[t].msg = t \/ (task'[t].msg \in Turn /\ task[task'[t].msg].pc # "idle")
  <2>1. CASE BeginRegenerate(t)
    <3>1. LatestMessage \in Turn /\ IsMessage(LatestMessage)
      BY <2>1, LatestIsMessage DEF BeginRegenerate, ReaderInv
    <3>2. task[LatestMessage].pc # "idle"
      BY <3>1 DEF ReaderInv, RowsInv, Unused
    <3> QED BY <1>2, <2>1, <3>1, <3>2
  <2> QED BY <1>2, <2>1
<1>5. ASSUME NEW u \in Turn, Live(u)', u # t
      PROVE  task'[task'[u].msg].pc # "idle" /\ (IsMessage(task[u].msg)' => Exists(u)')
  <2>1. task'[u] = task[u] /\ Live(u)
    BY <1>2, <1>5 DEF Others, Live
  <2>2. /\ task[u].msg \in Turn /\ task[task[u].msg].pc # "idle"
        /\ IsMessage(task[u].msg) => Exists(u)
    BY <2>1, VersionHasMessage DEF ReaderInv, Attached
  <2>3. task[u].msg # t
    BY <1>1, <2>2
  <2>4. Exists(u) => Exists(u)'
    BY <1>3, <1>5 DEF Exists
  <2> QED BY <1>2, <1>3, <2>1, <2>2, <2>3, <2>4 DEF Others
<1>6. task'[task'[t].msg].pc # "idle" /\ Exists(t)'
  <2>1. Exists(t)'
    BY <1>3 DEF Exists
  <2> QED BY <1>2, <1>4, <2>1 DEF Others
<1> QED BY <1>5, <1>6 DEF Attached

\* A step of a running turn that opens none, for the turn t that it moves or ends.
LEMMA TurnAttached ==
    ASSUME ReaderInv, NEW t \in Turn, \A u \in Turn : u # t => versions'[u].msg = versions[u].msg,
           Live(t), UNCHANGED messages, Others(t), task'[t].pc # "idle",
           Live(t)' => task'[t].msg = task[t].msg /\ versions'[t].msg = versions[t].msg
    PROVE  Attached'
<1>1. ASSUME NEW u \in Turn
      PROVE  /\ task'[u].pc = "idle" => task[u].pc = "idle"
             /\ Live(u)' => /\ Live(u) /\ task'[u].msg = task[u].msg
                            /\ Exists(u) => Exists(u)'
  <2>1. CASE u = t
    BY <2>1 DEF Exists
  <2>2. CASE u # t
    BY <2>2 DEF Others, Exists, Live
  <2> QED BY <2>1, <2>2
<1> QED BY <1>1, AttachedKept

LEMMA AttachedStep ==
    ASSUME ReaderInv, [Next]_vars
    PROVE  Attached'
<1>0. TypeInv
  BY DEF ReaderInv
<1>1. ASSUME NEW t \in Turn, NEW pc, Moves(t, pc) PROVE Attached'
  <2>1. task'[t].pc # "idle"
    BY <1>1 DEF Moves, Live, Streaming, CleaningUp
  <2> QED BY <1>1, <2>1, TurnAttached DEF Moves, rows
<1>2. ASSUME NEW t \in Turn, NEW o \in {"stopped", "failed"}, NEW left, Interrupt(t, o, left)
      PROVE  Attached'
  <2>1. /\ Others(t) /\ task'[t].pc = "pruning" /\ task'[t].msg = task[t].msg
        /\ Live(t) /\ UNCHANGED rows
    BY <1>0, <1>2 DEF Interrupt, TypeInv, TypeOK, TaskRow, Others, Live
  <2> QED BY <2>1, TurnAttached DEF rows
<1>3. ASSUME NEW t \in Turn, Ends(t), task'[t].pc # "idle",
             \A u \in Turn : u # t => versions'[u].msg = versions[u].msg
      PROVE  Attached'
  BY <1>3, TurnAttached DEF Ends
<1>4. ASSUME NEW t \in Turn, End(t) PROVE task'[t].pc # "idle"
  BY <1>0, <1>4 DEF End, Ended, IdleTask, TypeInv, TypeOK
<1>5. ASSUME NEW t \in Turn, Complete(t) \/ SettleInvoke(t) \/ SettleRegenerate(t) \/ Vanish(t)
      PROVE  Attached'
  <2>1. Ends(t) /\ task'[t].pc # "idle"
    BY <1>0, <1>4, <1>5, EndIs DEF Complete, SettleInvoke, SettleRegenerate, Vanish
  <2>2. \A u \in Turn : u # t => versions'[u].msg = versions[u].msg
    BY <1>0, <1>5 DEF Complete, SettleInvoke, SettleRegenerate, Vanish, WriteTurn, rows,
                      TypeInv, TypeOK
  <2> QED BY <1>3, <2>1, <2>2
<1>6. ASSUME NEW v \in Turn, Switch(v) PROVE Attached'
  BY <1>6, AttachedKept DEF Switch, Live, Exists
<1>7. ASSUME DeleteSession PROVE Attached'
  BY <1>7, AttachedKept DEF DeleteSession, Live
<1>8. ASSUME PurgeThread \/ UNCHANGED vars PROVE Attached'
  BY <1>8, AttachedKept DEF PurgeThread, vars, rows, Live, Exists
<1>9. ASSUME Crash PROVE Attached'
  <2>1. \A u \in Turn : task'[u].pc # "idle" \/ task'[u] = task[u]
    BY <1>0, <1>9 DEF Crash, Ended, IdleTask
  <2>2. \A u \in Turn : Live(u)' => task'[u] = task[u] /\ Live(u)
    BY <1>0, <1>9 DEF Crash, Ended, IdleTask, Live, Streaming, CleaningUp
  <2> QED BY <1>9, <2>1, <2>2, AttachedKept DEF Crash, rows, Exists
<1> QED
  BY <1>0, <1>1, <1>2, <1>5, <1>6, <1>7, <1>8, <1>9, MoveIs, BeginAttached DEF Next, Stop, Fail

LEMMA ReaderAlways == Spec => []ReaderInv
<1>1. Init => Attached
  BY InitAttached
<1>2. ReaderInv /\ [Next]_vars => Attached'
  BY AttachedStep
<1>3. TypeInv /\ RowsInv /\ Attached <=> ReaderInv
  BY DEF ReaderInv
<1> QED BY <1>1, <1>2, <1>3, RowsAlways, PTL DEF Spec

\* Running turns are told apart by what is open of them.
LEMMA OpenMore ==
    ASSUME TypeInv, NEW t \in Turn, task[t].pc = "idle", Live(t)', Others(t)
    PROVE  /\ t \notin Asked
           /\ Asked' = Asked \cup {t}
           /\ Open' = Open \cup {[turn |-> t, before |-> task'[t].fallback]}
<1>1. ~Live(t) /\ task'[t].pc # "idle"
  BY DEF Live, Streaming, CleaningUp
<1>2. \A u \in Turn : u # t => (Live(u)' <=> Live(u)) /\ Opened(u)' = Opened(u)
  BY DEF Others, Live, Opened
<1>3. Asked' = Asked \cup {t} /\ t \notin Asked
  BY <1>1 DEF Others, Asked
<1>4. Opened(t)' = [turn |-> t, before |-> task'[t].fallback]
  BY DEF Opened
<1>5. Open' = Open \cup {Opened(t)'}
  BY <1>1, <1>2 DEF Open
<1> QED BY <1>3, <1>4, <1>5

LEMMA OpenLess ==
    ASSUME TypeInv, NEW t \in Turn, Ends(t), task'[t].pc # "idle"
    PROVE  /\ Asked' = Asked
           /\ Opened(t) \in Open /\ Open' = Open \ {Opened(t)}
<1>1. Live(t) /\ ~Live(t)' /\ Others(t) /\ task[t].pc # "idle"
  BY DEF Ends, Live, Streaming, CleaningUp
<1>2. \A u \in Turn : u # t => (Live(u)' <=> Live(u)) /\ Opened(u)' = Opened(u)
  BY <1>1 DEF Others, Live, Opened
<1>3. Asked' = Asked
  BY <1>1 DEF Others, Asked
<1>4. \A u \in Turn : u # t => Opened(u) # Opened(t)
  BY DEF Opened
<1> QED BY <1>1, <1>2, <1>3, <1>4 DEF Open

LEMMA OpenSame ==
    ASSUME \A u \in Turn : /\ task'[u].pc = "idle" <=> task[u].pc = "idle"
                           /\ Live(u)' <=> Live(u)
                           /\ Live(u) => task'[u].fallback = task[u].fallback
    PROVE  Asked' = Asked /\ Open' = Open
<1>1. \A u \in Turn : Live(u) => Opened(u)' = Opened(u)
  BY DEF Opened
<1> QED BY <1>1 DEF Asked, Open

LEMMA OpenFewer ==
    ASSUME \A u \in Turn : /\ task'[u].pc = "idle" <=> task[u].pc = "idle"
                           /\ Live(u)' => Live(u) /\ task'[u].fallback = task[u].fallback
    PROVE  Asked' = Asked /\ Open' \subseteq Open
<1>1. \A u \in Turn : Live(u)' => Live(u) /\ Opened(u)' = Opened(u)
  BY DEF Opened
<1> QED BY <1>1 DEF Asked, Open

\* What the instance reads, under the names above.
LEMMA ReaderState ==
    /\ Reader!reader = <<Asked, Open, messages, Read, shown>>
    /\ \A m : Reader!Versions(m) = {v \in Turn : Read[v].of = m}
BY DEF Reader!reader, Asked, Open, Opened, Read, ReadAs, Reader!Versions

LEMMA ReadSame ==
    ASSUME versions' = versions
    PROVE  Read' = Read
BY DEF Read, ReadAs, Exists

LEMMA ReadOne ==
    ASSUME NEW t \in Turn, \A v \in Turn : v # t => versions'[v] = versions[v]
    PROVE  Read' = [Read EXCEPT ![t] = ReadAs(t)']
<1>1. \A v \in Turn : v # t => ReadAs(v)' = ReadAs(v)
  BY DEF ReadAs, Exists
<1> QED BY <1>1 DEF Read

LEMMA ReadVersions ==
    ASSUME NEW m \in Turn
    PROVE  {v \in Turn : Read[v].of = m} = VersionsOf(m)
<1>1. m # NoTurn
  BY DEF Turn, NoTurn
<1>2. \A v \in Turn : Read[v].of = versions[v].msg
  BY DEF Read, ReadAs, Exists
<1> QED BY <1>2 DEF VersionsOf

LEMMA ReaderInit == Init => Reader!Init
<1> SUFFICES ASSUME Init PROVE Reader!Init
  OBVIOUS
<1>1. \A t \in Turn : task[t].pc = "idle" /\ ~Live(t) /\ ~Exists(t)
  BY DEF Init, IdleTask, Live, Streaming, CleaningUp, Exists, NoVersion
<1>2. Asked = {} /\ Open = {}
  BY <1>1 DEF Asked, Open
<1>3. Read = [v \in Turn |-> Reader!Nothing]
  BY <1>1 DEF Read, ReadAs, Reader!Nothing
<1>4. messages = <<>> /\ shown = [m \in Turn |-> NoMessage]
  BY DEF Init
<1> QED
  BY <1>2, <1>3, <1>4 DEF Reader!Init, Asked, Open, Opened, Read, ReadAs, Reader!Row,
     Reader!NoText, NoMessage, EmptyText

\* A regenerated version is numbered after one that is there.
LEMMA NextIndexFollows ==
    ASSUME TypeInv, RowsInv, NEW m \in Turn, IsMessage(m)
    PROVE  \E v \in VersionsOf(m) : versions[v].index = NextIndex(m) - 1
<1>1. m \in VersionsOf(m) /\ versions[m].index = 1
  BY ByMessage DEF RowsInv, VersionsOf
<1> QED BY <1>1, NextIndexFresh

LEMMA ReaderLeaves ==
    ASSUME Asked' = Asked, Open' \subseteq Open, UNCHANGED <<messages, versions, shown>>
    PROVE  Reader!Next
<1>1. Read' = Read
  BY ReadSame
<1>2. Reader!Leave
  BY <1>1 DEF Reader!Leave, Asked, Open, Opened, Read, ReadAs
<1> QED BY <1>2 DEF Reader!Next

LEMMA ReaderAsks ==
    ASSUME ReaderInv, NEW t \in Turn, BeginInvoke(t)
    PROVE  Reader!Next
<1> DEFINE row == [current |-> t, status |-> "streaming", text |-> EmptyText]
<1>1. /\ messages' = Append(messages, t)
      /\ versions' = [versions EXCEPT ![t] = Placeholder(t, 1, Effective)]
      /\ shown' = [shown EXCEPT ![t] = row]
      /\ task[t].pc = "idle"
  BY DEF BeginInvoke, Announce, Request
<1>2. /\ Live(t)' /\ Others(t) /\ task'[t].fallback = NoTurn
  <2>1. Announce(t, t, Effective, NoTurn)
    BY DEF BeginInvoke
  <2>2. task'[t].fallback = NoTurn
    BY <2>1 DEF Announce, ReaderInv, TypeInv, TypeOK, IdleTask
  <2> QED BY <2>1, <2>2, OpenIs DEF ReaderInv
<1>3. /\ t \notin Asked /\ Asked' = Asked \cup {t}
      /\ Open' = Open \cup {[turn |-> t, before |-> NoTurn]}
  BY <1>1, <1>2, OpenMore DEF ReaderInv
<1>4. Read' = [Read EXCEPT ![t] = [of |-> t, number |-> 1, status |-> "streaming",
                                   text |-> EmptyText]]
  <2>1. /\ versions'[t] = Placeholder(t, 1, Effective) /\ t # NoTurn
        /\ \A v \in Turn : v # t => versions'[v] = versions[v]
    BY <1>1 DEF ReaderInv, TypeInv, TypeOK, Turn, NoTurn
  <2>2. ReadAs(t)' = [of |-> t, number |-> 1, status |-> "streaming", text |-> EmptyText]
    BY <2>1 DEF ReadAs, Exists, Placeholder
  <2> QED BY <2>1, <2>2, ReadOne
<1>5. Reader!Ask(t)
  BY <1>1, <1>3, <1>4 DEF Reader!Ask, Reader!Begin, Reader!VersionOf, Reader!Row, Reader!NoText,
     EmptyText, Asked, Open, Opened, Read, ReadAs
<1> QED BY <1>5 DEF Reader!Next

LEMMA ReaderAsksAgain ==
    ASSUME ReaderInv, NEW t \in Turn, BeginRegenerate(t)
    PROVE  Reader!Next
<1> DEFINE m == LatestMessage
           n == NextIndex(m)
           row == [current |-> t, status |-> "streaming", text |-> EmptyText]
<1>1. /\ messages # <<>> /\ messages' = messages /\ n <= MaxVersions
      /\ versions' = [versions EXCEPT ![t] = Placeholder(m, n, versions[m].parent)]
      /\ shown' = [shown EXCEPT ![m] = row]
      /\ task[t].pc = "idle"
      /\ Announce(t, m, versions[m].parent, shown[m].current)
  BY DEF BeginRegenerate, Announce, Request
<1>2. m \in Turn /\ IsMessage(m) /\ m # NoTurn
  BY <1>1, LatestIsMessage, MessageIsTurn DEF ReaderInv
<1>3. /\ n \in 2 .. MaxVersions
      /\ \A v \in VersionsOf(m) : versions[v].index < n
      /\ \E v \in VersionsOf(m) : versions[v].index = n - 1
  BY <1>1, <1>2, NextIndexFresh, NextIndexFollows DEF ReaderInv, MaxVersions
<1>4. Live(t)' /\ Others(t) /\ task'[t].fallback = shown[m].current
  <2>1. task'[t].fallback = shown[m].current
    BY <1>1 DEF Announce, ReaderInv, TypeInv, TypeOK, IdleTask
  <2> QED BY <1>1, <2>1, OpenIs DEF ReaderInv
<1> HIDE DEF n, m
<1>5. /\ t \notin Asked /\ Asked' = Asked \cup {t}
      /\ Open' = Open \cup {[turn |-> t, before |-> shown[m].current]}
  BY <1>1, <1>4, OpenMore DEF ReaderInv
<1>6. Read' = [Read EXCEPT ![t] = [of |-> m, number |-> n, status |-> "streaming",
                                   text |-> EmptyText]]
  <2>1. /\ versions'[t] = Placeholder(m, n, versions[m].parent)
        /\ \A v \in Turn : v # t => versions'[v] = versions[v]
    BY <1>1 DEF ReaderInv, TypeInv, TypeOK
  <2>2. ReadAs(t)' = [of |-> m, number |-> n, status |-> "streaming", text |-> EmptyText]
    BY <1>2, <2>1 DEF ReadAs, Exists, Placeholder
  <2> QED BY <2>1, <2>2, ReadOne
<1>7. /\ \A v \in {w \in Turn : Read[w].of = m} : Read[v].number < n
      /\ \E v \in {w \in Turn : Read[w].of = m} : Read[v].number = n - 1
  <2>1. \A v \in VersionsOf(m) : v \in Turn /\ Read[v].number = versions[v].index
    BY <1>2 DEF VersionsOf, Read, ReadAs, Exists
  <2> QED BY <1>2, <1>3, <2>1, ReadVersions
<1>8. m = Reader!Latest
  BY DEF m, LatestMessage, Reader!Latest
<1>9. Reader!Begin(t, Reader!Latest, n, shown[Reader!Latest].current)
  BY <1>1, <1>5, <1>6, <1>8 DEF Reader!Begin, Reader!VersionOf, Reader!Row, Reader!NoText,
     EmptyText, Asked, Open, Opened, Read, ReadAs
<1>10. /\ \A v \in Reader!Versions(Reader!Latest) : Read[v].number < n
       /\ \E v \in Reader!Versions(Reader!Latest) : Read[v].number = n - 1
  BY <1>7, <1>8, ReaderState
<1>11. Reader!Again(t)
  BY <1>1, <1>3, <1>9, <1>10 DEF Reader!Again, Read, ReadAs
<1> QED BY <1>11 DEF Reader!Next

LEMMA ReaderWrites ==
    ASSUME NEW w \in Open,
           \/ \E status \in {"completed", "stopped", "failed"} : Reader!Settle(w, status)
           \/ Reader!Discard(w)
    PROVE  Reader!Next
<1> DEFINE Writes(x) == \/ \E status \in {"completed", "stopped", "failed"} :
                              Reader!Settle(x, status)
                        \/ Reader!Discard(x)
<1>1. Writes(w)
  OBVIOUS
<1>2. (\E x \in Open : Writes(x)) => Reader!Next
  BY DEF Reader!Next, Open, Opened
<1> HIDE DEF Writes
<1> QED BY <1>1, <1>2

\* Settling the record of a version.
Settled(r, status, text) == [r EXCEPT !.status = status, !.text = text]
LEMMA SettledRecord ==
    ASSUME NEW m, NEW n, NEW s, NEW x, NEW status, NEW text,
           NEW r, r = [of |-> m, number |-> n, status |-> s, text |-> x]
    PROVE  Settled(r, status, text)
               = [of |-> m, number |-> n, status |-> status, text |-> text]
<1> DEFINE q == [of |-> m, number |-> n, status |-> status, text |-> x]
<1>1. [r EXCEPT !.status = status] = q
  OBVIOUS
<1>2. [q EXCEPT !.text = text] = [of |-> m, number |-> n, status |-> status, text |-> text]
  OBVIOUS
<1> QED BY <1>1, <1>2 DEF Settled

\* The end of a turn that leaves a version behind.
LEMMA ReaderSettles ==
    ASSUME ReaderInv, NEW t \in Turn, Ends(t), task'[t].pc # "idle",
           NEW status \in {"completed", "stopped", "failed"}, NEW result,
           status = "completed" \/ task[t].msg = t,
           WriteTurn(t, status, Text(t, IF status = "completed" THEN "answer" ELSE "remains"),
                     result)
    PROVE  Reader!Next
<1> DEFINE m == task[t].msg
           text == Text(t, IF status = "completed" THEN "answer" ELSE "remains")
<1>1. /\ Asked' = Asked /\ Opened(t) \in Open /\ Open' = Open \ {Opened(t)}
      /\ Live(t) /\ UNCHANGED messages
  BY OpenLess DEF ReaderInv, Ends
<1>2. CASE ~Exists(t)
  <2>1. ~IsMessage(m)
    BY <1>1, <1>2, VersionHasMessage
  <2>2. UNCHANGED <<versions, shown>>
    BY <1>2, <2>1 DEF WriteTurn
  <2> QED BY <1>1, <2>2, ReaderLeaves
<1>3. CASE Exists(t)
  <2>1. /\ IsMessage(m) /\ session /\ m # NoTurn /\ m \in Turn
        /\ versions[t].msg = m /\ versions[t].status = "streaming"
    BY <1>1, <1>3, VersionHasMessage
  <2>2. /\ versions' = [versions EXCEPT ![t].status = status, ![t].text = text,
                                        ![t].result = result]
        /\ shown' = [shown EXCEPT ![m] =
                        [current |-> t, status |-> status, text |-> text]]
    BY <1>3, <2>1 DEF WriteTurn
  <2> HIDE DEF text, m
  <2>3. /\ \A v \in Turn : v # t => versions'[v] = versions[v]
        /\ versions'[t].msg = m /\ versions'[t].index = versions[t].index
        /\ versions'[t].status = status /\ versions'[t].text = text
    BY <2>1, <2>2 DEF ReaderInv, TypeInv, TypeOK, VersionRow
  <2>4. /\ ReadAs(t) = [of |-> m, number |-> versions[t].index, status |-> "streaming",
                        text |-> versions[t].text]
        /\ ReadAs(t)' = [of |-> m, number |-> versions[t].index, status |-> status,
                         text |-> text]
    BY <1>3, <2>1, <2>3 DEF ReadAs, Exists
  <2>5. Read[t] = ReadAs(t) /\ Read \in [Turn -> {ReadAs(v) : v \in Turn}]
    BY DEF Read
  <2>6. Read' = [Read EXCEPT ![t].status = status, ![t].text = text]
    <3>1. Read' = [Read EXCEPT ![t] = ReadAs(t)']
      BY <2>3, ReadOne
    <3>2. ReadAs(t)' = [Read[t] EXCEPT !.status = status, !.text = text]
      <4>1. PICK r, k, n, x, y : /\ r = Read[t] /\ k = m /\ n = versions[t].index
                                 /\ x = versions[t].text /\ y = text
        OBVIOUS
      <4>2. r = [of |-> k, number |-> n, status |-> "streaming", text |-> x]
        BY <2>4, <2>5, <4>1
      <4>3. Settled(r, status, y)
                = [of |-> k, number |-> n, status |-> status, text |-> y]
        BY <4>2, SettledRecord
      <4> QED BY <2>4, <4>1, <4>3 DEF Settled
    <3> QED BY <2>5, <3>1, <3>2
  <2>7. text = Reader!Words(t, status)
    BY DEF text, Text, Reader!Words
  <2>8. Read[t].of = m /\ Read[t].status = "streaming"
    BY <2>4, <2>5
  <2>9. Opened(t).turn = t /\ (status = "completed" \/ m = t)
    BY DEF Opened, m
  <2>10. Reader!Settle(Opened(t), status)
    BY <1>1, <2>1, <2>2, <2>6, <2>7, <2>8, <2>9
       DEF Reader!Settle, Reader!Row, Asked, Open, Read, ReadAs, Opened
  <2> QED BY <1>1, <2>10, ReaderWrites
<1> QED BY <1>2, <1>3

\* A regeneration that failed.
LEMMA ReaderDiscards ==
    ASSUME ReaderInv, NEW t \in Turn, Ends(t), task'[t].pc # "idle", SettleRegenerate(t)
    PROVE  Reader!Next
<1> DEFINE m == task[t].msg
           f == task[t].fallback
           kept == [versions EXCEPT ![t] = NoVersion]
           row == [current |-> f, status |-> kept[f].status, text |-> kept[f].text]
<1>1. /\ Asked' = Asked /\ Opened(t) \in Open /\ Open' = Open \ {Opened(t)}
      /\ Live(t) /\ UNCHANGED <<session, messages>> /\ m # t
  BY OpenLess DEF ReaderInv, Ends, SettleRegenerate
<1>2. /\ m \in Turn /\ m # NoTurn
      /\ versions' = IF session THEN kept ELSE versions
      /\ shown' = IF session /\ f \in Turn /\ IsMessage(m) /\ kept[f].msg = m
                  THEN [shown EXCEPT ![m] = row] ELSE shown
  BY <1>1, VersionHasMessage DEF SettleRegenerate
<1>3. /\ kept \in [Turn -> {versions[v] : v \in Turn} \cup {NoVersion}] /\ kept[t] = NoVersion
      /\ \A v \in Turn : v # t => kept[v] = versions[v]
  BY DEF ReaderInv, TypeInv, TypeOK
<1>4. NoVersion.msg = NoTurn
  BY DEF NoVersion
<1> HIDE DEF kept
<1>5. CASE ~Exists(t)
  <2>1. ~IsMessage(m)
    BY <1>1, <1>5, VersionHasMessage
  <2>2. shown' = shown
    BY <1>2, <2>1
  <2>3. \A v \in Turn : v # t => versions'[v] = versions[v]
    BY <1>2, <1>3
  <2>4. ~Exists(t)'
    BY <1>2, <1>3, <1>4, <1>5 DEF Exists
  <2>5. Read' = Read
    <3>1. ReadAs(t)' = Read[t]
      BY <1>5, <2>4 DEF Read, ReadAs
    <3>2. Read' = [Read EXCEPT ![t] = ReadAs(t)']
      BY <2>3, ReadOne
    <3> QED BY <3>1, <3>2 DEF Read
  <2>6. Reader!Leave
    BY <1>1, <2>2, <2>5 DEF Reader!Leave, Asked, Open, Opened, Read, ReadAs
  <2> QED BY <2>6 DEF Reader!Next
<1>6. CASE Exists(t)
  <2>1. /\ IsMessage(m) /\ session
        /\ versions[t].msg = m /\ versions[t].status = "streaming"
    BY <1>1, <1>6, VersionHasMessage
  <2>2. versions' = kept
    BY <1>2, <2>1
  <2>3. Read' = [Read EXCEPT ![t] = Reader!Nothing]
    <3>1. ReadAs(t)' = Reader!Nothing
      BY <1>3, <1>4, <2>2 DEF ReadAs, Exists, Reader!Nothing
    <3>2. Read' = [Read EXCEPT ![t] = ReadAs(t)']
      BY <1>3, <2>2, ReadOne
    <3> QED BY <3>1, <3>2
  <2>4. f \in Turn /\ kept[f].msg = m <=> f \in {v \in Turn : Read[v].of = m} \ {t}
    <3>1. f \in Turn /\ kept[f].msg = m <=> f \in VersionsOf(m) \ {t}
      BY <1>2, <1>3, <1>4 DEF VersionsOf
    <3> QED BY <1>2, <3>1, ReadVersions
  <2>5. ASSUME f \in Turn, kept[f].msg = m
        PROVE  row = Reader!Row(f, Read[f].status, Read[f].text)
    <3>1. f # t /\ kept[f] = versions[f] /\ Exists(f)
      BY <1>2, <1>3, <1>4, <2>5 DEF Exists
    <3>2. Read[f].status = versions[f].status /\ Read[f].text = versions[f].text
      BY <2>5, <3>1 DEF Read, ReadAs
    <3> QED BY <3>1, <3>2 DEF Reader!Row
  <2> HIDE DEF row
  <2>6. shown' = IF f \in {v \in Turn : Read[v].of = m} \ {t}
                 THEN [shown EXCEPT ![m] = Reader!Row(f, Read[f].status, Read[f].text)]
                 ELSE shown
    BY <1>2, <2>1, <2>4, <2>5
  <2>7. Read[t].of = m /\ Read[t].status = "streaming"
    BY <1>6, <2>1 DEF Read, ReadAs
  <2>8. Opened(t).turn = t /\ Opened(t).before = f
    BY DEF Opened
  <2> HIDE DEF f, m
  <2>0. PICK w \in Open : w = Opened(t)
    BY <1>1
  <2>9. Reader!Discard(w)
    BY <1>1, <1>2, <2>0, <2>3, <2>6, <2>7, <2>8
       DEF Reader!Discard, Reader!Versions, Asked, Open, Opened, Read, ReadAs
  <2> QED BY <2>0, <2>9, ReaderWrites
<1> QED BY <1>5, <1>6

LEMMA ReaderShows ==
    ASSUME ReaderInv, NEW v \in Turn, Switch(v)
    PROVE  Reader!Next
<1> DEFINE m == LatestMessage
<1>1. /\ messages # <<>> /\ versions[v].msg = m /\ UNCHANGED <<messages, versions, task>>
      /\ shown' = [shown EXCEPT ![m] = [current |-> v, status |-> versions[v].status,
                                        text |-> versions[v].text]]
  BY DEF Switch
<1>2. m \in Turn /\ m # NoTurn /\ m = Reader!Latest
  BY <1>1, LatestIsMessage, MessageIsTurn DEF ReaderInv, LatestMessage, Reader!Latest
<1> HIDE DEF m
<1>3. v \in Reader!Versions(m)
  BY <1>1, <1>2, ReadVersions, ReaderState DEF VersionsOf
<1>4. Read[v].status = versions[v].status /\ Read[v].text = versions[v].text
  BY <1>1, <1>2 DEF Read, ReadAs, Exists
<1>5. Read' = Read /\ Asked' = Asked /\ Open' = Open
  BY <1>1, ReadSame, OpenSame DEF Live
<1>6. Reader!Show(v)
  BY <1>1, <1>2, <1>3, <1>4, <1>5
     DEF Reader!Show, Reader!Row, Asked, Open, Opened, Read, ReadAs
<1> QED BY <1>6 DEF Reader!Next

LEMMA ReaderClears ==
    ASSUME DeleteSession
    PROVE  Reader!Next
<1>1. /\ messages' = <<>> /\ versions' = [t \in Turn |-> NoVersion]
      /\ shown' = [t \in Turn |-> NoMessage] /\ task' = task
  BY DEF DeleteSession
<1>2. Asked' = Asked /\ Open' = Open
  BY <1>1, OpenSame DEF Live
<1>3. Read' = [v \in Turn |-> Reader!Nothing]
  <2>1. \A v \in Turn : ReadAs(v)' = Reader!Nothing
    BY <1>1 DEF ReadAs, Exists, NoVersion, Reader!Nothing
  <2> QED BY <2>1 DEF Read
<1>4. Reader!Clear
  BY <1>1, <1>2, <1>3 DEF Reader!Clear, Reader!Row, Reader!NoText, NoMessage, EmptyText,
     Asked, Open, Opened, Read, ReadAs
<1> QED BY <1>4 DEF Reader!Next

\* Moving a turn on keeps what is open of it.
LEMMA MoveReader ==
    ASSUME TypeInv, NEW t \in Turn,
           \/ Start(t) \/ StepHalfway(t) \/ Answer(t) \/ ReadLatest(t) \/ Prune(t)
           \/ \E o \in {"stopped", "failed"}, left \in BOOLEAN : Interrupt(t, o, left)
    PROVE  UNCHANGED <<messages, versions, shown>> /\ Asked' = Asked /\ Open' = Open
<1>0. task[t] \in TaskRow /\ task \in [Turn -> TaskRow]
  BY DEF TypeInv, TypeOK
<1>1. UNCHANGED <<messages, versions, shown>>
  BY DEF Start, StepHalfway, Answer, ReadLatest, Prune, Interrupt, rows
<1>2. /\ Others(t) /\ Live(t) /\ Live(t)' /\ task[t].pc # "idle" /\ task'[t].pc # "idle"
      /\ task'[t].fallback = task[t].fallback
  <2> USE DEF Others, Live, Streaming, CleaningUp
  <2>1. CASE Start(t)
    <3> DEFINE mem == MemoryAt(From(t))
    <3>1. /\ task' = [task EXCEPT ![t] = [@ EXCEPT !.pc = "started", !.mem = mem]]
          /\ task[t].pc = "announced"
      BY <2>1 DEF Start, From
    <3> HIDE DEF mem
    <3> QED BY <1>0, <3>1 DEF TaskRow
  <2>2. CASE StepHalfway(t)
    BY <1>0, <2>2 DEF StepHalfway, TaskRow
  <2>3. CASE Answer(t)
    BY <1>0, <2>3 DEF Answer, TaskRow
  <2>4. CASE ReadLatest(t)
    BY <1>0, <2>4 DEF ReadLatest, TaskRow
  <2>5. CASE Prune(t)
    BY <1>0, <2>5 DEF Prune, TaskRow
  <2>6. CASE \E o \in {"stopped", "failed"}, left \in BOOLEAN : Interrupt(t, o, left)
    <3>1. PICK o \in {"stopped", "failed"}, left \in BOOLEAN : Interrupt(t, o, left)
      BY <2>6
    <3>2. task[t].pc \in Streaming
      BY <3>1 DEF Interrupt
    <3>3. /\ \A u \in Turn : u # t => task'[u] = task[u]
          /\ task'[t].pc = "pruning" /\ task'[t].fallback = task[t].fallback
      BY <1>0, <3>1 DEF Interrupt, TaskRow
    <3> QED BY <3>2, <3>3
  <2> QED BY <2>1, <2>2, <2>3, <2>4, <2>5, <2>6
<1>3. \A u \in Turn : /\ task'[u].pc = "idle" <=> task[u].pc = "idle"
                      /\ Live(u)' <=> Live(u)
                      /\ Live(u) => task'[u].fallback = task[u].fallback
  BY <1>2 DEF Others, Live
<1> QED BY <1>1, <1>3, OpenSame

LEMMA ReaderStep == ReaderInv /\ [Next]_vars => [Reader!Next]_(Reader!reader)
<1> SUFFICES ASSUME ReaderInv, [Next]_vars PROVE [Reader!Next]_(Reader!reader)
  OBVIOUS
<1>0. TypeInv
  BY DEF ReaderInv
<1>1. ASSUME NEW t \in Turn,
             \/ Start(t) \/ StepHalfway(t) \/ Answer(t) \/ ReadLatest(t) \/ Prune(t)
             \/ Stop(t) \/ Fail(t)
      PROVE  Reader!Next
  BY <1>0, <1>1, MoveReader, ReaderLeaves DEF Stop, Fail
<1>2. ASSUME NEW t \in Turn, End(t) PROVE task'[t].pc # "idle"
  BY <1>0, <1>2 DEF End, Ended, IdleTask, TypeInv, TypeOK
<1>3. ASSUME NEW t \in Turn, Complete(t) PROVE Reader!Next
  BY <1>0, <1>2, <1>3, EndIs, ReaderSettles DEF Complete
<1>4. ASSUME NEW t \in Turn, SettleInvoke(t) PROVE Reader!Next
  <2>1. task[t].outcome \in {"stopped", "failed"}
    BY <1>0 DEF TypeInv, TypeOK, TaskRow
  <2> QED BY <1>0, <1>2, <1>4, <2>1, EndIs, ReaderSettles DEF SettleInvoke
<1>5. ASSUME NEW t \in Turn, SettleRegenerate(t) PROVE Reader!Next
  BY <1>0, <1>2, <1>5, EndIs, ReaderDiscards DEF SettleRegenerate
<1>6. ASSUME NEW t \in Turn, Vanish(t) PROVE Reader!Next
  <2>1. Ends(t) /\ task'[t].pc # "idle" /\ UNCHANGED <<messages, versions, shown>>
    BY <1>0, <1>2, <1>6, EndIs DEF Vanish, rows
  <2>2. Asked' = Asked /\ Open' \subseteq Open
    BY <1>0, <2>1, OpenLess
  <2> QED BY <2>1, <2>2, ReaderLeaves
<1>7. ASSUME Crash PROVE Reader!Next
  <2>1. /\ UNCHANGED <<messages, versions, shown>>
        /\ \A u \in Turn : task'[u] = IF Live(u) THEN Ended ELSE task[u]
    BY <1>7 DEF Crash, rows
  <2>2. Ended.pc = "ended"
    BY DEF Ended, IdleTask
  <2>3. \A u \in Turn : /\ task'[u].pc = "idle" <=> task[u].pc = "idle"
                        /\ Live(u)' => Live(u) /\ task'[u].fallback = task[u].fallback
    BY <2>1, <2>2 DEF Live, Streaming, CleaningUp
  <2> QED BY <2>1, <2>3, OpenFewer, ReaderLeaves
<1>8. ASSUME PurgeThread \/ UNCHANGED vars PROVE UNCHANGED Reader!reader
  <2>1. UNCHANGED <<messages, versions, shown, task>>
    BY <1>8 DEF PurgeThread, vars, rows
  <2>2. Read' = Read /\ Asked' = Asked /\ Open' = Open
    BY <2>1, ReadSame, OpenSame DEF Live
  <2> QED BY <2>1, <2>2 DEF Reader!reader, Asked, Open, Opened, Read, ReadAs
<1> QED
  BY <1>1, <1>3, <1>4, <1>5, <1>6, <1>7, <1>8, ReaderAsks, ReaderAsksAgain, ReaderShows,
     ReaderClears DEF Next

\* The tables and coroutines of a thread implement what a reader is promised, for any
\* number of turns and whatever stops, fails or is deleted: each version is written by
\* its own turn alone, settles once, and is shown as it is.
THEOREM VersionsImplemented == Spec => ImplementsVersions
<1>1. Init /\ [][Next]_vars /\ []ReaderInv
        => Reader!Init /\ [][Reader!Next]_(Reader!reader)
  BY ReaderInit, ReaderStep, PTL
<1> QED BY <1>1, ReaderAlways, PTL DEF Spec, ImplementsVersions, Reader!Spec
=============================================================================
