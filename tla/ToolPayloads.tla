---------------------------- MODULE ToolPayloads ----------------------------
(***************************************************************************)
(* What the back end reads out of the payload a tool returned: the cards   *)
(* shown under the tool (agent/cards.py) and the sources that the answer   *)
(* may cite (agent/streaming.py).                                          *)
(*                                                                         *)
(* A payload is a tree of nodes.  "text" is a string that is not JSON,     *)
(* "json" one that parses to of[1], "block" the MCP wrapper {type: "text", *)
(* text: of[1]}.  The marks of a dict say which of the fields the code     *)
(* looks for it has; a child marked "results" stands under that key.       *)
(***************************************************************************)
EXTENDS Naturals, Sequences, SequencesExt

Marks == {"name",      \* a name field that is not blank
          "feature",   \* a price, rating, address or star field
          "url",       \* a field that holds a link
          "results"}   \* the node is the value of the key "results"

Null            == [k |-> "null", is |-> {}, of |-> <<>>]
Plain           == [k |-> "text", is |-> {}, of |-> <<>>]
Json(v)         == [k |-> "json", is |-> {}, of |-> <<v>>]
List(items)     == [k |-> "list", is |-> {}, of |-> items]
Dict(marks, of) == [k |-> "dict", is |-> marks, of |-> of]
Block(v)        == [k |-> "block", is |-> {}, of |-> <<v>>]
IsString(v)     == v.k \in {"text", "json"}

\* SelectSeq, in a form that the proofs can look into.
Only(s, Test(_)) == FlattenSeq([i \in DOMAIN s |-> IF Test(s[i]) THEN <<s[i]>> ELSE <<>>])

\* The parsed structure of a string; anything else as it is.
EnsureParsed(v) == CASE v.k = "json" -> v.of[1]
                     [] v.k = "text" -> Null
                     [] OTHER        -> v

-----------------------------------------------------------------------------
(* Cards *)

\* What one text block adds to the unwrapped list.
BlockItems(b) ==
    LET v == EnsureParsed(b.of[1]) IN
    CASE v.k = "list" -> v.of
      [] v = Null     -> <<>>
      [] OTHER        -> <<v>>

\* Mutant: a list that a block holds is kept as one item.
UnwrapNested(v) ==
    LET items == FlattenSeq([i \in DOMAIN v.of |->
                     Only(<<EnsureParsed(v.of[i].of[1])>>, LAMBDA x : x # Null)])
    IN
    CASE v.k = "block" -> IF EnsureParsed(v.of[1]) = Null THEN v ELSE EnsureParsed(v.of[1])
      [] v.k = "list" /\ (\A i \in DOMAIN v.of : v.of[i].k = "block") /\ items # <<>>
           -> List(items)
      [] OTHER -> v

\* One layer of MCP wrapping is taken off, from a block or a list of nothing else.
UnwrapMcpTextBlocks(v) ==
    LET items == FlattenSeq([i \in DOMAIN v.of |-> BlockItems(v.of[i])])
        inner == EnsureParsed(v.of[1])
    IN
    CASE v.k = "block" -> IF inner = Null THEN v ELSE inner
      [] v.k = "list" /\ (\A i \in DOMAIN v.of : v.of[i].k = "block") /\ items # <<>>
           -> List(items)
      [] OTHER -> v

\* One level down: the values of a dict's fields take its place.
Opened(values) ==
    FlattenSeq([i \in DOMAIN values |->
        IF values[i].k = "dict" THEN values[i].of ELSE <<values[i]>>])

\* The lists within a value, in order: it, or those in the fields of a dict, two deep.
WalkLists(v) == Only(Opened(Opened(<<v>>)), LAMBDA x : x.k = "list")

IsHotelLike(v) == v.k = "dict" /\ {"name", "feature"} \subseteq v.is

Hotels(v) == Only(v.of, IsHotelLike)

\* The first of some sequences that is not empty.
FirstOf(seqs) ==
    LET filled == {i \in DOMAIN seqs : seqs[i] # <<>>}
    IN  IF filled = {} THEN <<>> ELSE seqs[Min(filled)]

\* The hotels of the first list that has any.
FirstHotels(lists) == FirstOf([i \in DOMAIN lists |-> Hotels(lists[i])])

\* HotelCardExtractor: a list of hotels, a list of dicts around one, or one dict.
Extract(payload) ==
    LET v == UnwrapMcpTextBlocks(IF IsString(payload) THEN EnsureParsed(payload) ELSE payload)
        dicts == Only(v.of, LAMBDA x : x.k = "dict")
    IN
    CASE v.k = "list" /\ Hotels(v) # <<>> -> Hotels(v)
      [] v.k = "list" /\ Hotels(v) = <<>> ->
            FirstHotels(FlattenSeq([i \in DOMAIN dicts |-> WalkLists(dicts[i])]))
      [] IsHotelLike(v) -> <<v>>
      [] OTHER -> FirstHotels(WalkLists(v))

\* Only a tool whose name speaks of hotels has cards.
ExtractCards(hotelTool, payload) ==
    IF hotelTool /\ payload # Null THEN Extract(payload) ELSE <<>>

-----------------------------------------------------------------------------
(* Sources *)

IsCitation(v) == v.k = "dict" /\ "url" \in v.is

\* The links under "results", or else those of a payload that is itself a list.
ExtractSources(payload) ==
    LET v == EnsureParsed(payload)
        results == IF v.k = "dict"
                   THEN Only(v.of, LAMBDA x : x.k = "list" /\ "results" \in x.is)
                   ELSE <<>>
    IN
    CASE results # <<>> -> Only(results[1].of, IsCitation)
      [] v.k = "list"   -> Only(v.of, IsCitation)
      [] OTHER          -> <<>>

-----------------------------------------------------------------------------
(***************************************************************************)
(* The hotels of a structured payload, defined to compare with: by places  *)
(* in the tree instead of by traversal.                                    *)
(***************************************************************************)
IsNode(v) ==
    /\ v.k \in {"null", "text", "json", "block", "list", "dict"} /\ v.is \subseteq Marks
    /\ v.of \in Seq(Range(v.of))
Items(nodes) == UNION {Range(v.of) : v \in nodes}

\* A tree as deep as anything is looked for in it, which nobody has wrapped yet.
IsPayload(v) ==
    /\ \A x \in {v} \cup Items({v}) \cup Items(Items({v})) : IsNode(x)
    /\ v.k \notin {"json", "block"}
    /\ v.k = "list" /\ v.of # <<>> => \E i \in DOMAIN v.of : v.of[i].k # "block"

\* A node with the way that leads to it; what stands in the nodes, in dicts alone.
Top(v)          == [path |-> <<>>, node |-> v]
Under(p, i)     == [path |-> Append(p.path, i), node |-> p.node.of[i]]
Within(places)  == UNION {{Under(p, i) : i \in DOMAIN p.node.of} : p \in places}
InDicts(places) == Within({p \in places : p.node.k = "dict"})

Before(p, q) ==
    \E n \in DOMAIN q : /\ \A m \in 1 .. n - 1 : m \in DOMAIN p /\ p[m] = q[m]
                        /\ n \in DOMAIN p => p[n] < q[n]

\* The lists a reader of the payload would look at: itself, or what stands in a
\* dict or in a dict in a dict, the outermost of which may be an item of a list.
ListsIn(v) ==
    LET outer == InDicts(IF v.k = "list" THEN Within({Top(v)}) ELSE {Top(v)})
    IN  {p \in {Top(v)} \cup outer \cup InDicts(outer) : p.node.k = "list"}

HotelsIn(v) ==
    LET found == {p \in ListsIn(v) : Hotels(p.node) # <<>>} IN
    CASE IsHotelLike(v) -> <<v>>
      [] ~IsHotelLike(v) /\ found = {} -> <<>>
      [] OTHER -> LET first == CHOOSE p \in found : \A q \in found \ {p} : Before(p.path, q.path)
                  IN  Hotels(first.node)
=============================================================================
