---------------------------- MODULE MCStreamParts ----------------------------
(* The agent runs that TLC examines StreamParts with. *)
EXTENDS StreamParts

Delta(type, step, cites) == [type |-> type, step |-> step, cites |-> cites]
Call(step, error, wrap, payload) ==
    [step |-> step, hotel |-> TRUE, error |-> error, wrap |-> wrap, payload |-> payload]
Run(deltas, calls, faults) == [deltas |-> deltas, calls |-> calls, faults |-> faults]

Hotel     == Dict({"name", "feature"}, <<>>)
HotelLink == Dict({"name", "feature", "url"}, <<>>)
Link      == Dict({"url"}, <<>>)
Results(items) == [List(items) EXCEPT !.is = {"results"}]

\* What is said around the calls: two steps, of one to three deltas.
Brief == {<<Delta(a, 0, 0), Delta("text", 1, 1)>> : a \in TextTypes}
Said == Brief \cup {<<Delta(a, 0, 1), Delta("text", 1, 2), Delta(b, 1, 3)>> : a, b \in TextTypes}

\* What is called: nothing, one tool, two at once, two in turn.
Search(step) == Call(step, FALSE, "bare", Dict({}, <<Results(<<Link, HotelLink>>)>>))
Book(step)   == Call(step, FALSE, "json", List(<<Hotel, HotelLink>>))
Broken(step) == Call(step, TRUE, "bare", Null)
Called == {<<>>, <<Search(0)>>, <<Broken(0)>>, <<Book(0), Search(0)>>, <<Search(0), Book(1)>>}

\* Payloads: lists and dicts of hotels and links, up to three dicts deep.
Lists == {List(s) : s \in {<<>>, <<Link>>, <<Hotel>>, <<Link, Hotel>>, <<HotelLink, Hotel>>}}
Dicts == {Dict({}, <<a>>) : a \in Lists \cup {Hotel}}
    \cup {Dict({}, <<a, b>>) : a, b \in Lists} \cup {Dict({"name", "feature"}, <<a>>) : a \in Lists}
    \cup {Dict({}, <<Results(<<Link>>), a>>) : a \in Lists}
Deep == {Dict({}, <<a>>) : a \in Dicts}
    \cup {Dict({}, <<a, b>>) : a \in Lists, b \in {Dict({}, <<l>>) : l \in Lists}}
Payloads == Lists \cup Dicts \cup Deep \cup {Dict({}, <<a>>) : a \in Deep} \cup {Hotel, Link}
       \cup {List(<<a>>) : a \in Lists \cup Dicts \cup Deep}
       \cup {List(<<Link, a>>) : a \in Dicts \cup Deep}

AllRuns ==
    {Run(said, called, {}) : said \in Said, called \in Called}
    \cup {Run(said, called, {f}) : said \in Brief, called \in Called, f \in Faults}
    \cup {Run(said, <<Search(0)>>, Faults) : said \in Brief}
    \cup {Run(<<>>, <<Call(0, FALSE, wrap, p)>>, {}) :
            wrap \in {"bare", "json", "block", "blocks"}, p \in Payloads}
StoppedRuns == {Run(<<Delta("text", 0, 0)>>, <<Search(0)>>, {"stops"})}
=============================================================================
