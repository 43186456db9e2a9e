------------------------------ MODULE MCReads ------------------------------
(***************************************************************************)
(* A small instance of ReadCommands for TLC: an epic and two durable       *)
(* entities whose names slugify alike.                                     *)
(***************************************************************************)
EXTENDS ReadCommands, ReadDocs

CONSTANTS epic, topic, twin,            \* stored names
          Topic0,                       \* another spelling
          red, blue, both, abandonNote, toA,
          w1, w2                        \* processes

MCNames     == {epic, topic, twin}
MCNameRank  == epic :> 1 @@ topic :> 2 @@ twin :> 3
MCSpellings == MCNames \cup {Topic0}
MCNorm      == [n \in MCNames |-> n] @@ Topic0 :> topic
MCTypes     == {"task", "concept"}
MCKeys      == {"status", "claimed_by"}
MCAgents    == {"a"}
MCValues    == TaskStatuses \cup TerminalStatuses \cup MCAgents \cup {"red"}
MCContents  == {red, blue, both, abandonNote, toA}
MCRelTypes  == {"part_of", "compacted"}
MCDispatchNote == "a" :> toA
MCTextWords == [x \in MCContents \cup MCValues |->
                  CASE x \in {red, "red"} -> {"r"} [] x = blue -> {"b"}
                    [] x = both -> {"r", "b"} [] OTHER -> {}]
MCNameWords == [n \in MCNames \cup MCTypes |->
                  CASE n = topic -> {"t"} [] n = twin -> {"t", "r"} [] OTHER -> {}]

MCCharacters == [v \in MCValues |-> <<"a">>]
MCAlphanumerics == {"a", "b", "B"}
MCChars      == MCAlphanumerics \cup Connectors \cup {":", " ", "!", Backslash, DoubleQuote}
MCLowerCase  == "a" :> "a" @@ "b" :> "b" @@ "B" :> "b"
MCSlug       == [n \in MCNames |-> Slugify(CASE n = epic  -> <<"a">>
                                             [] n = topic -> <<"a", "-", "B">>
                                             [] n = twin  -> <<"a", ".", "B">>)]
MCSamples    == BoundedSeq({"a", ":", "-", " ", "!", Backslash, DoubleQuote}, 4)

\* A term that FTS5 cannot parse: its words are those between blanks, and texts
\* may well have them
Malformed(words, operators) ==
    [words |-> words, operators |-> operators, finds |-> [widened \in BOOLEAN |-> {}]]
Search(term, limit, filters) ==
    [name |-> "search", term |-> term, limit |-> limit, filters |-> filters]
Show(names, expand, limit) ==
    [name |-> "show", names |-> names, expand |-> expand, limit |-> limit]
Writing(op, item, echo) ==
    [name |-> "write", request |-> [op |-> op, items |-> <<item>>], echo |-> echo]
Entity(n, type, contents) == [name |-> n, type |-> type, contents |-> contents]

ReadingCommands == {
    Show(<<topic, epic, Topic0>>, {}, 1),
    Show(<<epic>>, {"part_of"}, 0),
    Show(<<>>, {}, 0),
    [name |-> "graph"],
    [name |-> "list", all |-> FALSE],
    [name |-> "board", epic |-> epic],
    Search(Bare({"r"}), 1, {}),
    Search(Bare({"r", "b"}), 2, {}),
    Search(Bare({"t"}), 0, {}),
    Search(Bare({}), 1, {<<"status", "DONE">>}),
    Search(Malformed({"b"}, TRUE), 1, {}),
    Search(Malformed({"r", "b"}, FALSE), 1, {}),
    [name |-> "stats"],
    [name |-> "compact"],
    Writing("add_observations", [name |-> Topic0, contents |-> <<both>>, limit |-> 2], <<Topic0>>),
    Writing("create_entities", Entity(twin, "concept", <<red>>), <<>>),
    Writing("truth_upsert", [name |-> topic, key |-> "status", value |-> "DONE"], <<topic>>),
    Writing("delete_entities", [name |-> epic], <<>>)}

\* A word nothing has, and a filter that one entity passes
FilteredSearches == {Search(Bare({"z"}), 1, {<<"claimed_by", "red">>})}

StartGraph ==
    LET d1 == CreateEntity(EmptyDatabase, Entity(epic, "task", <<>>), 0)
        d2 == CreateEntity(d1, Entity(topic, "concept", <<red, blue>>), 0)
        d3 == SetTruth(d2, epic, "claimed_by", "red", 0)
    IN  CreateRelation(d3, [from |-> topic, to |-> epic, type |-> "part_of"])

\* And one whose topic has a link that hides the time of its file
StartGraphs ==
    {StartGraph, CreateRelation(StartGraph, [from |-> topic, to |-> epic, type |-> "compacted"])}

Symmetry == Permutations(Workers)
=============================================================================
