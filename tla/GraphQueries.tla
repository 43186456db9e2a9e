---------------------------- MODULE GraphQueries ----------------------------
(***************************************************************************)
(* The queries of the read operations, each as an operator on the graph it *)
(* runs on, and the ranking of search results                              *)
(* (crates/asobi-storage/src/storage/sqlite.rs: graph_from_connection,     *)
(* matching_names, search_nodes).  A read is many of them in a row; the    *)
(* rows of one query come from one graph.                                  *)
(***************************************************************************)
EXTENDS StoreCalls, SequencesExt

CONSTANTS
    Words,          \* the words texts and search terms are made of
    TextWords,      \* the words of each observation text and truth value
    NameWords,      \* the words `LIKE` finds in each name and entity type
    CandidatePool,  \* what each path of a search contributes at least
    Damping,        \* RRF_DAMPING
    Scale           \* a common multiple of the damped ranks: scores are integers

ASSUME QueriesAssumption ==
    /\ IsFiniteSet(RelTypes)
    /\ TextWords \in [Contents \cup Values -> SUBSET Words]
    /\ NameWords \in [Names \cup Types -> SUBSET Words]
    /\ {CandidatePool, Damping, Scale} \subseteq Nat
    /\ \A i \in 1..Cardinality(Names) : Scale % (Damping + i) = 0

\* The things that before is defined on, in order: before says which come before each
Ordered(before) ==
    [i \in 1..Cardinality(DOMAIN before) |->
        CHOOSE x \in DOMAIN before : Cardinality(before[x]) = i - 1]

ByName(S) == Ordered([n \in S |-> {m \in S : NameRank[m] < NameRank[n]}])

\* The elements of s at some of its places
Picked(s, places) ==
    LET order == Ordered([i \in places |-> {j \in places : j < i}])
    IN  [i \in DOMAIN order |-> s[order[i]]]

\* The first n of a sequence
Prefix(s, n) == SubSeq(s, 1, IF n < Len(s) THEN n ELSE Len(s))

----------------------------------------------------------------------------
(* graph_from_connection *)

\* The relations --expand follows from the selected names, and where they lead
Neighbours(d, names, kinds) ==
    LET followed == {r \in d.rel : r[3] \in kinds /\ {r[1], r[2]} \cap names # {}}
    IN  {r[1] : r \in followed} \cup {r[2] : r \in followed}

\* The rows of the selected names, each once, at its last place in the list
SelectedRows(d, names) ==
    Picked(names, {i \in DOMAIN names :
                     /\ names[i] \in Live(d)
                     /\ \A j \in DOMAIN names : names[j] = names[i] => j <= i})

ObservationCount(d, n) == Cardinality(ObsOf(d, n))

\* Mutant: the inner query without DESC
RecentObservations_Oldest(d, n, limit) ==
    LET rows   == ObsOf(d, n)
        oldest == Ordered([o \in rows |-> {p \in rows : p.id < o.id}])
    IN  IF limit = 0 THEN oldest ELSE Prefix(oldest, limit)

\* The newest of them, in the order they were written; 0 asks for all
RecentObservations(d, n, limit) ==
    LET rows   == ObsOf(d, n)
        newest == Ordered([o \in rows |-> {p \in rows : p.id > o.id}])
    IN  Reverse(IF limit = 0 THEN newest ELSE Prefix(newest, limit))

\* No selected names is no filter
RelationsKept(d, names, entities) ==
    LET shown == {entities[i].name : i \in DOMAIN entities}
    IN  {r \in d.rel : names = <<>> \/ {r[1], r[2]} \cap shown # {}}

----------------------------------------------------------------------------
(* search_nodes *)

\* The words of the search, whether an operator or a quote is among them, and
\* what FTS5 finds for the term as it is and widened: no text at all for one
\* whose syntax it rejects
Terms == [words : SUBSET Words, operators : BOOLEAN,
          finds : [BOOLEAN -> SUBSET (Contents \cup Values)]]

\* Bare words: FTS5 ANDs them, the widened query ORs them
Bare(words) ==
    [words |-> words, operators |-> FALSE,
     finds |-> [widened \in BOOLEAN |->
                  {x \in Contents \cup Values :
                     IF widened THEN TextWords[x] \cap words # {} ELSE words \subseteq TextWords[x]}]]

\* widen_query: several words and no operator among them
Widenable(term) == Cardinality(term.words) > 1 /\ ~term.operators

ObservationHits(d, term, widened) ==
    {o.entity : o \in {o \in d.obs :
        \E e \in d.obsFts : e[1] = o.id /\ e[2] \in term.finds[widened]}}

TruthHits(d, term, widened) ==
    {e[1] : e \in {e \in d.truthFts :
        d.truth[e[1]][e[2]] # Null /\ e[3] \in term.finds[widened]}}

\* LIKE takes the whole term, which is no part of a name if it has several words
NameHits(d, term, widened) ==
    {n \in Live(d) : \E w \in Words : /\ ~widened /\ term.words = {w}
                                      /\ w \in NameWords[n] \cup NameWords[d.type[n]]}

\* The two queries by bm25 return their names in some order: the rank of a text
\* depends on all others, of an entity's texts the first one scanned counts
RankedPaths(d, path, term, widened, pool) ==
    LET orders == CASE path = 1 -> SetToSeqs(ObservationHits(d, term, widened))
                    [] path = 2 -> SetToSeqs(TruthHits(d, term, widened))
                    [] path = 3 -> {ByName(NameHits(d, term, widened))}
    IN  {Prefix(order, pool) : order \in orders}

\* Mutant: the pool is the caller's limit
PoolSize_Limit(limit, filters) == IF filters # {} THEN Cardinality(Names) ELSE limit

\* A search with filters takes all there is, before it filters
PoolSize(limit, filters) ==
    IF filters # {} THEN Cardinality(Names)
    ELSE IF limit > CandidatePool THEN limit ELSE CandidatePool

\* Reciprocal rank fusion of the three paths, equal scores in name order
Fused(paths) ==
    LET names == UNION {ToSet(paths[i]) : i \in 1..3}
        Rank(path, n) == CHOOSE i \in DOMAIN path : path[i] = n
        Points(path, n) == IF n \in ToSet(path) THEN Scale \div (Damping + Rank(path, n)) ELSE 0
        score == [n \in names |->
                    Points(paths[1], n) + Points(paths[2], n) + Points(paths[3], n)]
    IN  Ordered([n \in names |-> {m \in names :
            score[m] > score[n] \/ (score[m] = score[n] /\ NameRank[m] < NameRank[n])}])

\* The entities that have every truth the filters ask for
Eligible(d, filters) == {n \in Live(d) : \A f \in filters : d.truth[n][f[1]] = f[2]}

\* All that the filters let through, in no particular order, if the words of
\* the search found nothing or there were none
Filtered(names, eligible) ==
    IF names = <<>> THEN SetToSeqs(eligible)
    ELSE {Picked(names, {i \in DOMAIN names : names[i] \in eligible})}
=============================================================================
