------------------------------ MODULE ReadDocs ------------------------------
(***************************************************************************)
(* What docs/usage.md says of searches and the code does not do.           *)
(***************************************************************************)
EXTENDS ReadCommands

\* docs/usage.md:285: "A query term and `--where` filters likewise intersect".
\* A search by words and filters that nobody disturbs prints only entities the
\* words alone would find.
SearchIntersects ==
    [][\A w \in Workers :
         LET c == cmd[w]
         IN  (/\ c.name = "search" /\ c.term.words # {} /\ c.filters # {}
              /\ alone[w] /\ Ends(w))
             => NamesIn(answer'[w]) \subseteq
                  UNION {ToSet(ranking) : ranking \in Rankings(c.term, SearchLimit(c), c.filters)}]_vars
=============================================================================
