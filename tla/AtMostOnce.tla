----------------------------- MODULE AtMostOnce -----------------------------
(***************************************************************************)
(* What a command may rely on, whichever backend it was given: each call   *)
(* takes effect on the graph it was made for, at one instant, at most      *)
(* once.  An answer tells the truth about it; "backend" leaves open        *)
(* whether it has, "unavailable" even whether it will.                     *)
(***************************************************************************)
EXTENDS Naturals, Sequences

CONSTANTS
    Clients,
    Graphs,         \* what graphs are reached by
    Holdings,       \* what a graph may hold
    Requests,
    Effect(_, _),  \* what a request does to a graph, and its answer
    InitialGraphs

VARIABLES
    graphs,     \* the graphs, each under what it is reached by
    calls       \* the calls made so far

vars == <<graphs, calls>>

\* Verdicts after which a call has not changed anything and never will
Definite == {"not_found", "conflict", "invalid", "unsupported"}

Verdicts == Definite \cup {"ok", "backend", "unavailable"}

NewCall(client, target, request) ==
    [client |-> client, target |-> target, request |-> request,
     ran |-> FALSE, result |-> "none", changed |-> FALSE, answer |-> "none"]

\* The call i takes effect: the graphs and the calls after it
GraphsAfter(i) ==
    [graphs EXCEPT ![calls[i].target] = Effect(@, calls[i].request).graph]

CallsAfter(i) ==
    LET o == Effect(graphs[calls[i].target], calls[i].request)
    IN  [calls EXCEPT ![i].ran = TRUE, ![i].result = o.answer,
                      ![i].changed = o.graph # graphs[calls[i].target]]

Init == graphs \in [Graphs -> InitialGraphs] /\ calls = <<>>

Make(client, target, request) ==
    /\ calls' = Append(calls, NewCall(client, target, request))
    /\ UNCHANGED graphs

Run(i) ==
    /\ ~calls[i].ran /\ calls[i].answer \in {"none", "unavailable"}
    /\ graphs' = GraphsAfter(i)
    /\ calls' = CallsAfter(i)

Tell(i) ==
    /\ calls[i].answer = "none"
    /\ \E a \in Verdicts :
         /\ calls' = [calls EXCEPT ![i].answer = a]
         /\ \/ calls[i].ran /\ a = calls[i].result
            \/ ~calls[i].ran /\ a \in Definite
            \/ a \in {"backend", "unavailable"}
    /\ UNCHANGED graphs

\* A call that takes effect and is answered at once
RunAndTell(i) ==
    /\ ~calls[i].ran /\ calls[i].answer = "none"
    /\ graphs' = GraphsAfter(i)
    /\ \E a \in {CallsAfter(i)[i].result, "backend"} :
         calls' = [CallsAfter(i) EXCEPT ![i].answer = a]

Next ==
    \/ \E c \in Clients, g \in Graphs, r \in Requests : Make(c, g, r)
    \/ \E i \in DOMAIN calls : Run(i) \/ Tell(i) \/ RunAndTell(i)

Spec == Init /\ [][Next]_vars
=============================================================================
