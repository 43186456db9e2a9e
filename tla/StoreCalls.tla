----------------------------- MODULE StoreCalls -----------------------------
(***************************************************************************)
(* The outcome of one whole call of the v3 traits on a graph, all of its   *)
(* items taken in order: the graph it leaves and the answer it gives.      *)
(***************************************************************************)
EXTENDS GraphOps

Outcome(graph, answer) == [graph |-> graph, answer |-> answer]

Attempt(possible, d, graph) == IF possible THEN Outcome(graph, Done) ELSE Outcome(d, Failed)

UpdateOutcome(d, i, t) ==
    LET n == Norm[i.name]
        status == IF i.status = Null THEN StatusOf(d, n) ELSE i.status
    IN  IF n \notin Live(d)       THEN Outcome(d, NotFound)
        ELSE IF n \notin Tasks(d) THEN Outcome(d, Invalid)
        ELSE Outcome(UpdateTask(d, i, t), Answer("status", {status} \ {""}))

\* First(S) is the task "ORDER BY name LIMIT 1" finds
First(S) == CHOOSE n \in S : \A m \in S : NameRank[n] <= NameRank[m]

DispatchOutcome(d, i, t) ==
    LET named  == i.name # Null
        target == IF named THEN Norm[i.name] ELSE First(ReadyTasks(d))
    IN  IF (~named /\ ReadyTasks(d) = {}) \/ StatusOf(d, target) # Ready
        THEN Outcome(d, Nothing)
        ELSE Outcome(DispatchTo(d, target, i, t), Answer("claimed", {target}))

ClaimOutcome(d, i, t) ==
    LET target == First(ReadyTasks(d))
    IN  IF ReadyTasks(d) = {} THEN Outcome(d, Nothing)
        ELSE Outcome(Claim(d, target, i.agent, t), Answer("claimed", {target}))

ItemOutcome(d, op, i, t) ==
    CASE op = "create_entities"  -> Outcome(CreateEntity(d, i, t), Done)
      [] op = "add_observations" ->
           Attempt(CanObserve(d, Norm[i.name], i.contents), d,
                   Observe(d, Norm[i.name], i.contents, i.limit, t))
      [] op = "create_relations" -> Attempt(CanRelate(d, i), d, CreateRelation(d, i))
      [] op = "delete_entities"  -> Outcome(DeleteEntity(d, i), Done)
      [] op = "delete_observations"      -> Outcome(DeleteObservations(d, i, t), Done)
      [] op = "delete_observation_by_id" -> Outcome(DeleteObservationById(d, i, t), Done)
      [] op = "update_observation_by_id" -> Outcome(UpdateObservationById(d, i, t), Done)
      [] op = "update_observation" -> Outcome(UpdateObservation(d, i, t), Done)
      [] op = "delete_relations" -> Outcome(DeleteRelation(d, i), Done)
      [] op = "truth_upsert"     -> Attempt(Norm[i.name] \in Live(d), d, TruthUpsert(d, i, t))
      [] op = "truth_delete"     -> Outcome(TruthDelete(d, i, t), Done)
      [] op = "update"           -> UpdateOutcome(d, i, t)
      [] op = "dispatch"         -> DispatchOutcome(d, i, t)
      [] op = "claim_next"       -> ClaimOutcome(d, i, t)
      [] op = "purge"            -> Outcome(IF i.apply THEN Purge(d, i.days, t) ELSE d, Done)
      [] op = "reset"            -> Outcome(Reset(d), Done)

\* The answers that abandon the items that would follow, and undo the ones before
Refusals == {Failed, Invalid, NotFound}

\* The j-th item, unless one before it was refused
AfterItem(o, r, j, t) ==
    IF o.answer \in Refusals THEN o ELSE ItemOutcome(o.graph, r.op, r.items[j], t)

\* What the first j items of the call make of the graph, for each j
Outcomes(d, r, t) ==
    LET after[j \in 0..Len(r.items)] ==
            IF j = 0 THEN Outcome(d, Done) ELSE AfterItem(after[j - 1], r, j, t)
    IN  after

RequestOutcome(d, r, t) ==
    LET last == Outcomes(d, r, t)[Len(r.items)]
    IN  IF last.answer \in Refusals THEN Outcome(d, last.answer) ELSE last
=============================================================================
