-------------------------- MODULE StoreCallsProofs --------------------------
(***************************************************************************)
(* What a whole call makes of a graph, item by item.  Outcomes is defined  *)
(* by recursion on the items; OutcomesDefined gives the equation it obeys, *)
(* from the least number at which it might fail to.                        *)
(***************************************************************************)
EXTENDS StoreCalls, GraphOpsProofs, SequenceTheorems

\* f gives the outcomes of the first n items of a call.
Follows(f, n, d, r, t) ==
    f = [j \in 0..n |-> IF j = 0 THEN Outcome(d, Done) ELSE AfterItem(f[j - 1], r, j, t)]

\* One more item.
Extended(f, n, r, t) ==
    [j \in 0..n |-> IF j < n THEN f[j] ELSE AfterItem(f[n - 1], r, n, t)]

LEMMA FollowsZero ==
  ASSUME NEW d, NEW r, NEW t
  PROVE  Follows([j \in 0..0 |-> Outcome(d, Done)], 0, d, r, t)
  BY DEF Follows

LEMMA FollowsNext ==
  ASSUME NEW d, NEW r, NEW t, NEW n \in Nat, n # 0, NEW f, Follows(f, n - 1, d, r, t)
  PROVE  Follows(Extended(f, n, r, t), n, d, r, t)
  <1> DEFINE g == Extended(f, n, r, t)
  <1>1. /\ g = [j \in 0..n |-> g[j]]
        /\ \A j \in 0..(n - 1) : g[j] = f[j]
        /\ g[n] = AfterItem(f[n - 1], r, n, t)
    BY DEF Extended
  <1>2. \A j \in 0..(n - 1) : f[j] = IF j = 0 THEN Outcome(d, Done) ELSE AfterItem(f[j - 1], r, j, t)
    BY DEF Follows
  <1> HIDE DEF g
  <1>3. \A j \in 0..n : g[j] = IF j = 0 THEN Outcome(d, Done) ELSE AfterItem(g[j - 1], r, j, t)
    <2>1. ASSUME NEW j \in 0..(n - 1)
          PROVE  g[j] = IF j = 0 THEN Outcome(d, Done) ELSE AfterItem(g[j - 1], r, j, t)
      <3>1. CASE j = 0
        BY <1>1, <1>2, <3>1
      <3>2. CASE j # 0
        <4>1. j - 1 \in 0..(n - 1)
          BY <3>2
        <4> QED
          BY <1>1, <1>2, <3>2, <4>1
      <3> QED
        BY <3>1, <3>2
    <2>2. n - 1 \in 0..(n - 1) /\ g[n] = AfterItem(g[n - 1], r, n, t)
      BY <1>1
    <2> QED
      BY <2>1, <2>2
  <1> QED
    BY <1>1, <1>3 DEF Follows, g

\* For every list there is a function that gives the outcomes.
LEMMA FollowsExists ==
  ASSUME NEW d, NEW r, NEW t, NEW n \in Nat
  PROVE  \E f : Follows(f, n, d, r, t)
  <1> DEFINE T == {m \in Nat : ~ \E f : Follows(f, m, d, r, t)}
  <1> SUFFICES T = {}
    OBVIOUS
  <1> SUFFICES ASSUME T # {}
               PROVE  FALSE
    OBVIOUS
  <1>1. T \subseteq Nat
    OBVIOUS
  <1>2. PICK m \in T : \A k \in T : m <= k
    <2> HIDE DEF T
    <2> QED
      BY <1>1, LeastNumber
  <1>3. m \in Nat /\ m # 0
    BY <1>1, <1>2, FollowsZero
  <1>4. m - 1 \in Nat /\ ~ (m <= m - 1)
    BY <1>3
  <1>5. PICK f : Follows(f, m - 1, d, r, t)
    BY <1>2, <1>4
  <1>6. Follows(Extended(f, m, r, t), m, d, r, t)
    BY <1>3, <1>5, FollowsNext
  <1> QED
    BY <1>2, <1>6

\* The equation of the recursive definition.
LEMMA OutcomesDefined ==
  ASSUME NEW d, NEW r, NEW t, Len(r.items) \in Nat
  PROVE  Follows(Outcomes(d, r, t), Len(r.items), d, r, t)
  <1> DEFINE n == Len(r.items)
  <1>1. Outcomes(d, r, t) = CHOOSE f : Follows(f, n, d, r, t)
    BY DEF Outcomes, Follows
  <1>2. \E f : Follows(f, n, d, r, t)
    BY FollowsExists
  <1> HIDE DEF n
  <1> QED
    BY <1>1, <1>2 DEF n

\* Before the first item nothing has happened.
LEMMA OutcomesStart ==
  ASSUME NEW d, NEW r, NEW t, Len(r.items) \in Nat
  PROVE  Outcomes(d, r, t)[0] = Outcome(d, Done)
  BY OutcomesDefined DEF Follows

\* Each item works on what the items before it have made.
LEMMA OutcomesStep ==
  ASSUME NEW d, NEW r, NEW t, Len(r.items) \in Nat, NEW j \in 1..Len(r.items)
  PROVE  Outcomes(d, r, t)[j] = AfterItem(Outcomes(d, r, t)[j - 1], r, j, t)
  BY OutcomesDefined DEF Follows

\* What holds of the graph at the start, and is kept by every item of the
\* call, holds of the graph after each item: G is any set of graphs.
LEMMA ItemsStayIn ==
  ASSUME NEW G, NEW d \in G, NEW r, NEW t, Len(r.items) \in Nat,
         \A e \in G, j \in 1..Len(r.items) : ItemOutcome(e, r.op, r.items[j], t).graph \in G
  PROVE  \A m \in 0..Len(r.items) : Outcomes(d, r, t)[m].graph \in G
  <1> DEFINE n == Len(r.items)
             o == Outcomes(d, r, t)
             T == {m \in Nat : m <= n /\ o[m].graph \notin G}
  <1>1. T = {}
    <2> SUFFICES ASSUME T # {}
                 PROVE  FALSE
      OBVIOUS
    <2>1. T \subseteq Nat
      OBVIOUS
    <2>2. PICK m \in T : \A k \in T : m <= k
      <3> HIDE DEF T
      <3> QED
        BY <2>1, LeastNumber
    <2>3. m \in Nat /\ m <= n /\ o[m].graph \notin G
      OBVIOUS
    <2>4. m # 0
      <3>1. o[0] = Outcome(d, Done)
        BY OutcomesStart
      <3> HIDE DEF o
      <3>2. o[0].graph \in G
        BY <3>1 DEF Outcome
      <3> QED
        BY <2>3, <3>2
    <2>5. m \in 1..n /\ m - 1 \in Nat /\ m - 1 <= n /\ ~ (m <= m - 1)
      BY <2>3, <2>4
    <2>6. o[m - 1].graph \in G
      BY <2>2, <2>5
    <2>7. o[m] = AfterItem(o[m - 1], r, m, t)
      BY <2>5, OutcomesStep
    <2>8. o[m].graph \in G
      <3> HIDE DEF o
      <3> QED
        BY <2>5, <2>6, <2>7 DEF AfterItem
    <2> QED
      BY <2>3, <2>8
  <1> QED
    BY <1>1

\* So it holds of the graph the call leaves.
LEMMA CallStaysIn ==
  ASSUME NEW G, NEW d \in G, NEW r, NEW t, Len(r.items) \in Nat,
         \A e \in G, j \in 1..Len(r.items) : ItemOutcome(e, r.op, r.items[j], t).graph \in G
  PROVE  RequestOutcome(d, r, t).graph \in G
  <1> DEFINE n == Len(r.items)
             o == Outcomes(d, r, t)
  <1>2. o[n].graph \in G
    BY ItemsStayIn
  <1>3. \/ RequestOutcome(d, r, t) = o[n]
        \/ RequestOutcome(d, r, t) = Outcome(d, o[n].answer)
    BY DEF RequestOutcome
  <1> HIDE DEF o, n
  <1> QED
    BY <1>2, <1>3 DEF Outcome

\* What an item makes of a graph, operation by operation.
LEMMA ItemOutcomes ==
  ASSUME NEW d, NEW i, NEW t
  PROVE  /\ ItemOutcome(d, "create_entities", i, t) =
              Outcome(CreateEntity(d, i, t), Done)
         /\ ItemOutcome(d, "add_observations", i, t) =
              Attempt(CanObserve(d, Norm[i.name], i.contents), d,
                      Observe(d, Norm[i.name], i.contents, i.limit, t))
         /\ ItemOutcome(d, "create_relations", i, t) =
              Attempt(CanRelate(d, i), d, CreateRelation(d, i))
         /\ ItemOutcome(d, "delete_entities", i, t) =
              Outcome(DeleteEntity(d, i), Done)
         /\ ItemOutcome(d, "delete_observations", i, t) =
              Outcome(DeleteObservations(d, i, t), Done)
         /\ ItemOutcome(d, "delete_observation_by_id", i, t) =
              Outcome(DeleteObservationById(d, i, t), Done)
         /\ ItemOutcome(d, "update_observation_by_id", i, t) =
              Outcome(UpdateObservationById(d, i, t), Done)
         /\ ItemOutcome(d, "update_observation", i, t) =
              Outcome(UpdateObservation(d, i, t), Done)
         /\ ItemOutcome(d, "delete_relations", i, t) =
              Outcome(DeleteRelation(d, i), Done)
         /\ ItemOutcome(d, "truth_upsert", i, t) =
              Attempt(Norm[i.name] \in Live(d), d, TruthUpsert(d, i, t))
         /\ ItemOutcome(d, "truth_delete", i, t) =
              Outcome(TruthDelete(d, i, t), Done)
         /\ ItemOutcome(d, "update", i, t) =
              UpdateOutcome(d, i, t)
         /\ ItemOutcome(d, "dispatch", i, t) =
              DispatchOutcome(d, i, t)
         /\ ItemOutcome(d, "claim_next", i, t) =
              ClaimOutcome(d, i, t)
         /\ ItemOutcome(d, "purge", i, t) =
              Outcome(IF i.apply THEN Purge(d, i.days, t) ELSE d, Done)
         /\ ItemOutcome(d, "reset", i, t) =
              Outcome(Reset(d), Done)
  BY DEF ItemOutcome

\* The answers that are no refusal.
LEMMA Accepted ==
  /\ Done \notin Refusals /\ Nothing \notin Refusals /\ NoAnswer \notin Refusals
  /\ {Failed, NotFound, Invalid} \subseteq Refusals
  /\ \A values : /\ Answer("claimed", values) \notin Refusals
                 /\ Answer("status", values) \notin Refusals
  BY DEF Refusals, Done, Nothing, NoAnswer, Failed, Invalid, NotFound, Answer

\* The task "ORDER BY name LIMIT 1" finds is the only least one.
LEMMA FirstIsLeast ==
  ASSUME NEW S, S \subseteq Names, S # {}
  PROVE  Least(S) = {First(S)}
  <1> DEFINE ranks == {NameRank[n] : n \in S}
  <1>1. \A n \in Names : NameRank[n] \in Nat
    BY NamesAssumption
  <1>2. ranks \subseteq Nat /\ ranks # {}
    BY <1>1
  <1>3. PICK m \in ranks : \A k \in ranks : m <= k
    <2> HIDE DEF ranks
    <2> QED
      BY <1>2, LeastNumber
  <1>4. PICK n \in S : NameRank[n] = m
    OBVIOUS
  <1>5. \A x \in S : NameRank[n] <= NameRank[x]
    BY <1>3, <1>4
  <1>6. First(S) \in S /\ \A x \in S : NameRank[First(S)] <= NameRank[x]
    BY <1>5 DEF First
  <1>7. ASSUME NEW x \in Least(S)
        PROVE  x = First(S)
    <2>1. x \in S /\ NameRank[x] <= NameRank[First(S)] /\ NameRank[First(S)] <= NameRank[x]
      BY <1>6, <1>7 DEF Least
    <2> QED
      BY <1>1, <1>6, <2>1, NamesAssumption
  <1> QED
    BY <1>6, <1>7 DEF Least

\* The parts of an outcome.
LEMMA OutcomeParts ==
  ASSUME NEW d, NEW answer
  PROVE  Outcome(d, answer).graph = d /\ Outcome(d, answer).answer = answer
  BY DEF Outcome

\* A call about one thing does what its item does, unless that is refused.
LEMMA SingleOutcome ==
  ASSUME NEW d, NEW r, NEW t, Len(r.items) = 1
  PROVE  LET o == ItemOutcome(d, r.op, r.items[1], t)
         IN  RequestOutcome(d, r, t) = IF o.answer \in Refusals THEN Outcome(d, o.answer) ELSE o
  <1> DEFINE o == ItemOutcome(d, r.op, r.items[1], t)
  <1>1. Outcomes(d, r, t)[0] = Outcome(d, Done)
    BY OutcomesStart
  <1>2. Outcomes(d, r, t)[1] = AfterItem(Outcome(d, Done), r, 1, t)
    <2>1. 1 \in 1..Len(r.items) /\ 1 - 1 = 0
      OBVIOUS
    <2> QED
      BY <1>1, <2>1, OutcomesStep
  <1>3. Outcomes(d, r, t)[1] = o
    BY <1>2, OutcomeParts, Accepted DEF AfterItem
  <1> HIDE DEF o
  <1>4. RequestOutcome(d, r, t) = IF o.answer \in Refusals THEN Outcome(d, o.answer) ELSE o
    BY <1>3 DEF RequestOutcome
  <1> QED
    BY <1>4 DEF o

----------------------------------------------------------------------------
(* Claims. *)

ClaimOps == {"dispatch", "claim_next"}

Moved(d, e, n, agent) ==
    /\ StatusOf(d, n) = Ready
    /\ StatusOf(e, n) = Dispatched
    /\ e.truth[n]["claimed_by"] = agent

\* What an update answers.
LEMMA UpdateAnswers ==
  ASSUME NEW d, NEW i, NEW t
  PROVE  \/ UpdateOutcome(d, i, t).answer \in {NotFound, Invalid}
         \/ \E v : UpdateOutcome(d, i, t).answer = Answer("status", v)
  <1> DEFINE v == {IF i.status = Null THEN StatusOf(d, Norm[i.name]) ELSE i.status} \ {""}
             e == UpdateTask(d, i, t)
  <1>1. UpdateOutcome(d, i, t) \in
          {Outcome(d, NotFound), Outcome(d, Invalid), Outcome(e, Answer("status", v))}
    BY DEF UpdateOutcome
  <1> HIDE DEF v, e
  <1> QED
    BY <1>1, OutcomeParts

\* Only a dispatch or a claim answers that it has claimed a task.
LEMMA OnlyClaimsClaim ==
  ASSUME NEW d, NEW r, NEW t, Len(r.items) \in Nat, r.op \in Operations \ {"sweep"},
         NEW values, RequestOutcome(d, r, t).answer = Answer("claimed", values)
  PROVE  r.op \in ClaimOps
  <1> DEFINE n == Len(r.items)
             o == Outcomes(d, r, t)
  <1>1. o[n].answer = Answer("claimed", values)
    <2>1. RequestOutcome(d, r, t) = IF o[n].answer \in Refusals THEN Outcome(d, o[n].answer) ELSE o[n]
      BY DEF RequestOutcome
    <2> HIDE DEF o, n
    <2> QED
      BY <2>1, OutcomeParts
  <1>2. n # 0
    <2>1. o[0] = Outcome(d, Done)
      BY OutcomesStart
    <2>2. Done # Answer("claimed", values)
      BY DEF Done, Answer
    <2> HIDE DEF o, n
    <2> QED
      BY <1>1, <2>1, <2>2, OutcomeParts
  <1>3. o[n] = AfterItem(o[n - 1], r, n, t)
    <2>1. n \in 1..Len(r.items)
      BY <1>2
    <2> QED
      BY <2>1, OutcomesStep
  <1>4. \E e : ItemOutcome(e, r.op, r.items[n], t).answer = Answer("claimed", values)
    <2> HIDE DEF o
    <2> QED
      BY <1>1, <1>3, Accepted DEF AfterItem
  <1>5. PICK e : ItemOutcome(e, r.op, r.items[n], t).answer = Answer("claimed", values)
    BY <1>4
  <1>6. ASSUME r.op \notin ClaimOps
        PROVE  FALSE
    <2> DEFINE answer == ItemOutcome(e, r.op, r.items[n], t).answer
    <2>1. \/ answer \in {Done, Failed, NotFound, Invalid}
          \/ \E v : answer = Answer("status", v)
      <3>1. CASE r.op \in {"add_observations", "create_relations", "truth_upsert"}
        BY <3>1, ItemOutcomes, OutcomeParts DEF Attempt
      <3>2. CASE r.op = "update"
        BY <3>2, ItemOutcomes, UpdateAnswers
      <3>3. CASE r.op \notin {"add_observations", "create_relations", "truth_upsert", "update"}
        BY <1>6, <3>3, ItemOutcomes, OutcomeParts
           DEF Operations, GraphOperations, TaskOperations, ClaimOps
      <3> QED
        BY <3>1, <3>2, <3>3
    <2>2. answer = Answer("claimed", values)
      BY <1>5
    <2> HIDE DEF answer
    <2>3. /\ answer \notin {Done, Failed, NotFound, Invalid}
          /\ \A v : answer # Answer("status", v)
      BY <2>2 DEF Done, Failed, NotFound, Invalid, Answer
    <2> QED
      BY <2>1, <2>3
  <1> QED
    BY <1>6

\* A ready task exists, and its name is stored.
LEMMA ReadyIsLive ==
  ASSUME NEW d, Consistent(d), NEW n \in Names, d.truth[n]["status"] = Ready
  PROVE  n \in Live(d)
  <1>1. "status" \in Keys /\ Ready # Null
    BY OpsAssumption, ColumnsAssumption DEF TaskStatuses
  <1> QED
    BY <1>1 DEF Consistent, ReferentialIntegrity

\* A claim moves its task, in the view it is made in.
LEMMA ClaimMoves ==
  ASSUME NEW d, Consistent(d), NEW n \in Names, d.truth[n]["status"] = Ready,
         NEW agent \in Agents, NEW t \in Nat
  PROVE  Moved(d, Claim(d, n, agent, t), n, agent)
  <1> DEFINE e == SetTruth(d, n, "status", Dispatched, t)
             f == SetTruth(e, n, "claimed_by", agent, t)
  <1>1. /\ Ready # Null /\ Dispatched # Null
        /\ "status" \in Keys /\ "claimed_by" \in Keys
    BY OpsAssumption, ColumnsAssumption DEF TaskStatuses
  <1>2. d \in Databases /\ d.truth \in [Names -> [Keys -> Values \cup {Null}]]
    BY Columns DEF Consistent
  <1>3. e.truth = [d.truth EXCEPT ![n]["status"] = Dispatched]
    BY <1>2 DEF SetTruth, Databases
  <1>4. f.truth = [e.truth EXCEPT ![n]["claimed_by"] = agent]
    BY <1>2 DEF SetTruth, Databases
  <1>5. f.truth[n]["status"] = Dispatched /\ f.truth[n]["claimed_by"] = agent
    <2> HIDE DEF e, f
    <2> QED
      BY <1>1, <1>2, <1>3, <1>4
  <1>6. StatusOf(d, n) = Ready
    BY <1>1 DEF StatusOf
  <1> HIDE DEF e, f
  <1>7. StatusOf(f, n) = Dispatched
    BY <1>1, <1>5 DEF StatusOf
  <1> QED
    BY <1>5, <1>6, <1>7 DEF Moved, Claim, e, f

\* A dispatch of a ready task leaves it dispatched to the agent.
LEMMA DispatchMoves ==
  ASSUME NEW d, Consistent(d), NEW n \in Names, d.truth[n]["status"] = Ready,
         NEW i \in ItemsOf("dispatch"), NEW t \in Nat
  PROVE  Moved(d, DispatchTo(d, n, i, t), n, i.agent)
  <1> DEFINE e == Claim(d, n, i.agent, t)
             note == <<DispatchNote[i.agent]>>
  <1>1. i.agent \in Agents /\ note \in Seq(Contents) /\ n \in Live(d)
    BY OpsAssumption, ReadyIsLive DEF ItemsOf
  <1>2. Moved(d, e, n, i.agent)
    BY <1>1, ClaimMoves
  <1>3. Consistent(e) /\ n \in Live(e)
    BY <1>1, ClaimSound DEF Sound, Live
  <1>4. Observe(e, n, note, i.limit, t).truth = e.truth
    <2> HIDE DEF e, note
    <2> QED
      BY <1>1, <1>3, ObserveSound DEF CanObserve
  <1> HIDE DEF e
  <1> QED
    BY <1>2, <1>4 DEF Moved, StatusOf, DispatchTo, e

\* A status column that is Ready, and StatusOf that is.
LEMMA ReadyStatus ==
  ASSUME NEW d, NEW n
  PROVE  d.truth[n]["status"] = Ready <=> StatusOf(d, n) = Ready
  BY OpsAssumption, ColumnsAssumption DEF StatusOf, Ready, TaskStatuses

\* A claim that is granted moves its task to the claimant.
LEMMA GrantedClaimMoves ==
  ASSUME NEW d, Consistent(d), NEW op \in ClaimOps, NEW i \in ItemsOf(op), NEW t \in Nat,
         NEW n \in Names, ItemOutcome(d, op, i, t).answer = Answer("claimed", {n})
  PROVE  Moved(d, ItemOutcome(d, op, i, t).graph, n, i.agent)
  <1>0. Answer("claimed", {n}) # Nothing
    BY DEF Nothing, Answer
  <1>1. \A m : Answer("claimed", {m}) = Answer("claimed", {n}) => m = n
    <2> TAKE m
    <2>1. Answer("claimed", {m}) = Answer("claimed", {n}) => {m} = {n}
      BY DEF Answer
    <2> QED
      BY <2>1
  <1>2. CASE op = "claim_next"
    <2> DEFINE m == First(ReadyTasks(d))
    <2>1. ItemOutcome(d, op, i, t) = ClaimOutcome(d, i, t)
      BY <1>2, ItemOutcomes
    <2>2. /\ ReadyTasks(d) # {}
          /\ ItemOutcome(d, op, i, t) = Outcome(Claim(d, m, i.agent, t), Answer("claimed", {m}))
      BY <1>0, <2>1, OutcomeParts DEF ClaimOutcome
    <2>3. m \in ReadyTasks(d)
      BY <2>2, FirstIsLeast DEF ReadyTasks, Tasks, Least
    <2> HIDE DEF m
    <2>4. m = n
      <3>1. ItemOutcome(d, op, i, t).answer = Answer("claimed", {m})
        BY <2>2, OutcomeParts
      <3> QED
        BY <1>1, <3>1
    <2>5. d.truth[n]["status"] = Ready /\ i.agent \in Agents
      BY <1>2, <2>3, <2>4 DEF ReadyTasks, ItemsOf
    <2> QED
      BY <2>2, <2>4, <2>5, ClaimMoves, OutcomeParts
  <1>3. CASE op = "dispatch"
    <2> DEFINE m == IF i.name # Null THEN Norm[i.name] ELSE First(ReadyTasks(d))
    <2>1. ItemOutcome(d, op, i, t) = DispatchOutcome(d, i, t)
      BY <1>3, ItemOutcomes
    <2>2. /\ StatusOf(d, m) = Ready
          /\ ItemOutcome(d, op, i, t) = Outcome(DispatchTo(d, m, i, t), Answer("claimed", {m}))
      BY <1>0, <2>1, OutcomeParts DEF DispatchOutcome
    <2> HIDE DEF m
    <2>3. m = n
      <3>1. ItemOutcome(d, op, i, t).answer = Answer("claimed", {m})
        BY <2>2, OutcomeParts
      <3> QED
        BY <1>1, <3>1
    <2>4. d.truth[n]["status"] = Ready
      BY <2>2, <2>3, ReadyStatus
    <2> QED
      BY <1>3, <2>2, <2>3, <2>4, DispatchMoves, OutcomeParts
  <1> QED
    BY <1>2, <1>3 DEF ClaimOps

----------------------------------------------------------------------------
(* What every item respects. *)

\* A ready task exists, and its name is stored.
LEMMA ReadyStatusIsLive ==
  ASSUME NEW d, Consistent(d), NEW n \in Names, StatusOf(d, n) = Ready
  PROVE  n \in Live(d)
  BY ReadyStatus, ReadyIsLive

\* Every item of every operation is sound.
LEMMA ItemSound ==
  ASSUME NEW d, Consistent(d), NEW op \in Operations \ {"sweep"}, NEW i \in ItemsOf(op), NEW t \in Nat
  PROVE  Sound(d, ItemOutcome(d, op, i, t).graph, t)
  <1>0. Sound(d, d, t)
    BY SoundRefl
  <1> DEFINE Goal == Sound(d, ItemOutcome(d, op, i, t).graph, t)
  <1>a. ASSUME NEW e, NEW answer, ItemOutcome(d, op, i, t) = Outcome(e, answer), Sound(d, e, t)
        PROVE  Goal
    BY <1>a, OutcomeParts
  <1>b. ASSUME NEW possible \in BOOLEAN, NEW e, ItemOutcome(d, op, i, t) = Attempt(possible, d, e),
               possible => Sound(d, e, t)
        PROVE  Goal
    BY <1>0, <1>a, <1>b DEF Attempt
  <1> SUFFICES Goal
    OBVIOUS
  <1> HIDE DEF Goal
  <1>1. CASE op = "create_entities"
    BY <1>1, <1>a, CreateEntitySound, ItemOutcomes
  <1>2. CASE op = "add_observations"
    <2>1. i.contents \in Seq(Contents) /\ Norm[i.name] \in Names
      BY <1>2, OpsAssumption DEF ItemsOf
    <2>2. CanObserve(d, Norm[i.name], i.contents) \in BOOLEAN
      BY DEF CanObserve
    <2>3. CanObserve(d, Norm[i.name], i.contents)
            => Sound(d, Observe(d, Norm[i.name], i.contents, i.limit, t), t)
      BY <2>1, ObserveSound
    <2> QED
      BY <1>2, <1>b, <2>2, <2>3, ItemOutcomes
  <1>3. CASE op = "create_relations"
    <2>1. i \in RelationItems
      BY <1>3 DEF ItemsOf
    <2>2. CanRelate(d, i) \in BOOLEAN
      BY DEF CanRelate
    <2> QED
      BY <1>3, <1>b, <2>1, <2>2, CreateRelationSound, ItemOutcomes
  <1>4. CASE op = "delete_entities"
    BY <1>4, <1>a, DeleteEntitySound, ItemOutcomes
  <1>5. CASE op = "delete_observations"
    BY <1>5, <1>a, DeleteObservationsSound, ItemOutcomes
  <1>6. CASE op = "delete_observation_by_id"
    BY <1>6, <1>a, DeleteObservationByIdSound, ItemOutcomes
  <1>7. CASE op = "update_observation_by_id"
    BY <1>7, <1>a, UpdateObservationByIdSound, ItemOutcomes
  <1>8. CASE op = "update_observation"
    BY <1>8, <1>a, UpdateObservationSound, ItemOutcomes
  <1>9. CASE op = "delete_relations"
    <2>1. i \in RelationItems
      BY <1>9 DEF ItemsOf
    <2> QED
      BY <1>9, <1>a, <2>1, DeleteRelationSound, ItemOutcomes
  <1>10. CASE op = "truth_upsert"
    <2>1. ItemOutcome(d, op, i, t) = Attempt(Norm[i.name] \in Live(d), d, TruthUpsert(d, i, t))
      BY <1>10, ItemOutcomes
    <2>2. Norm[i.name] \in Live(d) => Sound(d, TruthUpsert(d, i, t), t)
      BY <1>10, TruthUpsertSound
    <2> QED
      BY <1>0, <1>a, <2>1, <2>2 DEF Attempt
  <1>11. CASE op = "truth_delete"
    BY <1>11, <1>a, TruthDeleteSound, ItemOutcomes
  <1>12. CASE op = "update"
    <2>1. ItemOutcome(d, op, i, t) = UpdateOutcome(d, i, t)
      BY <1>12, ItemOutcomes
    <2>2. \/ \E answer : UpdateOutcome(d, i, t) = Outcome(d, answer)
          \/ /\ Norm[i.name] \in Live(d)
             /\ \E answer : UpdateOutcome(d, i, t) = Outcome(UpdateTask(d, i, t), answer)
      BY DEF UpdateOutcome
    <2> QED
      BY <1>0, <1>12, <1>a, <2>1, <2>2, UpdateTaskSound
  <1>13. CASE op = "dispatch"
    <2>1. ItemOutcome(d, op, i, t) = DispatchOutcome(d, i, t)
      BY <1>13, ItemOutcomes
    <2> DEFINE n == IF i.name # Null THEN Norm[i.name] ELSE First(ReadyTasks(d))
               none == i.name = Null /\ ReadyTasks(d) = {}
    <2>2. DispatchOutcome(d, i, t) =
             IF none \/ StatusOf(d, n) # Ready
             THEN Outcome(d, Nothing)
             ELSE Outcome(DispatchTo(d, n, i, t), Answer("claimed", {n}))
      BY DEF DispatchOutcome
    <2>3. ~none => n \in Names
      <3>1. CASE i.name # Null
        <4>1. i.name \in Spellings
          BY <1>13, <3>1 DEF ItemsOf
        <4> QED
          BY <3>1, <4>1, OpsAssumption
      <3>2. CASE i.name = Null /\ ReadyTasks(d) # {}
        <4>1. First(ReadyTasks(d)) \in ReadyTasks(d)
          BY <3>2, FirstIsLeast DEF ReadyTasks, Tasks, Least
        <4> QED
          BY <3>2, <4>1 DEF ReadyTasks, Tasks
      <3> QED
        BY <3>1, <3>2
    <2> HIDE DEF n, none
    <2>4. CASE none \/ StatusOf(d, n) # Ready
      BY <1>0, <1>a, <2>1, <2>2, <2>4
    <2>5. CASE ~none /\ StatusOf(d, n) = Ready
      <3>1. Sound(d, DispatchTo(d, n, i, t), t)
        BY <1>13, <2>3, <2>5, ReadyStatusIsLive, DispatchToSound
      <3> QED
        BY <1>a, <2>1, <2>2, <2>5, <3>1
    <2> QED
      BY <2>4, <2>5
  <1>14. CASE op = "claim_next"
    <2> DEFINE n == First(ReadyTasks(d))
    <2>1. ItemOutcome(d, op, i, t) = ClaimOutcome(d, i, t)
      BY <1>14, ItemOutcomes
    <2>2. CASE ReadyTasks(d) = {}
      BY <1>0, <1>a, <2>1, <2>2 DEF ClaimOutcome
    <2>3. CASE ReadyTasks(d) # {}
      <3>1. n \in ReadyTasks(d)
        BY <2>3, FirstIsLeast DEF ReadyTasks, Tasks, Least
      <3>2. n \in Names /\ d.truth[n]["status"] = Ready /\ i.agent \in Agents
        BY <1>14, <3>1 DEF ReadyTasks, Tasks, ItemsOf
      <3>3. ItemOutcome(d, op, i, t) = Outcome(Claim(d, n, i.agent, t), Answer("claimed", {n}))
        BY <2>1, <2>3 DEF ClaimOutcome
      <3> HIDE DEF n
      <3> QED
        BY <1>a, <3>2, <3>3, ReadyIsLive, ClaimSound
    <2> QED
      BY <2>2, <2>3
  <1>15. CASE op = "purge"
    <2>1. Sound(d, IF i.apply THEN Purge(d, i.days, t) ELSE d, t)
      BY <1>0, PurgeSound
    <2> QED
      BY <1>15, <1>a, <2>1, ItemOutcomes
  <1>16. CASE op = "reset"
    BY <1>16, <1>a, ResetSound, ItemOutcomes
  <1> QED
    BY <1>1, <1>2, <1>3, <1>4, <1>5, <1>6, <1>7, <1>8, <1>9, <1>10, <1>11, <1>12, <1>13, <1>14,
       <1>15, <1>16 DEF Operations, GraphOperations, TaskOperations

----------------------------------------------------------------------------
(* Statuses. *)

\* The truth ABANDONED, and the status.
LEMMA AbandonedTruth ==
  ASSUME NEW d, NEW n
  PROVE  d.truth[n]["status"] = Abandoned <=> StatusOf(d, n) = Abandoned
  BY OpsAssumption, ColumnsAssumption DEF StatusOf, Abandoned, TerminalStatuses

\* What the statements make of a status.
LEMMA StatusKept ==
  ASSUME NEW d \in Databases, NEW n, NEW m, NEW contents, NEW rows, NEW cap, NEW t, NEW rel
  PROVE  /\ InsertEntity(d, m, contents, t).truth = d.truth
         /\ DeleteObs(d, rows, t).truth = d.truth
         /\ UpdateObs(d, rows, contents, t).truth = d.truth
         /\ [d EXCEPT !.rel = rel].truth = d.truth
  BY DEF InsertEntity, DeleteObs, UpdateObs, Databases

LEMMA StatusSet ==
  ASSUME NEW d \in Databases, NEW n \in Names, NEW m, NEW k, NEW v, NEW t
  PROVE  SetTruth(d, m, k, v, t).truth[n]["status"] =
           IF m = n /\ k = "status" THEN v ELSE d.truth[n]["status"]
  <1>1. SetTruth(d, m, k, v, t).truth = [d.truth EXCEPT ![m][k] = v]
    BY DEF SetTruth, Databases
  <1>2. d.truth \in [Names -> [Keys -> Values \cup {Null}]] /\ "status" \in Keys
    BY Columns, ColumnsAssumption
  <1> QED
    BY <1>1, <1>2

LEMMA StatusGone ==
  ASSUME NEW d \in Databases, NEW n \in Names, NEW m, NEW k, NEW t, NEW gone
  PROVE  /\ DropTruth(d, m, k, t).truth[n]["status"] \in {Null, d.truth[n]["status"]}
         /\ DeleteEntities(d, gone).truth[n]["status"] \in {Null, d.truth[n]["status"]}
         /\ Reset(d).truth[n]["status"] = Null
  <1>0. d.truth \in [Names -> [Keys -> Values \cup {Null}]] /\ "status" \in Keys
    BY Columns, ColumnsAssumption
  <1>1. \/ DropTruth(d, m, k, t).truth = d.truth
        \/ DropTruth(d, m, k, t).truth = [d.truth EXCEPT ![m][k] = Null]
    <2>1. DropTruth(d, m, k, t) = d \/ DropTruth(d, m, k, t).truth = [d.truth EXCEPT ![m][k] = Null]
      BY DEF DropTruth, Databases
    <2> QED
      BY <2>1
  <1>2. DeleteEntities(d, gone).truth =
          [x \in Names |-> IF x \in gone THEN [y \in Keys |-> Null] ELSE d.truth[x]]
    BY DEF DeleteEntities, Databases
  <1>3. Reset(d).truth = [x \in Names |-> [y \in Keys |-> Null]]
    BY DEF Reset, EmptyDatabase
  <1>4. DropTruth(d, m, k, t).truth[n]["status"] \in {Null, d.truth[n]["status"]}
    BY <1>0, <1>1
  <1> QED
    BY <1>0, <1>2, <1>3, <1>4

\* What a claim and a dispatch make of it.
LEMMA StatusClaimed ==
  ASSUME NEW d, Consistent(d), NEW m \in Live(d), NEW agent \in Agents, NEW t \in Nat, NEW n \in Names
  PROVE  Claim(d, m, agent, t).truth[n]["status"] \in {Dispatched, d.truth[n]["status"]}
  <1> DEFINE e == SetTruth(d, m, "status", Dispatched, t)
  <1>1. d \in Databases /\ "status" \in Keys /\ Dispatched \in Values
    BY OpsAssumption, ColumnsAssumption DEF Consistent, TaskStatuses
  <1>2. e \in Databases
    <2>1. Consistent(e)
      BY <1>1, SetTruthConsistent
    <2> QED
      BY <2>1 DEF Consistent
  <1>3. e.truth[n]["status"] \in {Dispatched, d.truth[n]["status"]}
    BY <1>1, StatusSet
  <1> HIDE DEF e
  <1>4. SetTruth(e, m, "claimed_by", agent, t).truth[n]["status"] = e.truth[n]["status"]
    BY <1>2, StatusSet
  <1> QED
    BY <1>3, <1>4 DEF Claim, e

LEMMA StatusDispatched ==
  ASSUME NEW d, Consistent(d), NEW m \in Live(d), NEW i \in ItemsOf("dispatch"), NEW t \in Nat,
         NEW n \in Names
  PROVE  DispatchTo(d, m, i, t).truth[n]["status"] \in {Dispatched, d.truth[n]["status"]}
  <1> DEFINE e == Claim(d, m, i.agent, t)
             note == <<DispatchNote[i.agent]>>
  <1>1. i.agent \in Agents /\ note \in Seq(Contents) /\ m \in Names
    BY OpsAssumption DEF ItemsOf, Live
  <1>2. e.truth[n]["status"] \in {Dispatched, d.truth[n]["status"]}
    BY <1>1, StatusClaimed
  <1>3. Consistent(e) /\ m \in Live(e)
    BY <1>1, ClaimSound DEF Sound, Live
  <1>4. Observe(e, m, note, i.limit, t).truth = e.truth
    <2> HIDE DEF e, note
    <2> QED
      BY <1>1, <1>3, ObserveSound DEF CanObserve
  <1> HIDE DEF e
  <1> QED
    BY <1>2, <1>4 DEF DispatchTo, e

\* What an update makes of it.
LEMMA StatusUpdated ==
  ASSUME NEW d, Consistent(d), NEW i \in ItemsOf("update"), Norm[i.name] \in Live(d), NEW t \in Nat,
         NEW n \in Names
  PROVE  \/ UpdateTask(d, i, t).truth[n]["status"] = d.truth[n]["status"]
         \/ UpdateTask(d, i, t).truth[n]["status"] = i.status /\ i.status # Null
  <1> DEFINE m == Norm[i.name]
             e == IF i.notes = <<>> THEN d ELSE Observe(d, m, i.notes, i.limit, t)
  <1>1. i.notes \in Seq(Contents) /\ m \in Names
    BY DEF ItemsOf, Live
  <1>2. Consistent(e) /\ e.truth = d.truth
    BY <1>1, ObserveSound DEF Sound, CanObserve
  <1>3. UpdateTask(d, i, t) = IF i.status = Null THEN e ELSE SetTruth(e, m, "status", i.status, t)
    BY DEF UpdateTask
  <1> HIDE DEF e, m
  <1>4. e \in Databases
    BY <1>2 DEF Consistent
  <1> QED
    BY <1>2, <1>3, <1>4, StatusSet

\* An update moves no other task.
LEMMA UpdateElsewhere ==
  ASSUME NEW d, Consistent(d), NEW i \in ItemsOf("update"), Norm[i.name] \in Live(d), NEW t \in Nat,
         NEW n \in Names, n # Norm[i.name]
  PROVE  UpdateTask(d, i, t).truth[n]["status"] = d.truth[n]["status"]
  <1> DEFINE m == Norm[i.name]
             e == IF i.notes = <<>> THEN d ELSE Observe(d, m, i.notes, i.limit, t)
  <1>1. i.notes \in Seq(Contents) /\ m \in Names
    BY DEF ItemsOf, Live
  <1>2. Consistent(e) /\ e.truth = d.truth
    BY <1>1, ObserveSound DEF Sound, CanObserve
  <1>3. UpdateTask(d, i, t) = IF i.status = Null THEN e ELSE SetTruth(e, m, "status", i.status, t)
    BY DEF UpdateTask
  <1>4. n # m
    OBVIOUS
  <1> HIDE DEF e, m
  <1>5. e \in Databases
    BY <1>2 DEF Consistent
  <1> QED
    BY <1>2, <1>3, <1>4, <1>5, StatusSet

\* The task a dispatch is about.
LEMMA DispatchTarget ==
  ASSUME NEW d, NEW i \in ItemsOf("dispatch"), ~ (i.name = Null /\ ReadyTasks(d) = {})
  PROVE  (IF i.name # Null THEN Norm[i.name] ELSE First(ReadyTasks(d))) \in Names
  <1>1. CASE i.name # Null
    <2>1. i.name \in Spellings
      BY <1>1 DEF ItemsOf
    <2> QED
      BY <1>1, <2>1, OpsAssumption
  <1>2. CASE i.name = Null /\ ReadyTasks(d) # {}
    <2>1. First(ReadyTasks(d)) \in ReadyTasks(d)
      BY <1>2, FirstIsLeast DEF ReadyTasks, Tasks, Least
    <2> QED
      BY <1>2, <2>1 DEF ReadyTasks, Tasks
  <1> QED
    BY <1>1, <1>2

\* No status an update may set is ABANDONED.
LEMMA ValidStatus ==
  ASSUME NEW i, ~InvalidUpdate(i), i.status # Null
  PROVE  i.status # Abandoned
  <1>1. i.status \in TaskStatuses /\ BlockedStatuses \cap TerminalStatuses = {}
    BY OpsAssumption DEF InvalidUpdate
  <1> QED
    BY <1>1 DEF TaskStatuses, TerminalStatuses, Abandoned, Ready, Dispatched

\* Only somebody who writes that truth makes a task ABANDONED.
LEMMA ItemNeverAbandons ==
  ASSUME NEW d, Consistent(d), NEW op \in Operations \ {"sweep"}, NEW i \in ItemsOf(op), NEW t \in Nat,
         NEW n \in Names, op = "update" => ~InvalidUpdate(i),
         d.truth[n]["status"] # Abandoned,
         ItemOutcome(d, op, i, t).graph.truth[n]["status"] = Abandoned
  PROVE  op = "truth_upsert" /\ Norm[i.name] = n /\ i.key = "status" /\ i.value = Abandoned
  <1> DEFINE Goal == op = "truth_upsert" /\ Norm[i.name] = n /\ i.key = "status" /\ i.value = Abandoned
  <1>0. d \in Databases /\ Null # Abandoned /\ Dispatched # Abandoned
    BY ConsistentIsDatabase, OpsAssumption, ColumnsAssumption DEF TerminalStatuses, Abandoned, Dispatched
  <1>a. ASSUME NEW e, NEW answer, ItemOutcome(d, op, i, t) = Outcome(e, answer),
               \/ e = d
               \/ e.truth = d.truth
               \/ e.truth[n]["status"] \in {Null, Dispatched, d.truth[n]["status"]}
        PROVE  FALSE
    BY <1>0, <1>a, OutcomeParts
  <1>b. ASSUME NEW possible \in BOOLEAN, NEW e, ItemOutcome(d, op, i, t) = Attempt(possible, d, e),
               possible => e.truth = d.truth
        PROVE  FALSE
    BY <1>a, <1>b DEF Attempt
  <1> SUFFICES Goal
    OBVIOUS
  <1> HIDE DEF Goal
  <1>1. CASE op = "create_entities"
    <2> DEFINE e == InsertEntity(d, Norm[i.name], i.type, t)
    <2>1. \/ CreateEntity(d, i, t) = d
          \/ Norm[i.name] \notin Live(d) /\ CreateEntity(d, i, t) = InsertObs(e, Norm[i.name], i.contents, t)
      BY DEF CreateEntity
    <2>2. e \in Databases \/ Norm[i.name] \in Live(d)
      <3>1. Norm[i.name] \in Names /\ i.type \in Types
        BY <1>1, OpsAssumption DEF ItemsOf
      <3> QED
        BY <3>1, InsertEntityConsistent DEF Consistent
    <2>3. e.truth = d.truth
      BY <1>0, StatusKept
    <2> HIDE DEF e
    <2> QED
      BY <1>1, <1>a, <2>1, <2>2, <2>3, ObsOnly, ItemOutcomes
  <1>2. CASE op = "add_observations"
    <2>1. i.contents \in Seq(Contents) /\ Norm[i.name] \in Names
      BY <1>2, OpsAssumption DEF ItemsOf
    <2>2. CanObserve(d, Norm[i.name], i.contents) \in BOOLEAN
      BY DEF CanObserve
    <2>3. CanObserve(d, Norm[i.name], i.contents)
            => Observe(d, Norm[i.name], i.contents, i.limit, t).truth = d.truth
      BY <2>1, ObserveSound
    <2> QED
      BY <1>2, <1>b, <2>2, <2>3, ItemOutcomes
  <1>3. CASE op = "create_relations"
    <2>1. CreateRelation(d, i).truth = d.truth
      BY <1>0 DEF CreateRelation, Databases
    <2>2. CanRelate(d, i) \in BOOLEAN
      BY DEF CanRelate
    <2> QED
      BY <1>3, <1>b, <2>1, <2>2, ItemOutcomes
  <1>4. CASE op = "delete_entities"
    <2>1. DeleteEntity(d, i).truth[n]["status"] \in {Null, d.truth[n]["status"]}
      BY <1>0, StatusGone DEF DeleteEntity
    <2> QED
      BY <1>4, <1>a, <2>1, ItemOutcomes
  <1>5. CASE op \in {"delete_observations", "delete_observation_by_id",
                     "update_observation_by_id", "update_observation"}
    <2>1. /\ DeleteObservations(d, i, t).truth = d.truth
          /\ DeleteObservationById(d, i, t).truth = d.truth
      BY <1>0 DEF DeleteObservations, DeleteObservationById, DeleteObs, Databases
    <2>2. /\ UpdateObservationById(d, i, t).truth = d.truth
          /\ UpdateObservation(d, i, t).truth = d.truth
      BY <1>0, StatusKept DEF UpdateObservationById, UpdateObservation
    <2> QED
      BY <1>5, <1>a, <2>1, <2>2, ItemOutcomes
  <1>6. CASE op = "delete_relations"
    <2>1. DeleteRelation(d, i).truth = d.truth
      BY <1>0 DEF DeleteRelation, Databases
    <2> QED
      BY <1>6, <1>a, <2>1, ItemOutcomes
  <1>7. CASE op = "truth_upsert"
    <2>1. ItemOutcome(d, op, i, t) = Attempt(Norm[i.name] \in Live(d), d, TruthUpsert(d, i, t))
      BY <1>7, ItemOutcomes
    <2>2. ItemOutcome(d, op, i, t) = Outcome(TruthUpsert(d, i, t), Done)
      BY <1>a, <2>1 DEF Attempt
    <2>3. SetTruth(d, Norm[i.name], i.key, i.value, t).truth[n]["status"] =
            IF Norm[i.name] = n /\ i.key = "status" THEN i.value ELSE d.truth[n]["status"]
      BY <1>0, StatusSet
    <2> QED
      BY <1>7, <2>2, <2>3, OutcomeParts DEF TruthUpsert, Goal
  <1>8. CASE op = "truth_delete"
    BY <1>0, <1>8, <1>a, StatusGone, ItemOutcomes DEF TruthDelete
  <1>9. CASE op = "update"
    <2>1. ItemOutcome(d, op, i, t) = UpdateOutcome(d, i, t)
      BY <1>9, ItemOutcomes
    <2>2. \/ \E answer : UpdateOutcome(d, i, t) = Outcome(d, answer)
          \/ /\ Norm[i.name] \in Live(d)
             /\ \E answer : UpdateOutcome(d, i, t) = Outcome(UpdateTask(d, i, t), answer)
      BY DEF UpdateOutcome
    <2>3. PICK answer : /\ Norm[i.name] \in Live(d)
                        /\ ItemOutcome(d, op, i, t) = Outcome(UpdateTask(d, i, t), answer)
      BY <1>a, <2>1, <2>2
    <2>4. UpdateTask(d, i, t).truth[n]["status"] = i.status /\ i.status # Null
      BY <1>9, <1>a, <2>3, StatusUpdated
    <2> QED
      BY <1>9, <2>3, <2>4, OutcomeParts, ValidStatus
  <1>10. CASE op = "dispatch"
    <2> DEFINE m == IF i.name # Null THEN Norm[i.name] ELSE First(ReadyTasks(d))
               none == i.name = Null /\ ReadyTasks(d) = {}
    <2>1. ItemOutcome(d, op, i, t) =
             IF none \/ StatusOf(d, m) # Ready
             THEN Outcome(d, Nothing)
             ELSE Outcome(DispatchTo(d, m, i, t), Answer("claimed", {m}))
      <3>1. ItemOutcome(d, op, i, t) = DispatchOutcome(d, i, t)
        BY <1>10, ItemOutcomes
      <3> QED
        BY <3>1 DEF DispatchOutcome
    <2>2. ~none => m \in Names
      BY <1>10, DispatchTarget
    <2> HIDE DEF m, none
    <2>3. ~none /\ StatusOf(d, m) = Ready
      BY <1>a, <2>1
    <2>4. m \in Live(d)
      BY <2>2, <2>3, ReadyStatusIsLive
    <2>5. DispatchTo(d, m, i, t).truth[n]["status"] \in {Dispatched, d.truth[n]["status"]}
      BY <1>10, <2>4, StatusDispatched
    <2> QED
      BY <1>a, <2>1, <2>3, <2>5
  <1>11. CASE op = "claim_next"
    <2> DEFINE m == First(ReadyTasks(d))
    <2>1. ItemOutcome(d, op, i, t) = IF ReadyTasks(d) = {} THEN Outcome(d, Nothing)
                                     ELSE Outcome(Claim(d, m, i.agent, t), Answer("claimed", {m}))
      BY <1>11, ItemOutcomes DEF ClaimOutcome
    <2>2. ReadyTasks(d) # {}
      BY <1>a, <2>1
    <2>3. m \in ReadyTasks(d)
      BY <2>2, FirstIsLeast DEF ReadyTasks, Tasks, Least
    <2>4. m \in Live(d) /\ i.agent \in Agents
      BY <1>11, <2>3, ReadyIsLive DEF ReadyTasks, Tasks, ItemsOf
    <2> HIDE DEF m
    <2>5. Claim(d, m, i.agent, t).truth[n]["status"] \in {Dispatched, d.truth[n]["status"]}
      BY <2>4, StatusClaimed
    <2> QED
      BY <1>a, <2>1, <2>2, <2>5
  <1>12. CASE op = "purge"
    <2>1. ItemOutcome(d, op, i, t) = Outcome(IF i.apply THEN Purge(d, i.days, t) ELSE d, Done)
      BY <1>12, ItemOutcomes
    <2>2. Purge(d, i.days, t).truth[n]["status"] \in {Null, d.truth[n]["status"]}
      BY <1>0, StatusGone DEF Purge
    <2> QED
      BY <1>a, <2>1, <2>2
  <1>13. CASE op = "reset"
    BY <1>0, <1>13, <1>a, StatusGone, ItemOutcomes
  <1> QED
    BY <1>1, <1>2, <1>3, <1>4, <1>5, <1>6, <1>7, <1>8, <1>9, <1>10, <1>11, <1>12, <1>13
       DEF Operations, GraphOperations, TaskOperations

----------------------------------------------------------------------------
(* What every call respects. *)

\* The items of a request are what its operation takes.
LEMMA TypedItems ==
  ASSUME NEW r, r.items \in Seq(ItemsOf(r.op))
  PROVE  /\ Len(r.items) \in Nat /\ DOMAIN r.items = 1..Len(r.items)
         /\ \A j \in 1..Len(r.items) : r.items[j] \in ItemsOf(r.op)
  BY LenProperties, ElementOfSeq

\* A call on a consistent graph makes only consistent graphs.
LEMMA CallGraphs ==
  ASSUME NEW d, Consistent(d), NEW r, r.op \in Operations \ {"sweep"},
         r.items \in Seq(ItemsOf(r.op)), NEW t \in Nat
  PROVE  /\ \A m \in 0..Len(r.items) : Outcomes(d, r, t)[m].graph \in Databases
         /\ Consistent(RequestOutcome(d, r, t).graph)
  <1> DEFINE G == {e \in Databases : Consistent(e)}
  <1>1. d \in G
    BY ConsistentIsDatabase
  <1>2. ASSUME NEW e \in G, NEW j \in 1..Len(r.items)
        PROVE  ItemOutcome(e, r.op, r.items[j], t).graph \in G
    <2>1. Consistent(ItemOutcome(e, r.op, r.items[j], t).graph)
      BY <1>2, TypedItems, ItemSound DEF Sound
    <2> QED
      BY <2>1, ConsistentIsDatabase
  <1> HIDE DEF G
  <1>3. RequestOutcome(d, r, t).graph \in G
    BY <1>1, <1>2, TypedItems, CallStaysIn
  <1>4. \A m \in 0..Len(r.items) : Outcomes(d, r, t)[m].graph \in G
    BY <1>1, <1>2, TypedItems, ItemsStayIn
  <1> QED
    BY <1>3, <1>4 DEF G

LEMMA CallConsistent ==
  ASSUME NEW d, Consistent(d), NEW r, r.op \in Operations \ {"sweep"},
         r.items \in Seq(ItemsOf(r.op)), NEW t \in Nat
  PROVE  Consistent(RequestOutcome(d, r, t).graph)
  BY CallGraphs

\* A call makes a task ABANDONED only by writing that truth.
LEMMA CallNeverAbandons ==
  ASSUME NEW d, Consistent(d), NEW r, r.op \in Operations \ {"sweep"},
         r.items \in Seq(ItemsOf(r.op)), NEW t \in Nat, NEW n \in Names,
         r.op = "update" => \A j \in DOMAIN r.items : ~InvalidUpdate(r.items[j]),
         StatusOf(d, n) # Abandoned, StatusOf(RequestOutcome(d, r, t).graph, n) = Abandoned
  PROVE  /\ r.op = "truth_upsert"
         /\ \E i \in {r.items[j] : j \in DOMAIN r.items} :
              Norm[i.name] = n /\ i.key = "status" /\ i.value = Abandoned
  <1> DEFINE Written(i) == Norm[i.name] = n /\ i.key = "status" /\ i.value = Abandoned
             G == {e \in Databases : Consistent(e) /\ e.truth[n]["status"] # Abandoned}
  <1> SUFFICES ASSUME ~ (/\ r.op = "truth_upsert"
                         /\ \E i \in {r.items[j] : j \in DOMAIN r.items} : Written(i))
               PROVE  FALSE
    OBVIOUS
  <1>1. d \in G
    BY ConsistentIsDatabase, AbandonedTruth
  <1>2. ASSUME NEW e \in G, NEW j \in 1..Len(r.items)
        PROVE  ItemOutcome(e, r.op, r.items[j], t).graph \in G
    <2> DEFINE f == ItemOutcome(e, r.op, r.items[j], t).graph
    <2>1. /\ r.items[j] \in ItemsOf(r.op) /\ j \in DOMAIN r.items
          /\ Consistent(e) /\ e.truth[n]["status"] # Abandoned
      BY TypedItems
    <2>2. Consistent(f)
      BY <2>1, ItemSound DEF Sound
    <2>3. ~ (r.op = "truth_upsert" /\ Written(r.items[j]))
      BY <2>1
    <2>4. r.op = "update" => ~InvalidUpdate(r.items[j])
      BY <2>1
    <2>5. f.truth[n]["status"] # Abandoned
      BY <2>1, <2>3, <2>4, ItemNeverAbandons
    <2> HIDE DEF f
    <2> QED
      BY <2>2, <2>5, ConsistentIsDatabase DEF f
  <1> HIDE DEF G
  <1>3. RequestOutcome(d, r, t).graph \in G
    BY <1>1, <1>2, TypedItems, CallStaysIn
  <1> QED
    BY <1>3, AbandonedTruth DEF G

\* An item under a limit evicts the oldest observations, whatever a has lost
\* before.
LEMMA ItemEvicts ==
  ASSUME NEW a, Consistent(a), NEW d, Consistent(d), a.seq <= d.seq, NEW limit \in Nat,
         Evicted(a, d, limit), NEW op \in {"add_observations", "update"}, NEW i \in ItemsOf(op),
         i.limit = limit, NEW t \in Nat
  PROVE  Evicted(a, ItemOutcome(d, op, i, t).graph, limit)
  <1> DEFINE m == Norm[i.name]
  <1>1. CASE op = "add_observations"
    <2>1. m \in Names /\ i.contents \in Seq(Contents)
      BY <1>1, OpsAssumption DEF ItemsOf
    <2>2. CanObserve(d, m, i.contents) => Evicted(a, Observe(d, m, i.contents, limit, t), limit)
      BY <2>1, ObserveEvicts
    <2>3. ItemOutcome(d, op, i, t) =
            Attempt(CanObserve(d, m, i.contents), d, Observe(d, m, i.contents, limit, t))
      BY <1>1, ItemOutcomes
    <2> QED
      BY <2>2, <2>3, OutcomeParts DEF Attempt
  <1>2. CASE op = "update"
    <2> DEFINE e == IF i.notes = <<>> THEN d ELSE Observe(d, m, i.notes, limit, t)
    <2>1. m \in Names /\ i.notes \in Seq(Contents)
      BY <1>2, OpsAssumption DEF ItemsOf
    <2>2. m \in Live(d) => Evicted(a, e, limit) /\ e \in Databases
      <3>1. m \in Live(d) => Consistent(Observe(d, m, i.notes, limit, t))
        BY <2>1, ObserveSound DEF CanObserve, Sound
      <3> QED
        BY <2>1, <3>1, ObserveEvicts, ConsistentIsDatabase DEF CanObserve
    <2>3. UpdateTask(d, i, t) = IF i.status = Null THEN e ELSE SetTruth(e, m, "status", i.status, t)
      BY DEF UpdateTask
    <2>4. m \in Live(d) => Evicted(a, UpdateTask(d, i, t), limit)
      <3> HIDE DEF e, m
      <3>1. e \in Databases => SetTruth(e, m, "status", i.status, t).obs = e.obs
        BY SetTruthColumns
      <3>2. ASSUME NEW f, f.obs = e.obs, Evicted(a, e, limit)
            PROVE  Evicted(a, f, limit)
        BY <3>2 DEF Evicted, ObsOf
      <3> QED
        BY <2>2, <2>3, <3>1, <3>2
    <2>5. ItemOutcome(d, op, i, t) = UpdateOutcome(d, i, t)
      BY <1>2, ItemOutcomes
    <2>6. \/ \E answer : UpdateOutcome(d, i, t) = Outcome(d, answer)
          \/ m \in Live(d) /\ \E answer : UpdateOutcome(d, i, t) = Outcome(UpdateTask(d, i, t), answer)
      BY DEF UpdateOutcome
    <2> QED
      BY <2>4, <2>5, <2>6, OutcomeParts
  <1> QED
    BY <1>1, <1>2

\* A call that observes evicts the oldest observations only.
LEMMA CallEvicts ==
  ASSUME NEW d, Consistent(d), NEW r, r.op \in {"add_observations", "update"},
         r.items \in Seq(ItemsOf(r.op)), NEW t \in Nat, NEW limit \in Nat,
         \A j \in DOMAIN r.items : r.items[j].limit = limit
  PROVE  Evicted(d, RequestOutcome(d, r, t).graph, limit)
  <1> DEFINE G == {e \in Databases : Consistent(e) /\ d.seq <= e.seq /\ Evicted(d, e, limit)}
  <1>0. r.op \in Operations \ {"sweep"}
    BY DEF Operations, GraphOperations, TaskOperations
  <1>1. d \in G
    <2>1. d \in Databases /\ d.seq \in Nat
      BY ConsistentIsDatabase, Columns
    <2> QED
      BY <2>1 DEF Evicted
  <1>2. ASSUME NEW e \in G, NEW j \in 1..Len(r.items)
        PROVE  ItemOutcome(e, r.op, r.items[j], t).graph \in G
    <2> DEFINE f == ItemOutcome(e, r.op, r.items[j], t).graph
    <2>1. /\ r.items[j] \in ItemsOf(r.op) /\ r.items[j].limit = limit
          /\ Consistent(e) /\ d.seq <= e.seq /\ Evicted(d, e, limit)
      BY TypedItems
    <2>2. Consistent(f) /\ e.seq <= f.seq
      BY <1>0, <2>1, ItemSound DEF Sound, Evolves, IdsFresh
    <2>3. Evicted(d, f, limit)
      BY <2>1, ItemEvicts
    <2> HIDE DEF f
    <2>4. d.seq \in Nat /\ e.seq \in Nat /\ f.seq \in Nat
      BY <2>1, <2>2, ConsistentIsDatabase, Columns
    <2> QED
      BY <2>1, <2>2, <2>3, <2>4, ConsistentIsDatabase DEF f
  <1> HIDE DEF G
  <1>3. RequestOutcome(d, r, t).graph \in G
    BY <1>1, <1>2, TypedItems, CallStaysIn
  <1> QED
    BY <1>3 DEF G

----------------------------------------------------------------------------
(* Where what a call leaves in the graph comes from. *)

Removals == {"delete_entities", "truth_delete", "purge", "reset"}

TruthsKept(d, e) == \A n \in Names, k \in Keys : d.truth[n][k] # Null => e.truth[n][k] # Null

\* The item makes n ready.
Readies(op, i, n) ==
    /\ (op = "truth_upsert" /\ i.key = "status" /\ i.value = Ready) \/ (op = "update" /\ i.status = Ready)
    /\ Norm[i.name] = n

ReadyBy(d, e, op, i) ==
    \A n \in Names :
      e.truth[n]["status"] = Ready => d.truth[n]["status"] = Ready \/ Readies(op, i, n)

LinkedBy(d, e, op, i) ==
    \A r \in e.rel :
      r \in d.rel \/ (op = "create_relations" /\ r = <<Norm[i.from], Norm[i.to], i.type>>)

CreatedBy(d, e, op, i) ==
    \A n \in Names :
      \/ e.type[n] \in {Null, d.type[n]}
      \/ op = "create_entities" /\ Norm[i.name] = n /\ e.type[n] = i.type

\* Only a removal takes a truth away, and what is ready, linked or of another
\* type than before was made so by the item.
Traced(d, e, op, i) ==
    /\ op \notin Removals => TruthsKept(d, e)
    /\ ReadyBy(d, e, op, i)
    /\ LinkedBy(d, e, op, i)
    /\ CreatedBy(d, e, op, i)

LEMMA TracedSame ==
  ASSUME NEW d, NEW e, NEW op, NEW i, e.truth = d.truth, e.rel = d.rel, e.type = d.type
  PROVE  Traced(d, e, op, i)
  BY DEF Traced, TruthsKept, ReadyBy, LinkedBy, CreatedBy

\* Statements that leave entities and relations alone, take no truth away and
\* make nothing ready.
LEMMA TracedTruths ==
  ASSUME NEW d, NEW e, NEW op, NEW i, TruthsKept(d, e), ReadyBy(d, e, op, i),
         e.rel = d.rel, e.type = d.type
  PROVE  Traced(d, e, op, i)
  BY DEF Traced, LinkedBy, CreatedBy

\* The upsert of a truth.
LEMMA SetTruthKeeps ==
  ASSUME NEW d \in Databases, NEW n, NEW k, NEW v, v # Null, NEW t
  PROVE  LET e == SetTruth(d, n, k, v, t)
         IN  TruthsKept(d, e) /\ e.rel = d.rel /\ e.type = d.type
  <1> DEFINE e == SetTruth(d, n, k, v, t)
  <1>1. e.truth = [d.truth EXCEPT ![n][k] = v] /\ e.rel = d.rel /\ e.type = d.type
    BY DEF SetTruth, Databases
  <1>2. d.truth \in [Names -> [Keys -> Values \cup {Null}]]
    BY Columns
  <1> HIDE DEF e
  <1>3. TruthsKept(d, e)
    BY <1>1, <1>2 DEF TruthsKept
  <1> QED
    BY <1>1, <1>3 DEF e

\* A claim, and a dispatch.
LEMMA ClaimKeeps ==
  ASSUME NEW d, Consistent(d), NEW m \in Live(d), NEW agent \in Agents, NEW t \in Nat
  PROVE  LET e == Claim(d, m, agent, t)
         IN  TruthsKept(d, e) /\ e.rel = d.rel /\ e.type = d.type
  <1> DEFINE f == SetTruth(d, m, "status", Dispatched, t)
             e == SetTruth(f, m, "claimed_by", agent, t)
  <1>1. d \in Databases /\ Dispatched \in Values /\ agent \in Values /\ "status" \in Keys /\ Null \notin Values
    BY OpsAssumption, ColumnsAssumption DEF Consistent, TaskStatuses
  <1>2. f \in Databases
    <2>1. Consistent(f)
      BY <1>1, SetTruthConsistent
    <2> QED
      BY <2>1 DEF Consistent
  <1>3. TruthsKept(d, f) /\ f.rel = d.rel /\ f.type = d.type
    BY <1>1, SetTruthKeeps
  <1> HIDE DEF f
  <1>4. TruthsKept(f, e) /\ e.rel = f.rel /\ e.type = f.type
    BY <1>1, <1>2, SetTruthKeeps
  <1>5. e = Claim(d, m, agent, t)
    BY DEF Claim, f
  <1> HIDE DEF e
  <1>6. TruthsKept(d, e)
    BY <1>3, <1>4 DEF TruthsKept
  <1> QED
    BY <1>3, <1>4, <1>5, <1>6

LEMMA DispatchKeeps ==
  ASSUME NEW d, Consistent(d), NEW m \in Live(d), NEW i \in ItemsOf("dispatch"), NEW t \in Nat
  PROVE  LET e == DispatchTo(d, m, i, t)
         IN  TruthsKept(d, e) /\ e.rel = d.rel /\ e.type = d.type
  <1> DEFINE f == Claim(d, m, i.agent, t)
             note == <<DispatchNote[i.agent]>>
             e == Observe(f, m, note, i.limit, t)
  <1>1. i.agent \in Agents /\ note \in Seq(Contents) /\ m \in Names
    BY OpsAssumption DEF ItemsOf, Live
  <1>2. TruthsKept(d, f) /\ f.rel = d.rel /\ f.type = d.type
    BY <1>1, ClaimKeeps
  <1>3. Consistent(f) /\ m \in Live(f)
    BY <1>1, ClaimSound DEF Sound, Live
  <1>4. e.truth = f.truth /\ e.type = f.type /\ e.rel = f.rel
    <2> HIDE DEF f, note
    <2> QED
      BY <1>1, <1>3, ObserveSound DEF CanObserve
  <1>5. e = DispatchTo(d, m, i, t)
    BY DEF DispatchTo
  <1> HIDE DEF e, f
  <1>6. TruthsKept(d, e)
    BY <1>2, <1>4 DEF TruthsKept
  <1> QED
    BY <1>2, <1>4, <1>5, <1>6

\* An update.
LEMMA UpdateKeeps ==
  ASSUME NEW d, Consistent(d), NEW i \in ItemsOf("update"), Norm[i.name] \in Live(d), NEW t \in Nat
  PROVE  LET e == UpdateTask(d, i, t)
         IN  TruthsKept(d, e) /\ e.rel = d.rel /\ e.type = d.type
  <1> DEFINE m == Norm[i.name]
             f == IF i.notes = <<>> THEN d ELSE Observe(d, m, i.notes, i.limit, t)
             e == UpdateTask(d, i, t)
  <1>1. i.notes \in Seq(Contents) /\ m \in Names
    BY DEF ItemsOf, Live
  <1>2. Consistent(f) /\ f.truth = d.truth /\ f.type = d.type /\ f.rel = d.rel
    BY <1>1, ObserveSound DEF Sound, CanObserve
  <1>3. e = IF i.status = Null THEN f ELSE SetTruth(f, m, "status", i.status, t)
    BY DEF UpdateTask
  <1> HIDE DEF e, f, m
  <1>4. f \in Databases
    BY <1>2 DEF Consistent
  <1>5. TruthsKept(f, e) /\ e.rel = f.rel /\ e.type = f.type
    BY <1>3, <1>4, SetTruthKeeps DEF TruthsKept
  <1>6. TruthsKept(d, e)
    BY <1>2, <1>5 DEF TruthsKept
  <1> QED
    BY <1>2, <1>5, <1>6 DEF e

\* Every item of every operation.
LEMMA ItemTraced ==
  ASSUME NEW d, Consistent(d), NEW op \in Operations \ {"sweep"}, NEW i \in ItemsOf(op), NEW t \in Nat
  PROVE  Traced(d, ItemOutcome(d, op, i, t).graph, op, i)
  <1> DEFINE Goal == Traced(d, ItemOutcome(d, op, i, t).graph, op, i)
  <1>0. /\ d \in Databases /\ Null # Ready /\ Dispatched # Ready
        /\ Ready \in Values /\ Null \notin Values
    BY ConsistentIsDatabase, OpsAssumption, ColumnsAssumption DEF TaskStatuses, Ready, Dispatched
  <1>a. ASSUME NEW e, NEW answer, ItemOutcome(d, op, i, t) = Outcome(e, answer), Traced(d, e, op, i)
        PROVE  Goal
    BY <1>a, OutcomeParts
  <1>b. ASSUME NEW possible \in BOOLEAN, NEW e, ItemOutcome(d, op, i, t) = Attempt(possible, d, e),
               possible => Traced(d, e, op, i)
        PROVE  Goal
    <2>1. Traced(d, d, op, i)
      BY TracedSame
    <2> QED
      BY <1>a, <1>b, <2>1 DEF Attempt
  <1> SUFFICES Goal
    OBVIOUS
  <1> HIDE DEF Goal
  <1>1. CASE op = "create_entities"
    <2> DEFINE n == Norm[i.name]
               e == InsertEntity(d, n, i.type, t)
               f == InsertObs(e, n, i.contents, t)
    <2>1. CreateEntity(d, i, t) = IF n \in Live(d) THEN d ELSE f
      BY DEF CreateEntity
    <2>2. n \in Names /\ i.type \in Types
      BY <1>1, OpsAssumption DEF ItemsOf
    <2>3. n \notin Live(d) => e \in Databases
      BY <2>2, InsertEntityConsistent, <1>0 DEF Consistent
    <2>4. e.truth = d.truth /\ e.rel = d.rel /\ e.type = [d.type EXCEPT ![n] = i.type]
      BY <1>0 DEF InsertEntity, Databases
    <2>5. n \notin Live(d) => f.truth = e.truth /\ f.rel = e.rel /\ f.type = e.type
      <3> HIDE DEF e, n
      <3> QED
        BY <2>3, ObsOnly
    <2>6. d.type \in [Names -> Types \cup {Null}]
      BY <1>0, Columns
    <2> HIDE DEF f, e
    <2>7. n \notin Live(d) => Traced(d, f, op, i)
      BY <1>1, <2>4, <2>5, <2>6 DEF Traced, TruthsKept, ReadyBy, LinkedBy, CreatedBy
    <2>8. Traced(d, d, op, i)
      BY TracedSame
    <2>9. ItemOutcome(d, op, i, t) = Outcome(CreateEntity(d, i, t), Done)
      BY <1>1, ItemOutcomes
    <2> QED
      BY <1>a, <2>1, <2>7, <2>8, <2>9
  <1>2. CASE op = "add_observations"
    <2> DEFINE possible == CanObserve(d, Norm[i.name], i.contents)
               e == Observe(d, Norm[i.name], i.contents, i.limit, t)
    <2>1. i.contents \in Seq(Contents) /\ Norm[i.name] \in Names
      BY <1>2, OpsAssumption DEF ItemsOf
    <2>2. possible \in BOOLEAN
      BY DEF CanObserve
    <2>3. possible => e.truth = d.truth /\ e.rel = d.rel /\ e.type = d.type
      BY <2>1, ObserveSound
    <2>4. ItemOutcome(d, op, i, t) = Attempt(possible, d, e)
      BY <1>2, ItemOutcomes
    <2> HIDE DEF possible, e
    <2>5. possible => Traced(d, e, op, i)
      BY <2>3, TracedSame
    <2> QED
      BY <1>b, <2>2, <2>4, <2>5
  <1>3. CASE op = "create_relations"
    <2> DEFINE e == CreateRelation(d, i)
    <2>1. /\ e.truth = d.truth /\ e.type = d.type
          /\ e.rel = d.rel \cup {<<Norm[i.from], Norm[i.to], i.type>>}
      BY <1>0 DEF CreateRelation, Databases
    <2>2. CanRelate(d, i) \in BOOLEAN
      BY DEF CanRelate
    <2>3. ItemOutcome(d, op, i, t) = Attempt(CanRelate(d, i), d, e)
      BY <1>3, ItemOutcomes
    <2> HIDE DEF e
    <2>4. Traced(d, e, op, i)
      BY <1>3, <2>1 DEF Traced, TruthsKept, ReadyBy, LinkedBy, CreatedBy
    <2> QED
      BY <1>b, <2>2, <2>3, <2>4
  <1>4. CASE op \in {"delete_entities", "purge"}
    <2>1. ASSUME NEW gone PROVE Traced(d, DeleteEntities(d, gone), op, i)
      <3> DEFINE e == DeleteEntities(d, gone)
      <3>1. \A n \in Names : e.truth[n]["status"] \in {Null, d.truth[n]["status"]}
        BY <1>0, StatusGone
      <3>2. e.rel \subseteq d.rel /\ e.type = [n \in Names |-> IF n \in gone THEN Null ELSE d.type[n]]
        BY <1>0 DEF DeleteEntities, Databases
      <3> HIDE DEF e
      <3> QED
        BY <1>0, <1>4, <3>1, <3>2 DEF Traced, Removals, ReadyBy, LinkedBy, CreatedBy, e
    <2>2. CASE op = "delete_entities"
      <3>1. ItemOutcome(d, op, i, t) = Outcome(DeleteEntity(d, i), Done)
        BY <2>2, ItemOutcomes
      <3> QED
        BY <1>a, <2>1, <3>1 DEF DeleteEntity
    <2>3. CASE op = "purge"
      <3>1. ItemOutcome(d, op, i, t) = Outcome(IF i.apply THEN Purge(d, i.days, t) ELSE d, Done)
        BY <2>3, ItemOutcomes
      <3>2. Traced(d, d, op, i) /\ Traced(d, Purge(d, i.days, t), op, i)
        BY <2>1, TracedSame DEF Purge
      <3> QED
        BY <1>a, <3>1, <3>2
    <2> QED
      BY <1>4, <2>2, <2>3
  <1>5. CASE op \in {"delete_observations", "delete_observation_by_id",
                     "update_observation_by_id", "update_observation"}
    <2>1. ASSUME NEW rows PROVE Traced(d, DeleteObs(d, rows, t), op, i)
      <3>1. LET e == DeleteObs(d, rows, t)
            IN  e.truth = d.truth /\ e.rel = d.rel /\ e.type = d.type
        BY <1>0 DEF DeleteObs, Databases
      <3> QED
        BY <3>1, TracedSame
    <2>2. ASSUME NEW rows, NEW new PROVE Traced(d, UpdateObs(d, rows, new, t), op, i)
      <3>1. LET e == UpdateObs(d, rows, new, t)
            IN  e.truth = d.truth /\ e.rel = d.rel /\ e.type = d.type
        BY <1>0 DEF UpdateObs, Databases
      <3> QED
        BY <3>1, TracedSame
    <2>3. \/ ItemOutcome(d, op, i, t) = Outcome(DeleteObservations(d, i, t), Done)
          \/ ItemOutcome(d, op, i, t) = Outcome(DeleteObservationById(d, i, t), Done)
          \/ ItemOutcome(d, op, i, t) = Outcome(UpdateObservationById(d, i, t), Done)
          \/ ItemOutcome(d, op, i, t) = Outcome(UpdateObservation(d, i, t), Done)
      BY <1>5, ItemOutcomes
    <2> QED
      BY <1>a, <2>1, <2>2, <2>3
         DEF DeleteObservations, DeleteObservationById, UpdateObservationById, UpdateObservation
  <1>6. CASE op = "delete_relations"
    <2> DEFINE e == DeleteRelation(d, i)
    <2>1. e.truth = d.truth /\ e.type = d.type /\ e.rel \subseteq d.rel
      BY <1>0 DEF DeleteRelation, Databases
    <2>2. ItemOutcome(d, op, i, t) = Outcome(e, Done)
      BY <1>6, ItemOutcomes
    <2> HIDE DEF e
    <2>3. Traced(d, e, op, i)
      BY <2>1 DEF Traced, TruthsKept, ReadyBy, LinkedBy, CreatedBy
    <2> QED
      BY <1>a, <2>2, <2>3
  <1>7. CASE op = "truth_upsert"
    <2> DEFINE e == SetTruth(d, Norm[i.name], i.key, i.value, t)
    <2>1. i.value \in Values
      BY <1>7 DEF ItemsOf
    <2>2. TruthsKept(d, e) /\ e.rel = d.rel /\ e.type = d.type
      BY <1>0, <2>1, SetTruthKeeps
    <2>3. ASSUME NEW n \in Names
          PROVE  e.truth[n]["status"] =
                   IF Norm[i.name] = n /\ i.key = "status" THEN i.value ELSE d.truth[n]["status"]
      BY <1>0, StatusSet
    <2>4. ItemOutcome(d, op, i, t) = Attempt(Norm[i.name] \in Live(d), d, e)
      BY <1>7, ItemOutcomes DEF TruthUpsert
    <2> HIDE DEF e
    <2>5. ReadyBy(d, e, op, i)
      BY <1>7, <2>3 DEF ReadyBy, Readies
    <2>6. Traced(d, e, op, i)
      BY <2>2, <2>5, TracedTruths
    <2>7. (Norm[i.name] \in Live(d)) \in BOOLEAN
      OBVIOUS
    <2> QED
      BY <1>b, <2>4, <2>6, <2>7
  <1>8. CASE op = "truth_delete"
    <2> DEFINE e == DropTruth(d, Norm[i.name], i.key, t)
    <2>1. \A n \in Names : e.truth[n]["status"] \in {Null, d.truth[n]["status"]}
      BY <1>0, StatusGone
    <2>2. e.rel = d.rel /\ e.type = d.type
      BY <1>0 DEF DropTruth, Databases
    <2>3. ItemOutcome(d, op, i, t) = Outcome(e, Done)
      BY <1>8, ItemOutcomes DEF TruthDelete
    <2> HIDE DEF e
    <2>4. Traced(d, e, op, i)
      BY <1>0, <1>8, <2>1, <2>2 DEF Traced, Removals, ReadyBy, LinkedBy, CreatedBy
    <2> QED
      BY <1>a, <2>3, <2>4
  <1>9. CASE op = "update"
    <2> DEFINE e == UpdateTask(d, i, t)
    <2>1. ItemOutcome(d, op, i, t) = UpdateOutcome(d, i, t)
      BY <1>9, ItemOutcomes
    <2>2. \/ \E answer : UpdateOutcome(d, i, t) = Outcome(d, answer)
          \/ /\ Norm[i.name] \in Live(d)
             /\ \E answer : UpdateOutcome(d, i, t) = Outcome(e, answer)
      BY DEF UpdateOutcome
    <2>3. Traced(d, d, op, i)
      BY TracedSame
    <2>4. ASSUME Norm[i.name] \in Live(d) PROVE Traced(d, e, op, i)
      <3>1. TruthsKept(d, e) /\ e.rel = d.rel /\ e.type = d.type
        BY <1>9, <2>4, UpdateKeeps
      <3>2. ASSUME NEW n \in Names, Norm[i.name] # n
            PROVE  e.truth[n]["status"] = d.truth[n]["status"]
        BY <1>9, <2>4, <3>2, UpdateElsewhere
      <3>3. ASSUME NEW n \in Names
            PROVE  \/ e.truth[n]["status"] = d.truth[n]["status"]
                   \/ e.truth[n]["status"] = i.status
        BY <1>9, <2>4, StatusUpdated
      <3> HIDE DEF e
      <3>4. ReadyBy(d, e, op, i)
        BY <1>9, <3>2, <3>3 DEF ReadyBy, Readies
      <3> QED
        BY <3>1, <3>4, TracedTruths
    <2> HIDE DEF e
    <2> QED
      BY <1>a, <2>1, <2>2, <2>3, <2>4
  <1>10. CASE op = "dispatch"
    <2> DEFINE m == IF i.name # Null THEN Norm[i.name] ELSE First(ReadyTasks(d))
               none == i.name = Null /\ ReadyTasks(d) = {}
               e == DispatchTo(d, m, i, t)
    <2>1. ItemOutcome(d, op, i, t) =
             IF none \/ StatusOf(d, m) # Ready
             THEN Outcome(d, Nothing)
             ELSE Outcome(e, Answer("claimed", {m}))
      <3>1. ItemOutcome(d, op, i, t) = DispatchOutcome(d, i, t)
        BY <1>10, ItemOutcomes
      <3> QED
        BY <3>1 DEF DispatchOutcome
    <2>2. ~none => m \in Names
      BY <1>10, DispatchTarget
    <2> HIDE DEF m, none
    <2>3. Traced(d, d, op, i)
      BY TracedSame
    <2>4. ASSUME ~none, StatusOf(d, m) = Ready PROVE Traced(d, e, op, i)
      <3>1. m \in Live(d)
        BY <2>2, <2>4, ReadyStatusIsLive
      <3>2. TruthsKept(d, e) /\ e.rel = d.rel /\ e.type = d.type
        BY <1>10, <3>1, DispatchKeeps
      <3>3. \A n \in Names : e.truth[n]["status"] \in {Dispatched, d.truth[n]["status"]}
        BY <1>10, <3>1, StatusDispatched
      <3> HIDE DEF e
      <3>4. ReadyBy(d, e, op, i)
        BY <1>0, <3>3 DEF ReadyBy
      <3> QED
        BY <3>2, <3>4, TracedTruths
    <2> HIDE DEF e
    <2> QED
      BY <1>a, <2>1, <2>3, <2>4
  <1>11. CASE op = "claim_next"
    <2> DEFINE m == First(ReadyTasks(d))
               e == Claim(d, m, i.agent, t)
    <2>1. ItemOutcome(d, op, i, t) = IF ReadyTasks(d) = {} THEN Outcome(d, Nothing)
                                     ELSE Outcome(e, Answer("claimed", {m}))
      BY <1>11, ItemOutcomes DEF ClaimOutcome
    <2>2. Traced(d, d, op, i)
      BY TracedSame
    <2>3. ASSUME ReadyTasks(d) # {} PROVE Traced(d, e, op, i)
      <3>1. m \in ReadyTasks(d)
        BY <2>3, FirstIsLeast DEF ReadyTasks, Tasks, Least
      <3>2. m \in Live(d) /\ i.agent \in Agents
        BY <1>11, <3>1, ReadyIsLive DEF ReadyTasks, Tasks, ItemsOf
      <3> HIDE DEF m
      <3>3. TruthsKept(d, e) /\ e.rel = d.rel /\ e.type = d.type
        BY <3>2, ClaimKeeps
      <3>4. \A n \in Names : e.truth[n]["status"] \in {Dispatched, d.truth[n]["status"]}
        BY <3>2, StatusClaimed
      <3> HIDE DEF e
      <3>5. ReadyBy(d, e, op, i)
        BY <1>0, <3>4 DEF ReadyBy
      <3> QED
        BY <3>3, <3>5, TracedTruths
    <2> HIDE DEF e, m
    <2> QED
      BY <1>a, <2>1, <2>2, <2>3
  <1>12. CASE op = "reset"
    <2> DEFINE e == Reset(d)
    <2>1. /\ \A n \in Names : e.truth[n]["status"] = Null
          /\ e.rel = {} /\ e.type = [n \in Names |-> Null]
      <3>1. \A n \in Names : e.truth[n]["status"] = Null
        BY <1>0, StatusGone
      <3> QED
        BY <3>1 DEF Reset, EmptyDatabase
    <2>2. ItemOutcome(d, op, i, t) = Outcome(e, Done)
      BY <1>12, ItemOutcomes
    <2> HIDE DEF e
    <2>3. Traced(d, e, op, i)
      BY <1>0, <1>12, <2>1 DEF Traced, Removals, ReadyBy, LinkedBy, CreatedBy
    <2> QED
      BY <1>a, <2>2, <2>3
  <1> QED
    BY <1>1, <1>2, <1>3, <1>4, <1>5, <1>6, <1>7, <1>8, <1>9, <1>10, <1>11, <1>12
       DEF Operations, GraphOperations, TaskOperations

\* The same of a whole call, item by item.
CallTrace(d, e, r) ==
    /\ r.op \notin Removals => TruthsKept(d, e)
    /\ \A n \in Names :
         e.truth[n]["status"] = Ready
           => \/ d.truth[n]["status"] = Ready
              \/ \E j \in 1..Len(r.items) : Readies(r.op, r.items[j], n)
    /\ \A l \in e.rel :
         \/ l \in d.rel
         \/ /\ r.op = "create_relations"
            /\ \E j \in 1..Len(r.items) :
                 l = <<Norm[r.items[j].from], Norm[r.items[j].to], r.items[j].type>>
    /\ \A n \in Names :
         \/ e.type[n] \in {Null, d.type[n]}
         \/ /\ r.op = "create_entities"
            /\ \E j \in 1..Len(r.items) :
                 Norm[r.items[j].name] = n /\ e.type[n] = r.items[j].type

LEMMA CallTraced ==
  ASSUME NEW d, Consistent(d), NEW r, r.op \in Operations \ {"sweep"},
         r.items \in Seq(ItemsOf(r.op)), NEW t \in Nat
  PROVE  CallTrace(d, RequestOutcome(d, r, t).graph, r)
  <1> DEFINE G == {e \in Databases : Consistent(e) /\ CallTrace(d, e, r)}
  <1>1. d \in G
    BY ConsistentIsDatabase DEF CallTrace, TruthsKept
  <1>2. ASSUME NEW e \in G, NEW j \in 1..Len(r.items)
        PROVE  ItemOutcome(e, r.op, r.items[j], t).graph \in G
    <2> DEFINE f == ItemOutcome(e, r.op, r.items[j], t).graph
               i == r.items[j]
    <2>1. i \in ItemsOf(r.op) /\ Consistent(e) /\ CallTrace(d, e, r)
      BY TypedItems
    <2>2. Consistent(f) /\ f \in Databases
      BY <2>1, ItemSound, ConsistentIsDatabase DEF Sound
    <2>3. Traced(e, f, r.op, i)
      BY <2>1, ItemTraced
    <2> HIDE DEF f
    <2>4. CallTrace(d, f, r)
      <3>1. r.op \notin Removals => TruthsKept(d, f)
        BY <2>1, <2>3 DEF CallTrace, Traced, TruthsKept
      <3>2. ASSUME NEW n \in Names, f.truth[n]["status"] = Ready
            PROVE  \/ d.truth[n]["status"] = Ready
                   \/ \E k \in 1..Len(r.items) : Readies(r.op, r.items[k], n)
        BY <2>1, <2>3, <3>2 DEF CallTrace, Traced, ReadyBy
      <3>3. ASSUME NEW l \in f.rel
            PROVE  \/ l \in d.rel
                   \/ /\ r.op = "create_relations"
                      /\ \E k \in 1..Len(r.items) :
                           l = <<Norm[r.items[k].from], Norm[r.items[k].to], r.items[k].type>>
        BY <2>1, <2>3 DEF CallTrace, Traced, LinkedBy
      <3>4. ASSUME NEW n \in Names
            PROVE  \/ f.type[n] \in {Null, d.type[n]}
                   \/ /\ r.op = "create_entities"
                      /\ \E k \in 1..Len(r.items) :
                           Norm[r.items[k].name] = n /\ f.type[n] = r.items[k].type
        BY <2>1, <2>3 DEF CallTrace, Traced, CreatedBy
      <3> QED
        BY <3>1, <3>2, <3>3, <3>4 DEF CallTrace
    <2> QED
      BY <2>2, <2>4 DEF f
  <1> HIDE DEF G
  <1>3. RequestOutcome(d, r, t).graph \in G
    BY <1>1, <1>2, TypedItems, CallStaysIn
  <1> QED
    BY <1>3 DEF G

\* The call of truth_upsert that is not refused has set the truth.
LEMMA TruthCall ==
  ASSUME NEW d, Consistent(d), NEW r, r.op = "truth_upsert", Len(r.items) = 1,
         r.items[1] \in ItemsOf("truth_upsert"), NEW t \in Nat,
         RequestOutcome(d, r, t).answer \notin Refusals
  PROVE  LET i == r.items[1]
         IN  /\ RequestOutcome(d, r, t).graph.truth[Norm[i.name]][i.key] = i.value
             /\ i.value # Null
  <1> DEFINE i == r.items[1]
             n == Norm[i.name]
             e == SetTruth(d, n, i.key, i.value, t)
             o == ItemOutcome(d, r.op, i, t)
  <1>1. n \in Names /\ i.key \in Keys /\ i.value \in Values /\ i.value # Null
    BY OpsAssumption, ColumnsAssumption DEF ItemsOf
  <1>2. o = Attempt(n \in Live(d), d, e)
    BY ItemOutcomes DEF TruthUpsert
  <1>3. RequestOutcome(d, r, t) = IF o.answer \in Refusals THEN Outcome(d, o.answer) ELSE o
    BY SingleOutcome
  <1>4. d \in Databases
    BY ConsistentIsDatabase
  <1>5. e.truth = [d.truth EXCEPT ![n][i.key] = i.value]
    BY <1>4 DEF SetTruth, Databases
  <1>6. d.truth \in [Names -> [Keys -> Values \cup {Null}]]
    BY <1>4, Columns
  <1> HIDE DEF e, o, n
  <1>7. e.truth[n][i.key] = i.value
    BY <1>1, <1>5, <1>6
  <1>8. o = Outcome(d, Failed) \/ o = Outcome(e, Done)
    BY <1>2 DEF Attempt
  <1>9. Outcome(d, Failed).answer = Failed /\ Outcome(e, Done).graph = e
    BY OutcomeParts
  <1>10. Outcome(d, o.answer).answer = o.answer
    BY OutcomeParts
  <1>11. o.answer \notin Refusals
    BY <1>3, <1>10
  <1>12. RequestOutcome(d, r, t) = Outcome(e, Done)
    BY <1>3, <1>8, <1>9, <1>11, Accepted
  <1> QED
    BY <1>1, <1>7, <1>9, <1>12 DEF n

\* The call of create_relations that is not refused has linked every pair, and
\* all their ends exist.
LEMMA LinkCall ==
  ASSUME NEW d, Consistent(d), NEW r, r.op = "create_relations",
         r.items \in Seq(RelationItems), NEW t \in Nat,
         RequestOutcome(d, r, t).answer \notin Refusals, NEW j \in 1..Len(r.items)
  PROVE  LET e == RequestOutcome(d, r, t).graph
             i == r.items[j]
         IN  /\ <<Norm[i.from], Norm[i.to], i.type>> \in e.rel
             /\ {Norm[i.from], Norm[i.to]} \subseteq Live(e)
  <1> DEFINE n == Len(r.items)
             o == Outcomes(d, r, t)
             i == r.items[j]
             link == <<Norm[i.from], Norm[i.to], i.type>>
             Linked(k) == Consistent(o[k].graph) /\ link \in o[k].graph.rel
             T == {k \in Nat : j <= k /\ k <= n /\ o[k].answer \notin Refusals
                               /\ link \notin o[k].graph.rel}
  <1>1. n \in Nat /\ \A k \in 1..n : r.items[k] \in RelationItems
    BY LenProperties, ElementOfSeq
  <1>2. RequestOutcome(d, r, t) = IF o[n].answer \in Refusals THEN Outcome(d, o[n].answer) ELSE o[n]
    BY DEF RequestOutcome
  <1>3. o[n].answer \notin Refusals /\ RequestOutcome(d, r, t) = o[n]
    <2>1. Outcome(d, o[n].answer).answer = o[n].answer
      BY OutcomeParts
    <2> QED
      BY <1>2, <2>1
  <1>4. \A k \in 1..n : o[k] = AfterItem(o[k - 1], r, k, t)
    BY <1>1, OutcomesStep
  <1>5. ASSUME NEW k \in 1..n, o[k].answer \notin Refusals
        PROVE  LET a == r.items[k]
               IN  /\ o[k].graph.rel = o[k - 1].graph.rel \cup {<<Norm[a.from], Norm[a.to], a.type>>}
                   /\ o[k - 1].answer \notin Refusals
    <2> DEFINE a == r.items[k]
               e == o[k - 1].graph
    <2>1. o[k - 1].answer \notin Refusals
      BY <1>4, <1>5 DEF AfterItem
    <2>2. o[k] = ItemOutcome(e, r.op, a, t)
      BY <1>4, <2>1 DEF AfterItem
    <2>3. ItemOutcome(e, "create_relations", a, t) = Attempt(CanRelate(e, a), e, CreateRelation(e, a))
      BY ItemOutcomes
    <2>4. o[k] = Outcome(e, Failed) \/ o[k] = Outcome(CreateRelation(e, a), Done)
      BY <2>2, <2>3 DEF Attempt
    <2>5. Outcome(e, Failed).answer = Failed
      BY OutcomeParts
    <2>6. o[k] = Outcome(CreateRelation(e, a), Done)
      BY <1>5, <2>4, <2>5, Accepted
    <2>7. o[k].graph = CreateRelation(e, a)
      BY <2>6, OutcomeParts
    <2>8. e \in Databases
      BY <1>1, CallGraphs DEF Operations, GraphOperations, ItemsOf
    <2>9. CreateRelation(e, a).rel = e.rel \cup {<<Norm[a.from], Norm[a.to], a.type>>}
      BY <2>8 DEF CreateRelation, Databases
    <2> QED
      BY <2>1, <2>7, <2>9
  <1>6. T = {}
    <2> SUFFICES ASSUME T # {} PROVE FALSE
      OBVIOUS
    <2>1. PICK k \in T : \A m \in T : k <= m
      BY LeastNumber
    <2>2. k \in 1..n /\ k \in Nat /\ j <= k
      BY <1>1
    <2>3. CASE k = j
      BY <1>5, <2>2, <2>3
    <2>4. CASE j < k
      <3>1. k - 1 \in Nat /\ j <= k - 1 /\ k - 1 <= n
        BY <1>1, <2>2, <2>4
      <3>2. k - 1 \notin T
        <4> HIDE DEF T
        <4>1. ~ (k <= k - 1)
          BY <2>2
        <4> QED
          BY <2>1, <4>1
      <3>3. o[k - 1].answer \notin Refusals
        BY <1>5, <2>2
      <3>4. link \in o[k - 1].graph.rel
        BY <3>1, <3>2, <3>3
      <3> QED
        BY <1>5, <2>2, <3>4
    <2> QED
      BY <2>2, <2>3, <2>4
  <1>7. link \in o[n].graph.rel
    BY SMTT(30), <1>1, <1>3, <1>6
  <1>8. Consistent(o[n].graph)
    <2>1. r.op \in Operations \ {"sweep"} /\ r.items \in Seq(ItemsOf(r.op))
      BY DEF Operations, GraphOperations, ItemsOf
    <2> QED
      BY <1>3, <2>1, CallConsistent
  <1> HIDE DEF o
  <1>9. {link[1], link[2]} \subseteq Live(o[n].graph)
    BY <1>7, <1>8 DEF Consistent, ReferentialIntegrity
  <1> QED
    BY <1>3, <1>7, <1>9
=============================================================================
