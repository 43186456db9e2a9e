-------------------------- MODULE StoreStepsProofs --------------------------
(***************************************************************************)
(* What a step of the store may do to the file, for any windows, requests  *)
(* and interleavings.                                                      *)
(*                                                                         *)
(* CallsAtomic: every call takes effect at one instant. While a            *)
(* transaction is open, the file and the clock are what they were at its   *)
(* BEGIN IMMEDIATE, so what its first k items have made of its view is     *)
(* what the first k items of the call make of the file, and the commit     *)
(* publishes what the whole call makes of it.                              *)
(*                                                                         *)
(* ClaimsExclusive, EvictionKeepsNewest, AbandonsOnlyIdle: a step that     *)
(* changes the file is a commit or one of the two transactions of a sweep, *)
(* so each is a property of a whole call on a graph (CommitOutcome).       *)
(*                                                                         *)
(* TwoStepLifecycle also speaks of the past: finishing a task writes its   *)
(* status truth, the truth's trigger stamps last_activity with the clock,  *)
(* and so a finished task has been finished for at least as long as it has *)
(* been inactive.                                                          *)
(***************************************************************************)
EXTENDS StoreRefinement, StoreHistory, SqliteStoreProofs

\* The transaction has executed the first k items of the call.
Executed(c, k) ==
    /\ k \in 0..Len(req[c].items)
    /\ todo[c] = SubSeq(req[c].items, k + 1, Len(req[c].items))
    /\ Outcomes(db, req[c], now)[k] = Outcome(work[c], reply[c])

CallState(c) ==
    /\ pc[c] = "idle" => req[c] = NoRequest
    /\ pc[c] \in {"sweep", "begin", "exec"} => req[c].op # "sweep"
    /\ pc[c] \notin {"idle", "exec", "vacuum"} /\ req[c].op # "sweep" => todo[c] = req[c].items
    /\ req[c].op = "update" => \A j \in DOMAIN req[c].items : ~InvalidUpdate(req[c].items[j])
    /\ Writing(c) => reply[c] \notin Refusals /\ \E k \in Nat : Executed(c, k)

CallInv == \A c \in Callers : CallState(c)

----------------------------------------------------------------------------
(* One item. *)

ItemResult(c) == ItemOutcome(work[c], req[c].op, Item(c), now)

\* The head item goes through, or the call is refused: with an error, or, if it
\* is about one thing, with the answer that leaves the graph alone.
Obeys(c) ==
    \/ RollBack(c, Failed)
    \/ \E e, answer :
         /\ ItemResult(c) = Outcome(e, answer)
         /\ \/ Proceed(c, e, answer) /\ answer \notin Refusals
            \/ RollBack(c, answer) /\ e = work[c] /\ req[c].op \notin ListOperations

LEMMA ProceedObeys ==
  ASSUME NEW c, NEW e, NEW answer, ItemResult(c) = Outcome(e, answer), answer \notin Refusals,
         Proceed(c, e, answer)
  PROVE  Obeys(c)
  BY DEF Obeys

LEMMA RollBackObeys ==
  ASSUME NEW c, NEW answer, ItemResult(c) = Outcome(work[c], answer), RollBack(c, answer),
         req[c].op \notin ListOperations
  PROVE  Obeys(c)
  BY DEF Obeys

\* The operations that always succeed, and those that fail on a foreign key.
LEMMA PlainItemObeys ==
  ASSUME NEW c \in Callers,
         \/ CreateEntities(c)
         \/ DeleteNamedEntities(c)
         \/ DeleteMatchingObservations(c)
         \/ DeleteObservationWithId(c)
         \/ UpdateObservationWithId(c)
         \/ UpdateMatchingObservations(c)
         \/ DeleteRelations(c)
         \/ DeleteTruth(c)
         \/ PurgeFinished(c)
         \/ ResetGraph(c)
         \/ AddObservations(c)
         \/ CreateRelations(c)
         \/ UpsertTruth(c)
  PROVE  Obeys(c)
  <1> DEFINE i == Item(c)
             d == work[c]
  <1>0. ASSUME NEW op, NEW e, Executing(c, op), ItemOutcome(d, op, i, now) = Outcome(e, Done),
               Proceed(c, e, Done)
        PROVE  Obeys(c)
    <2>1. ItemResult(c) = Outcome(e, Done)
      BY <1>0 DEF ItemResult, Executing
    <2> QED
      BY <1>0, <2>1, ProceedObeys, Accepted
  <1>1. CASE CreateEntities(c)
    BY <1>1, <1>0, ItemOutcomes DEF CreateEntities
  <1>2. CASE DeleteNamedEntities(c)
    BY <1>2, <1>0, ItemOutcomes DEF DeleteNamedEntities
  <1>3. CASE DeleteMatchingObservations(c)
    BY <1>3, <1>0, ItemOutcomes DEF DeleteMatchingObservations
  <1>4. CASE DeleteObservationWithId(c)
    BY <1>4, <1>0, ItemOutcomes DEF DeleteObservationWithId
  <1>5. CASE UpdateObservationWithId(c)
    BY <1>5, <1>0, ItemOutcomes DEF UpdateObservationWithId
  <1>6. CASE UpdateMatchingObservations(c)
    BY <1>6, <1>0, ItemOutcomes DEF UpdateMatchingObservations
  <1>7. CASE DeleteRelations(c)
    BY <1>7, <1>0, ItemOutcomes DEF DeleteRelations
  <1>8. CASE DeleteTruth(c)
    BY <1>8, <1>0, ItemOutcomes DEF DeleteTruth
  <1>9. CASE PurgeFinished(c)
    BY <1>9, <1>0, ItemOutcomes DEF PurgeFinished
  <1>10. CASE ResetGraph(c)
    BY <1>10, <1>0, ItemOutcomes DEF ResetGraph
  <1>11. CASE AddObservations(c)
    BY <1>11, <1>0, ItemOutcomes DEF AddObservations, Attempt, Obeys
  <1>12. CASE CreateRelations(c)
    BY <1>12, <1>0, ItemOutcomes DEF CreateRelations, Attempt, Obeys
  <1>13. CASE UpsertTruth(c)
    BY <1>13, <1>0, ItemOutcomes DEF UpsertTruth, Attempt, Obeys
  <1> QED
    BY <1>1, <1>2, <1>3, <1>4, <1>5, <1>6, <1>7, <1>8, <1>9, <1>10, <1>11, <1>12, <1>13

\* An update of a task, or a refusal.
LEMMA UpdateObeys ==
  ASSUME NEW c \in Callers, Update(c)
  PROVE  Obeys(c)
  <1> DEFINE i == Item(c)
             d == work[c]
             n == Norm[i.name]
             status == IF i.status = Null THEN StatusOf(d, n) ELSE i.status
  <1>1. ItemResult(c) = UpdateOutcome(d, i, now) /\ req[c].op = "update"
    <2>1. Executing(c, "update")
      BY DEF Update
    <2> QED
      BY <2>1, ItemOutcomes DEF Executing, ItemResult
  <1>2. req[c].op \notin ListOperations
    BY <1>1 DEF ListOperations
  <1>3. CASE n \in Tasks(d) /\ Proceed(c, UpdateTask(d, i, now), Answer("status", {status} \ {""}))
    <2>1. n \in Live(d)
      BY <1>3, ColumnsAssumption DEF Tasks, Live
    <2>2. ItemResult(c) = Outcome(UpdateTask(d, i, now), Answer("status", {status} \ {""}))
      BY <1>1, <1>3, <2>1 DEF UpdateOutcome
    <2>3. Answer("status", {status} \ {""}) \notin Refusals
      BY Accepted
    <2> QED
      BY <1>3, <2>2, <2>3, ProceedObeys
  <1>4. CASE n \notin Live(d) /\ RollBack(c, NotFound)
    <2>1. ItemResult(c) = Outcome(d, NotFound)
      BY <1>1, <1>4 DEF UpdateOutcome
    <2> QED
      BY <1>2, <1>4, <2>1, RollBackObeys
  <1>5. CASE n \in Live(d) \ Tasks(d) /\ RollBack(c, Invalid)
    <2>1. ItemResult(c) = Outcome(d, Invalid)
      BY <1>1, <1>5 DEF UpdateOutcome
    <2> QED
      BY <1>2, <1>5, <2>1, RollBackObeys
  <1> QED
    BY <1>3, <1>4, <1>5 DEF Update

\* A dispatch of the named task, or of the first ready one, or of nothing.
LEMMA DispatchObeys ==
  ASSUME NEW c \in Callers, Dispatch(c)
  PROVE  Obeys(c)
  <1> DEFINE i == Item(c)
             d == work[c]
             ready == ReadyTasks(d)
             target == IF i.name # Null THEN Norm[i.name] ELSE First(ready)
             targets == IF i.name = Null THEN Least(ready) ELSE {Norm[i.name]}
             none == i.name = Null /\ ready = {}
  <1>1. /\ ItemResult(c) = DispatchOutcome(d, i, now) /\ req[c].op = "dispatch"
    BY ItemOutcomes DEF Dispatch, Executing, ItemResult
  <1>2. req[c].op \notin ListOperations
    BY <1>1 DEF ListOperations
  <1>3. targets = IF none THEN {} ELSE {target}
    <2>1. ready # {} => Least(ready) = {First(ready)}
      BY FirstIsLeast DEF ReadyTasks, Tasks
    <2>2. ready = {} => Least(ready) = {}
      BY DEF Least
    <2> QED
      BY <2>1, <2>2
  <1>4. DispatchOutcome(d, i, now) =
          IF none \/ StatusOf(d, target) # Ready THEN Outcome(d, Nothing)
          ELSE Outcome(DispatchTo(d, target, i, now), Answer("claimed", {target}))
    BY DEF DispatchOutcome
  <1>5. \/ targets = {} /\ RollBack(c, Nothing)
        \/ \E n \in targets :
             IF d.truth[n]["status"] = Ready
             THEN Proceed(c, DispatchTo(d, n, i, now), Answer("claimed", {n}))
             ELSE RollBack(c, Nothing)
    BY DEF Dispatch
  <1> HIDE DEF target, targets, none, i, d
  <1>6. CASE targets = {} /\ RollBack(c, Nothing)
    <2>1. ItemResult(c) = Outcome(d, Nothing)
      BY <1>1, <1>3, <1>4, <1>6
    <2> QED
      BY <1>2, <1>6, <2>1, RollBackObeys DEF d
  <1>7. CASE targets # {}
    <2>1. ~none /\ targets = {target}
      BY <1>3, <1>7
    <2>2. CASE StatusOf(d, target) = Ready
      <3>1. ItemResult(c) = Outcome(DispatchTo(d, target, i, now), Answer("claimed", {target}))
        BY <1>1, <1>4, <2>1, <2>2
      <3>2. Proceed(c, DispatchTo(d, target, i, now), Answer("claimed", {target}))
        BY <1>5, <2>1, <2>2, ReadyStatus
      <3> QED
        BY <3>1, <3>2, ProceedObeys, Accepted
    <2>3. CASE StatusOf(d, target) # Ready
      <3>1. ItemResult(c) = Outcome(d, Nothing)
        BY <1>1, <1>4, <2>1, <2>3
      <3>2. RollBack(c, Nothing)
        BY <1>5, <2>1, <2>3, ReadyStatus
      <3> QED
        BY <1>2, <3>1, <3>2, RollBackObeys DEF d
    <2> QED
      BY <2>2, <2>3
  <1> QED
    BY <1>5, <1>6, <1>7

\* A claim of the first ready task, if there is one.
LEMMA ClaimNextObeys ==
  ASSUME NEW c \in Callers, ClaimNext(c)
  PROVE  Obeys(c)
  <1> DEFINE i == Item(c)
             d == work[c]
             ready == ReadyTasks(d)
  <1>1. ItemResult(c) = ClaimOutcome(d, i, now)
    BY ItemOutcomes DEF ClaimNext, Executing, ItemResult
  <1>2. CASE ready = {}
    <2>1. ItemResult(c) = Outcome(d, Nothing)
      BY <1>1, <1>2 DEF ClaimOutcome
    <2>2. Proceed(c, d, Nothing)
      BY <1>2 DEF ClaimNext, Least
    <2> QED
      BY <2>1, <2>2, ProceedObeys, Accepted
  <1>3. CASE ready # {}
    <2>1. Least(ready) = {First(ready)}
      BY <1>3, FirstIsLeast DEF ReadyTasks, Tasks
    <2>2. ItemResult(c) = Outcome(Claim(d, First(ready), i.agent, now), Answer("claimed", {First(ready)}))
      BY <1>1, <1>3 DEF ClaimOutcome
    <2>3. Proceed(c, Claim(d, First(ready), i.agent, now), Answer("claimed", {First(ready)}))
      BY <1>3, <2>1 DEF ClaimNext
    <2> HIDE DEF i, d, ready
    <2> QED
      BY <2>2, <2>3, ProceedObeys, Accepted
  <1> QED
    BY <1>2, <1>3

\* Every item of every operation does what the promise says of it.
LEMMA ItemObeys ==
  ASSUME NEW c \in Callers, ExecuteItem(c)
  PROVE  Obeys(c)
  BY PlainItemObeys, UpdateObeys, DispatchObeys, ClaimNextObeys DEF ExecuteItem

----------------------------------------------------------------------------
(* The invariant. *)

\* A caller's step leaves the others where they are, and leaves the file to
\* the one that has a transaction open.
LEMMA OthersUnmoved ==
  ASSUME StoreInv, NEW c \in Callers, Step(c), NEW x \in Callers, x # c
  PROVE  /\ pc'[x] = pc[x] /\ req'[x] = req[x] /\ todo'[x] = todo[x]
         /\ work'[x] = work[x] /\ reply'[x] = reply[x]
         /\ now' = now
         /\ Writing(x) => db' = db
  <1>0. TypeOK /\ OneWriter
    BY DEF StoreInv
  <1>1. ASSUME NEW r \in Requests, Call(c, r) \/ RefuseUpdate(c, r)
        PROVE  /\ pc'[x] = pc[x] /\ req'[x] = req[x] /\ todo'[x] = todo[x]
               /\ work'[x] = work[x] /\ reply'[x] = reply[x] /\ db' = db /\ now' = now
    BY <1>0, <1>1 DEF Call, RefuseUpdate, Goto, TypeOK
  <1>2. CASE SweepExpiredOnce(c) \/ BeginImmediate(c)
    BY <1>0, <1>2 DEF SweepExpiredOnce, BeginImmediate, Goto, TypeOK
  <1>3. CASE AbandonIdleTasks(c)
    BY <1>0, <1>3, StoreAssumption DEF AbandonIdleTasks, Goto, TypeOK, LockFree
  <1>4. CASE DeleteFinishedTasks(c)
    BY <1>0, <1>4, StoreAssumption DEF DeleteFinishedTasks, Finish, Goto, TypeOK, LockFree
  <1>5. CASE SweepFails(c)
    BY <1>0, <1>5 DEF SweepFails, Finish, Goto, TypeOK
  <1>6. CASE TransactionFails(c) \/ Vacuum(c) \/ Cancel(c)
    BY <1>0, <1>6 DEF TransactionFails, Vacuum, Cancel, Finish, Goto, TypeOK
  <1>7. CASE Commit(c)
    BY <1>0, <1>7 DEF Commit, Finish, Goto, TypeOK, OneWriter
  <1>8. CASE ExecuteItem(c)
    <2>1. ASSUME NEW d, NEW answer, Proceed(c, d, answer)
          PROVE  /\ pc'[x] = pc[x] /\ req'[x] = req[x] /\ todo'[x] = todo[x]
                 /\ work'[x] = work[x] /\ reply'[x] = reply[x] /\ db' = db /\ now' = now
      BY <1>0, <2>1 DEF Proceed, TypeOK
    <2>2. ASSUME NEW answer, RollBack(c, answer)
          PROVE  /\ pc'[x] = pc[x] /\ req'[x] = req[x] /\ todo'[x] = todo[x]
                 /\ work'[x] = work[x] /\ reply'[x] = reply[x] /\ db' = db /\ now' = now
      BY <1>0, <2>2 DEF RollBack, Finish, Goto, TypeOK
    <2> QED
      BY <1>8, <2>1, <2>2 DEF ExecuteItem, CreateEntities, AddObservations, CreateRelations,
         DeleteNamedEntities, DeleteMatchingObservations, DeleteObservationWithId,
         UpdateObservationWithId, UpdateMatchingObservations, DeleteRelations, UpsertTruth,
         DeleteTruth, Update, Dispatch, ClaimNext, PurgeFinished, ResetGraph
  <1> QED
    BY <1>1, <1>2, <1>3, <1>4, <1>5, <1>6, <1>7, <1>8 DEF Step

\* A call that is over has nothing to say about claims.
LEMMA FinishIsIdle ==
  ASSUME StoreInv, NEW c \in Callers, NEW answer, Finish(c, answer)
  PROVE  pc'[c] = "idle"
  BY DEF Finish, Goto, StoreInv, TypeOK

\* The items of a request are a list.
LEMMA RequestItems ==
  ASSUME StoreInv, NEW c \in Callers, pc[c] # "idle"
  PROVE  /\ req[c] \in Requests /\ Len(req[c].items) \in Nat
         /\ req[c].items \in Seq(ItemsOf(req[c].op))
  <1>1. req[c] \in Requests
    BY DEF StoreInv, TypeOK
  <1>2. req[c].items \in Seq(ItemsOf(req[c].op))
    BY <1>1, RequestsWellFormed
  <1> QED
    BY <1>1, <1>2, LenProperties

\* What is left of a list after its first k items.
LEMMA Rest ==
  ASSUME NEW S, NEW q \in Seq(S), NEW k \in 0..Len(q)
  PROVE  LET rest == SubSeq(q, k + 1, Len(q))
         IN  /\ rest = <<>> <=> k = Len(q)
             /\ k # Len(q) => /\ Head(rest) = q[k + 1]
                             /\ Tail(rest) = SubSeq(q, k + 2, Len(q))
  <1>0. Len(q) \in Nat /\ \A i \in 1..Len(q) : q[i] \in S
    BY LenProperties, ElementOfSeq
  <1>1. CASE k = Len(q)
    BY <1>0, <1>1, SubSeqEmpty
  <1>2. CASE k # Len(q)
    <2>1. k + 1 \in 1..Len(q) /\ Len(q) \in (k + 1)..Len(q) /\ (k + 1) + 1 = k + 2
      BY <1>0, <1>2
    <2>2. /\ Head(SubSeq(q, k + 1, Len(q))) = q[k + 1]
          /\ Tail(SubSeq(q, k + 1, Len(q))) = SubSeq(q, k + 2, Len(q))
      BY <2>1, HeadTailOfSubSeq
    <2>3. Len(SubSeq(q, k + 1, Len(q))) = Len(q) - k
      BY <1>0, <2>1, SubSeqProperties
    <2>4. SubSeq(q, k + 1, Len(q)) # <<>>
      <3>1. Len(q) - k # 0
        BY <1>0, <1>2
      <3>2. Len(<<>>) = 0
        BY EmptySeq
      <3> QED
        BY <2>3, <3>1, <3>2
    <2> QED
      BY <1>2, <2>2, <2>4
  <1> QED
    BY <1>1, <1>2

\* A call that is over, or has committed, has nothing left to say.
LEMMA OverCallState ==
  ASSUME NEW c \in Callers, CallState(c),
         \/ pc'[c] = "idle" /\ req'[c] = NoRequest
         \/ pc'[c] = "vacuum" /\ req'[c] = req[c]
  PROVE  CallState(c)'
  BY DEF CallState, Writing, NoRequest

LEMMA FinishCallState ==
  ASSUME StoreInv, NEW c \in Callers, CallState(c), NEW answer, Finish(c, answer)
  PROVE  CallState(c)'
  <1>1. pc'[c] = "idle" /\ req'[c] = NoRequest
    BY DEF Finish, Goto, StoreInv, TypeOK
  <1> QED
    BY <1>1, OverCallState

\* A call that moves between the phases before its transaction.
LEMMA GotoCallState ==
  ASSUME StoreInv, NEW c \in Callers, CallState(c), NEW phase \in {"abandon", "retain", "begin"},
         pc[c] \in {"sweep", "abandon", "retain"}, Goto(c, phase), UNCHANGED <<req, todo>>,
         phase = "begin" => req[c].op # "sweep"
  PROVE  CallState(c)'
  <1>1. pc'[c] = phase
    BY DEF Goto, StoreInv, TypeOK
  <1> QED
    BY <1>1 DEF CallState, Writing

\* The start of a call.
LEMMA CallCallState ==
  ASSUME StoreInv, NEW c \in Callers, CallState(c), NEW r \in Requests,
         Call(c, r) \/ RefuseUpdate(c, r)
  PROVE  CallState(c)'
  <1>1. CASE Call(c, r)
    <2>1. /\ pc'[c] = IF r.op = "sweep" THEN "abandon" ELSE "sweep"
          /\ req'[c] = r /\ todo'[c] = IF r.op = "sweep" THEN <<>> ELSE r.items
      BY <1>1 DEF Call, Goto, StoreInv, TypeOK
    <2>2. r.op = "update" => \A j \in DOMAIN r.items : ~InvalidUpdate(r.items[j])
      BY <1>1 DEF Call
    <2> QED
      BY <2>1, <2>2 DEF CallState, Writing
  <1>2. CASE RefuseUpdate(c, r)
    BY <1>2 DEF RefuseUpdate, CallState, Writing
  <1> QED
    BY <1>1, <1>2

\* The transaction opens on the file as it is, with every item to do.
LEMMA BeginCallState ==
  ASSUME StoreInv, NEW c \in Callers, CallState(c), BeginImmediate(c)
  PROVE  CallState(c)'
  <1>1. /\ pc[c] = "begin" /\ pc'[c] = "exec" /\ req'[c] = req[c] /\ todo'[c] = todo[c]
        /\ work'[c] = db /\ reply'[c] = Done /\ UNCHANGED <<db, now>>
    BY DEF BeginImmediate, Goto, StoreInv, TypeOK
  <1>2. req[c].op # "sweep" /\ todo[c] = req[c].items
    BY <1>1 DEF CallState
  <1>3. Len(req[c].items) \in Nat /\ req[c].items \in Seq(ItemsOf(req[c].op))
    BY <1>1, RequestItems
  <1>4. todo[c] = SubSeq(req[c].items, 0 + 1, Len(req[c].items))
    BY <1>2, <1>3, SubSeqFull
  <1>5. Outcomes(db, req[c], now)[0] = Outcome(db, Done)
    BY <1>3, OutcomesStart
  <1>6. Executed(c, 0)'
    BY <1>1, <1>3, <1>4, <1>5 DEF Executed
  <1> QED
    BY <1>1, <1>2, <1>6, Accepted DEF CallState

\* One more item is executed.
LEMMA ItemCallState ==
  ASSUME StoreInv, NEW c \in Callers, CallState(c), ExecuteItem(c)
  PROVE  CallState(c)'
  <1>0. Writing(c) /\ todo[c] # <<>>
    BY DEF ExecuteItem, CreateEntities, AddObservations, CreateRelations,
         DeleteNamedEntities, DeleteMatchingObservations, DeleteObservationWithId,
         UpdateObservationWithId, UpdateMatchingObservations, DeleteRelations, UpsertTruth,
         DeleteTruth, Update, Dispatch, ClaimNext, PurgeFinished, ResetGraph, Executing
  <1>1. ASSUME NEW answer, RollBack(c, answer)
        PROVE  CallState(c)'
    BY <1>1, FinishCallState DEF RollBack
  <1>2. ASSUME NEW e, NEW answer, ItemResult(c) = Outcome(e, answer), answer \notin Refusals,
               Proceed(c, e, answer)
        PROVE  CallState(c)'
    <2>1. /\ pc'[c] = "exec" /\ req'[c] = req[c] /\ todo'[c] = Tail(todo[c])
          /\ work'[c] = e /\ reply'[c] = answer /\ UNCHANGED <<db, now>>
      BY <1>0, <1>2 DEF Proceed, Writing, StoreInv, TypeOK
    <2>2. PICK k \in Nat : Executed(c, k)
      BY <1>0 DEF CallState
    <2>3. reply[c] \notin Refusals /\ req[c].op # "sweep"
      BY <1>0 DEF CallState, Writing
    <2>4. Len(req[c].items) \in Nat /\ req[c].items \in Seq(ItemsOf(req[c].op))
      BY <1>0, RequestItems DEF Writing
    <2>5. /\ k # Len(req[c].items)
          /\ Item(c) = req[c].items[k + 1]
          /\ Tail(todo[c]) = SubSeq(req[c].items, k + 2, Len(req[c].items))
      BY <1>0, <2>2, <2>4, Rest DEF Executed, Item
    <2>6. k + 1 \in 1..Len(req[c].items) /\ (k + 1) - 1 = k /\ (k + 1) + 1 = k + 2
      BY <2>2, <2>4, <2>5 DEF Executed
    <2>7. Outcomes(db, req[c], now)[k + 1] = AfterItem(Outcome(work[c], reply[c]), req[c], k + 1, now)
      BY SMTT(30), <2>2, <2>4, <2>6, OutcomesStep DEF Executed
    <2>8. AfterItem(Outcome(work[c], reply[c]), req[c], k + 1, now) = ItemResult(c)
      BY <2>3, <2>5, OutcomeParts DEF AfterItem, ItemResult
    <2>9. Executed(c, k + 1)'
      <3>1. k + 1 \in 0..Len(req'[c].items)
        BY <2>1, <2>4, <2>6
      <3>2. todo'[c] = SubSeq(req'[c].items, (k + 1) + 1, Len(req'[c].items))
        BY <2>1, <2>5, <2>6
      <3>3. Outcomes(db', req'[c], now')[k + 1] = Outcome(work'[c], reply'[c])
        BY <1>2, <2>1, <2>7, <2>8
      <3> QED
        BY <3>1, <3>2, <3>3 DEF Executed
    <2> QED
      BY <1>2, <2>1, <2>3, <2>6, <2>9 DEF CallState
  <1> QED
    BY <1>1, <1>2, ItemObeys DEF Obeys

\* A caller's own step keeps what holds of its call.
LEMMA OwnCallState ==
  ASSUME StoreInv, NEW c \in Callers, CallState(c), Step(c)
  PROVE  CallState(c)'
  <1>1. CASE SweepExpiredOnce(c)
    BY <1>1, GotoCallState DEF SweepExpiredOnce, CallState
  <1>2. CASE AbandonIdleTasks(c)
    BY <1>2, GotoCallState DEF AbandonIdleTasks
  <1>3. CASE DeleteFinishedTasks(c)
    BY <1>3, GotoCallState, FinishCallState DEF DeleteFinishedTasks
  <1>4. CASE SweepFails(c)
    BY <1>4, GotoCallState, FinishCallState DEF SweepFails
  <1>5. CASE TransactionFails(c) \/ Vacuum(c) \/ Cancel(c)
    BY <1>5, FinishCallState DEF TransactionFails, Vacuum, Cancel
  <1>6. CASE Commit(c)
    <2>1. ASSUME Goto(c, "vacuum"), UNCHANGED req
          PROVE  CallState(c)'
      BY <2>1, OverCallState DEF Goto, StoreInv, TypeOK
    <2> QED
      BY <1>6, <2>1, FinishCallState DEF Commit
  <1> QED
    BY <1>1, <1>2, <1>3, <1>4, <1>5, <1>6, CallCallState, BeginCallState, ItemCallState DEF Step

\* Every step keeps what holds of every call.
LEMMA NextCallInv == StoreInv /\ CallInv /\ [Next]_vars => CallInv'
  <1> SUFFICES ASSUME StoreInv, CallInv, [Next]_vars, NEW x \in Callers
               PROVE  CallState(x)'
    BY DEF CallInv
  <1>0. CallState(x)
    BY DEF CallInv
  <1>1. ASSUME NEW c \in Callers, Step(c)
        PROVE  CallState(x)'
    <2>1. CASE x = c
      BY <1>0, <1>1, <2>1, OwnCallState
    <2>2. CASE x # c
      <3>1. /\ pc'[x] = pc[x] /\ req'[x] = req[x] /\ todo'[x] = todo[x]
            /\ work'[x] = work[x] /\ reply'[x] = reply[x] /\ now' = now
            /\ Writing(x) => db' = db
        BY <1>1, <2>2, OthersUnmoved
      <3>2. Writing(x)' => Writing(x)
        BY <3>1 DEF Writing
      <3>3. ASSUME NEW k \in Nat, Writing(x), Executed(x, k)
            PROVE  Executed(x, k)'
        BY <3>1, <3>3 DEF Executed
      <3> QED
        BY <1>0, <3>1, <3>2, <3>3 DEF CallState
    <2> QED
      BY <2>1, <2>2
  <1>2. ASSUME NEW h \in Handles, Restart(h)
        PROVE  CallState(x)'
    <2>1. CASE HandleOf[x] = h
      <3>1. pc'[x] = "idle" /\ req'[x] = NoRequest
        BY <1>2, <2>1 DEF Restart
      <3> QED
        BY <1>0, <3>1, OverCallState
    <2>2. CASE HandleOf[x] # h
      <3>1. /\ pc'[x] = pc[x] /\ req'[x] = req[x] /\ todo'[x] = todo[x]
            /\ work'[x] = work[x] /\ reply'[x] = reply[x] /\ now' = now /\ db' = db
        BY <1>2, <2>2 DEF Restart
      <3> QED
        BY <1>0, <3>1 DEF CallState, Writing, Executed
    <2> QED
      BY <2>1, <2>2
  <1>3. CASE Tick
    <2>1. ~Writing(x) /\ UNCHANGED <<pc, req, todo>>
      BY <1>3 DEF Tick, LockFree
    <2> QED
      BY <1>0, <2>1 DEF CallState, Writing
  <1>4. CASE UNCHANGED vars
    BY <1>0, <1>4 DEF vars, CallState, Writing, Executed
  <1> QED
    BY <1>1, <1>2, <1>3, <1>4 DEF Next

LEMMA InitCallInv == Init => CallInv
  BY DEF Init, CallInv, CallState, Writing, NoRequest

----------------------------------------------------------------------------
(* The refinement. *)

\* A call that ends: what it shows is its answer.
LEMMA FinishMoves ==
  ASSUME StoreInv, NEW c \in Callers, NEW answer, Finish(c, answer)
  PROVE  Promise!Move(c, "idle", NoRequest, answer)
  BY DEF Promise!Move, Finish, Goto, Phase, StoreInv, TypeOK

\* A call that goes on, and shows nothing.
LEMMA PendingStutters ==
  ASSUME StoreInv, NEW c \in Callers, NEW phase \in Phases \ {"idle", "vacuum"},
         pc[c] \notin {"idle", "vacuum"}, pc' = [pc EXCEPT ![c] = phase], UNCHANGED req,
         \A x \in Callers : x # c => reply'[x] = reply[x]
  PROVE  /\ [x \in Callers |-> Phase(x)]' = [x \in Callers |-> Phase(x)]
         /\ [x \in Callers |-> IF pc[x] = "idle" THEN reply[x] ELSE NoAnswer]'
              = [x \in Callers |-> IF pc[x] = "idle" THEN reply[x] ELSE NoAnswer]
         /\ req' = req
  BY DEF Phase, StoreInv, TypeOK

\* What the call promises is what its transaction has made of its view.
LEMMA CommitOutcome ==
  ASSUME StoreInv, NEW c \in Callers, CallState(c), Writing(c), todo[c] = <<>>
  PROVE  RequestOutcome(db, req[c], now) = Outcome(work[c], reply[c])
  <1>1. PICK k \in Nat : Executed(c, k)
    BY DEF CallState
  <1>2. Len(req[c].items) \in Nat /\ req[c].items \in Seq(ItemsOf(req[c].op))
    BY RequestItems DEF Writing
  <1>3. k = Len(req[c].items)
    BY <1>1, <1>2, Rest DEF Executed
  <1>4. Outcomes(db, req[c], now)[Len(req[c].items)] = Outcome(work[c], reply[c])
    BY <1>1, <1>3 DEF Executed
  <1>5. reply[c] \notin Refusals
    BY DEF CallState
  <1> QED
    BY <1>4, <1>5, OutcomeParts DEF RequestOutcome

\* What the call promises when its only item is refused.
LEMMA RefusedOutcome ==
  ASSUME StoreInv, NEW c \in Callers, CallState(c), Writing(c), todo[c] # <<>>,
         req[c].op \notin ListOperations, NEW answer, ItemResult(c) = Outcome(work[c], answer)
  PROVE  RequestOutcome(db, req[c], now) = Outcome(db, answer)
  <1>1. PICK k \in Nat : Executed(c, k)
    BY DEF CallState
  <1>2. Len(req[c].items) \in Nat /\ req[c].items \in Seq(ItemsOf(req[c].op))
    BY RequestItems DEF Writing
  <1>3. Len(req[c].items) = 1
    <2>1. req[c] \in Requests /\ req[c].op # "sweep"
      BY RequestItems DEF CallState, Writing
    <2> QED
      BY <2>1, StoreAssumption DEF WellFormed
  <1>4. k = 0 /\ Item(c) = req[c].items[1]
    <2>1. k # 1
      BY <1>1, <1>2, <1>3, Rest DEF Executed
    <2>2. k = 0
      BY <1>1, <1>3, <2>1 DEF Executed
    <2> QED
      BY <1>1, <1>2, <1>3, <2>2, Rest DEF Executed, Item
  <1>5. Outcomes(db, req[c], now)[0] = Outcome(db, Done) /\ work[c] = db
    <2>1. Outcomes(db, req[c], now)[0] = Outcome(db, Done)
      BY <1>2, OutcomesStart
    <2>2. Outcome(db, Done) = Outcome(work[c], reply[c])
      BY <1>1, <1>4, <2>1 DEF Executed
    <2> QED
      BY <2>1, <2>2, OutcomeParts
  <1> QED
    BY <1>3, <1>4, <1>5, SingleOutcome, OutcomeParts DEF ItemResult

\* The start of a call, or its refusal at once.
LEMMA CallRefines ==
  ASSUME StoreInv, NEW c \in Callers, CallState(c), NEW r \in Requests
  PROVE  /\ Call(c, r) => Promise!Ask(c, r)
         /\ RefuseUpdate(c, r) => Promise!RefuseArguments(c)
  <1>1. ASSUME Call(c, r)
        PROVE  Promise!Ask(c, r)
    <2>1. /\ pc[c] = "idle" /\ UNCHANGED <<db, now>>
          /\ pc' = [pc EXCEPT ![c] = IF r.op = "sweep" THEN "abandon" ELSE "sweep"]
          /\ req' = [req EXCEPT ![c] = r]
          /\ reply' = [reply EXCEPT ![c] = NoAnswer]
      BY <1>1 DEF Call, Goto
    <2>2. Promise!Move(c, "pending", r, NoAnswer)
      BY <2>1 DEF Promise!Move, Phase, StoreInv, TypeOK
    <2> QED
      BY <2>1, <2>2 DEF Promise!Ask, Phase
  <1>2. ASSUME RefuseUpdate(c, r)
        PROVE  Promise!RefuseArguments(c)
    <2>1. /\ pc[c] = "idle" /\ UNCHANGED <<db, now, pc, req>>
          /\ reply' = [reply EXCEPT ![c] = Invalid]
      BY <1>2 DEF RefuseUpdate
    <2>2. req[c] = NoRequest
      BY <2>1 DEF CallState
    <2>3. Promise!Move(c, "idle", NoRequest, Invalid)
      BY <2>1, <2>2 DEF Promise!Move, Phase, StoreInv, TypeOK
    <2> QED
      BY <2>1, <2>3 DEF Promise!RefuseArguments, Phase
  <1> QED
    BY <1>1, <1>2

\* A step of the implementation is a step of the promise, or none.
Kept == Promise!Next \/ UNCHANGED Promise!vars

\* A caller's step that the promise does not see.
LEMMA HiddenRefines ==
  ASSUME StoreInv, NEW c \in Callers, NEW phase \in Phases \ {"idle", "vacuum"},
         pc[c] \notin {"idle", "vacuum"}, pc' = [pc EXCEPT ![c] = phase],
         \A x \in Callers : x # c => reply'[x] = reply[x], UNCHANGED <<db, now, req>>
  PROVE  Kept
  BY PendingStutters DEF Kept, Promise!vars

\* The two transactions of a sweep a write owes.
LEMMA HousekeepRefines ==
  ASSUME StoreInv, NEW c \in Callers, NEW phase \in Phases \ {"idle", "vacuum"},
         pc[c] \notin {"idle", "vacuum"}, pc' = [pc EXCEPT ![c] = phase],
         UNCHANGED <<now, req, reply>>,
         \/ db' = db
         \/ AbandonDays > 0 /\ db' = AbandonIdle(db, AbandonDays, now)
         \/ RetentionDays > 0 /\ db' = Purge(db, RetentionDays, now)
  PROVE  Kept
  <1>1. CASE db' = db
    BY <1>1, HiddenRefines
  <1>2. CASE \/ AbandonDays > 0 /\ db' = AbandonIdle(db, AbandonDays, now)
             \/ RetentionDays > 0 /\ db' = Purge(db, RetentionDays, now)
    <2>1. Promise!AbandonRule \/ Promise!RetainRule
      BY <1>2 DEF Promise!AbandonRule, Promise!RetainRule
    <2>2. Phase(c) = "pending"
      BY DEF Phase
    <2>3. Promise!Housekeep(c)
      BY <2>1, <2>2, PendingStutters DEF Promise!Housekeep
    <2> QED
      BY <2>3 DEF Kept, Promise!Next
  <1> QED
    BY <1>1, <1>2

LEMMA AbandonIdleTasksRefines ==
  ASSUME StoreInv, NEW c \in Callers, AbandonIdleTasks(c)
  PROVE  Kept
  <1>1. /\ pc[c] = "abandon" /\ pc' = [pc EXCEPT ![c] = "retain"]
        /\ UNCHANGED <<now, req, reply>>
    BY DEF AbandonIdleTasks, Goto
  <1>2. db' = db \/ (AbandonDays > 0 /\ db' = AbandonIdle(db, AbandonDays, now))
    <2>0. AbandonDays \in Nat
      BY StoreAssumption
    <2>1. AbandonDays = 0 \/ (AbandonDays # 0 /\ AbandonDays > 0)
      BY <2>0
    <2>2. db' = IF AbandonDays = 0 THEN db ELSE AbandonIdle(db, AbandonDays, now)
      BY DEF AbandonIdleTasks
    <2> QED
      BY <2>1, <2>2
  <1> QED
    BY <1>1, <1>2, HousekeepRefines DEF Phases

LEMMA DeleteFinishedTasksRefines ==
  ASSUME StoreInv, NEW c \in Callers, DeleteFinishedTasks(c)
  PROVE  Kept
  <1>1. db' = db \/ (RetentionDays > 0 /\ db' = Purge(db, RetentionDays, now))
    <2>0. RetentionDays \in Nat
      BY StoreAssumption
    <2>1. RetentionDays = 0 \/ (RetentionDays # 0 /\ RetentionDays > 0)
      BY <2>0
    <2>2. db' = IF RetentionDays = 0 THEN db ELSE Purge(db, RetentionDays, now)
      BY DEF DeleteFinishedTasks
    <2> QED
      BY <2>1, <2>2
  <1>2. CASE req[c].op # "sweep"
    <2>1. /\ pc[c] = "retain" /\ pc' = [pc EXCEPT ![c] = "begin"]
          /\ UNCHANGED <<now, req, reply>>
      BY <1>2 DEF DeleteFinishedTasks, Goto
    <2> QED
      BY <1>1, <2>1, HousekeepRefines DEF Phases
  <1>3. CASE req[c].op = "sweep"
    <2>1. PICK answer \in {Done, Failed} : Finish(c, answer)
      BY <1>3 DEF DeleteFinishedTasks
    <2>2. Promise!Move(c, "idle", NoRequest, answer)
      BY <2>1, FinishMoves
    <2>3. Phase(c) = "pending" /\ now' = now
      BY DEF DeleteFinishedTasks, Phase
    <2>4. Promise!EndSweep(c)
      BY <1>1, <1>3, <2>2, <2>3 DEF Promise!EndSweep, Promise!RetainRule
    <2> QED
      BY <2>4 DEF Kept, Promise!Next
  <1> QED
    BY <1>2, <1>3

\* An error undoes a call, whatever it has done in its view.
LEMMA FailureRefines ==
  ASSUME StoreInv, NEW c \in Callers, pc[c] \notin {"idle", "vacuum"}, Finish(c, Failed),
         UNCHANGED <<db, now>>
  PROVE  Kept
  <1>1. Promise!Move(c, "idle", NoRequest, Failed)
    BY FinishMoves
  <1>2. Promise!Refuse(c)
    BY <1>1 DEF Promise!Refuse, Phase
  <1> QED
    BY <1>2 DEF Kept, Promise!Next

LEMMA SweepFailsRefines ==
  ASSUME StoreInv, NEW c \in Callers, SweepFails(c)
  PROVE  Kept
  <1>1. CASE req[c].op = "sweep"
    BY <1>1, FailureRefines DEF SweepFails
  <1>2. CASE req[c].op # "sweep"
    <2>1. /\ pc[c] \in {"abandon", "retain"} /\ pc' = [pc EXCEPT ![c] = "begin"]
          /\ UNCHANGED <<db, now, req, reply>>
      BY <1>2 DEF SweepFails, Goto
    <2> QED
      BY <2>1, HiddenRefines DEF Phases
  <1> QED
    BY <1>1, <1>2

\* The instant a call takes effect.
LEMMA PerformRefines ==
  ASSUME StoreInv, NEW c \in Callers, Writing(c), req[c].op # "sweep",
         NEW answer, RequestOutcome(db, req[c], now) = Outcome(db', answer), now' = now,
         Finish(c, answer) \/ Finish(c, NoAnswer)
  PROVE  Kept
  <1>1. \E a \in {answer, NoAnswer} : Promise!Move(c, "idle", NoRequest, a)
    BY FinishMoves
  <1>2. Phase(c) = "pending"
    BY DEF Phase, Writing
  <1>3. Promise!Perform(c)
    BY <1>1, <1>2, OutcomeParts DEF Promise!Perform
  <1> QED
    BY <1>3 DEF Kept, Promise!Next

LEMMA CommitRefines ==
  ASSUME StoreInv, NEW c \in Callers, CallState(c), Commit(c)
  PROVE  Kept
  <1>1. Writing(c) /\ todo[c] = <<>> /\ db' = work[c] /\ now' = now /\ req[c].op # "sweep"
    BY DEF Commit, CallState, Writing
  <1>2. RequestOutcome(db, req[c], now) = Outcome(db', reply[c])
    BY <1>1, CommitOutcome
  <1>3. ASSUME NEW answer \in {reply[c], NoAnswer}, Finish(c, answer)
        PROVE  Kept
    BY <1>1, <1>2, <1>3, PerformRefines
  <1>4. ASSUME req[c].op \in {"purge", "reset"}, Goto(c, "vacuum"), UNCHANGED <<req, reply>>
        PROVE  Kept
    <2>1. /\ pc[c] = "exec" /\ pc' = [pc EXCEPT ![c] = "vacuum"]
          /\ UNCHANGED <<req, reply>>
      BY <1>1, <1>4 DEF Goto, Writing
    <2>2. Promise!Move(c, "applied", req[c], NoAnswer)
      BY <2>1 DEF Promise!Move, Phase, StoreInv, TypeOK
    <2>3. Phase(c) = "pending"
      BY <2>1 DEF Phase
    <2>4. Promise!Perform(c)
      BY <1>1, <1>2, <1>4, <2>2, <2>3, OutcomeParts DEF Promise!Perform
    <2> QED
      BY <2>4 DEF Kept, Promise!Next
  <1> QED
    BY <1>3, <1>4 DEF Commit

LEMMA VacuumRefines ==
  ASSUME StoreInv, NEW c \in Callers, Vacuum(c)
  PROVE  Kept
  <1>1. PICK answer \in {Done, Failed} : Finish(c, answer)
    BY DEF Vacuum
  <1>2. Promise!Move(c, "idle", NoRequest, answer)
    BY <1>1, FinishMoves
  <1>3. Promise!AnswerApplied(c)
    BY <1>2 DEF Promise!AnswerApplied, Phase, Vacuum
  <1> QED
    BY <1>3 DEF Kept, Promise!Next

\* An item shows nothing, or refuses the call.
LEMMA ItemRefines ==
  ASSUME StoreInv, NEW c \in Callers, CallState(c), ExecuteItem(c)
  PROVE  Kept
  <1>0. Writing(c) /\ todo[c] # <<>> /\ req[c].op # "sweep"
    BY DEF ExecuteItem, CreateEntities, AddObservations, CreateRelations,
         DeleteNamedEntities, DeleteMatchingObservations, DeleteObservationWithId,
         UpdateObservationWithId, UpdateMatchingObservations, DeleteRelations, UpsertTruth,
         DeleteTruth, Update, Dispatch, ClaimNext, PurgeFinished, ResetGraph, Executing
  <1>1. CASE RollBack(c, Failed)
    BY <1>0, <1>1, FailureRefines DEF RollBack, Writing
  <1>2. ASSUME NEW e, NEW answer, ItemResult(c) = Outcome(e, answer), RollBack(c, answer),
               e = work[c], req[c].op \notin ListOperations
        PROVE  Kept
    <2>1. RequestOutcome(db, req[c], now) = Outcome(db, answer)
      BY <1>0, <1>2, RefusedOutcome
    <2> QED
      BY <1>0, <1>2, <2>1, PerformRefines DEF RollBack
  <1>3. ASSUME NEW e, NEW answer, Proceed(c, e, answer)
        PROVE  Kept
    <2>1. /\ pc[c] = "exec" /\ pc' = [pc EXCEPT ![c] = "exec"] /\ UNCHANGED <<db, now, req>>
          /\ \A x \in Callers : x # c => reply'[x] = reply[x]
      BY <1>0, <1>3 DEF Proceed, Writing, StoreInv, TypeOK
    <2> QED
      BY <2>1, HiddenRefines DEF Phases
  <1> QED
    BY <1>1, <1>2, <1>3, ItemObeys DEF Obeys

\* Callers are cut off.
LEMMA CancelRefines ==
  ASSUME StoreInv, NEW c \in Callers, Cancel(c)
  PROVE  Kept
  <1>1. /\ pc' = [pc EXCEPT ![c] = "idle"] /\ req' = [req EXCEPT ![c] = NoRequest]
        /\ reply' = [reply EXCEPT ![c] = NoAnswer] /\ UNCHANGED <<db, now>>
    BY DEF Cancel, Finish, Goto
  <1>2. Promise!CutOff({c})
    BY <1>1 DEF Promise!CutOff, Phase, StoreInv, TypeOK
  <1> QED
    BY <1>2 DEF Kept, Promise!Next

LEMMA RestartRefines ==
  ASSUME StoreInv, NEW h \in Handles, Restart(h)
  PROVE  Kept
  <1> DEFINE lost == {x \in Callers : HandleOf[x] = h}
  <1>1. /\ pc' = [x \in Callers |-> IF x \in lost THEN "idle" ELSE pc[x]]
        /\ req' = [x \in Callers |-> IF x \in lost THEN NoRequest ELSE req[x]]
        /\ reply' = [x \in Callers |-> IF x \in lost THEN NoAnswer ELSE reply[x]]
        /\ UNCHANGED <<db, now>>
    BY DEF Restart
  <1>2. lost \in SUBSET Callers
    OBVIOUS
  <1> HIDE DEF lost
  <1>3. Promise!CutOff(lost)
    BY <1>1 DEF Promise!CutOff, Phase, StoreInv, TypeOK
  <1> QED
    BY <1>2, <1>3 DEF Kept, Promise!Next

\* Every step of the store is a step its callers have been promised.
LEMMA NextRefines ==
  ASSUME StoreInv, CallInv, [Next]_vars
  PROVE  Kept
  <1>1. ASSUME NEW c \in Callers, Step(c)
        PROVE  Kept
    <2>0. CallState(c)
      BY DEF CallInv
    <2>1. ASSUME NEW r \in Requests, Call(c, r) \/ RefuseUpdate(c, r)
          PROVE  Kept
      BY <2>0, <2>1, CallRefines DEF Kept, Promise!Next
    <2>2. CASE SweepExpiredOnce(c)
      <3>1. PICK phase \in {"begin", "abandon"} : pc' = [pc EXCEPT ![c] = phase]
        BY <2>2 DEF SweepExpiredOnce, Goto
      <3> QED
        BY <2>2, <3>1, HiddenRefines DEF SweepExpiredOnce, Phases
    <2>3. CASE BeginImmediate(c)
      <3>1. /\ pc[c] = "begin" /\ pc' = [pc EXCEPT ![c] = "exec"] /\ UNCHANGED <<db, now, req>>
            /\ \A x \in Callers : x # c => reply'[x] = reply[x]
        BY <2>3 DEF BeginImmediate, Goto, StoreInv, TypeOK
      <3> QED
        BY <3>1, HiddenRefines DEF Phases
    <2>4. CASE TransactionFails(c)
      BY <2>4, FailureRefines DEF TransactionFails
    <2> QED
      BY <1>1, <2>0, <2>1, <2>2, <2>3, <2>4, AbandonIdleTasksRefines, DeleteFinishedTasksRefines,
         SweepFailsRefines, ItemRefines, CommitRefines, VacuumRefines, CancelRefines DEF Step
  <1>2. ASSUME NEW h \in Handles, Restart(h)
        PROVE  Kept
    BY <1>2, RestartRefines
  <1>3. CASE Tick
    <2>1. Promise!Tick
      BY <1>3 DEF Tick, Promise!Tick, Phase
    <2> QED
      BY <2>1 DEF Kept, Promise!Next
  <1>4. CASE UNCHANGED vars
    BY <1>4 DEF vars, Kept, Promise!vars, Phase
  <1> QED
    BY <1>1, <1>2, <1>3, <1>4 DEF Next

LEMMA InitRefines == Init => Promise!Init
  BY DEF Init, Promise!Init, Phase

\* Every call is atomic.
THEOREM CallsAreAtomic == Spec => CallsAtomic
  <1>1. StoreInv /\ CallInv /\ [Next]_vars => [Promise!Next]_(Promise!vars)
    BY NextRefines DEF Kept
  <1> QED
    BY <1>1, InitRefines, InitCallInv, NextCallInv, StoreInvariant, PTL
       DEF Spec, CallsAtomic, Promise!Spec

----------------------------------------------------------------------------
(* The steps that change the file. *)

\* A step that changes the file.
LEMMA ChangingStep ==
  ASSUME StoreInv, [Next]_vars, db' # db
  PROVE  \E c \in Callers : Commit(c) \/ DeleteFinishedTasks(c) \/ AbandonIdleTasks(c)
  <1>1. \A h \in Handles : ~Restart(h)
    BY DEF Restart
  <1>2. ~Tick /\ ~UNCHANGED vars
    BY DEF Tick, vars
  <1>3. PICK c \in Callers : Step(c)
    BY <1>1, <1>2 DEF Next
  <1>4. ~ExecuteItem(c)
    BY DEF ExecuteItem, CreateEntities, AddObservations, CreateRelations,
       DeleteNamedEntities, DeleteMatchingObservations, DeleteObservationWithId,
       UpdateObservationWithId, UpdateMatchingObservations, DeleteRelations, UpsertTruth,
       DeleteTruth, Update, Dispatch, ClaimNext, PurgeFinished, ResetGraph, Proceed, RollBack
  <1> QED
    BY <1>3, <1>4 DEF Step, Call, RefuseUpdate, SweepExpiredOnce, SweepFails, BeginImmediate,
       TransactionFails, Vacuum, Cancel

\* The caller that moves is the one that changes it.
LEMMA ChangingCaller ==
  ASSUME StoreInv, [Next]_vars, db' # db, NEW c \in Callers, pc'[c] # pc[c]
  PROVE  Commit(c) \/ DeleteFinishedTasks(c) \/ AbandonIdleTasks(c)
  <1>1. PICK x \in Callers : Commit(x) \/ DeleteFinishedTasks(x) \/ AbandonIdleTasks(x)
    BY ChangingStep
  <1>2. Step(x)
    BY <1>1 DEF Step
  <1>3. x = c
    BY <1>2, OthersUnmoved
  <1> QED
    BY <1>1, <1>3

\* What a commit publishes.
LEMMA CommittedCall ==
  ASSUME StoreInv, CallInv, NEW c \in Callers, Commit(c)
  PROVE  /\ req[c] \in Requests /\ req[c].op \in Operations \ {"sweep"}
         /\ req[c].items \in Seq(ItemsOf(req[c].op))
         /\ RequestOutcome(db, req[c], now) = Outcome(db', reply[c])
         /\ reply[c] \notin Refusals
         /\ req[c].op = "update" => \A j \in DOMAIN req[c].items : ~InvalidUpdate(req[c].items[j])
  <1>1. Writing(c) /\ todo[c] = <<>> /\ db' = work[c] /\ CallState(c)
    BY DEF Commit, CallInv
  <1>2. req[c] \in Requests /\ req[c].items \in Seq(ItemsOf(req[c].op))
    BY <1>1, RequestItems DEF Writing
  <1>3. req[c].op \in Operations
    BY <1>2, StoreAssumption DEF WellFormed
  <1> QED
    BY <1>1, <1>2, <1>3, CommitOutcome DEF CallState, Writing

\* What the commit of a call about one thing publishes.
LEMMA CommittedItem ==
  ASSUME StoreInv, CallInv, NEW c \in Callers, Commit(c), req[c].op \notin ListOperations
  PROVE  /\ 1 \in DOMAIN req[c].items /\ req[c].items[1] \in ItemsOf(req[c].op)
         /\ ItemOutcome(db, req[c].op, req[c].items[1], now) = Outcome(db', reply[c])
  <1>1. /\ req[c] \in Requests /\ req[c].op \in Operations \ {"sweep"}
        /\ req[c].items \in Seq(ItemsOf(req[c].op))
        /\ RequestOutcome(db, req[c], now) = Outcome(db', reply[c])
        /\ reply[c] \notin Refusals
    BY CommittedCall
  <1>2. Len(req[c].items) = 1
    BY <1>1, StoreAssumption DEF WellFormed
  <1>3. 1 \in DOMAIN req[c].items /\ req[c].items[1] \in ItemsOf(req[c].op)
    BY <1>1, <1>2, TypedItems
  <1>4. ItemOutcome(db, req[c].op, req[c].items[1], now) = Outcome(db', reply[c])
    <2> DEFINE o == ItemOutcome(db, req[c].op, req[c].items[1], now)
    <2>1. RequestOutcome(db, req[c], now) = IF o.answer \in Refusals THEN Outcome(db, o.answer) ELSE o
      BY <1>2, SingleOutcome
    <2> HIDE DEF o
    <2>2. o.answer \notin Refusals
      <3> SUFFICES ASSUME o.answer \in Refusals PROVE FALSE
        OBVIOUS
      <3>1. Outcome(db, o.answer) = Outcome(db', reply[c])
        BY <1>1, <2>1
      <3>2. Outcome(db, o.answer).answer = o.answer
        BY OutcomeParts
      <3>3. Outcome(db', reply[c]).answer = reply[c]
        BY OutcomeParts
      <3> QED
        BY <1>1, <3>1, <3>2, <3>3
    <2> QED
      BY <1>1, <2>1, <2>2 DEF o
  <1> QED
    BY <1>3, <1>4

----------------------------------------------------------------------------
(* Claims. *)

\* The step in which a caller is told that it has claimed a task is its
\* commit, and the commit moves that task.
LEMMA ClaimStep ==
  ASSUME StoreInv, [Next]_vars, NEW c \in Callers, NEW n \in Names, Claimed(c, n)
  PROVE  Commit(c) /\ reply[c] = Answer("claimed", {n})
  <1>0. pc[c] = "exec" /\ pc'[c] = "idle" /\ reply'[c] = Answer("claimed", {n}) /\ TypeOK
    BY DEF Claimed, StoreInv
  <1>1. ASSUME NEW answer, Finish(c, answer)
        PROVE  answer = Answer("claimed", {n})
    BY <1>0, <1>1 DEF Finish, TypeOK
  <1>2. ASSUME NEW x \in Callers, Step(x)
        PROVE  Commit(c) /\ reply[c] = Answer("claimed", {n})
    <2>1. x = c
      BY <1>0, <1>2, OthersUnmoved
    <2>2. ~TransactionFails(c) /\ ~Cancel(c)
      BY <1>1 DEF TransactionFails, Cancel, Answer, Failed, NoAnswer
    <2>3. ~ExecuteItem(c)
      <3>1. \A d, answer : ~Proceed(c, d, answer)
        BY <1>0 DEF Proceed
      <3>2. ~RollBack(c, Failed) /\ ~RollBack(c, NotFound) /\ ~RollBack(c, Invalid)
            /\ ~RollBack(c, Nothing)
        BY <1>1 DEF RollBack, Answer, Failed, NotFound, Invalid, Nothing
      <3> QED
        BY <3>1, <3>2 DEF ExecuteItem, CreateEntities, AddObservations, CreateRelations,
         DeleteNamedEntities, DeleteMatchingObservations, DeleteObservationWithId,
         UpdateObservationWithId, UpdateMatchingObservations, DeleteRelations, UpsertTruth,
         DeleteTruth, Update, Dispatch, ClaimNext, PurgeFinished, ResetGraph
    <2>4. Commit(c)
      BY <1>0, <1>2, <2>1, <2>2, <2>3 DEF Step, Call, RefuseUpdate, SweepExpiredOnce,
         AbandonIdleTasks, DeleteFinishedTasks, SweepFails, BeginImmediate, Vacuum
    <2>5. PICK answer \in {reply[c], NoAnswer} : Finish(c, answer)
      BY <1>0, <2>4 DEF Commit, Goto, TypeOK
    <2>6. answer = Answer("claimed", {n}) /\ answer # NoAnswer
      BY <1>1, <2>5 DEF Answer, NoAnswer
    <2> QED
      BY <2>4, <2>5, <2>6
  <1>3. ~Tick /\ ~UNCHANGED vars
    BY <1>0 DEF Tick, vars
  <1>4. ASSUME NEW h \in Handles, Restart(h)
        PROVE  FALSE
    <2>1. HandleOf[c] = h
      BY <1>0, <1>4 DEF Restart
    <2> QED
      BY <1>0, <1>4, <2>1 DEF Restart, Answer, NoAnswer
  <1> QED
    BY <1>2, <1>3, <1>4 DEF Next

\* However many callers, of however many processes, race for tasks: whoever is
\* told it has a task moved it from ready to dispatched in the file, under its
\* own name, in the instant it was told.
THEOREM ClaimsAreExclusive == Spec => ClaimsExclusive
  <1>1. StoreInv /\ CallInv /\ [Next]_vars =>
          [\A c \in Callers, n \in Names : Claimed(c, n) =>
             /\ StatusOf(db, n) = Ready
             /\ StatusOf(db', n) = Dispatched
             /\ \E i \in {req[c].items[j] : j \in DOMAIN req[c].items} :
                  db'.truth[n]["claimed_by"] = i.agent]_vars
    <2> SUFFICES ASSUME StoreInv, CallInv, [Next]_vars,
                        NEW c \in Callers, NEW n \in Names, Claimed(c, n)
                 PROVE  /\ StatusOf(db, n) = Ready
                        /\ StatusOf(db', n) = Dispatched
                        /\ \E i \in {req[c].items[j] : j \in DOMAIN req[c].items} :
                             db'.truth[n]["claimed_by"] = i.agent
      OBVIOUS
    <2>1. Commit(c) /\ reply[c] = Answer("claimed", {n})
      BY ClaimStep
    <2>2. req[c].op \in ClaimOps
      <3>1. RequestOutcome(db, req[c], now).answer = Answer("claimed", {n})
        BY <2>1, CommittedCall, OutcomeParts
      <3> QED
        BY <2>1, <3>1, CommittedCall, TypedItems, OnlyClaimsClaim
    <2>3. req[c].op \notin ListOperations
      BY <2>2 DEF ClaimOps, ListOperations
    <2> DEFINE i == req[c].items[1]
    <2>4. /\ i \in {req[c].items[j] : j \in DOMAIN req[c].items} /\ i \in ItemsOf(req[c].op)
          /\ ItemOutcome(db, req[c].op, i, now) = Outcome(db', Answer("claimed", {n}))
      BY <2>1, <2>3, CommittedItem
    <2>5. Consistent(db) /\ now \in Nat
      BY DEF StoreInv, TypeOK
    <2> HIDE DEF i
    <2>6. Moved(db, db', n, i.agent)
      BY <2>2, <2>4, <2>5, OutcomeParts, GrantedClaimMoves
    <2> QED
      BY <2>4, <2>6 DEF Moved
  <1> QED
    BY <1>1, InitCallInv, NextCallInv, StoreInvariant, PTL DEF Spec, ClaimsExclusive

----------------------------------------------------------------------------
(* Eviction. *)

\* Whatever a caller's observations push out of the file is older than what is
\* left of that entity, and the entity is left at the cap the call gave.
THEOREM EvictsOldest == Spec => EvictionKeepsNewest
  <1> DEFINE Oldest == \A c \in Callers :
         (pc[c] = "exec" /\ pc'[c] = "idle" /\ req[c].op \in {"add_observations", "update"})
         => \A o \in db.obs \ db'.obs :
              /\ \A p \in ObsOf(db', o.entity) : o.id < p.id
              /\ \E i \in {req[c].items[j] : j \in DOMAIN req[c].items} :
                   Cardinality(ObsOf(db', o.entity)) = Cap(i.limit)
  <1>1. StoreInv /\ CallInv /\ [Next]_vars => [Oldest]_vars
    <2> SUFFICES ASSUME StoreInv, CallInv, [Next]_vars, NEW c \in Callers,
                        pc[c] = "exec", pc'[c] = "idle",
                        req[c].op \in {"add_observations", "update"},
                        NEW o \in db.obs \ db'.obs
                 PROVE  /\ \A p \in ObsOf(db', o.entity) : o.id < p.id
                        /\ \E i \in {req[c].items[j] : j \in DOMAIN req[c].items} :
                             Cardinality(ObsOf(db', o.entity)) = Cap(i.limit)
      OBVIOUS
    <2>1. db' # db
      OBVIOUS
    <2>2. Commit(c)
      BY <2>1, ChangingCaller DEF DeleteFinishedTasks, AbandonIdleTasks
    <2>3. /\ req[c] \in Requests /\ req[c].items \in Seq(ItemsOf(req[c].op))
          /\ RequestOutcome(db, req[c], now) = Outcome(db', reply[c])
      BY <2>2, CommittedCall
    <2>4. Consistent(db) /\ now \in Nat
      BY DEF StoreInv, TypeOK
    <2>5. DOMAIN req[c].items # {}
      <3>1. CASE DOMAIN req[c].items = {}
        <4>1. \A j \in DOMAIN req[c].items : req[c].items[j].limit = 0
          BY <3>1
        <4>2. RequestOutcome(db, req[c], now) = Outcome(db, Done)
          <5>1. Len(req[c].items) = 0
            BY <2>3, <3>1, TypedItems
          <5> QED
            BY <5>1, OutcomesStart, OutcomeParts, Accepted DEF RequestOutcome
        <4>3. Outcome(db, Done).graph = db
          BY OutcomeParts
        <4>4. Outcome(db', reply[c]).graph = db'
          BY OutcomeParts
        <4> QED
          BY <2>1, <2>3, <4>2, <4>3, <4>4
      <3> QED
        BY <3>1
    <2>6. PICK k \in DOMAIN req[c].items : TRUE
      BY <2>5
    <2> DEFINE limit == req[c].items[k].limit
    <2>7. limit \in Nat
      <3>1. req[c].items[k] \in ItemsOf(req[c].op)
        BY <2>3, <2>6, TypedItems
      <3> QED
        BY <3>1 DEF ItemsOf
    <2>8. \A j \in DOMAIN req[c].items : req[c].items[j].limit = limit
      <3>1. WellFormed(req[c])
        BY <2>3, StoreAssumption
      <3>2. CASE req[c].op = "add_observations"
        BY <3>1, <3>2 DEF WellFormed
      <3>3. CASE req[c].op = "update"
        <4>1. Len(req[c].items) = 1
          BY <3>1, <3>3 DEF WellFormed, ListOperations, Operations, TaskOperations
        <4>2. DOMAIN req[c].items = {1}
          BY <2>3, <4>1, TypedItems
        <4> QED
          BY <4>2
      <3> QED
        BY <3>2, <3>3
    <2> HIDE DEF limit
    <2>9. Evicted(db, db', limit)
      BY <2>3, <2>4, <2>7, <2>8, CallEvicts, OutcomeParts
    <2> QED
      BY <2>6, <2>9 DEF Evicted, limit
  <1> QED
    BY <1>1, InitCallInv, NextCallInv, StoreInvariant, PTL DEF Spec, EvictionKeepsNewest

----------------------------------------------------------------------------
(* Abandonment. *)

\* What the sweep abandons.
LEMMA SweepAbandonsIdle ==
  ASSUME NEW d, Consistent(d), NEW days, NEW t, NEW n \in Names, StatusOf(d, n) # Abandoned,
         StatusOf(AbandonIdle(d, days, t), n) = Abandoned
  PROVE  n \in IdleTasks(d, days, t)
  <1> DEFINE tasks == IdleTasks(d, days, t)
             e == AbandonTasks(d, tasks, t)
  <1>1. e.truth = [m \in Names |-> IF m \in tasks THEN [d.truth[m] EXCEPT !["status"] = Abandoned]
                                   ELSE d.truth[m]]
    BY ConsistentIsDatabase DEF AbandonTasks, Databases
  <1> HIDE DEF tasks, e
  <1>2. n \notin tasks => e.truth[n] = d.truth[n]
    BY <1>1
  <1> QED
    BY <1>2 DEF StatusOf, AbandonIdle, tasks, e

\* No task that is being worked is abandoned, whatever runs beside the sweep:
\* it was untouched for the whole window and had no open child in the file.
THEOREM AbandonsIdleTasks == Spec => AbandonsOnlyIdle
  <1> DEFINE Idle == \A n \in Names : BecomesAbandoned(n) /\ ~WrittenByHand(n) =>
         /\ n \in Tasks(db) /\ Inactive(db, n, AbandonDays, now)
         /\ ~HasOpenChild(db, n)
  <1>1. StoreInv /\ CallInv /\ [Next]_vars => [Idle]_vars
    <2> SUFFICES ASSUME StoreInv, CallInv, [Next]_vars, NEW n \in Names,
                        BecomesAbandoned(n), ~WrittenByHand(n)
                 PROVE  /\ n \in Tasks(db) /\ Inactive(db, n, AbandonDays, now)
                        /\ ~HasOpenChild(db, n)
      OBVIOUS
    <2>0. /\ StatusOf(db, n) # Abandoned /\ StatusOf(db', n) = Abandoned
          /\ Consistent(db) /\ db \in Databases /\ now \in Nat /\ TypeOK
      BY ConsistentIsDatabase DEF BecomesAbandoned, StoreInv, TypeOK
    <2>1. db' # db
      BY <2>0
    <2>2. PICK c \in Callers : Commit(c) \/ DeleteFinishedTasks(c) \/ AbandonIdleTasks(c)
      BY <2>1, ChangingStep
    <2>3. CASE Commit(c)
      <3>1. /\ req[c].op \in Operations \ {"sweep"}
            /\ req[c].items \in Seq(ItemsOf(req[c].op))
            /\ RequestOutcome(db, req[c], now) = Outcome(db', reply[c])
            /\ req[c].op = "update" => \A j \in DOMAIN req[c].items : ~InvalidUpdate(req[c].items[j])
        BY <2>3, CommittedCall
      <3>2. RequestOutcome(db, req[c], now).graph = db'
        BY <3>1, OutcomeParts
      <3>3. /\ req[c].op = "truth_upsert"
            /\ \E i \in {req[c].items[j] : j \in DOMAIN req[c].items} :
                 Norm[i.name] = n /\ i.key = "status" /\ i.value = Abandoned
        BY <2>0, <3>1, <3>2, CallNeverAbandons
      <3>4. pc[c] = "exec" /\ pc'[c] = "idle"
        BY <2>0, <2>3, <3>3 DEF Commit, Writing, Finish, Goto, TypeOK
      <3> QED
        BY <3>3, <3>4 DEF WrittenByHand
    <2>4. CASE DeleteFinishedTasks(c)
      <3>1. db' = Purge(db, RetentionDays, now)
        BY <2>1, <2>4 DEF DeleteFinishedTasks
      <3>2. db'.truth[n]["status"] \in {Null, db.truth[n]["status"]}
        BY <2>0, <3>1, StatusGone DEF Purge
      <3>3. Null # Abandoned
        BY OpsAssumption, ColumnsAssumption DEF TerminalStatuses, Abandoned
      <3>4. db'.truth[n]["status"] = Abandoned /\ db.truth[n]["status"] # Abandoned
        <4>1. \A d : d.truth[n]["status"] = Abandoned <=> StatusOf(d, n) = Abandoned
          BY AbandonedTruth
        <4> QED
          BY <2>0, <4>1
      <3> QED
        BY <3>2, <3>3, <3>4
    <2>5. CASE AbandonIdleTasks(c)
      <3>1. db' = AbandonIdle(db, AbandonDays, now)
        BY <2>1, <2>5 DEF AbandonIdleTasks
      <3>2. n \in IdleTasks(db, AbandonDays, now)
        BY <2>0, <3>1, SweepAbandonsIdle
      <3> QED
        BY <3>2 DEF IdleTasks
    <2> QED
      BY <2>2, <2>3, <2>4, <2>5
  <1> QED
    BY <1>1, InitCallInv, NextCallInv, StoreInvariant, PTL DEF Spec, AbandonsOnlyIdle

----------------------------------------------------------------------------
(* The two steps of a task's end. *)

FinishedBefore ==
    /\ finishedSince \in [Names -> Nat]
    /\ \A n \in Names : Finished(db, n) =>
         finishedSince[n] <= db.activity[n] /\ finishedSince[n] <= now

\* It holds at the start.
LEMMA InitFinishedBefore == HInit => FinishedBefore
  <1> SUFFICES ASSUME HInit
               PROVE  FinishedBefore
    OBVIOUS
  <1>1. /\ db \in Databases /\ now = StartTime /\ StartTime \in Nat
        /\ \A n \in Names : db.activity[n] <= StartTime
    BY StoreAssumption DEF HInit, Init, Consistent
  <1>2. db.activity \in [Names -> Nat]
    BY <1>1, Columns
  <1>3. finishedSince = [n \in Names |-> IF Finished(db, n) THEN db.activity[n] ELSE 0]
    BY DEF HInit
  <1> QED
    BY <1>1, <1>2, <1>3 DEF FinishedBefore

\* Only the day passing moves the clock, and only while no transaction is open.
LEMMA StepKeepsClock ==
  ASSUME NEW c \in Callers, Step(c)
  PROVE  now' = now
  BY DEF Step, Call, RefuseUpdate, SweepExpiredOnce, AbandonIdleTasks,
     DeleteFinishedTasks, SweepFails, BeginImmediate, TransactionFails, Commit, Vacuum,
     Cancel, ExecuteItem, CreateEntities, AddObservations, CreateRelations,
     DeleteNamedEntities, DeleteMatchingObservations, DeleteObservationWithId,
     UpdateObservationWithId, UpdateMatchingObservations, DeleteRelations, UpsertTruth,
     DeleteTruth, Update, Dispatch, ClaimNext, PurgeFinished, ResetGraph, Proceed, RollBack

\* A finished task has a status, so it exists.
LEMMA FinishedIsLive ==
  ASSUME NEW d, Consistent(d), NEW n \in Names, Finished(d, n)
  PROVE  n \in Live(d)
  <1>1. d.truth[n]["status"] # Null /\ "status" \in Keys
    BY ColumnsAssumption DEF Finished, StatusOf, TerminalStatuses, Abandoned
  <1> QED
    BY <1>1 DEF Consistent, ReferentialIntegrity

\* Since when a task has been finished is never later than its last activity:
\* a change of status stamps the activity of the entity.
LEMMA NextFinishedBefore ==
  ASSUME StoreInv, StoreInv', FinishedBefore, [Next]_vars, Remember \/ UNCHANGED hvars
  PROVE  FinishedBefore'
  <1>0. /\ now \in Nat /\ now' \in Nat /\ now <= now'
        /\ db \in Databases /\ Consistent(db') /\ db' \in Databases
        /\ finishedSince \in [Names -> Nat]
    <2>1. now \in Nat /\ now' \in Nat /\ Consistent(db) /\ Consistent(db')
      BY DEF StoreInv, TypeOK
    <2>2. now' = now \/ now' = now + 1
      <3> QED
        BY StepKeepsClock DEF Next, Restart, Tick, vars
    <2> QED
      BY <2>1, <2>2, ConsistentIsDatabase DEF FinishedBefore
  <1>1. CASE UNCHANGED hvars
    BY <1>1 DEF hvars, vars, FinishedBefore
  <1>2. CASE Remember
    <2>1. finishedSince' = [n \in Names |-> CASE ~Finished(db', n) -> 0
                                              [] Finished(db, n)   -> finishedSince[n]
                                              [] OTHER             -> now]
      BY <1>2 DEF Remember
    <2>2. finishedSince' \in [Names -> Nat]
      BY <1>0, <2>1
    <2>3. ASSUME NEW n \in Names, Finished(db', n)
          PROVE  finishedSince'[n] <= db'.activity[n] /\ finishedSince'[n] <= now'
      <3>0. /\ n \in Live(db') /\ db.activity[n] \in Nat /\ db'.activity[n] \in Nat
            /\ finishedSince[n] \in Nat
        BY <1>0, <2>3, FinishedIsLive, Columns
      <3>1. CASE Finished(db, n)
        <4>1. finishedSince'[n] = finishedSince[n]
          BY <2>1, <2>3, <3>1
        <4>2. finishedSince[n] <= db.activity[n] /\ finishedSince[n] <= now
          BY <3>1 DEF FinishedBefore
        <4>3. db'.activity[n] = now \/ db'.activity[n] = db.activity[n]
          BY <3>0, NextEvolves DEF Evolves, Stamped
        <4> QED
          BY <1>0, <3>0, <4>1, <4>2, <4>3
      <3>2. CASE ~Finished(db, n)
        <4>1. finishedSince'[n] = now
          BY <2>1, <2>3, <3>2
        <4>2. db'.truth[n] # db.truth[n]
          BY <2>3, <3>2 DEF Finished, StatusOf
        <4>3. db'.activity[n] = now
          BY <3>0, <4>2, NextEvolves DEF Evolves, Stamped
        <4> QED
          BY <1>0, <4>1, <4>3
      <3> QED
        BY <3>1, <3>2
    <2> QED
      BY <2>2, <2>3 DEF FinishedBefore
  <1> QED
    BY <1>1, <1>2

\* Every step of the store keeps it.
LEMMA HistoryKept ==
  StoreInv /\ StoreInv' /\ FinishedBefore /\ [HNext]_hvars => FinishedBefore'
  <1> SUFFICES ASSUME StoreInv, StoreInv', FinishedBefore, [HNext]_hvars
               PROVE  FinishedBefore'
    OBVIOUS
  <1>1. [Next]_vars /\ (Remember \/ UNCHANGED hvars)
    BY DEF HNext, hvars
  <1> QED
    BY <1>1, NextFinishedBefore

\* What a purge deletes was finished for its window.
LEMMA PurgedLongFinished ==
  ASSUME StoreInv, FinishedBefore, NEW days \in Nat, NEW n \in Live(db),
         n \notin Live(Purge(db, days, now))
  PROVE  VisibleFor(n, days)
  <1> DEFINE gone == PurgeCandidates(db, days, now)
  <1>0. n \in Names /\ db \in Databases /\ now \in Nat
    BY ConsistentIsDatabase DEF Live, StoreInv, TypeOK
  <1>1. Purge(db, days, now).type = [m \in Names |-> IF m \in gone THEN Null ELSE db.type[m]]
    BY <1>0 DEF Purge, DeleteEntities, Databases
  <1>2. n \in gone
    BY <1>0, <1>1 DEF Live
  <1>3. Finished(db, n) /\ db.activity[n] + days < now
    BY <1>2 DEF PurgeCandidates, Inactive
  <1>4. finishedSince[n] \in Nat /\ db.activity[n] \in Nat /\ finishedSince[n] <= db.activity[n]
    BY <1>0, <1>3, Columns DEF FinishedBefore
  <1> QED
    BY <1>0, <1>3, <1>4 DEF VisibleFor

\* Retention never deletes a task that has not been in the file as finished for
\* the whole retention window, nor an applied purge one that was not for the
\* days it names: the two steps of a task's end cannot collapse into one.
THEOREM TwoStepsApart == HSpec => TwoStepLifecycle
  <1> DEFINE Deleted == \A n \in Live(db) \ Live(db') : \A c \in Callers :
         /\ pc[c] = "retain" /\ pc'[c] # "retain" => VisibleFor(n, RetentionDays)
         /\ pc[c] = "exec" /\ pc'[c] # "exec" /\ req[c].op = "purge"
              => \E i \in {req[c].items[j] : j \in DOMAIN req[c].items} :
                   i.apply /\ VisibleFor(n, i.days)
  <1>1. StoreInv /\ CallInv /\ FinishedBefore /\ [HNext]_hvars => [Deleted]_hvars
    <2> SUFFICES ASSUME StoreInv, CallInv, FinishedBefore, [HNext]_hvars,
                        NEW n \in Live(db) \ Live(db'), NEW c \in Callers
                 PROVE  /\ pc[c] = "retain" /\ pc'[c] # "retain" => VisibleFor(n, RetentionDays)
                        /\ pc[c] = "exec" /\ pc'[c] # "exec" /\ req[c].op = "purge"
                             => \E i \in {req[c].items[j] : j \in DOMAIN req[c].items} :
                                  i.apply /\ VisibleFor(n, i.days)
      OBVIOUS
    <2>0. [Next]_vars /\ db' # db /\ TypeOK
      BY DEF HNext, hvars, StoreInv
    <2>1. ASSUME pc[c] = "retain", pc'[c] # "retain"
          PROVE  VisibleFor(n, RetentionDays)
      <3>1. DeleteFinishedTasks(c)
        BY <2>0, <2>1, ChangingCaller DEF Commit, Writing, AbandonIdleTasks
      <3>2. db' = Purge(db, RetentionDays, now) /\ RetentionDays \in Nat
        BY <2>0, <3>1, StoreAssumption DEF DeleteFinishedTasks
      <3> QED
        BY <3>2, PurgedLongFinished
    <2>2. ASSUME pc[c] = "exec", pc'[c] # "exec", req[c].op = "purge"
          PROVE  \E i \in {req[c].items[j] : j \in DOMAIN req[c].items} :
                   i.apply /\ VisibleFor(n, i.days)
      <3> DEFINE i == req[c].items[1]
      <3>1. Commit(c)
        BY <2>0, <2>2, ChangingCaller DEF DeleteFinishedTasks, AbandonIdleTasks
      <3>2. /\ 1 \in DOMAIN req[c].items /\ i \in ItemsOf("purge")
            /\ ItemOutcome(db, "purge", i, now) = Outcome(db', reply[c])
        BY <2>2, <3>1, CommittedItem DEF ListOperations
      <3>3. db' = IF i.apply THEN Purge(db, i.days, now) ELSE db
        BY <3>2, ItemOutcomes, OutcomeParts
      <3>4. i.apply /\ db' = Purge(db, i.days, now)
        BY <2>0, <3>3
      <3>5. i.days \in Nat
        BY <3>2 DEF ItemsOf
      <3>6. VisibleFor(n, i.days)
        BY <3>4, <3>5, PurgedLongFinished
      <3> QED
        BY <3>2, <3>4, <3>6
    <2> QED
      BY <2>1, <2>2
  <1>2. HInit => Init
    BY DEF HInit
  <1>3. [HNext]_hvars => [Next]_vars
    BY DEF HNext, hvars
  <1> QED
    BY <1>1, <1>2, <1>3, InitFinishedBefore, HistoryKept, InitCallInv, NextCallInv,
       StoreInvariant, PTL DEF HSpec, Spec, TwoStepLifecycle
=============================================================================
