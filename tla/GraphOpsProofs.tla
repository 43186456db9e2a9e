--------------------------- MODULE GraphOpsProofs ---------------------------
(***************************************************************************)
(* Each statement of GraphTables, with its triggers and cascades, keeps a  *)
(* consistent database consistent, never brings an observation id back,    *)
(* and stamps the entities it touches; and so do each operation of         *)
(* GraphOps and each rule of the sweep.                                    *)
(***************************************************************************)
EXTENDS GraphOps, FiniteSetTheorems, WellFoundedInduction, TLAPS

\* The types of the columns of a database value.
LEMMA Columns ==
  ASSUME NEW d \in Databases
  PROVE  /\ d.type \in [Names -> Types \cup {Null}]
         /\ d.activity \in [Names -> Nat]
         /\ d.seq \in Nat
         /\ d.truth \in [Names -> [Keys -> Values \cup {Null}]]
         /\ d.rel \subseteq Names \X Names \X RelTypes
         /\ d.obsFts \subseteq Nat \X Contents
         /\ d.truthFts \subseteq Names \X Keys \X Values
         /\ d.obs \subseteq Observations
         /\ \A o \in d.obs : o.id \in Nat /\ o.entity \in Names /\ o.content \in Contents
  BY DEF Databases, Observations

\* A consistent graph has the type of one.
LEMMA ConsistentIsDatabase ==
  ASSUME NEW d, Consistent(d)
  PROVE  d \in Databases
  BY DEF Consistent

\* A new file is consistent.
LEMMA EmptyConsistent == Consistent(EmptyDatabase)
  <1>1. EmptyDatabase \in Databases
    BY DEF EmptyDatabase, Databases
  <1> QED
    BY <1>1, ColumnsAssumption DEF EmptyDatabase, Consistent, ReferentialIntegrity, IdsUnique, IndexesExact,
          ObsEntries, Live

\* A step that changes nothing respects what steps must respect.
LEMMA EvolvesRefl ==
  ASSUME NEW d \in Databases, NEW t
  PROVE  Evolves(d, d, t)
  BY Columns DEF Evolves, IdsFresh, Stamped, Live

\* Two steps under the same clock, one after the other, make one.
LEMMA EvolvesTrans ==
  ASSUME NEW d \in Databases, NEW e \in Databases, NEW f \in Databases, NEW t,
         Evolves(d, e, t), Evolves(e, f, t)
  PROVE  Evolves(d, f, t)
  <1>1. IdsFresh(d, f)
    <2>1. d.seq \in Nat /\ e.seq \in Nat /\ f.seq \in Nat
      BY Columns
    <2>2. f.seq >= d.seq
      BY <2>1 DEF Evolves, IdsFresh
    <2>3. ASSUME NEW o \in f.obs, o.id <= d.seq
          PROVE  \E q \in d.obs : q.id = o.id /\ q.entity = o.entity
      <3>1. o.id \in Nat /\ o.id <= e.seq
        BY <2>1, <2>3, Columns DEF Evolves, IdsFresh
      <3>2. PICK p \in e.obs : p.id = o.id /\ p.entity = o.entity
        BY <3>1 DEF Evolves, IdsFresh
      <3> QED
        BY <3>2, <2>3 DEF Evolves, IdsFresh
    <2> QED
      BY <2>2, <2>3 DEF IdsFresh
  <1>2. Stamped(d, f, t)
    BY DEF Evolves, Stamped, Live
  <1> QED
    BY <1>1, <1>2 DEF Evolves

\* INSERT INTO asobi_entities of a new name.
LEMMA InsertEntityConsistent ==
  ASSUME NEW d, Consistent(d), NEW n \in Names, n \notin Live(d),
         NEW type \in Types, NEW t \in Nat
  PROVE  /\ Consistent(InsertEntity(d, n, type, t))
         /\ Evolves(d, InsertEntity(d, n, type, t), t)
  <1> DEFINE e == InsertEntity(d, n, type, t)
  <1>0. d \in Databases
    BY DEF Consistent
  <1>1. e \in Databases
    BY <1>0 DEF InsertEntity, Databases
  <1>a. e.type = [d.type EXCEPT ![n] = type] /\ e.activity = [d.activity EXCEPT ![n] = t]
    BY <1>0 DEF InsertEntity, Databases
  <1>2. Live(e) = Live(d) \cup {n}
    BY <1>0, <1>a, Columns, ColumnsAssumption DEF Live
  <1>3. /\ e.obs = d.obs /\ e.truth = d.truth /\ e.rel = d.rel /\ e.seq = d.seq
        /\ e.obsFts = d.obsFts /\ e.truthFts = d.truthFts
    BY <1>0 DEF InsertEntity, Databases
  <1>4. ReferentialIntegrity(e)
    BY <1>0, <1>2, <1>3 DEF Consistent, ReferentialIntegrity
  <1>5. IdsUnique(e) /\ IndexesExact(e)
    BY <1>0, <1>3 DEF Consistent, IdsUnique, IndexesExact, ObsEntries
  <1>6. Evolves(d, e, t)
    <2> HIDE DEF e
    <2> QED
      BY <1>0, <1>a, <1>3, Columns DEF Evolves, IdsFresh, Stamped, Live
  <1> QED
    BY <1>1, <1>4, <1>5, <1>6 DEF Consistent

\* A run of INSERT INTO asobi_observations for an entity that exists.
LEMMA InsertObsConsistent ==
  ASSUME NEW d, Consistent(d), NEW n \in Live(d),
         NEW contents \in Seq(Contents), NEW t \in Nat
  PROVE  /\ Consistent(InsertObs(d, n, contents, t))
         /\ Evolves(d, InsertObs(d, n, contents, t), t)
  <1> DEFINE rows == {[id |-> d.seq + i, entity |-> n, content |-> contents[i]] :
                        i \in 1..Len(contents)}
             e == InsertObs(d, n, contents, t)
  <1>0. d \in Databases /\ n \in Names
    BY DEF Consistent, Live
  <1>1. CASE contents = <<>>
    BY <1>0, <1>1, EvolvesRefl DEF InsertObs
  <1>2. CASE contents # <<>>
    <2>0. /\ Len(contents) \in Nat /\ d.seq \in Nat
          /\ \A i \in 1..Len(contents) : contents[i] \in Contents
      BY <1>0, Columns
    <2>1. /\ e.obs = d.obs \cup rows
          /\ e.obsFts = d.obsFts \cup ObsEntries(rows)
          /\ e.seq = d.seq + Len(contents)
          /\ e.activity = [d.activity EXCEPT ![n] = t]
          /\ e.type = d.type /\ e.truth = d.truth /\ e.rel = d.rel /\ e.truthFts = d.truthFts
      BY <1>0, <1>2 DEF InsertObs, Databases
    <2>2. \A o \in rows : /\ o \in Observations /\ o.id \in Nat
                          /\ o.id > d.seq /\ o.id <= e.seq /\ o.entity = n
      BY <1>0, <2>0, <2>1 DEF Observations
    <2>3. \A o, p \in rows : o.id = p.id => o = p
      BY <2>0
    <2>4. e \in Databases
      <3>1. ObsEntries(rows) \subseteq Nat \X Contents
        BY <2>0, <2>2 DEF ObsEntries, Observations
      <3>2. e = [d EXCEPT !.obs = d.obs \cup rows, !.obsFts = d.obsFts \cup ObsEntries(rows),
                          !.seq = d.seq + Len(contents),
                          !.activity = [d.activity EXCEPT ![n] = t]]
        BY <1>2 DEF InsertObs
      <3>3. rows \subseteq Observations
        BY <2>2
      <3>4. d.seq + Len(contents) \in Nat /\ [d.activity EXCEPT ![n] = t] \in [Names -> Nat]
        BY <1>0, <2>0, Columns
      <3> HIDE DEF rows, e
      <3> DEFINE seq == d.seq + Len(contents)
                 act == [d.activity EXCEPT ![n] = t]
      <3>5. seq \in Nat /\ act \in [Names -> Nat]
        BY <3>4
      <3>6. e = [d EXCEPT !.obs = d.obs \cup rows, !.obsFts = d.obsFts \cup ObsEntries(rows),
                          !.seq = seq, !.activity = act]
        BY <3>2
      <3> HIDE DEF seq, act
      <3> QED
        BY <1>0, <3>1, <3>3, <3>5, <3>6 DEF Databases
    <2>5. ReferentialIntegrity(e)
      BY <1>0, <2>1, <2>2 DEF Consistent, ReferentialIntegrity, Live
    <2>6. IdsUnique(e)
      <3>1. \A o \in d.obs : o.id \in Nat /\ o.id <= d.seq
        BY <1>0, Columns DEF Consistent, IdsUnique
      <3> HIDE DEF rows, e
      <3> QED
        BY <2>0, <2>1, <2>2, <2>3, <3>1 DEF Consistent, IdsUnique
    <2>7. IndexesExact(e)
      <3> HIDE DEF rows, e
      <3> QED
        BY <2>1 DEF Consistent, IndexesExact, ObsEntries
    <2>8. IdsFresh(d, e)
      <3> HIDE DEF rows, e
      <3> QED
        BY <2>0, <2>1, <2>2 DEF IdsFresh
    <2>9. Stamped(d, e, t)
      <3> HIDE DEF rows, e
      <3> QED
        BY <1>0, <2>1, Columns DEF Stamped, Live
    <2> QED
      BY <2>4, <2>5, <2>6, <2>7, <2>8, <2>9 DEF Consistent, Evolves
  <1> QED
    BY <1>1, <1>2

\* DELETE FROM asobi_observations of any rows.
LEMMA DeleteObsConsistent ==
  ASSUME NEW d, Consistent(d), NEW rows \in SUBSET d.obs, NEW t \in Nat
  PROVE  /\ Consistent(DeleteObs(d, rows, t))
         /\ Evolves(d, DeleteObs(d, rows, t), t)
  <1> DEFINE e == DeleteObs(d, rows, t)
             act == [n \in Names |-> IF \E o \in rows : o.entity = n THEN t ELSE d.activity[n]]
  <1>0. d \in Databases
    BY DEF Consistent
  <1>1. /\ e.obs = d.obs \ rows
        /\ e.obsFts = d.obsFts \ ObsEntries(rows)
        /\ e.activity = act
        /\ e.seq = d.seq /\ e.type = d.type /\ e.truth = d.truth /\ e.rel = d.rel
        /\ e.truthFts = d.truthFts
    BY <1>0 DEF DeleteObs, Databases
  <1>2. act \in [Names -> Nat]
    BY <1>0, Columns
  <1>3. e = [d EXCEPT !.obs = d.obs \ rows, !.obsFts = d.obsFts \ ObsEntries(rows),
                      !.activity = act]
    BY DEF DeleteObs
  <1>4. e \in Databases
    <2> HIDE DEF e, act
    <2> QED
      BY <1>0, <1>2, <1>3 DEF Databases
  <1>5. ReferentialIntegrity(e) /\ IdsUnique(e)
    <2> HIDE DEF e, act
    <2> QED
      BY <1>0, <1>1 DEF Consistent, ReferentialIntegrity, IdsUnique, Live
  <1>6. IndexesExact(e)
    <2> HIDE DEF e, act
    <2>1. ObsEntries(d.obs) \ ObsEntries(rows) = ObsEntries(d.obs \ rows)
      BY DEF Consistent, IdsUnique, ObsEntries
    <2> QED
      BY <1>1, <2>1 DEF Consistent, IndexesExact
  <1>7. Evolves(d, e, t)
    <2>1. IdsFresh(d, e)
      <3> HIDE DEF e, act
      <3> QED
        BY <1>0, <1>1, Columns DEF IdsFresh
    <2>2. Stamped(d, e, t)
      BY <1>1, <1>2 DEF Stamped, Live
    <2> QED
      BY <2>1, <2>2 DEF Evolves
  <1> QED
    BY <1>4, <1>5, <1>6, <1>7 DEF Consistent

\* UPDATE asobi_observations SET content on any rows.
LEMMA UpdateObsConsistent ==
  ASSUME NEW d, Consistent(d), NEW rows \in SUBSET d.obs,
         NEW content \in Contents, NEW t \in Nat
  PROVE  /\ Consistent(UpdateObs(d, rows, content, t))
         /\ Evolves(d, UpdateObs(d, rows, content, t), t)
  <1> DEFINE e == UpdateObs(d, rows, content, t)
             new == {[o EXCEPT !.content = content] : o \in rows}
             act == [n \in Names |-> IF \E o \in rows : o.entity = n THEN t ELSE d.activity[n]]
  <1>0. d \in Databases
    BY DEF Consistent
  <1>1. /\ e.obs = (d.obs \ rows) \cup new
        /\ e.obsFts = (d.obsFts \ ObsEntries(rows)) \cup ObsEntries(new)
        /\ e.activity = act
        /\ e.seq = d.seq /\ e.type = d.type /\ e.truth = d.truth /\ e.rel = d.rel
        /\ e.truthFts = d.truthFts
    BY <1>0 DEF UpdateObs, Databases
  <1>2. act \in [Names -> Nat]
    BY <1>0, Columns
  <1>3. \A p \in new : /\ p \in Observations
                       /\ \E o \in rows : p.id = o.id /\ p.entity = o.entity /\ p.content = content
    <2> SUFFICES ASSUME NEW o \in rows
                 PROVE  LET p == [o EXCEPT !.content = content]
                        IN  /\ p \in Observations
                            /\ p.id = o.id /\ p.entity = o.entity /\ p.content = content
      OBVIOUS
    <2>1. o \in Observations
      BY <1>0, Columns
    <2> QED
      BY <2>1 DEF Observations
  <1>4. \A p, q \in new : p.id = q.id => p = q
    <2> SUFFICES ASSUME NEW o1 \in rows, NEW o2 \in rows,
                        [o1 EXCEPT !.content = content].id = [o2 EXCEPT !.content = content].id
                 PROVE  [o1 EXCEPT !.content = content] = [o2 EXCEPT !.content = content]
      OBVIOUS
    <2>1. o1.id = o2.id
      BY <1>0, Columns DEF Observations
    <2> QED
      BY <2>1 DEF Consistent, IdsUnique
  <1>5. e \in Databases
    <2>1. e = [d EXCEPT !.obs = (d.obs \ rows) \cup new,
                        !.obsFts = (d.obsFts \ ObsEntries(rows)) \cup ObsEntries(new),
                        !.activity = act]
      BY DEF UpdateObs
    <2>2. ObsEntries(new) \subseteq Nat \X Contents /\ new \subseteq Observations
      BY <1>3 DEF ObsEntries, Observations
    <2> HIDE DEF e, act, new
    <2> QED
      BY <1>0, <1>2, <2>1, <2>2 DEF Databases
  <1>6. ReferentialIntegrity(e)
    <2> HIDE DEF e, act, new
    <2> QED
      BY <1>0, <1>1, <1>3 DEF Consistent, ReferentialIntegrity, Live
  <1>7. IdsUnique(e)
    <2> HIDE DEF e, act, new
    <2> QED
      BY <1>0, <1>1, <1>3, <1>4 DEF Consistent, IdsUnique
  <1>8. IndexesExact(e)
    <2> HIDE DEF e, act, new
    <2>1. ObsEntries(d.obs) \ ObsEntries(rows) = ObsEntries(d.obs \ rows)
      BY DEF Consistent, IdsUnique, ObsEntries
    <2>2. ObsEntries(d.obs \ rows) \cup ObsEntries(new) = ObsEntries((d.obs \ rows) \cup new)
      BY DEF ObsEntries
    <2>3. e.obsFts = ObsEntries(e.obs)
      BY <1>1, <2>1, <2>2 DEF Consistent, IndexesExact
    <2>4. ASSUME NEW n \in Names, NEW k \in Keys, NEW v \in Values
          PROVE  <<n, k, v>> \in e.truthFts <=> e.truth[n][k] = v
      BY <1>1 DEF Consistent, IndexesExact
    <2> QED
      BY <2>3, <2>4 DEF IndexesExact
  <1>9. IdsFresh(d, e)
    <2> HIDE DEF e, act, new
    <2> QED
      BY <1>0, <1>1, <1>3, Columns DEF IdsFresh
  <1>10. Stamped(d, e, t)
    BY <1>1, <1>2 DEF Stamped, Live
  <1> QED
    BY <1>5, <1>6, <1>7, <1>8, <1>9, <1>10 DEF Consistent, Evolves

\* The trim to the observation cap.
LEMMA TrimObsConsistent ==
  ASSUME NEW d, Consistent(d), NEW n, NEW cap, NEW t \in Nat
  PROVE  /\ Consistent(TrimObs(d, n, cap, t))
         /\ Evolves(d, TrimObs(d, n, cap, t), t)
  BY DeleteObsConsistent DEF TrimObs, ObsOf

\* The upsert of a truth of an entity that exists.
LEMMA SetTruthConsistent ==
  ASSUME NEW d, Consistent(d), NEW n \in Live(d), NEW k \in Keys, NEW v \in Values,
         NEW t \in Nat
  PROVE  /\ Consistent(SetTruth(d, n, k, v, t))
         /\ Evolves(d, SetTruth(d, n, k, v, t), t)
  <1> DEFINE e == SetTruth(d, n, k, v, t)
  <1>0. d \in Databases /\ n \in Names /\ v # Null
    BY ColumnsAssumption DEF Consistent, Live
  <1>1. /\ e.truth = [d.truth EXCEPT ![n][k] = v]
        /\ e.truthFts = (d.truthFts \ {<<n, k, d.truth[n][k]>>}) \cup {<<n, k, v>>}
        /\ e.activity = [d.activity EXCEPT ![n] = t]
        /\ e.obs = d.obs /\ e.seq = d.seq /\ e.type = d.type /\ e.rel = d.rel
        /\ e.obsFts = d.obsFts
    BY <1>0 DEF SetTruth, TruthUnindexed, Databases
  <1>2. e \in Databases
    <2> DEFINE truth == [d.truth EXCEPT ![n][k] = v]
               fts == (d.truthFts \ {<<n, k, d.truth[n][k]>>}) \cup {<<n, k, v>>}
               act == [d.activity EXCEPT ![n] = t]
    <2>1. e = [d EXCEPT !.truth = truth, !.truthFts = fts, !.activity = act]
      BY <1>0 DEF SetTruth, TruthUnindexed, Databases
    <2>2. /\ truth \in [Names -> [Keys -> Values \cup {Null}]]
          /\ fts \subseteq Names \X Keys \X Values
          /\ act \in [Names -> Nat]
      BY <1>0, Columns
    <2> HIDE DEF e, truth, fts, act
    <2> QED
      BY <1>0, <2>1, <2>2 DEF Databases
  <1> HIDE DEF e
  <1>3. \A m \in Names, j \in Keys : e.truth[m][j] = IF m = n /\ j = k THEN v ELSE d.truth[m][j]
    BY <1>0, <1>1, Columns
  <1>4. ReferentialIntegrity(e)
    BY <1>0, <1>1, <1>3 DEF Consistent, ReferentialIntegrity, Live
  <1>5. IdsUnique(e)
    BY <1>1 DEF Consistent, IdsUnique
  <1>6. IndexesExact(e)
    <2>1. e.obsFts = ObsEntries(e.obs)
      BY <1>1 DEF Consistent, IndexesExact
    <2>2. ASSUME NEW m \in Names, NEW j \in Keys, NEW w \in Values
          PROVE  <<m, j, w>> \in e.truthFts <=> e.truth[m][j] = w
      BY <1>1, <1>3 DEF Consistent, IndexesExact
    <2> QED
      BY <2>1, <2>2 DEF IndexesExact
  <1>7. Evolves(d, e, t)
    BY <1>0, <1>1, Columns DEF Evolves, IdsFresh, Stamped, Live
  <1> QED
    BY <1>1, <1>2, <1>4, <1>5, <1>6, <1>7 DEF Consistent, e

\* What an upsert of a truth leaves in the columns the claims read.
LEMMA SetTruthColumns ==
  ASSUME NEW d \in Databases, NEW n, NEW k, NEW v, NEW t
  PROVE  /\ SetTruth(d, n, k, v, t).type = d.type
         /\ SetTruth(d, n, k, v, t).obs = d.obs
  BY DEF SetTruth, Databases

\* DELETE FROM asobi_truths.
LEMMA DropTruthConsistent ==
  ASSUME NEW d, Consistent(d), NEW n \in Names, NEW k \in Keys, NEW t \in Nat
  PROVE  /\ Consistent(DropTruth(d, n, k, t))
         /\ Evolves(d, DropTruth(d, n, k, t), t)
  <1> DEFINE e == DropTruth(d, n, k, t)
  <1>0. d \in Databases
    BY DEF Consistent
  <1>1. CASE d.truth[n][k] = Null
    BY <1>0, <1>1, EvolvesRefl DEF DropTruth
  <1>2. CASE d.truth[n][k] # Null
    <2>1. /\ e.truth = [d.truth EXCEPT ![n][k] = Null]
          /\ e.truthFts = d.truthFts \ {<<n, k, d.truth[n][k]>>}
          /\ e.activity = [d.activity EXCEPT ![n] = t]
          /\ e.obs = d.obs /\ e.seq = d.seq /\ e.type = d.type /\ e.rel = d.rel
          /\ e.obsFts = d.obsFts
      BY <1>0, <1>2 DEF DropTruth, TruthUnindexed, Databases
    <2>2. e \in Databases
      BY <1>0, <1>2 DEF DropTruth, TruthUnindexed, Databases
    <2> HIDE DEF e
    <2>3. \A m \in Names, j \in Keys :
            e.truth[m][j] = IF m = n /\ j = k THEN Null ELSE d.truth[m][j]
      BY <1>0, <2>1, Columns
    <2>4. ReferentialIntegrity(e)
      BY <1>0, <2>1, <2>3 DEF Consistent, ReferentialIntegrity, Live
    <2>5. IdsUnique(e)
      BY <2>1 DEF Consistent, IdsUnique
    <2>6. IndexesExact(e)
      <3>1. e.obsFts = ObsEntries(e.obs)
        BY <2>1 DEF Consistent, IndexesExact
      <3>2. ASSUME NEW m \in Names, NEW j \in Keys, NEW w \in Values
            PROVE  <<m, j, w>> \in e.truthFts <=> e.truth[m][j] = w
        BY <2>1, <2>3, ColumnsAssumption DEF Consistent, IndexesExact
      <3> QED
        BY <3>1, <3>2 DEF IndexesExact
    <2>7. Evolves(d, e, t)
      BY <1>0, <2>1, Columns DEF Evolves, IdsFresh, Stamped, Live
    <2> QED
      BY <2>2, <2>4, <2>5, <2>6, <2>7 DEF Consistent, e
  <1> QED
    BY <1>1, <1>2

\* DELETE FROM asobi_entities with its cascade.
LEMMA DeleteEntitiesConsistent ==
  ASSUME NEW d, Consistent(d), NEW gone \in SUBSET Names, NEW t
  PROVE  /\ Consistent(DeleteEntities(d, gone))
         /\ Evolves(d, DeleteEntities(d, gone), t)
  <1> DEFINE e == DeleteEntities(d, gone)
             rows == {o \in d.obs : o.entity \in gone}
             type == [n \in Names |-> IF n \in gone THEN Null ELSE d.type[n]]
             act == [n \in Names |-> IF n \in gone THEN 0 ELSE d.activity[n]]
             truth == [n \in Names |-> IF n \in gone THEN [k \in Keys |-> Null] ELSE d.truth[n]]
             fts == {x \in d.truthFts : x[1] \notin gone}
             rel == {r \in d.rel : r[1] \notin gone /\ r[2] \notin gone}
  <1>0. d \in Databases
    BY DEF Consistent
  <1>1. /\ e.obs = d.obs \ rows
        /\ e.obsFts = d.obsFts \ ObsEntries(rows)
        /\ e.seq = d.seq /\ e.type = type /\ e.activity = act /\ e.truth = truth
        /\ e.truthFts = fts /\ e.rel = rel
    BY <1>0 DEF DeleteEntities, Databases
  <1>2. /\ type \in [Names -> Types \cup {Null}]
        /\ act \in [Names -> Nat]
        /\ truth \in [Names -> [Keys -> Values \cup {Null}]]
    BY <1>0, Columns
  <1>3. e \in Databases
    <2>1. e = [d EXCEPT !.type = type, !.activity = act, !.obs = d.obs \ rows,
                        !.obsFts = d.obsFts \ ObsEntries(rows), !.truth = truth,
                        !.truthFts = fts, !.rel = rel]
      BY DEF DeleteEntities
    <2>2. fts \subseteq d.truthFts /\ rel \subseteq d.rel
      OBVIOUS
    <2> HIDE DEF e, rows, type, act, truth, fts, rel
    <2> QED
      BY <1>0, <1>2, <2>1, <2>2 DEF Databases
  <1>4. Live(e) = Live(d) \ gone
    BY <1>0, <1>1 DEF Live
  <1>5. ReferentialIntegrity(e)
    <2>1. \A o \in e.obs : o.entity \in Live(e)
      BY <1>1, <1>4 DEF Consistent, ReferentialIntegrity
    <2>2. \A n \in Names, k \in Keys : e.truth[n][k] # Null => n \in Live(e)
      BY <1>1, <1>4 DEF Consistent, ReferentialIntegrity
    <2>3. \A r \in e.rel : r[1] \in Live(e) /\ r[2] \in Live(e)
      BY <1>1, <1>4 DEF Consistent, ReferentialIntegrity
    <2> QED
      BY <2>1, <2>2, <2>3 DEF ReferentialIntegrity
  <1>6. IdsUnique(e)
    BY <1>1 DEF Consistent, IdsUnique
  <1>7. IndexesExact(e)
    <2>1. ObsEntries(d.obs) \ ObsEntries(rows) = ObsEntries(d.obs \ rows)
      BY DEF Consistent, IdsUnique, ObsEntries
    <2>2. ASSUME NEW m \in Names, NEW j \in Keys, NEW w \in Values
          PROVE  <<m, j, w>> \in e.truthFts <=> e.truth[m][j] = w
      BY <1>1, ColumnsAssumption DEF Consistent, IndexesExact
    <2> QED
      BY <1>1, <2>1, <2>2 DEF Consistent, IndexesExact
  <1>8. IdsFresh(d, e)
    BY <1>0, <1>1, Columns DEF IdsFresh
  <1>9. Stamped(d, e, t)
    BY <1>1, <1>4 DEF Stamped, Live
  <1> QED
    BY <1>3, <1>5, <1>6, <1>7, <1>8, <1>9 DEF Consistent, Evolves

\* The relations of a graph are free of indexes, ids and stamps.
LEMMA RelationsConsistent ==
  ASSUME NEW d, Consistent(d), NEW rel \in SUBSET (Live(d) \X Live(d) \X RelTypes), NEW t
  PROVE  /\ Consistent([d EXCEPT !.rel = rel])
         /\ Evolves(d, [d EXCEPT !.rel = rel], t)
  <1> DEFINE e == [d EXCEPT !.rel = rel]
  <1>0. d \in Databases /\ Live(d) \subseteq Names
    BY DEF Consistent, Live
  <1>1. /\ e.rel = rel /\ e.obs = d.obs /\ e.seq = d.seq /\ e.type = d.type
        /\ e.activity = d.activity /\ e.truth = d.truth
        /\ e.obsFts = d.obsFts /\ e.truthFts = d.truthFts
    BY <1>0 DEF Databases
  <1>2. e \in Databases
    BY <1>0 DEF Databases
  <1> HIDE DEF e
  <1>3. ReferentialIntegrity(e) /\ IdsUnique(e) /\ IndexesExact(e)
    BY <1>1 DEF Consistent, ReferentialIntegrity, IdsUnique, IndexesExact, Live
  <1>4. Evolves(d, e, t)
    BY <1>0, <1>1, Columns DEF Evolves, IdsFresh, Stamped, Live
  <1> QED
    BY <1>2, <1>3, <1>4 DEF Consistent, e

----------------------------------------------------------------------------
(* The operations. *)

Sound(d, e, t) == Consistent(e) /\ Evolves(d, e, t)

\* Doing nothing is sound.
LEMMA SoundRefl ==
  ASSUME NEW d, Consistent(d), NEW t
  PROVE  Sound(d, d, t)
  BY EvolvesRefl DEF Sound, Consistent

\* Statements of one transaction compose.
LEMMA SoundTrans ==
  ASSUME NEW d, Consistent(d), NEW e, NEW f, NEW t, Sound(d, e, t), Sound(e, f, t)
  PROVE  Sound(d, f, t)
  BY EvolvesTrans DEF Sound, Consistent

\* The statements on observations leave entities and truths alone.
LEMMA ObsOnly ==
  ASSUME NEW d \in Databases, NEW n, NEW contents, NEW rows, NEW cap, NEW t
  PROVE  /\ InsertObs(d, n, contents, t).type = d.type
         /\ InsertObs(d, n, contents, t).truth = d.truth
         /\ InsertObs(d, n, contents, t).rel = d.rel
         /\ TrimObs(d, n, cap, t).type = d.type
         /\ TrimObs(d, n, cap, t).truth = d.truth
         /\ TrimObs(d, n, cap, t).rel = d.rel
  <1>1. /\ InsertObs(d, n, contents, t).type = d.type
        /\ InsertObs(d, n, contents, t).truth = d.truth
        /\ InsertObs(d, n, contents, t).rel = d.rel
    <2>1. CASE contents = <<>>
      BY <2>1 DEF InsertObs
    <2>2. CASE contents # <<>>
      BY <2>2 DEF InsertObs, Databases
    <2> QED
      BY <2>1, <2>2
  <1>2. /\ TrimObs(d, n, cap, t).type = d.type
        /\ TrimObs(d, n, cap, t).truth = d.truth
        /\ TrimObs(d, n, cap, t).rel = d.rel
    BY DEF TrimObs, DeleteObs, Databases
  <1> QED
    BY <1>1, <1>2

\* One item of create_entities: an entity that exists is left alone, a new one
\* is inserted with its observations.
LEMMA CreateEntitySound ==
  ASSUME NEW d, Consistent(d), NEW i \in ItemsOf("create_entities"), NEW t \in Nat
  PROVE  Sound(d, CreateEntity(d, i, t), t)
  <1> DEFINE n == Norm[i.name]
             e == InsertEntity(d, n, i.type, t)
  <1>0. i.name \in Spellings /\ i.type \in Types /\ i.contents \in Seq(Contents) /\ n \in Names
    BY OpsAssumption DEF ItemsOf
  <1>1. CASE n \in Live(d)
    BY <1>1, SoundRefl DEF CreateEntity
  <1>2. CASE n \notin Live(d)
    <2>1. Sound(d, e, t)
      BY <1>0, <1>2, InsertEntityConsistent DEF Sound
    <2>2. n \in Live(e)
      BY <1>0, Columns, ColumnsAssumption DEF InsertEntity, Live, Consistent, Databases
    <2>3. Sound(e, InsertObs(e, n, i.contents, t), t)
      BY <1>0, <2>1, <2>2, InsertObsConsistent DEF Sound
    <2> QED
      BY <1>2, <2>1, <2>3, SoundTrans DEF CreateEntity
  <1> QED
    BY <1>1, <1>2

\* Insert and trim, as add_observations, update and dispatch do it, keep a graph
\* sound when the entity exists.
LEMMA ObserveSound ==
  ASSUME NEW d, Consistent(d), NEW n \in Names, NEW contents \in Seq(Contents),
         CanObserve(d, n, contents), NEW limit, NEW t \in Nat
  PROVE  /\ Sound(d, Observe(d, n, contents, limit, t), t)
         /\ Observe(d, n, contents, limit, t).type = d.type
         /\ Observe(d, n, contents, limit, t).truth = d.truth
         /\ Observe(d, n, contents, limit, t).rel = d.rel
  <1> DEFINE e == InsertObs(d, n, contents, t)
             f == TrimObs(e, n, Cap(limit), t)
  <1>1. Sound(d, e, t)
    <2>1. CASE contents = <<>>
      BY <2>1, SoundRefl DEF InsertObs
    <2>2. CASE contents # <<>>
      BY <2>2, InsertObsConsistent DEF Sound, CanObserve
    <2> QED
      BY <2>1, <2>2
  <1>2. Sound(e, f, t)
    BY <1>1, TrimObsConsistent DEF Sound
  <1>3. f.type = d.type /\ f.truth = d.truth /\ f.rel = d.rel
    BY <1>1, ObsOnly DEF Sound, Consistent
  <1> QED
    BY <1>1, <1>2, <1>3, SoundTrans DEF Observe

\* A relation item names stored entities once its ends are normalised.
LEMMA RelationItem ==
  ASSUME NEW i \in RelationItems
  PROVE  Norm[i.from] \in Names /\ Norm[i.to] \in Names /\ i.type \in RelTypes
  BY OpsAssumption DEF RelationItems

\* Relations link entities that exist.
LEMMA LiveRelations ==
  ASSUME NEW d, Consistent(d)
  PROVE  d.rel \subseteq Live(d) \X Live(d) \X RelTypes
  BY Columns DEF Consistent, ReferentialIntegrity

\* One item of create_relations whose ends exist.
LEMMA CreateRelationSound ==
  ASSUME NEW d, Consistent(d), NEW i \in RelationItems, CanRelate(d, i), NEW t
  PROVE  Sound(d, CreateRelation(d, i), t)
  <1> DEFINE rel == d.rel \cup {<<Norm[i.from], Norm[i.to], i.type>>}
  <1>1. rel \in SUBSET (Live(d) \X Live(d) \X RelTypes)
    BY RelationItem, LiveRelations DEF CanRelate
  <1>2. CreateRelation(d, i) = [d EXCEPT !.rel = rel]
    BY DEF CreateRelation
  <1> HIDE DEF rel
  <1>3. Sound(d, [d EXCEPT !.rel = rel], t)
    BY <1>1, RelationsConsistent DEF Sound
  <1> QED
    BY <1>2, <1>3

\* One item of delete_relations.
LEMMA DeleteRelationSound ==
  ASSUME NEW d, Consistent(d), NEW i \in RelationItems, NEW t
  PROVE  Sound(d, DeleteRelation(d, i), t)
  <1> DEFINE rel == d.rel \ {<<Norm[i.from], Norm[i.to], i.type>>}
  <1>1. rel \in SUBSET (Live(d) \X Live(d) \X RelTypes)
    BY LiveRelations
  <1>2. DeleteRelation(d, i) = [d EXCEPT !.rel = rel]
    BY DEF DeleteRelation
  <1> HIDE DEF rel
  <1>3. Sound(d, [d EXCEPT !.rel = rel], t)
    BY <1>1, RelationsConsistent DEF Sound
  <1> QED
    BY <1>2, <1>3

\* One item of delete_entities.
LEMMA DeleteEntitySound ==
  ASSUME NEW d, Consistent(d), NEW i \in ItemsOf("delete_entities"), NEW t
  PROVE  Sound(d, DeleteEntity(d, i), t)
  <1>1. Norm[i.name] \in Names
    BY OpsAssumption DEF ItemsOf
  <1> QED
    BY <1>1, DeleteEntitiesConsistent DEF DeleteEntity, Sound

\* One item of delete_observations.
LEMMA DeleteObservationsSound ==
  ASSUME NEW d, Consistent(d), NEW i, NEW t \in Nat
  PROVE  Sound(d, DeleteObservations(d, i, t), t)
  BY DeleteObsConsistent DEF DeleteObservations, WithContent, ObsOf, Sound

\* delete_observation_by_id.
LEMMA DeleteObservationByIdSound ==
  ASSUME NEW d, Consistent(d), NEW i, NEW t \in Nat
  PROVE  Sound(d, DeleteObservationById(d, i, t), t)
  BY DeleteObsConsistent DEF DeleteObservationById, WithId, ObsOf, Sound

\* update_observation_by_id.
LEMMA UpdateObservationByIdSound ==
  ASSUME NEW d, Consistent(d), NEW i \in ItemsOf("update_observation_by_id"), NEW t \in Nat
  PROVE  Sound(d, UpdateObservationById(d, i, t), t)
  <1>1. i.new \in Contents
    BY DEF ItemsOf
  <1> QED
    BY <1>1, UpdateObsConsistent DEF UpdateObservationById, WithId, ObsOf, Sound

\* update_observation, by content.
LEMMA UpdateObservationSound ==
  ASSUME NEW d, Consistent(d), NEW i \in ItemsOf("update_observation"), NEW t \in Nat
  PROVE  Sound(d, UpdateObservation(d, i, t), t)
  <1>1. i.new \in Contents
    BY DEF ItemsOf
  <1> QED
    BY <1>1, UpdateObsConsistent DEF UpdateObservation, WithContent, ObsOf, Sound

\* truth_upsert on an entity that exists.
LEMMA TruthUpsertSound ==
  ASSUME NEW d, Consistent(d), NEW i \in ItemsOf("truth_upsert"), Norm[i.name] \in Live(d),
         NEW t \in Nat
  PROVE  Sound(d, TruthUpsert(d, i, t), t)
  <1>1. i.key \in Keys /\ i.value \in Values
    BY DEF ItemsOf
  <1> QED
    BY <1>1, SetTruthConsistent DEF TruthUpsert, Sound

\* truth_delete, of a truth that exists or not.
LEMMA TruthDeleteSound ==
  ASSUME NEW d, Consistent(d), NEW i \in ItemsOf("truth_delete"), NEW t \in Nat
  PROVE  Sound(d, TruthDelete(d, i, t), t)
  <1>1. Norm[i.name] \in Names /\ i.key \in Keys
    BY OpsAssumption DEF ItemsOf
  <1> QED
    BY <1>1, DropTruthConsistent DEF TruthDelete, Sound

\* Setting several truths of one live entity.
LEMMA ClaimSound ==
  ASSUME NEW d, Consistent(d), NEW n \in Live(d), NEW agent \in Agents, NEW t \in Nat
  PROVE  /\ Sound(d, Claim(d, n, agent, t), t)
         /\ Claim(d, n, agent, t).type = d.type
  <1> DEFINE e == SetTruth(d, n, "status", Dispatched, t)
             f == SetTruth(e, n, "claimed_by", agent, t)
  <1>1. /\ Dispatched \in Values /\ agent \in Values
        /\ "status" \in Keys /\ "claimed_by" \in Keys
    BY OpsAssumption, ColumnsAssumption DEF TaskStatuses
  <1>2. Sound(d, e, t) /\ e.type = d.type
    <2>1. Sound(d, e, t)
      BY <1>1, SetTruthConsistent DEF Sound
    <2>2. e.type = d.type
      BY SetTruthColumns DEF Consistent
    <2> QED
      BY <2>1, <2>2
  <1>3. n \in Live(e)
    BY <1>2 DEF Live
  <1>4. Sound(e, f, t) /\ f.type = e.type
    <2> HIDE DEF e
    <2>0. Consistent(e) /\ e \in Databases
      BY <1>2 DEF Sound, Consistent
    <2>1. Sound(e, f, t)
      BY <1>1, <1>3, <2>0, SetTruthConsistent DEF Sound
    <2>2. f.type = e.type
      BY <2>0, SetTruthColumns
    <2> QED
      BY <2>1, <2>2
  <1> QED
    BY <1>2, <1>4, SoundTrans DEF Claim

\* dispatch, once it has found its target ready: claim, note and trim.
LEMMA DispatchToSound ==
  ASSUME NEW d, Consistent(d), NEW n \in Live(d), NEW i \in ItemsOf("dispatch"), NEW t \in Nat
  PROVE  Sound(d, DispatchTo(d, n, i, t), t)
  <1> DEFINE e == Claim(d, n, i.agent, t)
             note == <<DispatchNote[i.agent]>>
  <1>1. i.agent \in Agents /\ note \in Seq(Contents)
    BY OpsAssumption DEF ItemsOf
  <1>2. Sound(d, e, t) /\ e.type = d.type
    BY <1>1, ClaimSound
  <1>3. CanObserve(e, n, note) /\ n \in Names
    BY <1>2 DEF CanObserve, Live
  <1>4. Sound(e, Observe(e, n, note, i.limit, t), t)
    <2> HIDE DEF e, note
    <2> QED
      BY <1>1, <1>2, <1>3, ObserveSound DEF Sound
  <1> QED
    BY <1>2, <1>4, SoundTrans DEF DispatchTo

\* update of a task: notes with their trim, then the status.
LEMMA UpdateTaskSound ==
  ASSUME NEW d, Consistent(d), NEW i \in ItemsOf("update"), Norm[i.name] \in Live(d),
         NEW t \in Nat
  PROVE  Sound(d, UpdateTask(d, i, t), t)
  <1> DEFINE n == Norm[i.name]
             e == IF i.notes = <<>> THEN d ELSE Observe(d, n, i.notes, i.limit, t)
             f == SetTruth(e, n, "status", i.status, t)
  <1>0. n \in Names /\ i.notes \in Seq(Contents) /\ i.status \in Values \cup {Null}
    BY OpsAssumption DEF ItemsOf
  <1>1. Sound(d, e, t) /\ e.type = d.type
    <2>1. CASE i.notes = <<>>
      BY <2>1, SoundRefl
    <2>2. CASE i.notes # <<>>
      <3>1. CanObserve(d, n, i.notes)
        BY DEF CanObserve
      <3> HIDE DEF n
      <3> QED
        BY <1>0, <2>2, <3>1, ObserveSound
    <2> QED
      BY <2>1, <2>2
  <1>2. CASE i.status = Null
    BY <1>1, <1>2 DEF UpdateTask
  <1>3. CASE i.status # Null
    <2>1. n \in Live(e) /\ "status" \in Keys
      BY <1>1, ColumnsAssumption DEF Live
    <2>2. Sound(e, f, t)
      <3> HIDE DEF e, n
      <3> QED
        BY <1>0, <1>1, <1>3, <2>1, SetTruthConsistent DEF Sound
    <2> QED
      BY <1>1, <1>3, <2>2, SoundTrans DEF UpdateTask
  <1> QED
    BY <1>2, <1>3

\* Numbering the members of a set by their rank gives each one a number of its own.
LEMMA PlacesDistinct ==
  ASSUME NEW S \in SUBSET Names
  PROVE  LET Place(n) == Cardinality({m \in S : NameRank[m] <= NameRank[n]})
         IN  /\ Cardinality(S) \in Nat
             /\ \A n \in S : Place(n) \in 1..Cardinality(S)
             /\ \A m, n \in S : Place(m) = Place(n) => m = n
  <1> DEFINE Below(n) == {m \in S : NameRank[m] <= NameRank[n]}
  <1>0. IsFiniteSet(S) /\ Cardinality(S) \in Nat
    BY NamesAssumption, FS_Subset, FS_CardinalityType
  <1>1. \A n \in S : NameRank[n] \in Nat
    BY NamesAssumption
  <1>2. ASSUME NEW n \in S
        PROVE  IsFiniteSet(Below(n)) /\ Cardinality(Below(n)) \in 1..Cardinality(S)
    <2>1. Below(n) \in SUBSET S /\ n \in Below(n)
      BY <1>1
    <2>2. IsFiniteSet(Below(n)) /\ Cardinality(Below(n)) <= Cardinality(S)
      BY <1>0, <2>1, FS_Subset
    <2>3. Cardinality(Below(n)) \in Nat /\ Cardinality(Below(n)) # 0
      BY <2>1, <2>2, FS_CardinalityType, FS_EmptySet
    <2> QED
      BY <1>0, <2>2, <2>3
  <1>3. ASSUME NEW m \in S, NEW n \in S, NameRank[m] <= NameRank[n],
               Cardinality(Below(m)) = Cardinality(Below(n))
        PROVE  m = n
    <2>1. Below(m) \in SUBSET Below(n)
      BY <1>1, <1>3
    <2>2. Below(n) = Below(m)
      BY <1>2, <1>3, <2>1, FS_Subset
    <2>3. NameRank[n] <= NameRank[m]
      BY <1>1, <2>2
    <2> QED
      BY <1>1, <1>3, <2>3, NamesAssumption
  <1>4. \A m, n \in S : Cardinality(Below(m)) = Cardinality(Below(n)) => m = n
    <2> SUFFICES ASSUME NEW m \in S, NEW n \in S, Cardinality(Below(m)) = Cardinality(Below(n))
                 PROVE  m = n
      OBVIOUS
    <2>1. NameRank[m] <= NameRank[n] \/ NameRank[n] <= NameRank[m]
      BY <1>1
    <2> QED
      BY <1>3, <2>1
  <1> QED
    BY <1>0, <1>2, <1>4

\* The whole loop of abandon_idle_tasks over any set of live tasks.
LEMMA AbandonTasksSound ==
  ASSUME NEW d, Consistent(d), NEW tasks \in SUBSET Live(d), NEW t \in Nat
  PROVE  Sound(d, AbandonTasks(d, tasks, t), t)
  <1> DEFINE e == AbandonTasks(d, tasks, t)
             Place(n) == Cardinality({m \in tasks : NameRank[m] <= NameRank[n]})
             Note(n) == [id |-> d.seq + Place(n), entity |-> n, content |-> AbandonNote]
             notes == {Note(n) : n \in tasks}
             old == {<<n, "status", d.truth[n]["status"]>> : n \in tasks}
             new == {<<n, "status", Abandoned>> : n \in tasks}
             truth == [n \in Names |-> IF n \in tasks
                                       THEN [d.truth[n] EXCEPT !["status"] = Abandoned]
                                       ELSE d.truth[n]]
             act == [n \in Names |-> IF n \in tasks THEN t ELSE d.activity[n]]
             seq == d.seq + Cardinality(tasks)
  <1>0. /\ d \in Databases /\ tasks \in SUBSET Names
        /\ "status" \in Keys /\ Abandoned \in Values /\ Abandoned # Null
        /\ AbandonNote \in Contents
    BY OpsAssumption, ColumnsAssumption DEF Consistent, Live, TerminalStatuses
  <1>1. /\ e.obs = d.obs \cup notes
        /\ e.obsFts = d.obsFts \cup ObsEntries(notes)
        /\ e.truth = truth
        /\ e.truthFts = (d.truthFts \ old) \cup new
        /\ e.activity = act
        /\ e.seq = seq /\ e.type = d.type /\ e.rel = d.rel
    BY <1>0 DEF AbandonTasks, Databases
  <1>2. /\ d.seq \in Nat /\ seq \in Nat /\ seq >= d.seq
        /\ \A n \in tasks : Place(n) \in Nat /\ Place(n) > 0 /\ d.seq + Place(n) <= seq
        /\ \A m, n \in tasks : Place(m) = Place(n) => m = n
    <2> HIDE DEF Place
    <2>1. d.seq \in Nat
      BY <1>0, Columns
    <2>2. /\ Cardinality(tasks) \in Nat
          /\ \A n \in tasks : Place(n) \in 1..Cardinality(tasks)
          /\ \A m, n \in tasks : Place(m) = Place(n) => m = n
      BY <1>0, PlacesDistinct DEF Place
    <2> QED
      BY <2>1, <2>2
  <1>3. /\ truth \in [Names -> [Keys -> Values \cup {Null}]]
        /\ act \in [Names -> Nat]
        /\ new \subseteq Names \X Keys \X Values
    BY <1>0, Columns
  <1> HIDE DEF Place
  <1>4. notes \subseteq Observations
    BY <1>0, <1>2 DEF Observations
  <1>5. ObsEntries(notes) \subseteq Nat \X Contents
    BY <1>0, <1>2 DEF ObsEntries
  <1>6. e \in Databases
    <2>1. e = [d EXCEPT !.truth = truth, !.truthFts = (d.truthFts \ old) \cup new,
                        !.obs = d.obs \cup notes, !.obsFts = d.obsFts \cup ObsEntries(notes),
                        !.seq = seq, !.activity = act]
      BY DEF AbandonTasks, Place
    <2> HIDE DEF e, truth, old, new, notes, seq, act
    <2> QED
      BY <1>0, <1>2, <1>3, <1>4, <1>5, <2>1 DEF Databases
  <1>7. \A o \in notes : /\ o.id \in Nat /\ o.id > d.seq /\ o.id <= seq
                         /\ o.entity \in tasks
    BY <1>2
  <1>8. \A o, p \in notes : o.id = p.id => o = p
    BY <1>2
  <1>9. ReferentialIntegrity(e)
    <2>1. Live(e) = Live(d)
      BY <1>1 DEF Live
    <2>2. \A o \in e.obs : o.entity \in Live(e)
      <3> HIDE DEF e, notes, truth, act, old, new, seq
      <3> QED
        BY <1>1, <1>7, <2>1 DEF Consistent, ReferentialIntegrity
    <2>3. ASSUME NEW n \in Names, NEW k \in Keys, e.truth[n][k] # Null
          PROVE  n \in Live(e)
      <3>1. e.truth[n] = IF n \in tasks THEN [d.truth[n] EXCEPT !["status"] = Abandoned]
                                        ELSE d.truth[n]
        BY <1>1
      <3> HIDE DEF e, notes, truth, act, old, new, seq
      <3> QED
        BY <2>1, <2>3, <3>1 DEF Consistent, ReferentialIntegrity
    <2>4. \A r \in e.rel : r[1] \in Live(e) /\ r[2] \in Live(e)
      <3> HIDE DEF e, notes, truth, act, old, new, seq
      <3> QED
        BY <1>1, <2>1 DEF Consistent, ReferentialIntegrity
    <2> HIDE DEF e
    <2> QED
      BY <2>2, <2>3, <2>4 DEF ReferentialIntegrity
  <1>10. IdsUnique(e)
    <2>1. \A o \in d.obs : o.id \in Nat /\ o.id <= d.seq
      BY <1>0, Columns DEF Consistent, IdsUnique
    <2> HIDE DEF e, notes, truth, act, old, new, seq
    <2> QED
      BY <1>1, <1>2, <1>7, <1>8, <2>1 DEF Consistent, IdsUnique
  <1>11. IndexesExact(e)
    <2>1. e.obsFts = ObsEntries(e.obs)
      <3> HIDE DEF e, notes, truth, act, old, new, seq
      <3> QED
        BY <1>1 DEF Consistent, IndexesExact, ObsEntries
    <2>2. ASSUME NEW n \in Names, NEW k \in Keys, NEW v \in Values
          PROVE  <<n, k, v>> \in e.truthFts <=> e.truth[n][k] = v
      <3>0. e.truth[n][k] = IF n \in tasks /\ k = "status" THEN Abandoned ELSE d.truth[n][k]
        BY <1>0, <1>1, Columns
      <3>1. <<n, k, v>> \in d.truthFts <=> d.truth[n][k] = v
        BY DEF Consistent, IndexesExact
      <3>2. <<n, k, v>> \in old <=> n \in tasks /\ k = "status" /\ v = d.truth[n][k]
        OBVIOUS
      <3>3. <<n, k, v>> \in new <=> n \in tasks /\ k = "status" /\ v = Abandoned
        OBVIOUS
      <3> HIDE DEF e, notes, truth, act, old, new, seq
      <3> QED
        BY <1>1, <3>0, <3>1, <3>2, <3>3
    <2> HIDE DEF e
    <2> QED
      BY <2>1, <2>2 DEF IndexesExact
  <1>12. IdsFresh(d, e)
    <2> HIDE DEF e, notes, truth, act, old, new, seq
    <2> QED
      BY <1>1, <1>2, <1>7 DEF IdsFresh
  <1>13. Stamped(d, e, t)
    <2> SUFFICES ASSUME NEW n \in Names
                 PROVE  \/ e.activity[n] = t
                        \/ /\ e.type[n] = d.type[n] /\ e.activity[n] = d.activity[n]
                           /\ e.truth[n] = d.truth[n]
      BY DEF Stamped, Live
    <2> QED
      BY <1>1
  <1> HIDE DEF e
  <1> QED
    BY <1>6, <1>9, <1>10, <1>11, <1>12, <1>13 DEF Sound, Consistent, Evolves, e

\* The abandonment rule of the sweep.
LEMMA AbandonIdleSound ==
  ASSUME NEW d, Consistent(d), NEW days, NEW t \in Nat
  PROVE  Sound(d, AbandonIdle(d, days, t), t)
  <1>1. IdleTasks(d, days, t) \in SUBSET Live(d)
    BY ColumnsAssumption DEF IdleTasks, Tasks, Live
  <1> QED
    BY <1>1, AbandonTasksSound DEF AbandonIdle

\* purge_inner with apply, for any number of days.
LEMMA PurgeSound ==
  ASSUME NEW d, Consistent(d), NEW days, NEW t
  PROVE  Sound(d, Purge(d, days, t), t)
  <1>1. PurgeCandidates(d, days, t) \in SUBSET Names
    BY DEF PurgeCandidates, Tasks
  <1> QED
    BY <1>1, DeleteEntitiesConsistent DEF Purge, Sound

\* reset: an empty graph that keeps the id counter.
LEMMA ResetSound ==
  ASSUME NEW d, Consistent(d), NEW t
  PROVE  Sound(d, Reset(d), t)
  <1> DEFINE e == Reset(d)
  <1>1. d.seq \in Nat
    BY Columns DEF Consistent
  <1>2. /\ e.type = [n \in Names |-> Null] /\ e.obs = {} /\ e.seq = d.seq /\ e.rel = {}
        /\ e.truth = [n \in Names |-> [k \in Keys |-> Null]]
        /\ e.obsFts = {} /\ e.truthFts = {}
    BY DEF Reset, EmptyDatabase
  <1>3. e \in Databases
    BY <1>1, EmptyConsistent DEF Reset, Consistent, Databases
  <1> HIDE DEF e
  <1>4. ReferentialIntegrity(e) /\ IdsUnique(e) /\ IndexesExact(e)
    BY <1>2, ColumnsAssumption DEF ReferentialIntegrity, IdsUnique, IndexesExact, ObsEntries
  <1>5. Evolves(d, e, t)
    BY <1>1, <1>2 DEF Evolves, IdsFresh, Stamped, Live
  <1> QED
    BY <1>3, <1>4, <1>5 DEF Sound, Consistent, e

----------------------------------------------------------------------------
(* Eviction. *)

\* A nonempty set of numbers has a least one.
LEMMA LeastNumber ==
  ASSUME NEW T, T \subseteq Nat, T # {}
  PROVE  \E m \in T : \A k \in T : m <= k
  <1>1. PICK m \in T : \A k \in T : ~ (<<k, m>> \in OpToRel(<, Nat))
    BY NatLessThanWellFounded, WFMin
  <1>2. \A k \in T : ~ (k < m)
    BY <1>1 DEF OpToRel
  <1> QED
    BY <1>2

\* A file has finitely many observations.
LEMMA ObsFinite ==
  ASSUME NEW d, Consistent(d)
  PROVE  IsFiniteSet(d.obs)
  <1>1. d \in Databases /\ IdsUnique(d)
    BY DEF Consistent
  <1>2. /\ d.seq \in Nat /\ \A o \in d.obs : o.id \in Nat /\ o.id <= d.seq
        /\ \A o, p \in d.obs : o.id = p.id => o = p
    BY <1>1, Columns DEF IdsUnique
  <1> DEFINE T == 0..d.seq
             f == [o \in d.obs |-> o.id]
  <1>3. f \in Injection(d.obs, T)
    BY <1>2 DEF Injection, IsInjective
  <1>4. IsFiniteSet(T)
    BY <1>2, FS_Interval
  <1> HIDE DEF f, T
  <1> QED
    BY <1>3, <1>4, FS_Injection

\* Of a finite set of rows, those with fewer than cap newer ones: they are the
\* newest, at most cap, and exactly cap if they are not all.
NewerIn(S, o) == {p \in S : p.id > o.id}

Newest(S, cap) == {o \in S : ~(Cardinality(NewerIn(S, o)) >= cap)}

LEMMA NewestRows ==
  ASSUME NEW S, IsFiniteSet(S), \A o \in S : o.id \in Nat,
         \A o, p \in S : o.id = p.id => o = p, NEW cap \in Nat \ {0}
  PROVE  /\ \A o \in S \ Newest(S, cap), p \in Newest(S, cap) : o.id < p.id
         /\ Cardinality(Newest(S, cap)) <= cap
         /\ Newest(S, cap) # S => Cardinality(Newest(S, cap)) = cap
  <1> DEFINE kept == Newest(S, cap)
             N(o) == Cardinality(NewerIn(S, o))
  <1>1. \A o \in S : IsFiniteSet(NewerIn(S, o)) /\ N(o) \in Nat
    <2> TAKE o \in S
    <2>1. NewerIn(S, o) \in SUBSET S
      BY DEF NewerIn
    <2>2. IsFiniteSet(NewerIn(S, o))
      BY <2>1, FS_Subset
    <2> QED
      BY <2>2, FS_CardinalityType
  <1>2. \A o, p \in S : o.id < p.id => N(p) < N(o)
    <2> TAKE o, p \in S
    <2> HAVE o.id < p.id
    <2>1. NewerIn(S, p) \in SUBSET NewerIn(S, o)
      BY DEF NewerIn
    <2>2. p \in NewerIn(S, o) /\ p \notin NewerIn(S, p)
      BY DEF NewerIn
    <2>3. N(p) <= N(o) /\ N(p) # N(o)
      BY <1>1, <2>1, <2>2, FS_Subset
    <2> QED
      BY <1>1, <2>3
  <1>3. kept \in SUBSET S /\ \A o \in S : o \in kept <=> N(o) < cap
    BY <1>1 DEF Newest
  <1>4. IsFiniteSet(kept) /\ Cardinality(kept) \in Nat
    BY <1>3, FS_Subset, FS_CardinalityType
  <1> HIDE DEF kept, N
  <1>5. \A o \in S \ kept, p \in kept : o.id < p.id
    <2> TAKE o \in S \ kept, p \in kept
    <2>1. o \in S /\ p \in S /\ o # p /\ N(p) < cap /\ ~(N(o) < cap)
      BY <1>3
    <2>2. ~(p.id < o.id)
      BY <1>1, <1>2, <2>1
    <2> QED
      BY <2>1, <2>2
  <1>6. Cardinality(kept) <= cap
    <2>1. CASE kept = {}
      BY <1>4, <2>1, FS_EmptySet
    <2>2. CASE kept # {}
      <3> DEFINE ids == {o.id : o \in kept}
      <3>1. ids \subseteq Nat /\ ids # {}
        BY <1>3, <2>2
      <3>2. PICK m \in ids : \A k \in ids : m <= k
        <4> HIDE DEF ids
        <4> QED
          BY <3>1, LeastNumber
      <3>3. PICK o \in kept : o.id = m
        OBVIOUS
      <3>4. \A p \in kept : p = o \/ p.id > o.id
        <4> TAKE p \in kept
        <4>1. p \in S /\ o \in S /\ o.id <= p.id
          BY <1>3, <3>2, <3>3
        <4> QED
          BY <4>1
      <3>5. o \in S /\ kept \in SUBSET (NewerIn(S, o) \cup {o})
        BY <1>3, <3>4 DEF NewerIn
      <3>6. /\ IsFiniteSet(NewerIn(S, o) \cup {o})
            /\ Cardinality(NewerIn(S, o) \cup {o}) = N(o) + 1
        <4>1. o \notin NewerIn(S, o)
          BY <3>5 DEF NewerIn
        <4> QED
          BY <1>1, <3>5, <4>1, FS_AddElement DEF N
      <3>7. Cardinality(kept) <= N(o) + 1
        BY <3>5, <3>6, FS_Subset
      <3>8. N(o) \in Nat /\ N(o) < cap
        BY <1>1, <1>3, <3>5
      <3> QED
        BY <1>4, <3>7, <3>8
    <2> QED
      BY <2>1, <2>2
  <1>7. ASSUME kept # S
        PROVE  Cardinality(kept) = cap
    <2> DEFINE sizes == {N(o) : o \in S \ kept}
    <2>1. sizes \subseteq Nat /\ sizes # {}
      BY <1>1, <1>3, <1>7
    <2>2. PICK m \in sizes : \A k \in sizes : m <= k
      <3> HIDE DEF sizes
      <3> QED
        BY <2>1, LeastNumber
    <2>3. PICK o \in S \ kept : N(o) = m
      OBVIOUS
    <2>4. NewerIn(S, o) \in SUBSET kept
      <3> SUFFICES ASSUME NEW p \in S, p.id > o.id, p \notin kept
                   PROVE  FALSE
        BY DEF NewerIn
      <3>1. N(p) < N(o)
        BY <1>2
      <3>2. N(o) <= N(p)
        BY <2>2, <2>3
      <3> QED
        BY <1>1, <3>1, <3>2
    <2>5. N(o) <= Cardinality(kept)
      BY <1>4, <2>4, FS_Subset DEF N
    <2>6. N(o) \in Nat /\ ~(N(o) < cap)
      BY <1>1, <1>3
    <2> QED
      BY <1>4, <1>6, <2>5, <2>6
  <1> QED
    BY <1>5, <1>6, <1>7 DEF kept

\* What is gone of a graph d in a later one, e: every entity that has lost an
\* observation has lost its oldest, and is at the cap.
Evicted(d, e, limit) ==
    \A o \in d.obs \ e.obs :
      /\ \A p \in ObsOf(e, o.entity) : o.id < p.id
      /\ Cardinality(ObsOf(e, o.entity)) = Cap(limit)

\* The rows an INSERT adds.
LEMMA InsertedRows ==
  ASSUME NEW d \in Databases, NEW n, NEW contents \in Seq(Contents), NEW t
  PROVE  LET f == InsertObs(d, n, contents, t)
         IN  /\ f.seq >= d.seq /\ d.obs \subseteq f.obs
             /\ \A o \in f.obs \ d.obs : o.entity = n /\ o.id > d.seq
  <1> DEFINE rows == {[id |-> d.seq + i, entity |-> n, content |-> contents[i]] :
                        i \in 1..Len(contents)}
             f == InsertObs(d, n, contents, t)
  <1>0. d.seq \in Nat /\ Len(contents) \in Nat
    BY Columns
  <1>1. CASE contents = <<>>
    BY <1>0, <1>1 DEF InsertObs
  <1>2. CASE contents # <<>>
    <2>1. f.obs = d.obs \cup rows /\ f.seq = d.seq + Len(contents)
      BY <1>2 DEF InsertObs, Databases
    <2>2. \A o \in rows : o.id > d.seq /\ o.entity = n
      BY <1>0
    <2> HIDE DEF rows, f
    <2> QED
      BY <1>0, <2>1, <2>2 DEF f
  <1> QED
    BY <1>1, <1>2

\* The rows a trim leaves.
LEMMA TrimmedRows ==
  ASSUME NEW d \in Databases, NEW n, NEW cap, NEW t
  PROVE  /\ TrimObs(d, n, cap, t).obs = d.obs \ (ObsOf(d, n) \ Newest(ObsOf(d, n), cap))
         /\ ObsOf(TrimObs(d, n, cap, t), n) = Newest(ObsOf(d, n), cap)
         /\ \A m : m # n => ObsOf(TrimObs(d, n, cap, t), m) = ObsOf(d, m)
  <1> DEFINE rows == {o \in ObsOf(d, n) : Cardinality(NewerIn(ObsOf(d, n), o)) >= cap}
             e == TrimObs(d, n, cap, t)
  <1>1. e.obs = d.obs \ rows
    BY DEF TrimObs, DeleteObs, Databases, NewerIn
  <1>2. rows = ObsOf(d, n) \ Newest(ObsOf(d, n), cap) /\ Newest(ObsOf(d, n), cap) \subseteq ObsOf(d, n)
    BY DEF Newest
  <1> HIDE DEF rows, e
  <1> QED
    BY <1>1, <1>2 DEF ObsOf, e

\* An observation and its trim evict the oldest, whatever a has lost before.
LEMMA ObserveEvicts ==
  ASSUME NEW a, Consistent(a), NEW d, Consistent(d), a.seq <= d.seq, NEW limit \in Nat,
         Evicted(a, d, limit), NEW n \in Names, NEW contents \in Seq(Contents),
         CanObserve(d, n, contents), NEW t \in Nat
  PROVE  Evicted(a, Observe(d, n, contents, limit, t), limit)
  <1> DEFINE f == InsertObs(d, n, contents, t)
             cap == Cap(limit)
             e == TrimObs(f, n, cap, t)
             S == ObsOf(f, n)
             K == Newest(S, cap)
  <1>0. cap \in Nat \ {0}
    BY OpsAssumption DEF Cap
  <1>1. Consistent(f)
    <2>1. CASE contents = <<>>
      BY <2>1 DEF InsertObs
    <2>2. CASE contents # <<>>
      BY <2>2, InsertObsConsistent DEF CanObserve
    <2> QED
      BY <2>1, <2>2
  <1>2. a \in Databases /\ d \in Databases /\ f \in Databases
    BY <1>1 DEF Consistent
  <1>3. /\ f.seq >= d.seq /\ d.obs \subseteq f.obs
        /\ \A o \in f.obs \ d.obs : o.entity = n /\ o.id > d.seq
    BY <1>2, InsertedRows
  <1>4. /\ a.seq \in Nat /\ d.seq \in Nat
        /\ \A o \in a.obs : o.id \in Nat /\ o.id <= a.seq
        /\ \A o \in f.obs : o.id \in Nat
    BY <1>2, Columns DEF Consistent, IdsUnique
  <1>5. /\ IsFiniteSet(S) /\ \A o \in S : o.id \in Nat
        /\ \A o, p \in S : o.id = p.id => o = p
    <2>1. S \in SUBSET f.obs
      BY DEF ObsOf
    <2>2. IsFiniteSet(S)
      BY <1>1, <2>1, ObsFinite, FS_Subset
    <2> QED
      BY <1>1, <1>4, <2>1, <2>2 DEF Consistent, IdsUnique
  <1>6. /\ \A o \in S \ K, p \in K : o.id < p.id
        /\ Cardinality(K) <= cap
        /\ K # S => Cardinality(K) = cap
        /\ K \subseteq S
    <2> HIDE DEF S, cap
    <2> QED
      BY <1>0, <1>5, NewestRows DEF Newest
  <1>7. /\ e.obs = f.obs \ (S \ K)
        /\ ObsOf(e, n) = K
        /\ \A m : m # n => ObsOf(e, m) = ObsOf(f, m)
    <2> HIDE DEF cap, f
    <2> QED
      BY <1>2, TrimmedRows
  <1>8. \A m : m # n => ObsOf(f, m) = ObsOf(d, m)
    <2> HIDE DEF f
    <2> QED
      BY <1>3 DEF ObsOf
  <1> HIDE DEF f, e, K, cap
  <1> SUFFICES ASSUME NEW o \in a.obs \ e.obs
               PROVE  /\ \A p \in ObsOf(e, o.entity) : o.id < p.id
                      /\ Cardinality(ObsOf(e, o.entity)) = cap
    BY DEF Evicted, Observe, e, f, cap
  <1>9. CASE o.entity # n
    <2>1. o \notin d.obs
      BY <1>3, <1>7, <1>9 DEF ObsOf
    <2> QED
      BY <1>7, <1>8, <1>9, <2>1 DEF Evicted, cap
  <1>10. CASE o.entity = n /\ o \in d.obs
    <2>1. o \in S \ K
      BY <1>3, <1>7, <1>10 DEF ObsOf
    <2>2. \A p \in K : o.id < p.id
      BY <1>6, <2>1
    <2>3. Cardinality(K) = cap
      BY <1>6, <2>1
    <2> HIDE DEF S
    <2> QED
      BY <1>7, <1>10, <2>2, <2>3
  <1>11. CASE o.entity = n /\ o \notin d.obs
    <2>1. /\ \A p \in ObsOf(d, n) : o.id < p.id
          /\ Cardinality(ObsOf(d, n)) = cap
      BY <1>11 DEF Evicted, cap
    <2>2. \A p \in S : o.id < p.id
      BY <1>3, <1>4, <2>1 DEF ObsOf
    <2>3. ObsOf(d, n) \in SUBSET S
      BY <1>3 DEF ObsOf
    <2>4. cap <= Cardinality(S)
      BY <1>5, <2>1, <2>3, FS_Subset
    <2>5. Cardinality(K) = cap
      <3> HIDE DEF S
      <3>1. CASE K = S
        BY <1>0, <1>5, <1>6, <2>4, <3>1, FS_CardinalityType
      <3> QED
        BY <1>6, <3>1
    <2> HIDE DEF S
    <2> QED
      BY <1>6, <1>7, <1>11, <2>2, <2>5
  <1> QED
    BY <1>9, <1>10, <1>11
=============================================================================
