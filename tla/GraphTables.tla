---------------------------- MODULE GraphTables ----------------------------
(***************************************************************************)
(* The tables of one graph file and the SQL statements the store issues on *)
(* them, each with the foreign-key cascade and the triggers that fire      *)
(* inside it (crates/asobi-storage/migrations/0001_baseline.sql).    *)
(*                                                                         *)
(* A database value is a record of tables.  A statement is an operator     *)
(* from a database value (and the statement's clock reading, t) to the     *)
(* next one; nothing here is a state machine.                              *)
(***************************************************************************)
EXTENDS Naturals, Sequences, FiniteSets

CONSTANTS
    Names,      \* entity names in their stored, normalised form
    NameRank,   \* the order ORDER BY name puts them in
    Types,      \* entity types
    Keys,       \* truth keys
    Values,     \* truth values, task statuses included
    Contents,   \* observation texts
    RelTypes,   \* relation types
    Null        \* SQL NULL / no row

ASSUME NamesAssumption ==
    /\ IsFiniteSet(Names)
    /\ NameRank \in [Names -> Nat]
    /\ \A m, n \in Names : NameRank[m] = NameRank[n] => m = n

ASSUME ColumnsAssumption ==
    /\ "task" \in Types /\ Null \notin Types
    /\ "status" \in Keys
    /\ Null \notin Values
    /\ "part_of" \in RelTypes

Observations == [id : Nat, entity : Names, content : Contents]

Databases ==
    [ type     : [Names -> Types \cup {Null}],              \* asobi_entities
      activity : [Names -> Nat],                            \* ... last_activity
      obs      : SUBSET Observations,                       \* asobi_observations
      seq      : Nat,                                       \* its AUTOINCREMENT counter
      truth    : [Names -> [Keys -> Values \cup {Null}]],   \* asobi_truths
      rel      : SUBSET (Names \X Names \X RelTypes),       \* asobi_relations
      obsFts   : SUBSET (Nat \X Contents),                  \* asobi_obs_fts
      truthFts : SUBSET (Names \X Keys \X Values) ]         \* asobi_truth_fts

EmptyDatabase ==
    [ type     |-> [n \in Names |-> Null],
      activity |-> [n \in Names |-> 0],
      obs      |-> {},
      seq      |-> 0,
      truth    |-> [n \in Names |-> [k \in Keys |-> Null]],
      rel      |-> {},
      obsFts   |-> {},
      truthFts |-> {} ]

----------------------------------------------------------------------------
(* What the statements read. *)

Live(d) == {n \in Names : d.type[n] # Null}

Tasks(d) == {n \in Names : d.type[n] = "task"}

ObsOf(d, n) == {o \in d.obs : o.entity = n}

\* COALESCE((SELECT value ... AND key = 'status'), '')
StatusOf(d, n) == IF d.truth[n]["status"] = Null THEN "" ELSE d.truth[n]["status"]

\* "ORDER BY name LIMIT 1" keeps the only member of this set, if it has one
Least(S) == {n \in S : \A m \in S : NameRank[n] <= NameRank[m]}

\* The index entries of a set of observation rows
ObsEntries(rows) == {<<o.id, o.content>> : o \in rows}

----------------------------------------------------------------------------
(* The statements. *)

\* INSERT OR IGNORE INTO asobi_entities, issued on a free name
InsertEntity(d, n, type, t) ==
    [d EXCEPT !.type[n] = type, !.activity[n] = t]

\* Mutant: an INTEGER PRIMARY KEY without AUTOINCREMENT
InsertObs_RowIds(d, n, contents, t) ==
    LET top  == CHOOSE i \in 0..d.seq : (i = 0 \/ \E o \in d.obs : o.id = i)
                                       /\ \A o \in d.obs : o.id <= i
        rows == {[id |-> top + i, entity |-> n, content |-> contents[i]] : i \in 1..Len(contents)}
    IN  IF contents = <<>> THEN d
        ELSE [d EXCEPT !.obs      = @ \cup rows,
                       !.obsFts   = @ \cup ObsEntries(rows),
                       !.seq      = IF top + Len(contents) > @ THEN top + Len(contents) ELSE @,
                       !.activity = [@ EXCEPT ![n] = t]]

\* One INSERT INTO asobi_observations per content, in order
InsertObs(d, n, contents, t) ==
    LET rows == {[id |-> d.seq + i, entity |-> n, content |-> contents[i]] :
                    i \in 1..Len(contents)}
    IN  IF contents = <<>> THEN d
        ELSE [d EXCEPT !.obs      = @ \cup rows,
                       !.obsFts   = @ \cup ObsEntries(rows),
                       !.seq      = @ + Len(contents),
                       !.activity = [@ EXCEPT ![n] = t]]

\* DELETE FROM asobi_observations, on the rows its WHERE clause selects
DeleteObs(d, rows, t) ==
    [d EXCEPT !.obs      = @ \ rows,
              !.obsFts   = @ \ ObsEntries(rows),
              !.activity = [n \in Names |->
                              IF \E o \in rows : o.entity = n THEN t ELSE d.activity[n]]]

\* UPDATE asobi_observations SET content
UpdateObs(d, rows, content, t) ==
    LET new == {[o EXCEPT !.content = content] : o \in rows}
    IN  [d EXCEPT !.obs      = (@ \ rows) \cup new,
                  !.obsFts   = (@ \ ObsEntries(rows)) \cup ObsEntries(new),
                  !.activity = [n \in Names |->
                                  IF \E o \in rows : o.entity = n THEN t ELSE d.activity[n]]]

\* Mutant: ORDER BY id without DESC
TrimObs_Oldest(d, n, cap, t) ==
    LET Older(o) == {p \in ObsOf(d, n) : p.id < o.id}
    IN  DeleteObs(d, {o \in ObsOf(d, n) : Cardinality(Older(o)) >= cap}, t)

\* DELETE ... AND id NOT IN (SELECT id ... ORDER BY id DESC LIMIT cap)
TrimObs(d, n, cap, t) ==
    LET Newer(o) == {p \in ObsOf(d, n) : p.id > o.id}
    IN  DeleteObs(d, {o \in ObsOf(d, n) : Cardinality(Newer(o)) >= cap}, t)

\* The index without the entry of the truth <<n, k>>
TruthUnindexed(d, n, k) == d.truthFts \ {<<n, k, d.truth[n][k]>>}

\* Mutant: no activity trigger on UPDATE OF asobi_truths
SetTruth_Quiet(d, n, k, v, t) ==
    [d EXCEPT !.truth[n][k]  = v,
              !.truthFts     = TruthUnindexed(d, n, k) \cup {<<n, k, v>>},
              !.activity[n]  = IF d.truth[n][k] = Null THEN t ELSE @]

\* INSERT INTO asobi_truths ... ON CONFLICT DO UPDATE
SetTruth(d, n, k, v, t) ==
    [d EXCEPT !.truth[n][k]  = v,
              !.truthFts     = TruthUnindexed(d, n, k) \cup {<<n, k, v>>},
              !.activity[n]  = t]

\* DELETE FROM asobi_truths WHERE entity_name = ? AND key = ?
DropTruth(d, n, k, t) ==
    IF d.truth[n][k] = Null THEN d
    ELSE [d EXCEPT !.truth[n][k] = Null,
                   !.truthFts    = TruthUnindexed(d, n, k),
                   !.activity[n] = t]

\* Mutant: asobi_relations.from_entity without ON DELETE CASCADE
DeleteEntities_Dangling(d, gone) ==
    LET rows == {o \in d.obs : o.entity \in gone}
    IN  [d EXCEPT !.type     = [n \in Names |-> IF n \in gone THEN Null ELSE d.type[n]],
                  !.activity = [n \in Names |-> IF n \in gone THEN 0 ELSE d.activity[n]],
                  !.obs      = @ \ rows,
                  !.obsFts   = @ \ ObsEntries(rows),
                  !.truth    = [n \in Names |-> IF n \in gone THEN [k \in Keys |-> Null]
                                                ELSE d.truth[n]],
                  !.truthFts = {e \in @ : e[1] \notin gone},
                  !.rel      = {r \in @ : r[2] \notin gone}]

\* DELETE FROM asobi_entities: ON DELETE CASCADE takes the rows that refer to
\* the names, and their own delete triggers clear the search indexes
DeleteEntities(d, gone) ==
    LET rows == {o \in d.obs : o.entity \in gone}
    IN  [d EXCEPT !.type     = [n \in Names |-> IF n \in gone THEN Null ELSE d.type[n]],
                  !.activity = [n \in Names |-> IF n \in gone THEN 0 ELSE d.activity[n]],
                  !.obs      = @ \ rows,
                  !.obsFts   = @ \ ObsEntries(rows),
                  !.truth    = [n \in Names |-> IF n \in gone THEN [k \in Keys |-> Null]
                                                ELSE d.truth[n]],
                  !.truthFts = {e \in @ : e[1] \notin gone},
                  !.rel      = {r \in @ : r[1] \notin gone /\ r[2] \notin gone}]

----------------------------------------------------------------------------
(* What every database value the program commits must satisfy. *)

\* Every row refers to entities that exist.
ReferentialIntegrity(d) ==
    /\ \A o \in d.obs : o.entity \in Live(d)
    /\ \A n \in Names, k \in Keys : d.truth[n][k] # Null => n \in Live(d)
    /\ \A r \in d.rel : r[1] \in Live(d) /\ r[2] \in Live(d)

\* An observation id names one observation, and the counter is past them all.
IdsUnique(d) ==
    /\ \A o, p \in d.obs : o.id = p.id => o = p
    /\ \A o \in d.obs : o.id <= d.seq

\* The search indexes hold exactly the text of the rows that exist.
IndexesExact(d) ==
    /\ d.obsFts = ObsEntries(d.obs)
    /\ \A n \in Names, k \in Keys, v \in Values :
         <<n, k, v>> \in d.truthFts <=> d.truth[n][k] = v

Consistent(d) ==
    /\ d \in Databases
    /\ ReferentialIntegrity(d)
    /\ IdsUnique(d)
    /\ IndexesExact(d)

----------------------------------------------------------------------------
(* What every step from one database value to the next must respect. *)

\* An id of the old counter's range still names an observation of the same
\* entity, or nothing.
IdsFresh(d, e) ==
    /\ e.seq >= d.seq
    /\ \A o \in e.obs :
         o.id <= d.seq => \E p \in d.obs : p.id = o.id /\ p.entity = o.entity

\* An entity that has been created, or whose truths have changed, carries the
\* clock's reading; the others carry what they had.
Stamped(d, e, t) ==
    \A n \in Live(e) :
      \/ e.activity[n] = t
      \/ e.type[n] = d.type[n] /\ e.activity[n] = d.activity[n] /\ e.truth[n] = d.truth[n]

Evolves(d, e, t) == IdsFresh(d, e) /\ Stamped(d, e, t)
=============================================================================
