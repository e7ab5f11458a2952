------------------------------ MODULE Migration ------------------------------
(***************************************************************************)
(* Bringing a firm's history over: parseMigrationPlan of                   *)
(* packages/migration/src/mapping.ts, runMigration and reconcile of        *)
(* runner.ts.                                                              *)
(*                                                                         *)
(* A run goes through the source records in the order of the plan, inside  *)
(* one transaction of withTenant.  A record is what the run can tell of    *)
(* it: its identifier, whether the filter excludes it, whether the         *)
(* transforms can read it, which record it refers to, and whether the      *)
(* table's constraints accept it.  Values, counts of unmapped fields and   *)
(* warnings are left out.                                                  *)
(***************************************************************************)
EXTENDS Naturals, Sequences, FiniteSets, FiniteSetsExt

CONSTANTS
    Ids,           \* identifiers in the old system
    Plans,         \* orders of entities a firm may write down
    MaxRecords,    \* bound: source records
    MaxRuns,       \* bound: runs over one source
    NoId,          \* the identifier of a record that has none
    Unplanned      \* records a source may hold of what the plan does not have

VARIABLES
    plan, source,    \* chosen at the start and fixed
    target,          \* committed rows: {[entity, id, owner, run]}
    runs,            \* the runs that are over, with their migration_records
    run              \* the run under way

mvars == <<plan, source, target, runs, run>>

Entities == {"client", "case", "debt"}

\* dependencies in parseMigrationPlan, restricted to Entities.
Needs(e) == CASE e = "client" -> {} [] e = "case" -> {"client"} [] e = "debt" -> {"case"}

Positions(p, e) == {i \in DOMAIN p : p[i] = e}

\* What the plan says how to bring over.  The source may hold more.
Planned == {e \in Entities : Positions(plan, e) # {}}

\* parseMigrationPlan: what an entity refers to is in the plan, and before it.
ValidPlan(p) ==
    \A e \in Entities : Positions(p, e) # {} =>
        \A need \in Needs(e) :
            Positions(p, need) # {} /\ Min(Positions(p, need)) <= Min(Positions(p, e))

\* "empty": no column of the mapping gets a value.
Kinds == {"good", "filtered", "unreadable", "empty", "refused"}

\* refers: the identifier of the record this one belongs to.
SourceRecord == [id: Ids \cup {NoId}, kind: Kinds, refers: Ids]

Outcomes == {"created", "skipped", "failed"}

\* rows: one per identifier and entity, the first that was recorded.
Fresh == [mode |-> "none", at |-> 1, done |-> 0, identity |-> {}, rows |-> {}]

TypeOK ==
    /\ plan \in Plans /\ source \in [Entities -> Seq(SourceRecord)]
    /\ target \subseteq [entity: Entities, id: Ids, owner: Ids \cup {NoId}, run: 1 .. MaxRuns]
    /\ run.mode \in {"none", "dry-run", "live"}
    /\ run.identity \subseteq [entity: Entities, id: Ids, owner: Ids \cup {NoId}]
    /\ run.rows \subseteq [entity: Entities, id: Ids \cup {NoId}, outcome: Outcomes]
    /\ Len(runs) <= MaxRuns

\* Records as the run tells them apart: what one refers to is looked at when
\* it is to be written, and one without an identifier fails before the rest.
Records(e) ==
    IF e \in Planned
    THEN {r \in SourceRecord :
             /\ Needs(e) = {} \/ r.id = NoId \/ r.kind # "good" => r.refers = CHOOSE i \in Ids : TRUE
             /\ r.id = NoId => r.kind = "good"}
    ELSE Unplanned

\* Bound: at most MaxRecords, and not all of them of one entity.
Sizes == {n \in [Entities -> 0 .. MaxRecords - 1] : n["client"] + n["case"] + n["debt"] <= MaxRecords}

Init ==
    /\ plan \in {p \in Plans : ValidPlan(p)}
    /\ \E n \in Sizes :
          \E clients \in [1 .. n["client"] -> Records("client")],
             cases \in [1 .. n["case"] -> Records("case")],
             debts \in [1 .. n["debt"] -> Records("debt")] :
                source = [e \in Entities |->
                             CASE e = "client" -> clients [] e = "case" -> cases [] e = "debt" -> debts]
    /\ target = {} /\ runs = << >> /\ run = Fresh

-----------------------------------------------------------------------------
Start(mode) ==
    /\ run.mode = "none" /\ Len(runs) < MaxRuns
    /\ run' = [Fresh EXCEPT !.mode = mode]
    /\ UNCHANGED <<plan, source, target, runs>>

Entity == plan[run.at]
Current == source[Entity][run.done + 1]
HasRecord == run.mode # "none" /\ run.at <= Len(plan) /\ run.done < Len(source[Entity])

\* recordOutcome: ON CONFLICT (run, entity, source id) DO NOTHING.
Recorded(rows, e, id, outcome) ==
    IF \E row \in rows : row.entity = e /\ row.id = id THEN rows
    ELSE rows \cup {[entity |-> e, id |-> id, outcome |-> outcome]}

\* The identity map knows the record the current one refers to.  What it does
\* not know stays the old identifier, which no table takes for a key.
Resolved == \A need \in Needs(Entity) : \E known \in run.identity : known.entity = need /\ known.id = Current.refers

Owner == IF Needs(Entity) = {} THEN NoId ELSE Current.refers

\* migrateEntity, for a record that is not written; writeRecord refuses an
\* empty one itself, before the database sees it.
Unwritten ==
    IF Current.id = NoId \/ Current.kind = "unreadable" THEN {"failed"}
    ELSE IF Current.kind = "filtered" THEN {"skipped"}
    ELSE IF run.mode = "dry-run" THEN {"created"}
    ELSE IF Current.kind = "empty" THEN {"failed"} ELSE {}

Note ==
    /\ HasRecord
    /\ \E outcome \in Unwritten :
          run' = [run EXCEPT !.done = @ + 1, !.rows = Recorded(@, Entity, Current.id, outcome)]
    /\ UNCHANGED <<plan, source, target, runs>>

\* writeRecord, and the row of the identity map.
Write ==
    /\ HasRecord /\ Unwritten = {} /\ Resolved /\ Current.kind = "good"
    /\ run' = [run EXCEPT !.done = @ + 1,
                          !.identity = @ \cup {[entity |-> Entity, id |-> Current.id, owner |-> Owner]},
                          !.rows = Recorded(@, Entity, Current.id, "created")]
    /\ UNCHANGED <<plan, source, target, runs>>

Over(completed) ==
    /\ runs' = Append(runs, [mode |-> run.mode, completed |-> completed,
                             rows |-> IF completed THEN run.rows ELSE {}])
    /\ run' = Fresh

\* An INSERT the database refuses aborts the transaction: recordOutcome fails
\* in it, and so does the UPDATE of the run's status; everything is rolled back.
WriteFails ==
    /\ HasRecord /\ Unwritten = {} /\ ~(Resolved /\ Current.kind = "good")
    /\ Over(FALSE)
    /\ UNCHANGED <<plan, source, target>>

NextEntity ==
    /\ run.mode # "none" /\ run.at <= Len(plan) /\ run.done = Len(source[Entity])
    /\ run' = [run EXCEPT !.at = @ + 1, !.done = 0]
    /\ UNCHANGED <<plan, source, target, runs>>

Finish ==
    /\ run.mode # "none" /\ run.at > Len(plan)
    /\ target' = target \cup {[entity |-> k.entity, id |-> k.id, owner |-> k.owner, run |-> Len(runs) + 1]
                                 : k \in run.identity}
    /\ Over(TRUE)
    /\ UNCHANGED <<plan, source>>

Next ==
    \/ \E mode \in {"dry-run", "live"} : Start(mode)
    \/ Note \/ Write \/ WriteFails \/ NextEntity \/ Finish

Spec == Init /\ [][Next]_mvars

-----------------------------------------------------------------------------
\* reconcile, told how many records the source really had.
\* Seeded fault: the records with a problem are not looked at.
Balanced_Counted(rows) ==
    \A e \in {row.entity : row \in rows} :
        Cardinality({row \in rows : row.entity = e}) = Len(source[e])
Balanced(rows) ==
    /\ \A e \in {row.entity : row \in rows} :
          Cardinality({row \in rows : row.entity = e}) = Len(source[e])
    /\ \A row \in rows : row.outcome # "failed"

(* A live run that reconciles as balanced has brought everything across    *)
(* that is of an entity of the plan and that the filter does not exclude,  *)
(* each record attached to the record it belonged to: what failed, what    *)
(* had no identifier and what shared one shows (runner.ts:17-19, 308-313). *)
BalancedIsComplete ==
    \A n \in DOMAIN runs :
        runs[n].completed /\ runs[n].mode = "live" /\ Balanced(runs[n].rows) =>
            \A e \in Planned : \A i \in DOMAIN source[e] :
                LET r == source[e][i] IN r.kind # "filtered" =>
                    /\ [entity |-> e, id |-> r.id, run |-> n,
                        owner |-> IF Needs(e) = {} THEN NoId ELSE r.refers] \in target
                    /\ \A need \in Needs(e) :
                          \E t \in target : t.entity = need /\ t.id = r.refers /\ t.run = n

(* "Every source record produces a row, including the ones that were       *)
(* skipped and the ones that failed": where a run reconciles as balanced,  *)
(* there are as many rows as the source has records (runner.ts:17-20).     *)
EveryRecordCounted ==
    \A n \in DOMAIN runs :
        runs[n].completed /\ Balanced(runs[n].rows) =>
            \A e \in Entities :
                Cardinality({row \in runs[n].rows : row.entity = e}) = Len(source[e])

(* A dry run that reports no failure promises a live run that has none:    *)
(* "a dry run writes nothing but produces the same report as a live run".  *)
(* It looks neither into the identity map nor at the table's constraints.  *)
DryRunPredicts ==
    \A n, k \in DOMAIN runs :
        runs[n].mode = "dry-run" /\ (\A row \in runs[n].rows : row.outcome # "failed") => runs[k].completed
=============================================================================
