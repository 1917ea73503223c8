----------------------------- MODULE Migrations -----------------------------
(***************************************************************************)
(* The schema and its five revisions (alembic/versions).  A command runs   *)
(* all its revisions in one transaction (alembic/env.py), so it takes      *)
(* effect as a whole or not at all.  Three revisions write reference data, *)
(* which operators also edit; of the rows of a table it matters only how   *)
(* they meet the migration's own (kind).                                   *)
(***************************************************************************)
EXTENDS Naturals, FiniteSets

CONSTANT MaxOwnRows  \* bound: rows of operators at a time

ASSUME MigrationsAssumption == MaxOwnRows \in Nat

VARIABLES
  version,  \* alembic_version, 0: base
  tables,   \* tables that exist
  rows_of,  \* reference data: <<table, kind>>
  in_use,   \* rows that memberships or assignments point to
  mine,     \* history: rows operators inserted and have not lost by a drop
  removed   \* history: tables from which an operator took the seeded code

schemaVars == <<version, tables, rows_of, in_use, mine, removed>>

Revision == 1..5

(* What each revision creates, in groups of tables that belong together.   *)
PersonTables == {"persons", "roles", "person_roles"}
EventTables  == {"events", "event_responsibilities", "event_assignments"}
ReportTables == {"event_reports"}
UserTables   == {"users"}
AuthorizationTables ==
  {"application_roles", "permissions", "user_application_roles",
   "application_role_permissions"}

Creates == << PersonTables \cup EventTables \cup ReportTables, {}, {},
              UserTables, AuthorizationTables >>

(* The tables each revision seeds.                                         *)
Seeds == << {}, {"roles"}, {"event_responsibilities"}, {},
            {"application_roles", "permissions"} >>

TablesAt(v) == UNION {Creates[r] : r \in 1..v}
Seeded      == UNION {Seeds[r] : r \in Revision}
SeededBy(t) == CHOOSE r \in Revision : t \in Seeds[r]

(* "seed": a row with the id the migration owns.  An operator's row can    *)
(* have a seed's code, its name under another code, or neither.            *)
RowKind == {"seed", "sameCode", "sameName", "own"}

SchemaTypeOK ==
  /\ version \in 0..5
  /\ tables \subseteq TablesAt(5)
  /\ rows_of \subseteq Seeded \X RowKind
  /\ in_use \subseteq rows_of
  /\ mine \subseteq Seeded \X (RowKind \ {"seed"})
  /\ removed \subseteq Seeded

(* A database that has been migrated to v and not been edited.             *)
SchemaInit(v) ==
  /\ version = v /\ tables = TablesAt(v)
  /\ rows_of = {x \in Seeded \X {"seed"} : SeededBy(x[1]) <= v}
  /\ in_use = {} /\ mine = {} /\ removed = {}

-----------------------------------------------------------------------------
(* The database as a command's transaction sees it                         *)

Here == [at |-> version, tables |-> tables, rows |-> rows_of, ok |-> TRUE]

Of(d, t, k) == <<t, k>> \in d.rows

(* Mutant: an existing row is replaced by the migration's.                 *)
SeedOver(d, t) ==
  [d EXCEPT !.rows = (@ \ {<<t, "sameCode">>}) \cup {<<t, "seed">>}]

(* INSERT ... ON CONFLICT (code) DO NOTHING: a row with the code stays as  *)
(* it is; a row with the name under another code fails the statement.      *)
Seed(d, t) ==
  IF Of(d, t, "seed") \/ Of(d, t, "sameCode") THEN d
  ELSE IF Of(d, t, "sameName") THEN [d EXCEPT !.ok = FALSE]
  ELSE [d EXCEPT !.rows = @ \cup {<<t, "seed">>}]

SeedAll(d, r) ==
  [d EXCEPT !.rows = {x \in d.rows : x[1] \notin Seeds[r]} \cup
                       UNION {{x \in Seed(d, t).rows : x[1] = t} : t \in Seeds[r]},
            !.ok = \A t \in Seeds[r] : Seed(d, t).ok]

Upgrade(d, r) ==
  [SeedAll([d EXCEPT !.tables = @ \cup Creates[r]], r) EXCEPT !.at = r]

(* DELETE of the ids the migration owns; ON DELETE RESTRICT.               *)
Unseed(d, r) ==
  LET owned == d.rows \cap (Seeds[r] \X {"seed"})
  IN  [d EXCEPT !.rows = @ \ owned, !.ok = owned \cap in_use = {}]

(* Revisions 2 and 3 delete their rows; the others drop their tables.      *)
Downgrade(d, r) ==
  LET undone ==
        IF r \in {2, 3} THEN Unseed(d, r)
        ELSE [d EXCEPT !.tables = @ \ Creates[r],
                       !.rows = {x \in @ : x[1] \notin Creates[r]}]
  IN  [undone EXCEPT !.at = r - 1]

(* One revision after another until v or a failure: at most five.          *)
StepUp(d, v)   == IF d.ok /\ d.at < v THEN Upgrade(d, d.at + 1) ELSE d
StepDown(d, v) == IF d.ok /\ d.at > v THEN Downgrade(d, d.at) ELSE d

Upgraded(v) ==
  StepUp(StepUp(StepUp(StepUp(StepUp(Here, v), v), v), v), v)
Downgraded(v) ==
  StepDown(StepDown(StepDown(StepDown(StepDown(Here, v), v), v), v), v)

(* Mutant: no transaction, what was done before a failure stays.           *)
CommitParts(d) ==
  /\ version' = IF d.ok THEN d.at ELSE version
  /\ tables' = d.tables /\ rows_of' = d.rows
  /\ in_use' = in_use \cap d.rows

(* The command's transaction commits.                                      *)
Commit(d) ==
  /\ d.ok
  /\ version' = d.at /\ tables' = d.tables /\ rows_of' = d.rows
  /\ in_use' = in_use \cap d.rows

(* alembic upgrade v                                                       *)
UpgradeTo(v) ==
  /\ version <= v
  /\ Commit(Upgraded(v))
  /\ removed' = {t \in removed : SeededBy(t) <= version}
  /\ UNCHANGED mine

(* alembic downgrade v, by hand                                            *)
DowngradeTo(v) ==
  /\ v < version
  /\ Commit(Downgraded(v))
  /\ removed' = {t \in removed : SeededBy(t) <= v}
  /\ mine' = {x \in mine : x[1] \in TablesAt(v)}

-----------------------------------------------------------------------------
(* Operators and the application edit the reference data                   *)

InsertRow(t, k) ==
  /\ t \in tables \cap Seeded /\ k # "seed"
  /\ Cardinality(mine) < MaxOwnRows
  /\ <<t, k>> \notin rows_of
  /\ k = "sameCode" => <<t, "seed">> \notin rows_of
  /\ k = "sameName" => <<t, "seed">> \notin rows_of
  /\ rows_of' = rows_of \cup {<<t, k>>}
  /\ mine' = mine \cup {<<t, k>>}
  /\ removed' = IF k = "sameCode" THEN removed \ {t} ELSE removed
  /\ UNCHANGED <<version, tables, in_use>>

DeleteRow(x) ==
  /\ x \in rows_of \ in_use
  /\ rows_of' = rows_of \ {x}
  /\ mine' = mine \ {x}
  /\ removed' = IF x[2] \in {"seed", "sameCode"} THEN removed \cup {x[1]} ELSE removed
  /\ UNCHANGED <<version, tables, in_use>>

(* A membership, an assignment or a grant comes or goes.                   *)
UseRow(x) ==
  /\ x[1] # "permissions"
  /\ x \in rows_of
  /\ in_use' = IF x \in in_use THEN in_use \ {x} ELSE in_use \cup {x}
  /\ UNCHANGED <<version, tables, rows_of, mine, removed>>

SchemaNext ==
  \/ \E v \in 0..5 : UpgradeTo(v) \/ DowngradeTo(v)
  \/ \E t \in Seeded, k \in RowKind : InsertRow(t, k)
  \/ \E x \in rows_of : DeleteRow(x) \/ UseRow(x)

-----------------------------------------------------------------------------
(* Properties *)

(* The tables are those of the recorded revision, whatever failed: no      *)
(* command stops halfway (docs/12-DEPLOYMENT.md:497).                      *)
SchemaWhole == tables = TablesAt(version)

(* Downgrades delete and upgrades overwrite only rows the migrations own   *)
(* (0002:9-20): what an operator inserted is there until an operator       *)
(* deletes it or its table is dropped; and each seeded code is there until *)
(* an operator removes it.                                                 *)
DataKept ==
  /\ {x \in rows_of : x[2] # "seed"} = mine
  /\ \A t \in Seeded :
       (SeededBy(t) <= version /\ t \notin removed) =>
         \E k \in {"seed", "sameCode"} : <<t, k>> \in rows_of
=============================================================================
