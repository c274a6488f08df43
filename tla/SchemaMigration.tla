--------------------------- MODULE SchemaMigration ---------------------------
(***************************************************************************)
(* start() on one SQLite file, over and over: configuration checks,        *)
(* migrate(), and a process that fails, crashes or stops and starts again  *)
(* with the same or another configuration. Every statement of migrate()    *)
(* commits on its own, so a start that ends early leaves what it had done. *)
(* One process at a time uses the file (one store per process).            *)
(*                                                                         *)
(* A column or an index is a record with its name: the stored schema text  *)
(* is the set of the clauses in it.                                        *)
(***************************************************************************)
EXTENDS Naturals, Sequences

CONSTANTS
  Configs,        \* the configurations the host may start with
  SystemColumns,  \* SYSTEM_COLUMNS
  Folded(_),      \* a name as SQLite compares it, without regard to case
  Suffixes,       \* <<n, m>>: the name m ends with the other name n
  MaxFaults       \* bound: injected failures and crashes

Items(seq) == {seq[k] : k \in 1..Len(seq)}
Columns == UNION {Items(c.columns) : c \in Configs}
Indexes == UNION {Items(c.indexes) : c \in Configs}

ASSUME MaxFaultsAssumption == MaxFaults \in Nat
ASSUME ConfigsAssumption ==
  /\ Configs # {}
  /\ \A c \in Configs : Len(c.columns) \in Nat /\ Len(c.indexes) \in Nat
(* A column is its name and its definition. *)
ASSUME ColumnsAssumption ==
  \A c, d \in Columns : c.name = d.name /\ c.def = d.def => c = d

VARIABLES
  db,    \* the schema in the file, and whether _owned has rows
  boot,  \* the start() under way, or the last one
  faults \* how many failures were injected so far

migrationVars == <<db, boot, faults>>

Names(things) == {x.name : x \in things}

(* Records, checkpoint and owned tables, two indexes, the view.            *)
BaseStatements == 6

MigrationInit ==
  /\ db = [base |-> 0, columns |-> {}, indexes |-> {}, owned |-> FALSE]
  /\ boot = [pc |-> "down", config |-> CHOOSE c \in Configs : TRUE,
             step |-> 1, read |-> {}, why |-> "none"]
  /\ faults = 0

-----------------------------------------------------------------------------
(* Configuration *)

(* _validate_config: identifiers, paths and types are taken as well formed. *)
Valid(config) ==
  LET declared == Names(Items(config.columns))
  IN  /\ declared \cap SystemColumns = {}
      /\ \A i \in Items(config.indexes) :
           Items(i.columns) \subseteq SystemColumns \cup declared

(* The clause of a declared column occurs in the stored text: as the column *)
(* itself, or as the end of the clause of a column with a longer name.     *)
ClauseStored(column, columns) ==
  \E c \in columns : /\ c.def = column.def
                     /\ c.name = column.name \/ <<column.name, c.name>> \in Suffixes

(* ALTER and CREATE INDEX, as SQLite takes names. *)
Taken(name, things) == \E x \in things : Folded(x.name) = Folded(name)

SystemTakes(name) == \E n \in SystemColumns : Folded(n) = Folded(name)

AddsColumn(column) == ~Taken(column.name, db.columns) /\ ~SystemTakes(column.name)

AddsIndex(index) ==
  \A n \in Items(index.columns) : n \in SystemColumns \/ Taken(n, db.columns)

-----------------------------------------------------------------------------
(* start() *)

Moves(pc) == boot' = [boot EXCEPT !.pc = pc, !.step = 1]
Ends(why) == boot' = [boot EXCEPT !.pc = "down", !.why = why]
NextStep == boot' = [boot EXCEPT !.step = @ + 1]

Start(config) ==
  /\ boot.pc = "down"
  /\ boot' = [pc |-> IF Valid(config) THEN "base" ELSE "down", config |-> config,
              step |-> 1, read |-> {}, why |-> IF Valid(config) THEN "none" ELSE "ConfigError"]
  /\ UNCHANGED <<db, faults>>

(* Mutant of BaseLeft: off by one. *)
BaseLeftTooFar == boot.step <= BaseStatements

BaseLeft == boot.step < BaseStatements

CreateBase ==
  /\ boot.pc = "base"
  /\ db' = [db EXCEPT !.base = IF boot.step > @ THEN boot.step ELSE @]
  /\ IF BaseLeft THEN NextStep ELSE Moves("owned")
  /\ UNCHANGED faults

(* Mutant of OwnedLeft: stale ownership rows are kept. *)
OwnedLeftAll(owned) == owned

OwnedLeft(owned) == FALSE

ClearOwned ==
  /\ boot.pc = "owned"
  /\ db' = [db EXCEPT !.owned = OwnedLeft(@)]
  /\ Moves("read")
  /\ UNCHANGED faults

(* Mutant of Existing: PRAGMA table_info, which hides generated columns. *)
ExistingPlain(columns) == {}

Existing(columns) == columns

(* table_xinfo and the schema text, read once before the loop. *)
ReadSchema ==
  /\ boot.pc = "read"
  /\ boot' = [boot EXCEPT !.pc = "columns", !.step = 1, !.read = Existing(db.columns)]
  /\ UNCHANGED <<db, faults>>

Column == boot.config.columns[boot.step]
MoreColumns == boot.pc = "columns" /\ boot.step <= Len(boot.config.columns)

(* Mutant of Unchanged: a column that is there is taken as it is. *)
UnchangedByName(column, columns) == TRUE

Unchanged(column, columns) == ClauseStored(column, columns)

CheckColumn ==
  /\ MoreColumns /\ Column.name \in Names(boot.read)
  /\ IF Unchanged(Column, boot.read) THEN NextStep ELSE Ends("ConfigError")
  /\ UNCHANGED <<db, faults>>

AddColumn ==
  /\ MoreColumns /\ Column.name \notin Names(boot.read)
  /\ IF AddsColumn(Column)
       THEN NextStep /\ db' = [db EXCEPT !.columns = @ \cup {Column}]
       ELSE Ends("SchemaMigrationError") /\ UNCHANGED db
  /\ UNCHANGED faults

ColumnsDone ==
  /\ boot.pc = "columns" /\ boot.step > Len(boot.config.columns)
  /\ Moves("indexes")
  /\ UNCHANGED <<db, faults>>

Index == boot.config.indexes[boot.step]
MoreIndexes == boot.pc = "indexes" /\ boot.step <= Len(boot.config.indexes)

(* The shape of an index, found by its exact name, read just before. *)
CheckIndex ==
  /\ MoreIndexes /\ Index.name \in Names(db.indexes)
  /\ IF Index \in db.indexes THEN NextStep ELSE Ends("ConfigError")
  /\ UNCHANGED <<db, faults>>

(* CREATE INDEX IF NOT EXISTS: a name that SQLite knows in another case is  *)
(* there already.                                                          *)
CreateIndex ==
  /\ MoreIndexes /\ Index.name \notin Names(db.indexes)
  /\ IF Taken(Index.name, db.indexes) \/ AddsIndex(Index)
       THEN /\ NextStep
            /\ db' = [db EXCEPT !.indexes = IF Taken(Index.name, @) THEN @ ELSE @ \cup {Index}]
       ELSE Ends("SchemaMigrationError") /\ UNCHANGED db
  /\ UNCHANGED faults

(* Producer and admin client have started, the services are composed. *)
IndexesDone ==
  /\ boot.pc = "indexes" /\ boot.step > Len(boot.config.indexes)
  /\ Moves("up")
  /\ UNCHANGED <<db, faults>>

MigrationStep ==
  \/ CreateBase \/ ClearOwned \/ ReadSchema
  \/ CheckColumn \/ AddColumn \/ ColumnsDone
  \/ CheckIndex \/ CreateIndex \/ IndexesDone

(* A statement or a client fails for a reason outside the schema (the code  *)
(* raises StorageError, SchemaMigrationError or KSQLiteError); the process  *)
(* crashes or is stopped. The statement under way has taken effect or not:  *)
(* the two are this action after and before its step.                      *)
Fails(why) ==
  /\ boot.pc # "down" /\ faults < MaxFaults
  /\ why \in {"crash", "failure"}
  /\ why = "failure" => boot.pc # "up"
  /\ faults' = faults + 1
  /\ Ends(why)
  /\ UNCHANGED db

(* A partition is revealed while the store runs. *)
Reveal ==
  /\ boot.pc = "up"
  /\ db' = [db EXCEPT !.owned = TRUE]
  /\ UNCHANGED <<boot, faults>>

MigrationNext ==
  \/ \E config \in Configs : Start(config)
  \/ MigrationStep
  \/ \E why \in {"crash", "failure"} : Fails(why)
  \/ Reveal

MigrationSpec == MigrationInit /\ [][MigrationNext]_migrationVars
==============================================================================
