-------------------------- MODULE StoreSetupProofs --------------------------
(***************************************************************************)
(* Theorems of StoreSetup for any configurations, names and changelogs:    *)
(* what a store that is up has in its file, why start() refuses, and what  *)
(* the cache of checked changelogs says.                                   *)
(***************************************************************************)
EXTENDS StoreSetup, TLAPS

USE MaxFaultsAssumption, ConfigsAssumption

DbType == [base : 0..BaseStatements, columns : SUBSET Columns,
           indexes : SUBSET Indexes, owned : BOOLEAN]
BootType == [pc : BootPcs, config : Configs, step : Nat \ {0},
             read : SUBSET Columns, why : Whys]
FileTypeOK == db \in DbType /\ boot \in BootType /\ faults \in 0..MaxFaults
TopicsTypeOK ==
  /\ topic \in [Topics -> Policies \cup {"absent"}]
  /\ checked \subseteq TPs
  /\ call \in [TPs -> {"idle", "list", "create", "verify"}]
  /\ existed \subseteq Topics /\ reported \subseteq Topics

LEMMA TypeSplit == TypeOK <=> FileTypeOK /\ TopicsTypeOK
  BY DEF TypeOK, FileTypeOK, TopicsTypeOK, DbType, BootType

-----------------------------------------------------------------------------
(* Types of the file and of a start *)

(* What is declared at a step of the loops. *)
LEMMA Declared ==
  ASSUME boot \in BootType, boot.step \in Nat \ {0}
  PROVE  /\ boot.step <= Len(boot.config.columns) => Column \in Columns /\ Column \in Items(boot.config.columns)
         /\ boot.step <= Len(boot.config.indexes) => Index \in Indexes /\ Index \in Items(boot.config.indexes)
<1>1. boot.config \in Configs
  BY DEF BootType
<1>2. Len(boot.config.columns) \in Nat /\ Len(boot.config.indexes) \in Nat
  BY <1>1
<1>3. boot.step <= Len(boot.config.columns) => Column \in Items(boot.config.columns)
  BY <1>2 DEF Column, Items
<1>4. boot.step <= Len(boot.config.indexes) => Index \in Items(boot.config.indexes)
  BY <1>2 DEF Index, Items
<1> QED
  BY <1>1, <1>3, <1>4 DEF Columns, Indexes

LEMMA MovesFields ==
  ASSUME boot \in BootType, NEW pc \in BootPcs, Moves(pc)
  PROVE  /\ boot' \in BootType /\ boot'.pc = pc /\ boot'.step = 1
         /\ boot'.config = boot.config /\ boot'.read = boot.read /\ boot'.why = boot.why
<1>1. boot' = [boot EXCEPT !.pc = pc, !.step = 1]
  BY DEF Moves
<1>2. 1 \in Nat \ {0}
  OBVIOUS
<1> QED
  BY <1>1, <1>2 DEF BootType

LEMMA EndsFields ==
  ASSUME boot \in BootType, NEW why \in Whys, Ends(why)
  PROVE  /\ boot' \in BootType /\ boot'.pc = "down" /\ boot'.why = why
         /\ boot'.config = boot.config /\ boot'.step = boot.step
  BY DEF BootType, Ends, BootPcs

LEMMA NextFields ==
  ASSUME boot \in BootType, NextStep
  PROVE  /\ boot' \in BootType /\ boot'.pc = boot.pc /\ boot'.step = boot.step + 1
         /\ boot'.config = boot.config /\ boot'.read = boot.read /\ boot'.why = boot.why
  BY DEF BootType, NextStep

-----------------------------------------------------------------------------
(* The file and the starts *)

FileInv ==
  FileTypeOK /\ StartInv /\ BootShowsNothing /\ UpMeansDeclared /\ RefusalMeansDrift

LEMMA FileNow ==
  ASSUME FileInv
  PROVE  /\ db \in DbType /\ boot \in BootType /\ faults \in 0..MaxFaults
         /\ boot.step \in Nat \ {0} /\ boot.config \in Configs
         /\ Len(boot.config.columns) \in Nat /\ Len(boot.config.indexes) \in Nat
         /\ db.base \in 0..BaseStatements /\ db.columns \subseteq Columns
         /\ boot.pc \in BootPcs /\ boot.read \subseteq Columns
  BY DEF FileInv, FileTypeOK, BootType, DbType

LEMMA FileInit ==
  ASSUME MigrationInit
  PROVE  FileInv
<1>1. boot.config \in Configs
  BY DEF MigrationInit
<1>2. /\ boot.pc = "down" /\ boot.step = 1 /\ boot.read = {} /\ boot.why = "none"
      /\ db.base = 0 /\ db.owned = FALSE
  BY DEF MigrationInit
<1>3. FileTypeOK
  BY <1>1 DEF MigrationInit, FileTypeOK, DbType, BootType, BootPcs, Whys, BaseStatements
<1> QED
  BY <1>2, <1>3 DEF FileInv, StartInv, BootShowsNothing, UpMeansDeclared, RefusalMeansDrift

LEMMA StartKeeps ==
  ASSUME FileInv, NEW config \in Configs, Start(config)
  PROVE  FileInv'
<1>1. /\ boot'.pc = (IF Valid(config) THEN "base" ELSE "down") /\ boot'.config = config
      /\ boot'.step = 1 /\ boot'.why = (IF Valid(config) THEN "none" ELSE "ConfigError")
      /\ db' = db /\ faults' = faults
  BY DEF Start
<1>2. FileTypeOK'
  <2>1. boot' \in BootType
    BY DEF Start, BootType, BootPcs, Whys
  <2> QED
    BY <1>1, <2>1, FileNow DEF FileTypeOK
<1>3. CASE Valid(config)
  <2>1. StartInv' /\ BootShowsNothing' /\ UpMeansDeclared'
    BY <1>1, <1>3, FileNow DEF StartInv, BootShowsNothing, UpMeansDeclared, BaseStatements, Valid
  <2>2. RefusalMeansDrift'
    BY <1>1, <1>3 DEF RefusalMeansDrift
  <2> QED
    BY <1>2, <2>1, <2>2 DEF FileInv
<1>4. CASE ~Valid(config)
  <2>1. StartInv' /\ BootShowsNothing' /\ UpMeansDeclared'
    BY <1>1, <1>4 DEF StartInv, BootShowsNothing, UpMeansDeclared
  <2>2. RefusalMeansDrift'
    BY <1>1, <1>4 DEF RefusalMeansDrift, Fits, Valid
  <2> QED
    BY <1>2, <2>1, <2>2 DEF FileInv
<1> QED
  BY <1>3, <1>4

LEMMA BaseKeeps ==
  ASSUME FileInv, CreateBase
  PROVE  FileInv'
<1>1. boot.pc = "base" /\ boot.step <= BaseStatements /\ db.base >= boot.step - 1
      /\ Valid(boot.config) /\ boot.why = "none"
  BY DEF CreateBase, FileInv, StartInv
<1>2. /\ db' \in DbType /\ db'.base >= boot.step /\ db'.base <= BaseStatements /\ faults' = faults
      /\ db'.columns = db.columns /\ db'.indexes = db.indexes
  <2> DEFINE base == IF boot.step > db.base THEN boot.step ELSE db.base
  <2>1. base \in 0..BaseStatements /\ base >= boot.step
    BY <1>1, FileNow DEF BaseStatements
  <2>2. db' = [db EXCEPT !.base = base] /\ faults' = faults
    BY DEF CreateBase
  <2> HIDE DEF base
  <2> QED
    BY <2>1, <2>2, FileNow DEF DbType, BaseStatements
<1>3. \/ boot.step < BaseStatements /\ NextStep
      \/ boot.step = BaseStatements /\ Moves("owned")
  BY <1>1, FileNow DEF CreateBase, BaseLeft, BaseStatements
<1>4. /\ boot' \in BootType /\ boot'.config = boot.config /\ boot'.why = "none"
      /\ \/ boot'.pc = "base" /\ boot'.step = boot.step + 1 /\ boot.step < BaseStatements
         \/ boot'.pc = "owned" /\ boot.step = BaseStatements
  BY <1>1, <1>3, FileNow, NextFields, MovesFields DEF BootPcs
<1>5. FileTypeOK'
  BY <1>2, <1>4, FileNow DEF FileTypeOK
<1>6. StartInv'
  <2>1. /\ boot'.pc = "base" => boot'.step <= BaseStatements /\ db'.base >= boot'.step - 1
        /\ boot'.pc \notin {"down", "base"} => db'.base = BaseStatements
    <3>1. CASE boot'.pc = "base" /\ boot'.step = boot.step + 1 /\ boot.step < BaseStatements
      BY <1>2, <3>1, FileNow DEF BaseStatements, DbType
    <3>2. CASE boot'.pc = "owned" /\ boot.step = BaseStatements
      BY <1>2, <3>2, FileNow DEF BaseStatements, DbType
    <3> QED
      BY <1>4, <3>1, <3>2
  <2>2. Valid(boot.config)' /\ boot'.why = "none"
    BY <1>1, <1>4 DEF Valid
  <2>3. boot'.pc \in {"base", "owned"}
    BY <1>4
  <2> QED
    BY <2>1, <2>2, <2>3 DEF StartInv
<1>7. BootShowsNothing' /\ UpMeansDeclared' /\ RefusalMeansDrift'
  BY <1>4 DEF BootShowsNothing, UpMeansDeclared, RefusalMeansDrift
<1> QED
  BY <1>5, <1>6, <1>7 DEF FileInv

LEMMA ClearKeeps ==
  ASSUME FileInv, ClearOwned
  PROVE  FileInv'
<1>1. /\ db' \in DbType /\ db'.base = db.base /\ db'.owned = FALSE /\ faults' = faults
  BY FileNow DEF ClearOwned, OwnedLeft, DbType
<1>2. /\ boot' \in BootType /\ boot'.config = boot.config /\ boot'.why = "none"
      /\ boot'.pc = "read" /\ db.base = BaseStatements /\ Valid(boot.config)
  BY FileNow, MovesFields DEF ClearOwned, BootPcs, FileInv, StartInv
<1>3. FileTypeOK'
  BY <1>1, <1>2, FileNow DEF FileTypeOK
<1>4. StartInv'
  BY <1>1, <1>2 DEF StartInv, Valid
<1>5. BootShowsNothing' /\ UpMeansDeclared' /\ RefusalMeansDrift'
  BY <1>1, <1>2 DEF BootShowsNothing, UpMeansDeclared, RefusalMeansDrift
<1> QED
  BY <1>3, <1>4, <1>5 DEF FileInv

LEMMA ReadKeeps ==
  ASSUME FileInv, ReadSchema
  PROVE  FileInv'
<1>1. /\ boot' \in BootType /\ boot'.config = boot.config /\ boot'.why = boot.why
      /\ boot'.pc = "columns" /\ boot'.step = 1 /\ boot'.read = db.columns
  <2>1. boot' = [boot EXCEPT !.pc = "columns", !.step = 1, !.read = db.columns]
    BY DEF ReadSchema, Existing
  <2>2. "columns" \in BootPcs /\ 1 \in Nat \ {0}
    BY DEF BootPcs
  <2> QED
    BY <2>1, <2>2, FileNow DEF BootType
<1>2. /\ db' = db /\ faults' = faults /\ ~db.owned /\ db.base = BaseStatements
      /\ Valid(boot.config) /\ boot.why = "none"
  BY DEF ReadSchema, FileInv, StartInv, BootShowsNothing
<1>3. FileTypeOK'
  BY <1>1, <1>2, FileNow DEF FileTypeOK
<1>4. StartInv'
  <2>1. ColumnsUpTo(boot.step)'
    BY <1>1, FileNow DEF ColumnsUpTo
  <2> QED
    BY <1>1, <1>2, <2>1 DEF StartInv, Valid
<1>5. BootShowsNothing' /\ UpMeansDeclared' /\ RefusalMeansDrift'
  BY <1>1, <1>2 DEF BootShowsNothing, UpMeansDeclared, RefusalMeansDrift
<1> QED
  BY <1>3, <1>4, <1>5 DEF FileInv

(* A refusal: nothing else of the file or of the start changes. *)
LEMMA RefusalKeeps ==
  ASSUME FileInv, NEW why \in Whys, Ends(why), db' = db, faults' \in 0..MaxFaults,
         why \in {"ConfigError", "SchemaMigrationError"} => ~Fits(boot.config)
  PROVE  FileInv'
<1>1. boot' \in BootType /\ boot'.pc = "down" /\ boot'.why = why /\ boot'.config = boot.config
  BY FileNow, EndsFields
<1>2. FileTypeOK'
  BY <1>1, FileNow DEF FileTypeOK
<1>3. StartInv' /\ BootShowsNothing' /\ UpMeansDeclared'
  BY <1>1 DEF StartInv, BootShowsNothing, UpMeansDeclared
<1>4. Fits(boot.config)' = Fits(boot.config)
  BY <1>1 DEF Fits, Valid, OnceEach, Agrees
<1>5. RefusalMeansDrift'
  BY <1>1, <1>4 DEF RefusalMeansDrift
<1> QED
  BY <1>2, <1>3, <1>5 DEF FileInv

LEMMA CheckColumnKeeps ==
  ASSUME FileInv, NamesApart, CheckColumn
  PROVE  FileInv'
<1> DEFINE c == boot.config.columns[boot.step]
<1>1. /\ boot.pc = "columns" /\ boot.step <= Len(boot.config.columns) /\ c \in Columns
      /\ c \in Items(boot.config.columns) /\ c.name \in Names(boot.read)
      /\ boot.read \subseteq db.columns /\ db' = db /\ faults' = faults
  BY FileNow, Declared DEF CheckColumn, MoreColumns, Column, FileInv, StartInv
<1>2. CASE ClauseStored(c, boot.read)
  <2>1. c \in boot.read
    BY <1>1, <1>2, FileNow, ColumnsAssumption DEF ClauseStored, NamesApart
  <2>2. /\ boot' \in BootType /\ boot'.pc = "columns" /\ boot'.step = boot.step + 1
        /\ boot'.config = boot.config /\ boot'.read = boot.read /\ boot'.why = boot.why
    BY <1>1, <1>2, FileNow, NextFields DEF CheckColumn, Unchanged, Column
  <2>3. FileTypeOK'
    BY <1>1, <2>2, FileNow DEF FileTypeOK
  <2>4. StartInv'
    <3>1. ColumnsUpTo(boot.step)'
      BY <1>1, <2>1, <2>2, FileNow DEF ColumnsUpTo, FileInv, StartInv
    <3>2. \A d \in db'.columns \ boot'.read :
            \E k \in 1..Len(boot.config.columns) : k < boot.step + 1 /\ d = boot.config.columns[k]
      BY <1>1, <2>2, FileNow DEF FileInv, StartInv
    <3> QED
      BY <1>1, <2>2, <3>1, <3>2 DEF FileInv, StartInv, Valid
  <2>5. BootShowsNothing' /\ UpMeansDeclared'
    BY <1>1, <2>2 DEF BootShowsNothing, UpMeansDeclared, FileInv
  <2>6. RefusalMeansDrift'
    BY <1>1, <2>2 DEF RefusalMeansDrift, FileInv, StartInv
  <2> QED
    BY <2>3, <2>4, <2>5, <2>6 DEF FileInv
<1>3. CASE ~ClauseStored(c, boot.read)
  <2>1. PICK d \in boot.read : d.name = c.name
    BY <1>1 DEF Names
  <2>2. d # c
    BY <1>3, <2>1 DEF ClauseStored
  <2>3. ~Agrees(Items(boot.config.columns), db.columns)
    BY <1>1, <2>1, <2>2 DEF Agrees
  <2>4. Ends("ConfigError") /\ "ConfigError" \in Whys
    BY <1>3 DEF CheckColumn, Unchanged, Column, Whys
  <2> QED
    BY <1>1, <2>3, <2>4, RefusalKeeps, FileNow DEF Fits
<1> QED
  BY <1>2, <1>3

LEMMA AddColumnKeeps ==
  ASSUME FileInv, NamesApart, AddColumn
  PROVE  FileInv'
<1> DEFINE c == boot.config.columns[boot.step]
<1>1. /\ boot.pc = "columns" /\ boot.step <= Len(boot.config.columns) /\ c \in Columns
      /\ c \in Items(boot.config.columns) /\ c.name \notin Names(boot.read)
      /\ boot.read \subseteq db.columns /\ faults' = faults
  BY FileNow, Declared DEF AddColumn, MoreColumns, Column, FileInv, StartInv
<1>2. CASE AddsColumn(c)
  <2>1. /\ boot' \in BootType /\ boot'.pc = "columns" /\ boot'.step = boot.step + 1
        /\ boot'.config = boot.config /\ boot'.read = boot.read /\ boot'.why = boot.why
    BY <1>1, <1>2, FileNow, NextFields DEF AddColumn, Column
  <2>2. /\ db' \in DbType /\ db'.columns = db.columns \cup {c} /\ db'.base = db.base
        /\ db'.owned = db.owned
    BY <1>1, <1>2, FileNow DEF AddColumn, Column, DbType
  <2>3. FileTypeOK'
    BY <1>1, <2>1, <2>2, FileNow DEF FileTypeOK
  <2>4. StartInv'
    <3>1. ColumnsUpTo(boot.step)'
      BY <1>1, <2>1, <2>2, FileNow DEF ColumnsUpTo, FileInv, StartInv
    <3>2. \A d \in db'.columns \ boot'.read :
            \E k \in 1..Len(boot.config.columns) : k < boot.step + 1 /\ d = boot.config.columns[k]
      BY <1>1, <2>1, <2>2, FileNow, SMTT(60) DEF FileInv, StartInv
    <3> QED
      BY <1>1, <2>1, <2>2, <3>1, <3>2 DEF FileInv, StartInv, Valid
  <2>5. BootShowsNothing' /\ UpMeansDeclared'
    BY <1>1, <2>1, <2>2 DEF BootShowsNothing, UpMeansDeclared, FileInv
  <2>6. RefusalMeansDrift'
    BY <1>1, <2>1 DEF RefusalMeansDrift, FileInv, StartInv
  <2> QED
    BY <2>3, <2>4, <2>5, <2>6 DEF FileInv
<1>3. CASE ~AddsColumn(c) /\ ~SystemTakes(c.name)
  <2>1. PICK d \in db.columns : Folded(d.name) = Folded(c.name)
    BY <1>3 DEF AddsColumn, Taken
  <2>2. ~(OnceEach(boot.config.columns) /\ Agrees(Items(boot.config.columns), db.columns))
    <3>1. CASE d \in boot.read
      BY <1>1, <2>1, <3>1 DEF Agrees, Names
    <3>2. CASE d \notin boot.read
      <4>1. PICK k \in 1..Len(boot.config.columns) : k < boot.step /\ d = boot.config.columns[k]
        BY <1>1, <2>1, <3>2 DEF FileInv, StartInv
      <4>2. boot.step \in 1..Len(boot.config.columns) /\ k # boot.step
        BY <1>1, <4>1, FileNow
      <4> QED
        BY <2>1, <4>1, <4>2 DEF OnceEach
    <3> QED
      BY <3>1, <3>2
  <2>3. Ends("SchemaMigrationError") /\ "SchemaMigrationError" \in Whys /\ db' = db
    BY <1>3 DEF AddColumn, Column, Whys
  <2> QED
    BY <1>1, <2>2, <2>3, RefusalKeeps, FileNow DEF Fits
<1>4. CASE SystemTakes(c.name)
  <2>1. Ends("SchemaMigrationError") /\ "SchemaMigrationError" \in Whys /\ db' = db
    BY <1>4 DEF AddColumn, AddsColumn, Column, Whys
  <2> QED
    BY <1>1, <1>4, <2>1, RefusalKeeps, FileNow DEF Fits
<1> QED
  BY <1>2, <1>3, <1>4

LEMMA ColumnsDoneKeeps ==
  ASSUME FileInv, ColumnsDone
  PROVE  FileInv'
<1>1. /\ boot' \in BootType /\ boot'.pc = "indexes" /\ boot'.step = 1
      /\ boot'.config = boot.config /\ boot'.why = boot.why
      /\ db' = db /\ faults' = faults
      /\ boot.pc = "columns" /\ boot.step > Len(boot.config.columns)
  BY FileNow, MovesFields DEF ColumnsDone, BootPcs
<1>2. Items(boot.config.columns) \subseteq db.columns
  BY <1>1, FileNow DEF FileInv, StartInv, ColumnsUpTo, Items
<1>3. FileTypeOK'
  BY <1>1, FileNow DEF FileTypeOK
<1>4. StartInv'
  <2>1. IndexesUpTo(boot.step)'
    BY <1>1, FileNow DEF IndexesUpTo
  <2> QED
    BY <1>1, <1>2, <2>1 DEF FileInv, StartInv, Valid
<1>5. BootShowsNothing' /\ UpMeansDeclared' /\ RefusalMeansDrift'
  BY <1>1 DEF FileInv, StartInv, BootShowsNothing, UpMeansDeclared, RefusalMeansDrift
<1> QED
  BY <1>3, <1>4, <1>5 DEF FileInv

(* A step of the index loop that leaves the index there. *)
LEMMA IndexKeeps ==
  ASSUME FileInv, MoreIndexes, NextStep, db' \in DbType, faults' = faults,
         db'.base = db.base, db'.owned = db.owned, db'.columns = db.columns,
         db.indexes \subseteq db'.indexes, boot.config.indexes[boot.step] \in db'.indexes
  PROVE  FileInv'
<1>1. /\ boot.pc = "indexes" /\ boot' \in BootType /\ boot'.pc = "indexes"
      /\ boot'.step = boot.step + 1 /\ boot'.config = boot.config /\ boot'.why = boot.why
  BY FileNow, NextFields DEF MoreIndexes
<1>2. FileTypeOK'
  BY <1>1, FileNow DEF FileTypeOK
<1>3. StartInv'
  <2>1. IndexesUpTo(boot.step)'
    BY <1>1, FileNow, SMTT(60) DEF IndexesUpTo, FileInv, StartInv
  <2> QED
    BY <1>1, <2>1 DEF FileInv, StartInv, Valid
<1>4. BootShowsNothing' /\ UpMeansDeclared' /\ RefusalMeansDrift'
  BY <1>1 DEF FileInv, StartInv, BootShowsNothing, UpMeansDeclared, RefusalMeansDrift
<1> QED
  BY <1>2, <1>3, <1>4 DEF FileInv

LEMMA CheckIndexKeeps ==
  ASSUME FileInv, CheckIndex
  PROVE  FileInv'
<1> DEFINE i == boot.config.indexes[boot.step]
<1>1. /\ MoreIndexes /\ i \in Items(boot.config.indexes) /\ i.name \in Names(db.indexes)
      /\ db' = db /\ faults' = faults
  BY FileNow, Declared DEF CheckIndex, MoreIndexes, Index
<1>2. CASE i \in db.indexes
  BY <1>1, <1>2, FileNow, IndexKeeps DEF CheckIndex, Index
<1>3. CASE i \notin db.indexes
  <2>1. PICK j \in db.indexes : j.name = i.name
    BY <1>1 DEF Names
  <2>2. ~Agrees(Items(boot.config.indexes), db.indexes)
    BY <1>1, <1>3, <2>1 DEF Agrees
  <2>3. Ends("ConfigError") /\ "ConfigError" \in Whys
    BY <1>3 DEF CheckIndex, Index, Whys
  <2> QED
    BY <1>1, <2>2, <2>3, RefusalKeeps, FileNow DEF Fits
<1> QED
  BY <1>2, <1>3

LEMMA CreateIndexKeeps ==
  ASSUME FileInv, NamesApart, CreateIndex
  PROVE  FileInv'
<1> DEFINE i == boot.config.indexes[boot.step]
<1>1. /\ MoreIndexes /\ i \in Indexes /\ i \in Items(boot.config.indexes)
      /\ i.name \notin Names(db.indexes) /\ faults' = faults /\ Valid(boot.config)
      /\ Items(boot.config.columns) \subseteq db.columns
  BY FileNow, Declared DEF CreateIndex, MoreIndexes, Index, FileInv, StartInv
<1>2. ~Taken(i.name, db.indexes)
  BY <1>1, FileNow DEF Taken, Names, NamesApart, DbType
<1>3. AddsIndex(i)
  <2>1. ASSUME NEW n \in Items(i.columns), n \notin SystemColumns
        PROVE  Taken(n, db.columns)
    BY <1>1, <2>1 DEF Valid, Names, Taken
  <2> QED
    BY <2>1 DEF AddsIndex
<1>4. NextStep /\ db' = [db EXCEPT !.indexes = @ \cup {i}]
  BY <1>2, <1>3 DEF CreateIndex, Index
<1>5. /\ db' \in DbType /\ db'.base = db.base /\ db'.owned = db.owned
      /\ db'.columns = db.columns /\ db'.indexes = db.indexes \cup {i}
  BY <1>1, <1>4, FileNow DEF DbType
<1> QED
  BY <1>1, <1>4, <1>5, IndexKeeps

LEMMA IndexesDoneKeeps ==
  ASSUME FileInv, IndexesDone
  PROVE  FileInv'
<1>1. /\ boot' \in BootType /\ boot'.pc = "up" /\ boot'.config = boot.config
      /\ boot'.why = boot.why /\ db' = db /\ faults' = faults
      /\ boot.pc = "indexes" /\ boot.step > Len(boot.config.indexes)
  BY FileNow, MovesFields DEF IndexesDone, BootPcs
<1>2. Items(boot.config.indexes) \subseteq db.indexes
  BY <1>1, FileNow DEF FileInv, StartInv, IndexesUpTo, Items
<1>3. FileTypeOK'
  BY <1>1, FileNow DEF FileTypeOK
<1>4. StartInv' /\ UpMeansDeclared'
  BY <1>1, <1>2 DEF FileInv, StartInv, UpMeansDeclared, Valid
<1>5. BootShowsNothing' /\ RefusalMeansDrift'
  BY <1>1 DEF FileInv, StartInv, BootShowsNothing, RefusalMeansDrift
<1> QED
  BY <1>3, <1>4, <1>5 DEF FileInv

LEMMA EndKeeps ==
  ASSUME FileInv, NEW why \in {"crash", "failure"}, Fails(why)
  PROVE  FileInv'
<1>1. Ends(why) /\ why \in Whys /\ db' = db /\ faults' \in 0..MaxFaults
  BY FileNow DEF Fails, Whys
<1> QED
  BY <1>1, RefusalKeeps

LEMMA RevealKeeps ==
  ASSUME FileInv, Reveal
  PROVE  FileInv'
<1>1. /\ db' \in DbType /\ db'.base = db.base /\ db'.columns = db.columns
      /\ db'.indexes = db.indexes /\ boot' = boot /\ faults' = faults /\ boot.pc = "up"
  BY FileNow DEF Reveal, DbType
<1>2. FileTypeOK'
  BY <1>1, FileNow DEF FileTypeOK
<1>3. StartInv' /\ UpMeansDeclared'
  BY <1>1 DEF FileInv, StartInv, UpMeansDeclared, Valid
<1>4. BootShowsNothing' /\ RefusalMeansDrift'
  BY <1>1 DEF FileInv, StartInv, BootShowsNothing, RefusalMeansDrift
<1> QED
  BY <1>2, <1>3, <1>4 DEF FileInv

LEMMA FileFaults ==
  ASSUME FileInv, db' = db, boot' = boot, faults' \in 0..MaxFaults
  PROVE  FileInv'
<1>1. FileTypeOK'
  BY FileNow DEF FileTypeOK
<1>2. (StartInv' <=> StartInv) /\ (UpMeansDeclared' <=> UpMeansDeclared)
  BY DEF StartInv, UpMeansDeclared, ColumnsUpTo, IndexesUpTo, Valid
<1>3. (BootShowsNothing' <=> BootShowsNothing) /\ (RefusalMeansDrift' <=> RefusalMeansDrift)
  BY DEF BootShowsNothing, RefusalMeansDrift, Fits, Valid, Agrees, OnceEach
<1> QED
  BY <1>1, <1>2, <1>3 DEF FileInv

LEMMA FileStep ==
  ASSUME FileInv, NamesApart, [Next]_vars
  PROVE  FileInv'
<1>1. CASE MigrateStep
  BY <1>1, StartKeeps, BaseKeeps, ClearKeeps, ReadKeeps, CheckColumnKeeps, AddColumnKeeps,
     ColumnsDoneKeeps, CheckIndexKeeps, CreateIndexKeeps, IndexesDoneKeeps, RevealKeeps
     DEF MigrateStep, MigrationStep
<1>2. CASE EndStep
  BY <1>2, EndKeeps DEF EndStep
<1>3. CASE \E tp \in TPs : TopicFault(tp)
  <2>1. db' = db /\ boot' = boot /\ faults' \in 0..MaxFaults
    BY <1>3, FileNow DEF TopicFault
  <2> QED
    BY <2>1, FileFaults
<1>4. CASE Outside \/ (\E tp \in TPs : Assign(tp) \/ TopicStep(tp)) \/ UNCHANGED vars
  <2>1. db' = db /\ boot' = boot /\ faults' = faults
    BY <1>4 DEF Outside, Assign, TopicStep, vars, migrationVars
  <2> QED
    BY <2>1, FileFaults, FileNow
<1> QED
  BY <1>1, <1>2, <1>3, <1>4 DEF Next

-----------------------------------------------------------------------------
(* The changelogs *)

(* A changelog that is there, or that a call is to describe, has existed.   *)
CacheInv ==
  /\ TopicsTypeOK /\ CachedWasThere
  /\ \A n \in Topics : topic[n] # "absent" => n \in existed
  /\ \A tp \in TPs : call[tp] = "verify" => NameOf[tp] \in existed

LEMMA CacheInit ==
  ASSUME TopicsInit
  PROVE  CacheInv
  BY DEF TopicsInit, CacheInv, TopicsTypeOK, CachedWasThere, Policies

(* A step of one call that keeps the changelogs that have existed. *)
LEMMA CallKeeps ==
  ASSUME CacheInv, NEW tp \in TPs, NEW pc \in {"idle", "list", "create", "verify"},
         Goes(tp, pc), existed \subseteq existed', existed' \subseteq Topics,
         reported' \subseteq Topics, topic' \in [Topics -> Policies \cup {"absent"}],
         \A n \in Topics : topic'[n] # "absent" => n \in existed',
         checked' \in {checked, checked \cup {tp}},
         pc = "verify" \/ tp \in checked' \ checked => NameOf[tp] \in existed'
  PROVE  CacheInv'
<1>1. TopicsTypeOK'
  BY DEF CacheInv, TopicsTypeOK, Goes
<1>2. CachedWasThere'
  BY DEF CacheInv, CachedWasThere
<1>3. \A q \in TPs : call'[q] = "verify" => NameOf[q] \in existed'
  BY DEF CacheInv, TopicsTypeOK, Goes
<1> QED
  BY <1>1, <1>2, <1>3 DEF CacheInv

(* A changelog is created. *)
LEMMA CreationKeeps ==
  ASSUME CacheInv, NEW n \in Topics, NEW policy \in Policies, Creates(n, policy)
  PROVE  /\ existed \subseteq existed' /\ existed' \subseteq Topics /\ n \in existed'
         /\ topic' \in [Topics -> Policies \cup {"absent"}]
         /\ \A m \in Topics : topic'[m] # "absent" => m \in existed'
  BY DEF CacheInv, TopicsTypeOK, Creates

LEMMA TopicStepKeeps ==
  ASSUME CacheInv, NEW tp \in TPs, TopicStep(tp) \/ TopicFault(tp)
  PROVE  CacheInv'
<1>1. /\ NameOf[tp] \in Topics /\ existed \subseteq Topics /\ reported \subseteq Topics
      /\ topic \in [Topics -> Policies \cup {"absent"}]
      /\ \A n \in Topics : topic[n] # "absent" => n \in existed
  BY NameOfAssumption DEF CacheInv, TopicsTypeOK
<1>2. ASSUME ListTopics(tp, boot.config.create, boot.config.verify)
      PROVE  CacheInv'
  BY <1>1, <1>2, CallKeeps DEF ListTopics, AfterCreate, Caches, Raises, Exists
<1>3. ASSUME NEW code \in {"none", "exists", "refused"},
             CreateTopic(tp, boot.config.verify, code)
      PROVE  CacheInv'
  <2>1. CASE code = "none"
    <3>1. Creates(NameOf[tp], "delete") /\ UNCHANGED reported
          /\ AfterCreate(tp, boot.config.verify, code)
      BY <1>3, <2>1 DEF CreateTopic, Created
    <3>2. /\ existed \subseteq existed' /\ existed' \subseteq Topics /\ NameOf[tp] \in existed'
          /\ topic' \in [Topics -> Policies \cup {"absent"}]
          /\ \A m \in Topics : topic'[m] # "absent" => m \in existed'
      BY <1>1, <3>1, CreationKeeps DEF Policies
    <3> QED
      BY <1>1, <3>1, <3>2, CallKeeps DEF AfterCreate, Caches
  <2>2. CASE code = "exists"
    <3>1. NameOf[tp] \in existed /\ UNCHANGED <<topic, existed, reported>>
          /\ AfterCreate(tp, boot.config.verify, code)
      BY <1>1, <1>3, <2>2 DEF CreateTopic, Created, CodesOf, Exists
    <3> QED
      BY <1>1, <3>1, CallKeeps DEF AfterCreate, Caches
  <2>3. CASE code = "refused"
    <3>1. Raises(tp) /\ UNCHANGED <<topic, existed, reported>>
      BY <1>3, <2>3 DEF CreateTopic, Created
    <3> QED
      BY <1>1, <3>1, CallKeeps DEF Raises
  <2> QED
    BY <2>1, <2>2, <2>3
<1>4. ASSUME NEW allowed \in BOOLEAN, VerifyPolicy(tp, allowed)
      PROVE  CacheInv'
  <2>1. NameOf[tp] \in existed /\ reported' \subseteq Topics /\ UNCHANGED <<topic, existed>>
    BY <1>1, <1>4 DEF VerifyPolicy, CacheInv
  <2> QED
    BY <1>1, <1>4, <2>1, CallKeeps DEF VerifyPolicy, Caches
<1>5. ASSUME RequestFails(tp)
      PROVE  CacheInv'
  <2>1. Goes(tp, "idle") /\ UNCHANGED <<checked, reported>>
    BY <1>5 DEF RequestFails, AfterFailure, Raises
  <2>2. CASE UNCHANGED <<topic, existed>>
    BY <1>1, <2>1, <2>2, CallKeeps
  <2>3. CASE Creates(NameOf[tp], "delete")
    <3>1. /\ existed \subseteq existed' /\ existed' \subseteq Topics
          /\ topic' \in [Topics -> Policies \cup {"absent"}]
          /\ \A m \in Topics : topic'[m] # "absent" => m \in existed'
      BY <1>1, <2>3, CreationKeeps DEF Policies
    <3> QED
      BY <1>1, <2>1, <3>1, CallKeeps
  <2> QED
    BY <1>5, <2>2, <2>3 DEF RequestFails
<1> QED
  BY <1>2, <1>3, <1>4, <1>5 DEF TopicStep, TopicFault

LEMMA CacheStep ==
  ASSUME CacheInv, [Next]_vars
  PROVE  CacheInv'
<1>1. CASE (\E tp \in TPs : TopicStep(tp) \/ TopicFault(tp))
  BY <1>1, TopicStepKeeps
<1>2. ASSUME NEW tp \in TPs, Assign(tp)
      PROVE  CacheInv'
  BY <1>2, CallKeeps DEF Assign, Ensure, CacheInv, TopicsTypeOK
<1>3. CASE EndStep
  BY <1>3 DEF EndStep, Forget, CacheInv, TopicsTypeOK, CachedWasThere
<1>4. CASE Outside
  <2>1. UNCHANGED <<checked, call, reported>>
    BY <1>4 DEF Outside, OpsCreate, OpsDelete
  <2>2. ASSUME NEW n \in Topics, NEW policy \in Policies, OpsCreate(n, policy)
        PROVE  CacheInv'
    <3>1. Creates(n, policy)
      BY <2>2 DEF OpsCreate
    <3> QED
      BY <2>1, <3>1, CreationKeeps DEF CacheInv, TopicsTypeOK, CachedWasThere
  <2>3. ASSUME NEW n \in Topics, OpsDelete(n)
        PROVE  CacheInv'
    BY <2>1, <2>3 DEF OpsDelete, CacheInv, TopicsTypeOK, CachedWasThere
  <2> QED
    BY <1>4, <2>2, <2>3 DEF Outside
<1>5. CASE MigrateStep \/ UNCHANGED vars
  <2>1. UNCHANGED topicVars
    BY <1>5 DEF MigrateStep, vars
  <2> QED
    BY <2>1 DEF topicVars, CacheInv, TopicsTypeOK, CachedWasThere
<1> QED
  BY <1>1, <1>2, <1>3, <1>4, <1>5 DEF Next

-----------------------------------------------------------------------------
(* Theorems *)

LEMMA FileSafety == Spec /\ NamesApart => []FileInv
<1>1. Init => FileInv
  BY FileInit DEF Init
<1>2. FileInv /\ NamesApart /\ [Next]_vars => FileInv'
  BY FileStep
<1>3. NamesApart => []NamesApart
  <2>1. NamesApart => NamesApart'
    BY DEF NamesApart
  <2> QED
    BY <2>1, PTL
<1> QED
  BY <1>1, <1>2, <1>3, PTL DEF Spec

LEMMA CacheSafety == Spec => []CacheInv
<1>1. Init => CacheInv
  BY CacheInit DEF Init
<1>2. CacheInv /\ [Next]_vars => CacheInv'
  BY CacheStep
<1> QED
  BY <1>1, <1>2, PTL DEF Spec

(* Every start, migration and topic check keeps the variables in their      *)
(* types: no statement and no column past the last one is ever reached     *)
(* (start, migrate, ensure_and_verify).                                    *)
THEOREM TypeCorrect == Spec /\ NamesApart => []TypeOK
<1>1. FileInv /\ CacheInv => TypeOK
  BY TypeSplit DEF FileInv, CacheInv
<1> QED
  BY <1>1, FileSafety, CacheSafety, PTL

(* What a start has been through is stored, whatever other configurations,  *)
(* failures and crashes the file has seen: the inductive invariant of      *)
(* migrate().                                                              *)
THEOREM StartsBuildOnTheFile == Spec /\ NamesApart => []StartInv
<1>1. FileInv => StartInv
  BY DEF FileInv
<1> QED
  BY <1>1, FileSafety, PTL

(* A store that is up has the tables, columns and indexes its configuration *)
(* declares (migrate, _check_column_drift, _existing_index_shape), as long *)
(* as no declared column ends in the name of another one.                  *)
THEOREM DeclaredWhenUp == Spec /\ NamesApart => []UpMeansDeclared
<1>1. FileInv => UpMeansDeclared
  BY DEF FileInv
<1> QED
  BY <1>1, FileSafety, PTL

(* No start goes on to the schema with the ownership rows an earlier        *)
(* process left (the DELETE FROM _owned of migrate).                       *)
THEOREM NothingShownAtBoot == Spec /\ NamesApart => []BootShowsNothing
<1>1. FileInv => BootShowsNothing
  BY DEF FileInv
<1> QED
  BY <1>1, FileSafety, PTL

(* start() refuses no configuration that fits the file, however many        *)
(* interrupted migrations the file has been through (migrate).             *)
THEOREM RefusedForDrift == Spec /\ NamesApart => []RefusalMeansDrift
<1>1. FileInv => RefusalMeansDrift
  BY DEF FileInv
<1> QED
  BY <1>1, FileSafety, PTL

(* A partition in the cache has had a changelog: a refused or failed        *)
(* creation is never cached (ensure_and_verify).                           *)
THEOREM CachedHadChangelog == Spec => []CachedWasThere
<1>1. CacheInv => CachedWasThere
  BY DEF CacheInv
<1> QED
  BY <1>1, CacheSafety, PTL
-----------------------------------------------------------------------------
(* The report of a compacted changelog *)

(* Failures are only ever added to.                                        *)
LEMMA FaultsCounted == Spec => [](faults \in Nat)
<1> DEFINE Counted == faults \in Nat
<1>1. Init => Counted
  BY DEF Init, MigrationInit
<1>2. Counted /\ [Next]_vars => Counted'
  <2> SUFFICES ASSUME faults \in Nat, [Next]_vars PROVE faults' \in {faults, faults + 1}
    OBVIOUS
  <2>1. CASE MigrateStep
    BY <2>1 DEF MigrateStep, MigrationStep, Start, Reveal, CreateBase, ClearOwned, ReadSchema,
       CheckColumn, AddColumn, ColumnsDone, CheckIndex, CreateIndex, IndexesDone
  <2>2. CASE EndStep
    BY <2>2 DEF EndStep, Fails
  <2> QED
    BY <2>1, <2>2 DEF Next, Outside, Assign, TopicStep, TopicFault, migrationVars, vars
<1>3. Spec => []Counted
  <2> HIDE DEF Counted
  <2> QED
    BY <1>1, <1>2, PTL DEF Spec
<1> QED
  BY <1>3

(* A changelog enters the cache through the check of its policy, unless the *)
(* configuration asks for none.                                            *)
LEMMA CachedByVerify ==
  ASSUME [Next]_vars, NEW tp \in checked' \ checked, tp \in TPs, boot.config.verify
  PROVE  \/ VerifyPolicy(tp, TRUE)
         \/ faults' = faults + 1
<1> USE DEF AfterCreate, Raises
<1>1. CASE MigrateStep \/ EndStep \/ Outside \/ UNCHANGED vars
  BY <1>1 DEF MigrateStep, EndStep, Forget, Outside, OpsCreate, OpsDelete, topicVars, vars
<1>2. ASSUME NEW q \in TPs, Assign(q)
      PROVE  FALSE
  BY <1>2 DEF Assign, Ensure
<1>3. ASSUME NEW q \in TPs, TopicFault(q)
      PROVE  faults' = faults + 1
  BY <1>3 DEF TopicFault
<1>4. ASSUME NEW q \in TPs, TopicStep(q)
      PROVE  VerifyPolicy(tp, TRUE)
  BY <1>4 DEF TopicStep, ListTopics, CreateTopic, VerifyPolicy, Caches
<1> QED
  BY <1>1, <1>2, <1>3, <1>4 DEF Next

(* A compacted changelog is reported before it is trusted, whoever created  *)
(* it and when, unless its policy may not be read (VerifyPolicy).          *)
THEOREM CompactNeverSilent == Spec => CompactIsReported
<1> DEFINE Reports(tp) == boot.config.verify /\ topic[NameOf[tp]] = "compact" /\ faults' = faults
                           => NameOf[tp] \in reported'
<1>1. checked \subseteq TPs /\ (checked \subseteq TPs)' /\ faults \in Nat /\ [Next]_vars
        => \A tp \in checked' \ checked : Reports(tp)
  BY CachedByVerify DEF VerifyPolicy
<1>2. CacheInv => checked \subseteq TPs
  BY DEF CacheInv, TopicsTypeOK
<1>3. Spec => [][\A tp \in checked' \ checked : Reports(tp)]_vars
  BY <1>1, <1>2, CacheSafety, FaultsCounted, PTL DEF Spec
<1> QED
  BY <1>3 DEF CompactIsReported
=============================================================================
