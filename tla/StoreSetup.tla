----------------------------- MODULE StoreSetup -----------------------------
(***************************************************************************)
(* The life of one store after another over the same file and the same     *)
(* broker: start() migrates (SchemaMigration), the store that is up checks *)
(* the changelogs of the partitions it is assigned (ChangelogTopics), and  *)
(* its end, in order or not, takes the cache with it and leaves the file.  *)
(***************************************************************************)
EXTENDS SchemaMigration, ChangelogTopics

vars == <<migrationVars, topicVars>>

Init == MigrationInit /\ TopicsInit

MigrateStep ==
  /\ \/ \E config \in Configs : Start(config)
     \/ MigrationStep \/ Reveal
  /\ UNCHANGED topicVars

EndStep == \E why \in {"crash", "failure"} : Fails(why) /\ Forget

TopicStep(tp) ==
  /\ \/ ListTopics(tp, boot.config.create, boot.config.verify)
     \/ CreateTopic(tp, boot.config.verify, "none")
     \/ CreateTopic(tp, boot.config.verify, "exists")
     \/ VerifyPolicy(tp, TRUE)
  /\ UNCHANGED migrationVars

TopicFault(tp) ==
  /\ faults < MaxFaults
  /\ \/ CreateTopic(tp, boot.config.verify, "refused")
     \/ VerifyPolicy(tp, FALSE)
     \/ RequestFails(tp)
  /\ faults' = faults + 1
  /\ UNCHANGED <<db, boot>>

(* An assignment, by a store that is up. *)
Assign(tp) == boot.pc = "up" /\ Ensure(tp) /\ UNCHANGED migrationVars

Outside ==
  /\ \E n \in Topics :
       (\E policy \in Policies : OpsCreate(n, policy)) \/ OpsDelete(n)
  /\ UNCHANGED migrationVars

Next ==
  \/ MigrateStep \/ EndStep \/ Outside
  \/ \E tp \in TPs : Assign(tp) \/ TopicStep(tp) \/ TopicFault(tp)

Spec == Init /\ [][Next]_vars

(* The event loop resumes what was answered; a supervisor starts the        *)
(* process again; the host assigns a partition again after a failure.      *)
Fairness ==
  /\ WF_vars(\E config \in Configs : Start(config) /\ UNCHANGED topicVars)
  /\ WF_vars(MigrationStep /\ UNCHANGED topicVars)
  /\ \A tp \in TPs : WF_vars(TopicStep(tp)) /\ WF_vars(Assign(tp))

FairSpec == Spec /\ Fairness

-----------------------------------------------------------------------------
(* Properties *)

BootPcs == {"down", "base", "owned", "read", "columns", "indexes", "up"}
Whys == {"none", "crash", "failure", "ConfigError", "SchemaMigrationError"}

TypeOK ==
  /\ db \in [base : 0..BaseStatements, columns : SUBSET Columns,
             indexes : SUBSET Indexes, owned : BOOLEAN]
  /\ boot \in [pc : BootPcs, config : Configs, step : Nat \ {0},
               read : SUBSET Columns, why : Whys]
  /\ faults \in 0..MaxFaults
  /\ topic \in [Topics -> Policies \cup {"absent"}]
  /\ checked \subseteq TPs
  /\ call \in [TPs -> {"idle", "list", "create", "verify"}]
  /\ existed \subseteq Topics /\ reported \subseteq Topics

(* A store that is up has the schema its configuration declares, whatever   *)
(* other configurations and interrupted migrations the file has seen        *)
(* (migrate, _check_column_drift, _existing_index_shape).                  *)
UpMeansDeclared ==
  boot.pc = "up" =>
    /\ db.base = BaseStatements
    /\ Items(boot.config.columns) \subseteq db.columns
    /\ Items(boot.config.indexes) \subseteq db.indexes

(* No store comes up with the partitions of an earlier process visible: the *)
(* _owned rows a crash left are gone before the schema is compared.        *)
BootShowsNothing == boot.pc \in {"read", "columns", "indexes"} => ~db.owned

(* A configuration fits the file: no name twice or taken by the system, and *)
(* what is stored under a declared name is what is declared.               *)
OnceEach(seq) ==
  \A j, k \in 1..Len(seq) : Folded(seq[j].name) = Folded(seq[k].name) => j = k

Agrees(declared, stored) ==
  \A x \in declared, y \in stored : Folded(x.name) = Folded(y.name) => x = y

Fits(config) ==
  /\ Valid(config)
  /\ OnceEach(config.columns) /\ OnceEach(config.indexes)
  /\ \A c \in Items(config.columns) : ~SystemTakes(c.name)
  /\ Agrees(Items(config.columns), db.columns)
  /\ Agrees(Items(config.indexes), db.indexes)

(* start() refuses only a configuration that does not fit, never one whose  *)
(* migration was interrupted before: IF NOT EXISTS, and the diff of columns *)
(* and indexes, take what is there (migrate).                              *)
RefusalMeansDrift ==
  boot.why \in {"ConfigError", "SchemaMigrationError"} => ~Fits(boot.config)

(* A partition is cached as checked only if its changelog has existed: a    *)
(* refused or failed creation is tried again (_checked, topic_errors).     *)
CachedWasThere == \A tp \in checked : NameOf[tp] \in existed

(* A compacted changelog is never passed over in silence, even one that     *)
(* somebody else creates between the listing and the creation, unless its   *)
(* policy may not be read.                                                 *)
CompactIsReported ==
  [][\A tp \in checked' \ checked :
       boot.config.verify /\ topic[NameOf[tp]] = "compact" /\ faults' = faults
         => NameOf[tp] \in reported']_vars

(* However often it is interrupted, a start with a configuration that fits  *)
(* ends with the store up, unless the host turns to another configuration. *)
InterruptedStartsFinish ==
  \A c \in Configs :
    boot.pc = "base" /\ boot.config = c /\ Fits(c) ~> boot.pc = "up" \/ boot.config # c

(* No declared column ends in the name of another one, and no two declared  *)
(* indexes have names that differ in case only: what migrate() does not     *)
(* tell apart in the schema text and in index_list does not occur.         *)
NamesApart ==
  /\ Suffixes = {}
  /\ \A i, j \in Indexes : Folded(i.name) = Folded(j.name) => i.name = j.name

(* The inductive invariant of the proofs. What a start has been through is  *)
(* stored, and the columns the loop finds are those of the one reading and  *)
(* the ones it has added since.                                            *)
ColumnsUpTo(n) == \A k \in 1..Len(boot.config.columns) : k < n => boot.config.columns[k] \in db.columns
IndexesUpTo(n) == \A k \in 1..Len(boot.config.indexes) : k < n => boot.config.indexes[k] \in db.indexes

StartInv ==
  /\ boot.pc = "base" => boot.step <= BaseStatements /\ db.base >= boot.step - 1
  /\ boot.pc \notin {"down", "base"} => db.base = BaseStatements
  /\ boot.pc # "down" => Valid(boot.config) /\ boot.why = "none"
  /\ boot.pc = "columns" =>
       /\ ColumnsUpTo(boot.step)
       /\ boot.read \subseteq db.columns
       /\ \A c \in db.columns \ boot.read :
            \E k \in 1..Len(boot.config.columns) : k < boot.step /\ c = boot.config.columns[k]
  /\ boot.pc \in {"indexes", "up"} => Items(boot.config.columns) \subseteq db.columns
  /\ boot.pc = "indexes" => IndexesUpTo(boot.step)

(* With topic creation configured, an assigned partition is checked in the  *)
(* end: a failure is not cached, and what it left is found by the next try. *)
PartitionsGetChecked ==
  \A tp \in TPs :
    boot.pc = "up" /\ boot.config.create ~> tp \in checked \/ boot.pc # "up"
=============================================================================
