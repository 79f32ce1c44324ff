----------------------------- MODULE StoreDirs -----------------------------
(***************************************************************************)
(* Where the vector store of a project lives, and how it gets there:       *)
(*   internal/heimdall/migrate.go        MigrateToModelDir,                *)
(*                                       MigrateLegacyLatestDir            *)
(*   internal/heimdall/dbpath.go         ModelDBDir                        *)
(*   internal/heimdall/store.go          OpenStore                         *)
(*   internal/heimdall/schema            ApplyPreOpen, Apply               *)
(*   internal/heimdall/migrations.go     migration 1                       *)
(*                                                                         *)
(* Old releases kept one vectors.db in .heimdall_db ("base"), later ones   *)
(* one per model in <model>_latest ("latest"), the present one in <model>  *)
(* ("bare"). Processes index (CLI index, heimdall_index), add a text       *)
(* (heimdall_index_text), index without migrating (the post-edit actor,    *)
(* sub-repo passes), search, or clean up. The first two migrate what they  *)
(* find, under lock files in .heimdall_db; the others only choose a        *)
(* directory and open it.                                                  *)
(*                                                                         *)
(* A row is its mod_time. A handle on an open store follows the file: to   *)
(* "bare" when its directory is renamed, to nowhere ("unlinked") when      *)
(* another file takes its name.                                            *)
(***************************************************************************)
EXTENDS Naturals

CONSTANTS
  Proc, NoProc,
  NoPlace,
  MaxRow,     \* bound: rows
  Start,      \* what an upgraded installation may have on disk
  Jobs,       \* what the processes do
  Faults

ASSUME NullAssumption == NoProc \notin Proc /\ NoPlace \notin {"base", "latest", "bare", "unlinked"}
ASSUME RowAssumption == MaxRow \in Nat \ {0}
ASSUME StartAssumption == Start \subseteq {"none", "base", "latest", "bare", "mixed"}
ASSUME JobsAssumption == Jobs \subseteq {"index", "text", "actor", "search", "cleanup"}
ASSUME FaultsAssumption == Faults \subseteq {"crash", "stuck", "slow", "error"}

VARIABLES
  dirs,         \* model directories that exist
  dbs,          \* places with a vectors.db
  rows,         \* the rows of each
  recorded,     \* places whose schema_migrations has version 1
  logged,       \* directories whose pre-open log has version 1
  modelLock,    \* .heimdall-model-migrate.lock: who made it
  lock,         \* .heimdall-legacy-migrate-<model>.lock: who made it, ...
  stale,        \*   and whether that is ten minutes ago
  pc, job, at,  \* per process: its step, its job, the place it uses
  ran,          \*   whether this OpenStore ran migration 1
  tree, clock,  \* rows the files of the project have; the newest row
  committed,    \* history: rows that were ever stored
  upgraded      \* history: a process that migrates has done its job

disk == <<dirs, dbs, rows, recorded, logged>>
locks == <<modelLock, lock, stale>>
procs == <<pc, job, at, ran>>
world == <<tree, clock, committed, upgraded>>
vars == <<disk, locks, procs, world>>

Name == {"latest", "bare"}
Place == Name \cup {"base", "unlinked"}
RowId == 1..MaxRow
Step == {"idle", "model", "mlock", "mcheck", "mmove", "munlock",
         "legacy", "lock", "steal", "retry", "recheck", "clear", "rename", "unlock", "abort",
         "choose", "preopen", "log", "create", "record", "use", "find", "remove"}

Open(p) == pc[p] \in {"record", "use"}
Migrating(p) == pc[p] \in {"recheck", "clear", "rename", "unlock", "abort"}

(* ModelDBDir, and the directory it would pick if it ignored the data. *)
PickBare == IF "bare" \notin dirs /\ "latest" \in dirs THEN "latest" ELSE "bare"

Pick ==
  IF /\ "latest" \in dirs
     /\ "bare" \in dirs => \E r \in rows["latest"] : \A s \in rows["bare"] : r > s
    THEN "latest" ELSE "bare"

(* "mixed" is what is left by a release that made an empty directory under *)
(* the present name.                                                       *)
Init ==
  /\ \E s \in Start :
       /\ dirs = CASE s = "latest" -> {"latest"} [] s = "bare" -> {"bare"}
                   [] s = "mixed" -> Name [] OTHER -> {}
       /\ dbs = dirs \cup ({s} \cap {"base"})
       /\ rows = [x \in Place |-> IF x = s \/ (s = "mixed" /\ x = "latest") THEN {1} ELSE {}]
       /\ committed = IF s = "none" THEN {} ELSE {1}
  /\ recorded = {}
  /\ logged = {}
  /\ modelLock = NoProc
  /\ lock = NoProc
  /\ stale = FALSE
  /\ pc = [p \in Proc |-> "idle"]
  /\ job = [p \in Proc |-> "search"]
  /\ at = [p \in Proc |-> NoPlace]
  /\ ran = [p \in Proc |-> FALSE]
  /\ tree = {}
  /\ clock = 1
  /\ upgraded = FALSE

-----------------------------------------------------------------------------
Go(p, from, to) == pc[p] = from /\ pc' = [pc EXCEPT ![p] = to]

Launch(p) ==
  \E j \in Jobs :
    /\ Go(p, "idle", IF j \in {"index", "text"} THEN "model" ELSE IF j = "cleanup" THEN "find" ELSE "choose")
    /\ job' = [job EXCEPT ![p] = j]
    /\ UNCHANGED <<disk, locks, at, ran, world>>

(* A lock file outlives its process. While a process uses its store or     *)
(* waits for the operator, it is GiveUp and Decline.                       *)
Crash(p) ==
  /\ "crash" \in Faults
  /\ modelLock = p => "stuck" \in Faults
  /\ pc[p] \notin {"idle", "use", "find", "remove"}
  /\ pc' = [pc EXCEPT ![p] = "idle"]
  /\ at' = [at EXCEPT ![p] = NoPlace]
  /\ ran' = [ran EXCEPT ![p] = FALSE]
  /\ UNCHANGED <<disk, locks, job, world>>

Edit ==
  /\ clock < MaxRow
  /\ clock' = clock + 1
  /\ tree' = tree \cup {clock + 1}
  /\ UNCHANGED <<disk, locks, procs, committed, upgraded>>

(* Ten minutes pass; a migration that is alive takes that long only if     *)
(* "slow" is among the faults.                                             *)
Age ==
  /\ lock # NoProc
  /\ ~stale
  /\ Migrating(lock) => "slow" \in Faults
  /\ stale' = TRUE
  /\ UNCHANGED <<disk, modelLock, lock, procs, world>>

-----------------------------------------------------------------------------
(* MigrateToModelDir: vectors.db moves from the base directory to that of  *)
(* the model. Its lock file is never taken to be stale.                    *)

ModelCheckLeftOut(p) ==
  /\ Go(p, "model", "legacy")
  /\ UNCHANGED <<disk, locks, job, at, ran, world>>

ModelCheck(p) ==
  /\ Go(p, "model", IF "base" \in dbs THEN "mlock" ELSE "legacy")
  /\ UNCHANGED <<disk, locks, job, at, ran, world>>

ModelLock(p) ==
  /\ Go(p, "mlock", IF modelLock = NoProc THEN "mcheck" ELSE "legacy")
  /\ modelLock' = IF modelLock = NoProc THEN p ELSE modelLock
  /\ UNCHANGED <<disk, lock, stale, job, at, ran, world>>

ModelCheckAgain(p) ==
  LET target == Pick
      move == "base" \in dbs /\ target \notin dbs
  IN  /\ Go(p, "mcheck", IF move THEN "mmove" ELSE "munlock")
      /\ at' = [at EXCEPT ![p] = IF move THEN target ELSE NoPlace]
      /\ dirs' = IF move THEN dirs \cup {target} ELSE dirs
      /\ UNCHANGED <<dbs, rows, recorded, logged, locks, job, ran, world>>

(* os.Rename, which replaces a vectors.db that has appeared meanwhile. *)
ModelMove(p) ==
  LET to == at[p]
  IN  /\ Go(p, "mmove", "munlock")
      /\ IF to \in dirs
           THEN /\ dbs' = (dbs \ {"base"}) \cup {to}
                /\ rows' = [rows EXCEPT ![to] = rows["base"], !["base"] = {},
                                        !["unlinked"] = @ \cup rows[to]]
                /\ recorded' = recorded \ {to}
                /\ at' = [q \in Proc |-> IF q = p THEN NoPlace
                                         ELSE IF Open(q) /\ at[q] = to THEN "unlinked" ELSE at[q]]
           ELSE /\ at' = [at EXCEPT ![p] = NoPlace]
                /\ UNCHANGED <<dbs, rows, recorded>>
      /\ UNCHANGED <<dirs, logged, locks, job, ran, world>>

ModelUnlock(p) ==
  /\ Go(p, "munlock", "legacy")
  /\ modelLock' = NoProc
  /\ UNCHANGED <<disk, lock, stale, job, at, ran, world>>

-----------------------------------------------------------------------------
(* MigrateLegacyLatestDir: <model>_latest is renamed to <model>. It is     *)
(* called before the directory is chosen, and once more as migration 1     *)
(* when a store without version 1 in its pre-open log is opened.           *)

Return(p) == IF at[p] = NoPlace THEN "choose" ELSE "log"

Due == "latest" \in dirs /\ "bare" \notin dirs

LegacyCheck(p) ==
  /\ Go(p, "legacy", IF Due THEN "lock" ELSE Return(p))
  /\ UNCHANGED <<disk, locks, job, at, ran, world>>

LegacyLockShared(p) ==
  /\ Go(p, "lock", "recheck")
  /\ lock' = p
  /\ stale' = FALSE
  /\ UNCHANGED <<disk, modelLock, job, at, ran, world>>

LegacyLockForGood(p) ==
  /\ Go(p, "lock", IF lock = NoProc THEN "recheck" ELSE Return(p))
  /\ lock' = IF lock = NoProc THEN p ELSE lock
  /\ UNCHANGED <<disk, modelLock, stale, job, at, ran, world>>

LegacyLock(p) ==
  /\ Go(p, "lock", IF lock = NoProc THEN "recheck" ELSE IF stale THEN "steal" ELSE Return(p))
  /\ lock' = IF lock = NoProc THEN p ELSE lock
  /\ stale' = (lock # NoProc /\ stale)
  /\ UNCHANGED <<disk, modelLock, job, at, ran, world>>

(* os.Remove, of whatever lock file is there by now. *)
Steal(p) ==
  /\ Go(p, "steal", "retry")
  /\ lock' = NoProc
  /\ stale' = FALSE
  /\ UNCHANGED <<disk, modelLock, job, at, ran, world>>

Retry(p) ==
  /\ Go(p, "retry", IF lock = NoProc THEN "recheck" ELSE Return(p))
  /\ lock' = IF lock = NoProc THEN p ELSE lock
  /\ UNCHANGED <<disk, modelLock, stale, job, at, ran, world>>

LegacyCheckAgain(p) ==
  /\ Go(p, "recheck", IF Due THEN "clear" ELSE "unlock")
  /\ UNCHANGED <<disk, locks, job, at, ran, world>>

(* The hook cache of the old store is cleared; OpenStore makes the         *)
(* directory if it is no longer there.                                     *)
Clear(p) ==
  /\ Go(p, "clear", "rename")
  /\ dirs' = dirs \cup {"latest"}
  /\ dbs' = dbs \cup {"latest"}
  /\ recorded' = recorded \cup ({"latest"} \ logged)
  /\ logged' = logged \cup {"latest"}
  /\ UNCHANGED <<rows, locks, job, at, ran, world>>

(* os.Rename fails if the old directory is gone or the new one exists. *)
Renamed ==
  /\ dirs' = (dirs \ {"latest"}) \cup {"bare"}
  /\ dbs' = IF "latest" \in dbs THEN (dbs \ {"latest"}) \cup {"bare"} ELSE dbs
  /\ rows' = [rows EXCEPT !["bare"] = rows["latest"], !["latest"] = {}]
  /\ recorded' = IF "latest" \in recorded THEN (recorded \ {"latest"}) \cup {"bare"} ELSE recorded \ {"bare"}
  /\ at' = [q \in Proc |-> IF Open(q) /\ at[q] = "latest" THEN "bare" ELSE at[q]]
  /\ UNCHANGED <<logged, locks, job, ran, world>>

RenameReplacing(p) ==
  /\ Go(p, "rename", IF "latest" \in dirs THEN "unlock" ELSE "abort")
  /\ IF "latest" \in dirs THEN Renamed ELSE UNCHANGED <<disk, locks, job, at, ran, world>>

Rename(p) ==
  /\ Go(p, "rename", IF Due THEN "unlock" ELSE "abort")
  /\ IF Due THEN Renamed ELSE UNCHANGED <<disk, locks, job, at, ran, world>>

(* The lock file is removed, whoever made it. *)
Unlock(p) ==
  /\ Go(p, "unlock", Return(p))
  /\ lock' = NoProc
  /\ stale' = FALSE
  /\ UNCHANGED <<disk, modelLock, job, at, ran, world>>

(* As well, but OpenStore returns the error of its migration. *)
Abort(p) ==
  /\ Go(p, "abort", IF at[p] = NoPlace THEN "choose" ELSE "idle")
  /\ at' = [at EXCEPT ![p] = NoPlace]
  /\ lock' = NoProc
  /\ stale' = FALSE
  /\ UNCHANGED <<disk, modelLock, job, ran, world>>

-----------------------------------------------------------------------------
(* A search uses only what is there (ResolveUsableModelDB). *)
Choose(p) ==
  LET usable == job[p] # "search" \/ dbs \cap Name # {}
  IN  /\ Go(p, "choose", IF usable THEN "preopen" ELSE "idle")
      /\ at' = [at EXCEPT ![p] = IF usable THEN Pick ELSE NoPlace]
      /\ UNCHANGED <<disk, locks, job, ran, world>>

(* OpenStore: ApplyPreOpen, ... *)
PreOpen(p) ==
  /\ Go(p, "preopen", IF at[p] \in logged THEN "create" ELSE IF at[p] = "bare" THEN "legacy" ELSE "log")
  /\ UNCHANGED <<disk, locks, job, at, ran, world>>

LogVersion(p) ==
  /\ Go(p, "log", "create")
  /\ logged' = logged \cup {at[p]}
  /\ ran' = [ran EXCEPT ![p] = TRUE]
  /\ UNCHANGED <<dirs, dbs, rows, recorded, locks, job, at, world>>

(* ... MkdirAll and the tables, ... *)
Create(p) ==
  /\ Go(p, "create", "record")
  /\ dirs' = dirs \cup {at[p]}
  /\ dbs' = dbs \cup {at[p]}
  /\ UNCHANGED <<rows, recorded, logged, locks, job, at, ran, world>>

(* ... Apply, which records what this call has run. *)
RecordNothing(p) ==
  /\ Go(p, "record", "use")
  /\ ran' = [ran EXCEPT ![p] = FALSE]
  /\ UNCHANGED <<disk, locks, job, at, world>>

Record(p) ==
  /\ Go(p, "record", "use")
  /\ recorded' = IF ran[p] THEN recorded \cup {at[p]} ELSE recorded
  /\ ran' = [ran EXCEPT ![p] = FALSE]
  /\ UNCHANGED <<dirs, dbs, rows, logged, locks, job, at, world>>

-----------------------------------------------------------------------------
Store(p, r) ==
  /\ rows' = [rows EXCEPT ![at[p]] = @ \cup {r}]
  /\ committed' = committed \cup {r}
  /\ UNCHANGED <<dirs, dbs, recorded, logged, locks, job, ran>>

Close(p) ==
  /\ Go(p, "use", "idle")
  /\ at' = [at EXCEPT ![p] = NoPlace]

(* A pass stores what its tree has and the store has not. *)
Upsert(p) ==
  /\ pc[p] = "use"
  /\ job[p] \in {"index", "actor"}
  /\ \E r \in tree \ rows[at[p]] : Store(p, r)
  /\ UNCHANGED <<pc, at, tree, clock, upgraded>>

EndPass(p) ==
  /\ Close(p)
  /\ job[p] \in {"index", "actor"}
  /\ tree \subseteq rows[at[p]]
  /\ upgraded' = (upgraded \/ job[p] = "index")
  /\ UNCHANGED <<disk, locks, job, ran, tree, clock, committed>>

AddText(p) ==
  /\ Close(p)
  /\ job[p] = "text"
  /\ clock < MaxRow
  /\ clock' = clock + 1
  /\ Store(p, clock + 1)
  /\ upgraded' = TRUE
  /\ UNCHANGED tree

Search(p) ==
  /\ Close(p)
  /\ job[p] = "search"
  /\ UNCHANGED <<disk, locks, job, ran, world>>

(* An embed that fails, a write to a store whose directory was renamed, a  *)
(* kill.                                                                   *)
GiveUp(p) ==
  /\ Faults \cap {"error", "crash"} # {}
  /\ Close(p)
  /\ job[p] # "search"
  /\ UNCHANGED <<disk, locks, job, ran, world>>

(* cleanup-legacy-latest: an old directory that has a sibling of the       *)
(* present name is listed as safe to remove, ...                           *)
Find(p) ==
  /\ Go(p, "find", IF Name \subseteq dirs THEN "remove" ELSE "idle")
  /\ UNCHANGED <<disk, locks, job, at, ran, world>>

(* ... and removed if the operator says so and the sibling still exists. *)
Remove(p) ==
  /\ Go(p, "remove", "idle")
  /\ "bare" \in dirs
  /\ dirs' = dirs \ {"latest"}
  /\ dbs' = dbs \ {"latest"}
  /\ rows' = [rows EXCEPT !["latest"] = {}, !["unlinked"] = @ \cup rows["latest"]]
  /\ recorded' = recorded \ {"latest"}
  /\ at' = [q \in Proc |-> IF Open(q) /\ at[q] = "latest" THEN "unlinked" ELSE at[q]]
  /\ UNCHANGED <<logged, locks, job, ran, world>>

Decline(p) ==
  /\ Go(p, "remove", "idle")
  /\ UNCHANGED <<disk, locks, job, at, ran, world>>

-----------------------------------------------------------------------------
MigrateModel(p) ==
  ModelCheck(p) \/ ModelLock(p) \/ ModelCheckAgain(p) \/ ModelMove(p) \/ ModelUnlock(p)

MigrateLegacy(p) ==
  \/ LegacyCheck(p) \/ LegacyLock(p) \/ Steal(p) \/ Retry(p) \/ LegacyCheckAgain(p)
  \/ Clear(p) \/ Rename(p) \/ Unlock(p) \/ Abort(p)

OpenStore(p) == Choose(p) \/ PreOpen(p) \/ LogVersion(p) \/ Create(p) \/ Record(p)

Use(p) == Upsert(p) \/ EndPass(p) \/ AddText(p) \/ Search(p) \/ Find(p) \/ Remove(p) \/ Decline(p)

Work(p) == MigrateModel(p) \/ MigrateLegacy(p) \/ OpenStore(p) \/ Use(p)

Next ==
  \/ \E p \in Proc : Launch(p) \/ Work(p) \/ GiveUp(p) \/ Crash(p)
  \/ Edit
  \/ Age

Spec == Init /\ [][Next]_vars

(* A process that was started goes on, and time passes. *)
FairSpec == Spec /\ WF_vars(Age) /\ \A p \in Proc : WF_vars(Work(p))

-----------------------------------------------------------------------------
(* Also: rows are in a vectors.db, a handle is on one. *)
TypeOK ==
  /\ dirs \subseteq Name
  /\ dbs \subseteq Name \cup {"base"}
  /\ rows \in [Place -> SUBSET RowId]
  /\ recorded \subseteq Place
  /\ logged \subseteq Name
  /\ modelLock \in Proc \cup {NoProc}
  /\ lock \in Proc \cup {NoProc}
  /\ stale \in BOOLEAN
  /\ pc \in [Proc -> Step]
  /\ job \in [Proc -> {"index", "text", "actor", "search", "cleanup"}]
  /\ at \in [Proc -> Place \cup {NoPlace}]
  /\ ran \in [Proc -> BOOLEAN]
  /\ tree \subseteq RowId
  /\ clock \in RowId
  /\ committed \subseteq RowId
  /\ upgraded \in BOOLEAN
  /\ dbs \cap Name \subseteq dirs
  /\ \A x \in Name \cup {"base"} : rows[x] # {} => x \in dbs
  /\ \A p \in Proc : Open(p) => at[p] \in dbs \cup {"unlinked"}

(* What was ever stored is in one of the three places, whatever migrations *)
(* were under way or interrupted.                                          *)
RowsKept == committed \subseteq rows["base"] \cup rows["latest"] \cup rows["bare"]

(* README.md: the rename is lock-protected. *)
OneMigrator == \A p, q \in Proc : Migrating(p) /\ Migrating(q) => p = q

(* When nobody is at work and the first job that migrates is done, a       *)
(* search finds everything that was ever stored.                           *)
RowsVisible ==
  upgraded /\ (\A p \in Proc : pc[p] = "idle") => committed \subseteq rows[Pick]

(* dbpath.go: writers migrate first so that the mixed state becomes a      *)
(* single one.                                                             *)
SingleState ==
  upgraded /\ (\A p \in Proc : pc[p] = "idle") => ~(Name \subseteq dirs)

(* schema.go: a migration that has run is recorded the moment the store is *)
(* open, so that whoever uses a store finds version 1 in it.               *)
UsedIsRecorded == \A p \in Proc : pc[p] = "use" => at[p] \in recorded

(* A project whose store is in <model>_latest has it in <model> in the end *)
(* if it is indexed again and again, whatever crashed before.              *)
LegacyLeaves ==
  /\ <>[][\A p \in Proc : ~Crash(p)]_vars
  /\ []<>(\E p \in Proc : pc[p] = "model")
  => <>[]~Due
=============================================================================
