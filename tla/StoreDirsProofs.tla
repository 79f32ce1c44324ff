-------------------------- MODULE StoreDirsProofs --------------------------
(***************************************************************************)
(* The upgrade of store directories, for any number of processes and rows: *)
(* types; that no row is lost on the way from <model>_latest to <model>,   *)
(* whatever is killed or slow and whoever else migrates; that only one     *)
(* process migrates when none is killed or slow; and that a process alone, *)
(* killed where it may be, leaves all rows where a search looks.           *)
(***************************************************************************)
EXTENDS StoreDirs, TLAPS

(* The place of a process: chosen before it is opened, lost only when open. *)
Chosen == {"preopen", "log", "create", "record", "use"}
PlaceOf(p) ==
  /\ at[p] \in Name \cup {NoPlace, "unlinked"}
  /\ ~Open(p) => at[p] # "unlinked"
  /\ Open(p) => at[p] \in dbs \cup {"unlinked"}
  /\ pc[p] \in Chosen => at[p] # NoPlace

ProcOK ==
  /\ pc \in [Proc -> Step]
  /\ job \in [Proc -> {"index", "text", "actor", "search", "cleanup"}]
  /\ at \in [Proc -> Place \cup {NoPlace}]
  /\ ran \in [Proc -> BOOLEAN]
  /\ \A p \in Proc : PlaceOf(p)

LockOK ==
  /\ modelLock \in Proc \cup {NoProc}
  /\ lock \in Proc \cup {NoProc}
  /\ stale \in BOOLEAN

DiskOK ==
  /\ dirs \subseteq Name
  /\ dbs \subseteq Name \cup {"base"}
  /\ rows \in [Place -> SUBSET RowId]
  /\ recorded \subseteq Place
  /\ logged \subseteq Name
  /\ dbs \cap Name \subseteq dirs
  /\ \A x \in Name \cup {"base"} : rows[x] # {} => x \in dbs

WorldOK ==
  /\ tree \subseteq RowId
  /\ clock \in RowId
  /\ committed \subseteq RowId
  /\ upgraded \in BOOLEAN

TInv == ProcOK /\ LockOK /\ DiskOK /\ WorldOK

LEMMA TInvTypes == TInv => TypeOK
BY DEF TInv, TypeOK, ProcOK, LockOK, DiskOK, WorldOK, PlaceOf

LEMMA TypeInit == Init => TInv
<1> SUFFICES ASSUME Init PROVE TInv
  OBVIOUS
<1>0. 1 \in RowId
  BY RowAssumption DEF RowId
<1>4. PICK s \in Start :
        /\ dirs = CASE s = "latest" -> {"latest"} [] s = "bare" -> {"bare"}
                    [] s = "mixed" -> Name [] OTHER -> {}
        /\ dbs = dirs \cup ({s} \cap {"base"})
        /\ rows = [x \in Place |-> IF x = s \/ (s = "mixed" /\ x = "latest") THEN {1} ELSE {}]
        /\ committed = IF s = "none" THEN {} ELSE {1}
  BY DEF Init
<1>5. s \in {"none", "base", "latest", "bare", "mixed"}
  BY StartAssumption
<1>1. ProcOK
  BY NullAssumption DEF Init, ProcOK, PlaceOf, Open, Chosen, Step
<1>2. DiskOK
  <2>1. rows \in [Place -> SUBSET RowId]
    BY <1>0, <1>4
  <2>2. dirs \subseteq Name /\ dbs \subseteq Name \cup {"base"} /\ dbs \cap Name \subseteq dirs
    BY <1>4, <1>5 DEF Name
  <2>3. \A x \in Name \cup {"base"} : rows[x] # {} => x \in dbs
    BY <1>4, <1>5 DEF Name, Place
  <2> QED BY <2>1, <2>2, <2>3 DEF Init, DiskOK
<1>3. WorldOK /\ LockOK
  <2>1. committed \subseteq RowId
    BY <1>0, <1>4
  <2> QED BY <1>0, <2>1 DEF Init, WorldOK, LockOK
<1> QED BY <1>1, <1>2, <1>3 DEF TInv

(* A process takes a step, and only it changes place. *)
LEMMA Moves ==
  ASSUME ProcOK, NEW p \in Proc, NEW s \in Step, NEW a \in Name \cup {NoPlace, "unlinked"},
         pc' = [pc EXCEPT ![p] = s], at' = [at EXCEPT ![p] = a],
         job' \in [Proc -> {"index", "text", "actor", "search", "cleanup"}],
         ran' \in [Proc -> BOOLEAN],
         dbs \subseteq dbs',
         s \in {"record", "use"} => a \in dbs',
         s \notin {"record", "use"} => a # "unlinked",
         s \in Chosen => a # NoPlace
  PROVE  ProcOK'
<1>1. at' \in [Proc -> Place \cup {NoPlace}] /\ pc' \in [Proc -> Step]
  BY DEF ProcOK, Place
<1>2. PlaceOf(p)'
  BY DEF ProcOK, PlaceOf, Open
<1>3. \A q \in Proc \ {p} : PlaceOf(q)'
  BY DEF ProcOK, PlaceOf, Open
<1> QED BY <1>1, <1>2, <1>3 DEF ProcOK

(* A process takes a step and stays where it is. *)
LEMMA Stays ==
  ASSUME ProcOK, NEW p \in Proc, NEW s \in Step,
         pc' = [pc EXCEPT ![p] = s], at' = at,
         job' \in [Proc -> {"index", "text", "actor", "search", "cleanup"}],
         ran' \in [Proc -> BOOLEAN],
         dbs \subseteq dbs',
         s \in {"record", "use"} => at[p] \in dbs' \cup {"unlinked"},
         s \notin {"record", "use"} => ~Open(p),
         s \in Chosen => at[p] # NoPlace
  PROVE  ProcOK'
<1>1. at' \in [Proc -> Place \cup {NoPlace}] /\ pc' \in [Proc -> Step]
  BY DEF ProcOK
<1>2. PlaceOf(p)'
  BY DEF ProcOK, PlaceOf, Open
<1>3. \A q \in Proc \ {p} : PlaceOf(q)'
  BY DEF ProcOK, PlaceOf, Open
<1> QED BY <1>1, <1>2, <1>3 DEF ProcOK

LEMMA TypeStep == TInv /\ [Next]_vars => TInv'
<1> SUFFICES ASSUME TInv, [Next]_vars PROVE TInv'
  OBVIOUS
<1>0. ProcOK /\ LockOK /\ DiskOK /\ WorldOK /\ (\A p \in Proc : PlaceOf(p))
  BY DEF TInv, ProcOK
<1> USE NullAssumption
<1>1. ASSUME NEW p \in Proc, Launch(p) PROVE TInv'
  <2>1. PICK j \in Jobs :
          /\ Go(p, "idle", IF j \in {"index", "text"} THEN "model" ELSE IF j = "cleanup" THEN "find" ELSE "choose")
          /\ job' = [job EXCEPT ![p] = j]
    BY <1>1 DEF Launch
  <2>3. PICK s \in {"model", "find", "choose"} : pc[p] = "idle" /\ pc' = [pc EXCEPT ![p] = s]
    BY <2>1 DEF Go
  <2>4. job' \in [Proc -> {"index", "text", "actor", "search", "cleanup"}]
    BY <1>0, <2>1, JobsAssumption DEF ProcOK
  <2>2. ProcOK'
    <3>1. at' = at /\ ran' = ran /\ dbs' = dbs
      BY <1>1 DEF Launch, disk
    <3>2. ~Open(p) /\ s \in Step /\ s \notin Chosen
      BY <2>3 DEF Open, Step, Chosen
    <3>3. ran' \in [Proc -> BOOLEAN] /\ s \notin {"record", "use"}
      BY <1>0, <2>3, <3>1 DEF ProcOK
    <3> QED BY <1>0, <2>3, <2>4, <3>1, <3>2, <3>3, Stays
  <2> QED BY <1>0, <1>1, <2>2 DEF Launch, TInv, LockOK, DiskOK, WorldOK, disk, locks, world
<1>2. ASSUME NEW p \in Proc, Crash(p) PROVE TInv'
  <2>1. ProcOK'
    BY <1>0, <1>2, Moves DEF Crash, Step, Chosen, ProcOK, disk
  <2> QED BY <1>0, <1>2, <2>1 DEF Crash, TInv, LockOK, DiskOK, WorldOK, disk, locks, world
<1>3. ASSUME NEW p \in Proc, ModelCheck(p) \/ ModelLock(p) \/ ModelUnlock(p) PROVE TInv'
  <2>1. ProcOK'
    BY <1>0, <1>3, Stays DEF ModelCheck, ModelLock, ModelUnlock, Go, Step, Chosen, ProcOK, Open, disk
  <2> QED BY <1>0, <1>3, <2>1
          DEF ModelCheck, ModelLock, ModelUnlock, TInv, LockOK, DiskOK, WorldOK, disk, locks, world
<1>4. ASSUME NEW p \in Proc, ModelCheckAgain(p) PROVE TInv'
  <2>1. Pick \in Name
    BY DEF Pick, Name
  <2>2. ProcOK'
    BY <1>0, <1>4, <2>1, Moves DEF ModelCheckAgain, Go, Step, Chosen, ProcOK, Name
  <2> QED BY <1>0, <1>4, <2>1, <2>2 DEF ModelCheckAgain, TInv, LockOK, DiskOK, WorldOK, locks, world
<1>5. ASSUME NEW p \in Proc, ModelMove(p) PROVE TInv'
  <2>1. CASE at[p] \in dirs
    <3>1. at[p] \in Name /\ at[p] # "base" /\ at[p] # "unlinked" /\ ~Open(p)
      BY <1>0, <1>5, <2>1 DEF DiskOK, Name, ModelMove, Go, Open
    <3>2. /\ pc' = [pc EXCEPT ![p] = "munlock"]
          /\ dbs' = (dbs \ {"base"}) \cup {at[p]}
          /\ at' = [q \in Proc |-> IF q = p THEN NoPlace
                                   ELSE IF Open(q) /\ at[q] = at[p] THEN "unlinked" ELSE at[q]]
          /\ job' = job /\ ran' = ran
      BY <1>5, <2>1 DEF ModelMove, Go
    <3>3. \A q \in Proc : PlaceOf(q)'
      <4>1. PlaceOf(p)'
        BY <1>0, <3>2 DEF PlaceOf, Open, Chosen, ProcOK, Step
      <4>2. ASSUME NEW q \in Proc \ {p} PROVE PlaceOf(q)'
        BY <1>0, <3>1, <3>2, <4>2 DEF PlaceOf, Open, Chosen, ProcOK, Name
      <4> QED BY <4>1, <4>2
    <3>4. ProcOK'
      BY <1>0, <3>2, <3>3 DEF ProcOK, Place, Step
    <3>5. DiskOK'
      <4>1. rows' = [rows EXCEPT ![at[p]] = rows["base"], !["base"] = {},
                                 !["unlinked"] = @ \cup rows[at[p]]]
        BY <1>5, <2>1 DEF ModelMove
      <4>2. rows' \in [Place -> SUBSET RowId]
        BY <1>0, <3>1, <4>1 DEF DiskOK, Place, Name
      <4>3. \A x \in Name \cup {"base"} : rows'[x] # {} => x \in dbs'
        BY <1>0, <3>1, <3>2, <4>1 DEF DiskOK, Place, Name
      <4> QED BY <1>0, <1>5, <2>1, <3>1, <3>2, <4>2, <4>3 DEF ModelMove, DiskOK, Name
    <3> QED BY <1>0, <1>5, <3>4, <3>5 DEF ModelMove, TInv, LockOK, WorldOK, locks, world
  <2>2. CASE at[p] \notin dirs
    <3>1. ProcOK'
      BY <1>0, <1>5, <2>2, Moves DEF ModelMove, Go, Step, Chosen, ProcOK
    <3> QED BY <1>0, <1>5, <2>2, <3>1 DEF ModelMove, TInv, LockOK, DiskOK, WorldOK, locks, world
  <2> QED BY <2>1, <2>2
<1>6. ASSUME NEW p \in Proc, LegacyCheck(p) \/ LegacyLock(p) \/ Steal(p) \/ Retry(p) PROVE TInv'
  <2>1. ProcOK'
    BY <1>0, <1>6, Stays
       DEF LegacyCheck, LegacyLock, Steal, Retry, Return, Go, Step, Chosen, ProcOK, Open, disk
  <2> QED BY <1>0, <1>6, <2>1
          DEF LegacyCheck, LegacyLock, Steal, Retry, TInv, LockOK, DiskOK, WorldOK, disk, locks, world
<1>7. ASSUME NEW p \in Proc, LegacyCheckAgain(p) \/ Unlock(p) PROVE TInv'
  <2>1. ProcOK'
    BY <1>0, <1>7, Stays DEF LegacyCheckAgain, Unlock, Return, Go, Step, Chosen, ProcOK, Open, disk
  <2> QED BY <1>0, <1>7, <2>1 DEF LegacyCheckAgain, Unlock, TInv, LockOK, DiskOK, WorldOK, disk, locks, world
<1>8. ASSUME NEW p \in Proc, Abort(p) PROVE TInv'
  <2>1. ProcOK'
    BY <1>0, <1>8, Moves DEF Abort, Go, Step, Chosen, ProcOK, disk
  <2> QED BY <1>0, <1>8, <2>1 DEF Abort, TInv, LockOK, DiskOK, WorldOK, disk, world
<1>9. ASSUME NEW p \in Proc, Clear(p) PROVE TInv'
  <2>1. ProcOK'
    BY <1>0, <1>9, Stays DEF Clear, Go, Step, Chosen, ProcOK, Open
  <2> QED BY <1>0, <1>9, <2>1 DEF Clear, TInv, LockOK, DiskOK, WorldOK, Name, Place, locks, world
<1>10. ASSUME NEW p \in Proc, Rename(p) PROVE TInv'
  <2>1. CASE Due
    <3>1. /\ pc' = [pc EXCEPT ![p] = "unlock"] /\ pc[p] = "rename"
          /\ dbs' = IF "latest" \in dbs THEN (dbs \ {"latest"}) \cup {"bare"} ELSE dbs
          /\ at' = [q \in Proc |-> IF Open(q) /\ at[q] = "latest" THEN "bare" ELSE at[q]]
          /\ job' = job /\ ran' = ran
      BY <1>10, <2>1 DEF Rename, Renamed, Go
    <3>2. \A q \in Proc : PlaceOf(q)'
      <4>1. PlaceOf(p)'
        BY <1>0, <3>1 DEF PlaceOf, Open, Chosen, ProcOK
      <4>2. ASSUME NEW q \in Proc \ {p} PROVE PlaceOf(q)'
        BY <1>0, <3>1, <4>2 DEF PlaceOf, Open, Chosen, ProcOK, Name
      <4> QED BY <4>1, <4>2
    <3>3. ProcOK'
      BY <1>0, <3>1, <3>2 DEF ProcOK, Place, Name, Step
    <3>4. DiskOK'
      <4>1. /\ rows' = [rows EXCEPT !["bare"] = rows["latest"], !["latest"] = {}]
            /\ dirs' = (dirs \ {"latest"}) \cup {"bare"}
            /\ recorded' = IF "latest" \in recorded THEN (recorded \ {"latest"}) \cup {"bare"}
                           ELSE recorded \ {"bare"}
            /\ logged' = logged
        BY <1>10, <2>1 DEF Rename, Renamed
      <4> QED BY <1>0, <3>1, <4>1 DEF DiskOK, Place, Name
    <3> QED BY <1>0, <1>10, <2>1, <3>3, <3>4 DEF Rename, Renamed, TInv, LockOK, WorldOK, locks, world
  <2>2. CASE ~Due
    <3>1. ProcOK'
      BY <1>0, <1>10, <2>2, Stays DEF Rename, Go, Step, Chosen, ProcOK, Open, disk
    <3> QED BY <1>0, <1>10, <2>2, <3>1 DEF Rename, TInv, LockOK, DiskOK, WorldOK, disk, locks, world
  <2> QED BY <2>1, <2>2
<1>11. ASSUME NEW p \in Proc, Choose(p) PROVE TInv'
  <2>1. Pick \in Name
    BY DEF Pick, Name
  <2>2. ProcOK'
    BY <1>0, <1>11, <2>1, Moves DEF Choose, Go, Step, Chosen, ProcOK, Name, disk
  <2> QED BY <1>0, <1>11, <2>2 DEF Choose, TInv, LockOK, DiskOK, WorldOK, disk, locks, world
<1>12. ASSUME NEW p \in Proc, PreOpen(p) \/ LogVersion(p) PROVE TInv'
  <2>0. at[p] # NoPlace
    BY <1>0, <1>12 DEF PreOpen, LogVersion, Go, PlaceOf, Chosen
  <2>1. ProcOK'
    <3>1. CASE PreOpen(p)
      <4>1. PICK s \in {"create", "legacy", "log"} : pc' = [pc EXCEPT ![p] = s]
        BY <3>1 DEF PreOpen, Go
      <4> QED BY <1>0, <2>0, <3>1, <4>1, Stays DEF PreOpen, Go, Step, ProcOK, Open, disk
    <3>2. CASE LogVersion(p)
      BY <1>0, <2>0, <3>2, Stays DEF LogVersion, Go, Step, ProcOK, Open
    <3> QED BY <1>12, <3>1, <3>2
  <2>2. LogVersion(p) => at[p] \in Name
    BY <1>0 DEF LogVersion, Go, PlaceOf, Open, Chosen
  <2> QED BY <1>0, <1>12, <2>1, <2>2
          DEF PreOpen, LogVersion, TInv, LockOK, DiskOK, WorldOK, disk, locks, world
<1>13. ASSUME NEW p \in Proc, Create(p) \/ Record(p) PROVE TInv'
  <2>1. Create(p) => at[p] \in Name
    BY <1>0 DEF Create, Go, PlaceOf, Open, Chosen
  <2>2. Record(p) => at[p] \in (dbs \cup {"unlinked"}) \cap Place /\ at[p] # NoPlace
    BY <1>0 DEF Record, Go, PlaceOf, Open, Chosen, Place, Name
  <2>3. CASE Create(p)
    <3>1. ProcOK'
      BY <1>0, <2>1, <2>3, Stays, NullAssumption DEF Create, Go, Step, Chosen, ProcOK, Open, Name
    <3> QED BY <1>0, <2>1, <2>3, <3>1 DEF Create, TInv, LockOK, DiskOK, WorldOK, locks, world
  <2>4. CASE Record(p)
    <3>1. ProcOK'
      BY <1>0, <2>2, <2>4, Stays DEF Record, Go, Step, Chosen, ProcOK, Open
    <3> QED BY <1>0, <2>2, <2>4, <3>1 DEF Record, TInv, LockOK, DiskOK, WorldOK, locks, world
  <2> QED BY <1>13, <2>3, <2>4
<1>14. ASSUME NEW p \in Proc, NEW r \in RowId, Store(p, r), pc[p] = "use" PROVE DiskOK' /\ LockOK'
  <2>1. at[p] \in dbs \cup {"unlinked"} /\ at[p] \in Name \cup {"unlinked"}
    BY <1>0, <1>14 DEF PlaceOf, Open, Chosen
  <2> QED BY <1>0, <1>14, <2>1 DEF Store, DiskOK, LockOK, Place, Name, locks
<1>15. ASSUME NEW p \in Proc, Upsert(p) PROVE TInv'
  <2>1. PICK r \in tree \ rows[at[p]] : Store(p, r)
    BY <1>15 DEF Upsert
  <2>2. r \in RowId
    BY <1>0, <2>1 DEF WorldOK
  <2>3. ProcOK'
    BY <1>0, <1>15, <2>1 DEF Upsert, Store, ProcOK, PlaceOf, Open
  <2>4. WorldOK'
    BY <1>0, <1>15, <2>1, <2>2 DEF Upsert, Store, WorldOK
  <2>5. DiskOK' /\ LockOK'
    BY <1>14, <1>15, <2>1, <2>2 DEF Upsert
  <2> QED BY <2>3, <2>4, <2>5 DEF TInv
<1>16. ASSUME NEW p \in Proc, EndPass(p) \/ Search(p) \/ GiveUp(p) PROVE TInv'
  <2>1. ProcOK'
    BY <1>0, <1>16, Moves DEF EndPass, Search, GiveUp, Close, Go, Step, Chosen, ProcOK, disk
  <2>2. WorldOK'
    BY <1>0, <1>16 DEF EndPass, Search, GiveUp, WorldOK, world
  <2> QED BY <1>0, <1>16, <2>1, <2>2 DEF EndPass, Search, GiveUp, TInv, LockOK, DiskOK, disk, locks
<1>17. ASSUME NEW p \in Proc, AddText(p) PROVE TInv'
  <2>1. clock + 1 \in RowId
    BY <1>0, <1>17, RowAssumption DEF AddText, RowId, WorldOK
  <2>2. ProcOK'
    BY <1>0, <1>17, Moves DEF AddText, Store, Close, Go, Step, Chosen, ProcOK
  <2>3. WorldOK'
    BY <1>0, <1>17, <2>1 DEF AddText, Store, WorldOK
  <2>4. DiskOK' /\ LockOK'
    BY <1>14, <1>17, <2>1 DEF AddText, Close, Go
  <2> QED BY <2>2, <2>3, <2>4 DEF TInv
<1>18. ASSUME NEW p \in Proc, Find(p) \/ Decline(p) PROVE TInv'
  <2>1. ProcOK'
    BY <1>0, <1>18, Stays DEF Find, Decline, Go, Step, Chosen, ProcOK, Open, disk
  <2> QED BY <1>0, <1>18, <2>1 DEF Find, Decline, TInv, LockOK, DiskOK, WorldOK, disk, locks, world
<1>19. ASSUME NEW p \in Proc, Remove(p) PROVE TInv'
  <2>1. /\ pc' = [pc EXCEPT ![p] = "idle"] /\ pc[p] = "remove"
        /\ dbs' = dbs \ {"latest"}
        /\ at' = [q \in Proc |-> IF Open(q) /\ at[q] = "latest" THEN "unlinked" ELSE at[q]]
        /\ job' = job /\ ran' = ran
    BY <1>19 DEF Remove, Go
  <2>2. \A q \in Proc : PlaceOf(q)'
    <3>1. PlaceOf(p)'
      BY <1>0, <2>1 DEF PlaceOf, Open, Chosen, ProcOK
    <3>2. ASSUME NEW q \in Proc \ {p} PROVE PlaceOf(q)'
      BY <1>0, <2>1, <3>2 DEF PlaceOf, Open, Chosen, ProcOK, Name
    <3> QED BY <3>1, <3>2
  <2>3. ProcOK'
    BY <1>0, <2>1, <2>2 DEF ProcOK, Place, Name, Step
  <2>4. DiskOK'
    BY <1>0, <1>19, <2>1 DEF Remove, DiskOK, Place, Name
  <2> QED BY <1>0, <1>19, <2>3, <2>4 DEF Remove, TInv, LockOK, WorldOK, locks, world
<1>20. ASSUME Edit PROVE TInv'
  <2>1. clock + 1 \in RowId
    BY <1>0, <1>20, RowAssumption DEF Edit, RowId, WorldOK
  <2>2. ProcOK'
    BY <1>0, <1>20 DEF Edit, ProcOK, PlaceOf, Open, disk, procs
  <2> QED BY <1>0, <1>20, <2>1, <2>2 DEF Edit, TInv, LockOK, DiskOK, WorldOK, disk, locks
<1>21. ASSUME Age \/ UNCHANGED vars PROVE TInv'
  <2>1. ProcOK'
    BY <1>0, <1>21 DEF Age, vars, ProcOK, PlaceOf, Open, disk, procs
  <2> QED BY <1>0, <1>21, <2>1 DEF Age, vars, TInv, LockOK, DiskOK, WorldOK, disk, locks, world
<1> QED
  BY <1>1, <1>2, <1>3, <1>4, <1>5, <1>6, <1>7, <1>8, <1>9, <1>10, <1>11, <1>12, <1>13,
     <1>15, <1>16, <1>17, <1>18, <1>19, <1>20, <1>21
     DEF Next, Work, MigrateModel, MigrateLegacy, OpenStore, Use

LEMMA TInvHolds == Spec => []TInv
BY TypeInit, TypeStep, PTL DEF Spec

(* Types; a row is in a vectors.db, and a handle is on one or on a file    *)
(* that was replaced or removed.                                           *)
THEOREM TypeCorrect == Spec => []TypeOK
BY TInvHolds, TInvTypes, PTL

-----------------------------------------------------------------------------
(* Without a vectors.db of the oldest layout and without the cleanup       *)
(* command, nobody moves or removes a file by itself, and a handle that is *)
(* open always follows its directory.                                      *)
OnlyRenames == "base" \notin Start /\ "cleanup" \notin Jobs

KeepInv ==
  /\ dbs \subseteq Name
  /\ \A p \in Proc :
       /\ pc[p] \notin {"mlock", "mcheck", "mmove", "munlock", "find", "remove"}
       /\ at[p] # "unlinked"
  /\ RowsKept

LEMMA KeepInit == ASSUME OnlyRenames PROVE Init => KeepInv
<1> SUFFICES ASSUME Init PROVE KeepInv
  OBVIOUS
<1>1. PICK s \in Start :
        /\ dirs = CASE s = "latest" -> {"latest"} [] s = "bare" -> {"bare"}
                    [] s = "mixed" -> Name [] OTHER -> {}
        /\ dbs = dirs \cup ({s} \cap {"base"})
        /\ rows = [x \in Place |-> IF x = s \/ (s = "mixed" /\ x = "latest") THEN {1} ELSE {}]
        /\ committed = IF s = "none" THEN {} ELSE {1}
  BY DEF Init
<1>2. s \in {"none", "latest", "bare", "mixed"}
  BY StartAssumption DEF OnlyRenames
<1>3. dbs \subseteq Name
  BY <1>1, <1>2 DEF Name
<1>4. RowsKept
  BY <1>1, <1>2 DEF RowsKept, Place, Name
<1>5. \A p \in Proc : pc[p] = "idle" /\ at[p] # "unlinked"
  BY NullAssumption DEF Init
<1> QED BY <1>3, <1>4, <1>5 DEF KeepInv

LEMMA KeepStep == ASSUME OnlyRenames PROVE TInv /\ KeepInv /\ [Next]_vars => KeepInv'
<1> SUFFICES ASSUME TInv, KeepInv, [Next]_vars PROVE KeepInv'
  OBVIOUS
<1>0. ProcOK /\ DiskOK /\ WorldOK
  BY DEF TInv
<1>1. ASSUME NEW p \in Proc, Launch(p) PROVE KeepInv'
  <2>1. PICK s \in {"model", "choose"} : pc' = [pc EXCEPT ![p] = s]
    BY <1>1 DEF Launch, Go, OnlyRenames
  <2> QED BY <1>0, <1>1, <2>1 DEF Launch, KeepInv, RowsKept, ProcOK, disk, world
<1>2. ASSUME NEW p \in Proc, Crash(p) \/ Abort(p) PROVE KeepInv'
  <2>1. PICK s \in {"idle", "choose"} : pc' = [pc EXCEPT ![p] = s] /\ at' = [at EXCEPT ![p] = NoPlace]
    BY <1>2 DEF Crash, Abort, Go
  <2> QED BY <1>0, <1>2, <2>1, NullAssumption DEF Crash, Abort, KeepInv, RowsKept, ProcOK, disk, world
<1>3. ASSUME NEW p \in Proc, MigrateModel(p) PROVE KeepInv'
  <2>1. ModelCheck(p)
    BY <1>3 DEF MigrateModel, ModelLock, ModelCheckAgain, ModelMove, ModelUnlock, Go, KeepInv
  <2>2. "base" \notin dbs
    BY DEF KeepInv, Name
  <2> QED BY <1>0, <2>1, <2>2 DEF ModelCheck, Go, KeepInv, RowsKept, ProcOK, disk, world
<1>4. ASSUME NEW p \in Proc,
             \/ LegacyCheck(p) \/ LegacyLock(p) \/ Steal(p) \/ Retry(p) \/ LegacyCheckAgain(p)
             \/ Unlock(p) \/ PreOpen(p)
      PROVE KeepInv'
  <2>1. PICK s \in {"lock", "recheck", "steal", "choose", "log", "retry", "clear", "unlock", "create", "legacy"} :
          pc' = [pc EXCEPT ![p] = s]
    BY <1>4 DEF LegacyCheck, LegacyLock, Steal, Retry, LegacyCheckAgain, Unlock, PreOpen, Return, Go
  <2> QED BY <1>0, <1>4, <2>1
          DEF LegacyCheck, LegacyLock, Steal, Retry, LegacyCheckAgain, Unlock, PreOpen, KeepInv, RowsKept,
              ProcOK, disk, world
<1>5. ASSUME NEW p \in Proc, Clear(p) PROVE KeepInv'
  BY <1>0, <1>5 DEF Clear, Go, KeepInv, RowsKept, ProcOK, Name, world
<1>6. ASSUME NEW p \in Proc, Rename(p) PROVE KeepInv'
  <2>1. PICK s \in {"unlock", "abort"} : pc' = [pc EXCEPT ![p] = s]
    BY <1>6 DEF Rename, Go
  <2>2. CASE Due
    <3>1. rows["bare"] = {}
      BY <1>0, <2>2 DEF DiskOK, Due, Name
    <3>2. /\ rows' = [rows EXCEPT !["bare"] = rows["latest"], !["latest"] = {}]
          /\ dbs' = IF "latest" \in dbs THEN (dbs \ {"latest"}) \cup {"bare"} ELSE dbs
          /\ at' = [q \in Proc |-> IF Open(q) /\ at[q] = "latest" THEN "bare" ELSE at[q]]
          /\ committed' = committed
      BY <1>6, <2>2 DEF Rename, Renamed, world
    <3>3. RowsKept'
      BY <1>0, <3>1, <3>2 DEF KeepInv, RowsKept, DiskOK, Place, Name
    <3> QED BY <1>0, <2>1, <3>2, <3>3 DEF KeepInv, ProcOK, Name
  <2>3. CASE ~Due
    BY <1>0, <1>6, <2>1, <2>3 DEF Rename, KeepInv, RowsKept, ProcOK, disk, world
  <2> QED BY <2>2, <2>3
<1>7. ASSUME NEW p \in Proc, Choose(p) PROVE KeepInv'
  <2>1. PICK s \in {"preopen", "idle"} : pc' = [pc EXCEPT ![p] = s]
    BY <1>7 DEF Choose, Go
  <2>2. PICK x \in Name \cup {NoPlace} : at' = [at EXCEPT ![p] = x]
    BY <1>7 DEF Choose, Pick, Name
  <2> QED BY <1>0, <1>7, <2>1, <2>2, NullAssumption DEF Choose, KeepInv, RowsKept, ProcOK, Name, disk, world
<1>8. ASSUME NEW p \in Proc, LogVersion(p) \/ Record(p) PROVE KeepInv'
  BY <1>0, <1>8 DEF LogVersion, Record, Go, KeepInv, RowsKept, ProcOK, world
<1>9. ASSUME NEW p \in Proc, Create(p) PROVE KeepInv'
  <2>1. at[p] \in Name
    BY <1>0, <1>9 DEF Create, Go, ProcOK, PlaceOf, Open, Chosen
  <2> QED BY <1>0, <1>9, <2>1 DEF Create, Go, KeepInv, RowsKept, ProcOK, world
<1>10. ASSUME NEW p \in Proc, NEW r, Store(p, r), pc[p] = "use" PROVE RowsKept' /\ dbs' = dbs
  <2>1. at[p] \in Name
    BY <1>0, <1>10 DEF KeepInv, ProcOK, PlaceOf, Chosen
  <2> QED BY <1>0, <1>10, <2>1 DEF Store, KeepInv, RowsKept, DiskOK, Place, Name
<1>11. ASSUME NEW p \in Proc, Upsert(p) PROVE KeepInv'
  <2>1. PICK r : Store(p, r) /\ pc[p] = "use"
    BY <1>11 DEF Upsert
  <2>2. RowsKept' /\ dbs' = dbs
    BY <1>10, <2>1
  <2> QED BY <1>11, <2>2 DEF Upsert, KeepInv
<1>12. ASSUME NEW p \in Proc, AddText(p) PROVE KeepInv'
  <2>1. RowsKept' /\ dbs' = dbs
    BY <1>10, <1>12 DEF AddText, Close, Go
  <2> QED BY <1>0, <1>12, <2>1, NullAssumption DEF AddText, Close, Go, KeepInv, ProcOK
<1>13. ASSUME NEW p \in Proc, EndPass(p) \/ Search(p) \/ GiveUp(p) PROVE KeepInv'
  <2>1. Close(p) /\ UNCHANGED disk /\ committed' = committed
    BY <1>13 DEF EndPass, Search, GiveUp, world
  <2> QED BY <1>0, <2>1, NullAssumption DEF Close, Go, KeepInv, RowsKept, ProcOK, disk
<1>14. ASSUME NEW p \in Proc, Find(p) \/ Remove(p) \/ Decline(p) PROVE KeepInv'
  BY <1>14 DEF Find, Remove, Decline, Go, KeepInv
<1>15. ASSUME Edit \/ Age \/ UNCHANGED vars PROVE KeepInv'
  BY <1>15 DEF Edit, Age, vars, KeepInv, RowsKept, disk, procs, world
<1> QED
  BY <1>1, <1>2, <1>3, <1>4, <1>5, <1>6, <1>7, <1>8, <1>9, <1>11, <1>12, <1>13, <1>14, <1>15
     DEF Next, Work, MigrateLegacy, OpenStore, Use

(* The rename of <model>_latest loses no row, whoever migrates at the same *)
(* time, however slow, and whoever is killed.                              *)
THEOREM RenameLosesNothing == ASSUME OnlyRenames PROVE Spec => []RowsKept
<1>1. Init => KeepInv
  BY KeepInit
<1>2. TInv /\ KeepInv /\ [Next]_vars => KeepInv'
  BY KeepStep
<1>3. KeepInv => RowsKept
  BY DEF KeepInv
<1> QED BY <1>1, <1>2, <1>3, TInvHolds, PTL DEF Spec

-----------------------------------------------------------------------------
(* No process is killed and none takes ten minutes to migrate. *)
Brisk == Faults \cap {"crash", "slow"} = {}

LockInv ==
  /\ ~stale
  /\ lock # NoProc => lock \in Proc /\ Migrating(lock)
  /\ \A p \in Proc : (Migrating(p) => lock = p) /\ pc[p] \notin {"steal", "retry"}

LEMMA LockStep == ASSUME Brisk PROVE TInv /\ LockInv /\ [Next]_vars => LockInv'
<1> SUFFICES ASSUME TInv, LockInv, [Next]_vars PROVE LockInv'
  OBVIOUS
<1>0. ProcOK /\ LockOK
  BY DEF TInv
<1>a. ASSUME NEW p \in Proc, NEW s \in Step, pc' = [pc EXCEPT ![p] = s], UNCHANGED <<lock, stale>>,
             s \notin {"steal", "retry"},
             Migrating(p) <=> s \in {"recheck", "clear", "rename", "unlock", "abort"}
      PROVE LockInv'
  BY <1>0, <1>a DEF LockInv, Migrating, ProcOK
<1>b. ASSUME NEW p \in Proc, NEW s \in Step, pc' = [pc EXCEPT ![p] = s], lock' = NoProc, stale' = FALSE,
             Migrating(p), s \notin {"recheck", "clear", "rename", "unlock", "abort", "steal", "retry"}
      PROVE LockInv'
  BY <1>0, <1>b DEF LockInv, Migrating, ProcOK
<1>1. ASSUME NEW p \in Proc, Launch(p) PROVE LockInv'
  <2>1. PICK s \in {"model", "find", "choose"} : pc' = [pc EXCEPT ![p] = s] /\ pc[p] = "idle"
    BY <1>1 DEF Launch, Go
  <2> QED BY <1>1, <1>a, <2>1 DEF Launch, Migrating, Step, locks
<1>2. ASSUME NEW p \in Proc, Crash(p) PROVE LockInv'
  BY <1>2 DEF Crash, Brisk
<1>3. ASSUME NEW p \in Proc, MigrateModel(p) PROVE LockInv'
  <2>1. PICK s \in {"mlock", "mcheck", "mmove", "munlock", "legacy"} :
          pc' = [pc EXCEPT ![p] = s] /\ ~Migrating(p)
    BY <1>3 DEF MigrateModel, ModelCheck, ModelLock, ModelCheckAgain, ModelMove, ModelUnlock, Go, Migrating
  <2>2. UNCHANGED <<lock, stale>>
    BY <1>3 DEF MigrateModel, ModelCheck, ModelLock, ModelCheckAgain, ModelMove, ModelUnlock, locks
  <2> QED BY <1>a, <2>1, <2>2 DEF Step
<1>4. ASSUME NEW p \in Proc, LegacyCheck(p) PROVE LockInv'
  <2>1. PICK s \in {"lock", "choose", "log"} : pc' = [pc EXCEPT ![p] = s] /\ ~Migrating(p)
    BY <1>4 DEF LegacyCheck, Return, Go, Migrating
  <2> QED BY <1>4, <1>a, <2>1 DEF LegacyCheck, Step, locks
<1>5. ASSUME NEW p \in Proc, LegacyLock(p) PROVE LockInv'
  <2>1. CASE lock = NoProc
    BY <1>0, <1>5, <2>1, NullAssumption DEF LegacyLock, Go, LockInv, Migrating, ProcOK
  <2>2. CASE lock # NoProc
    <3>1. PICK s \in {"choose", "log"} : pc' = [pc EXCEPT ![p] = s] /\ ~Migrating(p)
      BY <1>5, <2>2 DEF LegacyLock, Return, Go, LockInv, Migrating
    <3>2. UNCHANGED <<lock, stale>>
      BY <1>0, <1>5, <2>2 DEF LegacyLock, LockOK
    <3> QED BY <1>a, <3>1, <3>2 DEF Step
  <2> QED BY <2>1, <2>2
<1>6. ASSUME NEW p \in Proc, Steal(p) \/ Retry(p) PROVE LockInv'
  BY <1>6 DEF Steal, Retry, Go, LockInv
<1>7. ASSUME NEW p \in Proc, LegacyCheckAgain(p) \/ Clear(p) \/ Rename(p) PROVE LockInv'
  <2>1. PICK s \in {"clear", "unlock", "rename", "abort"} : pc' = [pc EXCEPT ![p] = s] /\ Migrating(p)
    BY <1>7 DEF LegacyCheckAgain, Clear, Rename, Go, Migrating
  <2>2. UNCHANGED <<lock, stale>>
    BY <1>7 DEF LegacyCheckAgain, Clear, Rename, Renamed, locks
  <2> QED BY <1>a, <2>1, <2>2 DEF Step
<1>8. ASSUME NEW p \in Proc, Unlock(p) \/ Abort(p) PROVE LockInv'
  <2>1. PICK s \in {"choose", "log", "idle"} : pc' = [pc EXCEPT ![p] = s] /\ Migrating(p)
    BY <1>8 DEF Unlock, Abort, Return, Go, Migrating
  <2> QED BY <1>8, <1>b, <2>1 DEF Unlock, Abort, Step
<1>9. ASSUME NEW p \in Proc, OpenStore(p) PROVE LockInv'
  <2>1. PICK s \in {"preopen", "idle", "create", "legacy", "log", "record", "use"} :
          pc' = [pc EXCEPT ![p] = s] /\ ~Migrating(p)
    BY <1>9 DEF OpenStore, Choose, PreOpen, LogVersion, Create, Record, Go, Migrating
  <2>2. UNCHANGED <<lock, stale>>
    BY <1>9 DEF OpenStore, Choose, PreOpen, LogVersion, Create, Record, locks
  <2> QED BY <1>a, <2>1, <2>2 DEF Step
<1>10. ASSUME NEW p \in Proc, Upsert(p) PROVE LockInv'
  BY <1>10 DEF Upsert, Store, LockInv, Migrating, locks
<1>11. ASSUME NEW p \in Proc,
              EndPass(p) \/ AddText(p) \/ Search(p) \/ GiveUp(p) \/ Find(p) \/ Remove(p) \/ Decline(p)
       PROVE LockInv'
  <2>1. PICK s \in {"idle", "remove"} : pc' = [pc EXCEPT ![p] = s] /\ ~Migrating(p)
    BY <1>11 DEF EndPass, AddText, Search, GiveUp, Find, Remove, Decline, Close, Go, Migrating
  <2>2. UNCHANGED <<lock, stale>>
    BY <1>11 DEF EndPass, AddText, Store, Search, GiveUp, Find, Remove, Decline, locks
  <2> QED BY <1>a, <2>1, <2>2 DEF Step
<1>12. ASSUME Age PROVE LockInv'
  BY <1>12 DEF Age, Brisk, LockInv
<1>13. ASSUME Edit \/ UNCHANGED vars PROVE LockInv'
  BY <1>13 DEF Edit, vars, LockInv, Migrating, locks, procs
<1> QED
  BY <1>1, <1>2, <1>3, <1>4, <1>5, <1>6, <1>7, <1>8, <1>9, <1>10, <1>11, <1>12, <1>13
     DEF Next, Work, MigrateLegacy, Use

(* The lock of the rename excludes, as long as nobody is killed or slow.   *)
THEOREM LockExcludes == ASSUME Brisk PROVE Spec => []OneMigrator
<1>1. Init => LockInv
  BY DEF Init, LockInv, Migrating
<1>2. TInv /\ LockInv /\ [Next]_vars => LockInv'
  BY LockStep
<1>3. LockInv => OneMigrator
  BY DEF LockInv, OneMigrator
<1> QED BY <1>1, <1>2, <1>3, TInvHolds, PTL DEF Spec

-----------------------------------------------------------------------------
(* One process at a time, none that writes without migrating, and none     *)
(* killed while it holds the model lock.                                   *)
Alone ==
  /\ \A p, q \in Proc : p = q
  /\ Jobs \subseteq {"index", "text", "search"}
  /\ "stuck" \notin Faults

(* Where the rows are once they have left the base directory.              *)
Home == IF "latest" \in dirs THEN "latest" ELSE "bare"

(* As long as there is a store in the base directory there is no other;    *)
(* afterwards all rows are at home, and a second directory is empty.       *)
AllAtHome ==
  IF "base" \in dbs
    THEN dbs = {"base"} /\ "latest" \notin dirs /\ committed \subseteq rows["base"] /\ ~upgraded
    ELSE /\ committed \subseteq rows[Home]
         /\ "latest" \in dirs => rows["bare"] = {}
         /\ Name \subseteq dirs => rows["latest"] # {}

InModel == {"mcheck", "mmove", "munlock"}
InLegacy == {"lock", "steal", "retry", "recheck", "clear", "rename", "unlock", "abort"}

(* A process uses the home of the rows, and works on the migrated store    *)
(* only when there is none left to migrate; one that searches only looks.  *)
AtHome(p) ==
  /\ pc[p] \notin {"find", "remove"} /\ job[p] \in {"index", "text", "search"}
  /\ modelLock # NoProc => pc[p] \in InModel
  /\ at[p] \in {NoPlace, Home}
  /\ pc[p] \in {"idle", "model", "mlock", "mcheck", "munlock", "choose"} \cup InLegacy => at[p] = NoPlace
  /\ pc[p] = "mmove" => at[p] = "bare" /\ "bare" \in dirs /\ "base" \in dbs
  /\ pc[p] = "legacy" => at[p] \in {NoPlace, "bare"}
  /\ pc[p] \in {"clear", "rename"} => "latest" \in dirs
  /\ pc[p] \in {"munlock", "legacy"} \cup InLegacy \cup Chosen => "base" \notin dbs
  /\ pc[p] = "choose" => "base" \notin dbs \/ job[p] = "search"

VisInv == AllAtHome /\ \A p \in Proc : AtHome(p)

(* The step of a process that changes nothing on disk but maybe lock files *)
(* and what is logged or recorded.                                         *)
LEMMA DiskStays ==
  ASSUME AllAtHome, UNCHANGED <<dirs, dbs, rows, committed, upgraded>>
  PROVE  AllAtHome' /\ Home' = Home
BY DEF AllAtHome, Home

LEMMA VisInit == ASSUME Alone PROVE Init => VisInv
<1> SUFFICES ASSUME Init PROVE VisInv
  OBVIOUS
<1>1. PICK s \in Start :
        /\ dirs = CASE s = "latest" -> {"latest"} [] s = "bare" -> {"bare"}
                    [] s = "mixed" -> Name [] OTHER -> {}
        /\ dbs = dirs \cup ({s} \cap {"base"})
        /\ rows = [x \in Place |-> IF x = s \/ (s = "mixed" /\ x = "latest") THEN {1} ELSE {}]
        /\ committed = IF s = "none" THEN {} ELSE {1}
  BY DEF Init
<1>2. s \in {"none", "base", "latest", "bare", "mixed"}
  BY StartAssumption
<1>3. /\ "bare" \in Place /\ "latest" \in Place /\ "base" \in Place
      /\ \A x \in Place : rows[x] = IF x = s \/ (s = "mixed" /\ x = "latest") THEN {1} ELSE {}
  BY <1>1 DEF Place, Name
<1>4. AllAtHome
  <2>0. upgraded = FALSE
    BY DEF Init
  <2>1. CASE s = "none"
    BY <1>1, <1>3, <2>0, <2>1 DEF AllAtHome, Home, Name
  <2>2. CASE s = "base"
    BY <1>1, <1>3, <2>0, <2>2 DEF AllAtHome, Home, Name
  <2>3. CASE s = "latest"
    BY <1>1, <1>3, <2>0, <2>3 DEF AllAtHome, Home, Name
  <2>4. CASE s = "bare"
    BY <1>1, <1>3, <2>0, <2>4 DEF AllAtHome, Home, Name
  <2>5. CASE s = "mixed"
    BY <1>1, <1>3, <2>0, <2>5 DEF AllAtHome, Home, Name
  <2> QED BY <1>2, <2>1, <2>2, <2>3, <2>4, <2>5
<1>5. \A p \in Proc : AtHome(p)
  BY DEF Init, AtHome, InModel, InLegacy, Chosen
<1> QED BY <1>4, <1>5 DEF VisInv

LEMMA PickIsHome == ASSUME AllAtHome, "base" \notin dbs PROVE Pick = Home
<1>1. CASE "latest" \notin dirs
  BY <1>1 DEF Pick, Home
<1>2. CASE "latest" \in dirs
  BY <1>2 DEF Pick, Home, AllAtHome, Name
<1> QED BY <1>1, <1>2

(* A step that leaves the disk alone keeps the invariant if the process    *)
(* stays in its place.                                                     *)
LEMMA QuietMove ==
  ASSUME Alone, VisInv, NEW p \in Proc, UNCHANGED <<disk, committed, upgraded>>, AtHome(p)'
  PROVE  VisInv'
BY DiskStays DEF disk, VisInv, Alone

LEMMA VisStep == ASSUME Alone PROVE TInv /\ VisInv /\ [Next]_vars => VisInv'
<1> SUFFICES ASSUME TInv, VisInv, [Next]_vars PROVE VisInv'
  OBVIOUS
<1>a. AllAtHome /\ \A p \in Proc : AtHome(p)
  BY DEF VisInv
<1>b. /\ pc \in [Proc -> Step] /\ at \in [Proc -> Place \cup {NoPlace}]
      /\ job \in [Proc -> {"index", "text", "actor", "search", "cleanup"}]
      /\ rows \in [Place -> SUBSET RowId] /\ dirs \subseteq Name /\ dbs \subseteq Name \cup {"base"}
      /\ modelLock \in Proc \cup {NoProc}
      /\ dbs \cap Name \subseteq dirs
      /\ \A x \in Name \cup {"base"} : rows[x] # {} => x \in dbs
  BY DEF TInv, ProcOK, LockOK, DiskOK
<1>c. NoPlace \notin {"base", "latest", "bare", "unlinked"} /\ NoProc \notin Proc
  BY NullAssumption
<1>1. ASSUME NEW p \in Proc, Launch(p) PROVE VisInv'
  <2>1. PICK j \in Jobs :
          /\ pc[p] = "idle" /\ pc' = [pc EXCEPT ![p] = IF j \in {"index", "text"} THEN "model" ELSE IF j = "cleanup" THEN "find" ELSE "choose"]
          /\ job' = [job EXCEPT ![p] = j]
          /\ UNCHANGED <<disk, locks, at, ran, world>>
    BY <1>1 DEF Launch, Go
  <2>2. j \in {"index", "text", "search"}
    BY DEF Alone
  <2>3. AllAtHome' /\ Home' = Home /\ UNCHANGED <<dirs, dbs, modelLock, at>>
    BY <1>a, <2>1, DiskStays DEF disk, locks, world
  <2>4. AtHome(p)'
    BY <1>a, <1>b, <2>1, <2>2, <2>3 DEF AtHome, InModel, InLegacy, Chosen
  <2> QED BY <2>3, <2>4 DEF VisInv, Alone
<1>2. ASSUME NEW p \in Proc, ModelCheck(p) PROVE VisInv'
  <2>1. /\ pc[p] = "model" /\ pc'[p] = (IF "base" \in dbs THEN "mlock" ELSE "legacy") /\ at'[p] = at[p] /\ job' = job
        /\ UNCHANGED <<disk, committed, upgraded>> /\ UNCHANGED <<dirs, dbs>> /\ modelLock' = modelLock
    BY <1>2, <1>b DEF ModelCheck, Go, disk, locks, world
  <2>2. AtHome(p)'
    BY <1>a, <1>b, <2>1 DEF AtHome, Home, InModel, InLegacy, Chosen
  <2> QED BY <2>1, <2>2, QuietMove
<1>3. ASSUME NEW p \in Proc, ModelLock(p) PROVE VisInv'
  <2>1. /\ pc[p] = "mlock" /\ pc'[p] = (IF modelLock = NoProc THEN "mcheck" ELSE "legacy") /\ at'[p] = at[p] /\ job' = job
        /\ UNCHANGED <<disk, committed, upgraded>> /\ UNCHANGED <<dirs, dbs>>
    BY <1>3, <1>b DEF ModelLock, Go, disk, locks, world
  <2>2. AtHome(p)'
    BY <1>a, <1>b, <2>1 DEF AtHome, Home, InModel, InLegacy, Chosen
  <2> QED BY <2>1, <2>2, QuietMove
<1>4. ASSUME NEW p \in Proc, ModelUnlock(p) PROVE VisInv'
  <2>1. /\ pc[p] = "munlock" /\ pc'[p] = "legacy" /\ at'[p] = at[p] /\ job' = job
        /\ UNCHANGED <<disk, committed, upgraded>> /\ UNCHANGED <<dirs, dbs>> /\ modelLock' = NoProc
    BY <1>4, <1>b DEF ModelUnlock, Go, disk, locks, world
  <2>2. AtHome(p)'
    BY <1>a, <1>b, <2>1 DEF AtHome, Home, InModel, InLegacy, Chosen
  <2> QED BY <2>1, <2>2, QuietMove
<1>5. ASSUME NEW p \in Proc, LegacyCheck(p) PROVE VisInv'
  <2>1. /\ pc[p] = "legacy" /\ pc'[p] = (IF Due THEN "lock" ELSE Return(p)) /\ at'[p] = at[p] /\ job' = job
        /\ UNCHANGED <<disk, committed, upgraded>> /\ UNCHANGED <<dirs, dbs>> /\ modelLock' = modelLock
    BY <1>5, <1>b DEF LegacyCheck, Go, disk, locks, world
  <2>2. AtHome(p)'
    BY <1>a, <1>b, <2>1 DEF AtHome, Home, Due, Return, InModel, InLegacy, Chosen
  <2> QED BY <2>1, <2>2, QuietMove
<1>6. ASSUME NEW p \in Proc, LegacyLock(p) PROVE VisInv'
  <2>1. /\ pc[p] = "lock" /\ pc'[p] = pc'[p] /\ at'[p] = at[p] /\ job' = job
        /\ UNCHANGED <<disk, committed, upgraded>> /\ UNCHANGED <<dirs, dbs>> /\ pc'[p] \in {"recheck", "steal", Return(p)} /\ modelLock' = modelLock
    BY <1>6, <1>b DEF LegacyLock, Go, disk, locks, world
  <2>2. AtHome(p)'
    BY <1>a, <1>b, <2>1 DEF AtHome, Home, Due, Return, InModel, InLegacy, Chosen
  <2> QED BY <2>1, <2>2, QuietMove
<1>7. ASSUME NEW p \in Proc, Steal(p) PROVE VisInv'
  <2>1. /\ pc[p] = "steal" /\ pc'[p] = "retry" /\ at'[p] = at[p] /\ job' = job
        /\ UNCHANGED <<disk, committed, upgraded>> /\ UNCHANGED <<dirs, dbs>> /\ modelLock' = modelLock
    BY <1>7, <1>b DEF Steal, Go, disk, locks, world
  <2>2. AtHome(p)'
    BY <1>a, <1>b, <2>1 DEF AtHome, Home, InModel, InLegacy, Chosen
  <2> QED BY <2>1, <2>2, QuietMove
<1>8. ASSUME NEW p \in Proc, Retry(p) PROVE VisInv'
  <2>1. /\ pc[p] = "retry" /\ pc'[p] = pc'[p] /\ at'[p] = at[p] /\ job' = job
        /\ UNCHANGED <<disk, committed, upgraded>> /\ UNCHANGED <<dirs, dbs>> /\ pc'[p] \in {"recheck", Return(p)} /\ modelLock' = modelLock
    BY <1>8, <1>b DEF Retry, Go, disk, locks, world
  <2>2. AtHome(p)'
    BY <1>a, <1>b, <2>1 DEF AtHome, Home, Due, Return, InModel, InLegacy, Chosen
  <2> QED BY <2>1, <2>2, QuietMove
<1>9. ASSUME NEW p \in Proc, LegacyCheckAgain(p) PROVE VisInv'
  <2>1. /\ pc[p] = "recheck" /\ pc'[p] = (IF Due THEN "clear" ELSE "unlock") /\ at'[p] = at[p] /\ job' = job
        /\ UNCHANGED <<disk, committed, upgraded>> /\ UNCHANGED <<dirs, dbs>> /\ modelLock' = modelLock
    BY <1>9, <1>b DEF LegacyCheckAgain, Go, disk, locks, world
  <2>2. AtHome(p)'
    BY <1>a, <1>b, <2>1 DEF AtHome, Home, Due, Return, InModel, InLegacy, Chosen
  <2> QED BY <2>1, <2>2, QuietMove
<1>10. ASSUME NEW p \in Proc, Unlock(p) PROVE VisInv'
  <2>1. /\ pc[p] = "unlock" /\ pc'[p] = Return(p) /\ at'[p] = at[p] /\ job' = job
        /\ UNCHANGED <<disk, committed, upgraded>> /\ UNCHANGED <<dirs, dbs>> /\ modelLock' = modelLock
    BY <1>10, <1>b DEF Unlock, Go, disk, locks, world
  <2>2. AtHome(p)'
    BY <1>a, <1>b, <2>1 DEF AtHome, Home, Due, Return, InModel, InLegacy, Chosen
  <2> QED BY <2>1, <2>2, QuietMove
<1>11. ASSUME NEW p \in Proc, Abort(p) PROVE VisInv'
  <2>1. /\ pc[p] = "abort" /\ pc'[p] = (IF at[p] = NoPlace THEN "choose" ELSE "idle") /\ at'[p] = NoPlace /\ job' = job
        /\ UNCHANGED <<disk, committed, upgraded>> /\ UNCHANGED <<dirs, dbs>> /\ modelLock' = modelLock
    BY <1>11, <1>b DEF Abort, Go, disk, locks, world
  <2>2. AtHome(p)'
    BY <1>a, <1>b, <2>1 DEF AtHome, Home, InModel, InLegacy, Chosen
  <2> QED BY <2>1, <2>2, QuietMove
<1>12. ASSUME NEW p \in Proc, Choose(p) PROVE VisInv'
  <2>1. /\ pc[p] = "choose" /\ pc'[p] = (IF job[p] # "search" \/ dbs \cap Name # {} THEN "preopen" ELSE "idle") /\ at'[p] = (IF job[p] # "search" \/ dbs \cap Name # {} THEN Pick ELSE NoPlace) /\ job' = job
        /\ UNCHANGED <<disk, committed, upgraded>> /\ UNCHANGED <<dirs, dbs>> /\ modelLock' = modelLock
    BY <1>12, <1>b DEF Choose, Go, disk, locks, world
  <2>a. ASSUME job[p] # "search" \/ dbs \cap Name # {} PROVE AtHome(p)'
    <3>1. "base" \notin dbs
      BY <1>a, <2>1, <2>a DEF AllAtHome, AtHome, Name
    <3>2. at'[p] = Home /\ pc'[p] = "preopen"
      BY <1>a, <2>1, <2>a, <3>1, PickIsHome
    <3>3. Home' = Home
      BY <2>1 DEF Home
    <3> QED BY <1>a, <2>1, <3>1, <3>2, <3>3 DEF AtHome, InModel, InLegacy, Chosen
  <2>b. ASSUME ~(job[p] # "search" \/ dbs \cap Name # {}) PROVE AtHome(p)'
    BY <1>a, <2>1, <2>b DEF AtHome, InModel, InLegacy, Chosen
  <2>2. AtHome(p)'
    BY <2>a, <2>b
  <2> QED BY <2>1, <2>2, QuietMove
<1>13. ASSUME NEW p \in Proc, PreOpen(p) PROVE VisInv'
  <2>1. /\ pc[p] = "preopen" /\ pc'[p] = (IF at[p] \in logged THEN "create" ELSE IF at[p] = "bare" THEN "legacy" ELSE "log") /\ at'[p] = at[p] /\ job' = job
        /\ UNCHANGED <<disk, committed, upgraded>> /\ UNCHANGED <<dirs, dbs>> /\ modelLock' = modelLock
    BY <1>13, <1>b DEF PreOpen, Go, disk, locks, world
  <2>2. AtHome(p)'
    BY <1>a, <1>b, <2>1 DEF AtHome, Home, InModel, InLegacy, Chosen
  <2> QED BY <2>1, <2>2, QuietMove
<1>14. ASSUME NEW p \in Proc, LogVersion(p) PROVE VisInv'
  <2>1. /\ pc[p] = "log" /\ pc'[p] = "create" /\ at'[p] = at[p] /\ job' = job
        /\ UNCHANGED <<dirs, dbs, rows, committed, upgraded>> /\ modelLock' = modelLock
    BY <1>14, <1>b DEF LogVersion, Go, Close, disk, locks, world
  <2>2. AllAtHome' /\ Home' = Home
    BY <1>a, <2>1, DiskStays
  <2>3. AtHome(p)'
    BY <1>a, <1>b, <2>1 DEF AtHome, Home, InModel, InLegacy, Chosen
  <2> QED BY <2>2, <2>3 DEF VisInv, Alone
<1>15. ASSUME NEW p \in Proc, Record(p) PROVE VisInv'
  <2>1. /\ pc[p] = "record" /\ pc'[p] = "use" /\ at'[p] = at[p] /\ job' = job
        /\ UNCHANGED <<dirs, dbs, rows, committed, upgraded>> /\ modelLock' = modelLock
    BY <1>15, <1>b DEF Record, Go, Close, disk, locks, world
  <2>2. AllAtHome' /\ Home' = Home
    BY <1>a, <2>1, DiskStays
  <2>3. AtHome(p)'
    BY <1>a, <1>b, <2>1 DEF AtHome, Home, InModel, InLegacy, Chosen
  <2> QED BY <2>2, <2>3 DEF VisInv, Alone
<1>16. ASSUME NEW p \in Proc, Search(p) PROVE VisInv'
  <2>1. /\ pc[p] = "use" /\ pc'[p] = "idle" /\ at'[p] = NoPlace /\ job' = job
        /\ UNCHANGED <<dirs, dbs, rows, committed, upgraded>> /\ modelLock' = modelLock
    BY <1>16, <1>b DEF Search, Go, Close, disk, locks, world
  <2>2. AllAtHome' /\ Home' = Home
    BY <1>a, <2>1, DiskStays
  <2>3. AtHome(p)'
    BY <1>a, <1>b, <2>1 DEF AtHome, Home, InModel, InLegacy, Chosen
  <2> QED BY <2>2, <2>3 DEF VisInv, Alone
<1>17. ASSUME NEW p \in Proc, GiveUp(p) PROVE VisInv'
  <2>1. /\ pc[p] = "use" /\ pc'[p] = "idle" /\ at'[p] = NoPlace /\ job' = job
        /\ UNCHANGED <<dirs, dbs, rows, committed, upgraded>> /\ modelLock' = modelLock
    BY <1>17, <1>b DEF GiveUp, Go, Close, disk, locks, world
  <2>2. AllAtHome' /\ Home' = Home
    BY <1>a, <2>1, DiskStays
  <2>3. AtHome(p)'
    BY <1>a, <1>b, <2>1 DEF AtHome, Home, InModel, InLegacy, Chosen
  <2> QED BY <2>2, <2>3 DEF VisInv, Alone
<1>18. ASSUME NEW p \in Proc, Crash(p) PROVE VisInv'
  <2>1. /\ (modelLock = NoProc \/ modelLock # p) /\ pc'[p] = "idle" /\ at'[p] = NoPlace /\ job' = job
        /\ UNCHANGED <<dirs, dbs, rows, committed, upgraded>> /\ modelLock' = modelLock
    BY <1>18, <1>b DEF Crash, Alone, disk, locks, world
  <2>2. AllAtHome' /\ Home' = Home
    BY <1>a, <2>1, DiskStays
  <2>3. AtHome(p)'
    BY <1>a, <1>b, <1>c, <2>1 DEF Alone, AtHome, Home, InModel, InLegacy, Chosen
  <2> QED BY <2>2, <2>3 DEF VisInv, Alone
<1>19. ASSUME NEW p \in Proc, ModelCheckAgain(p) PROVE VisInv'
  <2> DEFINE move == "base" \in dbs /\ Pick \notin dbs
  <2>1. /\ pc[p] = "mcheck" /\ pc'[p] = (IF move THEN "mmove" ELSE "munlock")
        /\ at'[p] = (IF move THEN Pick ELSE NoPlace) /\ job' = job
        /\ dirs' = (IF move THEN dirs \cup {Pick} ELSE dirs)
        /\ UNCHANGED <<dbs, rows, committed, upgraded>> /\ modelLock' = modelLock
    BY <1>19, <1>b DEF ModelCheckAgain, Go, locks, world
  <2>2. CASE "base" \in dbs
    <3>1. dbs = {"base"} /\ "latest" \notin dirs /\ Pick = "bare"
      BY <1>a, <2>2 DEF AllAtHome, Pick
    <3>2. dirs' = dirs \cup {"bare"} /\ pc'[p] = "mmove" /\ at'[p] = "bare"
      BY <2>1, <2>2, <3>1
    <3>3. AllAtHome' /\ Home' = "bare"
      BY <1>a, <2>1, <2>2, <3>1, <3>2 DEF AllAtHome, Home
    <3>4. AtHome(p)'
      BY <1>a, <2>1, <2>2, <3>2, <3>3 DEF AtHome, InModel, InLegacy, Chosen
    <3> QED BY <3>3, <3>4 DEF VisInv, Alone
  <2>3. CASE "base" \notin dbs
    <3>1. dirs' = dirs /\ pc'[p] = "munlock" /\ at'[p] = NoPlace
      BY <2>1, <2>3
    <3>2. AllAtHome' /\ Home' = Home
      BY <1>a, <2>1, <3>1, DiskStays
    <3>3. AtHome(p)'
      BY <1>a, <2>1, <2>3, <3>1 DEF AtHome, InModel, InLegacy, Chosen
    <3> QED BY <3>2, <3>3 DEF VisInv, Alone
  <2> QED BY <2>2, <2>3
<1>20. ASSUME NEW p \in Proc, ModelMove(p) PROVE VisInv'
  <2>1. /\ pc[p] = "mmove" /\ at[p] = "bare" /\ "bare" \in dirs /\ "base" \in dbs /\ job[p] \in {"index", "text", "search"}
    BY <1>20, <1>a DEF ModelMove, Go, AtHome
  <2>2. /\ pc'[p] = "munlock" /\ job' = job /\ modelLock' = modelLock
        /\ dbs' = (dbs \ {"base"}) \cup {"bare"}
        /\ rows' = [rows EXCEPT !["bare"] = rows["base"], !["base"] = {},
                                !["unlinked"] = @ \cup rows["bare"]]
        /\ at'[p] = NoPlace /\ dirs' = dirs /\ UNCHANGED <<committed, upgraded>>
    BY <1>20, <1>b, <2>1 DEF ModelMove, Go, locks, world
  <2>3. dbs = {"base"} /\ "latest" \notin dirs /\ committed \subseteq rows["base"]
    BY <1>a, <2>1 DEF AllAtHome
  <2>4. rows'["bare"] = rows["base"]
    BY <1>b, <2>2 DEF Place, Name
  <2>5. AllAtHome' /\ "base" \notin dbs' /\ Home' = "bare"
    BY <2>2, <2>3, <2>4 DEF AllAtHome, Home, Name
  <2>6. AtHome(p)'
    BY <1>a, <2>1, <2>2, <2>5 DEF AtHome, InModel, InLegacy, Chosen
  <2> QED BY <2>5, <2>6 DEF VisInv, Alone
<1>21. ASSUME NEW p \in Proc, Clear(p) PROVE VisInv'
  <2>1. /\ pc[p] = "clear" /\ pc'[p] = "rename" /\ at' = at /\ job' = job /\ modelLock' = modelLock
        /\ dirs' = dirs \cup {"latest"} /\ dbs' = dbs \cup {"latest"}
        /\ UNCHANGED <<rows, committed, upgraded>>
    BY <1>21, <1>b DEF Clear, Go, locks, world
  <2>2. "latest" \in dirs /\ "base" \notin dbs /\ at[p] = NoPlace
    BY <1>a, <2>1 DEF AtHome, InLegacy
  <2>3. AllAtHome' /\ dirs' = dirs /\ "base" \notin dbs'
    BY <1>a, <2>1, <2>2 DEF AllAtHome, Home
  <2>4. AtHome(p)'
    BY <1>a, <2>1, <2>2, <2>3 DEF AtHome, InModel, InLegacy, Chosen
  <2> QED BY <2>3, <2>4 DEF VisInv, Alone
<1>22. ASSUME NEW p \in Proc, Rename(p) PROVE VisInv'
  <2>1. /\ pc[p] = "rename" /\ at[p] = NoPlace /\ "latest" \in dirs /\ "base" \notin dbs
    BY <1>22, <1>a DEF Rename, Go, AtHome, InLegacy
  <2>2. CASE ~Due
    <3>1. /\ pc'[p] = "abort" /\ at' = at /\ job' = job /\ modelLock' = modelLock
          /\ UNCHANGED <<disk, committed, upgraded>> /\ UNCHANGED <<dirs, dbs>>
      BY <1>22, <1>b, <2>2 DEF Rename, Go, disk, locks, world
    <3>2. AtHome(p)'
      BY <1>a, <2>1, <3>1 DEF AtHome, InModel, InLegacy, Chosen
    <3> QED BY <3>1, <3>2, QuietMove
  <2>3. CASE Due
    <3>1. /\ pc'[p] = "unlock" /\ job' = job /\ modelLock' = modelLock /\ UNCHANGED <<committed, upgraded>>
          /\ dirs' = (dirs \ {"latest"}) \cup {"bare"}
          /\ dbs' = IF "latest" \in dbs THEN (dbs \ {"latest"}) \cup {"bare"} ELSE dbs
          /\ rows' = [rows EXCEPT !["bare"] = rows["latest"], !["latest"] = {}]
          /\ at' = [q \in Proc |-> IF Open(q) /\ at[q] = "latest" THEN "bare" ELSE at[q]]
      BY <1>22, <1>b, <2>3 DEF Rename, Renamed, Go, locks, world
    <3>2. at'[p] = NoPlace
      BY <1>c, <2>1, <3>1
    <3>3. rows'["bare"] = rows["latest"] /\ committed \subseteq rows["latest"]
      BY <1>a, <1>b, <2>1, <3>1 DEF AllAtHome, Home, Place, Name
    <3>4. "base" \notin dbs' /\ "latest" \notin dirs'
      BY <2>1, <3>1
    <3>5. AllAtHome'
      BY <3>1, <3>3, <3>4 DEF AllAtHome, Home, Name
    <3>6. AtHome(p)'
      BY <1>a, <2>1, <3>1, <3>2, <3>4 DEF AtHome, InModel, InLegacy, Chosen
    <3> QED BY <3>5, <3>6 DEF VisInv, Alone
  <2> QED BY <2>2, <2>3
<1>23. ASSUME NEW p \in Proc, Create(p) PROVE VisInv'
  <2>1. /\ pc[p] = "create" /\ pc'[p] = "record" /\ at' = at /\ job' = job /\ modelLock' = modelLock
        /\ dirs' = dirs \cup {at[p]} /\ dbs' = dbs \cup {at[p]}
        /\ UNCHANGED <<rows, committed, upgraded>>
    BY <1>23, <1>b DEF Create, Go, locks, world
  <2>2. at[p] = Home /\ "base" \notin dbs
    <3>1. at[p] # NoPlace
      BY <2>1 DEF TInv, ProcOK, PlaceOf, Chosen
    <3> QED BY <1>a, <2>1, <3>1 DEF AtHome, Chosen
  <2>3. Home' = Home /\ "base" \notin dbs'
    BY <2>1, <2>2 DEF Home
  <2>4. AllAtHome'
    BY <1>a, <2>1, <2>2, <2>3 DEF AllAtHome, Home, Name
  <2>5. AtHome(p)'
    BY <1>a, <2>1, <2>2, <2>3 DEF AtHome, InModel, InLegacy, Chosen
  <2> QED BY <2>4, <2>5 DEF VisInv, Alone
<1>24. ASSUME NEW p \in Proc, NEW r, pc[p] = "use", Store(p, r), UNCHANGED upgraded \/ upgraded' = TRUE
       PROVE  AllAtHome' /\ Home' = Home /\ UNCHANGED <<dirs, dbs, modelLock, job>> /\ "base" \notin dbs
  <2>1. at[p] = Home /\ "base" \notin dbs
    <3>1. at[p] # NoPlace
      BY <1>24 DEF TInv, ProcOK, PlaceOf, Chosen
    <3> QED BY <1>a, <1>24, <3>1 DEF AtHome, Chosen
  <2>2. /\ rows' = [rows EXCEPT ![Home] = rows[Home] \cup {r}] /\ committed' = committed \cup {r}
        /\ UNCHANGED <<dirs, dbs, modelLock, job>>
    BY <1>24, <2>1 DEF Store, locks
  <2>3. /\ rows'[Home] = rows[Home] \cup {r}
        /\ \A x \in Place \ {Home} : rows'[x] = rows[x]
    BY <1>b, <2>2 DEF Home, Place, Name
  <2>4. Home' = Home
    BY <2>2 DEF Home
  <2>5. AllAtHome'
    <3>1. committed' \subseteq rows'[Home']
      BY <1>a, <2>1, <2>2, <2>3, <2>4 DEF AllAtHome
    <3>2. "latest" \in dirs => Home = "latest" /\ rows'["bare"] = rows["bare"] /\ rows'["latest"] # {}
      BY <2>3 DEF Home, Place, Name
    <3> QED BY <1>a, <2>1, <2>2, <3>1, <3>2 DEF AllAtHome
  <2> QED BY <2>1, <2>2, <2>4, <2>5
<1>25. ASSUME NEW p \in Proc, Upsert(p) PROVE VisInv'
  <2>1. pc[p] = "use" /\ UNCHANGED <<pc, at, upgraded>> /\ \E r \in tree \ rows[at[p]] : Store(p, r)
    BY <1>25 DEF Upsert
  <2>2. AllAtHome' /\ Home' = Home /\ UNCHANGED <<dirs, dbs, modelLock, job>>
    BY <1>24, <2>1
  <2>3. AtHome(p)'
    BY <1>a, <2>1, <2>2 DEF AtHome
  <2> QED BY <2>2, <2>3 DEF VisInv, Alone
<1>26. ASSUME NEW p \in Proc, AddText(p) PROVE VisInv'
  <2>1. pc[p] = "use" /\ pc'[p] = "idle" /\ at'[p] = NoPlace /\ upgraded' = TRUE /\ Store(p, clock + 1)
    BY <1>26, <1>b DEF AddText, Close, Go
  <2>2. AllAtHome' /\ Home' = Home /\ UNCHANGED <<dirs, dbs, modelLock, job>> /\ "base" \notin dbs
    BY <1>24, <2>1
  <2>3. AtHome(p)'
    BY <1>a, <2>1, <2>2 DEF AtHome, InModel, InLegacy, Chosen
  <2> QED BY <2>2, <2>3 DEF VisInv, Alone
<1>27. ASSUME NEW p \in Proc, EndPass(p) PROVE VisInv'
  <2>1. /\ pc[p] = "use" /\ pc'[p] = "idle" /\ at'[p] = NoPlace /\ job' = job /\ modelLock' = modelLock
        /\ UNCHANGED <<dirs, dbs, rows, committed>>
    BY <1>27, <1>b DEF EndPass, Close, Go, disk, locks
  <2>2. "base" \notin dbs
    BY <1>a, <2>1 DEF AtHome, Chosen
  <2>3. AllAtHome' /\ Home' = Home
    BY <1>a, <2>1, <2>2 DEF AllAtHome, Home
  <2>4. AtHome(p)'
    BY <1>a, <2>1, <2>3 DEF AtHome, InModel, InLegacy, Chosen
  <2> QED BY <2>3, <2>4 DEF VisInv, Alone
<1>28. ASSUME NEW p \in Proc, Find(p) \/ Remove(p) \/ Decline(p) PROVE FALSE
  BY <1>28, <1>a DEF Find, Remove, Decline, Go, AtHome
<1>29. CASE Edit \/ Age \/ UNCHANGED vars
  <2>1. UNCHANGED <<dirs, dbs, rows, committed, upgraded, pc, at, job, modelLock>>
    BY <1>29 DEF Edit, Age, vars, disk, locks, procs, world
  <2>2. AllAtHome' /\ Home' = Home
    BY <1>a, <2>1, DiskStays
  <2>3. \A p \in Proc : AtHome(p)'
    BY <1>a, <2>1, <2>2 DEF AtHome
  <2> QED BY <2>2, <2>3 DEF VisInv
<1> QED
  BY <1>1, <1>2, <1>3, <1>4, <1>5, <1>6, <1>7, <1>8, <1>9, <1>10, <1>11, <1>12, <1>13, <1>14, <1>15, <1>16, <1>17, <1>18, <1>19, <1>20, <1>21, <1>22, <1>23, <1>25, <1>26, <1>27, <1>28, <1>29
  DEF Next, Work, MigrateModel, MigrateLegacy, OpenStore, Use

(* For one process at a time, whatever the installation had and wherever   *)
(* the process was killed but under the model lock: once a job that        *)
(* migrates is done, a search finds every row ever stored (ModelDBDir).    *)
THEOREM RowsAreVisible == ASSUME Alone PROVE Spec => []RowsVisible
<1>1. VisInv => RowsVisible
  <2> SUFFICES ASSUME VisInv, upgraded PROVE committed \subseteq rows[Pick]
    BY DEF RowsVisible
  <2>1. "base" \notin dbs /\ AllAtHome
    BY DEF VisInv, AllAtHome
  <2> QED BY <2>1, PickIsHome DEF AllAtHome
<1>2. Init => VisInv
  BY VisInit
<1>3. TInv /\ VisInv /\ [Next]_vars => VisInv'
  BY VisStep
<1> QED BY <1>1, <1>2, <1>3, TInvHolds, PTL DEF Spec
=============================================================================
