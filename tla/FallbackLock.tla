---------------------------- MODULE FallbackLock ----------------------------
(***************************************************************************)
(* The lock of the post-edit hooks where the file system has no flock      *)
(* (internal/cli/hook_post_edit.go, acquirePostEditFallback): the file     *)
(* reindex.lock with the time of its holder, made by linking a temporary   *)
(* file whose name all hooks share, and taken over when its time is older  *)
(* than postEditStaleLockTTL or cannot be read.  Hooks come here after     *)
(* flock's own open, which makes the file if there is none.                *)
(*                                                                         *)
(* A name leads to a file, and both names may lead to one file.  What a    *)
(* file holds is nothing, a time younger than the TTL, or an older one.    *)
(***************************************************************************)
EXTENDS Integers, FiniteSets

CONSTANTS Locker,      \* hook processes
          UseFlock     \* PostEditDeps.UseFlock, TRUE in production

ASSUME LockerAssumption == IsFiniteSet(Locker) /\ UseFlock \in BOOLEAN

VARIABLES names,       \* the file at reindex.lock and at its .tmp, 0 for none
          contents,    \* what each file holds
          locker,      \* per hook: what it is doing, the file it writes, its time
          raced        \* two hooks have been at the lock at once, or one
                       \* has held it past its time

lockVars == <<names, contents, locker, raced>>

Stamp == {"empty", "fresh", "old"}
LockFile == 1..(2 * Cardinality(Locker) + 2)
NoLocker == [pc |-> "idle", file |-> 0, stamp |-> "fresh"]
Acquiring == {p \in Locker : locker[p].pc \notin {"idle", "held"}}
LockHolders == {p \in Locker : locker[p].pc = "held"}

(* Files with no name that nobody writes are forgotten. *)
Used == {names.lock, names.tmp} \cup {locker[p].file : p \in Locker}
NewFile == CHOOSE f \in LockFile : f \notin Used

LockTypeOK ==
  /\ names \in [lock : LockFile \cup {0}, tmp : LockFile \cup {0}]
  /\ contents \in [LockFile -> Stamp]
  /\ locker \in [Locker -> [pc : {"idle", "open", "tmp", "stamp", "link", "unlink", "clean",
                                  "read", "steal", "make", "sign", "held"},
                            file : LockFile \cup {0}, stamp : {"fresh", "old"}]]
  /\ raced \in BOOLEAN

LockInit ==
  /\ names = [lock |-> 0, tmp |-> 0]
  /\ contents = [f \in LockFile |-> "empty"]
  /\ locker = [p \in Locker |-> NoLocker]
  /\ raced = FALSE

Moves(p, from, to) == locker[p].pc = from /\ locker' = [locker EXCEPT ![p].pc = to]

(* os.WriteFile, first half: the file at the name is emptied or made. *)
Truncate(p, n, from, to) ==
  LET f == IF names[n] = 0 THEN NewFile ELSE names[n]
  IN /\ locker[p].pc = from
     /\ names' = [names EXCEPT ![n] = f]
     /\ contents' = [contents EXCEPT ![f] = "empty"]
     /\ locker' = [locker EXCEPT ![p].pc = to, ![p].file = f]

(* ... second half: its time goes into that file, whatever its name now. *)
Sign(p, from, to) ==
  /\ locker[p].pc = from
  /\ contents' = [contents EXCEPT ![locker[p].file] = locker[p].stamp]
  /\ locker' = [locker EXCEPT ![p].pc = to, ![p].file = 0]
  /\ UNCHANGED <<names, raced>>

-----------------------------------------------------------------------------
(* A hook comes and takes the time. *)
Arrive(p) ==
  /\ locker[p].pc = "idle"
  /\ locker' = [locker EXCEPT ![p] =
       [pc |-> IF UseFlock THEN "open" ELSE "tmp", file |-> 0, stamp |-> "fresh"]]
  /\ raced' = (raced \/ Acquiring # {} \/ \E q \in LockHolders : locker[q].stamp = "old")
  /\ UNCHANGED <<names, contents>>

(* acquirePostEditFlock opens with O_CREATE; flock is not supported. *)
OpenForFlock(p) ==
  /\ Moves(p, "open", "tmp")
  /\ names' = [names EXCEPT !.lock = IF @ = 0 THEN NewFile ELSE @]
  /\ contents' = IF names.lock = 0 THEN [contents EXCEPT ![NewFile] = "empty"] ELSE contents
  /\ UNCHANGED raced

TruncateTmp(p) == Truncate(p, "tmp", "tmp", "stamp") /\ UNCHANGED raced
SignTmp(p) == Sign(p, "stamp", "link")

(* os.Link fails if the lock is there or the temporary file is not. *)
LinkLock(p) ==
  /\ IF names.lock = 0 /\ names.tmp # 0
       THEN Moves(p, "link", "unlink") /\ names' = [names EXCEPT !.lock = names.tmp]
       ELSE Moves(p, "link", "clean") /\ UNCHANGED names
  /\ UNCHANGED <<contents, raced>>

(* os.Remove of the temporary file, by whoever wrote it. *)
RemoveTmp(p) ==
  /\ Moves(p, "unlink", "held") \/ Moves(p, "clean", "read")
  /\ names' = [names EXCEPT !.tmp = 0]
  /\ UNCHANGED <<contents, raced>>

(* Mutant: the lock is old until it is older than the TTL. *)
IsStaleInverted(stamp) == stamp # "old"

(* Mutant: a lock whose time cannot be parsed is taken for a new one. *)
IsStaleByTime(stamp) == stamp = "old"

(* The time cannot be parsed or is older than the TTL. *)
IsStale(stamp) == stamp # "fresh"

ReadLock(p) ==
  /\ locker[p].pc = "read"
  /\ IF names.lock # 0 /\ IsStale(contents[names.lock])
       THEN Moves(p, "read", "steal")
       ELSE locker' = [locker EXCEPT ![p] = NoLocker]
  /\ UNCHANGED <<names, contents, raced>>

StealLock(p) ==
  /\ Moves(p, "steal", "make")
  /\ names' = [names EXCEPT !.lock = 0]
  /\ UNCHANGED <<contents, raced>>

MakeLock(p) == Truncate(p, "lock", "make", "sign") /\ UNCHANGED raced
SignLock(p) == Sign(p, "sign", "held")

(* rel removes whatever has the name. *)
ReleaseLock(p) ==
  /\ locker[p].pc = "held"
  /\ locker' = [locker EXCEPT ![p] = NoLocker]
  /\ names' = [names EXCEPT !.lock = 0]
  /\ UNCHANGED <<contents, raced>>

LockerKilled(p) ==
  /\ locker[p].pc # "idle"
  /\ locker' = [locker EXCEPT ![p] = NoLocker]
  /\ UNCHANGED <<names, contents, raced>>

(* Five minutes go by, for the files and for the hooks. *)
TtlPasses ==
  /\ contents' = [f \in LockFile |-> IF contents[f] = "fresh" THEN "old" ELSE contents[f]]
  /\ locker' = [p \in Locker |->
       IF locker[p].pc = "idle" THEN locker[p] ELSE [locker[p] EXCEPT !.stamp = "old"]]
  /\ raced' = (raced \/ LockHolders # {})
  /\ UNCHANGED names

Proceeds(p) ==
  \/ OpenForFlock(p) \/ TruncateTmp(p) \/ SignTmp(p) \/ LinkLock(p) \/ RemoveTmp(p)
  \/ ReadLock(p) \/ StealLock(p) \/ MakeLock(p) \/ SignLock(p) \/ ReleaseLock(p)

LockNext == (\E p \in Locker : Arrive(p) \/ Proceeds(p) \/ LockerKilled(p)) \/ TtlPasses

LockFairness == WF_lockVars(TtlPasses) /\ \A p \in Locker : WF_lockVars(Proceeds(p))

-----------------------------------------------------------------------------
(* Hooks that come one at a time, and hold the lock for less than the TTL, *)
(* exclude each other, whatever killed ones have left of the lock and of   *)
(* the temporary file.                                                     *)
OneAtATimeExcludes == raced \/ Cardinality(LockHolders) <= 1

EndsItself(p) ==
  locker[p].pc = "held" \/ (locker[p].pc = "read" /\ ~(names.lock # 0 /\ IsStale(contents[names.lock])))

(* Whatever killed hooks have left, once hooks are no longer killed and    *)
(* keep coming, however they overlap, one of them gets the lock again and  *)
(* again.                                                                  *)
LockRecovers ==
  /\ []<>(Acquiring # {})
  /\ <>[][\A p \in Locker : locker[p] # NoLocker /\ locker'[p] = NoLocker => EndsItself(p)]_lockVars
  => []<>(LockHolders # {})
=============================================================================
