----------------------------- MODULE HooksProofs -----------------------------
(***************************************************************************)
(* What MCHooks composes, proved for any number of processes, any limit    *)
(* and any clock: the lock of the hooks without flock, their log and its   *)
(* follower, the buffers of the sessions, and the client for embeddings.   *)
(*                                                                         *)
(* Each part has its inductive invariant (LockInv, LogInv, BufferTypeOK,   *)
(* IInv).  A step of HooksNext is a step of one part and leaves the others *)
(* as they are, so the theorems about HooksSpec follow.                    *)
(***************************************************************************)
EXTENDS MCHooks, Integers, FiniteSetTheorems, SequenceTheorems, TLAPS

-----------------------------------------------------------------------------
(* The composition: what holds of a part holds of it there. *)
LEMMA PartsStart == HooksInit => LogInit /\ BufferInit /\ LockInit /\ Init
BY DEF HooksInit

LEMMA PartsStep ==
  [HooksNext]_hooksVars =>
    [LogNext]_logVars /\ [BufferNext]_bufferVars /\ [LockNext]_lockVars /\ [Next]_vars
<1> SUFFICES ASSUME [HooksNext]_hooksVars
             PROVE  [LogNext]_logVars /\ [BufferNext]_bufferVars /\ [LockNext]_lockVars /\ [Next]_vars
  OBVIOUS
<1>1. CASE UNCHANGED hooksVars
  BY <1>1 DEF hooksVars, embedVars
<1>2. CASE HooksNext
  BY <1>2 DEF HooksNext, embedVars
<1> QED
  BY <1>1, <1>2

-----------------------------------------------------------------------------
(* The lock without flock. *)
OneAcquires == \A p, q \in Acquiring : p = q

OneHolds == \A p, q \in LockHolders : p = q

(* Only a hook that signs has a file. *)
FileInHand ==
  \A p \in Locker : locker[p].pc \notin {"stamp", "sign"} => locker[p].file = 0

(* A holder within its time has a lock of its own time, which is neither   *)
(* the temporary file nor being written.                                   *)
LockIsTheHolders ==
  \A p \in LockHolders : locker[p].stamp = "fresh" =>
    /\ names.lock # 0 /\ contents[names.lock] = "fresh" /\ names.tmp # names.lock

(* A hook that comes to a lock that is held finds it within its time and   *)
(* gets no further than to read it.                                        *)
HeldIsNotTaken ==
  \A p \in LockHolders, q \in Acquiring :
    /\ locker[p].stamp = "fresh"
    /\ locker[q].pc \in {"open", "tmp", "stamp", "link", "clean", "read"}

(* What the hook at work knows of the two names. *)
AtWork(q) ==
  /\ locker[q].pc = "stamp" => locker[q].file = names.tmp /\ names.tmp # 0
  /\ locker[q].pc = "link" => names.tmp # 0 /\ contents[names.tmp] = locker[q].stamp
  /\ locker[q].pc = "unlink" => names.lock # 0 /\ contents[names.lock] = locker[q].stamp
  /\ locker[q].pc \in {"read", "steal", "make", "sign"} => names.tmp = 0
  /\ locker[q].pc = "sign" => locker[q].file = names.lock /\ names.lock # 0

Orderly ==
  /\ OneAcquires /\ OneHolds /\ LockIsTheHolders /\ HeldIsNotTaken
  /\ \A q \in Acquiring : AtWork(q)

LockInv == LockTypeOK /\ FileInHand /\ (raced \/ Orderly)

(* There are more files than names and hooks. *)
LEMMA NewFileIsNew ==
  ASSUME NEW q \in Locker PROVE NewFile \in LockFile /\ NewFile \notin Used
<1> SUFFICES \E f \in LockFile : f \notin Used
  BY DEF NewFile
<1> DEFINE Names == {names.lock, names.tmp}
           Inhand == {locker[p].file : p \in Locker}
<1>1. IsFiniteSet(Inhand) /\ Cardinality(Inhand) <= Cardinality(Locker) /\ Cardinality(Inhand) \in Nat
  <2>1. [p \in Locker |-> locker[p].file] \in Surjection(Locker, Inhand)
    BY DEF Surjection
  <2> QED
    BY <2>1, LockerAssumption, FS_Surjection, FS_CardinalityType
<1>2. IsFiniteSet(Names) /\ Cardinality(Names) <= 2 /\ Cardinality(Names) \in Nat
  <2>1. IsFiniteSet({names.lock}) /\ Cardinality({names.lock}) = 1
    BY FS_Singleton
  <2>2. Names = {names.lock} \cup {names.tmp}
    OBVIOUS
  <2>3. /\ IsFiniteSet({names.lock} \cup {names.tmp})
        /\ Cardinality({names.lock} \cup {names.tmp})
             = IF names.tmp \in {names.lock} THEN 1 ELSE 2
    BY <2>1, FS_AddElement
  <2> QED
    BY <2>2, <2>3
<1>3. /\ IsFiniteSet(Used)
      /\ Cardinality(Used) <= Cardinality(Locker) + 2 /\ Cardinality(Used) \in Nat
  <2>1. Used = Names \cup Inhand
    BY DEF Used
  <2> HIDE DEF Names, Inhand
  <2>2. IsFiniteSet(Names \cap Inhand) /\ Cardinality(Names \cap Inhand) \in Nat
    BY <1>2, FS_Intersection, FS_CardinalityType
  <2>3. Cardinality(Locker) \in Nat
    BY LockerAssumption, FS_CardinalityType
  <2> QED
    BY <2>1, <2>2, <2>3, <1>1, <1>2, FS_Union, FS_CardinalityType
<1>4. Cardinality(LockFile) = 2 * Cardinality(Locker) + 2 /\ IsFiniteSet(LockFile)
  <2>1. Cardinality(Locker) \in Nat
    BY LockerAssumption, FS_CardinalityType
  <2> QED
    BY <2>1, FS_Interval DEF LockFile
<1>5. Cardinality(Locker) # 0
  BY LockerAssumption, FS_EmptySet
<1>6. ~(LockFile \subseteq Used)
  BY <1>3, <1>4, <1>5, LockerAssumption, FS_Subset, FS_CardinalityType
<1> QED
  BY <1>6

(* The types, and that only a hook that signs has a file. *)
LEMMA LockTypes == LockTypeOK /\ FileInHand /\ [LockNext]_lockVars => LockTypeOK' /\ FileInHand'
<1> SUFFICES ASSUME LockTypeOK, FileInHand, [LockNext]_lockVars PROVE LockTypeOK' /\ FileInHand'
  OBVIOUS
<1> USE LockerAssumption DEF LockTypeOK, FileInHand
<1> NewFile \in LockFile \/ Locker = {}
  BY NewFileIsNew
<1>1. ASSUME NEW p \in Locker, Arrive(p) PROVE LockTypeOK' /\ FileInHand'
  BY <1>1 DEF Arrive
<1>2. ASSUME NEW p \in Locker, OpenForFlock(p) PROVE LockTypeOK' /\ FileInHand'
  BY <1>2 DEF OpenForFlock, Moves, Stamp
<1>3. ASSUME NEW p \in Locker, TruncateTmp(p) \/ MakeLock(p) PROVE LockTypeOK' /\ FileInHand'
  BY <1>3 DEF TruncateTmp, MakeLock, Truncate, Stamp
<1>4. ASSUME NEW p \in Locker, SignTmp(p) \/ SignLock(p) PROVE LockTypeOK' /\ FileInHand'
  BY <1>4 DEF SignTmp, SignLock, Sign, Stamp
<1>5. ASSUME NEW p \in Locker, LinkLock(p) \/ RemoveTmp(p) \/ StealLock(p)
      PROVE LockTypeOK' /\ FileInHand'
  BY <1>5 DEF LinkLock, RemoveTmp, StealLock, Moves
<1>6. ASSUME NEW p \in Locker, ReadLock(p) \/ ReleaseLock(p) \/ LockerKilled(p)
      PROVE LockTypeOK' /\ FileInHand'
  BY <1>6 DEF ReadLock, ReleaseLock, LockerKilled, Moves, NoLocker
<1>7. ASSUME TtlPasses PROVE LockTypeOK' /\ FileInHand'
  BY <1>7 DEF TtlPasses, Stamp
<1>8. CASE UNCHANGED lockVars
  BY <1>8 DEF lockVars
<1> QED
  BY <1>1, <1>2, <1>3, <1>4, <1>5, <1>6, <1>7, <1>8 DEF LockNext, Proceeds

(* Unless the hooks overlap from now on, the one at work leaves the lock   *)
(* as it says.                                                             *)
LEMMA OrderlyStep == LockInv /\ [LockNext]_lockVars /\ ~raced' => Orderly'
<1> SUFFICES ASSUME LockInv, [LockNext]_lockVars, ~raced' PROVE Orderly'
  OBVIOUS
<1> LockTypeOK /\ LockTypeOK'
  BY LockTypes DEF LockInv
<1> USE DEF LockInv, FileInHand, Orderly, OneAcquires, OneHolds, LockIsTheHolders, HeldIsNotTaken,
            AtWork, Acquiring, LockHolders
<1>1. ASSUME NEW p \in Locker, Arrive(p) PROVE Orderly'
  <2>1. ~raced /\ Acquiring = {} /\ \A q \in LockHolders : locker[q].stamp = "fresh"
    BY <1>1 DEF Arrive, LockTypeOK
  <2>2. Acquiring' = {p} /\ LockHolders' = LockHolders /\ UNCHANGED <<names, contents>>
    BY <1>1, <2>1 DEF Arrive, LockTypeOK
  <2>3. \A q \in Locker \ {p} : locker'[q] = locker[q]
    BY <1>1 DEF Arrive, LockTypeOK
  <2>4. locker'[p].pc \in {"open", "tmp"}
    BY <1>1 DEF Arrive, LockTypeOK
  <2> QED
    BY <2>1, <2>2, <2>3, <2>4
<1>2. ASSUME NEW p \in Locker, OpenForFlock(p) PROVE Orderly'
  BY <1>2, NewFileIsNew DEF OpenForFlock, Moves, LockTypeOK, Used
<1>3. ASSUME NEW p \in Locker, TruncateTmp(p) PROVE Orderly'
  BY <1>3, NewFileIsNew DEF TruncateTmp, Truncate, LockTypeOK, Used
<1>4. ASSUME NEW p \in Locker, MakeLock(p) PROVE Orderly'
  BY <1>4, NewFileIsNew DEF MakeLock, Truncate, LockTypeOK, Used
<1>5. ASSUME NEW p \in Locker, SignTmp(p) PROVE Orderly'
  BY <1>5 DEF SignTmp, Sign, LockTypeOK
<1>6. ASSUME NEW p \in Locker, SignLock(p) PROVE Orderly'
  BY <1>6 DEF SignLock, Sign, LockTypeOK
<1>7. ASSUME NEW p \in Locker, LinkLock(p) PROVE Orderly'
  <2>1. CASE names.lock = 0 /\ names.tmp # 0
    <3>1. LockHolders = {}
      BY <1>7, <2>1 DEF LinkLock, Moves, LockTypeOK
    <3>2. locker' = [locker EXCEPT ![p].pc = "unlink"] /\ names' = [names EXCEPT !.lock = names.tmp]
      BY <1>7, <2>1 DEF LinkLock, Moves
    <3> QED
      BY <1>7, <2>1, <3>1, <3>2 DEF LinkLock, Moves, LockTypeOK
  <2>2. CASE ~(names.lock = 0 /\ names.tmp # 0)
    BY <1>7, <2>2 DEF LinkLock, Moves, LockTypeOK
  <2> QED
    BY <2>1, <2>2
<1>8. ASSUME NEW p \in Locker, RemoveTmp(p) PROVE Orderly'
  BY <1>8 DEF RemoveTmp, Moves, LockTypeOK
<1>9. ASSUME NEW p \in Locker, ReadLock(p) PROVE Orderly'
  BY <1>9 DEF ReadLock, Moves, LockTypeOK, IsStale, NoLocker
<1>10. ASSUME NEW p \in Locker, StealLock(p) PROVE Orderly'
  BY <1>10 DEF StealLock, Moves, LockTypeOK
<1>11. ASSUME NEW p \in Locker, ReleaseLock(p) PROVE Orderly'
  <2>1. LockHolders = {p} /\ LockHolders' = {} /\ Acquiring' = Acquiring
    BY <1>11 DEF ReleaseLock, LockTypeOK, NoLocker
  <2>2. \A q \in Acquiring : locker'[q] = locker[q] /\ locker[q].pc \notin {"unlink", "sign"}
    BY <1>11, <2>1 DEF ReleaseLock, LockTypeOK
  <2>3. names'.tmp = names.tmp /\ UNCHANGED contents
    BY <1>11 DEF ReleaseLock, LockTypeOK
  <2> QED
    BY <1>11, <2>1, <2>2, <2>3 DEF ReleaseLock
<1>14. ASSUME NEW p \in Locker, LockerKilled(p) PROVE Orderly'
  <2>1. Acquiring' \subseteq Acquiring /\ LockHolders' \subseteq LockHolders
    BY <1>14 DEF LockerKilled, LockTypeOK, NoLocker
  <2>2. \A q \in Acquiring' \cup LockHolders' : locker'[q] = locker[q]
    BY <1>14 DEF LockerKilled, LockTypeOK, NoLocker
  <2> QED
    BY <1>14, <2>1, <2>2 DEF LockerKilled
<1>12. ASSUME TtlPasses PROVE Orderly'
  <2>1. ~raced /\ LockHolders = {} /\ UNCHANGED names
    BY <1>12 DEF TtlPasses, LockTypeOK
  <2>2. LockHolders' = {} /\ Acquiring' = Acquiring
    BY <1>12, <2>1 DEF TtlPasses, LockTypeOK
  <2>3. \A q \in Acquiring : /\ locker'[q].pc = locker[q].pc /\ locker'[q].file = locker[q].file
                            /\ locker'[q].stamp = "old"
    BY <1>12 DEF TtlPasses, LockTypeOK
  <2>4. \A q \in Acquiring, f \in LockFile : contents[f] = locker[q].stamp => contents'[f] = "old"
    BY <1>12 DEF TtlPasses, LockTypeOK
  <2> QED
    BY <2>1, <2>2, <2>3, <2>4 DEF LockTypeOK
<1>13. CASE UNCHANGED lockVars
  BY <1>13 DEF lockVars
<1> QED
  BY <1>1, <1>2, <1>3, <1>4, <1>5, <1>6, <1>7, <1>8, <1>9, <1>10, <1>11, <1>12, <1>13, <1>14
  DEF LockNext, Proceeds

LEMMA LockInvInit == LockInit => LockInv
<1> SUFFICES ASSUME LockInit PROVE LockInv
  OBVIOUS
<1>1. LockTypeOK
  BY DEF LockInit, LockTypeOK, NoLocker, Stamp
<1>2. Acquiring = {} /\ LockHolders = {}
  BY DEF LockInit, NoLocker, Acquiring, LockHolders
<1> QED
  BY <1>1, <1>2 DEF LockInit, LockInv, FileInHand, NoLocker, Orderly, OneAcquires, OneHolds,
                    LockIsTheHolders, HeldIsNotTaken

LEMMA LockInvStep == LockInv /\ [LockNext]_lockVars => LockInv'
BY LockTypes, OrderlyStep DEF LockInv

(* The invariant of the lock holds of the composition. *)
THEOREM LockInductive == HooksSpec => []LockInv
BY LockInvInit, LockInvStep, PartsStart, PartsStep, PTL DEF HooksSpec

(* Hooks that come one at a time and hold the lock for less than its TTL   *)
(* exclude each other (acquirePostEditFallback), whatever killed hooks     *)
(* have left of the lock and of the temporary file.                        *)
THEOREM LockExcludes == HooksSpec => []OneAtATimeExcludes
<1>1. LockInv => OneAtATimeExcludes
  <2> SUFFICES ASSUME LockInv, ~raced PROVE Cardinality(LockHolders) <= 1
    BY DEF OneAtATimeExcludes
  <2>1. OneHolds
    BY DEF LockInv, Orderly
  <2>2. CASE LockHolders = {}
    BY <2>2, FS_EmptySet
  <2>3. CASE LockHolders # {}
    <3>1. PICK p : LockHolders = {p}
      BY <2>1, <2>3 DEF OneHolds
    <3>2. Cardinality({p}) = 1
      BY FS_Singleton
    <3> QED
      BY <3>1, <3>2
  <2> QED
    BY <2>2, <2>3
<1> QED
  BY <1>1, LockInductive, PTL

-----------------------------------------------------------------------------
(* The log. *)
Logging == {p \in Writer : logger[p].pc # "idle"}

(* A writer has a line from the moment it logs, and a file when it writes. *)
LineInHand ==
  \A p \in Logging :
    /\ logger[p].line \in 1..lines
    /\ logger[p].pc = "write" => logger[p].file \in 1..Len(files)

(* Who writes to a file, or will open it if it is not renamed before. *)
Heading(f) ==
  {p \in Writer : \/ logger[p].pc = "write" /\ logger[p].file = f
                  \/ logger[p].pc = "open" /\ cur = f}

(* Whoever heads for a file found it not full, failed to rename it, or     *)
(* made it.                                                                *)
RoomForAll ==
  \A f \in 1..Len(files) :
    Len(files[f]) + Cardinality(Heading(f)) <= LogMax - 1 + Cardinality(Writer) + kept[f]

(* What is at the path is the last file made. *)
CurIsLast == cur \in {0, Len(files)}

(* No line is twice in a file, or in two, and none that is still to be     *)
(* written is there already, nor to be written by two.                     *)
WrittenOnce ==
  \A f, g \in 1..Len(files) : \A i \in 1..Len(files[f]), j \in 1..Len(files[g]) :
    files[f][i] = files[g][j] => f = g /\ i = j

PendingIsNew ==
  \A f \in 1..Len(files) : \A i \in 1..Len(files[f]) :
    files[f][i] <= lines /\ \A p \in Logging : files[f][i] # logger[p].line

PendingDiffers == \A p, q \in Logging : logger[p].line = logger[q].line => p = q

LinesDistinct == WrittenOnce /\ PendingIsNew /\ PendingDiffers

(* What the follower printed is in the files up to its own, and there      *)
(* before its offset.                                                      *)
OutIsBehind ==
  /\ follower.pos <= Size(follower.file)
  /\ \A k \in 1..Len(follower.out) : \E g \in 1..follower.file : \E i \in 1..Len(files[g]) :
       /\ follower.out[k] = files[g][i]
       /\ g = follower.file => i <= follower.pos

(* A follower that opens the path again has another file still open.       *)
FollowerKnows ==
  /\ follower.step = "none" => follower.file = 0
  /\ follower.step = "reopen" => follower.file \notin {0, cur}

LogInv ==
  /\ LogTypeOK /\ LineInHand /\ CurIsLast
  /\ RoomForAll /\ LinesDistinct /\ OutIsBehind /\ FollowerKnows /\ FollowerNeverRepeats

LoggerState(n) ==
  [pc : {"idle", "rotate", "open", "write"}, line : 0..MaxLines, file : 0..n]
FollowerState(n) ==
  [step : {"none", "read", "wait", "reopen", "failed"}, file : 0..n, pos : Nat, out : Seq(1..MaxLines)]
KeptState(n) == {k \in Seq(Nat) : Len(k) = n}

LEMMA LogTypeParts ==
  LogTypeOK <=>
    /\ files \in Seq(Seq(1..MaxLines)) /\ lines \in 0..MaxLines
    /\ kept \in KeptState(Len(files))
    /\ cur \in 0..Len(files) /\ old \in 0..Len(files)
    /\ logger \in [Writer -> LoggerState(Len(files))]
    /\ follower \in FollowerState(Len(files))
BY DEF LogTypeOK, LoggerState, FollowerState, KeptState

LEMMA StatesWiden ==
  ASSUME NEW n \in Nat, NEW m \in Nat, n <= m
  PROVE LoggerState(n) \subseteq LoggerState(m) /\ FollowerState(n) \subseteq FollowerState(m)
<1>1. 0..n \subseteq 0..m
  OBVIOUS
<1> QED
  BY <1>1 DEF LoggerState, FollowerState

(* The follower changes nothing but itself.                                *)
FollowerReads == OpenHookLog \/ ReadLine \/ SeeEnd \/ StatPath \/ MaybeReopen

LEMMA FollowerAlone == FollowerReads => UNCHANGED <<files, kept, cur, old, logger, lines>>
BY DEF FollowerReads, OpenHookLog, ReadLine, SeeEnd, StatPath, MaybeReopen, Follows

(* The types and what a writer has in hand are kept by every action. *)
LEMMA LogTypes == LogTypeOK /\ LineInHand /\ CurIsLast /\ [LogNext]_logVars
                    => LogTypeOK' /\ LineInHand' /\ CurIsLast'
<1> DEFINE Good == LogTypeOK /\ LineInHand /\ CurIsLast
<1> SUFFICES ASSUME Good, [LogNext]_logVars PROVE Good'
  OBVIOUS
<1> USE LogAssumption
<1>a. /\ files \in Seq(Seq(1..MaxLines)) /\ lines \in 0..MaxLines /\ Len(files) \in Nat
      /\ cur \in 0..Len(files) /\ old \in 0..Len(files)
      /\ logger \in [Writer -> LoggerState(Len(files))]
      /\ follower \in FollowerState(Len(files)) /\ kept \in KeptState(Len(files))
  BY LogTypeParts, LenProperties
<1>1. ASSUME NEW p \in Writer, LogHookEvent(p) PROVE Good'
  BY <1>1 DEF LogHookEvent, LogTypeOK, LineInHand, CurIsLast, Logging
<1>2. ASSUME NEW p \in Writer, RotateHookLog(p) PROVE Good'
  <2>1. kept' \in KeptState(Len(files))
    <3>1. CASE kept' = kept
      BY <1>a, <3>1
    <3>2. CASE cur # 0 /\ kept' = [kept EXCEPT ![cur] = @ + 1]
      <4>1. cur \in 1..Len(kept) /\ kept \in Seq(Nat) /\ Len(kept) = Len(files)
        BY <1>a, <3>2 DEF KeptState
      <4>2. kept[cur] + 1 \in Nat
        BY <4>1, ElementOfSeq
      <4> QED
        BY <3>2, <4>1, <4>2, ExceptSeq DEF KeptState
    <3> QED
      BY <1>2, <3>1, <3>2 DEF RotateHookLog
  <2>2. /\ UNCHANGED <<files, lines, follower>> /\ cur' \in {0, cur} /\ old' \in {cur, old}
        /\ logger' = [logger EXCEPT ![p].pc = "open"] /\ logger[p].pc = "rotate"
    BY <1>2 DEF RotateHookLog
  <2>3. logger' \in [Writer -> LoggerState(Len(files))]
    BY <1>a, <2>2 DEF LoggerState
  <2>4. LogTypeOK'
    BY <1>a, <2>1, <2>2, <2>3 DEF LogTypeOK, KeptState, LoggerState, FollowerState
  <2>5. LineInHand'
    BY <1>a, <2>2 DEF LineInHand, Logging, LoggerState
  <2> QED
    BY <2>2, <2>4, <2>5 DEF CurIsLast
<1>3. ASSUME NEW p \in Writer, OpenLog(p) PROVE Good'
  <2>1. /\ files' \in Seq(Seq(1..MaxLines)) /\ Len(files') \in {Len(files), Len(files) + 1}
        /\ cur' = Len(files') /\ cur' # 0
    <3>1. CASE cur # 0
      BY <1>3, <3>1, <1>a DEF OpenLog, CurIsLast
    <3>2. CASE cur = 0
      <4>1. files' = Append(files, <<>>) /\ cur' = Len(files) + 1
        BY <1>3, <3>2 DEF OpenLog
      <4>2. <<>> \in Seq(1..MaxLines)
        BY EmptySeq
      <4>3. files' \in Seq(Seq(1..MaxLines)) /\ Len(files') = Len(files) + 1
        BY <4>1, <4>2, <1>a, AppendProperties
      <4> QED
        BY <4>1, <4>3, <1>a
    <3> QED
      BY <3>1, <3>2
  <2>2. LoggerState(Len(files)) \subseteq LoggerState(Len(files')) /\ follower' \in FollowerState(Len(files'))
    <3>1. Len(files') \in Nat /\ Len(files) <= Len(files')
      BY <2>1, <1>a
    <3> QED
      BY <3>1, <1>3, <1>a, StatesWiden DEF OpenLog
  <2>3. logger' = [logger EXCEPT ![p].pc = "write", ![p].file = cur'] /\ UNCHANGED <<old, lines>>
    BY <1>3 DEF OpenLog
  <2>4. cur' \in 0..Len(files') /\ old' \in 0..Len(files')
    BY <2>1, <2>3, <1>a
  <2>5. logger' \in [Writer -> LoggerState(Len(files'))]
    <3>1. logger \in [Writer -> LoggerState(Len(files'))]
      BY <1>a, <2>2
    <3> QED
      BY <3>1, <2>3, <2>4 DEF LoggerState
  <2>8. kept' \in KeptState(Len(files'))
    <3>1. CASE cur # 0
      BY <1>3, <1>a, <3>1 DEF OpenLog
    <3>2. CASE cur = 0
      <4>1. files' = Append(files, <<>>) /\ kept' = Append(kept, 0) /\ <<>> \in Seq(1..MaxLines)
        BY <1>3, <3>2, EmptySeq DEF OpenLog
      <4>2. Len(files') = Len(files) + 1 /\ kept' \in Seq(Nat) /\ Len(kept') = Len(kept) + 1
        BY <1>a, <4>1, AppendProperties DEF KeptState
      <4> QED
        BY <1>a, <4>2 DEF KeptState
    <3> QED
      BY <3>1, <3>2
  <2>6. LogTypeOK'
    BY <1>a, <2>1, <2>2, <2>3, <2>4, <2>5, <2>8 DEF LogTypeOK, LoggerState, FollowerState, KeptState
  <2>7. LineInHand'
    BY <1>3, <1>a, <2>1, <2>3 DEF LineInHand, Logging, OpenLog, LoggerState
  <2> QED
    BY <2>1, <2>6, <2>7 DEF CurIsLast
<1>4. ASSUME NEW p \in Writer, WriteLine(p) PROVE Good'
  <2>1. logger[p].file \in 1..Len(files) /\ logger[p].line \in 1..MaxLines
    BY <1>4, <1>a DEF WriteLine, LineInHand, Logging, LoggerState
  <2>2. Append(files[logger[p].file], logger[p].line) \in Seq(1..MaxLines)
    BY <2>1, <1>a, AppendProperties, ElementOfSeq
  <2>3. /\ files' \in Seq(Seq(1..MaxLines)) /\ Len(files') = Len(files)
    BY <1>4, <1>a, <2>1, <2>2, ExceptSeq DEF WriteLine
  <2>4. logger' = [logger EXCEPT ![p] = IdleLogger] /\ UNCHANGED <<kept, cur, old, lines, follower>>
    BY <1>4 DEF WriteLine
  <2>5. IdleLogger \in LoggerState(Len(files'))
    BY <2>3, <1>a DEF LoggerState, IdleLogger
  <2>6. LogTypeOK'
    BY <1>a, <2>3, <2>4, <2>5 DEF LogTypeOK, LoggerState, FollowerState, KeptState
  <2>7. LineInHand'
    BY <1>a, <2>3, <2>4 DEF LineInHand, Logging, LoggerState, IdleLogger
  <2> QED
    BY <2>3, <2>4, <2>6, <2>7 DEF CurIsLast
<1>5. ASSUME NEW p \in Writer, DropLine(p) PROVE Good'
  BY <1>5, <1>a DEF DropLine, IdleLogger, LogTypeOK, LineInHand, CurIsLast, Logging
<1>6. ASSUME FollowerReads PROVE Good'
  <2>1. UNCHANGED <<files, kept, cur, old, logger, lines>>
    BY <1>6, FollowerAlone
  <2>2. follower' \in FollowerState(Len(files))
    <3>1. CASE OpenHookLog
      BY <3>1, <1>a DEF OpenHookLog, Follows, FollowerState
    <3>2. CASE SeeEnd \/ StatPath
      <4>1. \E s \in {"wait", "read", "reopen"} : follower' = [follower EXCEPT !.step = s]
        BY <3>2, Zenon DEF SeeEnd, StatPath, Follows
      <4> QED
        BY <4>1, <1>a DEF FollowerState
    <3>3. CASE MaybeReopen
      <4>1. \/ cur # 0 /\ follower' = [follower EXCEPT !.step = "read", !.file = cur, !.pos = 0]
            \/ follower' = [follower EXCEPT !.step = "failed"]
        BY <3>3, Zenon DEF MaybeReopen, Follows
      <4>2. CASE cur # 0 /\ follower' = [follower EXCEPT !.step = "read", !.file = cur, !.pos = 0]
        <5>1. follower' = [step |-> "read", file |-> cur, pos |-> 0, out |-> follower.out]
          BY <4>2, <1>a DEF FollowerState
        <5>2. cur \in 0..Len(files) /\ follower.out \in Seq(1..MaxLines)
          BY <1>a DEF FollowerState
        <5> QED
          BY <5>1, <5>2 DEF FollowerState
      <4>3. CASE follower' = [follower EXCEPT !.step = "failed"]
        BY <4>3, <1>a DEF FollowerState
      <4> QED
        BY <4>1, <4>2, <4>3
    <3>4. CASE ReadLine
      <4>1. follower.file # 0 /\ follower.pos + 1 \in 1..Len(files[follower.file])
        BY <3>4, <1>a DEF ReadLine, Size, FollowerState
      <4>2. files[follower.file] \in Seq(1..MaxLines)
        BY <4>1, <1>a, ElementOfSeq DEF FollowerState
      <4>3. files[follower.file][follower.pos + 1] \in 1..MaxLines
        BY <4>1, <4>2, ElementOfSeq
      <4> DEFINE printed == Append(follower.out, files[follower.file][follower.pos + 1])
      <4>4. printed \in Seq(1..MaxLines)
        BY <4>3, <1>a, AppendProperties DEF FollowerState
      <4>5. follower' = [follower EXCEPT !.pos = follower.pos + 1, !.out = printed]
        BY <3>4 DEF ReadLine, Follows
      <4>6. follower \in FollowerState(Len(files)) /\ follower.pos + 1 \in Nat
        BY <1>a DEF FollowerState
      <4> HIDE DEF printed
      <4> QED
        BY <4>4, <4>5, <4>6 DEF FollowerState
    <3> QED
      BY <1>6, <3>1, <3>2, <3>3, <3>4 DEF FollowerReads
  <2> QED
    BY <1>a, <2>1, <2>2 DEF LogTypeOK, FollowerState, LineInHand, CurIsLast, Logging
<1>7. CASE UNCHANGED logVars
  BY <1>7 DEF logVars, LogTypeOK, LineInHand, CurIsLast, Logging
<1> QED
  BY <1>1, <1>2, <1>3, <1>4, <1>5, <1>6, <1>7 DEF LogNext, FollowerReads

(* To open the log is to find its file or to make the last one. *)
LEMMA OpenMakesTheLast ==
  ASSUME LogTypeOK, CurIsLast, NEW p \in Writer, OpenLog(p)
  PROVE  /\ cur' = Len(files') /\ cur' # 0 /\ Len(files') \in Nat
         /\ \/ cur # 0 /\ files' = files /\ cur' = cur
            \/ cur = 0 /\ Len(files') = Len(files) + 1 /\ files'[Len(files) + 1] = <<>>
         /\ \A f \in 1..Len(files) : files'[f] = files[f] /\ kept'[f] = kept[f]
<1>1. /\ files \in Seq(Seq(1..MaxLines)) /\ Len(files) \in Nat
      /\ kept \in Seq(Nat) /\ Len(kept) = Len(files)
  BY LogTypeParts, LenProperties DEF KeptState
<1>2. CASE cur # 0
  BY <1>1, <1>2 DEF OpenLog, CurIsLast
<1>3. CASE cur = 0
  <2>1. files' = Append(files, <<>>) /\ cur' = Len(files) + 1 /\ <<>> \in Seq(1..MaxLines)
    BY <1>3, EmptySeq DEF OpenLog
  <2>2. kept' = Append(kept, 0)
    BY <1>3 DEF OpenLog
  <2>3. \A f \in 1..Len(files) : kept'[f] = kept[f]
    BY <1>1, <2>2, AppendProperties
  <2> QED
    BY <1>1, <1>3, <2>1, <2>3, AppendProperties
<1> QED
  BY <1>2, <1>3

(* To write is to add the writer's line at the end of its file. *)
LEMMA WriteAddsALine ==
  ASSUME LogTypeOK, LineInHand, NEW p \in Writer, WriteLine(p)
  PROVE  LET f == logger[p].file IN
         /\ f \in 1..Len(files) /\ Len(files') = Len(files)
         /\ \A g \in 1..Len(files) \ {f} : files'[g] = files[g]
         /\ Len(files'[f]) = Len(files[f]) + 1 /\ Len(files[f]) \in Nat
         /\ \A i \in 1..Len(files[f]) : files'[f][i] = files[f][i]
         /\ files'[f][Len(files[f]) + 1] = logger[p].line
<1>1. files \in Seq(Seq(1..MaxLines)) /\ logger[p] \in LoggerState(Len(files)) /\ lines \in 0..MaxLines
  BY LogTypeParts
<1>2. logger[p].file \in 1..Len(files) /\ logger[p].line \in 1..MaxLines
  BY <1>1, LogAssumption DEF WriteLine, LineInHand, Logging, LoggerState
<1>3. files[logger[p].file] \in Seq(1..MaxLines)
  BY <1>1, <1>2, ElementOfSeq
<1> DEFINE longer == Append(files[logger[p].file], logger[p].line)
<1>4. /\ longer \in Seq(1..MaxLines) /\ Len(longer) = Len(files[logger[p].file]) + 1
      /\ \A i \in 1..Len(files[logger[p].file]) : longer[i] = files[logger[p].file][i]
      /\ longer[Len(files[logger[p].file]) + 1] = logger[p].line
  BY <1>2, <1>3, AppendProperties
<1>5. files' = [files EXCEPT ![logger[p].file] = longer]
  BY DEF WriteLine
<1>6. Len(files[logger[p].file]) \in Nat
  BY <1>3, LenProperties
<1> HIDE DEF longer
<1>7. /\ Len(files') = Len(files)
      /\ \A g \in 1..Len(files) : files'[g] = IF g = logger[p].file THEN longer ELSE files[g]
  BY <1>1, <1>2, <1>4, <1>5, ExceptSeq
<1> QED
  BY <1>2, <1>4, <1>6, <1>7

LEMMA HeadingFinite ==
  ASSUME NEW f
  PROVE  /\ IsFiniteSet(Heading(f)) /\ Cardinality(Heading(f)) \in Nat
         /\ Cardinality(Heading(f)) <= Cardinality(Writer) /\ Cardinality(Writer) \in Nat
<1>1. Heading(f) \subseteq Writer
  BY DEF Heading
<1> QED
  BY <1>1, LogAssumption, FS_Subset, FS_CardinalityType

LEMMA FilesTypes ==
  LogTypeOK => Len(files) \in Nat /\ \A f \in 1..Len(files) : Len(files[f]) \in Nat /\ kept[f] \in Nat
<1> SUFFICES ASSUME LogTypeOK, NEW f \in 1..Len(files) PROVE Len(files[f]) \in Nat /\ kept[f] \in Nat
  BY LogTypeParts, LenProperties
<1>2. kept[f] \in Nat
  <2>1. kept \in Seq(Nat) /\ Len(kept) = Len(files)
    BY LogTypeParts DEF KeptState
  <2> QED
    BY <2>1, ElementOfSeq
<1>1. files[f] \in Seq(1..MaxLines)
  BY LogTypeParts, ElementOfSeq
<1> QED
  BY <1>1, <1>2, LenProperties

(* Where nobody new heads for a file and no line comes to it, there is room. *)
LEMMA FewerHead ==
  ASSUME LogTypeOK, RoomForAll, NEW f \in 1..Len(files),
         files'[f] = files[f], kept'[f] = kept[f], Heading(f)' \subseteq Heading(f)
  PROVE  Len(files'[f]) + Cardinality(Heading(f)') <= LogMax - 1 + Cardinality(Writer) + kept'[f]
<1>1. Cardinality(Heading(f)') <= Cardinality(Heading(f)) /\ Cardinality(Heading(f)') \in Nat
  BY HeadingFinite, FS_Subset, FS_CardinalityType
<1> QED
  BY <1>1, HeadingFinite, FilesTypes, LogAssumption DEF RoomForAll

LEMMA RoomStep ==
  LogTypeOK /\ LineInHand /\ CurIsLast /\ RoomForAll /\ [LogNext]_logVars => RoomForAll'
<1> SUFFICES ASSUME LogTypeOK, LineInHand, CurIsLast, RoomForAll, [LogNext]_logVars
             PROVE  RoomForAll'
  OBVIOUS
<1> USE LogAssumption
<1>a. logger \in [Writer -> LoggerState(Len(files))] /\ cur \in 0..Len(files)
  BY LogTypeParts
<1>b. Len(files) \in Nat
  BY FilesTypes
<1>c. ASSUME NEW p \in Writer, RotateHookLog(p), kept' = kept PROVE cur' = 0
  <2>1. ASSUME cur # 0 PROVE kept # [kept EXCEPT ![cur] = @ + 1]
    <3>1. DOMAIN kept = 1..Len(files) /\ cur \in 1..Len(files) /\ kept[cur] \in Nat
      BY <1>a, <1>b, <2>1, LogTypeParts, LenProperties, FilesTypes DEF KeptState
    <3> QED
      BY <3>1
  <2> QED
    BY <1>c, <2>1 DEF RotateHookLog
<1>1. ASSUME NEW p \in Writer, LogHookEvent(p) PROVE RoomForAll'
  <2> SUFFICES ASSUME NEW f \in 1..Len(files)
               PROVE Len(files'[f]) + Cardinality(Heading(f)') <= LogMax - 1 + Cardinality(Writer) + kept'[f]
    BY <1>1 DEF RoomForAll, LogHookEvent
  <2>0. UNCHANGED <<files, kept>>
    BY <1>1 DEF LogHookEvent
  <2>1. CASE MustRotate \/ cur # f
    <3>1. Heading(f)' \subseteq Heading(f)
      BY <1>1, <1>a, <2>1 DEF LogHookEvent, Heading, LoggerState
    <3> QED
      BY <2>0, <3>1, FewerHead
  <2>2. CASE ~MustRotate /\ cur = f
    <3>1. Len(files[f]) <= LogMax - 1 /\ Len(files[f]) \in Nat /\ kept[f] \in Nat
      BY <2>2, FilesTypes DEF MustRotate, Size
    <3>2. Heading(f)' \subseteq Writer
      BY DEF Heading
    <3>3. Cardinality(Heading(f)') <= Cardinality(Writer) /\ Cardinality(Heading(f)') \in Nat
          /\ Cardinality(Writer) \in Nat
      BY <3>2, FS_Subset, FS_CardinalityType
    <3> QED
      BY <2>0, <3>1, <3>3
  <2> QED
    BY <2>1, <2>2
<1>2. ASSUME NEW p \in Writer, RotateHookLog(p), kept' = kept PROVE RoomForAll'
  <2> SUFFICES ASSUME NEW f \in 1..Len(files) PROVE Heading(f)' \subseteq Heading(f)
    BY <1>2, FewerHead DEF RoomForAll, RotateHookLog
  <2>1. cur' = 0 /\ logger' = [logger EXCEPT ![p].pc = "open"]
    BY <1>2, <1>c DEF RotateHookLog
  <2> QED
    BY <1>a, <2>1 DEF Heading, LoggerState
<1>6. ASSUME NEW p \in Writer, DropLine(p) PROVE RoomForAll'
  <2> SUFFICES ASSUME NEW f \in 1..Len(files) PROVE Heading(f)' \subseteq Heading(f)
    BY <1>6, FewerHead DEF RoomForAll, DropLine
  <2> QED
    BY <1>6, <1>a DEF DropLine, Heading, LoggerState, IdleLogger
<1>7. ASSUME NEW p \in Writer, RotateHookLog(p), kept' # kept PROVE RoomForAll'
  <2>1. /\ UNCHANGED <<files, cur>> /\ logger[p].pc = "rotate"
        /\ logger' = [logger EXCEPT ![p].pc = "open"]
        /\ kept' = [kept EXCEPT ![cur] = @ + 1]
    BY <1>7 DEF RotateHookLog
  <2> SUFFICES ASSUME NEW f \in 1..Len(files)
               PROVE Len(files'[f]) + Cardinality(Heading(f)') <= LogMax - 1 + Cardinality(Writer) + kept'[f]
    BY <2>1 DEF RoomForAll
  <2>2. DOMAIN kept = 1..Len(files)
    BY LogTypeParts, LenProperties DEF KeptState
  <2>3. CASE f # cur
    <3>1. Heading(f)' \subseteq Heading(f) /\ kept'[f] = kept[f]
      BY <1>a, <2>1, <2>2, <2>3 DEF Heading, LoggerState
    <3> QED
      BY <2>1, <3>1, FewerHead
  <2>4. CASE f = cur
    <3>1. kept'[f] = kept[f] + 1
      BY <2>1, <2>2, <2>4
    <3>2. Heading(f)' = Heading(f) \cup {p} /\ p \notin Heading(f)
      BY <1>a, <2>1, <2>4 DEF Heading, LoggerState
    <3>3. Cardinality(Heading(f)') = Cardinality(Heading(f)) + 1
      BY <3>2, HeadingFinite, FS_AddElement
    <3> QED
      BY <2>1, <3>1, <3>3, HeadingFinite, FilesTypes DEF RoomForAll
  <2> QED
    BY <2>3, <2>4
<1>3. ASSUME NEW p \in Writer, OpenLog(p) PROVE RoomForAll'
  <2> SUFFICES ASSUME NEW f \in 1..Len(files')
               PROVE Len(files'[f]) + Cardinality(Heading(f)') <= LogMax - 1 + Cardinality(Writer) + kept'[f]
    BY DEF RoomForAll
  <2>1. CASE f \in 1..Len(files)
    <3>1. Heading(f)' \subseteq Heading(f)
      <4>1. cur' = f => cur = f
        BY <1>3, <1>b, <2>1, OpenMakesTheLast
      <4>2. /\ logger[p].pc = "open" /\ logger'[p].pc = "write" /\ logger'[p].file = cur'
            /\ \A q \in Writer \ {p} : logger'[q] = logger[q]
        BY <1>3, <1>a DEF OpenLog, LoggerState
      <4> QED
        BY <4>1, <4>2 DEF Heading
    <3> QED
      BY <1>3, <2>1, <3>1, FewerHead, OpenMakesTheLast
  <2>2. CASE f \notin 1..Len(files)
    <3>1. files'[f] = <<>>
      BY <1>3, <1>b, <2>2, OpenMakesTheLast
    <3>2. Len(files'[f]) = 0 /\ kept'[f] \in Nat
      <4>1. LogTypeOK'
        BY LogTypes
      <4>2. \A g \in 1..Len(files') : kept'[g] \in Nat
        <5>1. kept' \in Seq(Nat) /\ Len(kept') = Len(files')
          BY <4>1 DEF LogTypeOK
        <5> QED
          BY <5>1, ElementOfSeq
      <4> QED
        BY <3>1, <4>2, EmptySeq
    <3>3. Heading(f)' \subseteq Writer
      BY DEF Heading
    <3>4. Cardinality(Heading(f)') <= Cardinality(Writer) /\ Cardinality(Heading(f)') \in Nat
          /\ Cardinality(Writer) \in Nat
      BY <3>3, FS_Subset, FS_CardinalityType
    <3> QED
      BY <3>2, <3>4
  <2> QED
    BY <2>1, <2>2
<1>4. ASSUME NEW p \in Writer, WriteLine(p) PROVE RoomForAll'
  <2> DEFINE n == logger[p].file
  <2>0. n \in 1..Len(files) /\ Len(files') = Len(files) /\ kept' = kept
    BY <1>4, WriteAddsALine DEF WriteLine
  <2> SUFFICES ASSUME NEW f \in 1..Len(files)
               PROVE Len(files'[f]) + Cardinality(Heading(f)') <= LogMax - 1 + Cardinality(Writer) + kept'[f]
    BY <2>0 DEF RoomForAll
  <2>1. Heading(f)' = IF f = n THEN Heading(f) \ {p} ELSE Heading(f)
    BY <1>4, <1>a DEF WriteLine, Heading, LoggerState, IdleLogger
  <2>2. CASE f # n
    <3>1. files'[f] = files[f]
      BY <1>4, <2>2, WriteAddsALine
    <3> QED
      BY <2>0, <2>1, <2>2, <3>1, FewerHead
  <2>3. CASE f = n
    <3>1. p \in Heading(f)
      BY <1>4, <2>3 DEF Heading, WriteLine
    <3>2. Cardinality(Heading(f)') = Cardinality(Heading(f)) - 1
      BY <2>1, <2>3, <3>1, HeadingFinite, FS_RemoveElement
    <3>3. Len(files'[f]) = Len(files[f]) + 1 /\ Len(files[f]) \in Nat
      BY <1>4, <2>3, WriteAddsALine
    <3> QED
      BY <2>0, <3>2, <3>3, HeadingFinite, FilesTypes DEF RoomForAll
  <2> QED
    BY <2>2, <2>3
<1>5. ASSUME FollowerReads \/ UNCHANGED logVars PROVE RoomForAll'
  <2>1. UNCHANGED <<files, kept, cur, logger>>
    BY <1>5, FollowerAlone DEF logVars
  <2> QED
    BY <2>1 DEF RoomForAll, Heading
<1> QED
  BY <1>1, <1>2, <1>3, <1>4, <1>5, <1>6, <1>7 DEF LogNext, FollowerReads

-----------------------------------------------------------------------------
(* Nothing a writer does brings a line twice into the files. *)
LEMMA LinesStep ==
  LogTypeOK /\ LineInHand /\ CurIsLast /\ LinesDistinct /\ [LogNext]_logVars => LinesDistinct'
<1> SUFFICES ASSUME LogTypeOK, LineInHand, CurIsLast, LinesDistinct, [LogNext]_logVars
             PROVE  LinesDistinct'
  OBVIOUS
<1>a. logger \in [Writer -> LoggerState(Len(files))] /\ lines \in 0..MaxLines /\ lines \in Nat
  BY LogTypeParts, LogAssumption
<1>b. Len(files) \in Nat /\ \A f \in 1..Len(files) : Len(files[f]) \in Nat
  BY FilesTypes
<1>c. \A f \in 1..Len(files) : \A i \in 1..Len(files[f]) : files[f][i] \in Nat
  <2> TAKE f \in 1..Len(files)
  <2>1. files[f] \in Seq(1..MaxLines)
    BY LogTypeParts, ElementOfSeq
  <2> QED
    BY <2>1, ElementOfSeq, LogAssumption
<1>1. ASSUME NEW p \in Writer, LogHookEvent(p) PROVE LinesDistinct'
  <2>1. /\ UNCHANGED files /\ lines' = lines + 1 /\ logger'[p].line = lines'
        /\ \A q \in Writer \ {p} : logger'[q] = logger[q]
    BY <1>1, <1>a DEF LogHookEvent
  <2>2. \A q \in Logging : logger[q].line <= lines /\ logger[q].line \in Nat
    BY <1>a DEF LineInHand
  <2>3. Logging' \subseteq Logging \cup {p} /\ p \notin Logging
    BY <1>1, <2>1 DEF Logging, LogHookEvent
  <2>4. WrittenOnce'
    BY <2>1 DEF LinesDistinct, WrittenOnce
  <2>5. PendingIsNew'
    <3> SUFFICES ASSUME NEW f \in 1..Len(files), NEW i \in 1..Len(files[f])
                 PROVE  files[f][i] <= lines' /\ \A q \in Logging' : files[f][i] # logger'[q].line
      BY <2>1 DEF PendingIsNew
    <3>1. files[f][i] \in Nat /\ files[f][i] <= lines
      BY <1>c DEF LinesDistinct, PendingIsNew
    <3>2. ASSUME NEW q \in Logging' PROVE files[f][i] # logger'[q].line
      <4>1. CASE q = p
        BY <1>a, <2>1, <3>1, <4>1
      <4>2. CASE q # p
        <5>1. q \in Logging /\ logger'[q] = logger[q]
          BY <2>1, <2>3, <4>2 DEF Logging
        <5> QED
          BY <5>1 DEF LinesDistinct, PendingIsNew
      <4> QED
        BY <4>1, <4>2
    <3> QED
      BY <1>a, <2>1, <3>1, <3>2
  <2>6. PendingDiffers'
    <3> SUFFICES ASSUME NEW q \in Logging', NEW r \in Logging', logger'[q].line = logger'[r].line
                 PROVE  q = r
      BY DEF PendingDiffers
    <3>1. \A t \in Logging' \ {p} :
            t \in Logging /\ logger'[t] = logger[t] /\ logger'[t].line # logger'[p].line
      BY <1>a, <2>1, <2>2, <2>3 DEF Logging
    <3> QED
      BY <3>1 DEF LinesDistinct, PendingDiffers
  <2> QED
    BY <2>4, <2>5, <2>6 DEF LinesDistinct
<1>2. ASSUME NEW p \in Writer, RotateHookLog(p) \/ DropLine(p) PROVE LinesDistinct'
  <2>1. /\ UNCHANGED <<files, lines>> /\ Logging' \subseteq Logging
        /\ \A q \in Logging' : logger'[q].line = logger[q].line
    <3>1. CASE RotateHookLog(p)
      BY <3>1, <1>a DEF RotateHookLog, Logging, LoggerState
    <3>2. CASE DropLine(p)
      BY <3>2, <1>a DEF DropLine, Logging, LoggerState, IdleLogger
    <3> QED
      BY <1>2, <3>1, <3>2
  <2> QED
    BY <2>1 DEF LinesDistinct, WrittenOnce, PendingIsNew, PendingDiffers
<1>3. ASSUME NEW p \in Writer, OpenLog(p) PROVE LinesDistinct'
  <2>1. /\ UNCHANGED lines /\ Logging' \subseteq Logging
        /\ \A q \in Logging' : logger'[q].line = logger[q].line
    BY <1>3, <1>a DEF OpenLog, Logging, LoggerState
  <2>2. \A f \in 1..Len(files') : \A i \in 1..Len(files'[f]) :
          f \in 1..Len(files) /\ files'[f] = files[f]
    BY <1>3, <1>b, OpenMakesTheLast, EmptySeq
  <2>3. WrittenOnce'
    BY <2>2 DEF LinesDistinct, WrittenOnce
  <2>4. PendingIsNew'
    BY <2>1, <2>2 DEF LinesDistinct, PendingIsNew
  <2>5. PendingDiffers'
    BY <2>1 DEF LinesDistinct, PendingDiffers
  <2> QED
    BY <2>3, <2>4, <2>5 DEF LinesDistinct
<1>4. ASSUME NEW p \in Writer, WriteLine(p) PROVE LinesDistinct'
  <2> DEFINE n == logger[p].file
             k == Len(files[n]) + 1
  <2>1. /\ n \in 1..Len(files) /\ Len(files') = Len(files)
        /\ \A g \in 1..Len(files) \ {n} : files'[g] = files[g]
        /\ Len(files'[n]) = k /\ \A i \in 1..k - 1 : files'[n][i] = files[n][i]
        /\ files'[n][k] = logger[p].line
    BY <1>4, WriteAddsALine, <1>b
  <2>2. /\ UNCHANGED lines /\ Logging' = Logging \ {p} /\ p \in Logging
        /\ \A q \in Logging' : logger'[q].line = logger[q].line
    BY <1>4, <1>a DEF WriteLine, Logging, IdleLogger
  <2>3. logger[p].line <= lines
    BY <2>2 DEF LineInHand
  <2>4. \A f \in 1..Len(files') : \A i \in 1..Len(files'[f]) :
          \/ f = n /\ i = k /\ files'[f][i] = logger[p].line
          \/ i \in 1..Len(files[f]) /\ files'[f][i] = files[f][i]
    BY <1>b, <2>1
  <2> HIDE DEF n, k
  <2> QED
    BY <2>1, <2>2, <2>3, <2>4 DEF LinesDistinct, WrittenOnce, PendingIsNew, PendingDiffers
<1>5. ASSUME FollowerReads \/ UNCHANGED logVars
      PROVE LinesDistinct'
  <2>1. UNCHANGED <<files, lines, logger>>
    BY <1>5, FollowerAlone DEF logVars
  <2> QED
    BY <2>1 DEF LinesDistinct, WrittenOnce, PendingIsNew, PendingDiffers, Logging
<1> QED
  BY <1>1, <1>2, <1>3, <1>4, <1>5 DEF LogNext, FollowerReads

(* A file only grows, at its end. *)
LEMMA FilesGrow ==
  LogTypeOK /\ LineInHand /\ CurIsLast /\ [LogNext]_logVars =>
    /\ Len(files) <= Len(files')
    /\ \A f \in 1..Len(files) :
         /\ Len(files[f]) <= Len(files'[f])
         /\ \A i \in 1..Len(files[f]) : files'[f][i] = files[f][i]
<1> SUFFICES ASSUME LogTypeOK, LineInHand, CurIsLast, [LogNext]_logVars
             PROVE  /\ Len(files) <= Len(files')
                    /\ \A f \in 1..Len(files) :
                         /\ Len(files[f]) <= Len(files'[f])
                         /\ \A i \in 1..Len(files[f]) : files'[f][i] = files[f][i]
  OBVIOUS
<1>a. Len(files) \in Nat /\ \A f \in 1..Len(files) : Len(files[f]) \in Nat
  BY FilesTypes
<1>1. CASE UNCHANGED files
  BY <1>1, <1>a
<1>2. ASSUME NEW p \in Writer, OpenLog(p)
      PROVE  Len(files) <= Len(files') /\ \A f \in 1..Len(files) : files'[f] = files[f]
  BY <1>2, <1>a, OpenMakesTheLast
<1>3. ASSUME NEW p \in Writer, WriteLine(p)
      PROVE  /\ Len(files) <= Len(files')
             /\ \A f \in 1..Len(files) :
                  /\ Len(files[f]) <= Len(files'[f])
                  /\ \A i \in 1..Len(files[f]) : files'[f][i] = files[f][i]
  BY <1>3, <1>a, WriteAddsALine
<1>4. \/ UNCHANGED files
      \/ \E p \in Writer : OpenLog(p) \/ WriteLine(p)
  BY FollowerAlone DEF LogNext, FollowerReads, LogHookEvent, RotateHookLog, DropLine, logVars
<1> QED
  BY <1>a, <1>1, <1>2, <1>3, <1>4

LEMMA OutStep ==
  /\ LogTypeOK /\ LineInHand /\ CurIsLast /\ LinesDistinct /\ OutIsBehind /\ FollowerKnows
  /\ FollowerNeverRepeats /\ [LogNext]_logVars
  => OutIsBehind' /\ FollowerNeverRepeats'
<1> SUFFICES ASSUME LogTypeOK, LineInHand, CurIsLast, LinesDistinct, OutIsBehind, FollowerKnows,
                    FollowerNeverRepeats, [LogNext]_logVars
             PROVE  OutIsBehind' /\ FollowerNeverRepeats'
  OBVIOUS
<1>a. Len(files) \in Nat /\ \A f \in 1..Len(files) : Len(files[f]) \in Nat
  BY FilesTypes
<1>b. /\ follower \in FollowerState(Len(files)) /\ follower.pos \in Nat
      /\ follower.file \in 0..Len(files) /\ follower.out \in Seq(1..MaxLines)
      /\ Len(follower.out) \in Nat /\ DOMAIN follower.out = 1..Len(follower.out)
  BY LogTypeParts, LenProperties DEF FollowerState
<1>1. CASE UNCHANGED follower
  <2>1. Size(follower.file) <= Size(follower.file)'
    BY <1>1, <1>a, <1>b, FilesGrow DEF Size
  <2>2. follower.pos <= Size(follower.file)'
    BY <1>a, <1>b, <1>1, FilesGrow DEF OutIsBehind, Size
  <2>3. OutIsBehind'
    <3> SUFFICES ASSUME NEW k \in 1..Len(follower.out)
                 PROVE  \E g \in 1..follower.file : \E i \in 1..Len(files'[g]) :
                          follower.out[k] = files'[g][i] /\ (g = follower.file => i <= follower.pos)
      BY <1>1, <2>2 DEF OutIsBehind
    <3>0. PICK g \in 1..follower.file : \E i \in 1..Len(files[g]) :
            follower.out[k] = files[g][i] /\ (g = follower.file => i <= follower.pos)
      BY DEF OutIsBehind
    <3>1. PICK i \in 1..Len(files[g]) :
            follower.out[k] = files[g][i] /\ (g = follower.file => i <= follower.pos)
      BY <3>0
    <3>2. g \in 1..Len(files)
      BY <1>a, <1>b
    <3>3. i \in 1..Len(files'[g]) /\ files'[g][i] = files[g][i]
      BY <1>a, <3>2, FilesGrow
    <3> QED
      BY <3>1, <3>3
  <2> QED
    BY <1>1, <2>3 DEF FollowerNeverRepeats
<1>2. CASE OpenHookLog
  <2>1. /\ follower.file = 0 /\ cur # 0 /\ UNCHANGED files
        /\ follower'.file = cur /\ follower'.pos = follower.pos /\ follower'.out = follower.out
    BY <1>2, <1>b DEF OpenHookLog, Follows, FollowerKnows, FollowerState
  <2>2. follower.pos = 0 /\ Len(follower.out) = 0
    BY <1>b, <2>1 DEF OutIsBehind, Size
  <2>3. cur \in 1..Len(files)
    BY <1>a, <2>1 DEF CurIsLast
  <2> QED
    BY <1>a, <2>1, <2>2, <2>3 DEF OutIsBehind, FollowerNeverRepeats, Size
<1>3. CASE SeeEnd \/ StatPath
  <2>1. /\ UNCHANGED files
        /\ follower'.file = follower.file /\ follower'.pos = follower.pos /\ follower'.out = follower.out
    BY <1>3, <1>b DEF SeeEnd, StatPath, Follows, FollowerState
  <2> QED
    BY <2>1 DEF OutIsBehind, FollowerNeverRepeats, Size
<1>4. CASE MaybeReopen
  <2>1. UNCHANGED files /\ follower'.out = follower.out
    BY <1>4, <1>b DEF MaybeReopen, Follows, FollowerState
  <2>2. CASE follower' = [follower EXCEPT !.step = "read", !.file = cur, !.pos = 0] /\ cur # 0
    <3>1. follower'.file = cur /\ follower'.pos = 0
      BY <1>b, <2>2 DEF FollowerState
    <3>2. cur \in 1..Len(files) /\ follower.file < cur
      BY <1>4, <1>a, <1>b, <2>2 DEF CurIsLast, FollowerKnows, MaybeReopen, Follows
    <3>3. \A k \in 1..Len(follower.out) : \E g \in 1..cur - 1 : \E i \in 1..Len(files[g]) :
            follower.out[k] = files[g][i]
      <4> TAKE k \in 1..Len(follower.out)
      <4>1. PICK g \in 1..follower.file : \E i \in 1..Len(files[g]) : follower.out[k] = files[g][i]
        BY DEF OutIsBehind
      <4>2. g \in 1..cur - 1
        BY <1>a, <1>b, <3>2
      <4> QED
        BY <4>1, <4>2
    <3>4. 0 <= Size(cur)
      BY <1>a, <3>2 DEF Size
    <3>5. \A k \in 1..Len(follower'.out) : \E g \in 1..follower'.file : \E i \in 1..Len(files'[g]) :
            /\ follower'.out[k] = files'[g][i]
            /\ g = follower'.file => i <= follower'.pos
      <4> TAKE k \in 1..Len(follower'.out)
      <4>1. PICK g \in 1..cur - 1 : \E i \in 1..Len(files[g]) : follower.out[k] = files[g][i]
        BY <2>1, <3>3
      <4>2. g \in 1..cur /\ g # cur
        BY <1>a, <3>2
      <4> QED
        BY <2>1, <3>1, <4>1, <4>2
    <3>6. OutIsBehind'
      BY <2>1, <3>1, <3>4, <3>5 DEF OutIsBehind, Size
    <3> QED
      BY <2>1, <3>6 DEF FollowerNeverRepeats
  <2>3. CASE follower' = [follower EXCEPT !.step = "failed"]
    <3>1. follower'.file = follower.file /\ follower'.pos = follower.pos
      BY <1>b, <2>3 DEF FollowerState
    <3>2. OutIsBehind'
      BY <2>1, <3>1 DEF OutIsBehind, Size
    <3> QED
      BY <2>1, <3>2 DEF FollowerNeverRepeats
  <2> QED
    BY <1>4, <2>2, <2>3 DEF MaybeReopen, Follows
<1>5. CASE ReadLine
  <2> DEFINE n == follower.file
             i == follower.pos + 1
             printed == Append(follower.out, files[n][i])
  <2>1. /\ UNCHANGED files /\ follower'.file = n
        /\ follower'.pos = i /\ follower'.out = printed
    BY <1>5, <1>b DEF ReadLine, Follows, FollowerState
  <2>2. n \in 1..Len(files) /\ i \in 1..Len(files[n])
    BY <1>5, <1>a, <1>b DEF ReadLine, Size
  <2>3. files[n] \in Seq(1..MaxLines)
    BY <2>2, LogTypeParts, ElementOfSeq
  <2>4. files[n][i] \in 1..MaxLines
    BY <2>2, <2>3, ElementOfSeq
  <2>5. /\ printed \in Seq(1..MaxLines) /\ Len(printed) = Len(follower.out) + 1
        /\ \A k \in 1..Len(follower.out) : printed[k] = follower.out[k]
        /\ printed[Len(follower.out) + 1] = files[n][i] /\ DOMAIN printed = 1..Len(printed)
    BY <1>b, <2>4, AppendProperties, LenProperties
  <2> HIDE DEF n, i, printed
  <2>6. \A k \in 1..Len(follower.out) : \E g \in 1..n : \E j \in 1..Len(files[g]) :
          follower.out[k] = files[g][j] /\ (g = n => j < i)
    <3> TAKE k \in 1..Len(follower.out)
    <3>1. PICK g \in 1..n : \E j \in 1..Len(files[g]) :
            follower.out[k] = files[g][j] /\ (g = n => j <= follower.pos)
      BY DEF OutIsBehind, n
    <3>2. \A j \in 1..Len(files[g]) : j <= follower.pos => j < i
      BY <1>b DEF i
    <3> QED
      BY <3>1, <3>2
  <2>7. \A k \in 1..Len(follower.out) : follower.out[k] # files[n][i]
    <3> TAKE k \in 1..Len(follower.out)
    <3>0. PICK g \in 1..n : \E j \in 1..Len(files[g]) :
            follower.out[k] = files[g][j] /\ (g = n => j < i)
      BY <2>6
    <3>1. PICK j \in 1..Len(files[g]) :
            follower.out[k] = files[g][j] /\ (g = n => j < i)
      BY <3>0
    <3>2. g \in 1..Len(files)
      BY <1>a, <2>2
    <3>3. ~(g = n /\ j = i)
      BY <1>a, <2>2, <3>1, <3>2
    <3> QED
      BY <2>2, <3>1, <3>2, <3>3 DEF LinesDistinct, WrittenOnce
  <2>8. FollowerNeverRepeats'
    <3>1. \A a, b \in 1..Len(follower.out) : follower.out[a] = follower.out[b] => a = b
      BY <1>b DEF FollowerNeverRepeats, IsInjective
    <3> SUFFICES ASSUME NEW a \in 1..Len(printed), NEW b \in 1..Len(printed), printed[a] = printed[b]
                 PROVE  a = b
      BY <2>1, <2>5 DEF FollowerNeverRepeats, IsInjective
    <3> QED
      BY <1>b, <2>5, <2>7, <3>1
  <2>9. OutIsBehind'
    <3>1. i <= Size(n)
      BY <1>a, <2>2 DEF Size
    <3>2. \A k \in 1..Len(printed) : \E g \in 1..n : \E j \in 1..Len(files[g]) :
            printed[k] = files[g][j] /\ (g = n => j <= i)
      <4> TAKE k \in 1..Len(printed)
      <4>1. CASE k \in 1..Len(follower.out)
        <5>0. PICK g \in 1..n : \E j \in 1..Len(files[g]) :
                follower.out[k] = files[g][j] /\ (g = n => j < i)
          BY <2>6, <4>1
        <5>1. PICK j \in 1..Len(files[g]) : follower.out[k] = files[g][j] /\ (g = n => j < i)
          BY <5>0
        <5>2. g \in 1..Len(files) /\ (g = n => j <= i)
          BY <1>a, <2>2, <5>1
        <5> QED
          BY <2>5, <4>1, <5>1, <5>2
      <4>2. CASE k = Len(follower.out) + 1
        BY <1>a, <2>2, <2>5, <4>2
      <4> QED
        BY <1>b, <2>5, <4>1, <4>2
    <3> QED
      BY <2>1, <3>1, <3>2 DEF OutIsBehind, Size
  <2> QED
    BY <2>8, <2>9
<1> QED
  <2>1. UNCHANGED follower \/ OpenHookLog \/ SeeEnd \/ StatPath \/ MaybeReopen \/ ReadLine
    BY DEF LogNext, LogHookEvent, RotateHookLog, OpenLog, WriteLine, DropLine, logVars
  <2> QED
    BY <2>1, <1>1, <1>2, <1>3, <1>4, <1>5

(* A renamed file does not come back, and a new one has a new number.      *)
LEMMA KnowsStep ==
  LogTypeOK /\ CurIsLast /\ OutIsBehind /\ FollowerKnows /\ [LogNext]_logVars => FollowerKnows'
<1> SUFFICES ASSUME LogTypeOK, CurIsLast, OutIsBehind, FollowerKnows, [LogNext]_logVars
             PROVE  FollowerKnows'
  OBVIOUS
<1>a. /\ follower \in FollowerState(Len(files)) /\ follower.file \in 0..Len(files)
      /\ follower.pos \in Nat /\ Len(files) \in Nat
  BY LogTypeParts, FilesTypes DEF FollowerState
<1>1. CASE UNCHANGED follower
  <2>1. cur' \in {0, cur, Len(files) + 1}
    BY <1>1, FollowerAlone DEF LogNext, FollowerReads, LogHookEvent, RotateHookLog, OpenLog, WriteLine,
                               DropLine, logVars
  <2> QED
    BY <1>1, <1>a, <2>1 DEF FollowerKnows
<1>2. CASE OpenHookLog \/ ReadLine \/ SeeEnd
  BY <1>2, <1>a DEF OpenHookLog, ReadLine, SeeEnd, Follows, FollowerKnows, FollowerState
<1>3. CASE StatPath
  <2>1. CASE cur # 0 /\ Size(cur) < follower.pos
    <3>1. Size(cur) \in Nat
      BY <2>1, FilesTypes, LogTypeParts DEF Size
    <3>2. follower.file \notin {0, cur}
      BY <1>a, <2>1, <3>1 DEF OutIsBehind, Size
    <3> QED
      BY <1>3, <1>a, <2>1, <3>2 DEF StatPath, Follows, FollowerKnows, FollowerState
  <2>2. CASE ~(cur # 0 /\ Size(cur) < follower.pos)
    BY <1>3, <1>a, <2>2 DEF StatPath, Follows, FollowerKnows, FollowerState
  <2> QED
    BY <2>1, <2>2
<1>4. CASE MaybeReopen
  BY <1>4, <1>a DEF MaybeReopen, Follows, FollowerKnows, FollowerState
<1>5. UNCHANGED follower \/ OpenHookLog \/ SeeEnd \/ StatPath \/ MaybeReopen \/ ReadLine
  BY DEF LogNext, LogHookEvent, RotateHookLog, OpenLog, WriteLine, DropLine, logVars
<1> QED
  BY <1>1, <1>2, <1>3, <1>4, <1>5

LEMMA LogInvInit == LogInit => LogInv
<1> SUFFICES ASSUME LogInit PROVE LogInv
  OBVIOUS
<1> USE LogAssumption DEF LogInit
<1>1. <<>> \in Seq(Seq(1..MaxLines)) /\ <<>> \in Seq(1..MaxLines) /\ <<>> \in Seq(Nat) /\ Len(<<>>) = 0
  BY EmptySeq
<1>2. LogTypeOK
  BY <1>1 DEF LogTypeOK, IdleLogger
<1>3. Logging = {}
  BY DEF Logging, IdleLogger
<1>4. LineInHand /\ CurIsLast /\ RoomForAll /\ LinesDistinct
  BY <1>1, <1>3 DEF LineInHand, CurIsLast, RoomForAll, LinesDistinct, WrittenOnce, PendingIsNew,
                    PendingDiffers
<1>5. OutIsBehind /\ FollowerKnows /\ FollowerNeverRepeats
  BY <1>1 DEF OutIsBehind, FollowerKnows, FollowerNeverRepeats, IsInjective, Size
<1> QED
  BY <1>2, <1>4, <1>5 DEF LogInv

(* The invariant of the log holds of the composition. *)
THEOREM LogInductive == HooksSpec => []LogInv
<1>1. LogInv /\ [LogNext]_logVars => LogInv'
  BY LogTypes, RoomStep, LinesStep, OutStep, KnowsStep DEF LogInv
<1> QED
  BY <1>1, LogInvInit, PartsStart, PartsStep, PTL DEF HooksSpec

(* hooks.log outgrows its limit by less than a line for each writer and    *)
(* one for each rename of it that failed, and hooks tail --follow prints   *)
(* no line twice (rotateHookLog, maybeReopen).                             *)
THEOREM LogIsSound == HooksSpec => []LogSound
<1>1. LogInv => LogSound
  <2> SUFFICES ASSUME LogInv PROVE LogSound
    OBVIOUS
  <2>1. ASSUME NEW f \in 1..Len(files) PROVE Len(files[f]) <= LogMax + Cardinality(Writer) - 1 + kept[f]
    BY HeadingFinite, FilesTypes, LogAssumption DEF LogInv, RoomForAll
  <2>2. DOMAIN files = 1..Len(files)
    BY LogTypeParts, LenProperties DEF LogInv
  <2> QED
    BY <2>1, <2>2 DEF LogSound, LogBounded, LogInv
<1> QED
  BY <1>1, LogInductive, PTL

-----------------------------------------------------------------------------
(* The buffers. *)
LEMMA BufferTypes == BufferTypeOK /\ [BufferNext]_bufferVars => BufferTypeOK'
<1> SUFFICES ASSUME BufferTypeOK, [BufferNext]_bufferVars PROVE BufferTypeOK'
  OBVIOUS
<1> USE BufferAssumption DEF BufferTypeOK, NoBuffer
<1>1. ASSUME NEW s \in Session,
             StopFires(s) \/ OpenBuffer(s) \/ AppendBuffer(s) \/ RemoveBuffer(s)
      PROVE BufferTypeOK'
  BY <1>1 DEF StopFires, OpenBuffer, AppendBuffer, RemoveBuffer, NameGoes
<1>2. ASSUME NEW s \in Session, SessionEnds(s) \/ EndKilled(s) PROVE BufferTypeOK'
  BY <1>2 DEF SessionEnds, EndKilled
<1>3. ASSUME NEW s \in Session, SessionStarts(s) PROVE BufferTypeOK'
  <2> DEFINE T == [on : BOOLEAN, todo : SUBSET Session, pick : SUBSET Session]
  <2>1. [on |-> TRUE, todo |-> Buffered, pick |-> {}] \in T /\ sweeper \in [Session -> T]
    BY DEF Buffered
  <2> HIDE DEF T
  <2>2. sweeper' \in [Session -> T]
    BY <1>3, <2>1 DEF SessionStarts
  <2>3. open' \subseteq Session /\ UNCHANGED <<now, buffer, stopper, ending>>
    BY <1>3 DEF SessionStarts
  <2> QED
    BY <2>2, <2>3 DEF T
<1>4. ASSUME NEW s \in Session, NEW b \in Session, LookAtBuffer(s, b) PROVE BufferTypeOK'
  <2> DEFINE T == [on : BOOLEAN, todo : SUBSET Session, pick : SUBSET Session]
             found == IF b \in Buffered /\ buffer[b] < now - Grace THEN {b} ELSE {}
             shorter == [sweeper[s] EXCEPT !.todo = sweeper[s].todo \ {b}]
  <2>1. shorter \in T /\ found \in SUBSET Session
    <3>1. sweeper[s] \in T /\ sweeper[s].todo \ {b} \in SUBSET Session
      OBVIOUS
    <3> QED
      BY <3>1
  <2>2. sweeper' = [sweeper EXCEPT ![s] = [shorter EXCEPT !.pick = found]]
    BY <1>4 DEF LookAtBuffer
  <2> HIDE DEF shorter, found
  <2>3. [shorter EXCEPT !.pick = found] \in T
    BY <2>1
  <2>4. sweeper' \in [Session -> T]
    BY <2>2, <2>3
  <2>5. UNCHANGED <<now, open, buffer, stopper, ending>>
    BY <1>4 DEF LookAtBuffer
  <2> QED
    BY <2>4, <2>5
<1>5. ASSUME NEW s \in Session, SkipBuffer(s) PROVE BufferTypeOK'
  BY <1>5 DEF SkipBuffer
<1>10. ASSUME NEW s \in Session, SweepDone(s) PROVE BufferTypeOK'
  BY <1>10 DEF SweepDone
<1>6. ASSUME NEW s \in Session, NEW b \in Session, MoveBuffer(s, b) PROVE BufferTypeOK'
  BY <1>6 DEF MoveBuffer, NameGoes
<1>7. CASE Reboot
  BY <1>7 DEF Reboot, IdleSweeper
<1>8. CASE TimePasses
  BY <1>8 DEF TimePasses
<1>9. CASE UNCHANGED bufferVars
  BY <1>9 DEF bufferVars
<1> QED
  BY <1>1, <1>2, <1>3, <1>4, <1>5, <1>6, <1>7, <1>8, <1>9, <1>10 DEF BufferNext, Sweeps

(* Whatever the parts do, what each keeps is of its type, and the log is   *)
(* bounded and followed without repeats.                                   *)
THEOREM HooksAreSound == HooksSpec => []HooksSound
<1>1. BufferInit => BufferTypeOK
  BY BufferAssumption DEF BufferInit, BufferTypeOK, NoBuffer, IdleSweeper
<1>2. HooksSpec => []BufferTypeOK
  BY <1>1, BufferTypes, PartsStart, PartsStep, PTL DEF HooksSpec
<1>3. LogInv /\ LockInv /\ BufferTypeOK /\ LogSound => HooksSound
  BY DEF LogInv, LockInv, HooksSound
<1> QED
  BY <1>2, <1>3, LogInductive, LockInductive, LogIsSound, PTL

-----------------------------------------------------------------------------
(* The client for embeddings.  The deferred release subtracts one from a   *)
(* client's tokens, so that the number stays natural is itself a           *)
(* consequence of the accounting: TInv takes the tokens as integers, IInv  *)
(* adds the accounting, and the types, the accounting and the cap follow.  *)

(* A caller past newOllamaClient uses the server's client, and a caller    *)
(* before it uses none.                                                    *)
UsesTheServers ==
  \A c \in Caller :
    IF pc[c] \in {"idle", "client"}
      THEN mine[c] = NoClient
      ELSE mine[c] = server /\ server \in Client

(* A caller that sleeps the backoff has attempts left. *)
RetriesLeft == \A c \in Caller : pc[c] = "backoff" => attempt[c] < MaxRetries

TInv ==
  /\ server \in Client \cup {NoClient}
  /\ sem \in [Client -> Int]
  /\ pc \in [Caller -> Step]
  /\ mine \in [Caller -> Client \cup {NoClient}]
  /\ texts \in [Caller -> Nat]
  /\ attempt \in [Caller -> 0..MaxRetries]
  /\ own \in [Caller -> BOOLEAN]
  /\ ctx \in [Caller -> Deadline]
  /\ UsesTheServers
  /\ RetriesLeft

(* acquireEmbedSlot never puts more into the channel than it holds, and    *)
(* nothing without a channel.                                              *)
WithinCapacity == \A k \in Client : sem[k] <= MaxConcurrent

NoChannelNoTokens == MaxConcurrent = 0 => \A k \in Client : sem[k] = 0

Accounting == SlotsAccounted /\ WithinCapacity /\ NoChannelNoTokens

IInv == TInv /\ Accounting

USE DEF Step, Deadline, Holding

-----------------------------------------------------------------------------
(* The part of the invariant that needs no counting. *)
LEMMA TInvStep == TInv /\ [Next]_vars => TInv'
<1> SUFFICES ASSUME TInv, [Next]_vars PROVE TInv'
  OBVIOUS
<1> USE LimitAssumption, ClientAssumption DEF TInv, UsesTheServers, RetriesLeft
<1>1. ASSUME NEW c \in Caller, NEW n \in 1..MaxTexts, NEW d \in {"none", "far", "near"}, Call(c, n, d)
      PROVE TInv'
  BY <1>1 DEF Call, Go
<1>2. ASSUME NEW c \in Caller, GetClient(c) PROVE TInv'
  <2>1. server' \in Client /\ (server # NoClient => server' = server)
    BY <1>2 DEF GetClient
  <2> QED
    BY <1>2, <2>1 DEF GetClient, Go
<1>3. ASSUME NEW c \in Caller, Attempt(c) PROVE TInv'
  BY <1>3 DEF Attempt, Go
<1>4. ASSUME NEW c \in Caller, Abandon(c) PROVE TInv'
  BY <1>4 DEF Abandon, Fail, Release, Finish
<1>5. ASSUME NEW c \in Caller, GiveUpWaiting(c) PROVE TInv'
  BY <1>5 DEF GiveUpWaiting, Finish
<1>6. ASSUME NEW c \in Caller, TimeOut(c) PROVE TInv'
  BY <1>6 DEF TimeOut, Go
<1>7. ASSUME NEW c \in Caller, Judge(c) PROVE TInv'
  <2>1. CASE Fail(c)
    <3>1. pc[c] = "judge"
      BY <1>7 DEF Judge
    <3> QED
      BY <2>1, <3>1 DEF Fail, Release, Finish
  <2>2. CASE ~Fail(c)
    BY <1>7, <2>2 DEF Judge, Go
  <2> QED
    BY <2>1, <2>2
<1>8. ASSUME NEW c \in Caller, Retry(c) PROVE TInv'
  BY <1>8 DEF Retry, Go
<1>9. ASSUME NEW c \in Caller, StopWaiting(c) PROVE TInv'
  BY <1>9 DEF StopWaiting, Fail, Release, Finish
<1>10. ASSUME NEW c \in Caller, Acquire(c) PROVE TInv'
  BY <1>10 DEF Acquire, Go
<1>11. ASSUME NEW c \in Caller, Answer(c) PROVE TInv'
  <2> USE <1>11
  <2>0. pc[c] = "request" /\ sem' \in [Client -> Int]
    BY DEF Answer, Release
  <2>1. CASE texts[c] > BatchSize
    <3>1. texts' \in [Caller -> Nat]
      BY <2>1 DEF Answer
    <3> QED
      BY <2>0, <2>1, <3>1 DEF Answer, Release, Go
  <2>2. CASE ~(texts[c] > BatchSize)
    <3>1. Finish(c) /\ server' = server
      BY <2>2 DEF Answer, Release
    <3> HIDE <1>11
    <3> QED
      BY <2>0, <3>1 DEF Finish
  <2> QED
    BY <2>1, <2>2
<1>12. ASSUME NEW c \in Caller, Error(c) PROVE TInv'
  BY <1>12 DEF Error, Fail, Release, Finish
<1>13. ASSUME NEW c \in Caller, Passes(c) PROVE TInv'
  BY <1>13 DEF Passes
<1>14. ASSUME NEW c \in Caller, Cancel(c) PROVE TInv'
  BY <1>14 DEF Cancel
<1>15. CASE UNCHANGED vars
  BY <1>15 DEF vars
<1> QED
  BY <1>1, <1>2, <1>3, <1>4, <1>5, <1>6, <1>7, <1>8, <1>9, <1>10, <1>11, <1>12, <1>13,
     <1>14, <1>15 DEF Next, Runs

-----------------------------------------------------------------------------
(* The callers are finitely many, so those that hold a slot can be counted.*)
LEMMA HoldersFinite == \A k \in Client : IsFiniteSet(Holders(k)) /\ Cardinality(Holders(k)) \in Nat
BY CallerAssumption, FS_Subset, FS_CardinalityType DEF Holders

(* A step after which every client has the same holders keeps the          *)
(* accounting if it moves no token.                                        *)
LEMMA KeepsAccounting ==
  ASSUME Accounting, UNCHANGED sem, \A k \in Client : Holders(k)' = Holders(k)
  PROVE  Accounting'
BY DEF Accounting, SlotsAccounted, WithinCapacity, NoChannelNoTokens

(* One caller more between acquire and release, one token more. *)
LEMMA TakesSlot ==
  ASSUME IInv, NEW c \in Caller, Acquire(c)
  PROVE  Accounting'
<1> USE LimitAssumption DEF IInv, TInv
<1>1. PICK s \in Client : s = mine[c] /\ pc[c] = "acquire" /\ mine' = mine
  BY DEF Acquire, Go, UsesTheServers
<1>2. ASSUME NEW k \in Client, k # s PROVE Holders(k)' = Holders(k)
  BY <1>1, <1>2 DEF Acquire, Go, Holders
<1>3. c \notin Holders(s) /\ Holders(s)' = Holders(s) \cup {c}
  BY <1>1 DEF Acquire, Go, Holders
<1>a. IsFiniteSet(Holders(s))
  BY <1>1, HoldersFinite
<1>4. Cardinality(Holders(s)') = Cardinality(Holders(s)) + 1
  <2> HIDE DEF IInv, TInv
  <2> QED
    BY ONLY <1>3, <1>a, FS_AddElement
<1>5. CASE MaxConcurrent = 0
  BY <1>1, <1>5 DEF Acquire, Accounting, SlotsAccounted, WithinCapacity, NoChannelNoTokens
<1>6. CASE MaxConcurrent > 0
  <2>1. sem[s] < MaxConcurrent /\ sem'[s] = sem[s] + 1
    BY <1>1, <1>6 DEF Acquire
  <2>2. \A k \in Client \ {s} : sem'[k] = sem[k]
    BY <1>1 DEF Acquire
  <2> QED
    BY <1>1, <1>2, <1>4, <1>6, <2>1, <2>2, HoldersFinite
    DEF Accounting, SlotsAccounted, WithinCapacity, NoChannelNoTokens
<1> QED
  BY <1>5, <1>6

(* The deferred release: one caller less, one token less, whatever becomes *)
(* of the caller.                                                          *)
LEMMA ReturnsSlot ==
  ASSUME IInv, NEW c \in Caller, pc[c] \in Holding, Release(c),
         pc'[c] \notin Holding,
         \A d \in Caller \ {c} : pc'[d] = pc[d] /\ mine'[d] = mine[d]
  PROVE  Accounting'
<1> USE LimitAssumption DEF IInv, TInv
<1>1. PICK s \in Client : s = mine[c]
  BY DEF UsesTheServers
<1>2. ASSUME NEW k \in Client, k # s PROVE Holders(k)' = Holders(k)
  BY <1>1, <1>2 DEF Holders
<1>3. c \in Holders(s) /\ Holders(s)' = Holders(s) \ {c}
  BY <1>1 DEF Holders
<1>a. IsFiniteSet(Holders(s))
  BY <1>1, HoldersFinite
<1>4. Cardinality(Holders(s)') = Cardinality(Holders(s)) - 1
  <2> HIDE DEF IInv, TInv
  <2> QED
    BY ONLY <1>3, <1>a, FS_RemoveElement
<1>5. CASE MaxConcurrent = 0
  BY <1>1, <1>5 DEF Release, Accounting, SlotsAccounted, WithinCapacity, NoChannelNoTokens
<1>6. CASE MaxConcurrent > 0
  <2>1. sem'[s] = sem[s] - 1
    BY <1>1, <1>6 DEF Release
  <2>2. \A k \in Client \ {s} : sem'[k] = sem[k]
    BY <1>1 DEF Release
  <2> QED
    BY <1>1, <1>2, <1>4, <1>6, <2>1, <2>2, HoldersFinite
    DEF Accounting, SlotsAccounted, WithinCapacity, NoChannelNoTokens
<1> QED
  BY <1>5, <1>6

(* Every step either takes one slot, returns one, or leaves holders and    *)
(* tokens alone.                                                           *)
LEMMA AccountingStep == IInv /\ [Next]_vars => Accounting'
<1> SUFFICES ASSUME IInv, [Next]_vars PROVE Accounting'
  OBVIOUS
<1> DEFINE Same == UNCHANGED sem /\ \A k \in Client : Holders(k)' = Holders(k)
<1> USE DEF IInv, TInv
<1>0. Same => Accounting'
  BY KeepsAccounting
<1>1. ASSUME NEW c \in Caller, NEW n \in 1..MaxTexts, NEW d \in {"none", "far", "near"}, Call(c, n, d)
      PROVE Accounting'
  BY <1>0, <1>1 DEF Call, Go, Holders
<1>2. ASSUME NEW c \in Caller, GetClient(c) PROVE Accounting'
  BY <1>0, <1>2 DEF GetClient, Go, Holders
<1>3. ASSUME NEW c \in Caller, Attempt(c) PROVE Accounting'
  BY <1>0, <1>3 DEF Attempt, Go, Holders
<1>4. ASSUME NEW c \in Caller, pc[c] \in Holding, Fail(c) PROVE Accounting'
  <2>1. Release(c) /\ pc'[c] \notin Holding
    BY <1>4 DEF Fail, Finish
  <2>2. \A d \in Caller \ {c} : pc'[d] = pc[d] /\ mine'[d] = mine[d]
    BY <1>4 DEF Fail, Finish
  <2> QED
    BY <1>4, <2>1, <2>2, ReturnsSlot
<1>5. ASSUME NEW c \in Caller, GiveUpWaiting(c) PROVE Accounting'
  BY <1>0, <1>5 DEF GiveUpWaiting, Finish, Holders
<1>6. ASSUME NEW c \in Caller, TimeOut(c) PROVE Accounting'
  BY <1>0, <1>6 DEF TimeOut, Go, Holders
<1>7. ASSUME NEW c \in Caller, Judge(c), ~Fail(c) PROVE Accounting'
  BY <1>0, <1>7 DEF Judge, Go, Holders
<1>8. ASSUME NEW c \in Caller, Retry(c) PROVE Accounting'
  BY <1>0, <1>8 DEF Retry, Go, Holders
<1>9. ASSUME NEW c \in Caller, Acquire(c) PROVE Accounting'
  BY <1>9, TakesSlot
<1>10. ASSUME NEW c \in Caller, Answer(c) PROVE Accounting'
  <2>1. pc[c] \in Holding /\ Release(c) /\ pc'[c] \notin Holding
    BY <1>10 DEF Answer, Finish, Go
  <2>2. \A d \in Caller \ {c} : pc'[d] = pc[d] /\ mine'[d] = mine[d]
    BY <1>10 DEF Answer, Finish, Go
  <2> QED
    BY <2>1, <2>2, ReturnsSlot
<1>11. ASSUME NEW c \in Caller, Passes(c) \/ Cancel(c) PROVE Accounting'
  BY <1>0, <1>11 DEF Passes, Cancel, Holders
<1>12. CASE UNCHANGED vars
  BY <1>0, <1>12 DEF vars, Holders
<1>13. ASSUME NEW c \in Caller, Abandon(c) \/ StopWaiting(c) \/ Error(c) PROVE Accounting'
  BY <1>4, <1>13 DEF Abandon, StopWaiting, Error
<1>14. ASSUME NEW c \in Caller, Judge(c) PROVE Accounting'
  BY <1>4, <1>7, <1>14 DEF Judge
<1> QED
  BY <1>1, <1>2, <1>3, <1>5, <1>6, <1>8, <1>9, <1>10, <1>11, <1>12, <1>13, <1>14
  DEF Next, Runs

LEMMA IInvInit == Init => IInv
<1> SUFFICES ASSUME Init PROVE IInv
  OBVIOUS
<1>1. TInv
  BY LimitAssumption DEF Init, TInv, UsesTheServers, RetriesLeft
<1>2. \A k \in Client : Holders(k) = {}
  BY DEF Init, Holders
<1>3. Accounting
  BY <1>2, LimitAssumption, FS_EmptySet
  DEF Init, Accounting, SlotsAccounted, WithinCapacity, NoChannelNoTokens
<1> QED
  BY <1>1, <1>3 DEF IInv

(* The inductive invariant. *)
THEOREM Inductive == Spec => []IInv
<1>1. IInv /\ [Next]_vars => IInv'
  BY TInvStep, AccountingStep DEF IInv
<1> QED
  BY <1>1, IInvInit, PTL DEF Spec

-----------------------------------------------------------------------------
(* The types hold in every reachable state; in particular a semaphore      *)
(* never goes below empty.                                                 *)
THEOREM TypeCorrect == Spec => []TypeOK
<1>1. IInv => TypeOK
  <2> SUFFICES ASSUME IInv PROVE TypeOK
    OBVIOUS
  <2>1. ASSUME NEW k \in Client PROVE sem[k] \in Nat
    BY HoldersFinite, LimitAssumption DEF IInv, TInv, Accounting, SlotsAccounted, NoChannelNoTokens
  <2> QED
    BY <2>1 DEF IInv, TInv, TypeOK
<1> QED
  BY <1>1, Inductive, PTL

(* Every path through a call gives back exactly the tokens it took.        *)
THEOREM SlotsAreAccounted == Spec => []SlotsAccounted
<1>1. IInv => SlotsAccounted
  BY DEF IInv, Accounting
<1> QED
  BY <1>1, Inductive, PTL

(* However many callers there are, Ollama sees at most MaxConcurrent       *)
(* requests of one server at a time.                                       *)
THEOREM CapHolds == Spec => []OneServerOneCap
<1>1. IInv => OneServerOneCap
  <2> SUFFICES ASSUME IInv, MaxConcurrent > 0 PROVE Cardinality(Requests) <= MaxConcurrent
    BY DEF OneServerOneCap
  <2>1. CASE server \in Client
    <3>1. Requests \subseteq Holders(server)
      BY DEF IInv, TInv, UsesTheServers, Requests, Holders
    <3>2. Cardinality(Requests) <= Cardinality(Holders(server)) /\ Cardinality(Requests) \in Nat
      BY <2>1, <3>1, HoldersFinite, FS_Subset, FS_CardinalityType
    <3> QED
      BY <2>1, <3>2, HoldersFinite, LimitAssumption
      DEF IInv, TInv, Accounting, SlotsAccounted, WithinCapacity
  <2>2. CASE server \notin Client
    <3>1. Requests = {}
      BY <2>2 DEF IInv, TInv, UsesTheServers, Requests
    <3> QED
      BY <3>1, FS_EmptySet, LimitAssumption
  <2> QED
    BY <2>1, <2>2
<1> QED
  BY <1>1, Inductive, PTL

(* The cap of requests holds at any time, and its tokens are all there.    *)
THEOREM CapIsKept == Spec => []CapKept
<1>1. OneServerOneCap /\ SlotsAccounted => CapKept
  BY DEF CapKept
<1> QED
  BY <1>1, CapHolds, SlotsAreAccounted, PTL

(* What is proved of the client holds of it among the hooks. *)
LEMMA HooksRunTheClient == HooksSpec => Spec
BY PartsStart, PartsStep, PTL DEF HooksSpec, Spec

(* The cap of requests and its tokens (acquireEmbedSlot) are kept when the *)
(* hooks run beside the client.                                            *)
THEOREM HooksKeepTheCap == HooksSpec => []CapKept
BY HooksRunTheClient, CapIsKept, PTL
=============================================================================
