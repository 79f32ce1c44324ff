--------------------------- MODULE PostEditProofs ---------------------------
(***************************************************************************)
(* The post-edit pipeline, proved for any number of hooks, actors and      *)
(* files, any caps and any faults.                                         *)
(* And for any number of hooks and one actor, none of them killed and no   *)
(* file operation failing: it implements the abstract queue of             *)
(* ReindexQueue.                                                           *)
(***************************************************************************)
EXTENDS PostEdit, SequenceTheorems, TLAPS

(* A hook that has not queued its file knows it; an entry to retry has     *)
(* attempts left.                                                          *)
FileAtHand == \A h \in Hook : hpc[h] \in {"read", "write", "rename"} => hfile[h] \in File
AttemptsLeft == \A a \in Actor : \A e \in todo[a] : e.attempt < DeadletterCap

TInv == TypeOK /\ FileAtHand /\ AttemptsLeft

(* The flock is held by the hook that is between its acquisition and its   *)
(* release, and by nobody else.                                            *)
LockHeldWithin == \A h \in Hook : hpc[h] \in Holding <=> lock = h

USE DEF HookStep, ActorStep

-----------------------------------------------------------------------------
(* What is left of the queue at the cap: a queue no longer than the cap,   *)
(* made of lines of the queue.                                             *)
LEMMA LastLinesType ==
  ASSUME NEW s \in Seq(File)
  PROVE  LastLines(s) \in Seq(File) /\ Len(LastLines(s)) <= PendingCap
<1> USE PendingCapAssumption
<1>1. CASE Len(s) <= PendingCap
  BY <1>1 DEF LastLines
<1>2. CASE ~(Len(s) <= PendingCap)
  <2> DEFINE m == Len(s) - PendingCap + 1
  <2>1. m \in 1..Len(s) + 1 /\ Len(s) - m + 1 = PendingCap /\ m <= Len(s)
    BY <1>2, LenProperties
  <2>2. \A i \in m..Len(s) : s[i] \in File
    BY <2>1, ElementOfSeq
  <2>3. SubSeq(s, m, Len(s)) \in Seq(File) /\ Len(SubSeq(s, m, Len(s))) = PendingCap
    BY <2>1, <2>2, SubSeqProperties
  <2> QED
    BY <1>2, <2>3 DEF LastLines
<1> QED
  BY <1>1, <1>2

LEMMA NothingType == <<>> \in Seq(File) /\ Len(<<>>) <= PendingCap
BY EmptySeq, PendingCapAssumption

LEMMA RangeType == ASSUME NEW s \in Seq(File) PROVE Range(s) \subseteq File
BY DEF Range

-----------------------------------------------------------------------------
(* Types and what a process at a step may rely on. *)
LEMMA HookKeepsTypes ==
  ASSUME TInv, NEW h \in Hook, HookRuns(h) \/ HookDiskError(h) \/ HookDies(h)
  PROVE  TInv'
<1> USE NullAssumption, PendingCapAssumption
    DEF TInv, TypeOK, FileAtHand, AttemptsLeft, hookVars, actorVars, files, history
<1>1. CASE ReadPending(h)
  BY <1>1 DEF ReadPending, HookGo
<1>2. CASE WritePending(h)
  <2>1. hfile[h] \in File /\ hbuf[h] \in Seq(File)
    BY <1>2 DEF WritePending, HookGo
  <2>2. Append(hbuf[h], hfile[h]) \in Seq(File)
    BY <2>1
  <2>3. pendingTmp' \in Seq(File) /\ Len(pendingTmp') <= PendingCap
    BY <1>2, <2>2, LastLinesType DEF WritePending
  <2>4. Range(Append(hbuf[h], hfile[h])) \subseteq File
    BY <2>2, RangeType
  <2>5. abandoned' \subseteq File
    BY <1>2, <2>4 DEF WritePending
  <2>6. hbuf' \in [Hook -> Seq(File)]
    BY <1>2, EmptySeq DEF WritePending
  <2> QED
    BY <1>2, <2>3, <2>5, <2>6 DEF WritePending, HookGo
<1>3. CASE TryLock(h)
  BY <1>3 DEF TryLock, HookGo
<1>4. CASE CheckInflight(h)
  BY <1>4 DEF CheckInflight, HookGo
<1>5. CASE ReapOrphan(h)
  BY <1>5 DEF ReapOrphan, HookGo
<1>6. CASE CheckWindow(h)
  BY <1>6 DEF CheckWindow, HookGo
<1>7. CASE Spawn(h)
  BY <1>7 DEF Spawn, HookGo, FreePids
<1>8. CASE SpawnFails(h)
  BY <1>8 DEF SpawnFails, HookGo
<1>9. CASE Release(h)
  BY <1>9 DEF Release, HookGo
<1>10. CASE HookDiskError(h)
  <2>1. hpc' \in [Hook -> HookStep] /\ hpc'[h] \in {"idle", "lock"}
    BY <1>10 DEF HookDiskError, HookGo
  <2>2. hbuf' \in [Hook -> Seq(File)]
    BY <1>10, EmptySeq DEF HookDiskError, HookDone
  <2>3. hfile' \in [Hook -> File \cup {NoFile}]
    BY <1>10 DEF HookDiskError, HookDone
  <2>4. FileAtHand'
    BY <1>10, <2>1 DEF HookDiskError, HookDone, HookGo
  <2>5. pendingTmp' \in Seq(File) /\ Len(pendingTmp') <= PendingCap
    BY <1>10, NothingType DEF HookDiskError, TmpWithout
  <2> QED
    BY <1>10, <2>1, <2>2, <2>3, <2>4, <2>5 DEF HookDiskError
<1>11. CASE HookDies(h)
  <2>1. hpc' \in [Hook -> HookStep] /\ hpc'[h] = "idle"
    BY <1>11 DEF HookDies
  <2>2. hbuf' \in [Hook -> Seq(File)]
    BY <1>11, EmptySeq DEF HookDies, HookDone
  <2>3. pendingTmp' \in Seq(File) /\ Len(pendingTmp') <= PendingCap
    BY <1>11, NothingType DEF HookDies, TmpWithout
  <2> QED
    BY <1>11, <2>1, <2>2, <2>3 DEF HookDies, HookDone
<1>12. CASE RenamePending(h)
  <2>1. pendingTmp' = <<>> /\ pending' \in {pending, pendingTmp}
    BY <1>12 DEF RenamePending
  <2>2. hbuf' \in [Hook -> Seq(File)]
    BY <1>12, EmptySeq DEF RenamePending, HookDone
  <2> QED
    BY <1>12, <2>1, <2>2, NothingType DEF RenamePending, HookDone, HookGo
<1> QED
  BY <1>1, <1>2, <1>3, <1>4, <1>5, <1>6, <1>7, <1>8, <1>9, <1>10, <1>11, <1>12 DEF HookRuns

(* A walk leaves fewer stale files and fewer given up, and loses files     *)
(* that are stale.                                                         *)
LEMMA WalkTypes ==
  ASSUME TInv, NEW a \in Actor, NEW dropped, Walked(a, dropped) \/ WalkFailed
  PROVE  stale' \subseteq File /\ abandoned' \subseteq File /\ lost' \subseteq File
BY DEF Walked, WalkFailed, Indexed, TInv, TypeOK

LEMMA ActorKeepsTypes ==
  ASSUME TInv, NEW a \in Actor, ActorRuns(a) \/ ActorDies(a) \/ PidTaken(a)
  PROVE  TInv'
<1> USE NullAssumption, DeadletterCapAssumption
    DEF TInv, TypeOK, FileAtHand, AttemptsLeft, hookVars, actorVars, files, history
<1>1. CASE WritePid(a)
  BY <1>1 DEF WritePid, ActorGo
<1>2. CASE ActorNoDir(a)
  BY <1>2 DEF ActorNoDir, ActorGo
<1>3. CASE Wake(a)
  BY <1>3 DEF Wake, ActorGo
<1>4. CASE DrainFails(a)
  BY <1>4 DEF DrainFails, ActorGo
<1>5. CASE DrainRename(a)
  <2>1. pending' \in Seq(File) /\ Len(pending') <= PendingCap /\ draining' \in Seq(File)
    <3>1. <<>> \in Seq(File) /\ Len(<<>>) = 0
      BY EmptySeq
    <3>2. CASE pending = <<>>
      BY <1>5, <3>2 DEF DrainRename
    <3>3. CASE pending # <<>>
      <4>1. pending' = <<>> /\ draining' = pending
        BY <1>5, <3>3 DEF DrainRename
      <4> QED
        BY <3>1, <4>1, PendingCapAssumption
    <3> QED
      BY <3>2, <3>3
  <2>2. apc' \in [Actor -> ActorStep]
    BY ZenonT(60), <1>5 DEF DrainRename, ActorGo
  <2> QED
    BY <1>5, <2>1, <2>2 DEF DrainRename
<1>6. CASE DrainRead(a)
  <2>1. batch' \in [Actor -> SUBSET File]
    BY ZenonT(60), <1>6, RangeType DEF DrainRead
  <2> QED
    BY <1>6, <2>1 DEF DrainRead, ActorGo
<1>7. CASE DrainUnlink(a)
  <2>1. draining' \in Seq(File)
    <3>1. draining' \in {<<>>, draining}
      BY <1>7 DEF DrainUnlink
    <3> QED
      BY <3>1, NothingType
  <2> QED
    BY <1>7, <2>1 DEF DrainUnlink, ActorGo
<1>8. CASE IndexOk(a)
  <2>1. stale' \subseteq File /\ abandoned' \subseteq File /\ lost' \subseteq File
    BY <1>8, WalkTypes DEF IndexOk
  <2> QED
    BY <1>8, <2>1 DEF IndexOk, ActorGo
<1>9. CASE IndexFail(a)
  BY <1>9, WalkTypes DEF IndexFail, ActorGo
<1>10. CASE Bury(a)
  BY <1>10 DEF Bury, ActorGo, Entry
<1>11. CASE ReplayStart(a)
  BY <1>11 DEF ReplayStart, ActorGo, Capped, Entry
<1>12. CASE RetryOk(a)
  <2>1. PICK e \in todo[a] : RetryNext(a, e) /\ Walked(a, {e.file})
    BY <1>12 DEF RetryOk
  <2>2. stale' \subseteq File /\ abandoned' \subseteq File /\ lost' \subseteq File
    BY <2>1, WalkTypes
  <2> QED
    BY <1>12, <2>1, <2>2 DEF RetryOk, RetryNext, ActorGo
<1>13. CASE RetryFail(a)
  <2>1. PICK e \in todo[a] : /\ RetryNext(a, e)
                            /\ still' = [still EXCEPT ![a] = @ \cup {[e EXCEPT !.attempt = @ + 1]}]
    BY <1>13 DEF RetryFail
  <2>2. [e EXCEPT !.attempt = @ + 1] \in Entry
    <3>1. e \in Entry /\ e.attempt \in 1..DeadletterCap /\ e.attempt < DeadletterCap
      BY <2>1 DEF Entry
    <3>2. e.attempt + 1 \in 1..DeadletterCap
      BY <3>1
    <3> QED
      BY <3>1, <3>2 DEF Entry
  <2>3. stale' \subseteq File /\ abandoned' \subseteq File /\ lost' \subseteq File
    BY <1>13, WalkTypes DEF RetryFail
  <2>4. still' \in [Actor -> SUBSET Entry]
    BY <2>1, <2>2
  <2> QED
    BY <2>1, <2>3, <2>4 DEF RetryNext, ActorGo
<1>14. CASE Reread(a)
  BY ZenonT(60), <1>14 DEF Reread, ActorGo
<1>15. CASE Rewrite(a)
  BY <1>15 DEF Rewrite, ActorGo, FilesOf, Entry, Capped
<1>16. CASE Exit(a)
  BY <1>16 DEF Exit, ActorGo, Forget
<1>17. CASE ActorDies(a)
  BY <1>17 DEF ActorDies, Forget, Running
<1>18. CASE PidTaken(a)
  BY <1>18 DEF PidTaken, ActorGo
<1> QED
  BY <1>1, <1>2, <1>3, <1>4, <1>5, <1>6, <1>7, <1>8, <1>9,
     <1>10, <1>11, <1>12, <1>13, <1>14, <1>15, <1>16, <1>17, <1>18 DEF ActorRuns

LEMMA TypesInductive == Spec => []TInv
<1>1. Init => TInv
  <2> SUFFICES ASSUME Init PROVE TInv
    OBVIOUS
  <2>1. draining \in Seq(File) /\ hbuf \in [Hook -> Seq(File)]
    BY EmptySeq DEF Init
  <2>2. /\ pending \in Seq(File) /\ Len(pending) <= PendingCap
        /\ pendingTmp \in Seq(File) /\ Len(pendingTmp) <= PendingCap
    BY NothingType DEF Init
  <2>3. FileAtHand /\ AttemptsLeft
    BY DEF Init, FileAtHand, AttemptsLeft
  <2> QED
    BY <2>1, <2>2, <2>3 DEF Init, TInv, TypeOK
<1>2. TInv /\ [Next]_vars => TInv'
  <2> SUFFICES ASSUME TInv, [Next]_vars PROVE TInv'
    OBVIOUS
  <2>1. ASSUME NEW h \in Hook, NEW f \in File, Fire(h, f) PROVE TInv'
    BY <2>1 DEF Fire, HookGo, TInv, TypeOK, FileAtHand, AttemptsLeft, files, history
  <2>2. ASSUME NEW h \in Hook, HookRuns(h) \/ HookDiskError(h) \/ HookDies(h) PROVE TInv'
    BY <2>2, HookKeepsTypes
  <2>3. ASSUME NEW a \in Actor, ActorRuns(a) \/ ActorDies(a) \/ PidTaken(a) PROVE TInv'
    BY <2>3, ActorKeepsTypes
  <2>4. CASE WindowElapses \/ UNCHANGED vars
    BY <2>4 DEF WindowElapses, vars, files, hookVars, actorVars, history,
                TInv, TypeOK, FileAtHand, AttemptsLeft
  <2> QED
    BY <2>1, <2>2, <2>3, <2>4 DEF Next
<1> QED
  BY <1>1, <1>2, PTL DEF Spec

(* The types hold in every reachable state: the queue never exceeds its    *)
(* cap, and no dead letter counts more attempts than the cap.              *)
THEOREM TypeCorrect == Spec => []TypeOK
<1>1. TInv => TypeOK
  BY DEF TInv
<1> QED
  BY <1>1, TypesInductive, PTL

-----------------------------------------------------------------------------
(* Only taking and releasing the lock, and the death of its holder, move   *)
(* it; each of them moves the hook in or out of the guarded steps.         *)
LEMMA LockInductive == Spec => []LockHeldWithin
<1> USE NullAssumption DEF LockHeldWithin, Holding
<1>1. Init => LockHeldWithin
  BY DEF Init
<1>2. TInv /\ LockHeldWithin /\ [Next]_vars => LockHeldWithin'
  <2> SUFFICES ASSUME TInv, LockHeldWithin, [Next]_vars PROVE LockHeldWithin'
    OBVIOUS
  <2> USE DEF TInv, TypeOK
  <2>1. ASSUME NEW h \in Hook, NEW f \in File, Fire(h, f) PROVE LockHeldWithin'
    BY <2>1 DEF Fire, HookGo
  <2>2. ASSUME NEW h \in Hook, HookRuns(h) PROVE LockHeldWithin'
    BY <2>2 DEF HookRuns, ReadPending, WritePending, RenamePending, TryLock, CheckInflight,
                ReapOrphan, CheckWindow, Spawn, SpawnFails, Release, HookGo
  <2>3. ASSUME NEW h \in Hook, HookDiskError(h) \/ HookDies(h) PROVE LockHeldWithin'
    BY <2>3 DEF HookDiskError, HookDies, HookGo
  <2>4. CASE UNCHANGED hookVars
    BY <2>4 DEF hookVars
  <2>5. ASSUME NEW a \in Actor, ActorRuns(a) \/ ActorDies(a) \/ PidTaken(a) PROVE UNCHANGED hookVars
    BY <2>5 DEF ActorRuns, ActorDies, PidTaken, WritePid, ActorNoDir, Wake, DrainFails, DrainRename,
                DrainRead, DrainUnlink, IndexOk, IndexFail, Bury, ReplayStart, RetryOk, RetryFail,
                RetryNext, Reread, Rewrite, Exit
  <2>6. CASE WindowElapses \/ UNCHANGED vars
    BY <2>6 DEF WindowElapses, vars, hookVars
  <2> QED
    BY <2>1, <2>2, <2>3, <2>4, <2>5, <2>6 DEF Next
<1> QED
  BY <1>1, <1>2, TypesInductive, PTL DEF Spec

(* Among any number of hooks, whichever of them are killed, at most one    *)
(* decides whether to spawn an actor.                                      *)
THEOREM OneHookDecides == Spec => []OneDecider
<1>1. LockHeldWithin => OneDecider
  BY DEF LockHeldWithin, OneDecider
<1> QED
  BY <1>1, LockInductive, PTL

-----------------------------------------------------------------------------
(* The pid file is written by an actor that leaves its first step with it, *)
(* and a pid is handed out only when the pid file does not name it.        *)
THEOREM PidFileNamesARun == Spec => []PidNamesARun
<1> USE NullAssumption DEF PidNamesARun
<1>1. Init => PidNamesARun
  BY DEF Init
<1>2. TInv /\ PidNamesARun /\ [Next]_vars => PidNamesARun'
  <2> SUFFICES ASSUME TInv, PidNamesARun, [Next]_vars PROVE PidNamesARun'
    OBVIOUS
  <2> USE DEF TInv, TypeOK
  <2>1. ASSUME NEW h \in Hook, NEW f \in File, Fire(h, f) PROVE PidNamesARun'
    BY <2>1 DEF Fire, files
  <2>2. ASSUME NEW h \in Hook, HookRuns(h) \/ HookDiskError(h) \/ HookDies(h) PROVE PidNamesARun'
    BY <2>2 DEF HookRuns, ReadPending, WritePending, RenamePending, TryLock, CheckInflight, ReapOrphan,
                CheckWindow, Spawn, FreePids, SpawnFails, Release, HookDiskError, HookDies, HookGo,
                files, actorVars
  <2>3. ASSUME NEW a \in Actor, ActorRuns(a) PROVE PidNamesARun'
    <3>1. CASE WritePid(a) \/ Exit(a)
      BY <3>1 DEF WritePid, Exit, ActorGo
    <3>2. CASE ~WritePid(a) /\ ~Exit(a)
      <4>1. inflight' = inflight
        BY <2>3, <3>2 DEF ActorRuns, ActorNoDir, Wake, DrainFails, DrainRename, DrainRead, DrainUnlink,
                          IndexOk, IndexFail, Bury, ReplayStart, RetryOk, RetryFail, RetryNext,
                          Reread, Rewrite, files
      <4>2. apc'[a] # "spawned" /\ \A b \in Actor : b # a => apc'[b] = apc[b]
        BY <2>3, <3>2 DEF ActorRuns, ActorNoDir, Wake, DrainFails, DrainRename, DrainRead, DrainUnlink,
                          IndexOk, IndexFail, Bury, ReplayStart, RetryOk, RetryFail, RetryNext,
                          Reread, Rewrite, ActorGo
      <4> QED
        BY <4>1, <4>2
    <3> QED
      BY <3>1, <3>2
  <2>4. ASSUME NEW a \in Actor, ActorDies(a) \/ PidTaken(a) PROVE PidNamesARun'
    BY <2>4 DEF ActorDies, PidTaken, ActorGo, files
  <2>5. CASE WindowElapses \/ UNCHANGED vars
    BY <2>5 DEF WindowElapses, vars, files, actorVars
  <2> QED
    BY <2>1, <2>2, <2>3, <2>4, <2>5 DEF Next
<1> QED
  BY <1>1, <1>2, TypesInductive, PTL DEF Spec

(* Whatever was killed before: a hook decides alone, and the pid it finds  *)
(* is of an actor that has begun.                                          *)
THEOREM DecisionsAreSound == Spec => []DecisionIsSound
<1>1. OneDecider /\ PidNamesARun => DecisionIsSound
  BY DEF DecisionIsSound
<1> QED
  BY <1>1, OneHookDecides, PidFileNamesARun, PTL

-----------------------------------------------------------------------------
(* The refinement of ReindexQueue.                                         *)

(* Any number of hooks and one actor, none of which is killed, and files   *)
(* that can be read and written.                                           *)
OneActor ==
  /\ \A a, b \in Actor : a = b
  /\ Faults \cap {"crash", "disk"} = {}

Reading == {hfile[h] : h \in {x \in Hook : hpc[x] = "read"}}
InHand == {hfile[h] : h \in {x \in Hook : hpc[x] \in {"read", "write", "rename"}}}
InBatch == UNION {batch[a] : a \in Actor}

(* A file of which no entry is needed, or which a hook is going to add.    *)
Excused(f) == f \notin stale \/ f \in abandoned \/ f \in lost \/ f \in Reading

(* A file that is excused or waits, for a hook or for the next pass.       *)
Waiting(f) == Excused(f) \/ f \in Range(pending) \/ f \in InHand

(* A hook about to replace the queue has every line that matters: what is  *)
(* in the queue is in its lines, its own file is in the temporary, and if  *)
(* another is about to do the same its lines are in the history.           *)
QueueSeen ==
  \A h \in Hook : hpc[h] \in Window => \A f \in Range(pending) : f \in Lines(h) \/ Excused(f)
OverlapsKnown ==
  \A g, h \in Hook :
    g # h /\ hpc[g] \in Window /\ hpc[h] \in Window => \A f \in Lines(h) : Excused(f)
TmpSeen ==
  \A h \in Hook : hpc[h] = "rename" => hfile[h] \in Range(pendingTmp) \/ Excused(hfile[h])
TmpIsOurs == pendingTmp # <<>> => \E h \in Hook : hpc[h] = "rename"

HookInv == QueueSeen /\ OverlapsKnown /\ TmpSeen /\ TmpIsOurs

(* The drained file and the batch are only there between their steps.      *)
DrainInv ==
  \A a \in Actor :
    /\ apc[a] \notin {"read", "unlink"} => draining = <<>>
    /\ apc[a] = "unlink" => Range(draining) \subseteq batch[a]
    /\ apc[a] \notin {"unlink", "index", "bury"} => batch[a] = {}

(* What was edited during a walk is waiting.                               *)
LateInv ==
  \A a \in Actor :
    /\ apc[a] \notin Walking => late[a] = {}
    /\ \A f \in late[a] : Waiting(f)

(* A dead letter read before the drain that is neither at the cap nor yet  *)
(* to be retried will be written back, or needs nothing.                   *)
Settled(a, e) ==
  \/ e.attempt >= DeadletterCap \/ e \in todo[a] \/ e.file \in FilesOf(still[a])
  \/ Waiting(e.file)

RetryInv ==
  \A a \in Actor :
    /\ apc[a] \in {"retry", "reread", "rewrite"} => \A e \in snap[a] : Settled(a, e)
    /\ apc[a] \in {"reread", "rewrite"} => todo[a] = {}
    /\ apc[a] = "rewrite" => FilesOf(deadletter) \subseteq FilesOf(still[a]) \cup FilesOf(snap[a])

QInv == HookInv /\ DrainInv /\ LateInv /\ RetryInv

-----------------------------------------------------------------------------
LEMMA OwedParts ==
  /\ Owed = Range(pending) \cup Range(draining) \cup FilesOf(deadletter) \cup InHand \cup InBatch
  /\ Owed' = Range(pending') \cup Range(draining') \cup FilesOf(deadletter') \cup InHand' \cup InBatch'
BY DEF Owed, InHand, InBatch

LEMMA FilesOwed == ASSUME TInv' PROVE Owed' \subseteq File
<1>1. Range(pending') \subseteq File /\ Range(draining') \subseteq File
  BY RangeType DEF TInv, TypeOK
<1>2. FilesOf(deadletter') \subseteq File
  BY DEF TInv, TypeOK, FilesOf, Entry
<1>3. InHand' \subseteq File
  BY DEF TInv, FileAtHand, InHand
<1>4. InBatch' \subseteq File
  BY DEF TInv, TypeOK, InBatch
<1> QED
  BY <1>1, <1>2, <1>3, <1>4 DEF Owed, InHand, InBatch

LEMMA EmptyRange == Range(<<>>) = {}
BY DEF Range

(* The range of a queue that a line is added to. *)
LEMMA AppendRange ==
  ASSUME NEW s \in Seq(File), NEW f \in File
  PROVE  Range(Append(s, f)) = Range(s) \cup {f}
<1>1. DOMAIN Append(s, f) = 1..Len(s) + 1 /\ Len(s) \in Nat /\ DOMAIN s = 1..Len(s)
  BY AppendProperties, LenProperties
<1>2. \A i \in 1..Len(s) : Append(s, f)[i] = s[i]
  BY AppendProperties
<1>3. Append(s, f)[Len(s) + 1] = f
  BY AppendProperties
<1> QED
  BY <1>1, <1>2, <1>3 DEF Range

(* What the cap leaves of a queue is part of it.                           *)
LEMMA LastLinesPart ==
  ASSUME NEW s \in Seq(File)
  PROVE  Range(LastLines(s)) \subseteq Range(s)
<1> USE PendingCapAssumption
<1>1. CASE Len(s) <= PendingCap
  BY <1>1 DEF LastLines
<1>2. CASE ~(Len(s) <= PendingCap)
  <2> DEFINE m == Len(s) - PendingCap + 1
  <2>1. m \in 1..Len(s) + 1 /\ Len(s) - m + 1 = PendingCap /\ m <= Len(s) /\ DOMAIN s = 1..Len(s)
    BY <1>2, LenProperties
  <2>2. \A i \in m..Len(s) : s[i] \in File
    BY <2>1, ElementOfSeq
  <2>3. /\ SubSeq(s, m, Len(s)) \in Seq(File) /\ Len(SubSeq(s, m, Len(s))) = PendingCap
        /\ \A i \in 1..PendingCap : SubSeq(s, m, Len(s))[i] = s[m + i - 1]
    BY <2>1, <2>2, SubSeqProperties
  <2>4. \A i \in 1..PendingCap : m + i - 1 \in 1..Len(s)
    BY <2>1
  <2>5. DOMAIN SubSeq(s, m, Len(s)) = 1..PendingCap
    BY <2>3, LenProperties
  <2> HIDE DEF m
  <2>6. LastLines(s) = SubSeq(s, m, Len(s))
    BY <1>2 DEF LastLines, m
  <2> QED
    BY <2>1, <2>3, <2>4, <2>5, <2>6 DEF Range
<1> QED
  BY <1>1, <1>2

(* A step is work of the abstract queue if what leaves the lists waits or  *)
(* is excused.                                                             *)
LEMMA IsWork ==
  ASSUME TInv', stale' \subseteq stale,
         (abandoned \cup lost) \cap stale' \subseteq abandoned' \cup lost',
         \A g \in Owed \ Owed' : Waiting(g)'
  PROVE  Queue!Work
<1>1. Owed' \subseteq File
  BY FilesOwed
<1>2. abandoned' \subseteq File /\ lost' \subseteq File
  BY DEF TInv, TypeOK
<1>3. Reading' \subseteq InHand'
  BY DEF Reading, InHand
<1>4. Range(pending') \subseteq Owed' /\ InHand' \subseteq Owed'
  BY OwedParts
<1>5. (Owed \ Owed') \cap stale' \subseteq abandoned' \cup lost'
  BY <1>3, <1>4 DEF Waiting, Excused
<1> QED
  BY <1>1, <1>2, <1>5 DEF Queue!Work

(* What a step outside of the hooks keeps: what hooks rely on.             *)
LEMMA HooksKeep ==
  ASSUME HookInv, UNCHANGED <<hpc, hfile, hbuf, pendingTmp>>,
         Range(pending') \subseteq Range(pending),
         \A f : Excused(f) => Excused(f)'
  PROVE  HookInv'
<1>1. \A h : Lines(h)' = Lines(h)
  BY DEF Lines
<1>2. QueueSeen'
  BY <1>1 DEF HookInv, QueueSeen
<1>3. OverlapsKnown'
  BY <1>1 DEF HookInv, OverlapsKnown
<1>4. TmpSeen' /\ TmpIsOurs'
  BY DEF HookInv, TmpSeen, TmpIsOurs
<1> QED
  BY <1>2, <1>3, <1>4 DEF HookInv

(* ... and what a step outside of the actor keeps.                         *)
LEMMA ActorKeeps ==
  ASSUME DrainInv, LateInv, RetryInv, UNCHANGED <<draining, deadletter, apc, snap, batch, todo, still>>,
         \A g : Waiting(g) => Waiting(g)',
         \A a \in Actor : /\ apc[a] \notin Walking => late'[a] = late[a]
                          /\ \A g \in late'[a] : g \in late[a] \/ Waiting(g)'
  PROVE  DrainInv' /\ LateInv' /\ RetryInv'
<1>1. DrainInv'
  BY DEF DrainInv
<1>2. LateInv'
  BY DEF LateInv
<1>3. RetryInv'
  <2>1. ASSUME NEW a \in Actor, NEW e, Settled(a, e) PROVE Settled(a, e)'
    BY <2>1 DEF Settled
  <2> QED
    BY <2>1 DEF RetryInv
<1> QED
  BY <1>1, <1>2, <1>3

-----------------------------------------------------------------------------
(* An edit. *)
LEMMA FireQueued ==
  ASSUME TInv, QInv, NEW h \in Hook, NEW f \in File, Fire(h, f)
  PROVE  QInv' /\ Queue!Edit(f)
<1>1. /\ UNCHANGED <<pending, pendingTmp, draining, deadletter, hbuf, apc, snap, batch, todo, still>>
      /\ stale' = stale \cup {f} /\ abandoned' = abandoned \ {f} /\ lost' = lost \ {f}
  BY DEF Fire, files
<1>2. hpc[h] = "idle" /\ hpc'[h] = "read" /\ hfile'[h] = f
  BY DEF Fire, HookGo, TInv, TypeOK
<1>3. \A g \in Hook : g # h => hpc'[g] = hpc[g] /\ hfile'[g] = hfile[g]
  BY DEF Fire, HookGo, TInv, TypeOK
<1>4. Reading' = Reading \cup {f} /\ InHand' = InHand \cup {f}
  BY <1>2, <1>3 DEF Reading, InHand
<1>5. ASSUME NEW g, Excused(g) PROVE Excused(g)'
  BY <1>1, <1>4, <1>5 DEF Excused
<1>6. ASSUME NEW g, Waiting(g) PROVE Waiting(g)'
  BY <1>1, <1>4, <1>5, <1>6 DEF Waiting
<1>7. HookInv'
  <2>1. \A g \in Hook : hpc'[g] \in Window => g # h /\ hpc[g] \in Window /\ Lines(g)' = Lines(g)
    BY <1>1, <1>2, <1>3 DEF Window, Lines
  <2>2. QueueSeen'
    BY <1>1, <1>5, <2>1 DEF QInv, HookInv, QueueSeen
  <2>3. OverlapsKnown'
    BY <1>5, <2>1 DEF QInv, HookInv, OverlapsKnown
  <2>4. TmpSeen'
    BY <1>1, <1>2, <1>3, <1>5 DEF QInv, HookInv, TmpSeen
  <2>5. TmpIsOurs'
    BY <1>1, <1>2, <1>3 DEF QInv, HookInv, TmpIsOurs
  <2> QED
    BY <2>2, <2>3, <2>4, <2>5 DEF HookInv
<1>8. Waiting(f)'
  BY <1>4 DEF Waiting
<1>9. \A a \in Actor : /\ apc[a] \notin Walking => late'[a] = late[a]
                       /\ \A g \in late'[a] : g \in late[a] \/ Waiting(g)'
  BY <1>8 DEF Fire, TInv, TypeOK
<1>10. DrainInv' /\ LateInv' /\ RetryInv'
  BY <1>1, <1>6, <1>9, ActorKeeps DEF QInv
<1>11. Queue!Edit(f)
  <2>1. InBatch' = InBatch
    BY <1>1 DEF InBatch
  <2>2. Owed' = Owed \cup {f}
    BY <1>1, <1>4, <2>1, OwedParts
  <2> QED
    BY <1>1, <2>2 DEF Queue!Edit
<1> QED
  BY <1>7, <1>10, <1>11 DEF QInv

(* The hook's read: if others are about to replace the queue, all of their *)
(* lines and its own are in the history.                                   *)
LEMMA ReadQueued ==
  ASSUME OneActor, TInv, QInv, NEW h \in Hook, ReadPending(h)
  PROVE  QInv' /\ Queue!Work
<1> DEFINE others == {g \in Hook \ {h} : hpc[g] \in Window}
<1>1. /\ UNCHANGED <<stale, pending, pendingTmp, draining, deadletter, hfile, apc, snap, batch, todo, still, late, abandoned>>
      /\ hbuf' = [hbuf EXCEPT ![h] = pending] /\ lost' = lost \cup (Overlapped(h) \cap stale)
  BY DEF ReadPending, files, actorVars, OneActor, Disk
<1>2. hpc[h] = "read" /\ hpc'[h] = "write" /\ hbuf'[h] = pending
  BY <1>1 DEF ReadPending, HookGo, TInv, TypeOK
<1>3. \A g \in Hook : g # h => hpc'[g] = hpc[g] /\ hbuf'[g] = hbuf[g]
  BY <1>1 DEF ReadPending, HookGo, TInv, TypeOK
<1>4. InHand' = InHand /\ Reading \subseteq Reading' \cup {hfile[h]}
  BY <1>1, <1>2, <1>3 DEF Reading, InHand
<1>5. hfile[h] \in InHand
  BY <1>2 DEF InHand
<1>6. ASSUME NEW g, Waiting(g) PROVE Waiting(g)'
  BY <1>1, <1>4, <1>5, <1>6 DEF Waiting, Excused
<1>7. Lines(h)' = Range(pending) \cup {hfile[h]}
  BY <1>1, <1>2 DEF Lines
<1>8. \A g \in Hook : g # h => Lines(g)' = Lines(g)
  BY <1>1, <1>3 DEF Lines
<1>9. ASSUME others # {}
      PROVE  /\ \A f \in Range(pending) : Excused(f)'
             /\ \A g \in Hook : hpc'[g] \in Window => \A f \in Lines(g)' : Excused(f)'
  <2>1. Overlapped(h) = Range(pending) \cup {hfile[h]} \cup UNION {Lines(g) : g \in others}
    BY <1>9 DEF Overlapped
  <2>2. \A f \in Overlapped(h) : Excused(f)'
    BY <1>1 DEF Excused
  <2>3. ASSUME NEW g \in Hook, hpc'[g] \in Window PROVE Lines(g)' \subseteq Overlapped(h)
    <3>1. CASE g = h
      BY <1>7, <2>1, <3>1
    <3>2. CASE g # h
      BY <1>3, <1>8, <2>1, <2>3, <3>2
    <3> QED
      BY <3>1, <3>2
  <2> QED
    BY <2>1, <2>2, <2>3
<1>10. HookInv'
  <2>1. CASE others = {}
    <3>1. \A g \in Hook : hpc'[g] \in Window => g = h
      BY <1>3, <2>1
    <3>2. QueueSeen'
      BY <1>1, <1>7, <3>1 DEF QueueSeen
    <3>3. OverlapsKnown'
      BY <3>1 DEF OverlapsKnown
    <3>4. TmpSeen'
      BY <1>2, <3>1 DEF TmpSeen, Window
    <3>5. pendingTmp = <<>>
      BY <1>2, <2>1 DEF QInv, HookInv, TmpIsOurs, Window
    <3> QED
      BY <1>1, <3>2, <3>3, <3>4, <3>5 DEF HookInv, TmpIsOurs
  <2>2. CASE others # {}
    <3>1. QueueSeen' /\ OverlapsKnown'
      BY <1>1, <1>9, <2>2 DEF QueueSeen, OverlapsKnown
    <3>2. TmpSeen'
      <4>1. \A g : hfile'[g] \in Lines(g)'
        BY DEF Lines
      <4> QED
        BY <1>9, <2>2, <4>1 DEF TmpSeen, Window
    <3>3. TmpIsOurs'
      BY <1>1, <1>2, <1>3 DEF QInv, HookInv, TmpIsOurs
    <3> QED
      BY <3>1, <3>2, <3>3 DEF HookInv
  <2> QED
    BY <2>1, <2>2
<1>11. DrainInv' /\ LateInv' /\ RetryInv'
  BY <1>1, <1>6, ActorKeeps DEF QInv
<1>12. Queue!Work
  <2>1. InBatch' = InBatch
    BY <1>1 DEF InBatch
  <2>2. TInv'
    BY HookKeepsTypes DEF HookRuns
  <2>3. Owed' = Owed
    BY <1>1, <1>4, <2>1, OwedParts
  <2> QED
    BY <1>1, <2>2, <2>3, IsWork
<1> QED
  BY <1>10, <1>11, <1>12 DEF QInv

(* The hook's write of the temporary: the lines it cuts are given up.      *)
LEMMA WriteQueued ==
  ASSUME TInv, QInv, NEW h \in Hook, WritePending(h)
  PROVE  QInv' /\ Queue!Work
<1> DEFINE lines == Append(hbuf[h], hfile[h])
<1>1. hfile[h] \in File /\ hbuf[h] \in Seq(File) /\ hpc[h] = "write" /\ hpc'[h] = "rename"
  BY DEF WritePending, HookGo, TInv, TypeOK, FileAtHand
<1>2. Range(lines) = Lines(h)
  BY <1>1, AppendRange DEF Lines
<1>3. /\ UNCHANGED <<stale, pending, draining, deadletter, hfile, apc, snap, batch, todo, still, late, lost>>
      /\ pendingTmp' = LastLines(lines)
      /\ abandoned' = abandoned \cup ((Range(lines) \ Range(LastLines(lines))) \cap stale)
  BY DEF WritePending, actorVars
<1>4. \A g \in Hook : g # h => hpc'[g] = hpc[g] /\ hbuf'[g] = hbuf[g]
  BY DEF WritePending, HookGo, TInv, TypeOK
<1>5. Range(LastLines(lines)) \subseteq Range(lines)
  BY <1>1, AppendProperties, LastLinesPart
<1> HIDE DEF lines
<1>6. InHand' = InHand /\ Reading' = Reading
  BY <1>1, <1>3, <1>4 DEF InHand, Reading
<1>7. ASSUME NEW g, Excused(g) PROVE Excused(g)'
  BY <1>3, <1>6, <1>7 DEF Excused
<1>8. ASSUME NEW g, Waiting(g) PROVE Waiting(g)'
  BY <1>3, <1>6, <1>7, <1>8 DEF Waiting
<1>9. \A f \in Lines(h) : f \in Range(pendingTmp') \/ Excused(f)'
  BY <1>2, <1>3 DEF Excused
<1>10. Lines(h)' \subseteq Lines(h) /\ Range(pendingTmp') \subseteq Lines(h)'
  BY <1>1, <1>2, <1>3, <1>5 DEF Lines
<1>11. \A g \in Hook : g # h => Lines(g)' \subseteq Lines(g) \cup Lines(h)
  BY <1>2, <1>3, <1>4, <1>5 DEF Lines
<1>12. ASSUME NEW g \in Hook, g # h, hpc'[g] \in Window
       PROVE  (\A f \in Lines(g) : Excused(f)') /\ \A f \in Lines(h) : Excused(f)'
  BY <1>1, <1>4, <1>7, <1>12 DEF QInv, HookInv, OverlapsKnown, Window
<1>13. HookInv'
  <2>1. ASSUME NEW g \in Hook, hpc'[g] \in Window, NEW f \in Range(pending')
        PROVE  f \in Lines(g)' \/ Excused(f)'
    <3>1. f \in Lines(g) \/ Excused(f)
      BY <1>1, <1>3, <1>4, <2>1 DEF QInv, HookInv, QueueSeen, Window
    <3>2. CASE g = h
      BY <1>7, <1>9, <1>10, <3>1, <3>2
    <3>3. CASE g # h
      BY <1>7, <1>12, <2>1, <3>1, <3>3
    <3> QED
      BY <3>2, <3>3
  <2>2. ASSUME NEW g \in Hook, NEW k \in Hook, k # g, hpc'[g] \in Window, hpc'[k] \in Window,
               NEW f \in Lines(g)'
        PROVE  Excused(f)'
    <3>1. CASE g = h
      BY <1>10, <1>12, <2>2, <3>1
    <3>2. CASE g # h
      BY <1>11, <1>12, <2>2, <3>2
    <3> QED
      BY <3>1, <3>2
  <2>3. ASSUME NEW g \in Hook, hpc'[g] = "rename"
        PROVE  (hfile[g] \in Range(pendingTmp) \/ Excused(hfile[g]))'
    <3>1. hfile'[g] \in Lines(g)
      BY <1>3 DEF Lines
    <3>2. CASE g = h
      BY <1>9, <3>1, <3>2
    <3>3. CASE g # h
      BY <1>12, <2>3, <3>1, <3>3 DEF Window
    <3> QED
      BY <3>2, <3>3
  <2>4. TmpIsOurs'
    BY <1>1 DEF TmpIsOurs
  <2> QED
    BY <2>1, <2>2, <2>3, <2>4 DEF HookInv, QueueSeen, OverlapsKnown, TmpSeen
<1>14. DrainInv' /\ LateInv' /\ RetryInv'
  BY <1>3, <1>8, ActorKeeps DEF QInv
<1>15. Queue!Work
  <2>1. InBatch' = InBatch
    BY <1>3 DEF InBatch
  <2>2. TInv'
    BY HookKeepsTypes DEF HookRuns
  <2>3. Owed' = Owed
    BY <1>3, <1>6, <2>1, OwedParts
  <2> QED
    BY <1>3, <2>2, <2>3, IsWork
<1> QED
  BY <1>13, <1>14, <1>15 DEF QInv

(* The hook's rename, of whichever temporary is there: no line is missed   *)
(* that is not in the history.                                             *)
LEMMA RenameQueued ==
  ASSUME TInv, QInv, NEW h \in Hook, RenamePending(h)
  PROVE  QInv' /\ Queue!Work
<1>1. hpc[h] = "rename" /\ hpc'[h] = "lock"
  BY DEF RenamePending, HookGo, TInv, TypeOK
<1>2. /\ UNCHANGED <<stale, draining, deadletter, apc, snap, batch, todo, still, late, abandoned, lost>>
      /\ pendingTmp' = <<>> /\ pending' = IF pendingTmp = <<>> THEN pending ELSE pendingTmp
  BY DEF RenamePending, actorVars, history
<1>3. \A g \in Hook : g # h => hpc'[g] = hpc[g] /\ hbuf'[g] = hbuf[g] /\ hfile'[g] = hfile[g]
  BY DEF RenamePending, HookDone, HookGo, TInv, TypeOK
<1>4. Lines(h) = Range(pendingTmp) \cup {hfile[h]}
  BY <1>1 DEF Lines
<1>5. Reading' = Reading /\ InHand \subseteq InHand' \cup {hfile[h]}
  BY <1>1, <1>3 DEF Reading, InHand
<1>6. \A g : Excused(g)' <=> Excused(g)
  BY <1>2, <1>5 DEF Excused
<1>7. hfile[h] \in Range(pending') \/ Excused(hfile[h])
  BY <1>1, <1>2, EmptyRange DEF QInv, HookInv, TmpSeen
<1>8. \A f \in Range(pending) : f \in Range(pending') \/ Excused(f)
  BY <1>1, <1>2, <1>4, <1>7 DEF QInv, HookInv, QueueSeen, Window
<1>9. ASSUME NEW g, Waiting(g) PROVE Waiting(g)'
  BY <1>5, <1>6, <1>7, <1>8, <1>9 DEF Waiting
<1>10. \A g \in Hook : g # h => Lines(g)' \subseteq Lines(g)
  BY <1>2, <1>3, EmptyRange DEF Lines
<1>11. ASSUME NEW g \in Hook, hpc'[g] \in Window
       PROVE  g # h /\ (\A f \in Lines(g) : Excused(f)) /\ \A f \in Lines(h) : Excused(f)
  BY <1>1, <1>3, <1>11 DEF QInv, HookInv, OverlapsKnown, Window
<1>12. HookInv'
  <2>1. ASSUME NEW g \in Hook, hpc'[g] \in Window, NEW f \in Range(pending')
        PROVE  f \in Lines(g)' \/ Excused(f)'
    <3>1. CASE pendingTmp = <<>>
      <4>1. f \in Lines(g) \/ Excused(f)
        BY <1>2, <1>3, <1>11, <2>1, <3>1 DEF QInv, HookInv, QueueSeen
      <4> QED
        BY <1>6, <1>11, <2>1, <4>1
    <3>2. CASE pendingTmp # <<>>
      BY <1>2, <1>4, <1>6, <1>11, <2>1, <3>2
    <3> QED
      BY <3>1, <3>2
  <2>2. ASSUME NEW g \in Hook, hpc'[g] \in Window, NEW f \in Lines(g)'
        PROVE  Excused(f)'
    BY <1>6, <1>10, <1>11, <2>2
  <2>3. ASSUME NEW g \in Hook, hpc'[g] = "rename"
        PROVE  Excused(hfile[g])'
    <3>1. hfile'[g] \in Lines(g)'
      BY DEF Lines
    <3> QED
      BY <2>2, <2>3, <3>1 DEF Window
  <2>4. TmpIsOurs'
    BY <1>2 DEF TmpIsOurs
  <2> QED
    BY <2>1, <2>2, <2>3, <2>4 DEF HookInv, QueueSeen, OverlapsKnown, TmpSeen
<1>13. DrainInv' /\ LateInv' /\ RetryInv'
  BY <1>2, <1>9, ActorKeeps DEF QInv
<1>14. Queue!Work
  <2>1. InBatch' = InBatch
    BY <1>2 DEF InBatch
  <2>2. TInv'
    BY HookKeepsTypes DEF HookRuns
  <2>3. \A g \in Owed \ Owed' : g \in Range(pending) \/ g \in InHand
    BY <1>2, <2>1, OwedParts
  <2>4. \A g \in Owed \ Owed' : Waiting(g)'
    BY <1>9, <2>3 DEF Waiting
  <2> QED
    BY <1>2, <2>2, <2>4, IsWork
<1> QED
  BY <1>12, <1>13, <1>14 DEF QInv

(* The other steps of a hook. *)
LEMMA HookQueued ==
  ASSUME OneActor, TInv, QInv, NEW h \in Hook, HookRuns(h),
         ~ReadPending(h), ~WritePending(h), ~RenamePending(h)
  PROVE  QInv' /\ Queue!Work
<1>1. UNCHANGED <<stale, abandoned, lost, pending, pendingTmp, draining, deadletter, hfile, hbuf, snap, batch, todo, still, late>>
  BY DEF HookRuns, TryLock, CheckInflight, ReapOrphan, CheckWindow, Spawn, SpawnFails,
         Release, files, actorVars, history
<1>2. \A a \in Actor : apc'[a] = apc[a] \/ (apc[a] = "dead" /\ apc'[a] = "spawned")
  <2>1. CASE Spawn(h)
    <3>1. PICK b \in FreePids : apc' = [apc EXCEPT ![b] = "spawned"]
      BY <2>1 DEF Spawn
    <3> QED
      BY <3>1 DEF FreePids, TInv, TypeOK
  <2>2. CASE ~Spawn(h)
    <3>1. apc' = apc
      BY <2>2 DEF HookRuns, TryLock, CheckInflight, ReapOrphan, CheckWindow, SpawnFails,
                  Release, actorVars
    <3> QED
      BY <3>1
  <2> QED
    BY <2>1, <2>2
<1>3. /\ hpc[h] \notin {"read", "write", "rename"} /\ hpc'[h] \notin {"read", "write", "rename"}
      /\ \A g \in Hook : g # h => hpc'[g] = hpc[g]
  BY DEF HookRuns, TryLock, CheckInflight, ReapOrphan, CheckWindow, Spawn, SpawnFails,
         Release, HookGo, TInv, TypeOK
<1>4. InHand' = InHand /\ Reading' = Reading
  BY <1>1, <1>3 DEF InHand, Reading
<1>5. \A g : Excused(g)' <=> Excused(g)
  BY <1>1, <1>4 DEF Excused
<1>6. \A g : Waiting(g)' <=> Waiting(g)
  BY <1>1, <1>4, <1>5 DEF Waiting
<1>7. HookInv'
  <2>1. \A g \in Hook : hpc'[g] \in Window => hpc[g] \in Window /\ Lines(g)' = Lines(g)
    BY <1>1, <1>3 DEF Lines, Window
  <2>2. QueueSeen'
    BY <1>1, <1>5, <2>1 DEF QInv, HookInv, QueueSeen
  <2>3. OverlapsKnown'
    BY <1>5, <2>1 DEF QInv, HookInv, OverlapsKnown
  <2>4. TmpSeen' /\ TmpIsOurs'
    BY <1>1, <1>3, <1>5 DEF QInv, HookInv, TmpSeen, TmpIsOurs
  <2> QED
    BY <2>2, <2>3, <2>4 DEF HookInv
<1>8. DrainInv'
  BY <1>1, <1>2 DEF DrainInv, QInv
<1>9. LateInv'
  BY <1>1, <1>2, <1>6 DEF LateInv, QInv, Walking
<1>10. RetryInv'
  <2>1. \A a \in Actor : \A e : Settled(a, e)' <=> Settled(a, e)
    BY <1>1, <1>6 DEF Settled
  <2> QED
    BY <1>1, <1>2, <2>1 DEF RetryInv, QInv
<1>11. Owed' = Owed
  BY <1>1, <1>4 DEF Owed, InHand
<1>12. Queue!Work
  <2>1. TInv'
    BY HookKeepsTypes
  <2> QED
    BY <1>1, <1>11, <2>1, IsWork
<1> QED
  BY <1>7, <1>8, <1>9, <1>10, <1>12 DEF QInv

(* A step of the actor that moves no line and indexes nothing: what is     *)
(* left to show is of the actor's own variables.                           *)
LEMMA AsideOfQueue ==
  ASSUME HookInv, UNCHANGED <<stale, history, pending, pendingTmp, hookVars>>
  PROVE  /\ HookInv' /\ InHand' = InHand
         /\ \A g : Waiting(g)' <=> Waiting(g)
<1>1. InHand' = InHand /\ Reading' = Reading
  BY DEF InHand, Reading, hookVars
<1>2. \A g : Excused(g)' <=> Excused(g)
  BY <1>1 DEF Excused, history
<1>3. HookInv'
  BY <1>2, HooksKeep DEF hookVars
<1> QED
  BY <1>1, <1>2, <1>3 DEF Waiting

LEMMA ActorQueued ==
  ASSUME OneActor, TInv, QInv, NEW a \in Actor,
         \/ WritePid(a) \/ Wake(a) \/ ReplayStart(a) \/ Reread(a) \/ Exit(a) \/ PidTaken(a)
  PROVE  QInv' /\ Queue!Work
<1>1. UNCHANGED <<stale, history, pending, pendingTmp, draining, deadletter, hookVars>>
  BY DEF WritePid, Wake, ReplayStart, Reread, Exit, PidTaken, files
<1>2. HookInv' /\ InHand' = InHand /\ \A g : Waiting(g)' <=> Waiting(g)
  BY <1>1, AsideOfQueue DEF QInv
<1>3. \A b \in Actor : b = a
  BY DEF OneActor
<1>4. batch'[a] = batch[a]
  BY DEF WritePid, Wake, ReplayStart, Reread, Exit, PidTaken, ActorGo, Forget, QInv, DrainInv,
         TInv, TypeOK
<1>5. apc[a] \notin {"read", "unlink", "index", "bury", "retry"}
  BY DEF WritePid, Wake, ReplayStart, Reread, Exit, PidTaken, ActorGo
<1>6. apc'[a] \notin {"read", "unlink", "index", "bury"}
  BY DEF WritePid, Wake, ReplayStart, Reread, Exit, PidTaken, ActorGo, TInv, TypeOK
<1>7. late'[a] = {}
  BY <1>5 DEF WritePid, Wake, ReplayStart, Reread, Exit, PidTaken, ActorGo, Forget, QInv, LateInv,
         Walking, TInv, TypeOK
<1>8. DrainInv'
  BY <1>1, <1>3, <1>4, <1>5, <1>6 DEF QInv, DrainInv
<1>9. LateInv'
  BY <1>3, <1>7 DEF LateInv
<1>10. RetryInv'
  <2>1. CASE WritePid(a) \/ Wake(a) \/ Exit(a) \/ PidTaken(a)
    <3>1. apc'[a] \notin {"retry", "reread", "rewrite"}
      BY <2>1 DEF WritePid, Wake, Exit, PidTaken, ActorGo, TInv, TypeOK
    <3> QED
      BY <1>3, <3>1 DEF RetryInv
  <2>2. CASE ReplayStart(a)
    <3>1. /\ snap' = snap /\ todo'[a] = snap[a] \ Capped(snap[a])
          /\ apc'[a] \in {"retry", "reread", "exit"} /\ (apc'[a] = "reread" => todo'[a] = {})
      BY <2>2 DEF ReplayStart, ActorGo, TInv, TypeOK
    <3>2. \A e \in snap[a] : e.attempt >= DeadletterCap \/ e \in todo'[a]
      BY <3>1 DEF Capped
    <3>3. \A e \in snap'[a] : Settled(a, e)'
      BY <3>1, <3>2 DEF Settled
    <3> QED
      BY <1>3, <3>1, <3>3 DEF RetryInv
  <2>3. CASE Reread(a)
    <3>1. /\ UNCHANGED <<snap, todo, deadletter, stale>> /\ apc[a] = "reread" /\ apc'[a] = "rewrite"
          /\ still'[a] = {e \in deadletter : e.file \notin FilesOf(snap[a])} \cup still[a]
      BY <2>3 DEF Reread, ActorGo, TInv, TypeOK, OneActor, Disk, files
    <3>2. FilesOf(still[a]) \subseteq FilesOf(still'[a])
      BY <3>1 DEF FilesOf
    <3>3. FilesOf(deadletter) \subseteq FilesOf(still'[a]) \cup FilesOf(snap[a])
      BY <3>1 DEF FilesOf
    <3>4. \A e \in snap'[a] : Settled(a, e)'
      BY <1>2, <3>1, <3>2 DEF Settled, QInv, RetryInv
    <3>5. todo'[a] = {}
      BY <3>1 DEF QInv, RetryInv
    <3> QED
      BY <1>3, <3>1, <3>3, <3>4, <3>5 DEF RetryInv
  <2> QED
    BY <2>1, <2>2, <2>3
<1>11. InBatch' = InBatch
  BY <1>3, <1>4 DEF InBatch
<1>12. Owed' = Owed
  BY <1>1, <1>2, <1>11, OwedParts
<1>13. TInv'
  BY ActorKeepsTypes DEF ActorRuns
<1>14. Queue!Work
  BY <1>1, <1>12, <1>13, IsWork DEF history
<1> QED
  BY <1>2, <1>8, <1>9, <1>10, <1>14 DEF QInv

(* Draining: the lines go from the queue to the drained file, from there   *)
(* to the batch.                                                           *)
LEMMA DrainQueued ==
  ASSUME OneActor, TInv, QInv, NEW a \in Actor, DrainRename(a) \/ DrainRead(a) \/ DrainUnlink(a)
  PROVE  QInv' /\ Queue!Work
<1>1. UNCHANGED <<stale, history, pendingTmp, deadletter, hookVars>>
  BY DEF DrainRename, DrainRead, DrainUnlink, files
<1>2. \A b \in Actor : b = a
  BY DEF OneActor
<1>3. InHand' = InHand /\ Reading' = Reading
  BY <1>1 DEF InHand, Reading, hookVars
<1>4. apc[a] \in {"drain", "read", "unlink"} /\ apc'[a] \in {"replay", "read", "unlink", "index"}
  BY DEF DrainRename, DrainRead, DrainUnlink, ActorGo, TInv, TypeOK
<1>5. late'[a] = {}
  BY <1>4 DEF DrainRename, DrainRead, DrainUnlink, QInv, LateInv, Walking
<1>6. LateInv'
  BY <1>2, <1>5 DEF LateInv
<1>7. RetryInv'
  BY <1>2, <1>4 DEF RetryInv
<1>8. Range(pending') \subseteq Range(pending)
  BY EmptyRange DEF DrainRename, DrainRead, DrainUnlink, files
<1>9. HookInv'
  <2>1. \A g : Excused(g) => Excused(g)'
    BY <1>1, <1>3 DEF Excused, history
  <2> QED
    BY <1>1, <1>8, <2>1, HooksKeep DEF QInv, hookVars
<1>10. DrainInv' /\ Range(pending') \cup Range(draining') \cup InBatch' =
                     Range(pending) \cup Range(draining) \cup InBatch
  <2>1. InBatch = batch[a] /\ InBatch' = batch'[a]
    BY <1>2 DEF InBatch
  <2>2. CASE DrainRename(a)
    <3>1. draining = <<>> /\ batch[a] = {} /\ batch' = batch
      BY <2>2 DEF DrainRename, ActorGo, QInv, DrainInv
    <3>2. \/ pending' = pending /\ draining' = <<>> /\ apc'[a] = "replay"
          \/ draining' = pending /\ pending' = <<>> /\ apc'[a] = "read"
      BY <2>2, <3>1 DEF DrainRename, ActorGo, TInv, TypeOK
    <3> QED
      BY <1>2, <2>1, <3>1, <3>2, EmptyRange DEF DrainInv
  <2>3. CASE DrainRead(a)
    <3>1. /\ batch[a] = {} /\ UNCHANGED <<pending, draining>>
          /\ batch'[a] = Range(draining) /\ apc'[a] = "unlink"
      BY <2>3 DEF DrainRead, ActorGo, QInv, DrainInv, TInv, TypeOK, OneActor, Disk, files
    <3> QED
      BY <1>2, <2>1, <3>1 DEF DrainInv
  <2>4. CASE DrainUnlink(a)
    <3>1. Range(draining) \subseteq batch[a]
      BY <2>4 DEF DrainUnlink, ActorGo, QInv, DrainInv
    <3>2. /\ UNCHANGED <<pending, batch>> /\ draining' = <<>>
          /\ apc'[a] = IF batch[a] = {} THEN "replay" ELSE "index"
      BY <2>4 DEF DrainUnlink, ActorGo, TInv, TypeOK, OneActor, Disk
    <3> QED
      BY <1>2, <2>1, <3>1, <3>2, EmptyRange DEF DrainInv
  <2> QED
    BY <2>2, <2>3, <2>4
<1>11. Owed' = Owed
  BY <1>1, <1>3, <1>10, OwedParts
<1>12. TInv'
  BY ActorKeepsTypes DEF ActorRuns
<1>13. Queue!Work
  BY <1>1, <1>11, <1>12, IsWork DEF history
<1> QED
  BY <1>6, <1>7, <1>9, <1>10, <1>13 DEF QInv

(* A walk: what it read is up to date; what it did not read, and whose     *)
(* entry the caller drops, waits or is lost.                               *)
LEMMA WalkQueued ==
  ASSUME QInv, NEW a \in Actor, NEW dropped, Walked(a, dropped) \/ WalkFailed,
         UNCHANGED <<pending, pendingTmp, hookVars>>
  PROVE  /\ stale' \subseteq stale
         /\ (abandoned \cup lost) \cap stale' \subseteq abandoned' \cup lost'
         /\ HookInv' /\ InHand' = InHand
         /\ \A g : Waiting(g) => Waiting(g)'
         /\ Walked(a, dropped) => \A g \in dropped : Waiting(g)'
<1>1. /\ stale' \subseteq stale
      /\ (abandoned \cup lost) \cap stale' \subseteq abandoned' \cup lost'
  BY DEF Walked, WalkFailed, Indexed
<1>2. InHand' = InHand /\ Reading' = Reading
  BY DEF InHand, Reading, hookVars
<1>3. \A g : Excused(g) => Excused(g)'
  BY <1>1, <1>2 DEF Excused
<1>4. \A g : Waiting(g) => Waiting(g)'
  BY <1>2, <1>3 DEF Waiting
<1>5. HookInv'
  BY <1>3, HooksKeep DEF QInv, hookVars
<1>6. ASSUME Walked(a, dropped), NEW g \in dropped PROVE Waiting(g)'
  <2>1. g \notin stale' \/ g \in lost' \/ g \in late[a]
    BY <1>6 DEF Walked, Indexed
  <2>2. CASE g \in late[a]
    BY <1>4, <2>2 DEF QInv, LateInv
  <2> QED
    BY <2>1, <2>2 DEF Waiting, Excused
<1> QED
  BY <1>1, <1>2, <1>4, <1>5, <1>6

LEMMA IndexQueued ==
  ASSUME OneActor, TInv, QInv, NEW a \in Actor, IndexOk(a) \/ IndexFail(a)
  PROVE  QInv' /\ Queue!Work
<1>1. /\ UNCHANGED <<pending, pendingTmp, draining, deadletter, hookVars>> /\ late'[a] = {}
      /\ apc[a] = "index" /\ apc'[a] \in {"replay", "bury"}
      /\ \/ Walked(a, batch[a]) /\ apc'[a] = "replay" /\ batch'[a] = {}
         \/ WalkFailed /\ apc'[a] = "bury" /\ batch'[a] = batch[a]
  BY DEF IndexOk, IndexFail, ActorGo, TInv, TypeOK, files
<1>2. \A b \in Actor : b = a
  BY DEF OneActor
<1>3. /\ stale' \subseteq stale
      /\ (abandoned \cup lost) \cap stale' \subseteq abandoned' \cup lost'
      /\ HookInv' /\ InHand' = InHand
      /\ Walked(a, batch[a]) => \A g \in batch[a] : Waiting(g)'
  BY <1>1, WalkQueued
<1>4. DrainInv'
  BY <1>1, <1>2 DEF QInv, DrainInv
<1>5. LateInv'
  BY <1>1, <1>2 DEF LateInv
<1>6. RetryInv'
  BY <1>1, <1>2 DEF RetryInv
<1>7. InBatch = batch[a] /\ InBatch' = batch'[a]
  BY <1>2 DEF InBatch
<1>8. \A g \in Owed \ Owed' : Waiting(g)'
  <2>1. \A g \in Owed \ Owed' : g \in batch[a] /\ g \notin batch'[a]
    BY <1>1, <1>3, <1>7, OwedParts
  <2> QED
    BY <1>1, <1>3, <2>1
<1>9. TInv'
  BY ActorKeepsTypes DEF ActorRuns
<1>10. Queue!Work
  BY <1>3, <1>8, <1>9, IsWork
<1> QED
  BY <1>3, <1>4, <1>5, <1>6, <1>10 DEF QInv

(* A failed walk: each file of the batch goes to the dead letters. *)
LEMMA BuryQueued ==
  ASSUME OneActor, TInv, QInv, NEW a \in Actor, Bury(a)
  PROVE  QInv' /\ Queue!Work
<1>1. PICK f \in batch[a] :
        /\ ActorGo(a, "bury", IF batch[a] = {f} THEN "replay" ELSE "bury")
        /\ deadletter' = deadletter \cup {[file |-> f, attempt |-> 1]}
        /\ batch' = [batch EXCEPT ![a] = @ \ {f}]
  BY DEF Bury, OneActor, Disk
<1>2. UNCHANGED <<stale, history, pending, pendingTmp, draining, hookVars, snap, late>>
  BY DEF Bury
<1>3. \A b \in Actor : b = a
  BY DEF OneActor
<1>4. /\ apc[a] = "bury" /\ apc'[a] \in {"bury", "replay"} /\ batch'[a] = batch[a] \ {f}
      /\ apc'[a] = "replay" => batch'[a] = {}
  BY <1>1 DEF ActorGo, TInv, TypeOK
<1>5. HookInv' /\ InHand' = InHand /\ \A g : Waiting(g)' <=> Waiting(g)
  BY <1>2, AsideOfQueue DEF QInv
<1>6. DrainInv'
  BY <1>2, <1>3, <1>4 DEF QInv, DrainInv
<1>7. LateInv'
  BY <1>2, <1>3, <1>4 DEF QInv, LateInv, Walking
<1>8. RetryInv'
  BY <1>3, <1>4 DEF RetryInv
<1>9. FilesOf(deadletter') = FilesOf(deadletter) \cup {f}
  <2> DEFINE d == [file |-> f, attempt |-> 1]
  <2>1. d.file = f /\ deadletter' = deadletter \cup {d}
    BY <1>1
  <2> HIDE DEF d
  <2> QED
    BY <2>1 DEF FilesOf
<1>10. InBatch = batch[a] /\ InBatch' = batch'[a]
  BY <1>3 DEF InBatch
<1>11. Owed' = Owed
  BY <1>2, <1>4, <1>5, <1>9, <1>10, OwedParts
<1>12. TInv'
  BY ActorKeepsTypes DEF ActorRuns
<1>13. Queue!Work
  BY <1>2, <1>11, <1>12, IsWork DEF history
<1> QED
  BY <1>5, <1>6, <1>7, <1>8, <1>13 DEF QInv

(* A retry: the entry needs nothing or waits, or is among the survivors.   *)
LEMMA RetryQueued ==
  ASSUME OneActor, TInv, QInv, NEW a \in Actor, RetryOk(a) \/ RetryFail(a)
  PROVE  QInv' /\ Queue!Work
<1>1. PICK e \in todo[a] :
        /\ RetryNext(a, e)
        /\ \/ Walked(a, {e.file}) /\ still' = still
           \/ WalkFailed /\ still' = [still EXCEPT ![a] = @ \cup {[e EXCEPT !.attempt = @ + 1]}]
  BY DEF RetryOk, RetryFail
<1>2. /\ UNCHANGED <<pending, pendingTmp, draining, deadletter, hookVars, snap, batch>>
      /\ late'[a] = {}
      /\ apc[a] = "retry" /\ apc'[a] \in {"retry", "reread"} /\ todo'[a] = todo[a] \ {e}
      /\ apc'[a] = "reread" => todo'[a] = {}
  BY <1>1 DEF RetryNext, ActorGo, TInv, TypeOK, files
<1>3. \A b \in Actor : b = a
  BY DEF OneActor
<1>4. e \in Entry /\ e.file \in File
  BY DEF TInv, TypeOK, Entry
<1>5. FilesOf(still[a]) \subseteq FilesOf(still'[a])
  BY <1>1 DEF FilesOf, TInv, TypeOK
<1>6. /\ stale' \subseteq stale
      /\ (abandoned \cup lost) \cap stale' \subseteq abandoned' \cup lost'
      /\ HookInv' /\ InHand' = InHand
      /\ \A g : Waiting(g) => Waiting(g)'
      /\ Walked(a, {e.file}) => Waiting(e.file)'
  BY <1>1, <1>2, WalkQueued
<1>7. e.file \in FilesOf(still'[a]) \/ Waiting(e.file)'
  <2>1. CASE Walked(a, {e.file})
    BY <1>6, <2>1
  <2>2. CASE still' = [still EXCEPT ![a] = @ \cup {[e EXCEPT !.attempt = @ + 1]}]
    <3>1. [e EXCEPT !.attempt = @ + 1].file = e.file
      BY <1>4 DEF Entry
    <3>2. [e EXCEPT !.attempt = @ + 1] \in still'[a]
      BY <2>2 DEF TInv, TypeOK
    <3> QED
      BY <3>1, <3>2 DEF FilesOf
  <2> QED
    BY <1>1, <2>1, <2>2
<1>8. DrainInv'
  BY <1>2, <1>3 DEF QInv, DrainInv
<1>9. LateInv'
  BY <1>2, <1>3 DEF LateInv
<1>10. RetryInv'
  <2>1. \A d \in snap[a] : Settled(a, d)
    BY <1>2 DEF QInv, RetryInv
  <2>2. ASSUME NEW d \in snap[a] PROVE Settled(a, d)'
    <3>1. CASE d = e
      BY <1>7, <3>1 DEF Settled
    <3>2. CASE d # e
      BY <1>2, <1>5, <1>6, <2>1, <3>2 DEF Settled
    <3> QED
      BY <3>1, <3>2
  <2> QED
    BY <1>2, <1>3, <2>2 DEF RetryInv
<1>11. Owed' = Owed
  <2>1. InBatch' = InBatch
    BY <1>2 DEF InBatch
  <2> QED
    BY <1>2, <1>6, <2>1, OwedParts
<1>12. TInv'
  BY ActorKeepsTypes DEF ActorRuns
<1>13. Queue!Work
  BY <1>6, <1>11, <1>12, IsWork
<1> QED
  BY <1>6, <1>8, <1>9, <1>10, <1>13 DEF QInv

(* The dead letters are written back: those left out need nothing, wait,   *)
(* or are at the cap, and then are given up or lost.                       *)
LEMMA RewriteQueued ==
  ASSUME OneActor, TInv, QInv, NEW a \in Actor, Rewrite(a)
  PROVE  QInv' /\ Queue!Work
<1> DEFINE out == (FilesOf(Capped(snap[a])) \cap stale) \ FilesOf(still[a])
<1>1. /\ UNCHANGED <<stale, pending, pendingTmp, draining, hookVars, batch, late>>
      /\ apc[a] = "rewrite" /\ apc'[a] = "exit" /\ deadletter' = still[a]
      /\ abandoned' \cup lost' = abandoned \cup lost \cup out
      /\ abandoned \subseteq abandoned' /\ lost \subseteq lost'
  BY DEF Rewrite, ActorGo, TInv, TypeOK, OneActor, Disk
<1>2. \A b \in Actor : b = a
  BY DEF OneActor
<1>3. InHand' = InHand /\ Reading' = Reading
  BY <1>1 DEF InHand, Reading, hookVars
<1>4. \A g : Excused(g) => Excused(g)'
  BY <1>1, <1>3 DEF Excused
<1>5. HookInv'
  BY <1>1, <1>4, HooksKeep DEF QInv, hookVars
<1>6. DrainInv'
  BY <1>1, <1>2 DEF QInv, DrainInv
<1>7. LateInv'
  BY <1>1, <1>2 DEF QInv, LateInv, Walking
<1>8. RetryInv'
  BY <1>1, <1>2 DEF RetryInv
<1>9. \A g : Waiting(g) => Waiting(g)'
  BY <1>1, <1>3, <1>4 DEF Waiting
<1>10. \A g \in Owed \ Owed' : Waiting(g)'
  <2>1. InBatch' = InBatch
    BY <1>1 DEF InBatch
  <2>2. ASSUME NEW g \in Owed \ Owed' PROVE Waiting(g)'
    <3>1. g \in FilesOf(deadletter) /\ g \notin FilesOf(still[a])
      BY <1>1, <1>3, <2>1, <2>2, OwedParts
    <3>2. g \in FilesOf(snap[a])
      BY <1>1, <3>1 DEF QInv, RetryInv
    <3>3. PICK e \in snap[a] : e.file = g
      BY <3>2 DEF FilesOf
    <3>4. Settled(a, e) /\ todo[a] = {}
      BY <1>1, <3>3 DEF QInv, RetryInv
    <3>5. CASE e.attempt >= DeadletterCap
      <4>1. g \in FilesOf(Capped(snap[a]))
        BY <3>3, <3>5 DEF FilesOf, Capped
      <4>2. g \notin stale' \/ g \in abandoned' \cup lost'
        BY <1>1, <3>1, <4>1
      <4> QED
        BY <4>2 DEF Waiting, Excused
    <3>6. CASE Waiting(g)
      BY <1>9, <3>6
    <3> QED
      BY <3>1, <3>3, <3>4, <3>5, <3>6 DEF Settled
  <2> QED
    BY <2>2
<1>11. TInv'
  BY ActorKeepsTypes DEF ActorRuns
<1>12. Queue!Work
  BY <1>1, <1>10, <1>11, IsWork
<1> QED
  BY <1>5, <1>6, <1>7, <1>8, <1>12 DEF QInv

-----------------------------------------------------------------------------
(* Every step. *)
LEMMA QueueStep ==
  ASSUME OneActor, TInv, QInv, [Next]_vars
  PROVE  QInv' /\ [Queue!Next]_(Queue!vars)
<1> USE DEF Queue!Next
<1>1. ASSUME UNCHANGED <<stale, pending, pendingTmp, draining, deadletter, hookVars, actorVars, history>>
      PROVE  QInv' /\ UNCHANGED Queue!vars
  <2>1. InHand' = InHand /\ InBatch' = InBatch
    BY <1>1 DEF hookVars, actorVars, InHand, InBatch
  <2>2. Owed' = Owed
    BY <1>1, <2>1, OwedParts
  <2>3. HookInv' /\ \A g : Waiting(g)' <=> Waiting(g)
    BY <1>1, AsideOfQueue DEF QInv
  <2>4. DrainInv' /\ LateInv' /\ RetryInv'
    BY <1>1, <2>3, ActorKeeps DEF QInv, actorVars
  <2> QED
    BY <1>1, <2>2, <2>3, <2>4 DEF QInv, Queue!vars, history
<1>2. CASE WindowElapses \/ UNCHANGED vars
  BY <1>1, <1>2 DEF WindowElapses, vars, files
<1>3. ASSUME NEW h \in Hook, NEW f \in File, Fire(h, f) PROVE QInv' /\ Queue!Edit(f)
  BY <1>3, FireQueued
<1>4. ASSUME NEW h \in Hook, HookRuns(h) PROVE QInv' /\ Queue!Work
  BY <1>4, ReadQueued, WriteQueued, RenameQueued, HookQueued
<1>5. ASSUME NEW h \in Hook PROVE ~HookDiskError(h) /\ ~HookDies(h)
  BY DEF HookDiskError, HookDies, Disk, OneActor
<1>6. ASSUME NEW a \in Actor, ActorRuns(a) \/ PidTaken(a) PROVE QInv' /\ Queue!Work
  <2>1. CASE WritePid(a) \/ Wake(a) \/ ReplayStart(a) \/ Reread(a) \/ Exit(a) \/ PidTaken(a)
    BY <2>1, ActorQueued
  <2>2. CASE DrainRename(a) \/ DrainRead(a) \/ DrainUnlink(a)
    BY <2>2, DrainQueued
  <2>3. CASE IndexOk(a) \/ IndexFail(a)
    BY <2>3, IndexQueued
  <2>4. CASE Bury(a)
    BY <2>4, BuryQueued
  <2>5. CASE RetryOk(a) \/ RetryFail(a)
    BY <2>5, RetryQueued
  <2>6. CASE Rewrite(a)
    BY <2>6, RewriteQueued
  <2>7. ~DrainFails(a) /\ ~ActorNoDir(a)
    BY DEF DrainFails, ActorNoDir, Disk, OneActor
  <2> QED
    BY <1>6, <2>1, <2>2, <2>3, <2>4, <2>5, <2>6, <2>7 DEF ActorRuns
<1>7. ASSUME NEW a \in Actor PROVE ~ActorDies(a)
  BY DEF ActorDies, OneActor
<1>8. CASE \E h \in Hook, f \in File : Fire(h, f)
  BY <1>3, <1>8
<1>9. CASE \E h \in Hook : HookRuns(h)
  BY <1>4, <1>9
<1>10. CASE \E a \in Actor : ActorRuns(a) \/ PidTaken(a)
  BY <1>6, <1>10
<1> QED
  BY <1>2, <1>5, <1>7, <1>8, <1>9, <1>10 DEF Next

(* The pipeline implements its abstract specification, for any number of   *)
(* hooks, any files, caps and failures of the indexer: a file leaves the   *)
(* queue, the drained file, the dead letters and the processes only if it  *)
(* is indexed, given up at a cap, or its entry is lost in one of the three *)
(* ways ReindexQueue names. (Of two actors one drops the dead letters of   *)
(* the other; a killed process takes what it holds with it.)               *)
THEOREM ImplementsQueue == ASSUME OneActor PROVE Spec => RefinesQueue
<1>1. Init => QInv /\ Queue!Init
  <2> SUFFICES ASSUME Init PROVE QInv /\ Queue!Init
    OBVIOUS
  <2>1. Owed = {}
    BY EmptyRange DEF Init, Owed, FilesOf
  <2>2. HookInv
    BY DEF Init, HookInv, QueueSeen, OverlapsKnown, TmpSeen, TmpIsOurs, Window
  <2>3. DrainInv /\ LateInv /\ RetryInv
    BY DEF Init, DrainInv, LateInv, RetryInv, Walking
  <2> QED
    BY <2>1, <2>2, <2>3 DEF Init, QInv, Queue!Init
<1>2. TInv /\ QInv /\ [Next]_vars => QInv' /\ [Queue!Next]_(Queue!vars)
  BY QueueStep
<1> QED
  BY <1>1, <1>2, TypesInductive, PTL DEF Spec, RefinesQueue, Queue!Spec

(* So no stale file is forgotten, except in those three ways. *)
THEOREM NoFileIsForgotten == ASSUME OneActor PROVE Spec => []NothingForgotten
<1>1. Queue!Init => NothingForgotten
  BY DEF Queue!Init, NothingForgotten, Queue!NothingForgotten
<1>2. NothingForgotten /\ [Queue!Next]_(Queue!vars) => NothingForgotten'
  BY DEF Queue!Next, Queue!Work, Queue!Edit, Queue!vars, NothingForgotten, Queue!NothingForgotten
<1> QED
  BY <1>1, <1>2, ImplementsQueue, PTL DEF RefinesQueue, Queue!Spec
=============================================================================
