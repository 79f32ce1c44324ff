------------------------------ MODULE PostEdit ------------------------------
(***************************************************************************)
(* The post-edit reindex pipeline of heimdall-mcp:                         *)
(*   internal/cli/hook_post_edit.go        the foreground hook             *)
(*   internal/cli/hook_post_edit_actor.go  the detached actor              *)
(*                                                                         *)
(* Every edit in an agent session starts a short-lived hook process, which *)
(* queues the edited file in reindex.pending, takes reindex.lock without   *)
(* waiting, and spawns a detached actor unless one is running or the last  *)
(* run is less than the coalesce window ago. The actor sleeps the window,  *)
(* drains the queue, reindexes the tree and then replays the dead-letter   *)
(* file. The processes share nothing but files, and any of them may die    *)
(* between two steps.                                                      *)
(*                                                                         *)
(* A step is one file operation (or a run of process-local ones); to write *)
(* a file and to rename it are steps of their own where processes share    *)
(* the temporary file. A file's absence is <<>> for the queues and the     *)
(* temporary, {} for the dead letters, NoPid for the pid file. Entries of  *)
(* the dead-letter file are kept as a set: their order and repetition      *)
(* change nothing the code does.                                           *)
(***************************************************************************)
EXTENDS Naturals, Sequences, Functions

CONSTANTS
  File,            \* files of the project
  Hook,            \* hook processes that may run at once
  Actor,           \* pids of actors; one is reused once nothing names it
  NoFile, NoPid, NoHook,
  PendingCap,      \* postEditPendingCap: lines of reindex.pending
  DeadletterCap,   \* deadletterCap: attempts before an entry is dropped
  Faults           \* which failures the environment may inject

ASSUME PendingCapAssumption == PendingCap \in Nat \ {0}
ASSUME DeadletterCapAssumption == DeadletterCap \in Nat \ {0}
ASSUME FaultsAssumption == Faults \subseteq {"crash", "disk", "spawn", "index", "file", "reuse"}
ASSUME NullAssumption == NoFile \notin File /\ NoPid \notin Actor /\ NoHook \notin Hook

VARIABLES
  stale,        \* files edited since the index last read them
  pending,      \* reindex.pending
  pendingTmp,   \* reindex.pending.tmp, which all hooks write, while a hook is
                \* about to rename it
  draining,     \* reindex.pending.draining
  deadletter,   \* reindex.deadletter.jsonl
  inflight,     \* reindex.inflight.pid
  recent,       \* reindex.last_run is less than the coalesce window old
  lock,         \* holder of the flock on reindex.lock
  hpc, hfile, hbuf,                     \* per hook: step, edited file, lines read
  apc, snap, batch, todo, still, late,  \* per actor: step, dead letters at the
                \* start, drained files, entries to retry, entries to write back,
                \* files edited since its current walk of the tree began
  abandoned,    \* history: files given up at a cap, and neither indexed nor
                \* edited since
  lost          \* history: files of which an entry was lost in another way (see
                \* ReadPending, Walked and Rewrite), likewise

files == <<pending, pendingTmp, draining, deadletter, inflight, recent>>
hookVars == <<lock, hpc, hfile, hbuf>>
actorVars == <<apc, snap, batch, todo, still, late>>
history == <<abandoned, lost>>
vars == <<stale, files, hookVars, actorVars, history>>

Entry == [file : File, attempt : 1..DeadletterCap]
HookStep == {"idle", "read", "write", "rename", "lock", "check", "reap", "window", "spawn", "release"}
ActorStep == {"dead", "spawned", "sleep", "drain", "read", "unlink", "index", "bury",
              "replay", "retry", "reread", "rewrite", "exit",
              "taken"}       \* the pid of a dead actor, now another program's
Holding == {"check", "reap", "window", "spawn", "release"}   \* steps under the lock
Window == {"write", "rename"}        \* a hook has read the queue and not replaced it
Walking == {"index", "retry"}        \* steps during which the indexer walks the tree

Disk == "disk" \in Faults            \* a read or write of a file may fail

FilesOf(entries) == {e.file : e \in entries}
Alive(a) == apc[a] # "dead"          \* what kill(pid, 0) answers
Running(a) == apc[a] \notin {"dead", "taken"}

(* lines[len(lines)-capLines:] *)
LastLines(s) ==
  IF Len(s) <= PendingCap THEN s ELSE SubSeq(s, Len(s) - PendingCap + 1, Len(s))

Init ==
  /\ stale = {}
  /\ pending = <<>> /\ pendingTmp = <<>> /\ draining = <<>> /\ deadletter = {}
  /\ inflight = NoPid /\ recent = FALSE
  /\ lock = NoHook
  /\ hpc = [h \in Hook |-> "idle"]
  /\ hfile = [h \in Hook |-> NoFile]
  /\ hbuf = [h \in Hook |-> <<>>]
  /\ apc = [a \in Actor |-> "dead"]
  /\ snap = [a \in Actor |-> {}]
  /\ batch = [a \in Actor |-> {}]
  /\ todo = [a \in Actor |-> {}]
  /\ still = [a \in Actor |-> {}]
  /\ late = [a \in Actor |-> {}]
  /\ abandoned = {} /\ lost = {}

-----------------------------------------------------------------------------
(* The foreground hook: hookPostEditWithDeps.                              *)

HookGo(h, from, to) == hpc[h] = from /\ hpc' = [hpc EXCEPT ![h] = to]

(* An edit of f, and the PostToolUse event that reports it. *)
Fire(h, f) ==
  /\ HookGo(h, "idle", "read")
  /\ hfile' = [hfile EXCEPT ![h] = f]
  /\ stale' = stale \cup {f}
  /\ late' = [a \in Actor |-> IF apc[a] \in Walking THEN late[a] \cup {f} ELSE late[a]]
  /\ abandoned' = abandoned \ {f}
  /\ lost' = lost \ {f}
  /\ UNCHANGED <<files, lock, hbuf, apc, snap, batch, todo, still>>

(* What a hook between its read of the queue and its rename is about to    *)
(* put there.                                                              *)
Lines(h) == Range(IF hpc[h] = "write" THEN hbuf[h] ELSE pendingTmp) \cup {hfile[h]}

(* What is in danger when h reads while another hook is in between.        *)
Overlapped(h) ==
  LET others == {g \in Hook \ {h} : hpc[g] \in Window}
  IN  IF others = {} THEN {}
      ELSE Range(pending) \cup {hfile[h]} \cup UNION {Lines(g) : g \in others}

(* appendPending reads the whole file; a file it cannot read is an empty   *)
(* one. Two hooks that have both read before either renames drop each      *)
(* other's lines.                                                          *)
ReadPending(h) ==
  /\ HookGo(h, "read", "write")
  /\ \/ hbuf' = [hbuf EXCEPT ![h] = pending]
     \/ Disk /\ UNCHANGED hbuf
  /\ lost' = lost \cup (Overlapped(h) \cap stale)
  /\ UNCHANGED <<stale, files, lock, hfile, actorVars, abandoned>>

(* ... writes what it read and one line more, oldest dropped, to the       *)
(* temporary file ...                                                      *)
WritePending(h) ==
  LET lines == Append(hbuf[h], hfile[h])
  IN  /\ HookGo(h, "write", "rename")
      /\ pendingTmp' = LastLines(lines)
      /\ abandoned' = abandoned \cup ((Range(lines) \ Range(LastLines(lines))) \cap stale)
      /\ hbuf' = [hbuf EXCEPT ![h] = <<>>]
      /\ UNCHANGED <<stale, pending, draining, deadletter, inflight, recent,
                     lock, hfile, actorVars, lost>>

HookDone(h) ==
  /\ hfile' = [hfile EXCEPT ![h] = NoFile]
  /\ hbuf' = [hbuf EXCEPT ![h] = <<>>]

(* ... and renames that over the queue, whoever wrote it last; if another  *)
(* hook has renamed it already, this is one more failed append.            *)
RenamePending(h) ==
  /\ HookGo(h, "rename", "lock")
  /\ IF pendingTmp = <<>> THEN UNCHANGED pending ELSE pending' = pendingTmp
  /\ pendingTmp' = <<>>
  /\ HookDone(h)
  /\ UNCHANGED <<stale, draining, deadletter, inflight, recent, lock, actorVars, history>>

(* A temporary that a failed or killed hook leaves behind is written again *)
(* before anybody renames it, so it is not recorded.                       *)
TmpWithout(h) == IF \E g \in Hook \ {h} : hpc[g] = "rename" THEN pendingTmp ELSE <<>>

(* A failed append is logged and the hook goes on; a failed MkdirAll or an *)
(* error of the lock file ends it.                                         *)
HookDiskError(h) ==
  /\ Disk
  /\ \/ HookGo(h, "write", "lock")
     \/ HookGo(h, "rename", "lock")
     \/ HookGo(h, "read", "idle")
     \/ HookGo(h, "lock", "idle")
  /\ HookDone(h)
  /\ pendingTmp' = TmpWithout(h)
  /\ UNCHANGED <<stale, pending, draining, deadletter, inflight, recent, lock, actorVars, history>>

TryLockIgnoringTheHolder(h) ==
  /\ HookGo(h, "lock", "check")
  /\ lock' = h
  /\ UNCHANGED <<stale, files, hfile, hbuf, actorVars, history>>

TryLockBlocking(h) ==
  /\ lock = NoHook
  /\ HookGo(h, "lock", "check")
  /\ lock' = h
  /\ UNCHANGED <<stale, files, hfile, hbuf, actorVars, history>>

(* acquirePostEditFlock: LOCK_EX|LOCK_NB. A hook that finds the lock held  *)
(* returns at once.                                                        *)
TryLock(h) ==
  /\ IF lock = NoHook
       THEN HookGo(h, "lock", "check") /\ lock' = h
       ELSE HookGo(h, "lock", "idle") /\ UNCHANGED lock
  /\ UNCHANGED <<stale, files, hfile, hbuf, actorVars, history>>

CheckInflightTrusting(h) ==
  /\ HookGo(h, "check", IF inflight = NoPid THEN "window" ELSE "release")
  /\ UNCHANGED <<stale, files, lock, hfile, hbuf, actorVars, history>>

(* readPID and killCheck: a live actor ends the hook's work, a dead one is *)
(* reaped, which is a later step: the pid file may be rewritten between.   *)
CheckInflight(h) ==
  /\ \/ inflight = NoPid /\ HookGo(h, "check", "window")
     \/ inflight # NoPid /\ Alive(inflight) /\ HookGo(h, "check", "release")
     \/ inflight # NoPid /\ ~Alive(inflight) /\ HookGo(h, "check", "reap")
     \/ Disk /\ HookGo(h, "check", "window")         \* the pid file cannot be read
  /\ UNCHANGED <<stale, files, lock, hfile, hbuf, actorVars, history>>

ReapOrphan(h) ==
  /\ HookGo(h, "reap", "window")
  /\ \/ inflight' = NoPid
     \/ Disk /\ UNCHANGED inflight
  /\ UNCHANGED <<stale, pending, pendingTmp, draining, deadletter, recent, lock, hfile, hbuf,
                 actorVars, history>>

CheckWindowSwapped(h) ==
  /\ HookGo(h, "window", IF recent THEN "spawn" ELSE "release")
  /\ UNCHANGED <<stale, files, lock, hfile, hbuf, actorVars, history>>

(* A run within the coalesce window: the queue waits for the next event.   *)
(* A time that cannot be read is no run.                                   *)
CheckWindow(h) ==
  /\ \/ HookGo(h, "window", IF recent THEN "release" ELSE "spawn")
     \/ Disk /\ HookGo(h, "window", "spawn")
  /\ UNCHANGED <<stale, files, lock, hfile, hbuf, actorVars, history>>

(* The pids an actor can be given: dead, and not named by the pid file. *)
FreePids == {a \in Actor : apc[a] = "dead" /\ inflight # a}

Spawn(h) ==
  /\ HookGo(h, "spawn", "release")
  /\ \E a \in FreePids : apc' = [apc EXCEPT ![a] = "spawned"]
  /\ UNCHANGED <<stale, files, lock, hfile, hbuf, snap, batch, todo, still, late, history>>

(* Spawn returns an error; also the model's bound on running actors. *)
SpawnFails(h) ==
  /\ "spawn" \in Faults \/ FreePids = {}
  /\ HookGo(h, "spawn", "release")
  /\ UNCHANGED <<stale, files, lock, hfile, hbuf, actorVars, history>>

Release(h) ==
  /\ HookGo(h, "release", "idle")
  /\ lock' = NoHook
  /\ UNCHANGED <<stale, files, hfile, hbuf, actorVars, history>>

(* The harness kills a hook; the kernel drops its flock. *)
HookDies(h) ==
  /\ "crash" \in Faults
  /\ hpc[h] # "idle"
  /\ hpc' = [hpc EXCEPT ![h] = "idle"]
  /\ lock' = IF lock = h THEN NoHook ELSE lock
  /\ HookDone(h)
  /\ pendingTmp' = TmpWithout(h)
  /\ UNCHANGED <<stale, pending, draining, deadletter, inflight, recent, actorVars, history>>

-----------------------------------------------------------------------------
(* The detached actor: runPostEditActor.                                   *)

ActorGo(a, from, to) == apc[a] = from /\ apc' = [apc EXCEPT ![a] = to]

(* The error of writePID is ignored. *)
WritePid(a) ==
  /\ ActorGo(a, "spawned", "sleep")
  /\ \/ inflight' = a
     \/ Disk /\ UNCHANGED inflight
  /\ UNCHANGED <<stale, pending, pendingTmp, draining, deadletter, recent, hookVars,
                 snap, batch, todo, still, late, history>>

(* The coalesce window is over; the dead letters are read before the queue *)
(* is drained. An unreadable file reads as none.                           *)
Wake(a) ==
  /\ ActorGo(a, "sleep", "drain")
  /\ \/ snap' = [snap EXCEPT ![a] = deadletter]
     \/ Disk /\ UNCHANGED snap
  /\ UNCHANGED <<stale, files, hookVars, batch, todo, still, late, history>>

(* drainPending: rename the queue (over an earlier one left behind), read  *)
(* it, remove it; each may meet another actor's. An error leaves nothing   *)
(* to index.                                                               *)
DrainFails(a) ==
  /\ Disk
  /\ ActorGo(a, "drain", "replay")
  /\ UNCHANGED <<stale, files, hookVars, snap, batch, todo, still, late, history>>

DrainRename(a) ==
  /\ IF pending = <<>>
       THEN ActorGo(a, "drain", "replay") /\ UNCHANGED <<pending, draining>>
       ELSE /\ ActorGo(a, "drain", "read")
            /\ draining' = pending
            /\ pending' = <<>>
  /\ UNCHANGED <<stale, pendingTmp, deadletter, inflight, recent, hookVars,
                 snap, batch, todo, still, late, history>>

DrainRead(a) ==
  /\ ActorGo(a, "read", "unlink")
  /\ \/ batch' = [batch EXCEPT ![a] = Range(draining)]
     \/ Disk /\ UNCHANGED batch
  /\ UNCHANGED <<stale, files, hookVars, snap, todo, still, late, history>>

DrainUnlink(a) ==
  /\ ActorGo(a, "unlink", IF batch[a] = {} THEN "replay" ELSE "index")
  /\ \/ draining' = <<>>
     \/ Disk /\ UNCHANGED draining
  /\ UNCHANGED <<stale, pending, pendingTmp, deadletter, inflight, recent, hookVars,
                 snap, batch, todo, still, late, history>>

(* Files brought up to date. *)
Indexed(read) ==
  /\ stale' = stale \ read
  /\ abandoned' = abandoned \ read

(* Reindex succeeded: the walk came to every file edited before it began,  *)
(* and to any of those edited since. A file that could not be read, cut,   *)
(* embedded or stored is only named in the result, which Reindex discards; *)
(* the entries the caller drops on success are then lost.                  *)
Walked(a, dropped) ==
  \E read \in SUBSET stale :
    LET failed == stale \ (read \cup late[a])
    IN  /\ failed = {} \/ "file" \in Faults
        /\ Indexed(read)
        /\ lost' = (lost \ read) \cup (failed \cap dropped)

(* Reindex failed (ping, store or index error): it read any part. *)
WalkFailed ==
  /\ "index" \in Faults
  /\ \E read \in SUBSET stale :
       /\ Indexed(read)
       /\ lost' = lost \ read

(* The error of writeLastRun is ignored. *)
IndexOk(a) ==
  /\ ActorGo(a, "index", "replay")
  /\ Walked(a, batch[a])
  /\ \/ recent' = TRUE
     \/ Disk /\ UNCHANGED recent
  /\ batch' = [batch EXCEPT ![a] = {}]
  /\ late' = [late EXCEPT ![a] = {}]
  /\ UNCHANGED <<pending, pendingTmp, draining, deadletter, inflight, hookVars, snap, todo, still>>

IndexFail(a) ==
  /\ ActorGo(a, "index", "bury")
  /\ WalkFailed
  /\ late' = [late EXCEPT ![a] = {}]
  /\ UNCHANGED <<files, hookVars, snap, batch, todo, still>>

(* appendDeadletter, once for each drained file; its errors are swallowed. *)
Bury(a) ==
  /\ \E f \in batch[a] :
       /\ ActorGo(a, "bury", IF batch[a] = {f} THEN "replay" ELSE "bury")
       /\ \/ deadletter' = deadletter \cup {[file |-> f, attempt |-> 1]}
          \/ Disk /\ UNCHANGED deadletter
       /\ batch' = [batch EXCEPT ![a] = @ \ {f}]
  /\ UNCHANGED <<stale, pending, pendingTmp, draining, inflight, recent, hookVars,
                 snap, todo, still, late, history>>

(* replayStaleDeadletter: nothing to do without a snapshot; entries at the *)
(* cap are dropped, the others retried one walk each.                      *)
Capped(entries) == {e \in entries : e.attempt >= DeadletterCap}

ReplayStart(a) ==
  LET retries == snap[a] \ Capped(snap[a])
  IN  /\ ActorGo(a, "replay", IF snap[a] = {} THEN "exit"
                              ELSE IF retries = {} THEN "reread" ELSE "retry")
      /\ todo' = [todo EXCEPT ![a] = retries]
      /\ UNCHANGED <<stale, files, hookVars, snap, batch, still, late, history>>

RetryNext(a, e) ==
  /\ ActorGo(a, "retry", IF todo[a] = {e} THEN "reread" ELSE "retry")
  /\ todo' = [todo EXCEPT ![a] = @ \ {e}]
  /\ late' = [late EXCEPT ![a] = {}]
  /\ UNCHANGED <<files, hookVars, snap, batch>>

RetryOk(a) ==
  /\ \E e \in todo[a] : RetryNext(a, e) /\ Walked(a, {e.file})
  /\ UNCHANGED still

RetryFailUncounted(a) ==
  /\ \E e \in todo[a] : RetryNext(a, e) /\ still' = [still EXCEPT ![a] = @ \cup {e}]
  /\ WalkFailed

RetryFail(a) ==
  /\ \E e \in todo[a] :
       /\ RetryNext(a, e)
       /\ still' = [still EXCEPT ![a] = @ \cup {[e EXCEPT !.attempt = @ + 1]}]
  /\ WalkFailed

RereadForgettingRetries(a) ==
  /\ ActorGo(a, "reread", "rewrite")
  /\ still' = [still EXCEPT ![a] = {e \in deadletter : e.file \notin FilesOf(snap[a])}]
  /\ UNCHANGED <<stale, files, hookVars, snap, batch, todo, late, history>>

(* The merge: what is in the file now for files outside the snapshot, and  *)
(* the survivors of the retries. An unreadable file reads as none.         *)
Reread(a) ==
  /\ ActorGo(a, "reread", "rewrite")
  /\ \/ still' = [still EXCEPT ![a] =
                    {e \in deadletter : e.file \notin FilesOf(snap[a])} \cup @]
     \/ Disk /\ UNCHANGED still
  /\ UNCHANGED <<stale, files, hookVars, snap, batch, todo, late, history>>

(* The file is replaced. Entries at the cap are given up; an entry of the  *)
(* same file that this pass has added is lost with them.                   *)
Rewrite(a) ==
  LET out == (FilesOf(Capped(snap[a])) \cap stale) \ FilesOf(still[a])
      fresh == FilesOf(deadletter \ snap[a])
  IN  /\ ActorGo(a, "rewrite", "exit")
      /\ \/ /\ deadletter' = still[a]
            /\ abandoned' = abandoned \cup (out \ fresh)
            /\ lost' = lost \cup (out \cap fresh)
         \/ Disk /\ UNCHANGED <<deadletter, history>>
      /\ UNCHANGED <<stale, pending, pendingTmp, draining, inflight, recent, hookVars,
                     snap, batch, todo, still, late>>

Forget(a) ==
  /\ snap' = [snap EXCEPT ![a] = {}]
  /\ batch' = [batch EXCEPT ![a] = {}]
  /\ todo' = [todo EXCEPT ![a] = {}]
  /\ still' = [still EXCEPT ![a] = {}]
  /\ late' = [late EXCEPT ![a] = {}]

(* The deferred removal of the pid file, whoever wrote it. *)
Exit(a) ==
  /\ ActorGo(a, "exit", "dead")
  /\ \/ inflight' = NoPid
     \/ Disk /\ UNCHANGED inflight
  /\ Forget(a)
  /\ UNCHANGED <<stale, pending, pendingTmp, draining, deadletter, recent, hookVars, history>>

(* MkdirAll fails: the actor returns before it has done anything. *)
ActorNoDir(a) ==
  /\ Disk
  /\ ActorGo(a, "spawned", "dead")
  /\ UNCHANGED <<stale, files, hookVars, snap, batch, todo, still, late, history>>

ActorDies(a) ==
  /\ "crash" \in Faults
  /\ Running(a)
  /\ apc' = [apc EXCEPT ![a] = "dead"]
  /\ Forget(a)
  /\ UNCHANGED <<stale, files, hookVars, history>>

(* The pid file outlives its actor and the kernel hands the pid out again. *)
PidTaken(a) ==
  /\ "reuse" \in Faults
  /\ inflight = a
  /\ \/ ActorGo(a, "dead", "taken")
     \/ ActorGo(a, "taken", "dead")
  /\ UNCHANGED <<stale, files, hookVars, snap, batch, todo, still, late, history>>

(* Two seconds pass after a run. *)
WindowElapses ==
  /\ recent
  /\ recent' = FALSE
  /\ UNCHANGED <<stale, pending, pendingTmp, draining, deadletter, inflight, hookVars, actorVars, history>>

-----------------------------------------------------------------------------
HookRuns(h) ==
  \/ ReadPending(h) \/ WritePending(h) \/ RenamePending(h) \/ TryLock(h) \/ CheckInflight(h) \/ ReapOrphan(h)
  \/ CheckWindow(h) \/ Spawn(h) \/ SpawnFails(h) \/ Release(h)

ActorRuns(a) ==
  \/ WritePid(a) \/ ActorNoDir(a) \/ Wake(a) \/ DrainFails(a) \/ DrainRename(a) \/ DrainRead(a) \/ DrainUnlink(a)
  \/ IndexOk(a) \/ IndexFail(a) \/ Bury(a) \/ ReplayStart(a) \/ RetryOk(a) \/ RetryFail(a)
  \/ Reread(a) \/ Rewrite(a) \/ Exit(a)

Next ==
  \/ \E h \in Hook : \/ \E f \in File : Fire(h, f)
                     \/ HookRuns(h) \/ HookDiskError(h) \/ HookDies(h)
  \/ \E a \in Actor : ActorRuns(a) \/ ActorDies(a) \/ PidTaken(a)
  \/ WindowElapses

Spec == Init /\ [][Next]_vars

(* A process that is not killed keeps running (its calls return: every     *)
(* request of a walk has a deadline), and time passes. Nobody promises     *)
(* another edit, and no failure is owed.                                   *)
Fairness ==
  /\ \A h \in Hook : WF_vars(HookRuns(h))
  /\ \A a \in Actor : WF_vars(ActorRuns(a))
  /\ WF_vars(WindowElapses)

FairSpec == Spec /\ Fairness

-----------------------------------------------------------------------------
TypeOK ==
  /\ stale \subseteq File /\ abandoned \subseteq File /\ lost \subseteq File
  /\ pending \in Seq(File) /\ Len(pending) <= PendingCap
  /\ pendingTmp \in Seq(File) /\ Len(pendingTmp) <= PendingCap
  /\ draining \in Seq(File)
  /\ deadletter \subseteq Entry
  /\ inflight \in Actor \cup {NoPid}
  /\ recent \in BOOLEAN
  /\ lock \in Hook \cup {NoHook}
  /\ hpc \in [Hook -> HookStep]
  /\ hfile \in [Hook -> File \cup {NoFile}]
  /\ hbuf \in [Hook -> Seq(File)]
  /\ apc \in [Actor -> ActorStep]
  /\ snap \in [Actor -> SUBSET Entry]
  /\ batch \in [Actor -> SUBSET File]
  /\ todo \in [Actor -> SUBSET Entry]
  /\ still \in [Actor -> SUBSET Entry]
  /\ late \in [Actor -> SUBSET File]

(* The files some queue, dead letter or process still answers for. *)
Owed ==
  Range(pending) \cup Range(draining) \cup FilesOf(deadletter)
    \cup {hfile[h] : h \in {x \in Hook : hpc[x] \in {"read", "write", "rename"}}}
    \cup UNION {batch[a] : a \in Actor}

Queue == INSTANCE ReindexQueue WITH owed <- Owed

(* With one actor, and whatever hooks overlap and the indexer does, the    *)
(* pipeline is a ReindexQueue: a file leaves the queues only indexed,      *)
(* given up at a cap, or in one of the three ways an entry is lost.        *)
RefinesQueue == Queue!Spec

(* A stale file is in the queue, in the dead letters or in the hands of a  *)
(* process, unless it was given up at a cap or lost.                       *)
NothingForgotten == Queue!NothingForgotten

(* One hook at a time decides whether to spawn, also when hooks are killed *)
(* while they hold the lock.                                               *)
OneDecider == \A g, h \in Hook : hpc[g] \in Holding /\ hpc[h] \in Holding => g = h

(* Only an actor that is past its first step is named by the pid file, or  *)
(* one that died: a hook that finds a live pid there may rely on a pass    *)
(* that is under way.                                                      *)
PidNamesARun == inflight # NoPid => apc[inflight] # "spawned"

(* What a hook may rely on when it decides: no other hook decides with it, *)
(* and the pid it finds is not that of an actor yet to begin.              *)
DecisionIsSound == OneDecider /\ PidNamesARun

(* The foreground hook never waits: whatever other processes do, it        *)
(* returns. And an actor ends, however often the indexer fails it.         *)
AtWork(p) == IF p \in Hook THEN hpc[p] # "idle" ELSE Running(p)
EveryProcessEnds == \A p \in Hook \cup Actor : []<>~AtWork(p)

(* What the environment may do to a process, and not what the process      *)
(* could have done itself.                                                 *)
HookFails(h) ==
  \/ HookDiskError(h) /\ ~HookRuns(h)
  \/ HookDies(h) /\ ~HookRuns(h)
  \/ SpawnFails(h) /\ FreePids # {}
  \/ ReadPending(h) /\ hbuf'[h] # pending
  \/ CheckInflight(h) /\ inflight # NoPid /\ hpc'[h] = "window"
  \/ ReapOrphan(h) /\ inflight' # NoPid
  \/ CheckWindow(h) /\ recent /\ hpc'[h] = "spawn"
ActorFails(a) ==
  \/ ActorDies(a) /\ ~ActorRuns(a)
  \/ DrainFails(a) /\ ~DrainRename(a)
  \/ ActorNoDir(a) \/ PidTaken(a)
  \/ WritePid(a) /\ inflight' # a
  \/ Wake(a) /\ snap'[a] # deadletter
  \/ DrainRead(a) /\ batch'[a] # Range(draining)
  \/ DrainUnlink(a) /\ draining' # <<>>
  \/ IndexOk(a) /\ ~recent'
  \/ Reread(a) /\ ~({e \in deadletter : e.file \notin FilesOf(snap[a])} \subseteq still'[a])
  \/ Rewrite(a) /\ deadletter' # still[a]
  \/ Exit(a) /\ inflight' # NoPid

(* From some time on no process is killed, no file operation and no spawn  *)
(* fails; and in the end the pids of actors are nobody else's.             *)
StepsSucceed ==
  <>[][~((\E h \in Hook : HookFails(h)) \/ (\E a \in Actor : ActorFails(a)))]_vars
FailuresStop == StepsSucceed /\ <>[](\A a \in Actor : apc[a] # "taken")

(* The state files never wedge the pipeline: as long as edits keep coming  *)
(* passes keep starting, whichever hooks and actors were killed before,    *)
(* whichever of their reads and writes failed and whatever they left.      *)
Edits == \E h \in Hook : hpc[h] = "read"
PassStarts == \E a \in Actor : apc[a] = "drain"
PipelineNeverWedges == []<>Edits /\ FailuresStop => []<>PassStarts

(* An entry of the dead-letter file does not stay: if passes keep ending,  *)
(* its file is indexed or the entry reaches the cap, even when every       *)
(* retry fails.                                                            *)
PassEnds == \E a \in Actor : apc[a] = "exit"
PoisonEntryLeaves ==
  []<>PassEnds /\ FailuresStop => \A e \in Entry : []<>(e \notin deadletter)

(* No walk fails any more, and none leaves out a file.                     *)
WalkFails(a) ==
  \/ IndexFail(a) \/ RetryFail(a)
  \/ (IndexOk(a) \/ RetryOk(a)) /\ ~(stale' \subseteq late[a])
WalksSucceed == <>[][~\E a \in Actor : WalkFails(a)]_vars

(* A file that is no longer edited becomes indexed, if other edits keep    *)
(* the pipeline going and failures stop.                                   *)
QuietFileIndexed ==
  \A f \in File :
    ([]<>Edits /\ <>[][\A h \in Hook : ~Fire(h, f)]_vars /\ WalksSucceed /\ FailuresStop) => <>[](f \notin stale)

-----------------------------------------------------------------------------
(* What comments, tests and design documents of the repository say and the *)
(* code does not do.                                                       *)

(* 04-failure-modes.md A.4: the append is atomic; hook_post_edit_actor.go, *)
(* replayStaleDeadletter: failures are persisted. So a stale file would be *)
(* owed or given up at a cap, and none lost.                               *)
EntriesAreKept == stale \subseteq Owed \cup abandoned

(* hook_post_edit_actor.go, replayStaleDeadletter: entries appended after  *)
(* the snapshot, by the current pass, are preserved untouched.             *)
FreshEntriesPreserved ==
  [][\A a \in Actor : apc[a] = "rewrite" /\ apc'[a] = "exit" =>
       \A e \in deadletter \ snap[a] : e \in deadletter']_vars

(* hook_post_edit.go: a live pid while the lock was free is only possible  *)
(* if flock is unsupported; this module is the flock build.                *)
FreeLockMeansNoActor ==
  \A h \in Hook : hpc[h] = "check" => inflight = NoPid \/ ~Alive(inflight)

(* 04-failure-modes.md A.4: the orphaned pid of an actor that died is      *)
(* handled by the reaper (as long as hooks keep firing).                   *)
OrphanIsReaped ==
  []<>Edits /\ StepsSucceed =>
    \A a \in Actor : (inflight = a /\ ~Running(a)) ~> (inflight # a \/ Running(a))

(* 04-failure-modes.md A.4: a hook that finds the lock held exits, the     *)
(* existing holder picks its path up.                                      *)
HolderPicksUp ==
  \A f \in File : (f \in Range(pending)) ~> (f \notin Range(pending))
=============================================================================
