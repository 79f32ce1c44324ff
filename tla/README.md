# TLA+ verification of heimdall-mcp

heimdall-mcp gives a coding agent a searchable memory of a project: an MCP server and a set of
editor hooks share, per project, one SQLite store of embedded chunks and a handful of small state
files. Nearly all of its difficulty is in how short-lived processes (hooks, a detached actor, CLI
commands, one or more servers) share those files without talking to each other. This directory holds
TLA+ modules of the parts where that matters, TLC configurations that check them on small instances,
and TLAPS proofs of the main invariants for instances of any size.

    tlc -config MCPostEdit_queue.cfg MCPostEdit     # model-check one configuration
    tlapm PostEditProofs.tla                        # check the proofs of one module

Paths below are relative to `src/` of the repository; `hook_post_edit.go` is
`src/internal/cli/hook_post_edit.go` and so on. `PROJECT.json` maps every definition to the lines it
stands for, and lists runs, mutants, hazards, findings and theorems.

## 1. Inventory

### Components that keep state shared by concurrent actors

| Component | Module | State | Operations | What is hard | What makes it correct |
|---|---|---|---|---|---|
| Post-edit pipeline (`cli/hook_post_edit.go`, `hook_post_edit_actor.go`) | PostEdit, ReindexQueue | `reindex.pending`, `.draining`, `reindex.deadletter`, `inflight.pid`, `reindex.lock`, `last_run` | hook: append, try-lock, check pid, reap, window, spawn; actor: pid, sleep, drain, index, bury, replay, exit | read-modify-rename without a lock over a temporary that all hooks share, passes that succeed without some of the files, pid files and pid reuse, a snapshot merged after a pass, death between any two file operations | an edited file is in some queue until it is indexed, given up at a cap, or lost in one of three named ways; one hook decides; never wedged |
| Its lock without flock (`hook_post_edit.go:385`) | FallbackLock | lock file, shared temporary file, the time in each | link, read, steal, sign, remove | stealing is four steps, the temporary has one name for all, a slow holder outlives its time | hooks that do not overlap exclude each other; killed ones do not lock the rest out |
| Embedding client (`heimdall/ollama.go`, `embedder.go`) | EmbedClient | semaphore per client, attempts, contexts | acquire, attempt, judge a failure, back off, release | three ways to end each wait, release on every path | slots accounted for, cap respected, calls end |
| Hook cache (`heimdall/hook_cache.go`, writers in `store.go`, `lifecycle.go`) | HookCache | `hook_cache` rows, `index_version`, a cached row count per process | version + lookup, search, put, count, evict, clear; index writes | a key computed before the search it names, puts of slow hooks, eviction by a stale count | no answer older than the index it was asked of; bounded size |
| Background indexing (`mcp/tools.go`, `types.go`) | IndexState | `IndexState` under a mutex, a progress channel, contexts | `heimdall_index`, search's auto-start, runner goroutine, stall detection, post phase, status | `Running` cleared while the goroutine goes on, one shared `Cancel`, buffered channel without a reader | one run at a time, reports of one run, every run ends and delivers |
| Indexer (`heimdall/indexer.go`, `store.go`) | Indexer | rows with `mod_time` and `content_hash` | walk, `isUpToDate`, chunk, hash, stat, embed, upsert | three reads of one file, rows of earlier contents that are never removed, comparison by seconds | what is skipped is indexed; what is indexed is not read again |
| Store directories (`heimdall/migrate.go`, `dbpath.go`, `schema/`) | StoreDirs | up to three directories, two lock files, pre-open log, recorded version | migrate to model dir, rename `_latest`, choose, open, record, clean up | choosing and opening are two steps, stale lock rules, kills inside a migration | no row lost, rows visible, one migrator, legacy layouts go away |
| Lifecycle, use and ranking of chunks (`lifecycle.go`, `retriever.go`, `store.go`) | Lifecycle | archived flag and last use of each chunk | search, mark as used, archive, prune, count, cap; upsert | four statements of one lifecycle between those of another server's | what was served lately stays; the cap does not take too much |
| Memory and skills (`memory*.go`, `memory_tools.go`, `ingest_session.go`, `skills_sync.go`) | Memory | one table of memories for all projects, SKILL.md files | remember, ingest a session, import skills, recall | look-up, similarity check and upsert are statements of different moments; imports of many statements, each of which may fail | one memory per text; what was remembered stays; files and rows agree in the end |
| Registry and index command (`registry/registry.go`, `cli/cli.go`, `discover.go`, `heimdall/resume.go`) | Projects | one JSON file, a copy in each server, a resume marker per project | load, repair, register, save; choose models, index, register sub-repositories | whole-file rewrite by several processes, files that cannot be read, a run cut off anywhere | entries leave only by a stale or an unread copy; what later commands read of a run is true of it |
| Configuration (`config/config.go`, `config_tools.go`, `cli.go`) | Config | one JSON file, a copy in each server, the old directory and a lock | load, migrate, apply the environment, set, save, edit by hand | saved whole from an old copy, written in place, zeros that mean "unset" | what was set stays set |
| Claude Code's settings (`cli/install.go`) | Settings | `settings.json`, backups | install, uninstall, renew at a session start | read and replaced without a lock beside the user's edits | no user's command lost; starts and commands do not fight |
| Hook log (`heimdall/hooklog.go`) | HookLog | log and its old generation, a follower's open file | append, rotate, follow | the size is looked at before the open, two rotations at once, a rename that fails, a file renamed under its reader, also between its look and its open | bounded; nothing is printed twice; the follower moves on or ends |
| Session buffers (`cli/hook_stop.go`) | Buffers | `<id>.jsonl` per session, `_orphaned/` | append at Stop, remove at the end, sweep at a start | sweep against live sessions, ends that never come | buffers of dead sessions leave |
| Last session's review (`hook_stop.go`, `hook.go`) | Reviews | one file | written by an end, shown and removed by a start | ends and starts overlap, the removal may fail | a review that was removed is not shown to a later start |
| Nag (`cli/hook_nag.go`) | Nag | a file per session, lines of `hooks.log` | count prompts, look for calls since, nag | late lines, rotation, clocks to the second, resumed sessions | a nag on the nth prompt in a row without a call, and then only |
| Suppression of notes (`heimdall/suppress.go`) | TierB | when each note was last shown | query, insert | check and record are two statements | once per window unless hooks overlap |

### Components that read what others wrote, or compute

| Component | Module | What is hard | What makes it correct |
|---|---|---|---|
| Transcript readers (`hook_stop.go`, `missed_calls.go`) | Compliance | three readers walk the same lines on their own | they agree |
| Drift report (`transcript.go`, `semantic_drift.go`, `hook_user_prompt.go`) | Drift | two records of one session joined by position | nobody is accused of what did not happen |
| Guardrail and its audit (`hook_pre_tool_use.go`, `destructive_ops.go`, `llm_classifier.go`, `hooks_audit.go`) | Guardrail | wrappers, rules that overrule each other, a model that may fail, a log that several events share | verdict, exit code, log and count agree |
| Chunker (`indexer.go:753`) | Chunker | boundaries at the limit, blank lines, long lines | the chunks cover the file in order, within the limit |

Formatting of what hooks print, the server's request loop (one request after the other,
`cmd/heimdall-mcp/main.go`), `doctor` and its like, the git indexer, argument handling and the
benchmarks keep no state of their own. `PROJECT.json` lists each component with what is, and what is
not, modelled of it.

### How they interact

    editor ── edit ──► post-edit hook ──► reindex.pending ──► actor ──► Indexer ──► store
       │                                                                  │ ▲
       ├── prompt ──► prompt hook ──► hook_cache ──(miss)──► search ──────┘ │
       │                 └──► nag state ◄── hooks.log ◄── every hook, server│
       ├── command ─► guardrail ──► hooks.log ──► audit, drift report       │
       └── stop, end ► session buffer ──► ingest ──► memory ──► store       │
    next start ◄── review, orphan sweep, settings.json renewed              │
    agent ── MCP ──► server ──► IndexState ──► runner ──► Chunker, Indexer ─┘
                       │                                    └──► embedding client ──► Ollama
                       └──► registry, config.json (whole copies of both)
    every search ──► lifecycle over the store;  every opener of a store ──► migrations

Hooks and actor meet only in files; hooks, servers and CLI only in the database and its directories;
the goroutines of one server through a mutex and a channel. No component waits for another process
except for SQLite's lock and for Ollama.

## 2. Modules

Each component has one module (variables, `Init`, one action per step, `Next`, properties; a fair
specification where liveness is checked). An `MC…` module holds the symmetry sets and definitions the
configurations need, and a `…Proofs` module the theorems. The helpers of the modules are
free of `RECURSIVE` (folds and recursive functions), so that every module can be proved about. An operator
that a comment calls a *mutant* is not reached from `Next`: put in the place of the operator after
it, it is a bug that the property of `PROJECT.json`'s list must notice.

**MCHooks** and **MCRecords** compose small components that share no state: one behaviour runs one of
them, named by the variable `part`, and the others stay as they begin. Their state spaces therefore
add up instead of multiplying, and each property is checked over its own part in full.

### Pipeline and store

**ReindexQueue** is the abstract specification of the post-edit pipeline: a set of stale files and a
set of files somebody owes work on; an edit adds to both, and work may only take a file out when it is
indexed, given up at a cap, or `lost`. There are three ways to lose one, and the code guards against
none: hooks that overlap drop each other's lines; a file that fails in a pass that succeeds is only
named in a result that `Reindex` discards (`indexer.go:640`, `:679`, `:729`, `hook_post_edit.go:565`);
and a dead letter added for a file goes with an older one of that file at its cap. The refinement says
that there is no fourth. **PostEdit** implements it under the mapping `Queue`: `owed` is the
union of the queue, the drained file, the dead letters and what processes hold in memory.

**PostEdit** has a program counter per hook and per actor. A step is one operation on a shared file.
`Fire … Release` follow `hookPostEditWithDeps` and `appendPending` line by line, `WritePid … Exit` follow
`runPostEditActor`, `drainPending`, `appendDeadletter` and `replayStaleDeadletter`. The append is three
steps – read the queue, write the temporary, rename it – because the temporary, `reindex.pending.tmp`,
has one name for all hooks (`hook_post_edit.go:279`), so that a hook may rename what another wrote.
That `os.WriteFile` truncates before it writes is not split: it matters to overlapping hooks only, whose
lines count as lost anyway. A queue that cannot be read is an empty one to the append (`:269`), and the
errors of `writePID` and `writeLastRun` are ignored, as in the code. A walk that succeeds may leave out files
(Faults "file"). A flock belongs to its process and dies with it; a pid file does not. The
drain is three steps (rename, read, unlink), and a drained file that a dead actor left behind is
replaced by the next drain, as in the code. `HookDies`/`ActorDies` may happen at every step, `HookDiskError`/`DrainFails`
stand for failed file operations, `PidTaken` for a dead actor's pid given to another process.

**FallbackLock** is the same lock where the file system has no flock. A name leads to a file and two
names may lead to one, because a lock is made by a hard link: the temporary, whose name all hooks
share, may be truncated through the lock. What a file holds is nothing, a young time or an old one.
`raced` becomes true when a hook comes while another is still getting the lock, or when the time to
live passes under a holder: exclusion is promised until then.

**EmbedClient** has one counter per caller: `GetClient` (a server's lazily made client), `Acquire`,
`Attempt`, then `Answer`, `Error` or `TimeOut`, then `Judge` (`isRetryable` with the two contexts),
`Retry` after the backoff or `StopWaiting`, `Release` by the deferred function. Deadlines are abstracted to what
the code tells apart: none, far, near, done.

**HookCache** has one counter per prompt hook; a step is one SQL statement, since every hook is a
process with its own handle and the Go mutex orders nothing between them. The index is its
generation; an answer is the generation it was computed from, so that staleness is a comparison.
`version` is the generation of the last write that bumped it (the code compares versions for
equality only). `since` (the version at a hook's prompt) and `cut` (puts that were cut off before
they evicted) are history variables that no action reads for its guard, the bound of `cut` apart.

**IndexState** has two goroutines per run. `StartIndex`/`SearchStarts` are the critical sections of
the tool handlers, `Ping … CleanUp` the runner, `NextFile … SendDone` the indexer's side of the
channel, which is a bounded sequence. `Expire` is a context running out at a moment of nobody's
choosing; `Hang` an indexer that never gets an answer, which only stall detection ends.

**Indexer** models one pass per process over a tree that is edited meanwhile. A content stands for
its bytes and its hash; `Layout` says which line ranges the chunker cuts it into, which matters
because a row's key is file and line range and rows of an earlier content are never removed. The
three reads of a file (`ReadChunks`, `HashFile`, `StatAgain`) are three steps.

**Chunker** is how a file is cut. A file is the offsets at which its lines end, a step of `AddLine` is
one turn of the loop of `chunkFile`; a chunk is its line range and the length of its text.

**StoreDirs** models every process that opens a store, from the choice of a directory to the close of
the handle, over the three layouts of three releases. `Start` are the layouts an upgraded
installation may find. A handle follows its file through renames, as on a POSIX file system.

**Lifecycle** models servers that search one store: `ToolSearch` ranks by likeness and freshness,
ties in any order, within the limits on number and tokens; `UpdateLastAccessed`, `ArchiveStage`,
`PruneStage`, `CountStage` and `CapStage` are single statements. The throttle is modelled by what it
does, which is nothing (section 4). `shownOn`, the day a chunk was last marked as served, is a history
variable.

**Memory** models the writers of the table of memories (`Remember…`, `Ingest…`: servers, session-end hooks and
the command line, each with its own handle) beside one import of skills. A step is one SQL statement with what the process
computes from it, so that what a writer read may be old when it writes. A text stands for its hash
and its vector, `Near` says which are over the threshold; an id is the source and the text that made
the row, which stays when the row gets another text. `overlapped` is a history variable.

### Files beside the store

**HookLog**: a writer's look at the size, rotation, open and append are four steps; a file keeps its
number when it is renamed, so that a writer or a follower goes on with what it has open. A rename may
fail, after which the writer appends to the full file, as `hooklog.go:131` means it to; the history
variable `kept` counts these. The follower's look at the path and its open are two steps, and an open
that fails ends it with an error (`hooklog.go:354-364`); its look fails only where there is no file.
**Buffers**: Stop, SessionEnd and the SessionStart sweep as processes; a rename or a removal takes what
has the name by then. **Reviews**: the file's write, read and unlink, with a review written in between;
the unlink may fail, and then the review is `stuck`. **Nag**: one evaluation per prompt over state file
and log; a call and its line are two steps, a line may be rotated away, and a log that cannot be read
answers "no call". **TierB**: the query and the insert; `alone` says that no other hook was between the
two and nothing failed. **Projects**: `registryFile`, one copy per process; `ReadResumeMarker …
DeleteResumeMarker` is one `index` command, `ServerIndex` one run of a server, `StopRun` a kill. A
registry that cannot be read or parsed loads empty, a reserved name is not registered
(`registry.go:195`), a marker that cannot be read is deleted (`cli.go:260`), the temporary of the marker
is shared by the runs of a directory (`resume.go:76`), and the discovery of sub-repositories may fail.
**Config**: truncating and filling the file are two steps, between which a load finds nothing; two
writers may leave a torn file. **Settings**: the functions that merge, renew and take out entries are
operators over the entries of an event, a function from their places (an entry that is taken out leaves
a gap, which no code looks at); read, backup and replacement are steps.

### Records of a session

**Compliance** and **Drift** build a transcript (and a log) line by line, each state being one a
session may end in, and compare what the readers compute from it: a loop of theirs is a recursive
function of the number of lines read. In Compliance a line has the role that `extractRoleAndContent`
parses, with its fallback to the type of the entry (`transcript_shape.go:50-55`), and the role
`roleFromLine` finds first in the bytes (`hook_stop.go:302`); `Nameless` are the types of entry whose
message may lack a role. In Drift the hook of a prompt is a process: it logs the lines of errors, of the
nag and of the prompt one by one with its output in between, and may be killed between any two; a line
may fail to be written, and the log may be rotated. `intact` is true while none of these has happened.
**Guardrail** has one action per command the hook judges; the audit is an operator over the log. The
answer "hushed" of the second classifier is one that is not reached while no note of it is due: when a
note is due, overlaps and errors of the store included, is the module TierB's matter.

## 3. Runs

| Run | Instance | Shows |
|---|---|---|
| `queue` | 2 overlapping hooks, each of a session with a file of its own, 1 actor, caps 1 (queue) and 2 (dead letters), failing walks and files that fail in a walk that succeeds | PostEdit implements ReindexQueue (`RefinesQueue`), so a file is forgotten in the three named ways only; a file left alone becomes indexed |
| `faults` | 2 hooks, 1 actor, 1 file, caps 1 and 2, every fault | one decider and a true pid file (`DecisionIsSound`), hooks and actors end, the pipeline is never wedged by what a death leaves, a poison entry leaves the dead letters |
| `hooks` | one part in each behaviour. Log: 2 writers, 5 lines, limit 2, failing renames and opens. Buffers: 2 sessions. Lock: 2 hooks, kills. Embedding: 2 callers, 2 clients, 1 slot, 1 retry, batches of 2, up to 3 texts | types, the log's bound and no line printed twice (`HooksSound`); `FollowerMovesOn`; `AbandonedBufferLeaves`; `OneAtATimeExcludes` and `LockRecovers`; `CapKept`, `EveryCallEnds` |
| `records` | one part in each behaviour, see below | `FreshAnswer`, `CapOvershoot` (cache); `SessionIsReadFairly` (transcript readers, drift); `VerdictsHold` (guardrail); `OnlyStaleCopiesUndo` (configuration); `EntriesLeaveOnlyByOverlap`, `RunsAreFoundAgain` (registry); `NagExactly`; `NoteOncePerWindow`; `ReviewShownOnce`; `ChangesUndoNothing` (settings); `UsedIsKept` (lifecycle); `ChunksCover` (chunker); `RecordsTypeOK` |
| `index_state` | 2 overlapping runs, 2 directories, 1 file, channel of 1, every fault | `Running`, path and result are of one run (`StateIsOfOneRun`), every run ends |
| `index_delivers` (violation) | 2 runs, no fault | a run that nothing disturbs ends cancelled (finding 1) |
| `indexer` | 2 files, 4 contents over 3 overlapping line ranges, 1 pass at a time, 4 seconds, failing embed and upsert, cancel, kill | what is skipped is indexed, what is indexed is not read again, a file left alone becomes indexed |
| `indexer_revert` (violation) | 1 file that goes back to an earlier content | a file is skipped with part of it missing (finding 2) |
| `dirs_rename` | 2 processes, 3 rows, layouts of the last two releases, kills, slow migrations, errors | no row is lost, whoever migrates, crashes or opens in between |
| `dirs_lock` | 3 processes, layouts with something to migrate, clean-up command, errors | one migrator while nobody is killed or slow |
| `dirs_alone` | 1 process at a time, all layouts, kills, errors | everything stored is found after the first migrating job; the legacy directory goes away |
| `memory` | 2 writers, 2 calls, 3 texts of which one is near the others, 1 skill of one or two parts, semantic cap 2, every fault | no text is stored twice until writers overlap, what is remembered stays, skill files and rows converge |

The parts of `records`: the cache with 2 hooks, 1 prompt, cap 1, TTL 0 and 2 writes, every fault but a
failed version query; transcripts of up to 4 lines, in which the messages of users and assistants name
their role; sessions of up to 4 lines of transcript with hooks that log one error more at most; up to 2
commands of 6 forms under 4 settings of the guardrail over 3 hours; a server and a shell with 2 saves
of the configuration; 2 index commands, and one run of a command beside a server, over a wrapper with
two sub-repositories, one that shares the wrapper's base name and one of a reserved name, 2 models, 2
saves; 5 prompts with a threshold of 2 and 2 calls; 2 hooks that note over 4 ticks with a window of 2; 2
ends, 2 starts and 2 reviews; 3 changes of the settings and one edit by the user; 2 servers that search
3 chunks twice over 4 days, one upsert; every file of up to 5 lines and 7 bytes cut at 3. `MCRecords`
lets a discovery find all sub-repositories or, when it fails, none; beside a server it also leaves one
model and no failed write of a marker. The theorems have neither restriction.

**Bounds, and why they are enough.** Every bound is a constant named in its module's header and stands
in the guards, so liveness runs are not cut by a state constraint. *PostEdit*: two hooks are the
fewest that overlap, and each of `queue` has a file of its own (`OwnSpec`), since two hooks with one line
to add lose nothing to each other; one actor at a time is what `queue` needs, and `PidNamesARun` and
`OneDecider` are proved for any number; a cap of 1 makes every second edit overflow, a dead-letter cap of
2 lets an entry be retried once and given up once.
*EmbedClient*: one slot and two callers make every acquire contend; three texts in batches of two make a
call of two pieces. *HookCache*: a cap of 1 makes every put evict; two writes separate "before",
"between" and "after"; the theorem covers the rest. *IndexState*: a channel of one message fills at
once; two runs overlap in the post phase, three would need two in it, which `Running` does not
distinguish. *Indexer*: contents cut into {1,2}, {1,3}, {2} and nothing overlap, contain and miss each
other; four seconds give an edit before, between and after two passes. *StoreDirs*: two processes are
enough for each choose/migrate/open race, three for the steal of a lock by two. *Memory*: two calls
are one stale write-back or one duplicate; a cap of 2 is passed by two parts of a skill and one
memory; a summary of two near chunks updates, and inserts when the store is empty or over the cap.
*HookLog*: five lines over a limit of two rotate twice, under a follower that is left on the second
last file. *Buffers*: a grace period of 1 and a clock to 2 make a buffer young, at the edge, and old.
*FallbackLock*: a hook, one that steals from it and the files either leaves; a file is reused when no
name and no process leads to it. *Nag*: five prompts at a threshold of two make two nags, and a call
before, at and after either. *Reviews*, *TierB*: two of each actor, a clock past one window. *Config*:
two saves are one stale copy. *Projects*: two saves are one lost entry, two runs are one that finds
the other's marker. *Settings*: install, uninstall and start in any order around one edit. *Lifecycle*:
three chunks, one exempt as code, two a search may serve and one the cap leaves; four days are one
more than the time to prune. *Chunker*: with a limit of three, lines that are empty, fit, just fit and
do not; the theorem covers all. The theorems cover longer histories where there are any.

**Symmetry** is used where a run has no temporal formula beyond safety (`records`, `index_delivers`,
`dirs_lock`, `dirs_rename`), over processes the modules never tell apart.

**Deadlock** is checked in every run but `hooks` and `records`: the environment (edits, prompts,
calls) can always act or the processes can, so a state without a step would be a wedge. In those two a
behaviour may come to its end: a log that has all its lines, a transcript of full length, a file that
is cut.

### Fairness, and why the code justifies it

* *PostEdit*: weak fairness of each live hook's and actor's next step and of the passing of the
  coalesce window. The operating system schedules live processes; no step of either waits for another
  process (the lock is `LOCK_NB`). Edits, deaths, failures and spawn errors are never fair. The
  liveness properties take as premises that edits keep coming and that failures stop; without the
  first nothing starts an actor, which is the code's design.
* *EmbedClient*: weak fairness of the goroutine's next step and of time passing; strong fairness of
  `Acquire`, because Go's channels serve waiting senders in order, so a caller that waits again and
  again is served.
* *HookLog*: weak fairness of the follower's four steps, which polls every 200 ms. Writers are not
  fair: they need not go on.
* *Buffers*: weak fairness of a sweep that has begun and of the clock; strong fairness of the move of
  each buffer, which says that its rename does not fail for ever. Sessions start when users start
  them: that they keep being started is the premise of `AbandonedBufferLeaves`.
* *FallbackLock*: weak fairness of a hook's next step and of the passing of the time to live. That
  hooks keep coming and that from some time none is killed are premises of `LockRecovers`.
* *IndexState*: weak fairness of every goroutine's next step, the stall timer being one of the
  runner's. `Expire` and `Hang` are not fair.
* *Indexer*: weak fairness of a pass that has begun. Passes begin when the environment starts them.
* *Memory*: weak fairness of a call's and of an import's next step. Calls, imports and edits begin
  when the environment begins them; the liveness property takes as premises that imports keep being
  started and at last do not fail.
* *StoreDirs*: weak fairness of a job that has begun, and of a lock file growing old (`Age`).

## 4. Where code and documentation disagree

### Findings, each with a run

1. **`index_delivers`** – the deferred cleanup of a run (`tools.go:271`) calls `s.Index.Cancel`, by
   then perhaps the cancel function of the next run, which ends without a result though nothing
   failed.
2. **`indexer_revert`** – rows of an earlier content stay, and `ContentHashForFile` (`store.go:502`)
   takes any one row's hash: a file that goes back to an earlier content may be skipped with part of
   it overwritten.

### Further disagreements, reproducible from the modules

Each row names a property of a module that fails with the constants given; they are not runs of
their own. All other constants are as in the module's configurations.

| Property | Constants | Code, and what it contradicts |
|---|---|---|
| `PostEdit!EntriesAreKept` | 2 hooks, 2 files, PendingCap 2, Faults {} | `hook_post_edit.go:269`: the queue is read and a rewritten copy renamed over it outside any lock, so of two overlapping hooks the later rename drops the other's path; `04-failure-modes.md:230` calls the append atomic |
| `PostEdit!EntriesAreKept` | 1 hook, 1 file, Faults {"file"} | `indexer.go:679`: a file that fails is only named in the result, which `hook_post_edit.go:565` discards, so that its entry goes as indexed; `hook_post_edit_actor.go:121` has failures persisted |
| `PostEdit!FreshEntriesPreserved` | 1 hook, 1 file, Faults {"index"} | `hook_post_edit_actor.go:166` drops an entry that this pass has just appended if its file is in the snapshot; comment at `:122` |
| `PostEdit!FreeLockMeansNoActor` | 2 hooks, Faults {} | `hook_post_edit.go:143`: the lock is released at the spawn, so a free lock and a live pid are normal; comment at `:144` |
| `PostEdit!HolderPicksUp` | FairSpec, 2 hooks, Faults {} | `hook_post_edit.go:135`: the holder may be a hook that returns without spawning; `04-failure-modes.md:231` |
| `PostEdit!OrphanIsReaped` | FairSpec, 1 hook, Faults {"crash","reuse"} | `hook_post_edit.go:143` asks only whether some process has the pid; `04-failure-modes.md:241` |
| `EmbedClient!CallerDeadlineHonored` | 1 caller | `ollama.go:462` takes the shorter of two deadlines; comment at `:332` |
| `HookCache!FreshAnswer` | Faults {"version"} | `hook_cache.go:53` turns a failed query into version 0; `:26` |
| `HookCache!BackWithinCap` | 2 hooks, 2 prompts, Faults {} | `hook_cache.go:83`: count and insert are separate statements of separate processes; `:61` |
| `HookCache!SilentWhenLocked` | Faults {"search"} | `store.go:301` returns no rows and no error; the empty answer is printed and cached; `04-failure-modes.md:22` |
| `IndexState!FailureIsReported` | 1 run, Faults {"ping"} | `tools.go:231` looks at `Result`, which failed runs leave nil; `:239`, `:264` |
| `IndexState!IndexerEnds` | FairSpec, 1 run, MaxFiles 3, Faults {"expire"} | `indexer.go:607` sends on a full channel nobody reads any more; `:458` |
| `Indexer!SkippedIsIndexed` | Faults {"race"} | `indexer.go:649`: text, hash and time are of three reads; `:868` |
| `Indexer!SkippedIsIndexed` | 2 indexers | `store.go:407`: an upsert replaces newer rows; `indexer.go:868` |
| `Indexer!SkippedIsIndexed` | Faults {"older"} | `indexer.go:876` compares with `>=`; `README.md:483` |
| `Indexer!SkippedIsIndexed` | Faults {"legacy"} | `indexer.go:883`: a store without hashes never notices an edit; `:868` |
| `Indexer!ReadsOnlyChanged` | Faults {"touch"} | `store.go:502`: a left-over row answers with another hash; `README.md:565` |
| `StoreDirs!OneMigrator` | 3 processes, Faults {"crash"} | `migrate.go:340`: judging a lock stale and removing it are two steps; `:344-346` |
| `StoreDirs!RowsVisible` | 2 processes, Start {"latest"} | `dbpath.go:62`: the directory is chosen before it is opened; `README.md:587-588` |
| `StoreDirs!SingleState` | 2 processes, Start {"latest"} | `migrate.go:223` leaves both directories for good; `dbpath.go:38-40` |
| `StoreDirs!RowsVisible` | Start {"base"}, Jobs with "actor" | `hook_post_edit.go:553` opens without migrating; `migrate.go:106` |
| `StoreDirs!RowsKept` | 2 processes, Start {"base"}, Jobs {"index","text"} | `migrate.go:157` renames over a store just made; `server.go:779-780` |
| `StoreDirs!RowsVisible` | Start {"base"}, Faults {"crash","stuck"} | `migrate.go:117`: the model lock has no stale rule; `:106` |
| `StoreDirs!UsedIsRecorded` | Faults {"crash"} | `schema.go:178`: logged before, recorded after the open; `:27-28` |
| `StoreDirs!RowsKept` | Start {"mixed"}, Jobs {"cleanup"} | `migrate.go:459` asks only whether a directory exists; `cli.go:1307-1309` |
| `Memory!ExplicitWins` | 1 writer, MaxCalls 3 | `memory_ingest.go:101`: a session row that a remember made explicit keeps its session id, and a later ingest of its first text replaces it; comment at `:82`, `memory_ingest_test.go:240` |
| `Memory!SessionMerges` | 1 writer, MaxCalls 3 | `memory_store.go:336`: of an empty table the vectors are a nil slice, and the first session is not matched against itself; `memory_ingest.go:121` |
| `Memory!RememberedIsExplicit` | as in the run | `memory_tools.go:90`: remembering the very text of a session memory leaves it a session memory, which ingests may rewrite; `:135` |
| `Memory!SkillsStaySkills` | as in the run | `memory_tools.go:95` may change the type of a skill's row, and imports take the row for unchanged (`skills_sync.go:636`); `skills_sync.go:6-9` |
| `Nag!NagExactly` | NagFaults {"save"} | `hook_nag.go:91`: a failed save is to mean "no nag"; the nag comes again with every prompt, the count never being cleared |
| `Nag!NagExactly` | NagFaults {"read"} | `hook_nag.go:160`: where the log cannot be read it is to be "better to skip the nag", and the answer returned, no call, lets it come |
| `Drift!PairedWithItsPrompt` | MaxEntries 4 | `semantic_drift.go:172`: the Nth line of the log is taken for the Nth turn; prompts that leave no line, or no turn, shift the rest |
| `Compliance!ReadersAgree` | HugeLines TRUE | a line over 2 MB ends two of the three scanners of a transcript, and what follows is seen by one reader only |
| `Compliance!ReadersAgree` | Nameless {"user"} | `transcript_shape.go:50`: of a message without a role one reader takes the type of the entry, and `hook_stop.go:302` finds none |
| `Cardinality(LockHolders) <= 1` in FallbackLock | as in the run | `hook_post_edit.go:385`: without flock two hooks at once both find the empty file that flock's open made, take it for stale, and both hold: the case the lock is for |

### Disagreements the modules follow the code in

These were met while modelling. The definitions do as the code does; the properties are stated so
that they hold of it, and their comments name the exception.

* *Logs and buffers.* `hook_nag.go:64` counts on the orphan sweep to remove nag files, but the sweep
  skips names that do not end in `.jsonl` (`hook_stop.go:235`). Its rename replaces an earlier orphan
  of the session, and a Stop after the SessionEnd makes the buffer anew. The follower of the log
  reopens it "on rotation" (`hooklog.go:304`) only if the new file is shorter than what it has read;
  otherwise it stays with the old file, and the rest of an old file is skipped. A rotation between its look
  at the path and its open ends it with an error (`hooklog.go:360`). A rename that fails lets the log
  outgrow its limit by a line each time (`hooklog.go:131`). Two writers may both rotate, the second over the
  first's history. `hook_nag.go:57` says that no call is credited twice: `Since` is inclusive to the
  second.
* *Session start and end.* `hook.go:504` speaks of consume-once: two starts at once both show the
  review, one written between the read and the unlink is lost, and one whose unlink fails is
  shown again. HookStop and HookSessionEnd ask
  whether hooks are disabled without the project (`hook_stop.go:42`, `:110`), so that a project's
  marker does not stop them; a session start renews `settings.json` before it asks
  (`hook.go:131`).
* *Sessions.* `AggregateHookLogBySession` counts the nag's line of a prompt beside the prompt's own.
  Empty output of a hook is not only "the skip/no-hits path" (`transcript.go:302`).
* *Guardrail.* `README.md:265` and `cli.go:901` say that `HEIMDALL_LLM_CLASSIFIER=1` turns on the second
  classifier; the hook is given none (`hook.go:60`). An error of it keeps the verdict "unknown" and
  does not become "allow" (`llm_classifier.go:10`). More than the "exactly one" event of
  `hook_pre_tool_use.go:286` is logged where it is asked. An `env` behind another wrapper is not taken off
  (`destructive_ops.go:254`). The audit counts the window asked for as covered, however young the log.
* *Configuration.* `embed_max_concurrent` of 0 is "explicit unbounded" (`README.md:394`) and is not
  written (`config.go:77`): it is gone after the next load. `SaveConfig` (`config.go:299`) writes in place;
  a torn file loads as the defaults, and the next save makes them permanent. A server saves the
  copy it loaded, and with it undoes what was set since. With a git depth of 0, git that was
  disabled is enabled at the next load. The lock of the directory's migration is
  never removed after a kill. The keys on staleness, lifecycle and the number of chunks
  (`README.md:389-392`) are read by nothing but the config commands.
* *Registry.* A server's whole copy is saved over what others registered, and a file that cannot be read
  or parsed loads as an empty registry (`registry.go:74`), which the next save makes final. `IsSubpath`
  (`registry.go:262`) denies children whose name begins with a dot. Names of sub-repositories are looked
  up by their last component. An index command registers the project and removes
  the resume marker also when its pass failed, and always rewrites the marker, against the comment at
  `cli.go:319`.
* *Settings.* `install.go:1328` announces a backup that a session start does not make: a user's
  command added to Heimdall's entry is lost when a start renews it. A start brings back what
  `--only` left out, and, if it overlaps an uninstall, the hooks. Backups of one second replace each other.
* *Lifecycle.* `README.md:307` has it throttled to once an hour: the time of the last run is a field of
  a `VectorStore` (`store.go:83`), and every search opens a new one, so that it runs at each. "Oldest"
  at the cap (`lifecycle.go:71`) means least recently served, and an upsert forgets when that was, so a chunk
  just indexed is the first to go. Counting and deleting are two statements: two servers delete too
  much. A pruned chunk of a file that does not change never comes back.
* *Chunker.* `MaxChunkSize` is in bytes, not "characters" (`chunker.go:5`), and one longer line is a
  chunk all the same. Blank lines that begin a chunk are in its range and not in its text; a long file
  of blank lines has no chunk.
* *Hook cache.* `RunLifecycle` and `BackfillSubProject` change entries without a new `index_version`
  (`lifecycle.go:42`, `store.go:779` against `hook_cache.go:26`): `WriteUnversioned` models them and
  `FreshAnswer` exempts them by speaking of versioned writes.
* *Background indexing.* The staleness that starts a run is the age of the newest file, not of the last
  run (`tools.go:516` against `README.md:205`): a project left alone for half an hour is reindexed at
  every search.
* *Notes.* The note of a Tier B failure says that Ollama is up (`hook.go:400`) where a ping has just
  failed.

With one line range per content (`Layout <- OneRange`) both properties of the indexer also hold with
two indexers, touches and reverts: the trouble is in rows whose line range the next content does not
have.

## 5. What is proved

The theorems hold for every value of the constants that meets the modules' `ASSUME`s, so for any
number of processes, files, rows, lines and writes. Every safety property that a passing run checks,
invariant or action property, is stated by a theorem. Every proof has the same outline: an inductive
invariant, a lemma per action (or per group of actions) for each conjunct the action can disturb,
lemmas that say which conjuncts a group of actions leaves alone, and a last step by PTL. Each of the
properties of `MCHooks` and `MCRecords` is proved of its component's own specification first and then
of the composition.

* **PostEditProofs** – `TypeCorrect`, `OneHookDecides`, `PidFileNamesARun`, and from the two,
  `DecisionsAreSound` (the run's `DecisionIsSound`), without hypothesis. Types need `FileAtHand`
  (a hook past its start has a file) and `AttemptsLeft` (an entry still to be retried is below the
  cap; without it `Capped` would not stay in its range). `OneDecider` follows from `LockHeldWithin`:
  a hook between lock and release is the lock's holder, deaths included.
  `ImplementsQueue` (the run's `RefinesQueue`) and from it `NoFileIsForgotten`, under `OneActor`: any
  number of overlapping hooks and one actor, none of them killed, and state files that can be read and written;
  walks and spawns may fail, files may fail inside a walk, pids may be reused. The invariant `QInv`
  says why nothing else falls between two file operations: what is in the queue while a hook is about to
  replace it is among the hook's lines, or needs no entry, or was marked as lost when hooks overlapped, and a
  temporary belongs to a hook about to rename it (`HookInv`: `QueueSeen`, `OverlapsKnown`, `TmpSeen`,
  `TmpIsOurs`); drained file and batch exist between their steps only and the batch has what the
  file has (`DrainInv`); a file edited during a walk is waiting (`LateInv`); and each dead letter that
  was read has been given up, is still to be retried, will be written back, or needs nothing
  (`RetryInv`). Every action is then a step of the abstract queue or a stutter. That a file is marked as
  lost only in the three ways of section 2 is in the definitions of `ReadPending`, `Walked` and `Rewrite`.
* **HooksProofs** – `LockExcludes` (the run's `OneAtATimeExcludes`): either somebody `raced` or the lock is
  `Orderly` – one hook acquires, one holds, the lock's name leads to the holder's file, and nobody is
  about to take it. `LogIsSound`, `HooksAreSound` (`HooksSound`): the log is bounded because the lines of
  a file and the writers already on their way to it are together within the limit, one per other writer
  and one per failed rename of that file (`RoomForAll`), and the follower repeats nothing because no line
  is written twice (`LinesDistinct`), what it has printed lies behind its position (`OutIsBehind`), and
  what it opens again is another file (`FollowerKnows`). `TypeCorrect`, `SlotsAreAccounted`,
  `CapHolds`, `CapIsKept` (`CapKept`) of the embedding client: the semaphore's count
  is the cardinality of the callers between acquire and release; a request at the server implies a
  slot, and the cap bounds both. `HooksKeepTheCap` carries it to the composition. No hypotheses.
* **HookCacheProofs** – `TypeCorrect`; `AnswersAreFresh` assumes `"version" \notin Faults`, as the run
  does. The invariant says that a row's answer is at least its version, a hook's answer at least the
  version it took at its prompt, and no version is ahead of the index. It shows why it is safe to
  compute the key before the search: the answer can only be newer than its key. Nothing about kills,
  failed searches or unversioned writes is assumed. `CapIsOvershotLittle` (`CapOvershoot`): the table
  with the hooks that may still add to it stays within the cap, a row for each other hook and for each put that
  was cut off, and those who owe an eviction (`TableWithin`); who is about to evict by a count has
  counted what makes that true afterwards (`HookWithin`).
* **IndexStateProofs** – `TypeCorrect`, `RunningSpeaksOfOneRun`, `ReportCorrect`, `StateSpeaksOfOneRun`
  (the run's `StateIsOfOneRun`). `AtFile` bounds the indexer's position.
* **IndexerProofs** – under `Orderly` (one pass at a time; no touch, revert, edit within the three
  reads, edit within the second, older time or store without hashes): `TypeCorrect`,
  `SkipsOnlyIndexed`, `ReadsOnlyWhatChanged`. The invariant is `TypeOK`, `TreeInv`, `RowsInv` (a row
  of the present content has the present time and all its siblings; a row of an earlier one is older)
  and `DraftInv` (the same of a pass's draft). Each hypothesis of `Orderly` is needed: section 4 has
  the counterexample without it.
* **StoreDirsProofs** – `TypeCorrect`; `RenameLosesNothing` under `OnlyRenames` (no base layout, no
  clean-up): no row is lost whoever is killed and however many migrate at once, because a rename moves
  a whole directory and never replaces one that holds a store; `LockExcludes` under `Brisk` (nobody is
  killed or takes ten minutes); `RowsAreVisible` (`RowsVisible`) under `Alone` (one process at a time,
  none killed under the model lock, no clean-up and no actor, which opens without migrating):
  wherever a process is killed, the committed rows are all in the base layout, not upgraded yet, or all where
  the next one will look (`AllAtHome`), and a process at work looks or migrates there (`AtHome`).
* **MemoryProofs** – `TypeCorrect`; `RememberedIsKept`: a row in a writer's hand under an explicit id
  has the id's text, however old, so that writing it back is harmless; `NoTextTwice`: until writers
  overlap, what the one at work has found out about the table (`Fresh`: the text is in no row, the row
  in hand is the stored one) still holds when it writes, because imports touch rows of skills only.
  None assumes anything of faults, of the cap or of `Near`.
* **RecordsProofs** – a section for each part of `MCRecords`, and the composition.
  * *Chunker*: `ChunksCoverTheFile`. `Gathering` is the invariant of the loop: the chunks made are
    before the one being gathered, every line with text before that is in one of them, an empty buffer
    has seen blank lines only, and one over the limit holds one line with text in it.
  * *TierB*: `NotesAreSpaced`. For a process that is `alone`, what its query found still holds
    (`WindowIsOver`), since every row is at least as young as the last note (`NotesAreBehind`).
  * *Reviews*: `ReviewsAreShownOnce`. A review that was shown or is about to be is off the file for good
    unless it is `stuck` there (`ShownIsUnlinked`), and who read one did so before it was shown (`ReadIsUnseen`).
  * *Nag*: `NagIsExact`, under `{"save", "read"} \cap NagFaults = {}` (section 4). The file's turns since the last
    nag are the streak (`StreakIsCounted`), and a call before the second the count began is older than
    the turns counted (`CountedSince`).
  * *Lifecycle*: `UseIsKept`. The last use is known to the day unless the row was made again
    (`UseIsKnown`), and who counted too many chunks leaves enough unless another deleted since
    (`CountHolds`).
  * *Config*: `SetStaysSet`. A copy agrees with the file in every key but for those its process set or
    the file got since it was loaded (`CopiesFollow`); nobody loads before the old directory is
    out of the way or its migration was disturbed (`OldStaysOut`).
  * *Projects*: `RunsAreFound`, `EntriesLeaveByOverlap`. A copy lacks only what came into the file after
    it was loaded (`LacksOnlyNewer`); a run's own marker and temporary name its models (`Marked`), it has
    registered what it found but for reserved names (`Named`, `RunIsSound`), and models that count as cut off are
    in the marker (`StoppedAreMarked`).
  * *Guardrail*: `VerdictsAreHeld`. Each row of the log belongs to its stage (`RowsInv`), the last
    refusal has its row (`ReplyInv`). That `env` and
    wrappers change no verdict is `WrappersNormalize`: what is left of
    a prefix after its leading wrappers does not depend on them.
  * *Settings*: `ChangesAreKept`, `SettingsTypeCorrect`. Heimdall has at most one entry for each hook
    (`OneOfOurs`); who is not late has read what is in the file and writes what follows from it
    (`KeepsUp`, `StartsFromHooks`); who is about to write has backed up (`HasBackedUp`).
  * *Compliance*: `ReadersDoAgree`, under `~HugeLines` and `Nameless \subseteq {"system"}` (section 4),
    and `WindowsAreSaid`, for lines of any length, under the second. `NamesAreTrue` says what the second
    gives: the role in the bytes of a user's or an assistant's line is the parsed one. `ScanIsOf(n, s)`
    says what the scan knows after n lines: each correction so far is a candidate at its line, each
    window was said (`WasSaid`), what is `before` is the assistant's last message with nothing of the
    user's after it. `AreTheLines` says the same of the messages.
  * *Drift*: `ReportsAreFair`. `SummaryIsOf` is the invariant of `ParseTranscript`'s loop: users counted,
    something shown since the last of them, calls after that counted, and the turn of each call.
    `LogInv` follows the log through the steps of a hook: each prompt has at most one look at the cache
    in it, and while nothing was killed, lost or rotated away the prompts with a look are those with a
    line of the nag, but for the one whose answer is being logged.
  * *Together*: `RecordsKeepTheirParts`, `SessionsAreReadFairly`, `RecordsTypeCorrect` (`RecordsTypeOK`,
    from the types of each part: `NagTypeCorrect`, `LifeTypeCorrect`, `GuardTypeCorrect` and the others).
    A step of `MCRecords` is a step of one part and leaves the others as they are (`PartSteps`), so
    that a behaviour of it is one of each part (`PartSpecs`).

**Assumptions.** The hypotheses named above are stated in the theorems. The `ASSUME`s of the modules
say that bounds are numbers (positive where the code's constant is: caps, windows, thresholds, the
tail of the extractor, `hook_stop.go:285`), that sets of processes counted by a cardinality are
finite (operating systems run finitely many), that names which stand for "nobody" are not those of
a process, and the following of the code's own constants: a chunk is archived no earlier than it
stops being active (`LifeAssumption`; `lifecycle.go` has 30 and 90 days), a user's command is not one
of Heimdall's (`UserAssumption`: `isHeimdallEntry` tells them apart by that), sub-repositories lie
below a project and are none (`ProjectsAssumption`), the values of a cap that the model tells apart
differ (`CapAssumption`), the chunker's offsets increase (`ChunkerAssumption`). TLC evaluates each in a run.

**Induction over lines.** The loops of Compliance, Drift and Guardrail are proved about without an
induction theorem, which no installed prover can instantiate: `HasLeast` (a non-empty set of numbers has a least
element) gives `UpToLast`, induction over a set of numbers, and `LoopHasValues` that a loop given by its
step has a value after every turn.

**Only model-checked**: all liveness (`QuietFileIndexed`, `EveryProcessEnds`,
`PipelineNeverWedges`, `PoisonEntryLeaves`, `EveryCallEnds`, `FollowerMovesOn`, `AbandonedBufferLeaves`,
`LockRecovers`, `RunEnds`, `QuietFileIsIndexed`, `LegacyLeaves`, `SkillsConverge`), because TLAPS does
neither liveness under fairness nor `ENABLED`. The two runs that expect a violation have nothing to prove.

## 6. Plan

Modelled, in this order: PostEdit with ReindexQueue, EmbedClient, HookCache, IndexState, Indexer,
StoreDirs, Memory; then the files beside the store (HookLog, Buffers, Reviews, Nag, TierB), the
records of a session (Compliance, Drift, Guardrail), Config and Projects, FallbackLock, Settings,
Lifecycle, Chunker. Proved, in about the same order: the safety properties of all of them.

What remains is to ask less in the hypotheses, most telling first:

1. PostEdit: the refinement of ReindexQueue with several actors, whose drains the flock and the pid
   file keep apart, and with `"crash"` for an abstract queue that may also lose what is in the hands
   of a process that dies: the lines of `.draining` when a second drain replaces them, and those that an
   actor has drained and not indexed (`hook_post_edit.go:297`).
2. StoreDirs: `RowsAreVisible` for several searches beside one process that migrates.
3. Indexer: what two passes at once still guarantee, which is less than `SkippedIsIndexed`.
4. Compliance: `ReadersAgree` fails with lines of any length and with messages that name no role
   (section 4); what holds of it up to the first such line could be stated and proved.

## 7. What is not modelled, and why

Text and numbers: what a chunk says, embeddings, similarity, regular expressions of the guardrail,
formatting of injected context, log lines. SQLite itself: a statement is atomic and durable; a locked
database is a failed statement. Clock adjustments. Windows, where renames and locks differ. Torn
writes of files that are replaced by a temporary of their own and a rename (those written in place are
modelled in Config, Reviews, FallbackLock, and the resume marker's temporary, which runs share, in Projects). Several
models and the opt-out variable in StoreDirs, symlinks, the wal and shm files beside a database. In
Memory, two imports at once, two skills with one slug, a skill file that is removed (its rows stay) or
read half-written. In Indexer, the removal of rows of deleted files, which has no caller outside tests.
In Projects, the scopes by which a search picks the stores of sub-repositories. In Settings, dry runs,
the pre-warming of a model and the import of skills that follow an install. The server's loop, which reads
and answers one request after the other; the git indexer, a sequential pass that upserts rows; `doctor`, smoke
tests and `status`, which read and print; benchmarks and calibration, which are development tools.
