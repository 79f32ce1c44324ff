---------------------------- MODULE IndexState ----------------------------
(***************************************************************************)
(* Background indexing in the MCP server of heimdall-mcp:                  *)
(*   internal/mcp/tools.go        heimdall_index, heimdall_search,         *)
(*                                runIndex                                 *)
(*   internal/mcp/types.go        IndexState, shared under its mutex       *)
(*   internal/heimdall/indexer.go IndexProjectAsync, indexFiles            *)
(*                                                                         *)
(* Tool calls are handled one at a time. A call that finds no run in       *)
(* progress starts one: a runner goroutine, which pings Ollama, opens the  *)
(* store and starts an indexer goroutine, whose progress it reads from a   *)
(* buffered channel until the run is done, stalls or is cancelled. After   *)
(* a good run it goes on with git commits, sub-repos and the registry,     *)
(* when IndexState already says that nothing is running.                   *)
(*                                                                         *)
(* A step is one critical section of IndexState.Mu, one channel operation  *)
(* or one piece of work between them.                                      *)
(***************************************************************************)
EXTENDS Naturals, Sequences

CONSTANTS
  Path,        \* directories a client may ask to index
  Cwd,         \* the server's working directory, one of them
  Run,         \* runs that may overlap; one is reused when both its goroutines ended
  NoPath, NoRun,
  MaxFiles,    \* bound: files of a directory
  Buffer,      \* capacity of the progress channel
  Faults       \* what may go wrong

ASSUME CwdAssumption == Cwd \in Path
ASSUME BoundsAssumption == MaxFiles \in Nat /\ Buffer \in Nat \ {0}
ASSUME NullAssumption == NoPath \notin Path /\ NoRun \notin Run
ASSUME FaultsAssumption == Faults \subseteq {"ping", "open", "index", "hang", "expire"}

VARIABLES
  running, path,     \* IndexState.Running, .Path
  result, err,       \* .Result, as the path it is about; .Err, as what it says
  cancel,            \* .Cancel, as the run whose context it cancels
  rpc, rpath,        \* per run: step of its runner, directory
  cancelled,         \*   its context is done
  xpc, left,         \*   step of its indexer, files still to read
  channel,           \*   its progress channel
  mtime,             \* per path: is the newest file older than half an hour
  entries            \*   and the newest mod_time in the store; "none": no store

state == <<running, path, result, err, cancel>>
runners == <<rpc, rpath, cancelled>>
indexers == <<xpc, left, channel>>
world == <<mtime, entries>>
vars == <<state, runners, indexers, world>>

Errors == {"none", "ping", "open", "stalled", "timed out", "index"}
RunnerStep == {"idle", "ping", "open", "watch", "post", "cleanup"}
IndexerStep == {"none", "next", "send", "work", "hung", "finish"}
Message == {"file", "ok", "failed"}
Indexing == {"ping", "open", "watch"}      \* the part of a run that Running covers

Init ==
  /\ running = FALSE /\ path = NoPath
  /\ result = NoPath /\ err = "none"
  /\ cancel = NoRun
  /\ rpc = [r \in Run |-> "idle"]
  /\ rpath = [r \in Run |-> NoPath]
  /\ cancelled = [r \in Run |-> FALSE]
  /\ xpc = [r \in Run |-> "none"]
  /\ left = [r \in Run |-> 0]
  /\ channel = [r \in Run |-> <<>>]
  /\ mtime \in [Path -> {"new", "old"}]
  /\ entries = [p \in Path |-> "none"]

-----------------------------------------------------------------------------
(* Tool calls.                                                             *)

Free(r) == rpc[r] = "idle" /\ xpc[r] = "none"

(* The block that heimdall_index, the automatic first index and the stale  *)
(* index check share: fill in IndexState and start the runner.             *)
FillIn(r, p) ==
  /\ Free(r)
  /\ running' = TRUE /\ path' = p
  /\ result' = NoPath /\ err' = "none"
  /\ cancel' = r
  /\ rpc' = [rpc EXCEPT ![r] = "ping"]
  /\ rpath' = [rpath EXCEPT ![r] = p]
  /\ cancelled' = [cancelled EXCEPT ![r] = FALSE]
  /\ channel' = [channel EXCEPT ![r] = <<>>]
  /\ UNCHANGED <<xpc, left, world>>

StartWithoutChecking(r, p) == FillIn(r, p)

Start(r, p) == ~running /\ FillIn(r, p)

(* heimdall_index on p: a result that waits for p is returned (once),      *)
(* otherwise a run starts. A call while a run is in progress reads only.   *)
ResultWaits(p) == result # NoPath /\ path = p

TakeResult(p) ==
  /\ ~running
  /\ ResultWaits(p)
  /\ result' = NoPath /\ err' = "none"
  /\ UNCHANGED <<running, path, cancel, runners, indexers, world>>

StartIndex(r, p) == ~ResultWaits(p) /\ Start(r, p)

(* heimdall_search: with no index anywhere the working directory is        *)
(* indexed; with one whose newest entry is too old, its project.           *)
SearchStarts(r, p) ==
  /\ \/ p = Cwd /\ \A q \in Path : entries[q] = "none"
     \/ entries[p] = "old"
  /\ Start(r, p)

-----------------------------------------------------------------------------
(* The runner: runIndex.                                                   *)

RunnerGo(r, from, to) == rpc[r] = from /\ rpc' = [rpc EXCEPT ![r] = to]

(* The ends of a run that report an error. *)
EndWith(e) ==
  /\ running' = FALSE /\ err' = e
  /\ UNCHANGED <<path, result, cancel>>

PingFails(r) ==
  /\ "ping" \in Faults \/ cancelled[r]
  /\ RunnerGo(r, "ping", "cleanup")
  /\ EndWith("ping")
  /\ UNCHANGED <<rpath, cancelled, indexers, world>>

Ping(r) ==
  /\ ~cancelled[r]
  /\ RunnerGo(r, "ping", "open")
  /\ UNCHANGED <<state, rpath, cancelled, indexers, world>>

OpenFails(r) ==
  /\ "open" \in Faults
  /\ RunnerGo(r, "open", "cleanup")
  /\ EndWith("open")
  /\ UNCHANGED <<rpath, cancelled, indexers, world>>

(* The store exists from now on, and the indexer runs. *)
OpenStore(r) ==
  /\ RunnerGo(r, "open", "watch")
  /\ xpc' = [xpc EXCEPT ![r] = "next"]
  /\ left' \in {[left EXCEPT ![r] = n] : n \in 0..MaxFiles}
  /\ entries' = [entries EXCEPT ![rpath[r]] = IF @ = "none" THEN "empty" ELSE @]
  /\ UNCHANGED <<state, rpath, cancelled, channel, mtime>>

Receive(r, to) ==
  /\ channel[r] # <<>>
  /\ RunnerGo(r, "watch", to)
  /\ channel' = [channel EXCEPT ![r] = Tail(@)]

ReceiveProgress(r) ==
  /\ Receive(r, "watch")
  /\ Head(channel[r]) = "file"
  /\ UNCHANGED <<state, rpath, cancelled, xpc, left, world>>

(* p.Done: the result is there whether or not the walk was cut short. *)
ReceiveDone(r) ==
  LET failed == Head(channel[r]) = "failed"
  IN  /\ Receive(r, IF failed THEN "cleanup" ELSE "post")
      /\ Head(channel[r]) # "file"
      /\ running' = FALSE
      /\ result' = rpath[r]
      /\ err' = IF failed THEN "index" ELSE "none"
      /\ UNCHANGED <<path, cancel, rpath, cancelled, xpc, left, mtime, entries>>

StallKeepsWaiting(r) ==
  /\ channel[r] = <<>> /\ xpc[r] = "hung"
  /\ RunnerGo(r, "watch", "watch")
  /\ UNCHANGED <<state, rpath, cancelled, indexers, world>>

(* Half an hour without a message: the indexer is in one file. *)
Stall(r) ==
  /\ channel[r] = <<>> /\ xpc[r] = "hung"
  /\ RunnerGo(r, "watch", "cleanup")
  /\ EndWith("stalled")
  /\ UNCHANGED <<rpath, cancelled, indexers, world>>

(* select picks ctx.Done, whatever the channel holds. *)
ContextDone(r) ==
  /\ cancelled[r]
  /\ RunnerGo(r, "watch", "cleanup")
  /\ EndWith("timed out")
  /\ UNCHANGED <<rpath, cancelled, indexers, world>>

(* Metadata, git commits, sub-repos and the registry, after Running was    *)
(* cleared: none of it touches IndexState.                                 *)
PostPhase(r) ==
  /\ RunnerGo(r, "post", "cleanup")
  /\ UNCHANGED <<state, rpath, cancelled, indexers, world>>

(* The deferred function: cancels whichever run IndexState.Cancel is of. *)
CleanUp(r) ==
  /\ RunnerGo(r, "cleanup", "idle")
  /\ cancel' = NoRun
  /\ cancelled' = IF cancel = NoRun THEN cancelled ELSE [cancelled EXCEPT ![cancel] = TRUE]
  /\ UNCHANGED <<running, path, result, err, rpath, indexers, world>>

(* The 24 hours of a context are over. *)
Expire(r) ==
  /\ "expire" \in Faults
  /\ ~Free(r) /\ ~cancelled[r]
  /\ cancelled' = [cancelled EXCEPT ![r] = TRUE]
  /\ UNCHANGED <<state, rpc, rpath, indexers, world>>

-----------------------------------------------------------------------------
(* The indexer: indexFiles and the goroutine of IndexProjectAsync.         *)

IndexerGo(r, from, to) == xpc[r] = from /\ xpc' = [xpc EXCEPT ![r] = to]

(* The top of the loop over the files: the only look at the context. *)
NextFile(r) ==
  /\ IndexerGo(r, "next", IF cancelled[r] \/ left[r] = 0 THEN "finish" ELSE "send")
  /\ UNCHANGED <<state, runners, left, channel, world>>

SendProgress(r) ==
  /\ Len(channel[r]) < Buffer
  /\ IndexerGo(r, "send", "work")
  /\ channel' = [channel EXCEPT ![r] = Append(@, "file")]
  /\ UNCHANGED <<state, runners, left, world>>

(* One file: unchanged, failed (its error is only listed), or upserted,    *)
(* and then it may be the newest. A slow one may still get there.          *)
IndexFile(r, from) ==
  LET p == rpath[r]
  IN  /\ IndexerGo(r, from, "next")
      /\ left' = [left EXCEPT ![r] = @ - 1]
      /\ \E e \in {entries[p], IF entries[p] = "new" THEN "new" ELSE mtime[p]} :
           entries' = [entries EXCEPT ![p] = e]
      /\ UNCHANGED <<state, runners, channel, mtime>>

(* A file that takes more than half an hour, or never returns. *)
Hang(r) ==
  /\ "hang" \in Faults
  /\ IndexerGo(r, "work", "hung")
  /\ UNCHANGED <<state, runners, left, channel, world>>

(* The Done message, with an error when the walk was cut short or failed. *)
SendDone(r) ==
  /\ Len(channel[r]) < Buffer
  /\ IndexerGo(r, "finish", "none")
  /\ \E m \in {"ok", "failed"} :
       /\ m = "ok" => left[r] = 0
       /\ m = "failed" => cancelled[r] \/ "index" \in Faults
       /\ channel' = [channel EXCEPT ![r] = Append(@, m)]
  /\ left' = [left EXCEPT ![r] = 0]
  /\ UNCHANGED <<state, runners, world>>

-----------------------------------------------------------------------------
(* The world: edits, and half an hour in which nothing is edited.          *)

EditFile(p) ==
  /\ mtime[p] = "old"
  /\ mtime' = [mtime EXCEPT ![p] = "new"]
  /\ UNCHANGED <<state, runners, indexers, entries>>

HalfHour ==
  /\ mtime' = [p \in Path |-> "old"]
  /\ entries' = [p \in Path |-> IF entries[p] = "new" THEN "old" ELSE entries[p]]
  /\ UNCHANGED <<state, runners, indexers>>

-----------------------------------------------------------------------------
Runner(r) ==
  \/ PingFails(r) \/ Ping(r) \/ OpenFails(r) \/ OpenStore(r)
  \/ ReceiveProgress(r) \/ ReceiveDone(r) \/ Stall(r) \/ ContextDone(r)
  \/ PostPhase(r) \/ CleanUp(r)

Indexer(r) == NextFile(r) \/ SendProgress(r) \/ IndexFile(r, "work") \/ SendDone(r)

Next ==
  \/ \E r \in Run : \/ \E p \in Path : StartIndex(r, p) \/ SearchStarts(r, p)
                    \/ Runner(r) \/ Indexer(r) \/ Expire(r) \/ Hang(r) \/ IndexFile(r, "hung")
  \/ \E p \in Path : TakeResult(p) \/ EditFile(p)
  \/ HalfHour

Spec == Init /\ [][Next]_vars

(* Goroutines are scheduled, and the half hour of the runner's timer       *)
(* passes. No client promises another call.                                *)
Fairness == \A r \in Run : WF_vars(Runner(r)) /\ WF_vars(Indexer(r))

FairSpec == Spec /\ Fairness

-----------------------------------------------------------------------------
TypeOK ==
  /\ running \in BOOLEAN
  /\ path \in Path \cup {NoPath} /\ result \in Path \cup {NoPath}
  /\ err \in Errors
  /\ cancel \in Run \cup {NoRun}
  /\ rpc \in [Run -> RunnerStep]
  /\ rpath \in [Run -> Path \cup {NoPath}]
  /\ cancelled \in [Run -> BOOLEAN]
  /\ xpc \in [Run -> IndexerStep]
  /\ left \in [Run -> 0..MaxFiles]
  /\ channel \in [Run -> Seq(Message)]
  /\ mtime \in [Path -> {"new", "old"}]
  /\ entries \in [Path -> {"none", "empty", "new", "old"}]

(* Running covers exactly one run's ping, open and watch, also while       *)
(* runners of earlier runs are still in their last phases: a run is never  *)
(* started beside another, and none is locked out when all have ended.     *)
RunningIsOneRun ==
  /\ \A r, q \in Run : rpc[r] \in Indexing /\ rpc[q] \in Indexing => r = q
  /\ running <=> \E r \in Run : rpc[r] \in Indexing

(* What heimdall_status and heimdall_index report is of one run: Path, and *)
(* a result only of a run on it that is over.                              *)
ReportIsOfOneRun ==
  /\ running => result = NoPath /\ err = "none" /\ \A r \in Run : rpc[r] \in Indexing => rpath[r] = path
  /\ result # NoPath => result = path

(* What is said of indexing, by its flag and by its report, is said of one *)
(* run: no phase of another shows through.                                 *)
StateIsOfOneRun == RunningIsOneRun /\ ReportIsOfOneRun

(* A run in progress ends, whatever its files and Ollama do: the stall     *)
(* timer ends one whose indexer hangs.                                     *)
RunEnds == running ~> ~running

-----------------------------------------------------------------------------
(* What comments, messages and documents of the repository say and the     *)
(* code does not do.                                                       *)

(* tools.go, the answer of heimdall_index: call again when done to get     *)
(* results. Nothing goes wrong here, and yet a run ends without one.       *)
RunDeliversResult ==
  [][\A r \in Run : rpc[r] = "watch" /\ rpc'[r] # "watch" => result' = rpath[r]]_vars

(* tools.go: a previous run that failed is reported ("previous indexing    *)
(* failed") by the next heimdall_index of its directory.                   *)
FailureIsReported ==
  [][\A r \in Run : err # "none" /\ StartIndex(r, path) => FALSE]_vars

(* indexer.go, IndexProjectAsync: the channel is closed when indexing      *)
(* completes, and cancellation ends it early.                              *)
IndexerEnds ==
  \A r \in Run : cancelled[r] /\ xpc[r] # "hung" ~> xpc[r] \in {"none", "hung"}
=============================================================================
