------------------------------ MODULE Indexer ------------------------------
(***************************************************************************)
(* Incremental indexing in heimdall-mcp:                                   *)
(*   internal/heimdall/indexer.go   indexFiles, isUpToDate, chunkFile      *)
(*   internal/heimdall/store.go     Upsert, MaxModTimeForFile,             *)
(*                                  ContentHashForFile, HasFile            *)
(*                                                                         *)
(* A pass walks the tree and takes the files one by one. A file that       *)
(* isUpToDate says is indexed is skipped: its modification time is not     *)
(* newer than the newest row of it, or its content hash is the one in a    *)
(* row. Any other is read, hashed, stat'ed, embedded and upserted. The     *)
(* tree is edited meanwhile, and passes of other processes (the server,    *)
(* the CLI, the post-edit actor) may be under way on the same store.       *)
(*                                                                         *)
(* A content stands for the bytes of a file and for their hash. The id of  *)
(* a chunk is its file and line range; Layout says which line ranges a     *)
(* content is cut into. A file's rows are never removed, only replaced     *)
(* by rows with the same id.                                               *)
(***************************************************************************)
EXTENDS Naturals

CONSTANTS
  File, NoFile,
  Content,       \* what a file may contain
  Gone,          \* in place of the content of a file that does not exist
  NoHash,        \* the empty content_hash
  Chunk,         \* line ranges
  Layout,        \* the line ranges chunkFile cuts a content into
  Indexer,       \* processes that may run a pass
  MaxTime,       \* bound: seconds
  Faults         \* what may go wrong

ASSUME LayoutAssumption == \A c \in Content : Layout[c] \subseteq Chunk
ASSUME NullAssumption == Gone \notin Content /\ NoHash \notin Content /\ NoFile \notin File
ASSUME TimeAssumption == MaxTime \in Nat \ {0}
ASSUME FaultsAssumption ==
  Faults \subseteq {"embed", "upsert", "cancel", "crash",
                    "touch", "revert", "race", "second", "older", "legacy"}

VARIABLES
  content, mtime,   \* the tree: contents and modification times, in seconds
  clock,
  past,             \* history: what each file has contained so far
  rows,             \* the table entries
  ipc, todo, cur,   \* per pass: its step, files still to visit, file at hand
  draft             \*   what it read of it

tree == <<content, mtime, clock, past>>
pass == <<ipc, todo, cur, draft>>
vars == <<tree, rows, pass>>

Step == {"idle", "next", "stat", "compare", "read", "hash", "stamp", "embed", "upsert"}
Hash == Content \cup {NoHash}
Row == [file : File, chunk : Chunk, of : Content, hash : Hash, mod : 0..MaxTime]
Draft == [of : Content \cup {Gone}, hash : Hash, mod : 0..MaxTime]
Blank == [of |-> Gone, hash |-> NoHash, mod |-> 0]

RowsOf(f) == {r \in rows : r.file = f}
ChunksOf(f) == IF content[f] = Gone THEN {} ELSE Layout[content[f]]

(* Every chunk of the file as it is now can be found by a search. *)
Indexed(f) == \A k \in ChunksOf(f) : \E r \in RowsOf(f) : r.chunk = k /\ r.of = content[f]

RowsFor(f, d) ==
  {[file |-> f, chunk |-> k, of |-> d.of, hash |-> d.hash, mod |-> d.mod] : k \in Layout[d.of]}

(* With "legacy" the store is one of a version before content_hash. *)
Init ==
  /\ content \in [File -> Content]
  /\ clock = 1
  /\ mtime = [f \in File |-> 1]
  /\ past = [f \in File |-> {content[f]}]
  /\ rows = IF "legacy" \in Faults
            THEN UNION {RowsFor(f, [of |-> content[f], hash |-> NoHash, mod |-> 1]) : f \in File}
            ELSE {}
  /\ ipc = [i \in Indexer |-> "idle"]
  /\ todo = [i \in Indexer |-> {}]
  /\ cur = [i \in Indexer |-> NoFile]
  /\ draft = [i \in Indexer |-> Blank]

-----------------------------------------------------------------------------
(* The tree. A file is written, removed (c = Gone) or written again with   *)
(* what it has. Unless Faults says otherwise every edit is a second or     *)
(* more after the one before, leaves a content the file never had, sets    *)
(* the time it happens at, and does not fall between an indexer's read of  *)
(* the file and its stat of it.                                            *)

BeingRead(f) == \E i \in Indexer : cur[i] = f /\ ipc[i] \in {"hash", "stamp"}

Edit(f, c) ==
  /\ c = content[f] => c # Gone /\ "touch" \in Faults
  /\ c # content[f] /\ c \in past[f] => "revert" \in Faults
  /\ BeingRead(f) => "race" \in Faults
  /\ \E now \in clock..(clock + 1), t \in 1..MaxTime :
       /\ now = clock => "second" \in Faults
       /\ t <= now
       /\ t < now => "older" \in Faults
       /\ clock' = now
       /\ mtime' = [mtime EXCEPT ![f] = t]
  /\ clock' <= MaxTime
  /\ content' = [content EXCEPT ![f] = c]
  /\ past' = [past EXCEPT ![f] = @ \cup ({c} \ {Gone})]
  /\ UNCHANGED <<rows, pass>>

-----------------------------------------------------------------------------
(* A pass: indexFiles with incremental set.                                *)

Go(i, from, to) == ipc[i] = from /\ ipc' = [ipc EXCEPT ![i] = to]

(* On to the next file, which ends what is known of this one. *)
Leave(i, from) ==
  /\ Go(i, from, "next")
  /\ cur' = [cur EXCEPT ![i] = NoFile]
  /\ draft' = [draft EXCEPT ![i] = Blank]
  /\ UNCHANGED <<todo, tree>>

Keep(i, from, to) == Go(i, from, to) /\ UNCHANGED <<todo, cur, draft, tree, rows>>

Walk(i) ==
  /\ Go(i, "idle", "next")
  /\ todo' = [todo EXCEPT ![i] = {f \in File : content[f] # Gone}]
  /\ UNCHANGED <<cur, draft, tree, rows>>

NextFile(i) ==
  /\ Go(i, "next", "stat")
  /\ \E f \in todo[i] :
       /\ cur' = [cur EXCEPT ![i] = f]
       /\ todo' = [todo EXCEPT ![i] = @ \ {f}]
  /\ UNCHANGED <<draft, tree, rows>>

EndPass(i) ==
  /\ todo[i] = {}
  /\ Keep(i, "next", "idle")

(* ctx.Err() before a file. *)
Cancel(i) ==
  /\ "cancel" \in Faults
  /\ todo[i] # {}
  /\ Go(i, "next", "idle")
  /\ todo' = [todo EXCEPT ![i] = {}]
  /\ UNCHANGED <<cur, draft, tree, rows>>

(* With nothing left to do it is no other than EndPass. *)
Crash(i) ==
  /\ "crash" \in Faults
  /\ ipc[i] # "idle"
  /\ ipc[i] = "next" => todo[i] # {}
  /\ ipc' = [ipc EXCEPT ![i] = "idle"]
  /\ todo' = [todo EXCEPT ![i] = {}]
  /\ cur' = [cur EXCEPT ![i] = NoFile]
  /\ draft' = [draft EXCEPT ![i] = Blank]
  /\ UNCHANGED <<tree, rows>>

-----------------------------------------------------------------------------
(* isUpToDate: first against the newest mod_time among the file's rows, 0  *)
(* when there is none ...                                                  *)
NoModTime(f) == \A r \in RowsOf(f) : r.mod = 0
NotNewerByOne(f) == \E r \in RowsOf(f) : r.mod + 1 >= mtime[f]
OlderThanRow(f) == \E r \in RowsOf(f) : r.mod > mtime[f]
NotNewer(f) == \E r \in RowsOf(f) : r.mod >= mtime[f]

Skip(i, from) == Leave(i, from) /\ UNCHANGED rows

Stat(i) ==
  LET f == cur[i]
  IN  /\ ipc[i] = "stat"
      /\ IF content[f] = Gone \/ NotNewer(f)
           THEN Skip(i, "stat")
           ELSE Keep(i, "stat", IF NoModTime(f) THEN "read" ELSE "compare")

(* ... then against the content_hash of whichever row SQLite finds first.  *)
(* A file that has rows (Stat found some, none is removed) but no hash     *)
(* counts as indexed.                                                      *)
CompareTrusting(i) == Skip(i, "compare")

Compare(i) ==
  LET f == cur[i]
      hashes == {r.hash : r \in RowsOf(f)} \ {NoHash}
  IN  /\ ipc[i] = "compare"
      /\ \/ (content[f] \in hashes \/ hashes = {}) /\ Skip(i, "compare")
         \/ hashes \ {content[f]} # {} /\ Keep(i, "compare", "read")

-----------------------------------------------------------------------------
(* One file that is not up to date.                                        *)

(* chunkFile reads the file. One that cannot be read is listed as an       *)
(* error, one without chunks is passed over.                               *)
ReadChunks(i) ==
  LET f == cur[i]
  IN  /\ ipc[i] = "read"
      /\ IF ChunksOf(f) = {}
           THEN Skip(i, "read")
           ELSE /\ Go(i, "read", "hash")
                /\ draft' = [draft EXCEPT ![i].of = content[f]]
                /\ UNCHANGED <<todo, cur, tree, rows>>

(* hashFile reads it again; "" if it cannot. *)
HashFile(i) ==
  LET f == cur[i]
  IN  /\ Go(i, "hash", "stamp")
      /\ draft' = [draft EXCEPT ![i].hash = IF content[f] = Gone THEN NoHash ELSE content[f]]
      /\ UNCHANGED <<todo, cur, tree, rows>>

(* os.Stat, for the mod_time of the rows; 0 if it fails. *)
StatAgain(i) ==
  LET f == cur[i]
  IN  /\ Go(i, "stamp", "embed")
      /\ draft' = [draft EXCEPT ![i].mod = IF content[f] = Gone THEN 0 ELSE mtime[f]]
      /\ UNCHANGED <<todo, cur, tree, rows>>

(* EmbedBatch: all the vectors or an error. *)
Embed(i) == Keep(i, "embed", "upsert")

EmbedFails(i) == "embed" \in Faults /\ Skip(i, "embed")

(* One transaction: INSERT OR REPLACE of every chunk. *)
Upsert(i) ==
  LET new == RowsFor(cur[i], draft[i])
  IN  /\ Leave(i, "upsert")
      /\ rows' = new \cup {r \in rows : r.file # cur[i] \/ r.chunk \notin Layout[draft[i].of]}

UpsertFails(i) == "upsert" \in Faults /\ Skip(i, "upsert")

-----------------------------------------------------------------------------
Work(i) ==
  \/ NextFile(i) \/ EndPass(i) \/ Stat(i) \/ Compare(i) \/ ReadChunks(i)
  \/ HashFile(i) \/ StatAgain(i) \/ Embed(i) \/ Upsert(i)

Fail(i) == Cancel(i) \/ Crash(i) \/ EmbedFails(i) \/ UpsertFails(i)

Next ==
  \/ \E i \in Indexer : Walk(i) \/ Work(i) \/ Fail(i)
  \/ \E f \in File, c \in Content \cup {Gone} : Edit(f, c)

Spec == Init /\ [][Next]_vars

(* A pass that was started goes on. Nothing promises that one is started.  *)
FairSpec == Spec /\ \A i \in Indexer : WF_vars(Work(i))

-----------------------------------------------------------------------------
(* Also: the primary key, and no pass works on a file it has not taken.    *)
TypeOK ==
  /\ content \in [File -> Content \cup {Gone}]
  /\ mtime \in [File -> 1..MaxTime]
  /\ clock \in 1..MaxTime
  /\ past \in [File -> SUBSET Content]
  /\ rows \subseteq Row
  /\ \A r, s \in rows : r.file = s.file /\ r.chunk = s.chunk => r = s
  /\ ipc \in [Indexer -> Step]
  /\ todo \in [Indexer -> SUBSET File]
  /\ cur \in [Indexer -> File \cup {NoFile}]
  /\ draft \in [Indexer -> Draft]
  /\ \A i \in Indexer : ipc[i] \notin {"idle", "next"} => cur[i] \in File

(* isUpToDate never skips a file with a chunk that no search would find,   *)
(* whatever passes failed half way before, and whatever rows are left of   *)
(* what the file once was.                                                 *)
SkippedIsIndexed ==
  [][\A i \in Indexer :
       ipc[i] \in {"stat", "compare"} /\ ipc'[i] = "next" => Indexed(cur[i])]_vars

(* README.md: re-indexing only processes files that changed. A file that   *)
(* is read again has chunks, and one of them is not in the store.          *)
ReadsOnlyChanged ==
  [][\A i \in Indexer :
       ipc[i] \in {"stat", "compare"} /\ ipc'[i] = "read" => ChunksOf(cur[i]) = {} \/ ~Indexed(cur[i])]_vars

(* A file nobody edits any more becomes and stays indexed, if passes keep  *)
(* being started and at last stop failing.                                 *)
QuietFileIsIndexed ==
  \A f \in File :
    /\ <>[][\A c \in Content \cup {Gone} : ~Edit(f, c)]_vars
    /\ <>[][\A i \in Indexer : ~Fail(i)]_vars
    /\ []<>(\E i \in Indexer : ipc[i] = "next" /\ f \in todo[i])
    => <>[]Indexed(f)
=============================================================================
