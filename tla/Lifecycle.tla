----------------------------- MODULE Lifecycle -----------------------------
(***************************************************************************)
(* What searches do to a store: heimdall_search ranks its chunks, serves   *)
(* the best, marks them as used, and then runs the lifecycle, which cuts   *)
(* short, prunes and caps what is not used (internal/mcp/tools.go,         *)
(* internal/heimdall/{store,retriever,lifecycle}.go).                      *)
(*                                                                         *)
(* The lock of a VectorStore holds within one server; servers of several   *)
(* sessions have the file open at once, and each SQL statement is a step   *)
(* of its own.  The last run of the lifecycle is kept in the VectorStore,  *)
(* and every search opens a new one: the throttle of an hour always lets   *)
(* it run.  Days stand for the times in seconds, and the similarity of a   *)
(* chunk to the query is a small number.                                   *)
(***************************************************************************)
EXTENDS Naturals, FiniteSets, FiniteSetsExt

CONSTANTS ChunkId,
          SourceType,      \* of each chunk; code and memories are exempt
          Likeness,        \* of each chunk to the query
          Searcher,        \* servers
          TopK, MaxContextTokens,
          ActiveDays, ArchiveDays, MaxChunks,      \* LifecycleConfig
          MaxToday, MaxSearches, MaxUpserts        \* bounds

(* The tools set the lifecycle to 30 and 90 days and 10000 chunks.         *)
ASSUME LifeAssumption ==
  /\ IsFiniteSet(ChunkId) /\ MaxChunks \in Nat \ {0}
  /\ ActiveDays \in Nat /\ ArchiveDays \in Nat /\ ActiveDays <= ArchiveDays

VARIABLES chunks,         \* by chunk: day of its last use (0 never), uncut
          shownOn,         \* by chunk: day of its last use, also if indexed since
          today,
          searcher,        \* per server: step, what it serves, the lifecycle's
                           \* time and excess, and whether another deleted since
          searches, upserts

lifeVars == <<chunks, shownOn, today, searcher, searches, upserts>>

Exempt == {c \in ChunkId : SourceType[c] \in {"code", "memory"}}
Stored == DOMAIN chunks
NoSearch == [pc |-> "idle", serves |-> {}, now |-> 0, excess |-> 0, late |-> FALSE]

(* Indexed, and some of it used on the first day. *)
LifeInit ==
  /\ chunks \in [ChunkId -> [used : {0, 1}, whole : {TRUE}]]
  /\ shownOn = [c \in ChunkId |-> chunks[c].used]
  /\ today = 1
  /\ searcher = [p \in Searcher |-> NoSearch]
  /\ searches = 0 /\ upserts = 0

(* Linear from 1 to 1/2 over ArchiveDays, in units of 1/(2 * ArchiveDays); *)
(* a chunk that was never used counts as fresh.                            *)
FreshnessWeight(used) ==
  IF used = 0 THEN 2 * ArchiveDays
  ELSE 2 * ArchiveDays - (IF today - used > ArchiveDays THEN ArchiveDays ELSE today - used)
Score(c) == Likeness[c] * FreshnessWeight(chunks[c].used)
EstimateTokens(S) == Cardinality(S) + Cardinality({c \in S : chunks[c].whole})

(* The best of S, ties broken either way. *)
AreBest(T, S) == T \subseteq S /\ \A c \in T, d \in S \ T : Score(c) >= Score(d)
SearchFiltered(S) == {T \in SUBSET S : Cardinality(T) <= TopK /\ AreBest(T, S)
                                       /\ (T = S \/ Cardinality(T) = TopK)}

(* Retrieve takes them in order while they fit, the first one always. *)
Retrieve(T) ==
  {R \in SUBSET T :
     /\ AreBest(R, T) /\ (R = {} => T = {})
     /\ EstimateTokens(R) <= MaxContextTokens \/ Cardinality(R) = 1
     /\ R = T \/ \E c \in T \ R : AreBest(R \cup {c}, T) /\ EstimateTokens(R \cup {c}) > MaxContextTokens}

-----------------------------------------------------------------------------
Steps(p, from, to) == searcher[p].pc = from /\ searcher' = [searcher EXCEPT ![p].pc = to]
Deletes(p, gone, to) ==
  /\ chunks' = [c \in Stored \ gone |-> chunks[c]]
  /\ searcher' = [q \in Searcher |->
       IF q = p THEN to ELSE IF gone = {} THEN searcher[q] ELSE [searcher[q] EXCEPT !.late = TRUE]]

(* A search without filters goes through the retriever, one by source type *)
(* serves all it finds. With nothing found it ends.                        *)
ToolSearch(p) ==
  /\ searcher[p].pc = "idle" /\ searches < MaxSearches
  /\ \E R \in UNION ({Retrieve(T) : T \in SearchFiltered(Stored)}
                     \cup {SearchFiltered({c \in Stored : SourceType[c] = t}) : t \in {"code", "text"}}) :
       /\ R # {}
       /\ searcher' = [searcher EXCEPT ![p] = [NoSearch EXCEPT !.pc = "touch", !.serves = R]]
  /\ searches' = searches + 1
  /\ UNCHANGED <<chunks, shownOn, today, upserts>>

(* An error is logged and the search goes on. *)
UpdateLastAccessed(p) ==
  /\ Steps(p, "touch", "begin")
  /\ \/ LET S == searcher[p].serves \cap Stored IN
        /\ chunks' = [c \in Stored |-> IF c \in S THEN [chunks[c] EXCEPT !.used = today] ELSE chunks[c]]
        /\ shownOn' = [c \in ChunkId |-> IF c \in S THEN today ELSE shownOn[c]]
     \/ UNCHANGED <<chunks, shownOn>>
  /\ UNCHANGED <<today, searches, upserts>>

RunLifecycle(p) ==
  /\ searcher[p].pc = "begin"
  /\ searcher' = [searcher EXCEPT ![p].pc = "archive", ![p].now = today]
  /\ UNCHANGED <<chunks, shownOn, today, searches, upserts>>

(* Days that the lifecycle of p takes a chunk to have been unused. *)
Unused(p, c) == IF searcher[p].now > chunks[c].used THEN searcher[p].now - chunks[c].used ELSE 0
Ages(p, c) == c \in Stored \ Exempt /\ chunks[c].used > 0

ArchiveStage(p) ==
  /\ Steps(p, "archive", "prune")
  /\ chunks' = [c \in Stored |->
       IF Ages(p, c) /\ Unused(p, c) > ActiveDays /\ Unused(p, c) <= ArchiveDays
         THEN [chunks[c] EXCEPT !.whole = FALSE] ELSE chunks[c]]
  /\ UNCHANGED <<shownOn, today, searches, upserts>>

PruneStage(p) ==
  /\ searcher[p].pc = "prune"
  /\ Deletes(p, {c \in Stored : Ages(p, c) /\ Unused(p, c) > ArchiveDays},
             [searcher[p] EXCEPT !.pc = "count"])
  /\ UNCHANGED <<shownOn, today, searches, upserts>>

CountStage(p) ==
  /\ searcher[p].pc = "count"
  /\ searcher' = [searcher EXCEPT ![p] =
       IF Cardinality(Stored) > MaxChunks
         THEN [@ EXCEPT !.pc = "cap", !.excess = Cardinality(Stored) - MaxChunks, !.late = FALSE]
         ELSE NoSearch]
  /\ UNCHANGED <<chunks, shownOn, today, searches, upserts>>

(* Mutant: the most recently used go first. *)
MostUsed(S, n) ==
  {T \in SUBSET S : /\ Cardinality(T) = (IF n < Cardinality(S) THEN n ELSE Cardinality(S))
                    /\ \A c \in T, d \in S \ T : chunks[c].used >= chunks[d].used}

(* ORDER BY last_accessed ASC LIMIT n; those never used come first. *)
LeastUsed(S, n) ==
  {T \in SUBSET S : /\ Cardinality(T) = (IF n < Cardinality(S) THEN n ELSE Cardinality(S))
                    /\ \A c \in T, d \in S \ T : chunks[c].used <= chunks[d].used}

CapStage(p) ==
  /\ searcher[p].pc = "cap"
  /\ \E gone \in LeastUsed(Stored \ Exempt, searcher[p].excess) : Deletes(p, gone, NoSearch)
  /\ UNCHANGED <<shownOn, today, searches, upserts>>

(* An error of a statement, logged, or the end of the server. *)
LifecycleFails(p) ==
  /\ searcher[p].pc # "idle"
  /\ searcher' = [searcher EXCEPT ![p] = NoSearch]
  /\ UNCHANGED <<chunks, shownOn, today, searches, upserts>>

(* INSERT OR REPLACE without last_accessed: a chunk is as if never used. *)
Upsert ==
  /\ upserts < MaxUpserts /\ upserts' = upserts + 1
  /\ \E c \in ChunkId : chunks' = [d \in Stored \cup {c} |->
       IF d = c THEN [used |-> 0, whole |-> TRUE] ELSE chunks[d]]
  /\ UNCHANGED <<shownOn, today, searcher, searches>>

DayPasses ==
  /\ today < MaxToday /\ today' = today + 1
  /\ UNCHANGED <<chunks, shownOn, searcher, searches, upserts>>

LifeNext ==
  \/ \E p \in Searcher :
       \/ ToolSearch(p) \/ UpdateLastAccessed(p) \/ RunLifecycle(p) \/ ArchiveStage(p)
       \/ PruneStage(p) \/ CountStage(p) \/ CapStage(p) \/ LifecycleFails(p)
  \/ Upsert \/ DayPasses

LifeSpec == LifeInit /\ [][LifeNext]_lifeVars

-----------------------------------------------------------------------------
LifeTypeOK ==
  /\ Stored \subseteq ChunkId /\ \A c \in Stored : chunks[c] \in [used : 0..today, whole : BOOLEAN]
  /\ shownOn \in [ChunkId -> 0..today]
  /\ \A p \in Searcher :
       searcher[p].pc \in {"idle", "touch", "begin", "archive", "prune", "count", "cap"}
       /\ searcher[p].serves \subseteq ChunkId /\ searcher[p].excess <= Cardinality(ChunkId)

(* A chunk that some server has served within ActiveDays, and that was     *)
(* marked so, stays in the store and whole, whichever servers run their    *)
(* lifecycles over it and however long ago those began; only the cap may   *)
(* take it, if it has been indexed again since (which forgets its use) or  *)
(* if nothing that is not exempt and used less recently is left.  And the  *)
(* cap leaves MaxChunks chunks, unless another server deleted after the    *)
(* count.                                                                  *)
UsedIsKept ==
  [][/\ \A c \in Stored : shownOn[c] > 0 /\ today - shownOn[c] <= ActiveDays =>
          \/ c \in DOMAIN chunks' /\ (chunks[c].whole => chunks'[c].whole)
          \/ /\ c \notin DOMAIN chunks' /\ \E p \in Searcher : searcher[p].pc = "cap" /\ searcher'[p].pc = "idle"
             /\ \/ chunks[c].used < shownOn[c]
                \/ \A d \in DOMAIN chunks' \ Exempt : chunks[d].used >= chunks[c].used
     /\ \A p \in Searcher : searcher[p].pc = "cap" /\ ~searcher[p].late /\ searcher'[p].pc = "idle"
          => Cardinality(DOMAIN chunks') >= MaxChunks]_lifeVars
=============================================================================
