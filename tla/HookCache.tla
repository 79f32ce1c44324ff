----------------------------- MODULE HookCache -----------------------------
(***************************************************************************)
(* The prompt hook of heimdall-mcp and its answer cache:                   *)
(*   internal/cli/hook_user_prompt.go   the hook process                   *)
(*   internal/heimdall/hook_cache.go    rows of hook_cache, index_version  *)
(*   internal/heimdall/store.go         the writers of the index           *)
(*   internal/heimdall/lifecycle.go     archive, prune, cap                *)
(*                                                                         *)
(* Every prompt starts a process of its own with its own handle on the     *)
(* project's database, so the mutex of VectorStore orders nothing between  *)
(* them: a step is one SQL statement (or transaction). The index is its    *)
(* generation, a number that grows with every change of the entries, and   *)
(* an answer is the generation it was computed from. Versions are only     *)
(* compared for equality, so that a version is the generation of the write *)
(* that made it.                                                           *)
(***************************************************************************)
EXTENDS Naturals, FiniteSets

CONSTANTS
  Prompt,      \* normalised prompts, each with its scope
  Hook,        \* hook processes that may run at once
  RowCap,      \* userPromptCacheRowCap
  Ttl,         \* userPromptCacheTTL, in ticks
  MaxWrites,   \* bound: generations of the index
  MaxTime,     \* bound: ticks of the clock
  MaxCut,      \* bound: puts cut off before they evict
  NoPrompt,
  Partial,     \* an answer computed without having read the whole index
  Faults       \* what else may happen to the database and the hooks

ASSUME BoundsAssumption ==
  /\ RowCap \in Nat \ {0} /\ Ttl \in Nat /\ MaxWrites \in Nat /\ MaxTime \in Nat /\ MaxCut \in Nat
  /\ IsFiniteSet(Hook)
ASSUME NullAssumption == NoPrompt \notin Prompt /\ Partial \notin Nat
ASSUME FaultsAssumption == Faults \subseteq {"unversioned", "version", "search", "put", "kill", "clear"}

VARIABLES
  content,     \* generation of the entries
  version,     \* index_version in store_metadata
  table,       \* rows of hook_cache
  now,         \* the clock
  pc, prompt,  \* per hook: its step, its prompt,
  ver,         \*   the version in its cache key,
  since,       \*   history: index_version when it computed the key,
  answer,      \*   what it will print,
  rows,        \*   hookCacheRows of its handle
  cut          \* history: puts that inserted their row and evicted none

index == <<content, version>>
hookVars == <<pc, prompt, ver, since, answer, rows>>
vars == <<index, table, now, hookVars, cut>>

Generation == 0..MaxWrites
Answer == Generation \cup {Partial}
Row == [prompt : Prompt, ver : Generation, body : Answer, at : 0..MaxTime]
Step == {"idle", "lookup", "search", "count", "exists", "insert", "replace", "evict", "print"}

Init ==
  /\ content = 0 /\ version = 0
  /\ table = {}
  /\ now = 0
  /\ pc = [h \in Hook |-> "idle"]
  /\ prompt = [h \in Hook |-> NoPrompt]
  /\ ver = [h \in Hook |-> 0]
  /\ since = [h \in Hook |-> 0]
  /\ answer = [h \in Hook |-> 0]
  /\ rows = [h \in Hook |-> 0]
  /\ cut = 0

Go(h, from, to) == pc[h] = from /\ pc' = [pc EXCEPT ![h] = to]

(* What the process knew goes with it. *)
Forget(h) ==
  /\ prompt' = [prompt EXCEPT ![h] = NoPrompt]
  /\ ver' = [ver EXCEPT ![h] = 0]
  /\ since' = [since EXCEPT ![h] = 0]
  /\ answer' = [answer EXCEPT ![h] = 0]
  /\ rows' = [rows EXCEPT ![h] = 0]

(* The row under the key of h, if there is one: key is a primary key. *)
Mine(h, r) == r.prompt = prompt[h] /\ r.ver = ver[h]

-----------------------------------------------------------------------------
(* The hook process.                                                       *)

(* A prompt arrives: GetIndexVersion, then the key. The error of the       *)
(* version query is dropped and reads as 0.                                *)
ComputeKey(h, p) ==
  /\ Go(h, "idle", "lookup")
  /\ prompt' = [prompt EXCEPT ![h] = p]
  /\ since' = [since EXCEPT ![h] = version]
  /\ \/ ver' = [ver EXCEPT ![h] = version]
     \/ "version" \in Faults /\ ver' = [ver EXCEPT ![h] = 0]
  /\ UNCHANGED <<index, table, now, answer, rows, cut>>

(* HookCacheGet: a row that is not older than the TTL is the answer. *)
Hit(h) ==
  /\ \E r \in table :
       /\ Mine(h, r) /\ now - r.at <= Ttl
       /\ Go(h, "lookup", "print")
       /\ answer' = [answer EXCEPT ![h] = r.body]
  /\ UNCHANGED <<index, table, now, prompt, ver, since, rows, cut>>

(* No such row, or the query fails: the hook goes on to search. *)
Miss(h) ==
  /\ "search" \in Faults \/ \A r \in table : Mine(h, r) => now - r.at > Ttl
  /\ Go(h, "lookup", "search")
  /\ UNCHANGED <<index, table, now, prompt, ver, since, answer, rows, cut>>

(* The embedding failed, or the budget ran out before the rendering. *)
GiveUp(h) ==
  /\ Go(h, "search", "idle")
  /\ Forget(h)
  /\ UNCHANGED <<index, table, now, cut>>

(* SearchFiltered: a query that fails returns no results, a scan that is   *)
(* cut short those it has, and neither reports it.                         *)
Search(h) ==
  /\ Go(h, "search", "count")
  /\ \/ answer' = [answer EXCEPT ![h] = content]
     \/ "search" \in Faults /\ answer' = [answer EXCEPT ![h] = Partial]
  /\ UNCHANGED <<index, table, now, prompt, ver, since, rows, cut>>

(* HookCachePut counts the rows: the counter of a new handle is unset. *)
PutCount(h) ==
  /\ Go(h, "count", "exists")
  /\ rows' = [rows EXCEPT ![h] = Cardinality(table)]
  /\ UNCHANGED <<index, table, now, prompt, ver, since, answer, cut>>

PutExists(h) ==
  /\ Go(h, "exists", IF \E r \in table : Mine(h, r) THEN "replace" ELSE "insert")
  /\ UNCHANGED <<index, table, now, prompt, ver, since, answer, rows, cut>>

PutUnderCurrentVersion(h) ==
  /\ Go(h, "insert", "evict") \/ Go(h, "replace", "evict")
  /\ table' = {r \in table : ~(r.prompt = prompt[h] /\ r.ver = version)}
                \cup {[prompt |-> prompt[h], ver |-> version, body |-> answer[h], at |-> now]}
  /\ rows' = [rows EXCEPT ![h] = IF pc[h] = "insert" THEN @ + 1 ELSE @]
  /\ UNCHANGED <<index, now, prompt, ver, since, answer, cut>>

PutRowUnevicted(h) ==
  /\ Go(h, "insert", "print") \/ Go(h, "replace", "print")
  /\ table' = {r \in table : ~Mine(h, r)}
                \cup {[prompt |-> prompt[h], ver |-> ver[h], body |-> answer[h], at |-> now]}
  /\ rows' = [rows EXCEPT ![h] = 0]
  /\ UNCHANGED <<index, now, prompt, ver, since, answer, cut>>

(* INSERT OR REPLACE under the key computed before the lookup; the counter *)
(* follows what the previous statement saw.                                *)
PutRow(h) ==
  /\ Go(h, "insert", "evict") \/ Go(h, "replace", "evict")
  /\ table' = {r \in table : ~Mine(h, r)}
                \cup {[prompt |-> prompt[h], ver |-> ver[h], body |-> answer[h], at |-> now]}
  /\ rows' = [rows EXCEPT ![h] = IF pc[h] = "insert" THEN @ + 1 ELSE @]
  /\ UNCHANGED <<index, now, prompt, ver, since, answer, cut>>

(* The n oldest rows; rows of the same second go in any order. *)
Oldest(n) ==
  {s \in SUBSET table :
     /\ Cardinality(s) = IF n > Cardinality(table) THEN Cardinality(table) ELSE n
     /\ \A r \in s, q \in table \ s : r.at <= q.at}

Evict(h) ==
  /\ Go(h, "evict", "print")
  /\ IF rows[h] > RowCap
       THEN \E s \in Oldest(rows[h] - RowCap) : table' = table \ s
       ELSE UNCHANGED table
  /\ rows' = [rows EXCEPT ![h] = 0]
  /\ UNCHANGED <<index, now, prompt, ver, since, answer, cut>>

(* A put that ends between its row and its eviction. *)
CutOff(h) ==
  /\ cut' = IF pc[h] = "evict" THEN cut + 1 ELSE cut
  /\ cut' <= MaxCut

(* A statement of HookCachePut fails: logged, and the answer is printed. *)
PutFails(h) ==
  /\ "put" \in Faults
  /\ \E s \in {"count", "exists", "insert", "replace", "evict"} : Go(h, s, "print")
  /\ rows' = [rows EXCEPT ![h] = 0]
  /\ CutOff(h)
  /\ UNCHANGED <<index, table, now, prompt, ver, since, answer>>

PrintAnswer(h) ==
  /\ Go(h, "print", "idle")
  /\ Forget(h)
  /\ UNCHANGED <<index, table, now, cut>>

(* The harness kills a hook that is over its time. *)
HookKilled(h) ==
  /\ "kill" \in Faults
  /\ pc[h] # "idle"
  /\ pc' = [pc EXCEPT ![h] = "idle"]
  /\ Forget(h)
  /\ CutOff(h)
  /\ UNCHANGED <<index, table, now>>

-----------------------------------------------------------------------------
(* The other processes on the same database, and the clock.                *)

(* Upsert and RemoveByFile: the entries and index_version change in one    *)
(* transaction (a transaction that fails changes neither).                 *)
WriteIndex ==
  /\ content < MaxWrites
  /\ content' = content + 1
  /\ version' = content + 1
  /\ UNCHANGED <<table, now, hookVars, cut>>

(* RunLifecycle and BackfillSubProject change entries and nothing else. *)
WriteUnversioned ==
  /\ "unversioned" \in Faults
  /\ content < MaxWrites
  /\ content' = content + 1
  /\ UNCHANGED <<version, table, now, hookVars, cut>>

(* HookCacheClear, by `hooks cache-clear` and by the legacy migration. *)
ClearCache ==
  /\ "clear" \in Faults
  /\ table' = {}
  /\ UNCHANGED <<index, now, hookVars, cut>>

Tick ==
  /\ now < MaxTime
  /\ now' = now + 1
  /\ UNCHANGED <<index, table, hookVars, cut>>

-----------------------------------------------------------------------------
HookRuns(h) ==
  \/ Hit(h) \/ Miss(h) \/ GiveUp(h) \/ Search(h)
  \/ PutCount(h) \/ PutExists(h) \/ PutRow(h) \/ Evict(h) \/ PutFails(h)
  \/ PrintAnswer(h) \/ HookKilled(h)

Next ==
  \/ \E h \in Hook : (\E p \in Prompt : ComputeKey(h, p)) \/ HookRuns(h)
  \/ WriteIndex \/ WriteUnversioned \/ ClearCache \/ Tick

Spec == Init /\ [][Next]_vars

-----------------------------------------------------------------------------
TypeOK ==
  /\ content \in Generation /\ version \in Generation
  /\ table \subseteq Row
  /\ now \in 0..MaxTime
  /\ pc \in [Hook -> Step]
  /\ prompt \in [Hook -> Prompt \cup {NoPrompt}]
  /\ ver \in [Hook -> Generation]
  /\ since \in [Hook -> Generation]
  /\ answer \in [Hook -> Answer]
  /\ rows \in [Hook -> Nat]
  /\ cut \in 0..MaxCut

(* No stale answer: what a hook prints, cached or not, reflects every      *)
(* versioned write that was committed before its prompt (or is known to be *)
(* partial), whatever the order of writes, lookups, puts and kills.        *)
FreshAnswer ==
  \A h \in Hook : pc[h] = "print" /\ answer[h] # Partial => answer[h] \in since[h]..content

(* Hooks that overlap or are cut off may leave the table over its cap, but *)
(* each of them by no more than its own row, and what one leaves the next  *)
(* put takes away: the excess does not grow with the number of prompts.    *)
AtRest == \A h \in Hook : pc[h] \in {"idle", "lookup", "search", "count", "print"}
CapOvershoot == AtRest => Cardinality(table) <= RowCap + (Cardinality(Hook) - 1) + cut

-----------------------------------------------------------------------------
(* What comments and design documents of the repository say and the code   *)
(* does not do.                                                            *)

(* hook_cache.go, HookCachePut: rows are evicted until the count is back   *)
(* within the cap.                                                         *)
BackWithinCap == AtRest => Cardinality(table) <= RowCap

(* 04-failure-modes.md, row 9: the DB is locked, the hook prints nothing.  *)
SilentWhenLocked == \A h \in Hook : pc[h] = "print" => answer[h] # Partial
=============================================================================
