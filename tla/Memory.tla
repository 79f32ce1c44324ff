------------------------------- MODULE Memory -------------------------------
(***************************************************************************)
(* The memories of heimdall-mcp:                                           *)
(*   internal/heimdall/memory_store.go   the table memories                *)
(*   internal/mcp/memory_tools.go        heimdall_remember                 *)
(*   internal/heimdall/memory_ingest.go  ingest of a session summary       *)
(*   internal/heimdall/skills_sync.go    import of SKILL.md files          *)
(*                                                                         *)
(* One database serves every MCP server, every session-end hook and the    *)
(* command line, each a process with its own handle. A step is one SQL     *)
(* statement with what the process computes from it: what a writer reads   *)
(* and what it writes back are two steps.                                  *)
(*                                                                         *)
(* A text stands for all texts with its content hash, and for its          *)
(* embedding; Near says whose similarity is over the threshold. An id is   *)
(* the source that made the row and its text, or the skill file and the    *)
(* part of it, as in "mem:session:<hash>" and "mem:skill:disk:<slug>".     *)
(* Tags, projects, paths and times are left out: no writer's choice        *)
(* depends on them.                                                        *)
(***************************************************************************)
EXTENDS Naturals, Sequences, FiniteSets

CONSTANTS
  Text,
  Near,        \* pairs of texts that are semantic duplicates
  Writer,      \* processes that remember and ingest
  Skill,       \* slugs
  File,        \* what a SKILL.md may be cut into: texts in order
  MaxParts,    \* bound: parts of a file
  Summary,     \* what a session may be cut into: texts in order
  NoRow, NoText, NoSkill, NoCache,
  SemanticCap, \* MaxMemoriesForSemanticDedup
  MaxCalls,    \* bound: calls of remember and ingest
  Faults       \* what may go wrong

ASSUME NearAssumption == \A t, u \in Text : <<t, t>> \in Near /\ (<<t, u>> \in Near => <<u, t>> \in Near)
ASSUME PartsAssumption == MaxParts \in Nat \ {0} /\ \A f \in File : f \in Seq(Text) /\ Len(f) \in 1..MaxParts
ASSUME SummaryAssumption == Summary \subseteq Seq(Text) \ {<<>>}
ASSUME CapAssumption == SemanticCap \in Nat /\ MaxCalls \in Nat
ASSUME NullAssumption == NoText \notin Text /\ NoSkill \notin Skill
ASSUME FaultsAssumption == Faults \subseteq {"write", "import"}

VARIABLES
  memories,   \* the table: a row or NoRow under every id
  disk,       \* the SKILL.md files, <<>> where there is none
  pc,         \* of each writer
  text,       \* the text a remember is about
  type,       \* the type it was given
  chunks,     \* what is left of a summary
  cache,      \* the vectors an ingest loaded
  held,       \* the row a writer read and means to write back
  ipc, todo, skill, parts, part, doomed,   \* of the import
  calls,
  overlapped  \* history: two writers were at work at once

writers == <<pc, text, type, chunks, cache, held>>
import == <<ipc, todo, skill, parts, part, doomed>>
vars == <<memories, disk, writers, import, calls, overlapped>>

Type == {"skill", "other"}
Row == [text : Text, source : {"explicit", "session"}, type : Type]
ASSUME RowAssumption == NoRow \notin Row
ExplicitId(t) == [kind |-> "explicit", of |-> t, part |-> 0]
SessionId(t) == [kind |-> "session", of |-> t, part |-> 0]
SkillId(s, n) == [kind |-> "skill", of |-> s, part |-> n]
Id == {ExplicitId(t) : t \in Text} \cup {SessionId(t) : t \in Text}
        \cup {SkillId(s, n) : s \in Skill, n \in 1..MaxParts}

Stored == {i \in Id : memories[i] # NoRow}
WithText(t) == {i \in Stored : memories[i].text = t}

(* The most similar of some entries: one with the very text, if there is. *)
Closest(t, entries) ==
  LET same == {e \in entries : e.text = t}
  IN  IF same # {} THEN same ELSE {e \in entries : <<t, e.text>> \in Near}

Vectors == {[id |-> i, text |-> memories[i].text] : i \in Stored}

Init ==
  /\ memories = [i \in Id |-> NoRow]
  /\ disk = [s \in Skill |-> <<>>]
  /\ pc = [w \in Writer |-> "idle"]
  /\ text = [w \in Writer |-> NoText]
  /\ type = [w \in Writer |-> "other"]
  /\ chunks = [w \in Writer |-> <<>>]
  /\ cache = [w \in Writer |-> NoCache]
  /\ held = [w \in Writer |-> NoRow]
  /\ ipc = "idle" /\ todo = {} /\ skill = NoSkill /\ parts = <<>> /\ part = 1 /\ doomed = {}
  /\ calls = 0
  /\ overlapped = FALSE

-----------------------------------------------------------------------------
(* Writers.                                                                *)

Go(w, from, to) == pc[w] = from /\ pc' = [pc EXCEPT ![w] = to]
Hold(w, i) == held' = [held EXCEPT ![w] = [id |-> i, row |-> memories[i]]]
Put(i, row) == memories' = [memories EXCEPT ![i] = row]

Call(w) ==
  /\ pc[w] = "idle"
  /\ calls < MaxCalls
  /\ calls' = calls + 1
  /\ overlapped' = (overlapped \/ \E v \in Writer : v # w /\ pc[v] # "idle")

(* The end of a call; what it read goes. *)
Finish(w) ==
  /\ pc' = [pc EXCEPT ![w] = "idle"]
  /\ text' = [text EXCEPT ![w] = NoText]
  /\ type' = [type EXCEPT ![w] = "other"]
  /\ chunks' = [chunks EXCEPT ![w] = <<>>]
  /\ cache' = [cache EXCEPT ![w] = NoCache]
  /\ held' = [held EXCEPT ![w] = NoRow]

(* A failed statement or embedding ends the call with what it has written  *)
(* so far, and so does the end of its process (the editor ends a           *)
(* session-end hook after its budget).                                     *)
GiveUp(w) ==
  /\ "write" \in Faults
  /\ pc[w] # "idle"
  /\ Finish(w)
  /\ UNCHANGED <<memories, disk, import, calls, overlapped>>

(* toolRemember: a call begins with the search for the very text.          *)
Remember(w, t, k) ==
  /\ Call(w)
  /\ text' = [text EXCEPT ![w] = t]
  /\ type' = [type EXCEPT ![w] = k]
  /\ \/ Go(w, "idle", "merge") /\ \E i \in WithText(t) : Hold(w, i)
     \/ Go(w, "idle", "similar") /\ WithText(t) = {} /\ UNCHANGED held
  /\ UNCHANGED <<memories, disk, chunks, cache, import>>

(* FindSimilarMemory: none at all in a large table. *)
RememberSimilar(w) ==
  LET similar == IF Cardinality(Stored) > SemanticCap THEN {} ELSE Closest(text[w], Vectors)
  IN  /\ pc[w] = "similar"
      /\ \/ Go(w, "similar", "overwrite") /\ \E e \in similar : Hold(w, e.id)
         \/ Go(w, "similar", "create") /\ similar = {} /\ UNCHANGED held
      /\ UNCHANGED <<memories, disk, text, type, chunks, cache, import, calls, overlapped>>

(* attachSkillFileWrite: a skill may be written to a file too, over one    *)
(* that is there or not.                                                   *)
WriteSkillFile(w) ==
  \/ UNCHANGED disk
  \/ type[w] = "skill" /\ \E s \in Skill, f \in File : disk' = [disk EXCEPT ![s] = f]

RememberMerge(w) ==
  /\ pc[w] = "merge"
  /\ Put(held[w].id, [held[w].row EXCEPT !.type = type[w]])
  /\ WriteSkillFile(w) /\ Finish(w)
  /\ UNCHANGED <<import, calls, overlapped>>

RememberOverwrite(w) ==
  /\ pc[w] = "overwrite"
  /\ Put(held[w].id,
         [text |-> IF held[w].row.source = "session" THEN text[w] ELSE held[w].row.text,
          source |-> "explicit", type |-> type[w]])
  /\ WriteSkillFile(w) /\ Finish(w)
  /\ UNCHANGED <<import, calls, overlapped>>

RememberCreate(w) ==
  /\ pc[w] = "create"
  /\ Put(ExplicitId(text[w]), [text |-> text[w], source |-> "explicit", type |-> type[w]])
  /\ WriteSkillFile(w) /\ Finish(w)
  /\ UNCHANGED <<import, calls, overlapped>>

(* IngestSession: a call begins by loading the vectors, and does without   *)
(* if there are too many of them or none.                                  *)
Ingest(w, s) ==
  /\ Call(w)
  /\ Go(w, "idle", "chunk")
  /\ chunks' = [chunks EXCEPT ![w] = s]
  /\ cache' = [cache EXCEPT ![w] = IF Cardinality(Stored) \in 1..SemanticCap THEN Vectors ELSE NoCache]
  /\ UNCHANGED <<memories, disk, text, type, held, import>>

(* On to the next chunk, with what the cache has gained, or done.          *)
NextChunk(w, new) ==
  IF Len(chunks[w]) = 1 THEN Finish(w)
  ELSE /\ pc' = [pc EXCEPT ![w] = "chunk"]
       /\ chunks' = [chunks EXCEPT ![w] = Tail(@)]
       /\ cache' = [cache EXCEPT ![w] = IF @ = NoCache THEN @ ELSE @ \cup new]
       /\ held' = [held EXCEPT ![w] = NoRow]
       /\ UNCHANGED <<text, type>>

IngestFindOwn(w) ==
  /\ pc[w] = "chunk"
  /\ IF memories[SessionId(Head(chunks[w]))] # NoRow
       THEN NextChunk(w, {})
       ELSE Go(w, "chunk", "match") /\ UNCHANGED <<text, type, chunks, cache, held>>
  /\ UNCHANGED <<memories, disk, import, calls, overlapped>>

IngestFind(w) ==
  /\ pc[w] = "chunk"
  /\ IF WithText(Head(chunks[w])) # {}
       THEN NextChunk(w, {})
       ELSE Go(w, "chunk", "match") /\ UNCHANGED <<text, type, chunks, cache, held>>
  /\ UNCHANGED <<memories, disk, import, calls, overlapped>>

(* The nearest vector of the cache, and the row that now has its id.       *)
IngestMatch(w) ==
  LET close == IF cache[w] = NoCache THEN {} ELSE Closest(Head(chunks[w]), cache[w])
  IN  /\ pc[w] = "match"
      /\ \/ \E e \in close : IF memories[e.id] = NoRow
                               THEN Go(w, "match", "insert") /\ UNCHANGED held
                               ELSE Go(w, "match", "update") /\ Hold(w, e.id)
         \/ Go(w, "match", "insert") /\ close = {} /\ UNCHANGED held
      /\ UNCHANGED <<memories, disk, text, type, chunks, cache, import, calls, overlapped>>

IngestUpdateAlways(w) ==
  /\ pc[w] = "update"
  /\ Put(held[w].id, [held[w].row EXCEPT !.text = Head(chunks[w])])
  /\ NextChunk(w, {})
  /\ UNCHANGED <<disk, import, calls, overlapped>>

IngestUpdate(w) ==
  /\ pc[w] = "update"
  /\ Put(held[w].id, IF held[w].row.source = "explicit"
                       THEN held[w].row
                       ELSE [held[w].row EXCEPT !.text = Head(chunks[w])])
  /\ NextChunk(w, {})
  /\ UNCHANGED <<disk, import, calls, overlapped>>

IngestInsert(w) ==
  LET t == Head(chunks[w])
  IN  /\ pc[w] = "insert"
      /\ Put(SessionId(t), [text |-> t, source |-> "session", type |-> "other"])
      /\ NextChunk(w, {[id |-> SessionId(t), text |-> t]})
      /\ UNCHANGED <<disk, import, calls, overlapped>>

-----------------------------------------------------------------------------
(* ImportSkillsFromDir.                                                    *)

ImportGo(from, to) == ipc = from /\ ipc' = to

ImportStart ==
  /\ ImportGo("idle", "walk")
  /\ todo' = Skill
  /\ UNCHANGED <<memories, disk, writers, skill, parts, part, doomed, calls, overlapped>>

ImportSkip(s) ==
  /\ ipc = "walk" /\ s \in todo /\ disk[s] = <<>>
  /\ todo' = todo \ {s}
  /\ UNCHANGED <<memories, disk, writers, ipc, skill, parts, part, doomed, calls, overlapped>>

(* Parse the file, and list the parts a longer one has left.               *)
ImportFile(s) ==
  /\ ImportGo("walk", "file") /\ s \in todo /\ disk[s] # <<>>
  /\ todo' = todo \ {s}
  /\ skill' = s /\ parts' = disk[s] /\ part' = 1
  /\ doomed' = {n \in (Len(disk[s]) + 1)..MaxParts : memories[SkillId(s, n)] # NoRow}
  /\ UNCHANGED <<memories, disk, writers, calls, overlapped>>

ImportPrune ==
  /\ ipc = "file"
  /\ \E n \in doomed : Put(SkillId(skill, n), NoRow) /\ doomed' = doomed \ {n}
  /\ UNCHANGED <<disk, writers, ipc, todo, skill, parts, part, calls, overlapped>>

(* On to the next part, or after the last one to the next file.            *)
NextPart ==
  IF part < Len(parts)
    THEN ipc' = "file" /\ part' = part + 1 /\ UNCHANGED <<skill, parts>>
    ELSE ipc' = "walk" /\ part' = 1 /\ skill' = NoSkill /\ parts' = <<>>

ImportPartOnce ==
  /\ ipc = "file" /\ doomed = {}
  /\ IF memories[SkillId(skill, part)] # NoRow
       THEN NextPart
       ELSE ipc' = "put" /\ UNCHANGED <<skill, parts, part>>
  /\ UNCHANGED <<memories, disk, writers, todo, doomed, calls, overlapped>>

(* A part whose hash is the row's is left alone, any other is embedded.    *)
ImportPart ==
  /\ ipc = "file" /\ doomed = {}
  /\ LET row == memories[SkillId(skill, part)]
     IN  IF row # NoRow /\ row.text = parts[part]
           THEN NextPart
           ELSE ipc' = "put" /\ UNCHANGED <<skill, parts, part>>
  /\ UNCHANGED <<memories, disk, writers, todo, doomed, calls, overlapped>>

ImportPut ==
  /\ ipc = "put"
  /\ Put(SkillId(skill, part), [text |-> parts[part], source |-> "explicit", type |-> "skill"])
  /\ NextPart
  /\ UNCHANGED <<disk, writers, todo, doomed, calls, overlapped>>

ImportDone ==
  /\ ImportGo("walk", "idle") /\ todo = {}
  /\ UNCHANGED <<memories, disk, writers, todo, skill, parts, part, doomed, calls, overlapped>>

(* A file that does not parse and a delete, a lookup, an embedding or an   *)
(* upsert that fails are recorded, and the import goes on after them.      *)
ImportFails ==
  /\ "import" \in Faults
  /\ \/ ipc = "walk" /\ (\E s \in todo : disk[s] # <<>> /\ todo' = todo \ {s})
        /\ UNCHANGED <<ipc, skill, parts, part, doomed>>
     \/ ipc = "file" /\ (\E n \in doomed : doomed' = doomed \ {n}) /\ UNCHANGED <<ipc, todo, skill, parts, part>>
     \/ (ipc = "put" \/ (ipc = "file" /\ doomed = {})) /\ NextPart /\ UNCHANGED <<todo, doomed>>
  /\ UNCHANGED <<memories, disk, writers, calls, overlapped>>

ImportKilled ==
  /\ "import" \in Faults
  /\ ipc # "idle"
  /\ ipc' = "idle" /\ todo' = {} /\ skill' = NoSkill /\ parts' = <<>> /\ part' = 1 /\ doomed' = {}
  /\ UNCHANGED <<memories, disk, writers, calls, overlapped>>

EditSkill(s, f) ==
  /\ disk[s] # f
  /\ disk' = [disk EXCEPT ![s] = f]
  /\ UNCHANGED <<memories, writers, import, calls, overlapped>>

-----------------------------------------------------------------------------
Write(w) ==
  \/ RememberSimilar(w) \/ RememberMerge(w) \/ RememberOverwrite(w) \/ RememberCreate(w)
  \/ IngestFind(w) \/ IngestMatch(w) \/ IngestUpdate(w) \/ IngestInsert(w)

Import ==
  \/ \E s \in Skill : ImportSkip(s) \/ ImportFile(s)
  \/ ImportPrune \/ ImportPart \/ ImportPut \/ ImportDone

Next ==
  \/ \E w \in Writer : \/ \E t \in Text, k \in Type : Remember(w, t, k)
                       \/ \E s \in Summary : Ingest(w, s)
                       \/ Write(w) \/ GiveUp(w)
  \/ ImportStart \/ Import \/ ImportFails \/ ImportKilled
  \/ \E s \in Skill, f \in File : EditSkill(s, f)

Spec == Init /\ [][Next]_vars

(* A writer that is at work goes on, and so does an import.                *)
FairSpec == Spec /\ WF_vars(Import) /\ \A w \in Writer : WF_vars(Write(w))

-----------------------------------------------------------------------------
TypeOK ==
  /\ memories \in [Id -> Row \cup {NoRow}]
  /\ disk \in [Skill -> File \cup {<<>>}]
  /\ pc \in [Writer -> {"idle", "merge", "similar", "overwrite", "create",
                        "chunk", "match", "update", "insert"}]
  /\ text \in [Writer -> Text \cup {NoText}]
  /\ type \in [Writer -> Type]
  /\ chunks \in [Writer -> Seq(Text)]
  /\ \A w \in Writer : cache[w] # NoCache => \A e \in cache[w] : e.id \in Id /\ e.text \in Text
  /\ held \in [Writer -> [id : Id, row : Row] \cup {NoRow}]
  /\ ipc \in {"idle", "walk", "file", "put"}
  /\ todo \subseteq Skill
  /\ skill \in Skill \cup {NoSkill}
  /\ parts \in File \cup {<<>>}
  /\ part \in 1..MaxParts
  /\ doomed \subseteq 2..MaxParts
  /\ calls \in 0..MaxCalls
  /\ overlapped \in BOOLEAN

(* What heimdall_remember has stored under an id of its own keeps its text *)
(* for good, whatever other processes had read before and write back.      *)
RememberedKept ==
  [][\A t \in Text : memories[ExplicitId(t)] # NoRow =>
       /\ memories'[ExplicitId(t)] # NoRow
       /\ memories'[ExplicitId(t)].text = t
       /\ memories'[ExplicitId(t)].source = "explicit"]_vars

(* README.md: memories are deduplicated by their content hash. Until two   *)
(* writers overlap no text is remembered twice, whatever imports go on, be *)
(* the table over the cap of the semantic check or not.                    *)
Written == {i \in Stored : i.kind # "skill"}
OneMemoryPerText ==
  ~overlapped => \A i, j \in Written : memories[i].text = memories[j].text => i = j

(* A skill file nobody edits any more is in the table in the end, all its  *)
(* parts and no others, if imports keep being started and at last do not   *)
(* fail: whatever a remember wrote back over a part, or a failed or killed *)
(* import left.                                                            *)
Mirrors(s, f) ==
  \A n \in 1..MaxParts :
    LET row == memories[SkillId(s, n)]
    IN  IF n <= Len(f) THEN row # NoRow /\ row.text = f[n] ELSE row = NoRow
SkillsConverge ==
  \A s \in Skill, f \in File :
    /\ <>[](disk[s] = f)
    /\ <>[][ImportFails \/ ImportKilled => Import]_vars
    /\ []<>(ipc = "walk" /\ todo = Skill)
    => <>[]Mirrors(s, f)

-----------------------------------------------------------------------------
(* What comments and documents of the repository say and the code does not *)
(* do.                                                                     *)

(* memory_ingest.go: explicit wins, an ingest only bumps its time.         *)
ExplicitWins ==
  [][\A i \in Id : memories[i] # NoRow /\ memories[i].source = "explicit" /\ i.kind # "skill" =>
       memories'[i].text = memories[i].text /\ memories'[i].source = "explicit"]_vars

(* memory_ingest.go: a chunk is matched against what the same session has  *)
(* stored before it.                                                       *)
SessionMerges ==
  [][\A w \in Writer : pc[w] = "insert" /\ memories' # memories /\ Cardinality(Stored) <= SemanticCap =>
       \A i \in Written : <<memories[i].text, Head(chunks[w])>> \notin Near]_vars

(* memory_tools.go: explicit always overwrites; what a remember stores is  *)
(* an explicit memory.                                                     *)
RememberedIsExplicit ==
  [][\A w \in Writer : pc[w] = "merge" /\ memories' # memories /\ pc'[w] = "idle" =>
       memories'[held[w].id].source = "explicit"]_vars

(* skills_sync.go: heimdall mirrors skills as rows of type skill.          *)
SkillsStaySkills ==
  \A s \in Skill, f \in File :
    /\ <>[](disk[s] = f)
    /\ <>[][ImportFails \/ ImportKilled => Import]_vars
    /\ []<>(ipc = "walk" /\ todo = Skill)
    => <>[](\A n \in 1..Len(f) : memories[SkillId(s, n)] # NoRow /\ memories[SkillId(s, n)].type = "skill")
=============================================================================
