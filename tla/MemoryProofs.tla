---------------------------- MODULE MemoryProofs ----------------------------
(***************************************************************************)
(* Memories under any number of writers, texts, skill files and calls.     *)
(***************************************************************************)
EXTENDS Memory, SequenceTheorems, TLAPS

Holds(w) == pc[w] \in {"merge", "overwrite", "update"}
Looks(w) == pc[w] \in {"similar", "overwrite", "create"}
Chunks(w) == pc[w] \in {"chunk", "match", "update", "insert"}

Phases == {"idle", "merge", "similar", "overwrite", "create", "chunk", "match", "update", "insert"}
InHand(w) ==
  /\ Holds(w) => held[w] \in [id : Id, row : Row]
  /\ Looks(w) => text[w] \in Text
  /\ Chunks(w) => chunks[w] # <<>>
CacheInv ==
  /\ cache = [w \in Writer |-> cache[w]]
  /\ \A w \in Writer : cache[w] # NoCache => \A e \in cache[w] : e.id \in Id /\ e.text \in Text

(* What a writer at work and an import at work have in hand.               *)
WriterInv ==
  /\ memories \in [Id -> Row \cup {NoRow}]
  /\ pc \in [Writer -> Phases]
  /\ text \in [Writer -> Text \cup {NoText}]
  /\ type \in [Writer -> Type]
  /\ chunks \in [Writer -> Seq(Text)]
  /\ CacheInv
  /\ held \in [Writer -> [id : Id, row : Row] \cup {NoRow}]
  /\ calls \in 0..MaxCalls
  /\ overlapped \in BOOLEAN
  /\ \A w \in Writer : InHand(w)
ImportInv ==
  /\ disk \in [Skill -> File \cup {<<>>}]
  /\ ipc \in {"idle", "walk", "file", "put"}
  /\ todo \subseteq Skill
  /\ skill \in Skill \cup {NoSkill}
  /\ parts \in File \cup {<<>>}
  /\ part \in 1..MaxParts
  /\ doomed \subseteq 2..MaxParts
  /\ ipc \in {"file", "put"} => skill \in Skill /\ parts \in File /\ part \in 1..Len(parts)
TInv == WriterInv /\ ImportInv

USE DEF Type

LEMMA Ids ==
  /\ \A t \in Text : ExplicitId(t) \in Id /\ SessionId(t) \in Id
  /\ \A s \in Skill, n \in 1..MaxParts : SkillId(s, n) \in Id
  /\ \A t, u : ExplicitId(t) = ExplicitId(u) => t = u
  /\ \A t, u : ExplicitId(t) # SessionId(u)
  /\ \A t, s, n : ExplicitId(t) # SkillId(s, n)
  /\ \A t : ExplicitId(t).kind # "skill" /\ SessionId(t).kind # "skill"
  /\ \A s, n : SkillId(s, n).kind = "skill"
<1>1. \A t \in Text : ExplicitId(t) \in Id /\ SessionId(t) \in Id
  BY DEF Id
<1>2. \A s \in Skill, n \in 1..MaxParts : SkillId(s, n) \in Id
  BY DEF Id
<1>3. \A t, u : ExplicitId(t) = ExplicitId(u) => t = u
  <2> SUFFICES ASSUME NEW t, NEW u, ExplicitId(t) = ExplicitId(u) PROVE t = u
    OBVIOUS
  <2>1. ExplicitId(t).of = t /\ ExplicitId(u).of = u
    BY DEF ExplicitId
  <2> QED BY <2>1
<1>4. \A t : ExplicitId(t).kind = "explicit" /\ SessionId(t).kind = "session"
  BY DEF ExplicitId, SessionId
<1>5. \A s, n : SkillId(s, n).kind = "skill"
  BY DEF SkillId
<1> QED BY <1>1, <1>2, <1>3, <1>4, <1>5

(* A search answers with entries it was given. *)
LEMMA ClosestIn == \A t, entries : Closest(t, entries) \subseteq entries
BY DEF Closest

(* The vectors are those of stored rows. *)
LEMMA VectorsTyped ==
  ASSUME WriterInv
  PROVE /\ \A i \in Stored : i \in Id /\ memories[i] \in Row
        /\ \A e \in Vectors : e.id \in Stored /\ e.id \in Id /\ e.text \in Text
<1>1. \A i \in Stored : i \in Id /\ memories[i] \in Row
  BY DEF WriterInv, Stored
<1> QED BY <1>1 DEF Vectors, Row
(* A statement writes one row. *)
LEMMA PutTyped ==
  ASSUME WriterInv, NEW i \in Id, NEW row \in Row \cup {NoRow}, Put(i, row)
  PROVE memories' \in [Id -> Row \cup {NoRow}]
BY DEF WriterInv, Put

(* What a writer has in hand is its own. *)
LEMMA OthersInHand ==
  ASSUME WriterInv, NEW v \in Writer, UNCHANGED <<pc[v], held[v], text[v], chunks[v]>>
  PROVE InHand(v)'
BY DEF WriterInv, InHand, Holds, Looks, Chunks

(* The end of a call types its writer anew. *)
LEMMA FinishTyped ==
  ASSUME WriterInv, NEW w \in Writer, Finish(w),
         memories' \in [Id -> Row \cup {NoRow}], UNCHANGED <<calls, overlapped>>
  PROVE WriterInv'
<1>1. /\ pc' \in [Writer -> Phases] /\ pc'[w] = "idle"
      /\ text' \in [Writer -> Text \cup {NoText}] /\ type' \in [Writer -> Type]
  BY DEF WriterInv, Finish, Phases
<1>2. chunks' \in [Writer -> Seq(Text)]
  BY EmptySeq DEF WriterInv, Finish
<1>3. CacheInv'
  BY DEF WriterInv, CacheInv, Finish
<1>4. held' \in [Writer -> [id : Id, row : Row] \cup {NoRow}]
  BY DEF WriterInv, Finish
<1>5. ASSUME NEW v \in Writer \ {w} PROVE UNCHANGED <<pc[v], held[v], text[v], chunks[v]>>
  BY DEF WriterInv, Finish
<1>6. \A v \in Writer : InHand(v)'
  BY <1>1, <1>5, OthersInHand DEF InHand, Holds, Looks, Chunks
<1> QED BY <1>1, <1>2, <1>3, <1>4, <1>6 DEF WriterInv

LEMMA NextChunkTyped ==
  ASSUME WriterInv, NEW w \in Writer, Chunks(w), NEW new,
         \A e \in new : e.id \in Id /\ e.text \in Text, NextChunk(w, new),
         memories' \in [Id -> Row \cup {NoRow}], UNCHANGED <<calls, overlapped>>
  PROVE WriterInv'
<1>1. CASE Len(chunks[w]) = 1
  BY <1>1, FinishTyped DEF NextChunk
<1>2. CASE Len(chunks[w]) # 1
  <2>1. chunks[w] \in Seq(Text) /\ chunks[w] # <<>>
    BY DEF WriterInv, InHand
  <2>2. Tail(chunks[w]) \in Seq(Text) /\ Len(Tail(chunks[w])) # 0
    <3>1. Len(chunks[w]) \in Nat
      BY <2>1
    <3>2. Tail(chunks[w]) \in Seq(Text) /\ Len(Tail(chunks[w])) = Len(chunks[w]) - 1
      BY <2>1, HeadTailProperties, Zenon
    <3> QED BY <1>2, <3>1, <3>2
  <2>3. Tail(chunks[w]) # <<>>
    BY <2>2, EmptySeq
  <2>4. CacheInv'
    <3>1. cache = [v \in Writer |-> cache[v]]
      BY DEF WriterInv, CacheInv
    <3>2. cache' = [cache EXCEPT ![w] = IF cache[w] = NoCache THEN cache[w] ELSE cache[w] \cup new]
      BY <1>2 DEF NextChunk
    <3>3. /\ cache' = [v \in Writer |-> cache'[v]]
          /\ cache'[w] = IF cache[w] = NoCache THEN cache[w] ELSE cache[w] \cup new
          /\ \A v \in Writer \ {w} : cache'[v] = cache[v]
      BY <3>1, <3>2, Zenon
    <3>4. \A v \in Writer : cache[v] # NoCache => \A e \in cache[v] : e.id \in Id /\ e.text \in Text
      BY DEF WriterInv, CacheInv
    <3>5. cache'[w] # NoCache => \A e \in cache'[w] : e.id \in Id /\ e.text \in Text
      BY <3>3, <3>4
    <3> QED BY <3>3, <3>4, <3>5 DEF CacheInv
  <2>5. /\ pc' \in [Writer -> Phases] /\ pc'[w] = "chunk"
        /\ text' \in [Writer -> Text \cup {NoText}] /\ type' \in [Writer -> Type]
        /\ held' \in [Writer -> [id : Id, row : Row] \cup {NoRow}]
    BY <1>2 DEF WriterInv, NextChunk, Phases
  <2>6. chunks' \in [Writer -> Seq(Text)] /\ chunks'[w] = Tail(chunks[w])
    BY <1>2, <2>2 DEF WriterInv, NextChunk
  <2>7. ASSUME NEW v \in Writer \ {w} PROVE UNCHANGED <<pc[v], held[v], text[v], chunks[v]>>
    BY <1>2 DEF WriterInv, NextChunk
  <2>8. \A v \in Writer : InHand(v)'
    BY <2>3, <2>5, <2>6, <2>7, OthersInHand DEF InHand, Holds, Looks, Chunks
  <2> QED BY <2>4, <2>5, <2>6, <2>8 DEF WriterInv
<1> QED BY <1>1, <1>2

LEMMA FileWritten == ImportInv /\ (\E w \in Writer : WriteSkillFile(w)) /\ UNCHANGED import => ImportInv'
BY DEF ImportInv, WriteSkillFile, import

LEMMA DiskKept == ImportInv /\ UNCHANGED <<disk, import>> => ImportInv'
BY DEF ImportInv, import

(* Every step of a writer keeps the types. *)
LEMMA WriterStep ==
  ASSUME TInv, NEW w \in Writer,
         \/ \E t \in Text, k \in Type : Remember(w, t, k)
         \/ \E s \in Summary : Ingest(w, s)
         \/ Write(w) \/ GiveUp(w)
  PROVE TInv'
<1> USE CapAssumption, SummaryAssumption
<1>a. WriterInv /\ ImportInv
  BY DEF TInv
<1>b. UNCHANGED import
  BY DEF Remember, Ingest, Write, GiveUp, RememberSimilar, RememberMerge, RememberOverwrite, RememberCreate,
         IngestFind, IngestMatch, IngestUpdate, IngestInsert
<1>c. ImportInv'
  BY <1>a, <1>b, FileWritten, DiskKept
  DEF Remember, Ingest, Write, GiveUp, RememberSimilar, RememberMerge, RememberOverwrite, RememberCreate,
      IngestFind, IngestMatch, IngestUpdate, IngestInsert
<1>d. \A i \in Stored : [id |-> i, row |-> memories[i]] \in [id : Id, row : Row]
  BY <1>a, VectorsTyped
<1> SUFFICES WriterInv'
  BY <1>c DEF TInv
<1>1. ASSUME NEW t \in Text, NEW k \in Type, Remember(w, t, k) PROVE WriterInv'
  <2>1. /\ calls' \in 0..MaxCalls /\ overlapped' \in BOOLEAN
        /\ text' \in [Writer -> Text \cup {NoText}] /\ text'[w] = t
        /\ type' \in [Writer -> Type] /\ UNCHANGED <<memories, chunks, cache>>
    BY <1>a, <1>1 DEF WriterInv, Remember, Call
  <2>2. /\ pc' \in [Writer -> Phases] /\ pc'[w] \in {"merge", "similar"}
        /\ held' \in [Writer -> [id : Id, row : Row] \cup {NoRow}]
        /\ pc'[w] = "merge" => held'[w] \in [id : Id, row : Row]
        /\ \A v \in Writer \ {w} : UNCHANGED <<pc[v], held[v]>>
    <3>1. CASE Go(w, "idle", "merge") /\ \E i \in WithText(t) : Hold(w, i)
      <4>1. PICK i \in WithText(t) : Hold(w, i)
        BY <3>1
      <4>2. i \in Stored
        BY DEF WithText
      <4> QED BY <1>a, <1>d, <3>1, <4>1, <4>2 DEF WriterInv, Hold, Go, Phases
    <3>2. CASE Go(w, "idle", "similar") /\ UNCHANGED held
      BY <1>a, <3>2 DEF WriterInv, Go, Phases
    <3> QED BY <1>1, <3>1, <3>2 DEF Remember
  <2>3. ASSUME NEW v \in Writer \ {w} PROVE UNCHANGED <<pc[v], held[v], text[v], chunks[v]>>
    BY <1>a, <1>1, <2>1, <2>2 DEF WriterInv, Remember
  <2>4. \A v \in Writer : InHand(v)'
    BY <1>a, <2>1, <2>2, <2>3, OthersInHand DEF InHand, Holds, Looks, Chunks
  <2> QED BY <1>a, <2>1, <2>2, <2>4 DEF WriterInv, CacheInv
<1>2. ASSUME NEW s \in Summary, Ingest(w, s) PROVE WriterInv'
  <2>1. s \in Seq(Text) /\ s # <<>>
    OBVIOUS
  <2>2. calls' \in 0..MaxCalls /\ overlapped' \in BOOLEAN
    BY <1>a, <1>2 DEF WriterInv, Ingest, Call
  <2>3. CacheInv'
    BY <1>a, <1>2, VectorsTyped DEF WriterInv, CacheInv, Ingest
  <2> QED BY <1>a, <1>2, <2>1, <2>2, <2>3 DEF WriterInv, InHand, Ingest, Go, Holds, Looks, Chunks, Phases
<1>3. CASE GiveUp(w)
  <2>1. memories' \in [Id -> Row \cup {NoRow}]
    BY <1>a, <1>3 DEF WriterInv, GiveUp
  <2> QED BY <1>a, <1>3, <2>1, FinishTyped DEF GiveUp
<1>4. CASE RememberSimilar(w)
  <2> DEFINE near == IF Cardinality(Stored) > SemanticCap THEN {} ELSE Closest(text[w], Vectors)
  <2>1. \A e \in near : e.id \in Stored
    BY <1>a, VectorsTyped, ClosestIn
  <2>2. CASE Go(w, "similar", "overwrite") /\ \E e \in near : Hold(w, e.id)
    BY <1>a, <1>d, <1>4, <2>1, <2>2 DEF WriterInv, InHand, CacheInv, Phases, RememberSimilar, Go, Hold, Holds, Looks, Chunks
  <2>3. CASE Go(w, "similar", "create") /\ UNCHANGED held
    BY <1>a, <1>4, <2>3 DEF WriterInv, InHand, CacheInv, Phases, RememberSimilar, Go, Holds, Looks, Chunks
  <2> QED BY <1>4, <2>2, <2>3 DEF RememberSimilar
<1>5. CASE RememberMerge(w)
  <2>1. held[w].id \in Id /\ held[w].row \in Row /\ type[w] \in Type
    BY <1>a, <1>5 DEF WriterInv, InHand, RememberMerge, Holds
  <2>2. [held[w].row EXCEPT !.type = type[w]] \in Row
    BY <2>1 DEF Row
  <2>3. memories' \in [Id -> Row \cup {NoRow}]
    BY <1>a, <1>5, <2>1, <2>2, PutTyped DEF RememberMerge
  <2> QED BY <1>a, <1>5, <2>3, FinishTyped DEF RememberMerge
<1>6. CASE RememberOverwrite(w)
  <2> DEFINE row == [text |-> IF held[w].row.source = "session" THEN text[w] ELSE held[w].row.text,
                     source |-> "explicit", type |-> type[w]]
  <2>1. held[w].id \in Id /\ held[w].row \in Row /\ type[w] \in Type /\ text[w] \in Text
    BY <1>a, <1>6 DEF WriterInv, InHand, RememberOverwrite, Holds, Looks
  <2>2. row \in Row
    BY <2>1 DEF Row
  <2>3. memories' \in [Id -> Row \cup {NoRow}]
    BY <1>a, <1>6, <2>1, <2>2, PutTyped DEF RememberOverwrite
  <2> QED BY <1>a, <1>6, <2>3, FinishTyped DEF RememberOverwrite
<1>7. CASE RememberCreate(w)
  <2>1. text[w] \in Text /\ type[w] \in Type
    BY <1>a, <1>7 DEF WriterInv, InHand, RememberCreate, Looks
  <2>2. [text |-> text[w], source |-> "explicit", type |-> type[w]] \in Row
    BY <2>1 DEF Row
  <2>3. memories' \in [Id -> Row \cup {NoRow}]
    BY <1>a, <1>7, <2>1, <2>2, PutTyped, Ids DEF RememberCreate
  <2> QED BY <1>a, <1>7, <2>3, FinishTyped DEF RememberCreate
<1>8. CASE IngestFind(w)
  <2>1. memories' \in [Id -> Row \cup {NoRow}]
    BY <1>a, <1>8 DEF WriterInv, IngestFind
  <2>2. CASE NextChunk(w, {})
    BY <1>a, <1>8, <2>1, <2>2, NextChunkTyped DEF IngestFind, Chunks
  <2>3. CASE Go(w, "chunk", "match") /\ UNCHANGED <<text, type, chunks, cache, held>>
    BY <1>a, <1>8, <2>3 DEF WriterInv, InHand, CacheInv, Phases, IngestFind, Go, Holds, Looks, Chunks
  <2> QED BY <1>8, <2>2, <2>3 DEF IngestFind
<1>9. CASE IngestMatch(w)
  <2>1. UNCHANGED <<memories, text, type, chunks, cache, calls, overlapped>>
    BY <1>9 DEF IngestMatch
  <2>2. CASE Go(w, "match", "insert") /\ UNCHANGED held
    BY <1>a, <2>1, <2>2 DEF WriterInv, InHand, CacheInv, Phases, Go, Holds, Looks, Chunks
  <2>3. CASE Go(w, "match", "update") /\ \E i \in Stored : Hold(w, i)
    BY <1>a, <1>d, <2>1, <2>3 DEF WriterInv, InHand, CacheInv, Phases, Go, Hold, Holds, Looks, Chunks
  <2>4. \/ Go(w, "match", "insert") /\ UNCHANGED held
        \/ Go(w, "match", "update") /\ \E i \in Stored : Hold(w, i)
    <3> DEFINE close == IF cache[w] = NoCache THEN {} ELSE Closest(Head(chunks[w]), cache[w])
    <3>1. \A e \in close : e.id \in Id
      BY <1>a, ClosestIn DEF WriterInv, CacheInv
    <3>2. CASE Go(w, "match", "insert") /\ close = {} /\ UNCHANGED held
      BY <3>2
    <3>3. ASSUME NEW e \in close, memories[e.id] = NoRow, Go(w, "match", "insert") /\ UNCHANGED held
          PROVE Go(w, "match", "insert") /\ UNCHANGED held
      BY <3>3
    <3>4. ASSUME NEW e \in close, memories[e.id] # NoRow, Go(w, "match", "update") /\ Hold(w, e.id)
          PROVE Go(w, "match", "update") /\ \E i \in Stored : Hold(w, i)
      BY <3>1, <3>4 DEF Stored
    <3> QED BY <1>9, <3>2, <3>3, <3>4 DEF IngestMatch
  <2> QED BY <2>2, <2>3, <2>4
<1>10. CASE IngestUpdate(w)
  <2> DEFINE row == IF held[w].row.source = "explicit" THEN held[w].row
                    ELSE [held[w].row EXCEPT !.text = Head(chunks[w])]
  <2>1. held[w].id \in Id /\ held[w].row \in Row /\ chunks[w] \in Seq(Text) /\ chunks[w] # <<>>
    BY <1>a, <1>10 DEF WriterInv, InHand, IngestUpdate, Holds, Chunks
  <2>2. row \in Row
    <3>1. Head(chunks[w]) \in Text
      BY <2>1
    <3> QED BY <2>1, <3>1 DEF Row
  <2>3. memories' \in [Id -> Row \cup {NoRow}]
    BY <1>a, <1>10, <2>1, <2>2, PutTyped DEF IngestUpdate
  <2> QED BY <1>a, <1>10, <2>3, NextChunkTyped DEF IngestUpdate, Chunks
<1>11. CASE IngestInsert(w)
  <2> DEFINE t == Head(chunks[w])
  <2>1. t \in Text
    BY <1>a, <1>11 DEF WriterInv, InHand, IngestInsert, Chunks
  <2>2. [text |-> t, source |-> "session", type |-> "other"] \in Row /\ SessionId(t) \in Id
    BY <2>1, Ids DEF Row
  <2>3. memories' \in [Id -> Row \cup {NoRow}]
    BY <1>a, <1>11, <2>2, PutTyped DEF IngestInsert
  <2>4. NextChunk(w, {[id |-> SessionId(t), text |-> t]}) /\ Chunks(w)
    BY <1>11 DEF IngestInsert, Chunks
  <2> QED BY <1>a, <1>11, <2>1, <2>2, <2>3, <2>4, NextChunkTyped DEF IngestInsert
<1> QED BY <1>1, <1>2, <1>3, <1>4, <1>5, <1>6, <1>7, <1>8, <1>9, <1>10, <1>11 DEF Write

LEMMA WritersStay ==
  ASSUME WriterInv, memories' \in [Id -> Row \cup {NoRow}], UNCHANGED <<writers, calls, overlapped>>
  PROVE WriterInv'
<1>1. \A w \in Writer : InHand(w)'
  BY OthersInHand DEF writers
<1> QED BY <1>1 DEF WriterInv, CacheInv, writers

LEMMA NextPartTyped ==
  ASSUME ImportInv, ipc \in {"file", "put"}, NextPart, UNCHANGED <<disk, todo>>, doomed' \subseteq doomed
  PROVE ImportInv'
<1>1. parts \in Seq(Text) /\ Len(parts) \in 1..MaxParts /\ MaxParts \in Nat
  BY PartsAssumption DEF ImportInv
<1> QED BY <1>1 DEF ImportInv, NextPart

(* Every step of an import, and of a user who edits a skill file, keeps    *)
(* the types.                                                              *)
LEMMA ImportStep ==
  ASSUME TInv,
         \/ ImportStart \/ Import \/ ImportFails \/ ImportKilled
         \/ \E s \in Skill, f \in File : EditSkill(s, f)
  PROVE TInv'
<1>a. WriterInv /\ ImportInv
  BY DEF TInv
<1>b. \A f \in File : f \in Seq(Text) /\ Len(f) \in 1..MaxParts
  BY PartsAssumption
<1>c. MaxParts \in Nat \ {0}
  BY PartsAssumption
<1>1. UNCHANGED <<writers, calls, overlapped>>
  BY DEF ImportStart, Import, ImportSkip, ImportFile, ImportPrune, ImportPart, ImportPut, ImportDone,
         ImportFails, ImportKilled, EditSkill
<1>2. CASE ImportPrune
  <2>1. PICK n \in doomed : Put(SkillId(skill, n), NoRow) /\ doomed' = doomed \ {n}
    BY <1>2 DEF ImportPrune
  <2>2. SkillId(skill, n) \in Id
    BY <1>a, <1>c, <1>2, Ids DEF ImportPrune, ImportInv
  <2>3. memories' \in [Id -> Row \cup {NoRow}]
    BY <1>a, <2>1, <2>2, PutTyped
  <2>4. ImportInv'
    BY <1>a, <1>2, <2>1 DEF ImportPrune, ImportInv
  <2> QED BY <1>a, <1>1, <2>3, <2>4, WritersStay DEF TInv
<1>3. CASE ImportPut
  <2>1. skill \in Skill /\ parts \in File /\ part \in 1..Len(parts) /\ part \in 1..MaxParts
    BY <1>a, <1>3 DEF ImportPut, ImportInv
  <2>2. SkillId(skill, part) \in Id /\ parts[part] \in Text
    BY <1>b, <2>1, Ids
  <2>3. memories' \in [Id -> Row \cup {NoRow}]
    <3>1. [text |-> parts[part], source |-> "explicit", type |-> "skill"] \in Row
      BY <2>2 DEF Row
    <3> QED BY <1>a, <1>3, <2>2, <3>1, PutTyped DEF ImportPut
  <2>4. ImportInv'
    BY <1>a, <1>3, NextPartTyped DEF ImportPut
  <2> QED BY <1>a, <1>1, <2>3, <2>4, WritersStay DEF TInv
<1>4. ASSUME ImportInv', UNCHANGED memories PROVE TInv'
  BY <1>a, <1>1, <1>4, WritersStay DEF TInv, WriterInv
<1>5. CASE ImportStart \/ ImportDone \/ ImportKilled \/ \E s \in Skill : ImportSkip(s)
  <2>1. ImportInv'
    <3>1. CASE ImportStart \/ ImportDone \/ \E s \in Skill : ImportSkip(s)
      BY <1>a, <3>1 DEF ImportStart, ImportDone, ImportSkip, ImportGo, ImportInv
    <3>2. CASE ImportKilled
      BY <1>a, <1>c, <3>2 DEF ImportKilled, ImportInv
    <3> QED BY <1>5, <3>1, <3>2
  <2> QED BY <1>4, <1>5, <2>1 DEF ImportStart, ImportDone, ImportKilled, ImportSkip
<1>6. ASSUME NEW s \in Skill, ImportFile(s) PROVE TInv'
  <2>1. disk[s] \in File
    BY <1>a, <1>6 DEF ImportFile, ImportInv
  <2>2. Len(disk[s]) \in 1..MaxParts
    BY <1>b, <2>1
  <2>3. doomed' \subseteq 2..MaxParts
    BY <1>c, <1>6, <2>2 DEF ImportFile
  <2>4. /\ ipc' = "file" /\ skill' = s /\ parts' = disk[s] /\ part' = 1 /\ todo' \subseteq Skill
        /\ UNCHANGED <<memories, disk>>
    BY <1>a, <1>6 DEF ImportFile, ImportGo, ImportInv
  <2>5. ImportInv'
    BY <1>a, <1>c, <2>1, <2>2, <2>3, <2>4 DEF ImportInv
  <2> QED BY <1>4, <2>4, <2>5
<1>7. CASE ImportPart
  <2>1. ImportInv'
    <3>1. CASE NextPart
      BY <1>a, <1>7, <3>1, NextPartTyped DEF ImportPart
    <3>2. CASE ipc' = "put" /\ UNCHANGED <<skill, parts, part>>
      BY <1>a, <1>7, <3>2 DEF ImportPart, ImportInv
    <3> QED BY <1>7, <3>1, <3>2 DEF ImportPart
  <2> QED BY <1>4, <1>7, <2>1 DEF ImportPart
<1>8. CASE ImportFails
  <2>1. ImportInv'
    <3>1. CASE (ipc = "put" \/ (ipc = "file" /\ doomed = {})) /\ NextPart /\ UNCHANGED <<todo, doomed>>
      BY <1>a, <1>8, <3>1, NextPartTyped DEF ImportFails
    <3>2. CASE UNCHANGED <<ipc, skill, parts, part>> /\ todo' \subseteq todo /\ doomed' \subseteq doomed
      BY <1>a, <1>8, <3>2 DEF ImportFails, ImportInv
    <3> QED BY <1>8, <3>1, <3>2 DEF ImportFails
  <2> QED BY <1>4, <1>8, <2>1 DEF ImportFails
<1>9. ASSUME NEW s \in Skill, NEW f \in File, EditSkill(s, f) PROVE TInv'
  <2>1. ImportInv'
    BY <1>a, <1>9 DEF EditSkill, ImportInv, import
  <2> QED BY <1>4, <1>9, <2>1 DEF EditSkill
<1> QED BY <1>2, <1>3, <1>5, <1>6, <1>7, <1>8, <1>9 DEF Import

(* The types with what makes them inductive, in every reachable state. *)
LEMMA TypesHold == Spec => []TInv
<1>1. Init => TInv
  <2> SUFFICES ASSUME Init PROVE TInv
    OBVIOUS
  <2>1. \A w \in Writer : InHand(w)
    BY DEF Init, InHand, Holds, Looks, Chunks
  <2>2. CacheInv
    BY DEF Init, CacheInv
  <2>3. chunks \in [Writer -> Seq(Text)]
    BY EmptySeq DEF Init
  <2>4. /\ memories \in [Id -> Row \cup {NoRow}] /\ pc \in [Writer -> Phases]
        /\ text \in [Writer -> Text \cup {NoText}] /\ type \in [Writer -> Type]
        /\ held \in [Writer -> [id : Id, row : Row] \cup {NoRow}]
        /\ calls \in 0..MaxCalls /\ overlapped \in BOOLEAN
    <3>1. memories \in [Id -> Row \cup {NoRow}]
      BY DEF Init
    <3>2. pc \in [Writer -> Phases] /\ text \in [Writer -> Text \cup {NoText}] /\ type \in [Writer -> Type]
      BY DEF Init, Phases
    <3>3. held \in [Writer -> [id : Id, row : Row] \cup {NoRow}]
      BY DEF Init
    <3>4. calls \in 0..MaxCalls
      <4>1. calls = 0 /\ MaxCalls \in Nat
        BY CapAssumption DEF Init
      <4> QED BY <4>1
    <3>5. overlapped \in BOOLEAN
      BY DEF Init
    <3> QED BY <3>1, <3>2, <3>3, <3>4, <3>5
  <2>5. ImportInv
    BY PartsAssumption DEF Init, ImportInv
  <2> QED BY <2>1, <2>2, <2>3, <2>4, <2>5 DEF TInv, WriterInv
<1>2. TInv /\ [Next]_vars => TInv'
  <2> SUFFICES ASSUME TInv, [Next]_vars PROVE TInv'
    OBVIOUS
  <2>1. CASE Next
    BY <2>1, WriterStep, ImportStep DEF Next
  <2>2. CASE UNCHANGED vars
    <3>1. memories' \in [Id -> Row \cup {NoRow}]
      BY <2>2 DEF vars, TInv, WriterInv
    <3> QED BY <2>2, <3>1, WritersStay, DiskKept DEF vars, TInv
  <2> QED BY <2>1, <2>2
<1> QED BY <1>1, <1>2, PTL DEF Spec

(* TypeOK for every number of writers, texts, skills, parts and calls: a   *)
(* prune never reaches the first part of a file, and whoever writes a row  *)
(* back has one in hand.                                                   *)
THEOREM TypeCorrect == Spec => []TypeOK
<1>1. TInv => TypeOK
  BY DEF TInv, WriterInv, ImportInv, CacheInv, Phases, TypeOK
<1> QED BY <1>1, TypesHold, PTL

-----------------------------------------------------------------------------
(* RememberedKept: a row a writer read under an explicit id has the id's   *)
(* text, as the stored row does, however long ago it was read. So writing  *)
(* it back, merged or overwritten, is harmless.                            *)

Kept(row, t) == row # NoRow /\ row.text = t /\ row.source = "explicit"
RowsKept == \A t \in Text : memories[ExplicitId(t)] # NoRow => Kept(memories[ExplicitId(t)], t)
HeldKept == \A w \in Writer, t \in Text : Holds(w) /\ held[w].id = ExplicitId(t) => Kept(held[w].row, t)
KInv == RowsKept /\ HeldKept
Keeps ==
  \A t \in Text : memories[ExplicitId(t)] # NoRow =>
    /\ memories'[ExplicitId(t)] # NoRow
    /\ memories'[ExplicitId(t)].text = t
    /\ memories'[ExplicitId(t)].source = "explicit"

LEMMA KeptPut ==
  ASSUME TInv, RowsKept, NEW i \in Id, NEW row, Put(i, row),
         \A t \in Text : i = ExplicitId(t) => Kept(row, t)
  PROVE RowsKept' /\ Keeps
<1>1. \A j \in Id : memories'[j] = IF j = i THEN row ELSE memories[j]
  BY DEF TInv, WriterInv, Put
<1>2. \A t \in Text : ExplicitId(t) \in Id
  BY Ids
<1> QED BY <1>1, <1>2 DEF RowsKept, Keeps, Kept

LEMMA KeptQuiet == RowsKept /\ UNCHANGED memories => RowsKept' /\ Keeps
BY DEF RowsKept, Keeps, Kept

LEMMA RowsStep ==
  ASSUME TInv, KInv, Next
  PROVE RowsKept' /\ Keeps
<1> USE RowAssumption
<1>a. RowsKept /\ HeldKept /\ WriterInv /\ ImportInv
  BY DEF TInv, KInv
<1>1. ASSUME NEW w \in Writer, RememberMerge(w) PROVE RowsKept' /\ Keeps
  <2> DEFINE row == [held[w].row EXCEPT !.type = type[w]]
  <2>1. held[w].id \in Id /\ held[w].row \in Row /\ type[w] \in Type
    BY <1>a, <1>1 DEF WriterInv, InHand, RememberMerge, Holds
  <2>2. row \in Row /\ row.text = held[w].row.text /\ row.source = held[w].row.source
    BY <2>1 DEF Row
  <2>3. \A t \in Text : held[w].id = ExplicitId(t) => Kept(row, t)
    BY <1>a, <1>1, <2>2 DEF HeldKept, RememberMerge, Holds, Kept
  <2> QED BY <1>a, <1>1, <2>1, <2>3, KeptPut DEF RememberMerge
<1>2. ASSUME NEW w \in Writer, RememberOverwrite(w) PROVE RowsKept' /\ Keeps
  <2> DEFINE row == [text |-> IF held[w].row.source = "session" THEN text[w] ELSE held[w].row.text,
                     source |-> "explicit", type |-> type[w]]
  <2>1. held[w].id \in Id /\ held[w].row \in Row /\ type[w] \in Type /\ text[w] \in Text
    BY <1>a, <1>2 DEF WriterInv, InHand, RememberOverwrite, Holds, Looks
  <2>2. row \in Row
    BY <2>1 DEF Row
  <2>3. \A t \in Text : held[w].id = ExplicitId(t) => Kept(row, t)
    BY <1>a, <1>2, <2>2 DEF HeldKept, RememberOverwrite, Holds, Kept
  <2> QED BY <1>a, <1>2, <2>1, <2>3, KeptPut DEF RememberOverwrite
<1>3. ASSUME NEW w \in Writer, RememberCreate(w) PROVE RowsKept' /\ Keeps
  <2> DEFINE row == [text |-> text[w], source |-> "explicit", type |-> type[w]]
  <2>1. text[w] \in Text /\ type[w] \in Type
    BY <1>a, <1>3 DEF WriterInv, InHand, RememberCreate, Looks
  <2>2. row \in Row
    BY <2>1 DEF Row
  <2>3. \A t \in Text : ExplicitId(text[w]) = ExplicitId(t) => Kept(row, t)
    BY <2>2, Ids DEF Kept
  <2> QED BY <1>a, <1>3, <2>1, <2>3, KeptPut, Ids DEF RememberCreate
<1>4. ASSUME NEW w \in Writer, IngestUpdate(w) PROVE RowsKept' /\ Keeps
  <2> DEFINE row == IF held[w].row.source = "explicit" THEN held[w].row
                    ELSE [held[w].row EXCEPT !.text = Head(chunks[w])]
  <2>1. held[w].id \in Id
    BY <1>a, <1>4 DEF WriterInv, InHand, IngestUpdate, Holds
  <2>2. \A t \in Text : held[w].id = ExplicitId(t) => Kept(row, t)
    BY <1>a, <1>4 DEF HeldKept, IngestUpdate, Holds, Kept
  <2> QED BY <1>a, <1>4, <2>1, <2>2, KeptPut DEF IngestUpdate
<1>5. ASSUME NEW w \in Writer, IngestInsert(w) PROVE RowsKept' /\ Keeps
  <2> DEFINE i == SessionId(Head(chunks[w]))
  <2>1. i \in Id /\ \A t \in Text : i # ExplicitId(t)
    BY <1>a, <1>5, Ids DEF WriterInv, InHand, IngestInsert, Chunks
  <2> QED BY <1>a, <1>5, <2>1, KeptPut DEF IngestInsert
<1>6. CASE ImportPrune
  <2>1. PICK n \in doomed : Put(SkillId(skill, n), NoRow)
    BY <1>6 DEF ImportPrune
  <2>2. SkillId(skill, n) \in Id /\ \A t \in Text : SkillId(skill, n) # ExplicitId(t)
    BY <1>a, <1>6, Ids, PartsAssumption DEF ImportPrune, ImportInv
  <2> QED BY <1>a, <2>1, <2>2, KeptPut
<1>7. CASE ImportPut
  <2>1. SkillId(skill, part) \in Id /\ \A t \in Text : SkillId(skill, part) # ExplicitId(t)
    BY <1>a, <1>7, Ids DEF ImportPut, ImportInv
  <2> QED BY <1>a, <1>7, <2>1, KeptPut DEF ImportPut
<1>8. \/ UNCHANGED memories \/ ImportPrune \/ ImportPut
      \/ \E w \in Writer : \/ RememberMerge(w) \/ RememberOverwrite(w) \/ RememberCreate(w)
                           \/ IngestUpdate(w) \/ IngestInsert(w)
  BY DEF Next, Remember, Ingest, Write, GiveUp, RememberSimilar, IngestFind, IngestMatch, Import, ImportStart,
         ImportSkip, ImportFile, ImportPart, ImportDone, ImportFails, ImportKilled, EditSkill
<1> QED BY <1>a, <1>1, <1>2, <1>3, <1>4, <1>5, <1>6, <1>7, <1>8, KeptQuiet

(* A writer takes a row in hand only from the table. *)
TakesNone(w) ==
  /\ \A v \in Writer \ {w} : UNCHANGED <<pc[v], held[v]>>
  /\ ~Holds(w)'
Takes(w) ==
  /\ \A v \in Writer \ {w} : UNCHANGED <<pc[v], held[v]>>
  /\ \E i \in Stored : held'[w] = [id |-> i, row |-> memories[i]]
  /\ UNCHANGED memories

LEMMA WriterTakes ==
  ASSUME TInv, Next
  PROVE UNCHANGED <<pc, held>> \/ \E w \in Writer : TakesNone(w) \/ Takes(w)
<1>a. /\ pc \in [Writer -> Phases] /\ held \in [Writer -> [id : Id, row : Row] \cup {NoRow}]
      /\ WriterInv
  BY DEF TInv, WriterInv
<1>1. ASSUME NEW w \in Writer, NEW i \in Stored, NEW from, NEW to, Go(w, from, to), Hold(w, i), UNCHANGED memories
      PROVE Takes(w)
  BY <1>a, <1>1 DEF Takes, Go, Hold
<1>2. ASSUME NEW w \in Writer, NEW from, NEW to, Go(w, from, to), UNCHANGED held,
             to \notin {"merge", "overwrite", "update"}
      PROVE TakesNone(w)
  BY <1>a, <1>2 DEF TakesNone, Holds, Go
<1>3. ASSUME NEW w \in Writer, Finish(w) PROVE TakesNone(w)
  BY <1>a, <1>3 DEF TakesNone, Holds, Finish
<1>4. ASSUME NEW w \in Writer, NEW new, NextChunk(w, new) PROVE TakesNone(w)
  <2>1. CASE Finish(w)
    BY <1>3, <2>1
  <2>2. CASE pc' = [pc EXCEPT ![w] = "chunk"] /\ held' = [held EXCEPT ![w] = NoRow]
    BY <1>a, <2>2 DEF TakesNone, Holds
  <2> QED BY <1>4, <2>1, <2>2 DEF NextChunk
<1>5. ASSUME NEW w \in Writer, NEW t \in Text, NEW k \in Type, Remember(w, t, k) PROVE TakesNone(w) \/ Takes(w)
  <2>1. WithText(t) \subseteq Stored /\ UNCHANGED memories
    BY <1>5 DEF WithText, Remember
  <2> QED BY <1>1, <1>2, <1>5, <2>1 DEF Remember
<1>6. ASSUME NEW w \in Writer, RememberSimilar(w) PROVE TakesNone(w) \/ Takes(w)
  <2> DEFINE near == IF Cardinality(Stored) > SemanticCap THEN {} ELSE Closest(text[w], Vectors)
  <2>1. \A e \in near : e.id \in Stored
    BY <1>a, VectorsTyped, ClosestIn
  <2>2. UNCHANGED memories
    BY <1>6 DEF RememberSimilar
  <2> QED BY <1>1, <1>2, <1>6, <2>1, <2>2 DEF RememberSimilar
<1>7. ASSUME NEW w \in Writer, IngestMatch(w) PROVE TakesNone(w) \/ Takes(w)
  <2> DEFINE close == IF cache[w] = NoCache THEN {} ELSE Closest(Head(chunks[w]), cache[w])
  <2>1. \A e \in close : e.id \in Id
    BY <1>a, ClosestIn DEF WriterInv, CacheInv
  <2>2. UNCHANGED memories
    BY <1>7 DEF IngestMatch
  <2>3. ASSUME NEW e \in close, memories[e.id] # NoRow, Go(w, "match", "update"), Hold(w, e.id) PROVE Takes(w)
    BY <1>1, <2>1, <2>2, <2>3 DEF Stored
  <2>4. ASSUME Go(w, "match", "insert"), UNCHANGED held PROVE TakesNone(w)
    BY <1>2, <2>4
  <2> QED BY <1>7, <2>3, <2>4 DEF IngestMatch
<1>8. ASSUME NEW w \in Writer, IngestFind(w) PROVE TakesNone(w)
  BY <1>2, <1>4, <1>8 DEF IngestFind
<1>9. ASSUME NEW w \in Writer, NEW s \in Summary, Ingest(w, s) PROVE TakesNone(w)
  BY <1>2, <1>9 DEF Ingest
<1>10. ASSUME NEW w \in Writer,
              \/ GiveUp(w) \/ RememberMerge(w) \/ RememberOverwrite(w) \/ RememberCreate(w)
              \/ IngestUpdate(w) \/ IngestInsert(w)
       PROVE TakesNone(w)
  BY <1>3, <1>4, <1>10 DEF GiveUp, RememberMerge, RememberOverwrite, RememberCreate, IngestUpdate, IngestInsert
<1>11. CASE \/ ImportStart \/ Import \/ ImportFails \/ ImportKilled
            \/ \E s \in Skill, f \in File : EditSkill(s, f)
  BY <1>11 DEF writers, ImportStart, Import, ImportSkip, ImportFile, ImportPrune, ImportPart, ImportPut, ImportDone,
               ImportFails, ImportKilled, EditSkill
<1> QED BY <1>5, <1>6, <1>7, <1>8, <1>9, <1>10, <1>11 DEF Next, Write

LEMMA HeldStep ==
  ASSUME TInv, KInv, Next
  PROVE HeldKept'
<1>1. CASE UNCHANGED <<pc, held>>
  BY <1>1 DEF KInv, HeldKept, Holds
<1>2. ASSUME NEW w \in Writer, TakesNone(w) PROVE HeldKept'
  BY <1>2 DEF KInv, HeldKept, Holds, TakesNone
<1>3. ASSUME NEW w \in Writer, Takes(w) PROVE HeldKept'
  <2>1. PICK i \in Stored : held'[w] = [id |-> i, row |-> memories[i]]
    BY <1>3 DEF Takes
  <2>2. \A t \in Text : held'[w].id = ExplicitId(t) => Kept(held'[w].row, t)
    BY <2>1 DEF KInv, RowsKept, Kept, Stored
  <2> QED BY <1>3, <2>2 DEF KInv, HeldKept, Holds, Takes
<1> QED BY <1>1, <1>2, <1>3, WriterTakes

(* What heimdall_remember has stored under an id of its own keeps its text *)
(* for good, for any number of writers and failures.                       *)
THEOREM RememberedIsKept == Spec => RememberedKept
<1>1. Init => KInv
  BY Ids DEF Init, KInv, RowsKept, HeldKept, Holds
<1>2. TInv /\ KInv /\ [Next]_vars => KInv' /\ [Keeps]_vars
  <2>1. TInv /\ KInv /\ Next => KInv' /\ Keeps
    BY RowsStep, HeldStep DEF KInv
  <2>2. KInv /\ UNCHANGED vars => KInv'
    BY DEF vars, writers, KInv, RowsKept, HeldKept, Holds, Kept
  <2> QED BY <2>1, <2>2
<1>3. Spec => []TInv
  BY TypesHold
<1>4. [][Keeps]_vars <=> RememberedKept
  BY DEF Keeps, RememberedKept
<1> QED BY <1>1, <1>2, <1>3, <1>4, PTL DEF Spec

-----------------------------------------------------------------------------
(* OneMemoryPerText: as long as no two writers have overlapped, what the   *)
(* one at work has found out about the table is still so when it writes:   *)
(* that a text is in no row, and that the row in its hand is the stored    *)
(* one. Imports in between touch the rows of skills only.                  *)

New(t) == \A i \in Written : memories[i].text # t
Fresh(w) ==
  /\ Looks(w) => New(text[w])
  /\ pc[w] \in {"match", "update", "insert"} => New(Head(chunks[w]))
  /\ Holds(w) /\ held[w].id.kind # "skill" => memories[held[w].id] = held[w].row
OneEach == \A i, j \in Written : memories[i].text = memories[j].text => i = j
Alone == \A v, w \in Writer : pc[v] # "idle" /\ pc[w] # "idle" => v = w
OBody == Alone /\ OneEach /\ \A w \in Writer : Fresh(w)
OInv == ~overlapped => OBody

(* The one writer at work: what the others have in hand does not matter. *)
OnlyOne(w) == \A v \in Writer \ {w} : pc[v] = "idle" /\ pc'[v] = "idle"

LEMMA AtWork ==
  ASSUME TInv, OBody, NEW w \in Writer, pc[w] # "idle", \A v \in Writer \ {w} : pc'[v] = pc[v]
  PROVE OnlyOne(w)
BY DEF OBody, Alone, OnlyOne

LEMMA OneBody ==
  ASSUME NEW w \in Writer, OnlyOne(w), OneEach', Fresh(w)'
  PROVE OBody'
<1>1. \A v \in Writer \ {w} : Fresh(v)'
  BY DEF OnlyOne, Fresh, Looks, Holds
<1> QED BY <1>1 DEF OBody, Alone, OnlyOne

LEMMA SameWritten ==
  ASSUME WriterInv, \A j \in Id : j.kind # "skill" => memories'[j] = memories[j]
  PROVE /\ Written' = Written
        /\ \A j \in Written : memories'[j] = memories[j]
BY DEF Written, Stored

LEMMA SameOneEach ==
  ASSUME WriterInv, OneEach, \A j \in Id : j.kind # "skill" => memories'[j] = memories[j]
  PROVE OneEach'
BY SameWritten DEF OneEach

(* A written row keeps the texts apart if no other row has its text. *)
LEMMA WrittenPut ==
  ASSUME WriterInv, OneEach, NEW i \in Id, NEW row, Put(i, row),
         i.kind = "skill" \/ \A j \in Written : memories[j].text = row.text => j = i
  PROVE OneEach'
<1>1. \A j \in Id : memories'[j] = IF j = i THEN row ELSE memories[j]
  BY DEF WriterInv, Put
<1>2. CASE i.kind = "skill"
  BY <1>1, <1>2, SameOneEach
<1>3. CASE \A j \in Written : memories[j].text = row.text => j = i
  <2>1. \A j \in Written' : j \in Id /\ (j # i => j \in Written /\ memories'[j] = memories[j])
    BY <1>1 DEF Written, Stored
  <2>2. i \in Id => memories'[i] = row
    BY <1>1
  <2> QED BY <1>3, <2>1, <2>2 DEF OneEach
<1> QED BY <1>2, <1>3

(* A writer that has just written holds nothing. *)
LEMMA Rests ==
  ASSUME NEW w \in Writer, pc'[w] \in {"idle", "chunk"}
  PROVE Fresh(w)'
BY DEF Fresh, Looks, Holds

LEMMA FinishRests ==
  ASSUME WriterInv, NEW w \in Writer, Finish(w)
  PROVE pc'[w] = "idle" /\ \A v \in Writer \ {w} : pc'[v] = pc[v]
BY DEF WriterInv, Finish

LEMMA NextRests ==
  ASSUME WriterInv, NEW w \in Writer, NEW new, NextChunk(w, new)
  PROVE pc'[w] \in {"idle", "chunk"} /\ \A v \in Writer \ {w} : pc'[v] = pc[v]
BY FinishRests DEF WriterInv, NextChunk

LEMMA WroteOne ==
  ASSUME TInv, OBody, NEW w \in Writer, pc[w] # "idle", pc'[w] \in {"idle", "chunk"},
         \A v \in Writer \ {w} : pc'[v] = pc[v], OneEach'
  PROVE OBody'
BY AtWork, Rests, OneBody

(* The steps that write a row, by a writer alone. *)
LEMMA WritesApart ==
  ASSUME TInv, OBody, NEW w \in Writer,
         \/ RememberMerge(w) \/ RememberOverwrite(w) \/ RememberCreate(w)
         \/ IngestUpdate(w) \/ IngestInsert(w)
  PROVE OBody'
<1>a. WriterInv /\ OneEach /\ Fresh(w)
  BY DEF TInv, OBody
<1>b. \A j \in Written : j \in Id /\ memories[j] # NoRow /\ j.kind # "skill"
  BY DEF Written, Stored
<1>1. CASE RememberMerge(w)
  <2> DEFINE row == [held[w].row EXCEPT !.type = type[w]]
  <2>1. held[w].id \in Id /\ held[w].row \in Row
    BY <1>a, <1>1 DEF WriterInv, InHand, RememberMerge, Holds
  <2>2. row.text = held[w].row.text
    BY <2>1 DEF Row
  <2>3. held[w].id.kind # "skill" => held[w].id \in Written /\ memories[held[w].id].text = row.text
    BY <1>a, <1>1, <2>1, <2>2, RowAssumption DEF Fresh, RememberMerge, Holds, Written, Stored
  <2>4. held[w].id.kind = "skill" \/ \A j \in Written : memories[j].text = row.text => j = held[w].id
    BY <1>a, <2>3 DEF OneEach
  <2>5. OneEach'
    BY <1>a, <1>1, <2>1, <2>4, WrittenPut DEF RememberMerge
  <2> QED BY <1>a, <1>1, <2>5, FinishRests, WroteOne DEF RememberMerge
<1>2. CASE RememberOverwrite(w)
  <2> DEFINE row == [text |-> IF held[w].row.source = "session" THEN text[w] ELSE held[w].row.text,
                     source |-> "explicit", type |-> type[w]]
  <2>1. held[w].id \in Id /\ held[w].row \in Row
    BY <1>a, <1>2 DEF WriterInv, InHand, RememberOverwrite, Holds
  <2>2. held[w].id.kind # "skill" => held[w].id \in Written /\ memories[held[w].id].text = held[w].row.text
    BY <1>a, <1>2, <2>1, RowAssumption DEF Fresh, RememberOverwrite, Holds, Written, Stored
  <2>3. New(text[w])
    BY <1>a, <1>2 DEF Fresh, RememberOverwrite, Looks
  <2>4. held[w].id.kind = "skill" \/ \A j \in Written : memories[j].text = row.text => j = held[w].id
    BY <1>a, <2>2, <2>3 DEF OneEach, New
  <2>5. OneEach'
    BY <1>a, <1>2, <2>1, <2>4, WrittenPut DEF RememberOverwrite
  <2> QED BY <1>a, <1>2, <2>5, FinishRests, WroteOne DEF RememberOverwrite
<1>3. CASE RememberCreate(w)
  <2>1. text[w] \in Text /\ New(text[w])
    BY <1>a, <1>3 DEF WriterInv, InHand, Fresh, RememberCreate, Looks
  <2>2. OneEach'
    BY <1>a, <1>3, <2>1, Ids, WrittenPut DEF New, RememberCreate
  <2> QED BY <1>a, <1>3, <2>2, FinishRests, WroteOne DEF RememberCreate
<1>4. CASE IngestUpdate(w)
  <2> DEFINE row == IF held[w].row.source = "explicit" THEN held[w].row
                    ELSE [held[w].row EXCEPT !.text = Head(chunks[w])]
  <2>1. held[w].id \in Id /\ held[w].row \in Row
    BY <1>a, <1>4 DEF WriterInv, InHand, IngestUpdate, Holds
  <2>2. held[w].id.kind # "skill" => held[w].id \in Written /\ memories[held[w].id].text = held[w].row.text
    BY <1>a, <1>4, <2>1, RowAssumption DEF Fresh, IngestUpdate, Holds, Written, Stored
  <2>3. New(Head(chunks[w]))
    BY <1>a, <1>4 DEF Fresh, IngestUpdate
  <2>4. row.text \in {held[w].row.text, Head(chunks[w])}
    BY <2>1 DEF Row
  <2>5. held[w].id.kind = "skill" \/ \A j \in Written : memories[j].text = row.text => j = held[w].id
    BY <1>a, <2>2, <2>3, <2>4 DEF OneEach, New
  <2>6. OneEach'
    BY <1>a, <1>4, <2>1, <2>5, WrittenPut DEF IngestUpdate
  <2> QED BY <1>a, <1>4, <2>6, NextRests, WroteOne DEF IngestUpdate
<1>5. CASE IngestInsert(w)
  <2> DEFINE t == Head(chunks[w])
  <2>1. SessionId(t) \in Id
    BY <1>a, <1>5, Ids DEF WriterInv, InHand, IngestInsert, Chunks
  <2>2. New(t)
    BY <1>a, <1>5 DEF Fresh, IngestInsert
  <2>3. OneEach'
    BY <1>a, <1>5, <2>1, <2>2, WrittenPut DEF New, IngestInsert
  <2> QED BY <1>a, <1>5, <2>3, NextRests, WroteOne DEF IngestInsert
<1> QED BY <1>1, <1>2, <1>3, <1>4, <1>5

LEMMA Quiet == WriterInv /\ OneEach /\ UNCHANGED memories => OneEach' /\ Written' = Written
BY SameWritten, SameOneEach DEF Id

(* The steps that only look. *)
LEMMA LooksApart ==
  ASSUME TInv, OBody, NEW w \in Writer, RememberSimilar(w) \/ IngestFind(w) \/ IngestMatch(w) \/ GiveUp(w)
  PROVE OBody'
<1>a. WriterInv /\ OneEach /\ Fresh(w)
  BY DEF TInv, OBody
<1>b. UNCHANGED memories
  BY DEF RememberSimilar, IngestFind, IngestMatch, GiveUp
<1>c. OneEach' /\ Written' = Written
  BY <1>a, <1>b, Quiet
<1>d. pc = [v \in Writer |-> pc[v]] /\ held = [v \in Writer |-> held[v]]
  BY <1>a DEF WriterInv
<1>1. CASE GiveUp(w)
  BY <1>a, <1>1, <1>c, FinishRests, WroteOne DEF GiveUp
<1>2. CASE RememberSimilar(w)
  <2>1. pc[w] = "similar" /\ pc'[w] \in {"overwrite", "create"} /\ \A v \in Writer \ {w} : pc'[v] = pc[v]
    BY <1>d, <1>2 DEF RememberSimilar, Go
  <2>2. New(text[w]) /\ UNCHANGED text
    BY <1>a, <1>2, <2>1 DEF Fresh, Looks, RememberSimilar
  <2>3. New(text[w])'
    BY <1>b, <1>c, <2>2 DEF New
  <2>4. pc'[w] = "overwrite" => memories[held'[w].id] = held'[w].row
    <3> DEFINE near == IF Cardinality(Stored) > SemanticCap THEN {} ELSE Closest(text[w], Vectors)
    <3>1. CASE Go(w, "similar", "overwrite") /\ \E e \in near : Hold(w, e.id)
      <4>1. PICK e \in near : Hold(w, e.id)
        BY <3>1
      <4>2. held'[w] = [id |-> e.id, row |-> memories[e.id]]
        BY <1>d, <4>1 DEF Hold
      <4> QED BY <4>2
    <3>2. CASE Go(w, "similar", "create")
      BY <1>d, <3>2 DEF Go
    <3> QED BY <1>2, <3>1, <3>2 DEF RememberSimilar
  <2>5. Fresh(w)'
    BY <1>b, <2>1, <2>3, <2>4 DEF Fresh, Looks, Holds
  <2> QED BY <1>c, <2>1, <2>5, AtWork, OneBody
<1>3. CASE IngestFind(w)
  <2>1. CASE NextChunk(w, {})
    BY <1>a, <1>c, <1>3, <2>1, NextRests, WroteOne DEF IngestFind
  <2>2. CASE WithText(Head(chunks[w])) = {} /\ Go(w, "chunk", "match") /\ UNCHANGED chunks
    <3>1. pc[w] = "chunk" /\ pc'[w] = "match" /\ \A v \in Writer \ {w} : pc'[v] = pc[v]
      BY <1>d, <2>2 DEF Go
    <3>2. New(Head(chunks[w]))
      BY <2>2 DEF New, WithText, Written
    <3>3. New(Head(chunks[w]))'
      BY <1>b, <1>c, <2>2, <3>2 DEF New
    <3>4. Fresh(w)'
      BY <3>1, <3>3 DEF Fresh, Looks, Holds
    <3> QED BY <1>c, <3>1, <3>4, AtWork, OneBody
  <2> QED BY <1>3, <2>1, <2>2 DEF IngestFind
<1>4. CASE IngestMatch(w)
  <2>1. pc[w] = "match" /\ pc'[w] \in {"update", "insert"} /\ \A v \in Writer \ {w} : pc'[v] = pc[v]
    BY <1>d, <1>4 DEF IngestMatch, Go
  <2>2. New(Head(chunks[w])) /\ UNCHANGED chunks
    BY <1>a, <1>4, <2>1 DEF Fresh, IngestMatch
  <2>3. New(Head(chunks[w]))'
    BY <1>b, <1>c, <2>2 DEF New
  <2>4. pc'[w] = "update" => memories[held'[w].id] = held'[w].row
    <3> DEFINE close == IF cache[w] = NoCache THEN {} ELSE Closest(Head(chunks[w]), cache[w])
    <3>1. ASSUME NEW e \in close, Hold(w, e.id)
          PROVE memories[held'[w].id] = held'[w].row
      <4>1. held'[w] = [id |-> e.id, row |-> memories[e.id]]
        BY <1>d, <3>1 DEF Hold
      <4> QED BY <4>1
    <3>2. CASE Go(w, "match", "insert")
      BY <1>d, <3>2 DEF Go
    <3>3. Go(w, "match", "insert") \/ \E e \in close : Hold(w, e.id)
      BY <1>4 DEF IngestMatch
    <3> QED BY <3>1, <3>2, <3>3
  <2>5. Fresh(w)'
    BY <1>b, <2>1, <2>3, <2>4 DEF Fresh, Looks, Holds
  <2> QED BY <1>c, <2>1, <2>5, AtWork, OneBody
<1> QED BY <1>1, <1>2, <1>3, <1>4

(* A call that overlaps with no other one. *)
LEMMA CallsApart ==
  ASSUME TInv, OBody, NEW w \in Writer, ~overlapped',
         (\E t \in Text, k \in Type : Remember(w, t, k)) \/ (\E s \in Summary : Ingest(w, s))
  PROVE OBody'
<1>a. WriterInv /\ OneEach
  BY DEF TInv, OBody
<1>b. UNCHANGED memories /\ Call(w)
  BY DEF Remember, Ingest
<1>c. OneEach' /\ Written' = Written
  BY <1>a, <1>b, Quiet
<1>d. /\ pc = [v \in Writer |-> pc[v]] /\ held = [v \in Writer |-> held[v]] /\ text = [v \in Writer |-> text[v]]
  BY <1>a DEF WriterInv
<1>e. \A v \in Writer \ {w} : pc[v] = "idle"
  BY <1>b DEF Call
<1>1. ASSUME NEW t \in Text, NEW k \in Type, Remember(w, t, k) PROVE OBody'
  <2>1. text'[w] = t
    BY <1>d, <1>1 DEF Remember
  <2>2. CASE Go(w, "idle", "merge") /\ \E i \in WithText(t) : Hold(w, i)
    <3>1. pc'[w] = "merge" /\ \A v \in Writer \ {w} : pc'[v] = "idle"
      BY <1>d, <1>e, <2>2 DEF Go
    <3>2. PICK i \in WithText(t) : Hold(w, i)
      BY <2>2
    <3>3. held'[w] = [id |-> i, row |-> memories[i]]
      BY <1>d, <3>2 DEF Hold
    <3>4. Fresh(w)'
      BY <1>b, <3>1, <3>3 DEF Fresh, Looks, Holds
    <3> QED BY <1>c, <1>e, <3>1, <3>4, OneBody DEF OnlyOne
  <2>3. CASE Go(w, "idle", "similar") /\ WithText(t) = {}
    <3>1. pc'[w] = "similar" /\ \A v \in Writer \ {w} : pc'[v] = "idle"
      BY <1>d, <1>e, <2>3 DEF Go
    <3>2. New(t)
      BY <2>3 DEF New, WithText, Written
    <3>3. New(text[w])'
      BY <1>b, <1>c, <2>1, <3>2 DEF New
    <3>4. Fresh(w)'
      BY <3>1, <3>3 DEF Fresh, Looks, Holds
    <3> QED BY <1>c, <1>e, <3>1, <3>4, OneBody DEF OnlyOne
  <2> QED BY <1>1, <2>2, <2>3 DEF Remember
<1>2. ASSUME NEW s \in Summary, Ingest(w, s) PROVE OBody'
  <2>1. pc'[w] = "chunk" /\ \A v \in Writer \ {w} : pc'[v] = "idle"
    BY <1>d, <1>e, <1>2 DEF Ingest, Go
  <2> QED BY <1>c, <1>e, <2>1, Rests, OneBody DEF OnlyOne
<1> QED BY <1>1, <1>2

(* Imports touch no written row. *)
LEMMA ImportApart ==
  ASSUME TInv, OBody,
         \/ ImportStart \/ Import \/ ImportFails \/ ImportKilled
         \/ \E s \in Skill, f \in File : EditSkill(s, f)
  PROVE OBody'
<1>a. WriterInv /\ ImportInv /\ OneEach /\ Alone /\ \A w \in Writer : Fresh(w)
  BY DEF TInv, OBody
<1>1. UNCHANGED writers
  BY DEF ImportStart, Import, ImportSkip, ImportFile, ImportPrune, ImportPart, ImportPut, ImportDone,
         ImportFails, ImportKilled, EditSkill
<1>2. ASSUME NEW n, NEW row, Put(SkillId(skill, n), row) PROVE \A j \in Id : j.kind # "skill" => memories'[j] = memories[j]
  BY <1>a, <1>2, Ids DEF Put, WriterInv
<1>3. \A j \in Id : j.kind # "skill" => memories'[j] = memories[j]
  <2>1. CASE ImportPrune
    BY <1>2, <2>1 DEF ImportPrune
  <2>2. CASE ImportPut
    BY <1>2, <2>2 DEF ImportPut
  <2>3. CASE UNCHANGED memories
    BY <2>3
  <2> QED BY <2>1, <2>2, <2>3 DEF ImportStart, Import, ImportSkip, ImportFile, ImportPart, ImportDone,
                                  ImportFails, ImportKilled, EditSkill
<1>4. OneEach' /\ Written' = Written /\ \A j \in Written : memories'[j] = memories[j]
  BY <1>a, <1>3, SameWritten, SameOneEach
<1>5. ASSUME NEW w \in Writer PROVE Fresh(w)'
  <2>1. \A t : New(t) => New(t)'
    BY <1>4 DEF New
  <2>2. UNCHANGED <<pc, text, chunks, held>>
    BY <1>1 DEF writers
  <2>3. Holds(w) => held[w].id \in Id
    BY <1>a DEF WriterInv, InHand
  <2>4. Looks(w)' => New(text[w])'
    BY <1>a, <2>1, <2>2 DEF Fresh, Looks, New
  <2>5. pc'[w] \in {"match", "update", "insert"} => New(Head(chunks[w]))'
    BY <1>a, <2>1, <2>2 DEF Fresh, New
  <2>6. Holds(w)' /\ held'[w].id.kind # "skill" => memories'[held'[w].id] = held'[w].row
    BY <1>a, <1>3, <2>2, <2>3 DEF Fresh, Holds
  <2> QED BY <2>4, <2>5, <2>6 DEF Fresh
<1> QED BY <1>a, <1>1, <1>4, <1>5 DEF OBody, Alone, writers

(* README.md: memories are deduplicated by their content hash. Until two   *)
(* writers overlap no text is remembered twice, for any number of texts    *)
(* and calls, over the cap or not, whatever calls and imports fail.        *)
THEOREM NoTextTwice == Spec => []OneMemoryPerText
<1>1. Init => OInv
  BY DEF Init, OInv, OBody, Alone, OneEach, Fresh, Looks, Holds, Written, Stored
<1>2. TInv /\ OInv /\ [Next]_vars => OInv'
  <2> SUFFICES ASSUME TInv, OInv, [Next]_vars, ~overlapped' PROVE OBody'
    BY DEF OInv
  <2>1. ASSUME NEW w \in Writer, NEW t \in Text, NEW k \in Type, Remember(w, t, k) PROVE OBody'
    <3>1. OBody
      BY <2>1 DEF Remember, Call, OInv
    <3> QED BY <2>1, <3>1, CallsApart
  <2>2. ASSUME NEW w \in Writer, NEW s \in Summary, Ingest(w, s) PROVE OBody'
    <3>1. OBody
      BY <2>2 DEF Ingest, Call, OInv
    <3> QED BY <2>2, <3>1, CallsApart
  <2>3. ASSUME NEW w \in Writer, Write(w) \/ GiveUp(w) PROVE OBody'
    <3>1. OBody
      BY <2>3 DEF Write, GiveUp, RememberSimilar, RememberMerge, RememberOverwrite, RememberCreate,
                  IngestFind, IngestMatch, IngestUpdate, IngestInsert, OInv
    <3> QED BY <2>3, <3>1, LooksApart, WritesApart DEF Write
  <2>4. CASE \/ ImportStart \/ Import \/ ImportFails \/ ImportKilled
             \/ \E s \in Skill, f \in File : EditSkill(s, f)
    <3>1. OBody
      BY <2>4 DEF ImportStart, Import, ImportSkip, ImportFile, ImportPrune, ImportPart, ImportPut, ImportDone,
                  ImportFails, ImportKilled, EditSkill, OInv
    <3> QED BY <2>4, <3>1, ImportApart
  <2>5. CASE UNCHANGED vars
    <3>1. OBody /\ WriterInv
      BY <2>5 DEF vars, OInv, TInv
    <3>2. OneEach' /\ Written' = Written
      BY <2>5, <3>1, Quiet DEF vars, OBody
    <3> QED BY <2>5, <3>1, <3>2 DEF vars, writers, OBody, Alone, Fresh, Looks, Holds, New
  <2> QED BY <2>1, <2>2, <2>3, <2>4, <2>5 DEF Next
<1>3. OInv => OneMemoryPerText
  BY DEF OInv, OBody, OneEach, OneMemoryPerText
<1> QED BY <1>1, <1>2, <1>3, TypesHold, PTL DEF Spec
=============================================================================
