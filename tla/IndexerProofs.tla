--------------------------- MODULE IndexerProofs ---------------------------
(***************************************************************************)
(* What isUpToDate may rely on, for any files, contents, line ranges and   *)
(* times: with one pass at a time, and edits that never overtake its read, *)
(* come a second apart and bring something new, a row of the present       *)
(* content carries the present modification time and has all the others    *)
(* beside it, and a row of an earlier content is older than the file.      *)
(***************************************************************************)
EXTENDS Indexer, TLAPS

(* The hypothesis of the theorems: one process, and none of the edits that *)
(* defeat isUpToDate, each of which makes a theorem of this module false.  *)
Orderly ==
  /\ \A i, j \in Indexer : i = j
  /\ Faults \cap {"touch", "revert", "race", "second", "older", "legacy"} = {}

Drafting == {"hash", "stamp", "embed", "upsert"}

TreeInv ==
  \A f \in File : mtime[f] <= clock /\ (content[f] # Gone => content[f] \in past[f])

RowOk(r) ==
  /\ r.hash = r.of /\ r.of \in past[r.file]
  /\ r.of = content[r.file] => r.mod = mtime[r.file] /\ Indexed(r.file)
  /\ r.of # content[r.file] => r.mod < mtime[r.file]

RowsInv == \A r \in rows : RowOk(r)

DraftOk(i) ==
  /\ ipc[i] \in Drafting => draft[i].of \in past[cur[i]]
  /\ ipc[i] \in {"hash", "stamp"} => draft[i].of = content[cur[i]]
  /\ ipc[i] \in {"stamp", "embed", "upsert"} => draft[i].hash = draft[i].of
  /\ ipc[i] \in {"embed", "upsert"} =>
       /\ draft[i].of = content[cur[i]] => draft[i].mod = mtime[cur[i]]
       /\ draft[i].of # content[cur[i]] =>
            /\ draft[i].mod < mtime[cur[i]]
            /\ \A r \in RowsOf(cur[i]) : r.of # content[cur[i]]
  /\ ipc[i] = "compare" => ~NotNewer(cur[i]) /\ RowsOf(cur[i]) # {}

DraftInv == \A i \in Indexer : DraftOk(i)

IInv == TypeOK /\ TreeInv /\ RowsInv /\ DraftInv

-----------------------------------------------------------------------------
(* The rows of one upsert. *)
LEMMA NewRows ==
  ASSUME NEW f \in File, NEW d \in Draft, d.of \in Content
  PROVE  /\ RowsFor(f, d) \subseteq Row
         /\ \A r \in RowsFor(f, d) : /\ r.file = f /\ r.chunk \in Layout[d.of]
                                     /\ r.of = d.of /\ r.hash = d.hash /\ r.mod = d.mod
         /\ \A k \in Layout[d.of] : \E r \in RowsFor(f, d) : r.chunk = k
         /\ \A r, s \in RowsFor(f, d) : r.chunk = s.chunk => r = s
<1>1. ASSUME NEW k \in Layout[d.of]
      PROVE  [file |-> f, chunk |-> k, of |-> d.of, hash |-> d.hash, mod |-> d.mod] \in Row
  BY <1>1, LayoutAssumption DEF Row, Draft, Hash
<1>2. \A r \in RowsFor(f, d) : \E k \in Layout[d.of] :
        r = [file |-> f, chunk |-> k, of |-> d.of, hash |-> d.hash, mod |-> d.mod]
  BY DEF RowsFor
<1>3. \A k \in Layout[d.of] :
        [file |-> f, chunk |-> k, of |-> d.of, hash |-> d.hash, mod |-> d.mod] \in RowsFor(f, d)
  BY DEF RowsFor
<1>4. RowsFor(f, d) \subseteq Row
  BY <1>1, <1>2
<1>5. \A r \in RowsFor(f, d) : /\ r.file = f /\ r.chunk \in Layout[d.of]
                               /\ r.of = d.of /\ r.hash = d.hash /\ r.mod = d.mod
  BY <1>2
<1>6. \A k \in Layout[d.of] : \E r \in RowsFor(f, d) : r.chunk = k
  BY <1>3
<1>7. \A r, s \in RowsFor(f, d) : r.chunk = s.chunk => r = s
  BY <1>2
<1> QED BY <1>4, <1>5, <1>6, <1>7

LEMMA Initially == ASSUME Orderly PROVE Init => IInv
<1> SUFFICES ASSUME Init PROVE IInv
  OBVIOUS
<1>1. rows = {}
  BY DEF Orderly, Init
<1>2. 1 \in 1..MaxTime /\ 0 \in 0..MaxTime
  BY TimeAssumption
<1>3. Blank \in Draft
  BY <1>2 DEF Blank, Draft, Hash
<1>4. TypeOK
  BY <1>1, <1>2, <1>3 DEF Init, TypeOK, Step
<1>5. TreeInv
  <2>1. ASSUME NEW f \in File PROVE mtime[f] = 1 /\ clock = 1 /\ past[f] = {content[f]}
    BY DEF Init
  <2>2. 1 <= 1
    OBVIOUS
  <2> QED BY <2>1, <2>2 DEF TreeInv
<1>6. \A i \in Indexer : ipc[i] = "idle"
  BY DEF Init
<1>7. RowsInv /\ DraftInv
  BY <1>1, <1>6 DEF RowsInv, DraftInv, DraftOk, Drafting
<1> QED BY <1>4, <1>5, <1>7 DEF IInv

(* Steps that change only where a pass is, or what it knows of its file.   *)
LEMMA KeepStep ==
  ASSUME IInv, NEW i \in Indexer, NEW from \in Step, NEW to \in Step,
         Keep(i, from, to), from \notin {"idle", "next"} \/ to \in {"idle", "next"},
         <<from, to>> = <<"embed", "upsert">> \/ to \notin Drafting,
         to = "compare" => ~NotNewer(cur[i]) /\ RowsOf(cur[i]) # {}
  PROVE  IInv'
<1> USE DEF IInv
<1>1. /\ UNCHANGED <<todo, cur, draft, content, mtime, clock, past, rows>>
      /\ ipc' = [ipc EXCEPT ![i] = to] /\ ipc[i] = from
  BY DEF Keep, Go, tree
<1>2. TypeOK'
  BY <1>1 DEF TypeOK
<1>3. TreeInv' /\ RowsInv'
  BY <1>1 DEF TreeInv, RowsInv, RowOk, Indexed, ChunksOf, RowsOf
<1>4. DraftInv'
  BY <1>1 DEF DraftInv, DraftOk, Drafting, NotNewer, RowsOf, TypeOK
<1> QED BY <1>2, <1>3, <1>4

LEMMA LeaveStep ==
  ASSUME IInv, NEW i \in Indexer, NEW from \in Step, Skip(i, from)
  PROVE  IInv'
<1> USE DEF IInv
<1>1. /\ UNCHANGED <<todo, content, mtime, clock, past, rows>>
      /\ ipc' = [ipc EXCEPT ![i] = "next"]
      /\ cur' = [cur EXCEPT ![i] = NoFile] /\ draft' = [draft EXCEPT ![i] = Blank]
  BY DEF Skip, Leave, Go, tree
<1>2. Blank \in Draft
  BY TimeAssumption DEF Blank, Draft, Hash
<1>3. TypeOK'
  BY <1>1, <1>2 DEF TypeOK, Step
<1>4. TreeInv' /\ RowsInv'
  BY <1>1 DEF TreeInv, RowsInv, RowOk, Indexed, ChunksOf, RowsOf
<1>5. DraftInv'
  BY <1>1 DEF DraftInv, DraftOk, Drafting, NotNewer, RowsOf, TypeOK
<1> QED BY <1>3, <1>4, <1>5

(* An edit leaves no row of the new content, and all rows older than it.   *)
LEMMA EditStep ==
  ASSUME Orderly, IInv, NEW f \in File, NEW c \in Content \cup {Gone}, Edit(f, c)
  PROVE  IInv'
<1> USE DEF IInv
<1>1. /\ c # content[f] /\ c \notin past[f] /\ ~BeingRead(f)
      /\ content' = [content EXCEPT ![f] = c]
      /\ past' = [past EXCEPT ![f] = @ \cup ({c} \ {Gone})]
      /\ UNCHANGED <<rows, ipc, todo, cur, draft>>
  <2>1. c # content[f]
    BY DEF Edit, Orderly
  <2>2. c \notin past[f]
    BY <2>1 DEF Edit, Orderly
  <2> QED BY <2>1, <2>2 DEF Edit, Orderly, pass
<1>2. clock' \in 1..MaxTime /\ clock < clock' /\ mtime' = [mtime EXCEPT ![f] = clock']
  <2>1. PICK now \in clock..(clock + 1), t \in 1..MaxTime :
          now # clock /\ t <= now /\ ~(t < now) /\ clock' = now /\ mtime' = [mtime EXCEPT ![f] = t]
    BY DEF Edit, Orderly
  <2>2. clock' <= MaxTime
    BY DEF Edit
  <2>3. clock \in 1..MaxTime
    BY DEF TypeOK
  <2>4. now = clock + 1 /\ t = now
    BY <2>1, <2>3
  <2> QED BY <2>1, <2>2, <2>3, <2>4, TimeAssumption
<1>3. mtime[f] \in 1..MaxTime /\ clock \in 1..MaxTime /\ mtime[f] <= clock
  BY DEF TypeOK, TreeInv
<1>4. mtime[f] < mtime'[f]
  BY <1>2, <1>3 DEF TypeOK
<1>5. TypeOK'
  BY <1>1, <1>2 DEF TypeOK
<1>6. TreeInv'
  <2>1. ASSUME NEW g \in File, g # f PROVE mtime'[g] <= clock'
    <3>1. mtime'[g] = mtime[g] /\ mtime[g] <= clock /\ mtime[g] \in 1..MaxTime
      BY <1>2, <2>1 DEF TypeOK, TreeInv
    <3> QED BY <3>1, <1>2, <1>3
  <2>2. mtime'[f] <= clock'
    BY <1>2 DEF TypeOK
  <2>3. \A g \in File : content'[g] # Gone => content'[g] \in past'[g]
    BY <1>1 DEF TypeOK, TreeInv
  <2> QED BY <2>1, <2>2, <2>3 DEF TreeInv
<1>7. \A r \in rows : r.file = f => r.of # c /\ r.mod < mtime'[f]
  <2> SUFFICES ASSUME NEW r \in rows, r.file = f PROVE r.of # c /\ r.mod < mtime'[f]
    OBVIOUS
  <2>1. r.of # c
    BY <1>1 DEF RowsInv, RowOk
  <2>2. r.mod = mtime[f] \/ r.mod < mtime[f]
    BY DEF RowsInv, RowOk
  <2>3. r.mod \in 0..MaxTime /\ mtime'[f] \in 1..MaxTime
    BY <1>5 DEF TypeOK, Row
  <2> QED BY <2>1, <2>2, <2>3, <1>3, <1>4
<1>8. RowsInv'
  <2> SUFFICES ASSUME NEW r \in rows' PROVE RowOk(r)'
    BY DEF RowsInv
  <2>1. r \in rows /\ r.file \in File
    BY <1>1 DEF TypeOK, Row
  <2>2. r.hash = r.of /\ r.of \in past'[r.file]
    BY <1>1, <2>1 DEF RowsInv, RowOk, TypeOK
  <2>3. CASE r.file = f
    BY <1>1, <1>7, <2>1, <2>2, <2>3 DEF TypeOK, RowOk
  <2>4. CASE r.file # f
    <3>1. content'[r.file] = content[r.file] /\ mtime'[r.file] = mtime[r.file]
      BY <1>1, <1>2, <2>1, <2>4 DEF TypeOK
    <3>2. Indexed(r.file) => Indexed(r.file)'
      BY <1>1, <3>1 DEF Indexed, ChunksOf, RowsOf
    <3> QED BY <2>1, <2>2, <3>1, <3>2 DEF RowsInv, RowOk
  <2> QED BY <2>3, <2>4
<1>9. DraftInv'
  <2> SUFFICES ASSUME NEW j \in Indexer PROVE DraftOk(j)'
    BY DEF DraftInv
  <2>0. DraftOk(j)
    BY DEF DraftInv
  <2>1. CASE cur[j] # f
    <3>1. ipc[j] \notin {"idle", "next"} =>
            /\ cur[j] \in File
            /\ content'[cur[j]] = content[cur[j]] /\ mtime'[cur[j]] = mtime[cur[j]]
            /\ past'[cur[j]] = past[cur[j]]
      BY <1>1, <1>2, <2>1 DEF TypeOK
    <3> QED BY <1>1, <2>0, <3>1 DEF DraftOk, Drafting, NotNewer, RowsOf
  <2>2. CASE cur[j] = f
    <3>1. ipc[j] \notin {"hash", "stamp"}
      BY <1>1, <2>2 DEF BeingRead
    <3>2. /\ ipc[j] \in Drafting => draft[j].of \in past[f] /\ draft[j].of # c
          /\ past'[f] = past[f] \cup ({c} \ {Gone}) /\ content'[f] = c
      BY <1>1, <2>0, <2>2 DEF DraftOk, TypeOK
    <3>3. ipc[j] \in {"embed", "upsert"} => draft[j].mod < mtime'[f]
      <4>1. draft[j].mod \in 0..MaxTime /\ mtime'[f] \in 1..MaxTime
        BY <1>5 DEF TypeOK, Draft
      <4>2. ipc[j] \in {"embed", "upsert"} => draft[j].mod = mtime[f] \/ draft[j].mod < mtime[f]
        BY <2>0, <2>2 DEF DraftOk
      <4> QED BY <4>1, <4>2, <1>3, <1>4
    <3>4. \A r \in RowsOf(f)' : r.of # c
      BY <1>1, <1>7 DEF RowsOf
    <3>5. ~NotNewer(f)' /\ RowsOf(f)' = RowsOf(f)
      <4>1. \A r \in rows : r.file = f => r.mod \in 0..MaxTime /\ mtime'[f] \in 1..MaxTime
        BY <1>5 DEF TypeOK, Row
      <4> QED BY <1>1, <1>7, <4>1 DEF NotNewer, RowsOf
    <3> QED BY <1>1, <2>0, <2>2, <3>1, <3>2, <3>3, <3>4, <3>5 DEF DraftOk, Drafting
  <2> QED BY <2>1, <2>2
<1> QED BY <1>5, <1>6, <1>8, <1>9

(* The reads of one file. The drafts of other passes do not change, and    *)
(* nothing that the facts about tree and rows are about does.              *)
LEMMA ReadStep ==
  ASSUME IInv, NEW i \in Indexer, ReadChunks(i) \/ HashFile(i) \/ StatAgain(i)
  PROVE  IInv'
<1> USE DEF IInv
<1>1. CASE ReadChunks(i) /\ Skip(i, "read")
  BY <1>1, LeaveStep DEF Step
<1>2. CASE ~Skip(i, "read") \/ ~ReadChunks(i)
  <2>1. UNCHANGED <<todo, cur, content, mtime, clock, past, rows>>
    BY <1>2 DEF ReadChunks, HashFile, StatAgain, tree
  <2>2. /\ ipc[i] \in {"read", "hash", "stamp"} /\ ipc'[i] \in Step
        /\ cur[i] \in File
        /\ ipc' = [ipc EXCEPT ![i] = ipc'[i]]
    BY <1>2 DEF ReadChunks, HashFile, StatAgain, Go, TypeOK, Step
  <2>3. /\ content[cur[i]] \in Content \cup {Gone}
        /\ mtime[cur[i]] \in 0..MaxTime
        /\ draft[i] \in Draft
    BY <2>2, TimeAssumption DEF TypeOK
  <2>4. draft' = [draft EXCEPT ![i] = draft'[i]] /\ draft'[i] \in Draft
    <3>1. CASE ReadChunks(i)
      BY <1>2, <2>3, <3>1 DEF ReadChunks, TypeOK, Draft
    <3>2. CASE HashFile(i)
      BY <2>3, <3>2 DEF HashFile, TypeOK, Draft, Hash
    <3>3. CASE StatAgain(i)
      <4>1. 0 \in 0..MaxTime
        BY TimeAssumption
      <4> QED BY <2>3, <3>3, <4>1 DEF StatAgain, TypeOK, Draft
    <3> QED BY <3>1, <3>2, <3>3
  <2>5. TypeOK'
    BY <2>1, <2>2, <2>4 DEF TypeOK
  <2>6. TreeInv' /\ RowsInv'
    BY <2>1 DEF TreeInv, RowsInv, RowOk, Indexed, ChunksOf, RowsOf
  <2>7. ASSUME NEW j \in Indexer, j # i PROVE DraftOk(j)'
    BY <2>1, <2>2, <2>4, <2>7 DEF DraftInv, DraftOk, NotNewer, RowsOf, TypeOK
  <2>8. DraftOk(i)'
    <3>0. DraftOk(i)
      BY DEF DraftInv
    <3>1. CASE ReadChunks(i)
      <4>1. ipc'[i] = "hash" /\ draft'[i].of = content[cur[i]] /\ content[cur[i]] # Gone
        BY <1>2, <2>3, <3>1 DEF ReadChunks, Go, TypeOK, ChunksOf, Draft
      <4>2. content[cur[i]] \in past[cur[i]]
        BY <2>2, <4>1 DEF TreeInv
      <4> QED BY <2>1, <4>1, <4>2 DEF DraftOk, Drafting
    <3>2. CASE HashFile(i)
      <4>1. /\ ipc[i] = "hash" /\ ipc'[i] = "stamp"
            /\ draft'[i].of = draft[i].of
            /\ draft'[i].hash = IF content[cur[i]] = Gone THEN NoHash ELSE content[cur[i]]
        BY <2>3, <3>2 DEF HashFile, Go, TypeOK, Draft
      <4>2. draft[i].of = content[cur[i]] /\ draft[i].of \in past[cur[i]]
        BY <3>0, <4>1 DEF DraftOk, Drafting
      <4>3. content[cur[i]] # Gone
        BY <2>2, <4>2, NullAssumption DEF TypeOK
      <4> QED BY <2>1, <4>1, <4>2, <4>3 DEF DraftOk, Drafting
    <3>3. CASE StatAgain(i)
      <4>1. /\ ipc[i] = "stamp" /\ ipc'[i] = "embed"
            /\ draft'[i].of = draft[i].of /\ draft'[i].hash = draft[i].hash
            /\ draft'[i].mod = IF content[cur[i]] = Gone THEN 0 ELSE mtime[cur[i]]
        BY <2>3, <3>3 DEF StatAgain, Go, TypeOK, Draft
      <4>2. /\ draft[i].of = content[cur[i]] /\ draft[i].of \in past[cur[i]]
            /\ draft[i].hash = draft[i].of
        BY <3>0, <4>1 DEF DraftOk, Drafting
      <4>3. content[cur[i]] # Gone
        BY <2>2, <4>2, NullAssumption DEF TypeOK
      <4> QED BY <2>1, <4>1, <4>2, <4>3 DEF DraftOk, Drafting
    <3> QED BY <3>1, <3>2, <3>3
  <2> QED BY <2>5, <2>6, <2>7, <2>8 DEF DraftInv
<1> QED BY <1>1, <1>2

(* The upsert. If the file still is what was read, all its chunks are in   *)
(* the store now; if not, the new rows are older than the file, and there  *)
(* was none of its present content to replace.                             *)
LEMMA UpsertStep ==
  ASSUME Orderly, IInv, NEW i \in Indexer, Upsert(i)
  PROVE  IInv'
<1> USE DEF IInv
<1> DEFINE f == cur[i]
           d == draft[i]
           new == RowsFor(f, d)
<1>1. /\ ipc[i] = "upsert" /\ UNCHANGED <<todo, content, mtime, clock, past>>
      /\ ipc' = [ipc EXCEPT ![i] = "next"]
      /\ cur' = [cur EXCEPT ![i] = NoFile] /\ draft' = [draft EXCEPT ![i] = Blank]
      /\ rows' = new \cup {r \in rows : r.file # f \/ r.chunk \notin Layout[d.of]}
  BY DEF Upsert, Leave, Go, tree
<1>2. f \in File /\ d \in Draft
  BY <1>1 DEF TypeOK
<1>3. DraftOk(i)
  BY DEF DraftInv
<1>4. d.of \in past[f] /\ d.of \in Content /\ d.hash = d.of
  BY <1>1, <1>2, <1>3 DEF DraftOk, Drafting, TypeOK
<1>5. /\ new \subseteq Row
      /\ \A r \in new : /\ r.file = f /\ r.chunk \in Layout[d.of]
                        /\ r.of = d.of /\ r.hash = d.hash /\ r.mod = d.mod
      /\ \A k \in Layout[d.of] : \E r \in new : r.chunk = k
      /\ \A r, s \in new : r.chunk = s.chunk => r = s
  BY <1>2, <1>4, NewRows
<1> HIDE DEF new
<1>6. Blank \in Draft
  BY TimeAssumption DEF Blank, Draft, Hash
<1>7. rows' \subseteq Row /\ \A r, s \in rows' : r.file = s.file /\ r.chunk = s.chunk => r = s
  BY <1>1, <1>5 DEF TypeOK
<1>8. TypeOK'
  BY <1>1, <1>6, <1>7 DEF TypeOK, Step
<1>9. TreeInv'
  BY <1>1 DEF TreeInv
<1>10. ASSUME NEW g \in File, g # f \/ d.of = content[f], g # f => Indexed(g)
       PROVE  Indexed(g)'
  <2>1. CASE g = f
    BY <1>1, <1>2, <1>5, <1>10, <2>1, NullAssumption, <1>4 DEF Indexed, ChunksOf, RowsOf, TypeOK
  <2>2. CASE g # f
    BY <1>1, <1>10, <2>2 DEF Indexed, ChunksOf, RowsOf
  <2> QED BY <2>1, <2>2
<1>11. RowsInv'
  <2> SUFFICES ASSUME NEW r \in rows' PROVE RowOk(r)'
    BY DEF RowsInv
  <2>1. CASE r \in new
    <3>1. r.file = f /\ r.hash = r.of /\ r.of = d.of /\ r.mod = d.mod
      BY <1>4, <1>5, <2>1
    <3>2. CASE d.of = content[f]
      BY <1>1, <1>2, <1>3, <1>4, <1>10, <3>1, <3>2 DEF RowOk, DraftOk
    <3>3. CASE d.of # content[f]
      BY <1>1, <1>3, <1>4, <3>1, <3>3 DEF RowOk, DraftOk
    <3> QED BY <3>2, <3>3
  <2>2. CASE r \notin new
    <3>1. r \in rows /\ r.file \in File /\ RowOk(r)
      BY <1>1, <2>2 DEF RowsInv, TypeOK, Row
    <3>2. CASE r.of = content[r.file]
      <4>1. r.file # f \/ d.of = content[f]
        BY <1>1, <1>3, <3>1, <3>2 DEF DraftOk, RowsOf
      <4>2. Indexed(r.file)'
        BY <1>10, <3>1, <3>2, <4>1 DEF RowOk
      <4> QED BY <1>1, <3>1, <3>2, <4>2 DEF RowOk
    <3>3. CASE r.of # content[r.file]
      BY <1>1, <3>1, <3>3 DEF RowOk
    <3> QED BY <3>2, <3>3
  <2> QED BY <2>1, <2>2
<1>12. DraftInv'
  <2>1. \A j \in Indexer : ipc'[j] = "next"
    BY <1>1 DEF Orderly, TypeOK
  <2> QED BY <2>1 DEF DraftInv, DraftOk, Drafting
<1> QED BY <1>8, <1>9, <1>11, <1>12

LEMMA Inductive == ASSUME Orderly PROVE IInv /\ [Next]_vars => IInv'
<1> SUFFICES ASSUME IInv, [Next]_vars PROVE IInv'
  OBVIOUS
<1> USE DEF Step, Drafting
<1>1. ASSUME NEW i \in Indexer, Walk(i) \/ NextFile(i) \/ Cancel(i) PROVE IInv'
  <2>1. /\ UNCHANGED <<draft, content, mtime, clock, past, rows>>
        /\ ipc[i] \in {"idle", "next"} /\ ipc'[i] \in {"next", "stat", "idle"}
        /\ ipc' = [ipc EXCEPT ![i] = ipc'[i]] /\ todo' \in [Indexer -> SUBSET File]
        /\ cur' = [cur EXCEPT ![i] = cur'[i]]
        /\ cur'[i] \in File \/ (cur'[i] = cur[i] /\ ipc'[i] # "stat")
    <3>1. CASE Walk(i)
      BY <3>1 DEF Walk, Go, tree, IInv, TypeOK
    <3>2. CASE NextFile(i)
      BY <3>2 DEF NextFile, Go, tree, IInv, TypeOK
    <3>3. CASE Cancel(i)
      BY <3>3 DEF Cancel, Go, tree, IInv, TypeOK
    <3> QED BY <1>1, <3>1, <3>2, <3>3
  <2>2. TypeOK'
    BY <2>1 DEF IInv, TypeOK
  <2>3. TreeInv' /\ RowsInv'
    BY <2>1 DEF IInv, TreeInv, RowsInv, RowOk, Indexed, ChunksOf, RowsOf
  <2>4. DraftInv'
    BY <2>1 DEF IInv, TypeOK, DraftInv, DraftOk, NotNewer, RowsOf
  <2> QED BY <2>2, <2>3, <2>4 DEF IInv
<1>2. ASSUME NEW i \in Indexer, Crash(i) PROVE IInv'
  <2>1. Blank \in Draft
    BY TimeAssumption DEF Blank, Draft, Hash
  <2>2. TypeOK'
    BY <1>2, <2>1 DEF Crash, tree, IInv, TypeOK
  <2>3. TreeInv' /\ RowsInv'
    BY <1>2 DEF Crash, tree, IInv, TreeInv, RowsInv, RowOk, Indexed, ChunksOf, RowsOf
  <2>4. DraftInv'
    BY <1>2 DEF Crash, tree, IInv, TypeOK, DraftInv, DraftOk, NotNewer, RowsOf
  <2> QED BY <2>2, <2>3, <2>4 DEF IInv
<1>3. ASSUME NEW i \in Indexer, EndPass(i) \/ Embed(i) PROVE IInv'
  BY <1>3, KeepStep DEF EndPass, Embed
<1>4. ASSUME NEW i \in Indexer, Stat(i) PROVE IInv'
  <2>1. CASE Skip(i, "stat")
    BY <2>1, LeaveStep
  <2>2. CASE Keep(i, "stat", "read")
    BY <2>2, KeepStep
  <2>3. CASE ~NotNewer(cur[i]) /\ ~NoModTime(cur[i]) /\ Keep(i, "stat", "compare")
    <3>1. RowsOf(cur[i]) # {}
      BY <2>3 DEF NoModTime
    <3> QED BY <2>3, <3>1, KeepStep
  <2> QED BY <1>4, <2>1, <2>2, <2>3 DEF Stat
<1>5. ASSUME NEW i \in Indexer, Compare(i) PROVE IInv'
  BY <1>5, LeaveStep, KeepStep DEF Compare
<1>6. ASSUME NEW i \in Indexer, EmbedFails(i) \/ UpsertFails(i) PROVE IInv'
  BY <1>6, LeaveStep DEF EmbedFails, UpsertFails
<1>7. ASSUME NEW i \in Indexer, ReadChunks(i) \/ HashFile(i) \/ StatAgain(i) PROVE IInv'
  BY <1>7, ReadStep
<1>8. ASSUME NEW i \in Indexer, Upsert(i) PROVE IInv'
  BY <1>8, UpsertStep
<1>9. ASSUME NEW f \in File, NEW c \in Content \cup {Gone}, Edit(f, c) PROVE IInv'
  BY <1>9, EditStep
<1>10. CASE UNCHANGED vars
  <2>1. TypeOK'
    BY <1>10 DEF vars, tree, pass, IInv, TypeOK
  <2>2. TreeInv' /\ RowsInv'
    BY <1>10 DEF vars, tree, pass, IInv, TreeInv, RowsInv, RowOk, Indexed, ChunksOf, RowsOf
  <2>3. DraftInv'
    BY <1>10 DEF vars, tree, pass, IInv, DraftInv, DraftOk, NotNewer, RowsOf
  <2> QED BY <2>1, <2>2, <2>3 DEF IInv
<1> QED BY <1>1, <1>2, <1>3, <1>4, <1>5, <1>6, <1>7, <1>8, <1>9, <1>10 DEF Next, Work, Fail

-----------------------------------------------------------------------------
(* Every variable keeps its type, and the rows their primary key.          *)
THEOREM TypeCorrect == ASSUME Orderly PROVE Spec => []TypeOK
<1>1. IInv => TypeOK
  BY DEF IInv
<1> QED BY <1>1, Initially, Inductive, PTL DEF Spec

(* The two steps that decide about a file, when there is one pass. *)
LEMMA DecidedBy ==
  ASSUME Orderly, IInv, [Next]_vars, NEW i \in Indexer,
         ipc[i] \in {"stat", "compare"}, ipc'[i] \in {"next", "read"}
  PROVE  Stat(i) \/ Compare(i)
<1>1. ASSUME NEW j \in Indexer PROVE j = i
  BY DEF Orderly
<1>2. ASSUME NEW f \in File, NEW c \in Content \cup {Gone}, Edit(f, c) PROVE FALSE
  BY <1>2 DEF Edit, pass
<1>3. ~UNCHANGED vars
  BY DEF vars, pass
<1>4. PICK j \in Indexer : Walk(j) \/ Work(j) \/ Fail(j)
  BY <1>2, <1>3 DEF Next
<1>5. Walk(i) \/ Work(i) \/ Fail(i)
  BY <1>1, <1>4
<1>6. ipc \in [Indexer -> Step]
  BY DEF IInv, TypeOK
<1>7. ~Walk(i) /\ ~Fail(i)
  BY <1>6 DEF Walk, Fail, Cancel, Crash, EmbedFails, UpsertFails, Skip, Leave, Go
<1>8. /\ ~NextFile(i) /\ ~EndPass(i) /\ ~ReadChunks(i) /\ ~HashFile(i)
      /\ ~StatAgain(i) /\ ~Embed(i) /\ ~Upsert(i)
  BY DEF NextFile, EndPass, ReadChunks, HashFile, StatAgain, Embed, Upsert, Keep, Leave, Go
<1> QED BY <1>5, <1>7, <1>8 DEF Work

(* A skipped file is indexed: a row that is not older than the file, or    *)
(* that has its hash, is of the present content and has the others beside  *)
(* it.                                                                     *)
THEOREM SkipsOnlyIndexed == ASSUME Orderly PROVE Spec => SkippedIsIndexed
<1>1. ASSUME IInv, [Next]_vars, NEW i \in Indexer,
             ipc[i] \in {"stat", "compare"}, ipc'[i] = "next"
      PROVE  Indexed(cur[i])
  <2> DEFINE f == cur[i]
  <2>1. f \in File /\ ipc \in [Indexer -> Step]
    BY <1>1 DEF IInv, TypeOK
  <2>2. content[f] # Gone => \E r \in RowsOf(f) : r.of = content[f]
    <3>1. CASE Stat(i)
      <4>1. content[f] = Gone \/ NotNewer(f)
        BY <1>1, <2>1, <3>1 DEF Stat, Keep, Go
      <4>2. ASSUME NEW r \in RowsOf(f), r.mod >= mtime[f] PROVE r.of = content[f]
        <5>1. r \in rows /\ r.file = f /\ RowOk(r)
          BY <1>1, <4>2 DEF IInv, RowsInv, RowsOf
        <5>2. r.mod \in Nat /\ mtime[f] \in Nat
          BY <1>1, <2>1, <5>1 DEF IInv, TypeOK, Row
        <5> QED BY <4>2, <5>1, <5>2 DEF RowOk
      <4> QED BY <4>1, <4>2 DEF NotNewer
    <3>2. CASE Compare(i)
      <4>1. \A r \in RowsOf(f) : r.hash = r.of /\ r.of \in Content
        BY <1>1 DEF IInv, RowsInv, RowOk, RowsOf, TypeOK, Row
      <4>2. RowsOf(f) # {}
        BY <1>1, <3>2 DEF Compare, IInv, DraftInv, DraftOk
      <4>3. content[f] \in {r.hash : r \in RowsOf(f)}
        BY <1>1, <2>1, <3>2, <4>1, <4>2, NullAssumption DEF Compare, Keep, Go
      <4> QED BY <4>1, <4>3
    <3> QED BY <1>1, <3>1, <3>2, DecidedBy
  <2> QED BY <1>1, <2>1, <2>2 DEF IInv, RowsInv, RowOk, RowsOf, Indexed, ChunksOf
<1>2. IInv /\ [Next]_vars =>
        [\A i \in Indexer :
           ipc[i] \in {"stat", "compare"} /\ ipc'[i] = "next" => Indexed(cur[i])]_vars
  BY <1>1
<1> QED BY <1>2, Initially, Inductive, PTL DEF Spec, SkippedIsIndexed

(* A file that is read again has something to add: its present content is  *)
(* in no row, because a row of it would not be older than the file.        *)
THEOREM ReadsOnlyWhatChanged == ASSUME Orderly PROVE Spec => ReadsOnlyChanged
<1>1. ASSUME IInv, [Next]_vars, NEW i \in Indexer,
             ipc[i] \in {"stat", "compare"}, ipc'[i] = "read",
             ChunksOf(cur[i]) # {}, Indexed(cur[i])
      PROVE  FALSE
  <2> DEFINE f == cur[i]
  <2>1. f \in File /\ ipc \in [Indexer -> Step]
    BY <1>1 DEF IInv, TypeOK
  <2>2. PICK r \in rows : r.file = f /\ r.of = content[f]
    BY <1>1 DEF Indexed, RowsOf
  <2>3. r.mod = mtime[f] /\ mtime[f] \in Nat
    BY <1>1, <2>1, <2>2 DEF IInv, TypeOK, RowsInv, RowOk
  <2>4. NotNewer(f)
    <3>1. r.mod >= mtime[f]
      BY <2>3
    <3> QED BY <2>2, <3>1 DEF NotNewer, RowsOf
  <2>5. CASE Stat(i)
    BY <1>1, <2>1, <2>4, <2>5 DEF Stat, Skip, Leave, Go
  <2>6. CASE Compare(i)
    BY <1>1, <2>4, <2>6 DEF Compare, IInv, DraftInv, DraftOk
  <2> QED BY <1>1, <2>5, <2>6, DecidedBy
<1>2. IInv /\ [Next]_vars =>
        [\A i \in Indexer :
           ipc[i] \in {"stat", "compare"} /\ ipc'[i] = "read" =>
             ChunksOf(cur[i]) = {} \/ ~Indexed(cur[i])]_vars
  BY <1>1
<1> QED BY <1>2, Initially, Inductive, PTL DEF Spec, ReadsOnlyChanged
=============================================================================
