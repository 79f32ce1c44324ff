--------------------------- MODULE RecordsProofs ---------------------------
(***************************************************************************)
(* What is kept beside the index, for any number of processes and any      *)
(* bounds: the chunks of a file, the notes, the reviews, the reminder, the *)
(* use that is made of the chunks, the configuration, the registry, the    *)
(* log of the guardrail, the settings of Claude Code, the transcript of a  *)
(* session with its readers, and its log with the report.                  *)
(* Each is proved of its own specification, and they hold of the modules   *)
(* together (with the cache of HookCacheProofs) because every step of      *)
(* MCRecords is a step of each of them or leaves it alone.                 *)
(***************************************************************************)
EXTENDS MCRecords, HookCacheProofs, FiniteSetTheorems, SequenceTheorems, WellFoundedInduction, TLAPS

-----------------------------------------------------------------------------
(* The chunks of a file.                                                   *)

(* While lines are gathered: the chunks made so far are before the one     *)
(* being made, every line with text is in one of them or in the buffer,    *)
(* and the buffer is within the limit or holds one line.                   *)
Gathering ==
  lineNum \in 1..Len(lineEnds) + 1 =>
    /\ startLine <= lineNum
    /\ bufLen > 0 => startLine < lineNum
    /\ \A i \in DOMAIN cuts : cuts[i].last < startLine
    /\ \A l \in 1..startLine - 1 : LineLength(l) > 0 => Covered(l)
    /\ bufLen = 0 => \A l \in startLine..lineNum - 1 : LineLength(l) = 0
    /\ bufLen <= MaxChunkSize \/ InOneLine(startLine, lineNum - 1)

Untouched == lineNum = 0 => cuts = <<>> /\ startLine = 1 /\ bufLen = 0

ChunkInv == ChunkTypeOK /\ Untouched /\ Gathering /\ ChunksCover

-----------------------------------------------------------------------------
(* The lengths of lines are what their ends say.                           *)
LEMMA LengthsAreNumbers ==
  ASSUME lineEnds \in Texts
  PROVE  /\ Len(lineEnds) \in Nat \ {0} /\ ContentLength \in Nat
         /\ \A l \in Lines : LineLength(l) \in Nat /\ LineLength(l) <= ContentLength
<1>1. /\ lineEnds \in Seq(Nat) /\ lineEnds # <<>>
      /\ \A i, j \in DOMAIN lineEnds : i < j => lineEnds[i] < lineEnds[j]
  BY ChunkerAssumption
<1>2. Len(lineEnds) \in Nat \ {0} /\ DOMAIN lineEnds = Lines
  BY <1>1, EmptySeq, LenProperties DEF Lines
<1>3. \A l \in Lines : lineEnds[l] \in Nat
  BY <1>1, ElementOfSeq DEF Lines
<1>4. Len(lineEnds) \in Lines
  BY <1>2 DEF Lines
<1>5. ASSUME NEW l \in Lines
      PROVE  LineLength(l) \in Nat /\ LineLength(l) <= ContentLength
  <2>1. lineEnds[l] <= ContentLength
    BY <1>1, <1>2, <1>3, <1>4 DEF Lines, ContentLength
  <2>2. CASE l = 1
    BY <1>3, <1>4, <2>1, <2>2 DEF LineLength, Lines, ContentLength
  <2>3. CASE l # 1
    <3>1. l - 1 \in Lines /\ l - 1 < l
      BY <1>2, <2>3 DEF Lines
    <3>2. lineEnds[l - 1] < lineEnds[l] /\ lineEnds[l - 1] \in Nat /\ lineEnds[l] \in Nat
      BY <1>1, <1>2, <1>3, <3>1
    <3> QED
      BY <1>3, <1>4, <2>1, <2>3, <3>2 DEF LineLength, ContentLength
  <2> QED
    BY <2>2, <2>3
<1> QED
  BY <1>2, <1>3, <1>4, <1>5 DEF ContentLength

(* What a chunk added at the end of the sequence changes.                  *)
LEMMA CutAppends ==
  ASSUME ChunkInv, NEW last \in startLine..Len(lineEnds),
         lineNum \in 1..Len(lineEnds) + 1, last = lineNum - 1, bufLen > 0,
         cuts' = Cut(last), lineEnds' = lineEnds
  PROVE  /\ cuts' \in Seq([first : Lines, last : Lines, size : Nat])
         /\ \A i \in DOMAIN cuts' : Fits(cuts'[i])
         /\ InOrder'
         /\ \A i \in DOMAIN cuts' : cuts'[i].last <= last
         /\ \A l \in 1..last : LineLength(l) > 0 => Covered(l)'
<1> DEFINE S == [first : Lines, last : Lines, size : Nat]
           new == [first |-> startLine, last |-> last, size |-> bufLen]
<1>1. /\ lineEnds \in Seq(Nat) /\ Len(lineEnds) \in Nat
      /\ startLine \in Lines /\ startLine \in Nat /\ bufLen \in Nat
      /\ cuts \in Seq(S)
  BY ChunkerAssumption DEF ChunkInv, ChunkTypeOK, Lines
<1>2. /\ new \in S
      /\ new.first = startLine /\ new.last = last /\ new.size = bufLen
  BY <1>1 DEF Lines
<1>3. cuts' = Append(cuts, new)
  BY DEF Cut
<1>4. \A e \in S : e.first \in Nat /\ e.last \in Nat
  BY <1>1 DEF Lines
<1> HIDE DEF S, new
<1>5. /\ Len(cuts) \in Nat /\ DOMAIN cuts = 1..Len(cuts)
      /\ DOMAIN cuts' = 1..Len(cuts) + 1
      /\ cuts'[Len(cuts) + 1] = new
      /\ \A i \in DOMAIN cuts : cuts'[i] = cuts[i] /\ cuts[i] \in S
      /\ cuts' \in Seq(S)
  <2>1. Len(cuts) \in Nat /\ DOMAIN cuts = 1..Len(cuts)
    BY <1>1, LenProperties
  <2>2. \A i \in DOMAIN cuts : cuts[i] \in S
    BY <1>1, ElementOfSeq, <2>1
  <2>3. /\ cuts' \in Seq(S) /\ Len(cuts') = Len(cuts) + 1
        /\ cuts'[Len(cuts) + 1] = new
        /\ \A i \in 1..Len(cuts) : cuts'[i] = cuts[i]
    <3>1. /\ Append(cuts, new) \in Seq(S) /\ Len(Append(cuts, new)) = Len(cuts) + 1
          /\ Append(cuts, new)[Len(cuts) + 1] = new
          /\ \A i \in 1..Len(cuts) : Append(cuts, new)[i] = cuts[i]
      BY <1>1, <1>2, AppendProperties
    <3> QED
      BY <3>1, <1>3, Zenon
  <2>4. DOMAIN cuts' = 1..Len(cuts')
    BY <2>3, LenProperties
  <2> QED
    BY <2>1, <2>2, <2>3, <2>4
<1>6. \A i \in DOMAIN cuts' : i \in DOMAIN cuts \/ i = Len(cuts) + 1
  BY <1>5
<1>7. \A i \in DOMAIN cuts : cuts[i].last < startLine /\ cuts[i].last \in Nat /\ cuts[i].first \in Nat
  BY <1>4, <1>5 DEF ChunkInv, Gathering
<1>8. \A i \in DOMAIN cuts' : Fits(cuts'[i])
  <2>1. Fits(new)
    BY <1>1, <1>2 DEF Fits, ChunkInv, Gathering
  <2>2. \A i \in DOMAIN cuts : Fits(cuts[i])
    BY DEF ChunkInv, ChunksCover
  <2> QED
    BY <2>1, <2>2, <1>5, <1>6
<1>9. InOrder'
  <2> SUFFICES ASSUME NEW i \in DOMAIN cuts', NEW j \in DOMAIN cuts', i < j
               PROVE  cuts'[i].last < cuts'[j].first
    BY DEF InOrder
  <2>1. i \in DOMAIN cuts
    BY <1>5
  <2>2. CASE j \in DOMAIN cuts
    BY <2>1, <2>2, <1>5 DEF ChunkInv, ChunksCover, InOrder
  <2>3. CASE j = Len(cuts) + 1
    BY <2>1, <2>3, <1>2, <1>5, <1>7
  <2> QED
    BY <2>2, <2>3, <1>6
<1>10. \A i \in DOMAIN cuts' : cuts'[i].last <= last
  <2> SUFFICES ASSUME NEW i \in DOMAIN cuts' PROVE cuts'[i].last <= last
    OBVIOUS
  <2>1. CASE i \in DOMAIN cuts
    BY <1>1, <1>5, <1>7, <2>1
  <2>2. CASE i = Len(cuts) + 1
    BY <1>1, <1>2, <1>5, <2>2
  <2> QED
    BY <2>1, <2>2, <1>6
<1>11. \A l \in 1..last : LineLength(l) > 0 => Covered(l)'
  <2> SUFFICES ASSUME NEW l \in 1..last, LineLength(l) > 0
               PROVE  \E i \in DOMAIN cuts' : l \in cuts'[i].first..cuts'[i].last
    BY DEF Covered
  <2>1. CASE l < startLine
    <3>1. Covered(l)
      BY <1>1, <2>1 DEF ChunkInv, Gathering
    <3> QED
      BY <3>1, <1>5 DEF Covered
  <2>2. CASE l >= startLine
    <3>1. l \in cuts'[Len(cuts) + 1].first..cuts'[Len(cuts) + 1].last
      BY <1>1, <1>2, <1>5, <2>2
    <3> QED
      BY <3>1, <1>5
  <2> QED
    BY <1>1, <2>1, <2>2
<1> QED
  BY <1>5, <1>8, <1>9, <1>10, <1>11 DEF S

LEMMA ReadFileKeeps == ChunkInv /\ ReadFile => ChunkInv'
<1> SUFFICES ASSUME ChunkInv, ReadFile PROVE ChunkInv'
  OBVIOUS
<1>1. /\ lineEnds \in Texts /\ cuts = <<>> /\ startLine = 1 /\ bufLen = 0
      /\ lineEnds' = lineEnds /\ startLine' = 1 /\ bufLen' = 0
  BY DEF ChunkInv, ChunkTypeOK, Untouched, ReadFile
<1>2. /\ Len(lineEnds) \in Nat \ {0} /\ ContentLength \in Nat
      /\ \A l \in Lines : LineLength(l) \in Nat /\ LineLength(l) <= ContentLength
  BY <1>1, LengthsAreNumbers
<1>3. CASE ContentLength > MaxChunkSize
  <2>1. lineNum' = 1 /\ cuts' = <<>>
    BY <1>1, <1>2, <1>3, ChunkerAssumption DEF ReadFile
  <2>2. ChunkTypeOK'
    BY <1>1, <1>2, <2>1 DEF ChunkTypeOK, Lines
  <2> QED
    BY <1>1, <1>2, <2>1, <2>2, ChunkerAssumption
       DEF ChunkInv, Untouched, Gathering, ChunksCover, InOrder, FileIsRead, InOneLine, Lines
<1>4. CASE ContentLength <= MaxChunkSize /\ ContentLength = 0
  <2>1. lineNum' = Len(lineEnds) + 2 /\ cuts' = <<>>
    BY <1>1, <1>4 DEF ReadFile
  <2>2. ChunkTypeOK'
    BY <1>1, <1>2, <2>1 DEF ChunkTypeOK, Lines
  <2>3. \A l \in Lines : ~(LineLength(l) > 0)
    BY <1>2, <1>4
  <2>4. ChunksCover'
    BY <1>1, <2>1, <2>3 DEF ChunksCover, InOrder, LineLength, Lines
  <2> QED
    BY <1>1, <1>2, <2>1, <2>2, <2>4 DEF ChunkInv, Untouched, Gathering
<1>5. CASE ContentLength <= MaxChunkSize /\ ContentLength # 0
  <2> DEFINE whole == [first |-> 1, last |-> Len(lineEnds), size |-> ContentLength]
  <2>1. lineNum' = Len(lineEnds) + 2 /\ cuts' = <<whole>>
    BY <1>1, <1>5 DEF ReadFile
  <2>2. /\ whole \in [first : Lines, last : Lines, size : Nat]
        /\ DOMAIN cuts' = {1} /\ cuts'[1] = whole
    BY <1>2, <2>1 DEF Lines
  <2>3. ChunkTypeOK'
    BY <1>1, <1>2, <2>1, <2>2 DEF ChunkTypeOK, Lines
  <2>4. Fits(whole)
    BY <1>2, <1>5 DEF Fits
  <2>5. ChunksCover'
    <3>1. \A i \in DOMAIN cuts' : Fits(cuts[i])'
      BY <1>1, <2>2, <2>4 DEF Fits, InOneLine, LineLength
    <3>2. InOrder'
      BY <2>2 DEF InOrder
    <3>3. \A l \in Lines' : Covered(l)'
      BY <1>1, <2>2 DEF Covered, Lines
    <3>4. (FileIsRead => \A l \in Lines : LineLength(l) > 0 => Covered(l))'
      BY <3>3
    <3> QED
      BY <3>1, <3>2, <3>4 DEF ChunksCover
  <2> QED
    BY <1>1, <1>2, <2>1, <2>3, <2>5 DEF ChunkInv, Untouched, Gathering
<1> QED
  BY <1>2, <1>3, <1>4, <1>5, ChunkerAssumption

LEMMA AddLineKeeps == ChunkInv /\ AddLine => ChunkInv'
<1> SUFFICES ASSUME ChunkInv, AddLine PROVE ChunkInv'
  OBVIOUS
<1> DEFINE length == LineLength(lineNum)
<1>1. /\ lineEnds \in Texts /\ lineNum \in Lines /\ startLine \in Lines /\ bufLen \in Nat
      /\ cuts \in Seq([first : Lines, last : Lines, size : Nat])
      /\ lineEnds' = lineEnds /\ lineNum' = lineNum + 1
  BY DEF ChunkInv, ChunkTypeOK, AddLine
<1>2. /\ Len(lineEnds) \in Nat \ {0} /\ length \in Nat
      /\ lineNum \in 1..Len(lineEnds) + 1 /\ lineNum \in Nat /\ startLine \in Nat
      /\ MaxChunkSize \in Nat
  BY <1>1, LengthsAreNumbers, ChunkerAssumption DEF Lines
<1>3. Gathering /\ ChunksCover
  BY DEF ChunkInv
<1>4. Untouched' /\ ~FileIsRead'
  BY <1>1, <1>2 DEF Untouched, FileIsRead, Lines
<1>5. CASE Full(bufLen, length)
  <2>1. /\ cuts' = Cut(lineNum - 1) /\ startLine' = lineNum /\ bufLen' = length
        /\ bufLen > 0
    BY <1>5 DEF AddLine, Full
  <2>2. lineNum - 1 \in startLine..Len(lineEnds)
    BY <1>1, <1>2, <1>3, <2>1 DEF Gathering, Lines
  <2>3. /\ cuts' \in Seq([first : Lines, last : Lines, size : Nat])
        /\ \A i \in DOMAIN cuts' : Fits(cuts'[i])
        /\ InOrder'
        /\ \A i \in DOMAIN cuts' : cuts'[i].last <= lineNum - 1
        /\ \A l \in 1..lineNum - 1 : LineLength(l) > 0 => Covered(l)'
    BY <1>1, <1>2, <2>1, <2>2, CutAppends
  <2>4. ChunkTypeOK'
    BY <1>1, <1>2, <2>1, <2>3 DEF ChunkTypeOK, Lines
  <2>5. \A i \in DOMAIN cuts' : cuts'[i].last < lineNum
    <3>1. \A i \in DOMAIN cuts' : cuts'[i] \in [first : Lines, last : Lines, size : Nat]
      BY <2>3, LenProperties, ElementOfSeq
    <3> QED
      BY <1>2, <2>3, <3>1 DEF Lines
  <2>6. InOneLine(lineNum, lineNum) /\ (length = 0 => \A l \in lineNum..lineNum : LineLength(l) = 0)
    BY <1>2 DEF InOneLine
  <2>7. Gathering'
    BY <1>1, <1>2, <2>1, <2>3, <2>5, <2>6 DEF Gathering, InOneLine, LineLength
  <2>8. ChunksCover'
    BY <1>1, <1>4, <2>3 DEF ChunksCover, Fits, InOneLine, LineLength
  <2> QED
    BY <1>4, <2>4, <2>7, <2>8 DEF ChunkInv
<1>6. CASE ~Full(bufLen, length)
  <2>1. /\ cuts' = cuts /\ startLine' = startLine
        /\ bufLen' = IF bufLen = 0 THEN length ELSE bufLen + 1 + length
    BY <1>6 DEF AddLine
  <2>2. ChunkTypeOK'
    BY <1>1, <1>2, <2>1 DEF ChunkTypeOK, Lines
  <2>3. bufLen' = 0 => \A l \in startLine..lineNum : LineLength(l) = 0
    BY <1>1, <1>2, <1>3, <2>1 DEF Gathering
  <2>4. bufLen' <= MaxChunkSize \/ InOneLine(startLine, lineNum)
    <3>1. CASE bufLen = 0
      <4>1. \A l \in startLine..lineNum - 1 : ~(LineLength(l) > 0)
        BY <1>2, <1>3, <3>1 DEF Gathering
      <4>2. \A l \in startLine..lineNum : LineLength(l) > 0 => l = lineNum
        BY <1>2, <4>1
      <4> QED
        BY <4>2 DEF InOneLine
    <3>2. CASE bufLen > 0
      BY <1>1, <1>2, <1>6, <2>1, <3>2 DEF Full
    <3> QED
      BY <1>1, <3>1, <3>2
  <2>5. startLine <= lineNum /\ startLine < lineNum + 1
    BY <1>2, <1>3 DEF Gathering
  <2>6. Gathering'
    <3>1. \A l \in 1..startLine - 1 : LineLength(l) > 0 => Covered(l)'
      BY <1>2, <1>3, <2>1 DEF Gathering, Covered
    <3>2. \A i \in DOMAIN cuts' : cuts'[i].last < startLine
      BY <1>2, <1>3, <2>1 DEF Gathering
    <3>3. lineNum' - 1 = lineNum
      BY <1>1, <1>2
    <3>4. (bufLen = 0)' => (\A l \in startLine..lineNum - 1 : LineLength(l) = 0)'
      BY <1>1, <2>1, <2>3, <3>3 DEF LineLength
    <3>5. (bufLen <= MaxChunkSize)' \/ InOneLine(startLine, lineNum - 1)'
      BY <1>1, <2>1, <2>4, <3>3 DEF InOneLine, LineLength
    <3>6. (\A l \in 1..startLine - 1 : LineLength(l) > 0 => Covered(l))'
      BY <1>1, <2>1, <3>1 DEF LineLength
    <3>7. startLine' <= lineNum' /\ (bufLen' > 0 => startLine' < lineNum')
      BY <1>1, <1>2, <2>1, <2>5
    <3>8. \A i \in DOMAIN cuts' : cuts'[i].last < startLine'
      BY <2>1, <3>2
    <3> QED
      BY <2>1, <3>4, <3>5, <3>6, <3>7, <3>8 DEF Gathering
  <2>7. ChunksCover'
    BY <1>1, <1>3, <1>4, <2>1 DEF ChunksCover, Fits, InOneLine, LineLength, InOrder
  <2> QED
    BY <1>4, <2>2, <2>6, <2>7 DEF ChunkInv
<1> QED
  BY <1>5, <1>6

LEMMA FlushRestKeeps == ChunkInv /\ FlushRest => ChunkInv'
<1> SUFFICES ASSUME ChunkInv, FlushRest PROVE ChunkInv'
  OBVIOUS
<1> DEFINE n == Len(lineEnds)
<1>1. /\ lineEnds \in Texts /\ startLine \in Lines /\ bufLen \in Nat
      /\ lineNum = n + 1 /\ lineNum' = n + 2
      /\ lineEnds' = lineEnds /\ startLine' = startLine /\ bufLen' = bufLen
  BY DEF ChunkInv, ChunkTypeOK, FlushRest
<1>2. /\ n \in Nat \ {0} /\ startLine \in Nat /\ lineNum \in 1..n + 1
      /\ lineNum - 1 = n
  BY <1>1, LengthsAreNumbers DEF Lines
<1>3. Gathering /\ ChunksCover
  BY DEF ChunkInv
<1>4. Untouched' /\ Gathering'
  BY <1>1, <1>2 DEF Untouched, Gathering
<1>5. /\ cuts' \in Seq([first : Lines, last : Lines, size : Nat])
      /\ \A i \in DOMAIN cuts' : Fits(cuts'[i])
      /\ InOrder'
      /\ \A l \in 1..n : LineLength(l) > 0 => Covered(l)'
  <2>1. CASE bufLen > 0
    <3>1. n \in startLine..Len(lineEnds) /\ cuts' = Cut(n)
      BY <1>1, <1>2, <1>3, <2>1 DEF Gathering, FlushRest
    <3> QED
      BY <1>1, <1>2, <2>1, <3>1, CutAppends
  <2>2. CASE bufLen = 0
    <3>1. cuts' = cuts
      BY <2>2 DEF FlushRest
    <3>2. \A l \in startLine..n : ~(LineLength(l) > 0)
      BY <1>2, <1>3, <2>2 DEF Gathering
    <3>3. \A l \in 1..startLine - 1 : LineLength(l) > 0 => Covered(l)
      BY <1>2, <1>3 DEF Gathering
    <3>4. \A l \in 1..n : LineLength(l) > 0 => Covered(l)'
      BY <1>2, <3>1, <3>2, <3>3 DEF Covered
    <3>5. cuts \in Seq([first : Lines, last : Lines, size : Nat])
      BY DEF ChunkInv, ChunkTypeOK
    <3> QED
      BY <1>3, <3>1, <3>4, <3>5 DEF ChunksCover, InOrder
  <2> QED
    BY <1>1, <2>1, <2>2
<1>6. ChunkTypeOK'
  BY <1>1, <1>2, <1>5 DEF ChunkTypeOK, Lines
<1>7. ChunksCover'
  BY <1>1, <1>5 DEF ChunksCover, Fits, InOneLine, LineLength, Lines
<1> QED
  BY <1>4, <1>6, <1>7 DEF ChunkInv

LEMMA ChunkInitHolds == ChunkInit => ChunkInv
<1> SUFFICES ASSUME ChunkInit PROVE ChunkInv
  OBVIOUS
<1>1. /\ lineEnds \in Texts /\ lineNum = 0 /\ startLine = 1 /\ bufLen = 0
      /\ cuts = <<>> /\ Len(lineEnds) \in Nat \ {0}
  BY LengthsAreNumbers DEF ChunkInit
<1> QED
  BY <1>1 DEF ChunkInv, ChunkTypeOK, Untouched, Gathering, ChunksCover,
              InOrder, FileIsRead, Lines

LEMMA ChunkStutterKeeps == ChunkInv /\ UNCHANGED chunkVars => ChunkInv'
  BY DEF ChunkInv, ChunkTypeOK, Untouched, Gathering, ChunksCover, InOrder, Fits,
         InOneLine, LineLength, FileIsRead, Lines, Covered, chunkVars

LEMMA ChunkInvHolds == ChunkSpec => []ChunkInv
<1>1. ChunkInv /\ [ChunkNext]_chunkVars => ChunkInv'
  BY ReadFileKeeps, AddLineKeeps, FlushRestKeeps, ChunkStutterKeeps DEF ChunkNext
<1> QED
  BY <1>1, ChunkInitHolds, PTL DEF ChunkSpec

-----------------------------------------------------------------------------
(* The chunks of a file are in order, with ranges of their own, within the *)
(* limit but for one line that is longer, and hold every line with text in *)
(* it, whatever the file and MaxChunkSize (chunkFile).                     *)
THEOREM ChunksCoverTheFile == ChunkSpec => []ChunksCover
<1>1. ChunkInv => ChunksCover
  BY DEF ChunkInv
<1> QED
  BY <1>1, ChunkInvHolds, PTL

-----------------------------------------------------------------------------
(* The notes of a user.                                                    *)

(* A note that was shown by a process alone is not younger than the row,   *)
(* the clock, or whoever is at work on its key.                            *)
NotesAreBehind ==
  \A n \in notes : n.alone =>
    /\ n.now <= tick /\ n.now <= suppression[n.key]
    /\ \A h \in Busy(n.key) : n.now <= noter[h].now

AloneIsAlone ==
  \A h \in Noter : noter[h].pc # "idle" /\ noter[h].alone => Busy(noter[h].key) = {h}

NoLaterThanNow == \A h \in Noter : noter[h].pc # "idle" => noter[h].now \in 1..tick

(* What the query found still holds for a process that is alone. *)
WindowIsOver ==
  \A h \in Noter : noter[h].pc = "insert" /\ noter[h].alone =>
    \A n \in notes : n.key = noter[h].key /\ n.alone => noter[h].now - n.now >= NoteWindow

NoteInv == NoteTypeOK /\ NotesAreBehind /\ AloneIsAlone /\ NoLaterThanNow /\ WindowIsOver

LEMMA NoteInvStep == NoteInv /\ [NoteNext]_noteVars => NoteInv'
<1> SUFFICES ASSUME NoteInv, [NoteNext]_noteVars PROVE NoteInv'
  OBVIOUS
<1> USE WindowAssumption
<1>a. IdleNoter.key \in NoteKey
  BY DEF IdleNoter
<1>b. IdleNoter \in [pc : {"idle", "query", "insert"}, key : NoteKey,
                     now : 0..MaxTick, alone : BOOLEAN]
  BY <1>a DEF IdleNoter
<1>1. ASSUME NEW h \in Noter, NEW k \in NoteKey, ShouldEmitTierB(h, k) PROVE NoteInv'
  <2> USE <1>1 DEF ShouldEmitTierB, NoteInv
  <2>0. /\ noter[h].pc = "idle" /\ UNCHANGED <<tick, suppression, notes>>
        /\ noter'[h] = [pc |-> "query", key |-> k, now |-> tick, alone |-> Busy(k) = {}]
        /\ \A x \in Noter \ {h} :
             noter'[x] = IF x \in Busy(k) THEN [noter[x] EXCEPT !.alone = FALSE] ELSE noter[x]
    OBVIOUS
  <2>1. NoteTypeOK'
    <3>1. \A x \in Noter : noter'[x] \in [pc : {"idle", "query", "insert"}, key : NoteKey,
                                       now : 0..MaxTick, alone : BOOLEAN]
      <4> TAKE x \in Noter
      <4>1. CASE x = h
        <5>1. tick \in 0..MaxTick /\ (Busy(k) = {}) \in BOOLEAN
          BY DEF NoteTypeOK
        <5> QED
          BY <2>0, <4>1, <5>1
      <4>2. CASE x # h
        BY <2>0, <4>2 DEF NoteTypeOK
      <4> QED
        BY <4>1, <4>2
    <3>2. noter' = [x \in Noter |-> noter'[x]]
      OBVIOUS
    <3>3. noter' \in [Noter -> [pc : {"idle", "query", "insert"}, key : NoteKey,
                               now : 0..MaxTick, alone : BOOLEAN]]
      BY <3>1, <3>2
    <3> QED
      BY <2>0, <3>3 DEF NoteTypeOK
  <2>2. \A x \in Noter \ {h} :
          /\ noter'[x].pc = noter[x].pc /\ noter'[x].key = noter[x].key /\ noter'[x].now = noter[x].now
          /\ noter'[x].alone => noter[x].alone /\ x \notin Busy(k)
    BY <2>0 DEF NoteTypeOK
  <2>3. \A j \in NoteKey : Busy(j)' = IF j = k THEN Busy(k) \cup {h} ELSE Busy(j)
    BY <2>0, <2>2 DEF Busy
  <2>4. NotesAreBehind'
    <3> SUFFICES ASSUME NEW n \in notes, n.alone
                 PROVE  /\ n.now <= tick /\ n.now <= suppression[n.key]
                        /\ \A x \in Busy(n.key)' : n.now <= noter'[x].now
      BY <2>0 DEF NotesAreBehind
    <3>1. n.now <= tick /\ n.now <= suppression[n.key] /\ n.key \in NoteKey
      BY DEF NotesAreBehind, NoteTypeOK
    <3>2. ASSUME NEW x \in Busy(n.key)' PROVE n.now <= noter'[x].now
      <4>1. CASE x = h
        BY <2>0, <3>1, <4>1
      <4>2. CASE x # h
        <5>1. x \in Busy(n.key) /\ noter'[x].now = noter[x].now
          BY <2>2, <4>2 DEF Busy
        <5> QED
          BY <5>1 DEF NotesAreBehind
      <4> QED
        BY <4>1, <4>2
    <3> QED
      BY <3>1, <3>2
  <2>5. AloneIsAlone'
    BY <2>0, <2>1, <2>2, <2>3 DEF AloneIsAlone, NoteTypeOK, Busy
  <2>6. NoLaterThanNow' /\ WindowIsOver'
    BY <2>0, <2>2 DEF NoLaterThanNow, WindowIsOver, NoteTypeOK
  <2> QED
    BY <2>1, <2>4, <2>5, <2>6
<1>2. ASSUME NEW h \in Noter, QueryLast(h) PROVE NoteInv'
  <2>1. CASE Suppressed(noter[h].key, noter[h].now)
    BY <1>a, <1>2, <2>1 DEF QueryLast, IdleNoter, NoteInv, NoteTypeOK, NotesAreBehind, AloneIsAlone,
       NoLaterThanNow, WindowIsOver, Busy
  <2>2. CASE ~Suppressed(noter[h].key, noter[h].now)
    BY <1>2, <2>2 DEF QueryLast, NoteInv, NoteTypeOK, NotesAreBehind, AloneIsAlone,
       NoLaterThanNow, WindowIsOver, Busy, Suppressed
  <2> QED
    BY <2>1, <2>2
<1>3. ASSUME NEW h \in Noter, InsertLast(h) PROVE NoteInv'
  <2> DEFINE k == noter[h].key
             m == [key |-> k, now |-> noter[h].now, alone |-> noter[h].alone]
  <2>1. /\ noter[h].pc = "insert" /\ UNCHANGED tick /\ notes' = notes \cup {m}
        /\ suppression' = [suppression EXCEPT ![k] = noter[h].now]
        /\ noter' = [noter EXCEPT ![h] = IdleNoter]
    BY <1>3 DEF InsertLast, Show
  <2>2. /\ k \in NoteKey /\ noter[h].now \in 1..tick /\ noter[h].now \in 1..MaxTick
        /\ m \in [key : NoteKey, now : 1..MaxTick, alone : BOOLEAN]
    BY <2>1 DEF NoteInv, NoteTypeOK, NoLaterThanNow
  <2>3. NoteTypeOK'
    BY <1>a, <2>1, <2>2 DEF NoteInv, NoteTypeOK, IdleNoter
  <2>4. \A j \in NoteKey : Busy(j)' = Busy(j) \ {h}
    BY <2>1 DEF Busy, NoteInv, NoteTypeOK, IdleNoter
  <2>5. m.alone => Busy(k) = {h}
    BY <2>1 DEF NoteInv, AloneIsAlone
  <2>6. NotesAreBehind'
    <3> SUFFICES ASSUME NEW n \in notes', n.alone
                 PROVE  /\ n.now <= tick /\ n.now <= suppression'[n.key]
                        /\ \A x \in Busy(n.key)' : n.now <= noter'[x].now
      BY <2>1 DEF NotesAreBehind
    <3>1. CASE n = m
      BY <2>1, <2>2, <2>4, <2>5, <3>1 DEF NoteInv, NoteTypeOK
    <3>2. CASE n \in notes
      <4>1. n.key \in NoteKey /\ n.now <= tick /\ n.now <= suppression[n.key]
            /\ \A x \in Busy(n.key) : n.now <= noter[x].now
        BY <3>2 DEF NoteInv, NoteTypeOK, NotesAreBehind
      <4>2. n.key = k => h \in Busy(n.key)
        BY <2>1 DEF Busy
      <4>3. \A x \in Noter \ {h} : noter'[x] = noter[x]
        BY <2>1 DEF NoteInv, NoteTypeOK
      <4>4. \A x \in Busy(n.key)' : x \in Noter \ {h} /\ x \in Busy(n.key)
        BY <2>4, <4>1 DEF Busy
      <4>5. suppression'[n.key] = IF n.key = k THEN noter[h].now ELSE suppression[n.key]
        BY <2>1, <4>1 DEF NoteInv, NoteTypeOK
      <4> QED
        BY <4>1, <4>2, <4>3, <4>4, <4>5
    <3> QED
      BY <2>1, <3>1, <3>2
  <2>7. AloneIsAlone' /\ NoLaterThanNow'
    BY <2>1, <2>4 DEF AloneIsAlone, NoLaterThanNow, NoteInv, NoteTypeOK, IdleNoter, Busy
  <2>8. WindowIsOver'
    <3> SUFFICES ASSUME NEW x \in Noter, noter'[x].pc = "insert", noter'[x].alone,
                        NEW n \in notes', n.key = noter'[x].key, n.alone
                 PROVE  noter'[x].now - n.now >= NoteWindow
      BY DEF WindowIsOver
    <3>1. x # h /\ noter'[x] = noter[x]
      BY <2>1 DEF NoteInv, NoteTypeOK, IdleNoter
    <3>2. n # m
      BY <2>1, <2>5, <3>1 DEF Busy
    <3> QED
      BY <2>1, <3>1, <3>2 DEF NoteInv, WindowIsOver
  <2> QED
    BY <2>3, <2>6, <2>7, <2>8 DEF NoteInv
<1>4. ASSUME NEW h \in Noter, StoreError(h) PROVE NoteInv'
  <2>1. /\ UNCHANGED <<tick, suppression>> /\ noter' = [noter EXCEPT ![h] = IdleNoter]
        /\ notes' = notes \cup {[key |-> noter[h].key, now |-> noter[h].now, alone |-> FALSE]}
        /\ noter[h].pc # "idle"
    BY <1>4 DEF StoreError, Show
  <2>2. [key |-> noter[h].key, now |-> noter[h].now, alone |-> FALSE]
          \in [key : NoteKey, now : 1..MaxTick, alone : BOOLEAN]
    BY <2>1 DEF NoteInv, NoteTypeOK, NoLaterThanNow
  <2>3. NoteTypeOK'
    BY <1>b, <2>1, <2>2 DEF NoteInv, NoteTypeOK
  <2>4. \A n \in notes' : n.alone => n \in notes
    BY <2>1
  <2>5. /\ \A x \in Noter : noter'[x].pc # "idle" => noter'[x] = noter[x]
        /\ \A j \in NoteKey : Busy(j)' \subseteq Busy(j)
    BY <2>1 DEF NoteInv, NoteTypeOK, IdleNoter, Busy
  <2>6. NotesAreBehind'
    BY <2>1, <2>4, <2>5 DEF NoteInv, NoteTypeOK, NotesAreBehind, Busy
  <2>7. AloneIsAlone'
    BY <2>1, <2>5 DEF NoteInv, NoteTypeOK, AloneIsAlone, Busy
  <2>8. NoLaterThanNow' /\ WindowIsOver'
    BY <2>1, <2>4, <2>5 DEF NoteInv, NoLaterThanNow, WindowIsOver
  <2> QED
    BY <2>3, <2>6, <2>7, <2>8 DEF NoteInv
<1>5. ASSUME NEW h \in Noter, NoterKilled(h) PROVE NoteInv'
  BY <1>a, <1>5 DEF NoterKilled, IdleNoter, NoteInv, NoteTypeOK, NotesAreBehind, AloneIsAlone,
     NoLaterThanNow, WindowIsOver, Busy
<1>6. CASE Tock
  BY <1>6 DEF Tock, NoteInv, NoteTypeOK, NotesAreBehind, AloneIsAlone, NoLaterThanNow, WindowIsOver, Busy
<1>7. CASE UNCHANGED noteVars
  BY <1>7 DEF noteVars, NoteInv, NoteTypeOK, NotesAreBehind, AloneIsAlone, NoLaterThanNow,
     WindowIsOver, Busy
<1> QED
  BY <1>1, <1>2, <1>3, <1>4, <1>5, <1>6, <1>7 DEF NoteNext

LEMMA NoteInvInit == NoteInit => NoteInv
BY WindowAssumption DEF NoteInit, NoteInv, NoteTypeOK, NotesAreBehind, AloneIsAlone, NoLaterThanNow,
                        WindowIsOver, IdleNoter

(* A user sees the same note twice within the window only if hooks asked   *)
(* at the same time or the store failed (ShouldEmitTierB).                 *)
THEOREM NotesAreSpaced == NoteSpec => NoteOncePerWindow
<1> DEFINE Spaced ==
      \A h \in Noter : InsertLast(h) /\ noter[h].alone =>
        \A n \in notes : n.key = noter[h].key /\ n.alone => noter[h].now - n.now >= NoteWindow
<1>1. NoteInv => Spaced
  BY DEF NoteInv, WindowIsOver, InsertLast
<1> QED
  BY <1>1, NoteInvInit, NoteInvStep, PTL DEF NoteSpec, NoteOncePerWindow

-----------------------------------------------------------------------------
(* The review of the last session.                                         *)

(* A review that was shown, or is about to be, is not in the file any      *)
(* more unless it is stuck there, and its number is never given again.     *)
ShownIsUnlinked ==
  /\ review.n <= reviews
  /\ \A n \in told : n <= reviews /\ (n # review.n \/ n \in stuck)
  /\ \A s \in Starter : starter[s].pc = "show" =>
       starter[s].got.n # review.n \/ starter[s].got.n < 1 \/ starter[s].got.n \in stuck

(* What a start has read was not shown before the start came, unless stuck. *)
ReadIsUnseen ==
  \A s \in Starter :
    /\ starter[s].before \subseteq told /\ starter[s].got.n <= reviews
    /\ starter[s].pc \in {"unlink", "show"} => starter[s].got.n \notin starter[s].before \ stuck

ReviewInv == ReviewTypeOK /\ ShownIsUnlinked /\ ReadIsUnseen

LEMMA ReviewTypes == ReviewTypeOK /\ [ReviewNext]_reviewVars => ReviewTypeOK'
<1> SUFFICES ASSUME ReviewTypeOK, [ReviewNext]_reviewVars PROVE ReviewTypeOK'
  OBVIOUS
<1> USE ReviewAssumption DEF ReviewTypeOK
<1>1. ASSUME NEW e \in Ender, EndFires(e) \/ EndOverran(e) PROVE ReviewTypeOK'
  BY <1>1 DEF EndFires, EndOverran
<1>2. ASSUME NEW e \in Ender, TruncateReview(e) PROVE ReviewTypeOK'
  BY <1>2 DEF TruncateReview, Review
<1>3. ASSUME NEW e \in Ender, WriteLastSessionReview(e) PROVE ReviewTypeOK'
  BY <1>3 DEF WriteLastSessionReview, Review
<1>4. ASSUME NEW s \in Starter, StartFires(s) PROVE ReviewTypeOK'
  <2>1. NoReview \in Review
    BY DEF NoReview, Review
  <2>2. [pc |-> "gates", got |-> NoReview, before |-> told]
          \in [pc : {"idle", "gates", "unlink", "show"}, got : Review, before : SUBSET (1..MaxReviews)]
    BY <2>1
  <2> DEFINE fired == [pc |-> "gates", got |-> NoReview, before |-> told]
  <2>4. starter' = [starter EXCEPT ![s] = fired] /\ UNCHANGED <<day, review, reviews, ender, told, stuck>>
    BY <1>4 DEF StartFires
  <2> HIDE DEF fired
  <2>5. starter' \in [Starter -> [pc : {"idle", "gates", "unlink", "show"}, got : Review,
                                 before : SUBSET (1..MaxReviews)]]
    BY <2>2, <2>4 DEF fired
  <2> QED
    BY <2>4, <2>5
<1>5. ASSUME NEW s \in Starter, ReadReview(s) PROVE ReviewTypeOK'
  BY <1>5 DEF ReadReview
<1>6. ASSUME NEW s \in Starter, UnlinkReview(s) PROVE ReviewTypeOK'
  BY <1>6 DEF UnlinkReview, Review, NoReview
<1>7. ASSUME NEW s \in Starter, ShowReview(s) \/ StartGivesUp(s) PROVE ReviewTypeOK'
  <2>1. IdleStarter \in
          [pc : {"idle", "gates", "unlink", "show"}, got : Review, before : SUBSET (1..MaxReviews)]
    BY DEF IdleStarter, NoReview, Review
  <2>2. starter' = [starter EXCEPT ![s] = IdleStarter] /\ UNCHANGED <<day, review, reviews, ender, stuck>>
    BY <1>7 DEF ShowReview, StartGivesUp
  <2>3. Shows(s) => starter[s].got.n \in 1..MaxReviews
    <3>1. starter[s].got \in Review
      OBVIOUS
    <3> QED
      BY <3>1 DEF Shows, Review
  <2>4. told' \subseteq 1..MaxReviews
    BY <1>7, <2>3 DEF ShowReview, StartGivesUp
  <2>5. starter' \in [Starter -> [pc : {"idle", "gates", "unlink", "show"}, got : Review,
                                 before : SUBSET (1..MaxReviews)]]
    BY <2>1, <2>2
  <2> QED
    BY <2>2, <2>4, <2>5
<1>8. CASE NextDay \/ UNCHANGED reviewVars
  <2>1. day' \in 0..MaxDay /\ UNCHANGED <<review, reviews, ender, starter, told, stuck>>
    BY <1>8 DEF NextDay, reviewVars
  <2> QED
    BY <2>1
<1> QED
  BY <1>1, <1>2, <1>3, <1>4, <1>5, <1>6, <1>7, <1>8 DEF ReviewNext

LEMMA ReviewInvStep == ReviewInv /\ [ReviewNext]_reviewVars => ReviewInv'
<1> SUFFICES ASSUME ReviewInv, [ReviewNext]_reviewVars PROVE ShownIsUnlinked' /\ ReadIsUnseen'
  BY ReviewTypes DEF ReviewInv
<1>a. /\ review.n \in Int /\ reviews \in Nat /\ told \subseteq Nat
      /\ starter \in [Starter -> [pc : {"idle", "gates", "unlink", "show"}, got : Review,
                                  before : SUBSET (1..MaxReviews)]]
      /\ \A s \in Starter : starter[s].got.n \in Int
  BY ReviewAssumption DEF ReviewInv, ReviewTypeOK, Review
<1>b. ShownIsUnlinked /\ ReadIsUnseen
  BY DEF ReviewInv
<1>1. ASSUME NEW e \in Ender, TruncateReview(e) PROVE ShownIsUnlinked' /\ ReadIsUnseen'
  <2>1. review'.n = 0 /\ UNCHANGED <<reviews, starter, told, stuck>>
    BY <1>1 DEF TruncateReview
  <2>2. told \subseteq 1..MaxReviews
    BY DEF ReviewInv, ReviewTypeOK
  <2> QED
    BY <1>a, <1>b, <2>1, <2>2, ReviewAssumption DEF ShownIsUnlinked, ReadIsUnseen
<1>2. ASSUME NEW e \in Ender, WriteLastSessionReview(e) PROVE ShownIsUnlinked' /\ ReadIsUnseen'
  <2>1. CASE UNCHANGED <<review, reviews>>
    BY <1>2, <1>b, <2>1 DEF WriteLastSessionReview, ShownIsUnlinked, ReadIsUnseen
  <2>2. CASE reviews' = reviews + 1 /\ review'.n \in {0, reviews'}
    <3>1. UNCHANGED <<starter, told, stuck>>
      BY <1>2 DEF WriteLastSessionReview
    <3>2. told \subseteq 1..MaxReviews
      BY DEF ReviewInv, ReviewTypeOK
    <3> QED
      BY <1>a, <1>b, <2>2, <3>1, <3>2, ReviewAssumption DEF ShownIsUnlinked, ReadIsUnseen
  <2> QED
    BY <1>2, <2>1, <2>2 DEF WriteLastSessionReview
<1>3. ASSUME NEW s \in Starter, StartFires(s) PROVE ShownIsUnlinked' /\ ReadIsUnseen'
  <2>1. /\ starter'[s] = [pc |-> "gates", got |-> NoReview, before |-> told]
        /\ \A t \in Starter \ {s} : starter'[t] = starter[t]
        /\ UNCHANGED <<review, reviews, told, stuck>>
    BY <1>3, <1>a DEF StartFires
  <2> QED
    BY <1>a, <1>b, <2>1 DEF ShownIsUnlinked, ReadIsUnseen, NoReview
<1>4. ASSUME NEW s \in Starter, ReadReview(s) PROVE ShownIsUnlinked' /\ ReadIsUnseen'
  <2>1. /\ starter'[s].pc = "unlink" /\ starter'[s].got = review
        /\ starter'[s].before = starter[s].before
        /\ \A t \in Starter \ {s} : starter'[t] = starter[t]
        /\ UNCHANGED <<review, reviews, told, stuck>>
    BY <1>4, <1>a DEF ReadReview
  <2> QED
    BY <1>a, <1>b, <2>1 DEF ShownIsUnlinked, ReadIsUnseen
<1>5. ASSUME NEW s \in Starter, UnlinkReview(s) PROVE ShownIsUnlinked' /\ ReadIsUnseen'
  <2>1. /\ starter[s].pc = "unlink"
        /\ \A t \in Starter : /\ starter'[t].got = starter[t].got
                              /\ starter'[t].before = starter[t].before
                              /\ t # s => starter'[t] = starter[t]
        /\ UNCHANGED <<reviews, told>>
    BY <1>5, <1>a DEF UnlinkReview
  <2>2. told \subseteq 1..MaxReviews
    BY DEF ReviewInv, ReviewTypeOK
  <2>3. stuck \subseteq stuck'
    BY <1>5 DEF UnlinkReview
  <2>4. ShownIsUnlinked'
    <3>1. CASE review'.n = -1
      <4>1. \A t \in Starter : starter'[t].got.n # -1 \/ starter'[t].got.n < 1
        BY <1>a, <2>1
      <4>2. \A n \in told : n <= reviews /\ n # -1
        BY <1>b, <2>2, ReviewAssumption DEF ShownIsUnlinked
      <4> QED
        BY <1>a, <2>1, <3>1, <4>1, <4>2 DEF ShownIsUnlinked
    <3>2. CASE review' = review /\ stuck' = stuck \cup ({starter[s].got.n} \cap 1..MaxReviews)
      <4>1. starter'[s].got.n < 1 \/ starter'[s].got.n \in stuck'
        BY <1>a, <2>1, <3>2 DEF ReviewInv, ReviewTypeOK, Review
      <4> QED
        BY <1>b, <2>1, <2>3, <3>2, <4>1 DEF ShownIsUnlinked
    <3> QED
      BY <1>5, <3>1, <3>2 DEF UnlinkReview, NoReview
  <2>5. \A t \in Starter : starter'[t].pc \in {"unlink", "show"} => starter[t].pc \in {"unlink", "show"}
    BY <2>1
  <2>6. ReadIsUnseen'
    BY <1>b, <2>1, <2>3, <2>5 DEF ReadIsUnseen
  <2> QED
    BY <2>4, <2>6
<1>6. ASSUME NEW s \in Starter, ShowReview(s) PROVE ShownIsUnlinked' /\ ReadIsUnseen'
  <2>1. /\ starter[s].pc = "show" /\ starter'[s] = IdleStarter
        /\ \A t \in Starter \ {s} : starter'[t] = starter[t]
        /\ UNCHANGED <<review, reviews, stuck>>
        /\ told' = IF Shows(s) THEN told \cup {starter[s].got.n} ELSE told
    BY <1>6, <1>a DEF ShowReview
  <2>2. Shows(s) => /\ starter[s].got.n <= reviews
                    /\ starter[s].got.n # review.n \/ starter[s].got.n \in stuck
    BY <1>a, <1>b, <2>1 DEF ShownIsUnlinked, ReadIsUnseen, Shows
  <2> QED
    BY <1>a, <1>b, <2>1, <2>2 DEF ShownIsUnlinked, ReadIsUnseen, IdleStarter, NoReview
<1>7. ASSUME NEW s \in Starter, StartGivesUp(s) PROVE ShownIsUnlinked' /\ ReadIsUnseen'
  <2>1. /\ starter'[s] = IdleStarter
        /\ \A t \in Starter \ {s} : starter'[t] = starter[t]
        /\ UNCHANGED <<review, reviews, told, stuck>>
    BY <1>7, <1>a DEF StartGivesUp
  <2> QED
    BY <1>a, <1>b, <2>1 DEF ShownIsUnlinked, ReadIsUnseen, IdleStarter, NoReview
<1>8. CASE UNCHANGED <<review, reviews, starter, told, stuck>>
  BY <1>8, <1>b DEF ShownIsUnlinked, ReadIsUnseen
<1> QED
  BY <1>1, <1>2, <1>3, <1>4, <1>5, <1>6, <1>7, <1>8
  DEF ReviewNext, EndFires, EndOverran, NextDay, reviewVars

LEMMA ReviewInvInit == ReviewInit => ReviewInv
BY ReviewAssumption DEF ReviewInit, ReviewInv, ReviewTypeOK, ShownIsUnlinked, ReadIsUnseen, IdleStarter,
                        NoReview, Review

(* A start that comes after a review was shown does not show it again      *)
(* (renderLastSessionReview), whatever ends and starts overlap, unless one *)
(* that read it could not unlink it.                                       *)
THEOREM ReviewsAreShownOnce == ReviewSpec => ReviewShownOnce
<1> DEFINE Once == \A s \in Starter : ShowReview(s) /\ Shows(s) =>
                     starter[s].got.n \notin starter[s].before \ stuck
<1>1. ReviewInv => Once
  BY DEF ReviewInv, ReadIsUnseen, ShowReview
<1> QED
  BY <1>1, ReviewInvInit, ReviewInvStep, PTL DEF ReviewSpec, ReviewShownOnce

-----------------------------------------------------------------------------
(* The reminder.                                                           *)

CallsKnown == callLog \cup made

(* What a session's file counts is within the prompts it had. *)
TurnsWithin ==
  \A s \in Prompter :
    /\ nagState[s].last <= nagState[s].turn /\ nagState[s].turn <= prompts[s]
    /\ streak[s] <= prompts[s]

(* Nothing is of the future. *)
CallsBehind ==
  /\ \A c \in CallsKnown : c.ts <= second /\ \A s \in Prompter : c.after[s] <= prompts[s]
  /\ \A s \in Prompter : nagState[s].reset <= second

(* The turns since the last nag are the streak, which is short of a nag.   *)
StreakIsCounted ==
  \A s \in Prompter :
    streak[s] = nagState[s].turn - nagState[s].last /\ streak[s] < Threshold

(* A call before the second a session's count began in came before the     *)
(* turns that have been counted since.                                     *)
CountedSince ==
  \A s \in Prompter :
    /\ nagState[s].reset = 0 => nagState[s].turn = 0
    /\ \A c \in CallsKnown :
         c.ts < nagState[s].reset => c.after[s] + nagState[s].turn <= prompts[s]

NagInv == NagTypeOK /\ TurnsWithin /\ CallsBehind
NagKept == NagInv /\ StreakIsCounted /\ CountedSince

NagFileType == [turn : 0..MaxPrompts, last : 0..MaxPrompts, reset : 0..MaxSecond]

Since(s) == IF nagState[s].reset = 0 THEN second ELSE nagState[s].reset
CallSince(ts) == \E c \in callLog : c.ts >= ts
Due(s) == nagState[s].turn + 1 - nagState[s].last >= Threshold

(* What evaluateNag says of a count that no call has ended. *)
LEMMA CountGoesOn ==
  ASSUME NEW prev \in [turn : Nat, last : Nat, reset : Nat]
  PROVE  LET due == prev.turn + 1 - prev.last >= Threshold IN
         /\ EvaluateNag(prev, FALSE).emit <=> due
         /\ EvaluateNag(prev, FALSE).state =
              [turn |-> prev.turn + 1, last |-> IF due THEN prev.turn + 1 ELSE prev.last,
               reset |-> IF prev.reset = 0 THEN second ELSE prev.reset]
<1> DEFINE due == prev.turn + 1 - prev.last >= Threshold
           state == [turn |-> prev.turn + 1, last |-> IF due THEN prev.turn + 1 ELSE prev.last,
                     reset |-> IF prev.reset = 0 THEN second ELSE prev.reset]
<1>1. EvaluateNag(prev, FALSE) = [emit |-> due, state |-> state]
  BY NagAssumption DEF EvaluateNag
<1> HIDE DEF due, state
<1>2. [emit |-> due, state |-> state].emit = due
  BY Zenon
<1>3. [emit |-> due, state |-> state].state = state
  BY Zenon
<1> QED
  BY <1>1, <1>2, <1>3, Zenon DEF due, state

(* The four ways a prompt may go: a call has come, the nag is due, it is   *)
(* not, or the file cannot be written.                                     *)
LEMMA PromptStep ==
  ASSUME NagTypeOK, NEW s \in Prompter, UserPrompt(s)
  PROVE  /\ prompts[s] < MaxPrompts /\ prompts' = [prompts EXCEPT ![s] = @ + 1]
         /\ UNCHANGED <<second, callLog, made>>
         /\ \A t \in Prompter \ {s} : nagState'[t] = nagState[t] /\ streak'[t] = streak[t]
         /\ outcome' = [outcome EXCEPT ![s] = outcome'[s]]
         /\ streak' = [streak EXCEPT ![s] = streak'[s]]
         /\ nagState' = [nagState EXCEPT ![s] = nagState'[s]]
         /\ \/ /\ CallSince(Since(s)) /\ outcome'[s] = "call" /\ streak'[s] = 0
               /\ \/ nagState'[s] = [turn |-> 0, last |-> 0, reset |-> second]
                  \/ "save" \in NagFaults /\ nagState'[s] = nagState[s]
            \/ /\ ~CallSince(Since(s)) \/ "read" \in NagFaults
               /\ Due(s) /\ outcome'[s] = "nag" /\ streak'[s] = 0
               /\ \/ nagState'[s] = [turn |-> nagState[s].turn + 1, last |-> nagState[s].turn + 1,
                                     reset |-> Since(s)]
                  \/ "save" \in NagFaults /\ nagState'[s] = nagState[s]
            \/ /\ ~CallSince(Since(s)) \/ "read" \in NagFaults
               /\ ~Due(s) /\ outcome'[s] = "none"
               /\ streak'[s] = streak[s] + 1
               /\ \/ nagState'[s] = [turn |-> nagState[s].turn + 1, last |-> nagState[s].last,
                                     reset |-> Since(s)]
                  \/ "save" \in NagFaults /\ nagState'[s] = nagState[s]
<1>a. PICK had \in HadDirectCallSince(Since(s)) :
        /\ prompts[s] < MaxPrompts /\ prompts' = [prompts EXCEPT ![s] = @ + 1]
        /\ UNCHANGED <<second, callLog, made>>
        /\ \/ nagState' = [nagState EXCEPT ![s] = EvaluateNag(nagState[s], had).state]
           \/ "save" \in NagFaults /\ UNCHANGED nagState
        /\ outcome' = [outcome EXCEPT ![s] =
             IF had THEN "call" ELSE IF EvaluateNag(nagState[s], had).emit THEN "nag" ELSE "none"]
        /\ streak' = [streak EXCEPT ![s] = IF outcome'[s] = "none" THEN @ + 1 ELSE 0]
  BY DEF UserPrompt, Since
<1>b. /\ had => CallSince(Since(s))
      /\ ~had => ~CallSince(Since(s)) \/ "read" \in NagFaults
  BY DEF HadDirectCallSince, CallSince
<1>c. had \in BOOLEAN
  BY DEF HadDirectCallSince
<1> DEFINE decision == EvaluateNag(nagState[s], had)
<1>1. /\ prompts[s] < MaxPrompts /\ prompts' = [prompts EXCEPT ![s] = @ + 1]
      /\ UNCHANGED <<second, callLog, made>>
      /\ \/ nagState' = [nagState EXCEPT ![s] = decision.state]
         \/ "save" \in NagFaults /\ UNCHANGED nagState
      /\ outcome' = [outcome EXCEPT ![s] =
           IF had THEN "call" ELSE IF decision.emit THEN "nag" ELSE "none"]
      /\ streak' = [streak EXCEPT ![s] = IF outcome'[s] = "none" THEN @ + 1 ELSE 0]
  BY <1>a
<1>2. /\ had => decision.state = [turn |-> 0, last |-> 0, reset |-> second]
      /\ ~had => /\ decision.emit <=> Due(s)
                 /\ decision.state = [turn |-> nagState[s].turn + 1,
                                      last |-> IF Due(s) THEN nagState[s].turn + 1 ELSE nagState[s].last,
                                      reset |-> Since(s)]
  <2>1. nagState[s] \in [turn : Nat, last : Nat, reset : Nat]
    BY NagAssumption DEF NagTypeOK
  <2>2. CASE had
    <3>1. decision = EvaluateNag(nagState[s], TRUE)
      BY <2>2
    <3> QED
      BY <2>2, <3>1 DEF EvaluateNag
  <2>3. CASE ~had
    <3>1. decision = EvaluateNag(nagState[s], FALSE)
      BY <1>c, <2>3, Zenon
    <3> HIDE DEF decision
    <3> QED
      BY <2>1, <2>3, <3>1, CountGoesOn DEF Due, Since
  <2> QED
    BY <2>2, <2>3
<1> HIDE DEF decision
<1>3. /\ s \in DOMAIN nagState /\ s \in DOMAIN outcome /\ s \in DOMAIN streak
      /\ DOMAIN nagState = Prompter /\ DOMAIN outcome = Prompter /\ DOMAIN streak = Prompter
  BY DEF NagTypeOK
<1>4. /\ \A t \in Prompter \ {s} : nagState'[t] = nagState[t] /\ streak'[t] = streak[t]
      /\ outcome' = [outcome EXCEPT ![s] = outcome'[s]]
      /\ streak' = [streak EXCEPT ![s] = streak'[s]]
      /\ nagState' = [nagState EXCEPT ![s] = nagState'[s]]
  <2>1. \A t \in Prompter \ {s} : nagState'[t] = nagState[t] /\ streak'[t] = streak[t]
    BY <1>1, <1>3
  <2>2. outcome' = [outcome EXCEPT ![s] = outcome'[s]]
    BY <1>1, <1>3
  <2>3. streak' = [streak EXCEPT ![s] = streak'[s]]
    BY <1>1, <1>3
  <2>4. nagState' = [nagState EXCEPT ![s] = nagState'[s]]
    BY <1>1, <1>3 DEF NagTypeOK
  <2> QED
    BY <2>1, <2>2, <2>3, <2>4
<1>5. /\ outcome'[s] = IF had THEN "call" ELSE IF decision.emit THEN "nag" ELSE "none"
      /\ streak'[s] = IF outcome'[s] = "none" THEN streak[s] + 1 ELSE 0
      /\ nagState'[s] = decision.state \/ ("save" \in NagFaults /\ nagState'[s] = nagState[s])
  BY <1>1, <1>3
<1>6. CASE had
  BY <1>b, <1>1, <1>2, <1>4, <1>5, <1>6
<1>7. CASE ~had /\ Due(s)
  BY <1>b, <1>1, <1>2, <1>4, <1>5, <1>7
<1>8. CASE ~had /\ ~Due(s)
  BY <1>b, <1>1, <1>2, <1>4, <1>5, <1>8
<1> QED
  BY <1>6, <1>7, <1>8

LEMMA NagTypeParts ==
  ASSUME NagTypeOK
  PROVE  /\ second \in Nat /\ Threshold \in Nat \ {0}
         /\ \A s \in Prompter :
              /\ nagState[s] = [turn |-> nagState[s].turn, last |-> nagState[s].last,
                                reset |-> nagState[s].reset]
              /\ nagState[s].turn \in Nat /\ nagState[s].last \in Nat /\ nagState[s].reset \in Nat
              /\ prompts[s] \in Nat /\ streak[s] \in Nat
         /\ \A c \in CallsKnown : c.ts \in Nat /\ \A s \in Prompter : c.after[s] \in Nat
<1>1. \A c \in CallsKnown : c \in NagCalls
  BY DEF NagTypeOK, CallsKnown
<1> QED
  BY <1>1, NagAssumption DEF NagTypeOK, NagCalls

(* What a prompt leaves of its session's count, by parts. *)
LEMMA PromptCounts ==
  ASSUME NagInv, NEW s \in Prompter, UserPrompt(s)
  PROVE  /\ nagState'[s] \in NagFileType /\ streak'[s] \in 0..MaxPrompts
         /\ nagState'[s].last <= nagState'[s].turn /\ nagState'[s].turn <= prompts[s] + 1
         /\ streak'[s] <= prompts[s] + 1 /\ nagState'[s].reset <= second
         /\ outcome'[s] \in {"none", "nag", "call"}
<1> USE NagAssumption
<1>1. /\ nagState[s] \in NagFileType /\ second \in 1..MaxSecond /\ prompts[s] \in 0..MaxPrompts
      /\ streak[s] \in 0..MaxPrompts /\ prompts[s] < MaxPrompts
      /\ nagState[s].last <= nagState[s].turn /\ nagState[s].turn <= prompts[s]
      /\ streak[s] <= prompts[s] /\ nagState[s].reset <= second
  BY PromptStep DEF NagInv, NagTypeOK, TurnsWithin, CallsBehind, NagFileType
<1>2. Since(s) \in 0..MaxSecond /\ Since(s) <= second
  BY <1>1 DEF Since, NagFileType
<1>3. \/ nagState'[s] = [turn |-> 0, last |-> 0, reset |-> second]
      \/ nagState'[s] = [turn |-> nagState[s].turn + 1, last |-> nagState[s].turn + 1, reset |-> Since(s)]
      \/ nagState'[s] = [turn |-> nagState[s].turn + 1, last |-> nagState[s].last, reset |-> Since(s)]
      \/ nagState'[s] = nagState[s]
  BY PromptStep DEF NagInv
<1>4. streak'[s] \in {0, streak[s] + 1} /\ outcome'[s] \in {"none", "nag", "call"}
  BY PromptStep DEF NagInv
<1> QED
  BY <1>1, <1>2, <1>3, <1>4 DEF NagFileType

LEMMA NagInvStep == NagInv /\ [NagNext]_nagVars => NagInv'
<1> SUFFICES ASSUME NagInv, [NagNext]_nagVars PROVE NagInv'
  OBVIOUS
<1> USE NagAssumption
<1>1. ASSUME NEW s \in Prompter, UserPrompt(s) PROVE NagInv'
  <2>1. /\ prompts[s] < MaxPrompts /\ prompts' = [prompts EXCEPT ![s] = @ + 1]
        /\ UNCHANGED <<second, callLog, made>>
        /\ \A t \in Prompter \ {s} : nagState'[t] = nagState[t] /\ streak'[t] = streak[t]
        /\ outcome' = [outcome EXCEPT ![s] = outcome'[s]]
        /\ streak' = [streak EXCEPT ![s] = streak'[s]]
        /\ nagState' = [nagState EXCEPT ![s] = nagState'[s]]
    BY <1>1, PromptStep DEF NagInv
  <2>2. /\ nagState \in [Prompter -> NagFileType] /\ prompts \in [Prompter -> 0..MaxPrompts]
        /\ streak \in [Prompter -> 0..MaxPrompts] /\ outcome \in [Prompter -> {"none", "nag", "call"}]
    BY DEF NagInv, NagTypeOK, NagFileType
  <2>3. NagTypeOK'
    <3>1. nagState' \in [Prompter -> NagFileType]
      BY <1>1, <2>1, <2>2, PromptCounts
    <3>2. prompts' \in [Prompter -> 0..MaxPrompts]
      BY <2>1, <2>2
    <3>3. streak' \in [Prompter -> 0..MaxPrompts]
      BY <1>1, <2>1, <2>2, PromptCounts
    <3>4. outcome' \in [Prompter -> {"none", "nag", "call"}]
      BY <1>1, <2>1, <2>2, PromptCounts
    <3> QED
      BY <2>1, <3>1, <3>2, <3>3, <3>4 DEF NagInv, NagTypeOK, NagFileType
  <2>4. TurnsWithin'
    BY <1>1, <2>1, <2>2, PromptCounts DEF TurnsWithin, NagInv
  <2>5. CallsBehind'
    <3>1. \A t \in Prompter : prompts[t] <= prompts'[t] /\ nagState'[t].reset <= second
      BY <1>1, <2>1, <2>2, PromptCounts DEF CallsBehind, NagInv
    <3>2. CallsKnown' = CallsKnown
      BY <2>1 DEF CallsKnown
    <3>3. \A t \in Prompter : prompts[t] \in Nat /\ prompts'[t] \in Nat
      BY <2>1, <2>2
    <3>4. \A c \in CallsKnown, t \in Prompter : c.after[t] \in Nat
      BY NagTypeParts DEF NagInv
    <3> QED
      BY <2>1, <3>1, <3>2, <3>3, <3>4 DEF CallsBehind, NagInv
  <2> QED
    BY <2>3, <2>4, <2>5 DEF NagInv
<1>2. ASSUME NEW s \in Prompter, PurgeNagState(s) PROVE NagInv'
  BY <1>2 DEF PurgeNagState, NoState, NagInv, NagTypeOK, TurnsWithin, CallsBehind, CallsKnown
<1>3. CASE DirectCall
  <2>1. PICK n \in 1..MaxCalls : made' = made \cup {[n |-> n, ts |-> second, after |-> prompts]}
    BY <1>3 DEF DirectCall
  <2> DEFINE c == [n |-> n, ts |-> second, after |-> prompts]
  <2>2. c \in NagCalls
    BY DEF NagInv, NagTypeOK, NagCalls
  <2>3. UNCHANGED <<second, callLog, nagState, prompts, streak, outcome>>
    BY <1>3 DEF DirectCall
  <2>4. c.ts = second /\ c.after = prompts
    OBVIOUS
  <2> HIDE DEF c
  <2>5. made' = made \cup {c}
    BY <2>1 DEF c
  <2>6. made' \subseteq NagCalls
    BY <2>2, <2>5 DEF NagInv, NagTypeOK
  <2>7. NagTypeOK'
    BY <2>3, <2>6, Zenon DEF NagInv, NagTypeOK, NagCalls
  <2>8. \A d \in CallsKnown' : d.ts <= second /\ \A s \in Prompter : d.after[s] <= prompts[s]
    <3>1. \A d \in CallsKnown' : d \in CallsKnown \/ d = c
      BY <2>3, <2>5 DEF CallsKnown
    <3>2. second \in Nat /\ \A s \in Prompter : prompts[s] \in Nat
      BY NagTypeParts DEF NagInv
    <3>3. second <= second /\ \A s \in Prompter : prompts[s] <= prompts[s]
      BY <3>2
    <3> QED
      BY <2>4, <3>1, <3>3 DEF NagInv, CallsBehind
  <2>9. CallsBehind'
    BY <2>3, <2>8, Zenon DEF NagInv, CallsBehind
  <2> QED
    BY <2>3, <2>7, <2>9, Zenon DEF NagInv, TurnsWithin
<1>4. ASSUME NEW c \in made, LogCall(c) PROVE NagInv'
  BY <1>4 DEF LogCall, NagInv, NagTypeOK, TurnsWithin, CallsBehind, CallsKnown
<1>5. CASE RotateAway
  BY <1>5 DEF RotateAway, NagInv, NagTypeOK, TurnsWithin, CallsBehind, CallsKnown
<1>6. CASE NextSecond
  <2>1. UNCHANGED <<callLog, made, nagState, prompts, streak, outcome>> /\ second' = second + 1
    BY <1>6 DEF NextSecond
  <2>2. second' \in 1..MaxSecond
    BY <1>6 DEF NextSecond, NagInv, NagTypeOK
  <2>3. NagTypeOK'
    BY <2>1, <2>2, Zenon DEF NagInv, NagTypeOK, NagCalls
  <2>4. TurnsWithin'
    BY <2>1, Zenon DEF NagInv, TurnsWithin
  <2>5. CallsBehind'
    <3>1. \A c \in CallsKnown : c.ts <= second /\ c.ts \in Nat
      BY NagTypeParts DEF NagInv, CallsBehind
    <3>2. \A s \in Prompter : nagState[s].reset <= second /\ nagState[s].reset \in Nat
      BY NagTypeParts DEF NagInv, CallsBehind
    <3>3. second \in Nat
      BY NagTypeParts DEF NagInv
    <3>4. \A c \in CallsKnown : c.ts <= second + 1
      BY <3>1, <3>3
    <3>5. \A s \in Prompter : nagState[s].reset <= second + 1
      BY <3>2, <3>3
    <3> QED
      BY <2>1, <3>4, <3>5, Zenon DEF NagInv, CallsBehind, CallsKnown
  <2> QED
    BY <2>3, <2>4, <2>5 DEF NagInv
<1>7. CASE UNCHANGED nagVars
  BY <1>7 DEF nagVars, NagInv, NagTypeOK, TurnsWithin, CallsBehind, CallsKnown
<1> QED
  BY <1>1, <1>2, <1>3, <1>4, <1>5, <1>6, <1>7 DEF NagNext

LEMMA NagKeptStep ==
  {"save", "read"} \cap NagFaults = {} /\ NagInv /\ NagInv' /\ StreakIsCounted /\ CountedSince /\ [NagNext]_nagVars
    => StreakIsCounted' /\ CountedSince'
<1> SUFFICES ASSUME {"save", "read"} \cap NagFaults = {}, NagInv, NagInv', StreakIsCounted, CountedSince,
                    [NagNext]_nagVars
             PROVE  StreakIsCounted' /\ CountedSince'
  OBVIOUS
<1> USE NagAssumption
<1>a. NagTypeOK /\ CallsBehind
  BY DEF NagInv
<1>1. ASSUME NEW s \in Prompter, UserPrompt(s) PROVE StreakIsCounted' /\ CountedSince'
  <2>1. /\ prompts'[s] = prompts[s] + 1 /\ CallsKnown' = CallsKnown
        /\ \A t \in Prompter \ {s} : /\ nagState'[t] = nagState[t] /\ streak'[t] = streak[t]
                                    /\ prompts'[t] = prompts[t]
    BY <1>1, <1>a, PromptStep DEF CallsKnown, NagTypeOK
  <2>2. \/ streak'[s] = 0 /\ nagState'[s] = [turn |-> 0, last |-> 0, reset |-> second]
        \/ /\ Due(s) /\ streak'[s] = 0
           /\ nagState'[s] = [turn |-> nagState[s].turn + 1, last |-> nagState[s].turn + 1,
                              reset |-> Since(s)]
        \/ /\ ~Due(s) /\ streak'[s] = streak[s] + 1
           /\ nagState'[s] = [turn |-> nagState[s].turn + 1, last |-> nagState[s].last,
                              reset |-> Since(s)]
    BY <1>1, <1>a, PromptStep
  <2>3. /\ second \in Nat /\ Since(s) \in Nat /\ (Since(s) = 0 => second = 0) /\ second # 0
        /\ nagState[s].turn \in Nat /\ nagState[s].last \in Nat /\ nagState[s].reset \in Nat
        /\ prompts[s] \in Nat /\ streak[s] \in Nat
    BY <1>a, NagTypeParts DEF Since, NagTypeOK
  <2>4. StreakIsCounted'
    BY <2>1, <2>2, <2>3 DEF StreakIsCounted, Due
  <2>5. ASSUME NEW c \in CallsKnown, c.ts < nagState'[s].reset
        PROVE  c.after[s] + nagState'[s].turn <= prompts'[s]
    <3>1. c.after[s] \in Nat /\ c.ts \in Nat /\ c.after[s] <= prompts[s]
      BY <1>a, NagTypeParts DEF CallsBehind
    <3>2. CASE nagState'[s].turn = 0
      BY <2>1, <2>3, <3>1, <3>2
    <3>3. CASE nagState'[s].turn # 0
      <4>1. nagState'[s].turn = nagState[s].turn + 1 /\ nagState'[s].reset = Since(s)
        BY <2>2, <3>3
      <4>2. CASE nagState[s].reset = 0
        BY <2>1, <2>3, <3>1, <4>1, <4>2 DEF CountedSince
      <4>3. CASE nagState[s].reset # 0
        BY <2>1, <2>3, <2>5, <3>1, <4>1, <4>3 DEF CountedSince, Since
      <4> QED
        BY <4>2, <4>3
    <3> QED
      BY <3>2, <3>3
  <2>6. nagState'[s].reset # 0
    BY <2>2, <2>3
  <2>7. CountedSince'
    BY <2>1, <2>5, <2>6 DEF CountedSince
  <2> QED
    BY <2>4, <2>7
<1>2. ASSUME NEW s \in Prompter, PurgeNagState(s) PROVE StreakIsCounted' /\ CountedSince'
  <2>1. /\ nagState'[s] = [turn |-> 0, last |-> 0, reset |-> 0] /\ streak'[s] = 0
        /\ \A t \in Prompter \ {s} : nagState'[t] = nagState[t] /\ streak'[t] = streak[t]
        /\ UNCHANGED <<prompts, callLog, made>>
    BY <1>2, <1>a DEF PurgeNagState, NoState, NagTypeOK
  <2>2. \A c \in CallsKnown : ~(c.ts < 0)
    BY <1>a, NagTypeParts
  <2> QED
    BY <2>1, <2>2 DEF StreakIsCounted, CountedSince, CallsKnown
<1>3. CASE DirectCall
  <2>1. PICK n \in 1..MaxCalls : made' = made \cup {[n |-> n, ts |-> second, after |-> prompts]}
    BY <1>3 DEF DirectCall
  <2> DEFINE c == [n |-> n, ts |-> second, after |-> prompts]
  <2>2. UNCHANGED <<callLog, nagState, prompts, streak>>
    BY <1>3 DEF DirectCall
  <2>3. c.ts = second
    OBVIOUS
  <2> HIDE DEF c
  <2>4. \A d \in CallsKnown' : d \in CallsKnown \/ d = c
    BY <2>1, <2>2 DEF CallsKnown, c
  <2>5. \A s \in Prompter : ~(second < nagState[s].reset)
    <3>1. \A s \in Prompter : nagState[s].reset \in Nat /\ second \in Nat
      BY <1>a, NagTypeParts
    <3> QED
      BY <1>a, <3>1 DEF CallsBehind
  <2>6. StreakIsCounted'
    BY <2>2 DEF StreakIsCounted
  <2>7. CountedSince'
    BY <2>2, <2>3, <2>4, <2>5 DEF CountedSince
  <2> QED
    BY <2>6, <2>7
<1>4. CASE UNCHANGED <<nagState, prompts, streak>> /\ CallsKnown' \subseteq CallsKnown
  BY <1>4 DEF StreakIsCounted, CountedSince
<1>5. ASSUME NEW c \in made, LogCall(c)
      PROVE  UNCHANGED <<nagState, prompts, streak>> /\ CallsKnown' \subseteq CallsKnown
  BY <1>5 DEF LogCall, CallsKnown
<1>6. CASE RotateAway \/ NextSecond \/ UNCHANGED nagVars
  BY <1>6, <1>4 DEF RotateAway, NextSecond, nagVars, CallsKnown
<1> QED
  BY <1>1, <1>2, <1>3, <1>4, <1>5, <1>6 DEF NagNext

LEMMA NagInit0 == NagInit => NagInv /\ StreakIsCounted /\ CountedSince
BY NagAssumption DEF NagInit, NagInv, NagTypeOK, TurnsWithin, CallsBehind, StreakIsCounted, CountedSince,
                     CallsKnown, NoState

(* What a session's file and the log hold is of its type. *)
THEOREM NagTypeCorrect == NagSpec => []NagTypeOK
<1>1. NagInv => NagTypeOK
  BY DEF NagInv
<1> QED
  BY <1>1, NagInit0, NagInvStep, PTL DEF NagSpec

(* The nag comes on the Threshold-th prompt in a row without a call, and   *)
(* on no other (evaluateNag); if a direct call is in the log by then,      *)
(* Threshold prompts have come since.                                      *)
THEOREM NagIsExact == {"save", "read"} \cap NagFaults = {} /\ NagSpec => NagExactly
<1> SUFFICES ASSUME {"save", "read"} \cap NagFaults = {} PROVE NagSpec => NagExactly
  OBVIOUS
<1> DEFINE Exact == \A s \in Prompter : Prompted(s) =>
              /\ outcome'[s] = "nag" <=> outcome'[s] # "call" /\ streak[s] + 1 = Threshold
              /\ outcome'[s] = "nag" => \A c \in callLog : prompts'[s] - c.after[s] >= Threshold
<1>1. NagInv /\ StreakIsCounted /\ CountedSince /\ [NagNext]_nagVars => [Exact]_nagVars
  <2> SUFFICES ASSUME NagInv, StreakIsCounted, CountedSince, NagNext, NEW s \in Prompter, Prompted(s)
               PROVE  /\ outcome'[s] = "nag" <=> outcome'[s] # "call" /\ streak[s] + 1 = Threshold
                      /\ outcome'[s] = "nag" =>
                           \A c \in callLog : prompts'[s] - c.after[s] >= Threshold
    OBVIOUS
  <2> USE NagAssumption
  <2>0. NagTypeOK /\ CallsBehind
    BY DEF NagInv
  <2>1. UserPrompt(s)
    <3>1. PICK t \in Prompter : UserPrompt(t)
      BY DEF NagNext, Prompted, PurgeNagState, DirectCall, LogCall, RotateAway, NextSecond
    <3>2. t = s
      BY <2>0, <3>1, PromptStep DEF Prompted, NagTypeOK
    <3> QED
      BY <3>1, <3>2
  <2>2. /\ nagState[s].turn \in Nat /\ nagState[s].last \in Nat /\ nagState[s].reset \in Nat
        /\ prompts[s] \in Nat /\ streak[s] \in Nat /\ second \in Nat
        /\ streak[s] = nagState[s].turn - nagState[s].last /\ streak[s] < Threshold
    BY <2>0, NagTypeParts DEF StreakIsCounted
  <2>3. Due(s) <=> streak[s] + 1 = Threshold
    BY <2>2 DEF Due
  <2>4. outcome'[s] = "nag" <=> outcome'[s] # "call" /\ Due(s)
    BY <2>0, <2>1, PromptStep
  <2>5. ASSUME outcome'[s] = "nag", NEW c \in callLog PROVE prompts'[s] - c.after[s] >= Threshold
    <3>1. ~CallSince(Since(s)) /\ Due(s) /\ prompts'[s] = prompts[s] + 1
      BY <2>0, <2>1, <2>5, PromptStep DEF NagTypeOK
    <3>2. c \in CallsKnown /\ c.ts \in Nat /\ c.after[s] \in Nat /\ c.after[s] <= prompts[s]
      BY <2>0, <2>5, NagTypeParts DEF CallsKnown, CallsBehind
    <3>3. c.ts < Since(s)
      BY <2>2, <2>5, <3>1, <3>2 DEF CallSince, Since
    <3>4. c.after[s] + nagState[s].turn <= prompts[s]
      <4>1. CASE nagState[s].reset = 0
        BY <2>2, <3>2, <4>1 DEF CountedSince
      <4>2. CASE nagState[s].reset # 0
        BY <3>2, <3>3, <4>2 DEF CountedSince, Since
      <4> QED
        BY <4>1, <4>2
    <3> QED
      BY <2>2, <3>1, <3>2, <3>4 DEF Due
  <2> QED
    BY <2>3, <2>4, <2>5
<1>2. NagInv /\ [NagNext]_nagVars => NagInv'
  BY NagInvStep
<1>3. NagInv /\ NagInv' /\ StreakIsCounted /\ CountedSince /\ [NagNext]_nagVars
        => StreakIsCounted' /\ CountedSince'
  BY NagKeptStep
<1> QED
  BY <1>1, <1>2, <1>3, NagInit0, PTL DEF NagSpec, NagExactly

-----------------------------------------------------------------------------
(* The use of the chunks.                                                  *)

SearchStep == {"idle", "touch", "begin", "archive", "prune", "count", "cap"}
Servings == SUBSET ChunkId
SearchState == [pc : SearchStep, serves : Servings, now : Nat, excess : Nat, late : BOOLEAN]

(* A chunk's use is forgotten with its row or known to the day.            *)
UseIsKnown ==
  /\ Stored \subseteq ChunkId
  /\ \A c \in Stored : /\ chunks[c].used \in Nat /\ chunks[c].whole \in BOOLEAN
                       /\ chunks[c] = [used |-> chunks[c].used, whole |-> chunks[c].whole]
                       /\ chunks[c].used <= today
                       /\ chunks[c].used \in {0, shownOn[c]}

(* No lifecycle is of a later day.                                         *)
SearchersTyped ==
  /\ searcher \in [Searcher -> SearchState]
  /\ \A p \in Searcher : searcher[p].now <= today

(* Who counted too many chunks, and whom nobody has deleted since, will    *)
(* leave enough.                                                           *)
CountHolds ==
  \A p \in Searcher : searcher[p].pc = "cap" /\ ~searcher[p].late =>
    Cardinality(Stored) >= MaxChunks + searcher[p].excess

LifeInv ==
  /\ today \in Nat /\ shownOn \in [ChunkId -> Nat] /\ (\A c \in ChunkId : shownOn[c] <= today)
  /\ UseIsKnown /\ SearchersTyped /\ CountHolds
  /\ \A p \in Searcher : searcher[p].excess <= Cardinality(ChunkId)

(* What a step leaves of a searcher. *)
LEMMA SearcherMoves ==
  ASSUME NEW s \in SearchState
  PROVE  /\ \A to \in SearchStep :
              /\ [s EXCEPT !.pc = to] \in SearchState /\ [s EXCEPT !.pc = to].pc = to
              /\ [s EXCEPT !.pc = to].now = s.now /\ [s EXCEPT !.pc = to].excess = s.excess
              /\ [s EXCEPT !.pc = to].late = s.late
         /\ [s EXCEPT !.late = TRUE] \in SearchState /\ [s EXCEPT !.late = TRUE].pc = s.pc
         /\ [s EXCEPT !.late = TRUE].now = s.now /\ [s EXCEPT !.late = TRUE].excess = s.excess
         /\ [s EXCEPT !.late = TRUE].late = TRUE
         /\ NoSearch \in SearchState
BY DEF SearchState, NoSearch, SearchStep, Servings

LEMMA ServesWhatIsStored ==
  ASSUME NEW p \in Searcher, ToolSearch(p), Stored \subseteq ChunkId
  PROVE  \E R \in Servings : searcher' = [searcher EXCEPT ![p] = [NoSearch EXCEPT !.pc = "touch", !.serves = R]]
<1>1. PICK R \in UNION ({Retrieve(T) : T \in SearchFiltered(Stored)}
                     \cup {SearchFiltered({c \in Stored : SourceType[c] = t}) : t \in {"code", "text"}}) :
         searcher' = [searcher EXCEPT ![p] = [NoSearch EXCEPT !.pc = "touch", !.serves = R]]
  BY DEF ToolSearch
<1>2. R \subseteq Stored
  <2>1. CASE \E T \in SearchFiltered(Stored) : R \in Retrieve(T)
    BY <2>1 DEF SearchFiltered, Retrieve
  <2>2. CASE \E t \in {"code", "text"} : R \in SearchFiltered({c \in Stored : SourceType[c] = t})
    BY <2>2 DEF SearchFiltered
  <2> QED
    BY <1>1, <2>1, <2>2
<1> QED
  BY <1>1, <1>2 DEF Servings

(* A deletion by one of them.                                              *)
LEMMA DeletesKeeps ==
  ASSUME NEW p \in Searcher, NEW gone, NEW to \in SearchState, LifeInv, Deletes(p, gone, to),
         to.now <= today, to.pc # "cap", to.excess <= Cardinality(ChunkId), UNCHANGED <<shownOn, today>>
  PROVE  /\ LifeInv' /\ Stored' = Stored \ gone /\ \A c \in Stored' : chunks'[c] = chunks[c]
         /\ searcher'[p] = to
<1>1. /\ chunks' = [c \in Stored \ gone |-> chunks[c]]
      /\ searcher' = [q \in Searcher |->
           IF q = p THEN to ELSE IF gone = {} THEN searcher[q] ELSE [searcher[q] EXCEPT !.late = TRUE]]
  BY DEF Deletes
<1>2. Stored' = Stored \ gone /\ \A c \in Stored' : chunks'[c] = chunks[c]
  BY <1>1 DEF Stored
<1>3. \A q \in Searcher : searcher[q] \in SearchState
  BY DEF LifeInv, SearchersTyped
<1>4. \A q \in Searcher :
        /\ searcher'[q] \in SearchState
        /\ q # p => /\ searcher'[q].now = searcher[q].now /\ searcher'[q].excess = searcher[q].excess
                    /\ searcher'[q].pc = searcher[q].pc
                    /\ gone # {} => searcher'[q].late = TRUE
                    /\ gone = {} => searcher'[q] = searcher[q]
  BY <1>1, <1>3, SearcherMoves
<1>5. searcher'[p] = to /\ searcher' = [q \in Searcher |-> searcher'[q]]
  BY <1>1
<1>6. searcher' \in [Searcher -> SearchState]
  BY <1>4, <1>5
<1>7. SearchersTyped'
  BY <1>4, <1>5, <1>6 DEF LifeInv, SearchersTyped
<1>8. UseIsKnown'
  BY <1>2 DEF LifeInv, UseIsKnown
<1>9. CountHolds'
  BY <1>2, <1>4, <1>5 DEF LifeInv, CountHolds
<1>10. \A q \in Searcher : searcher'[q].excess <= Cardinality(ChunkId)
  BY <1>4, <1>5 DEF LifeInv
<1> QED
  BY <1>2, <1>5, <1>7, <1>8, <1>9, <1>10 DEF LifeInv

(* A searcher that goes on, deletes nothing, and leaves what is stored.    *)
LEMMA GoesOn ==
  ASSUME NEW p \in Searcher, NEW to \in SearchState, LifeInv, searcher' = [searcher EXCEPT ![p] = to],
         to.now <= today, to.excess <= Cardinality(ChunkId), Stored' = Stored, UseIsKnown', UNCHANGED today,
         shownOn' \in [ChunkId -> Nat], \A c \in ChunkId : shownOn'[c] <= today,
         to.pc = "cap" /\ ~to.late => Cardinality(Stored) >= MaxChunks + to.excess
  PROVE  LifeInv'
<1>1. /\ searcher' \in [Searcher -> SearchState] /\ searcher'[p] = to
      /\ \A q \in Searcher \ {p} : searcher'[q] = searcher[q]
  BY DEF LifeInv, SearchersTyped
<1>2. SearchersTyped' /\ CountHolds' /\ \A q \in Searcher : searcher'[q].excess <= Cardinality(ChunkId)
  BY <1>1 DEF LifeInv, SearchersTyped, CountHolds
<1> QED
  BY <1>2 DEF LifeInv

LEMMA LifeInvStep == LifeInv /\ [LifeNext]_lifeVars => LifeInv'
<1> SUFFICES ASSUME LifeInv, [LifeNext]_lifeVars PROVE LifeInv'
  OBVIOUS
<1> USE LifeAssumption
<1>a. /\ today \in Nat /\ shownOn \in [ChunkId -> Nat] /\ UseIsKnown /\ SearchersTyped
      /\ \A c \in ChunkId : shownOn[c] <= today
  BY DEF LifeInv
<1>b. /\ IsFiniteSet(Stored) /\ Cardinality(Stored) \in Nat /\ Cardinality(ChunkId) \in Nat
      /\ Cardinality(Stored) <= Cardinality(ChunkId)
  BY <1>a, FS_Subset, FS_CardinalityType DEF UseIsKnown
<1>c. ASSUME NEW p \in Searcher
      PROVE  searcher[p] \in SearchState /\ searcher[p].now <= today /\ searcher[p].now \in Nat
             /\ searcher[p].excess \in Nat /\ searcher[p].excess <= Cardinality(ChunkId)
             /\ searcher[p].late \in BOOLEAN
  BY <1>a DEF SearchersTyped, SearchState, LifeInv
<1>d. NoSearch \in SearchState /\ NoSearch.now <= today /\ NoSearch.excess <= Cardinality(ChunkId)
      /\ NoSearch.pc = "idle"
  BY <1>a, <1>b DEF NoSearch, SearchState, SearchStep, Servings
<1>e. chunks' = chunks /\ UNCHANGED <<shownOn, today>> =>
        /\ Stored' = Stored /\ UseIsKnown' /\ shownOn' \in [ChunkId -> Nat]
        /\ \A c \in ChunkId : shownOn'[c] <= today
  BY <1>a DEF Stored, UseIsKnown
<1>1. ASSUME NEW p \in Searcher, ToolSearch(p) PROVE LifeInv'
  <2>1. PICK R \in Servings : searcher' = [searcher EXCEPT ![p] = [NoSearch EXCEPT !.pc = "touch", !.serves = R]]
    BY <1>1, <1>a, ServesWhatIsStored DEF UseIsKnown
  <2> DEFINE to == [NoSearch EXCEPT !.pc = "touch", !.serves = R]
  <2>2. to \in SearchState /\ to.now = 0 /\ to.excess = 0 /\ to.pc = "touch"
    BY DEF NoSearch, SearchState, SearchStep
  <2> HIDE DEF to
  <2>3. searcher' = [searcher EXCEPT ![p] = to]
    BY <2>1 DEF to
  <2>4. chunks' = chunks /\ UNCHANGED <<shownOn, today>>
    BY <1>1 DEF ToolSearch
  <2>5. to.now <= today /\ to.excess <= Cardinality(ChunkId)
    BY <1>a, <1>b, <2>2
  <2> QED
    BY <1>e, <2>2, <2>3, <2>4, <2>5, GoesOn
<1>2. ASSUME NEW p \in Searcher, UpdateLastAccessed(p) PROVE LifeInv'
  <2> DEFINE to == [searcher[p] EXCEPT !.pc = "begin"]
  <2>1. searcher' = [searcher EXCEPT ![p] = to]
    BY <1>2 DEF UpdateLastAccessed, Steps
  <2>2. to \in SearchState /\ to.now <= today /\ to.excess <= Cardinality(ChunkId) /\ to.pc = "begin"
    BY <1>c, SearcherMoves DEF SearchStep
  <2> HIDE DEF to
  <2>3. today' = today
    BY <1>2 DEF UpdateLastAccessed
  <2>4. CASE chunks' = chunks /\ UNCHANGED shownOn
    BY <1>e, <2>1, <2>2, <2>3, <2>4, GoesOn
  <2>5. CASE ~(chunks' = chunks /\ UNCHANGED shownOn)
    <3> DEFINE S == searcher[p].serves \cap Stored
    <3>1. /\ chunks' = [c \in Stored |-> IF c \in S THEN [chunks[c] EXCEPT !.used = today] ELSE chunks[c]]
          /\ shownOn' = [c \in ChunkId |-> IF c \in S THEN today ELSE shownOn[c]]
      BY <1>2, <2>5 DEF UpdateLastAccessed
    <3> HIDE DEF S
    <3>2. Stored' = Stored
      BY <3>1 DEF Stored
    <3>3. shownOn' \in [ChunkId -> Nat] /\ \A c \in ChunkId : shownOn'[c] <= today
      BY <1>a, <3>1
    <3>4. ASSUME NEW c \in Stored
          PROVE  /\ chunks'[c].used \in Nat /\ chunks'[c].whole \in BOOLEAN
                 /\ chunks'[c] = [used |-> chunks'[c].used, whole |-> chunks'[c].whole]
                 /\ chunks'[c].used <= today
                 /\ chunks'[c].used \in {0, shownOn'[c]}
      <4>1. /\ chunks[c] = [used |-> chunks[c].used, whole |-> chunks[c].whole] /\ c \in ChunkId
            /\ chunks[c].used \in Nat /\ chunks[c].whole \in BOOLEAN /\ chunks[c].used <= today
            /\ chunks[c].used \in {0, shownOn[c]}
        BY <1>a DEF UseIsKnown
      <4>2. CASE c \in S
        <5>1. chunks'[c] = [chunks[c] EXCEPT !.used = today] /\ shownOn'[c] = today
          BY <3>1, <4>1, <4>2
        <5>2. chunks'[c] = [used |-> today, whole |-> chunks[c].whole]
          BY <4>1, <5>1
        <5> QED
          BY <1>a, <4>1, <5>1, <5>2
      <4>3. CASE c \notin S
        BY <3>1, <4>1, <4>3
      <4> QED
        BY <4>2, <4>3
    <3>5. UseIsKnown'
      BY <1>a, <2>3, <3>2, <3>4 DEF UseIsKnown
    <3> QED
      BY <2>1, <2>2, <2>3, <3>2, <3>3, <3>5, GoesOn
  <2> QED
    BY <2>4, <2>5
<1>3. ASSUME NEW p \in Searcher, RunLifecycle(p) PROVE LifeInv'
  <2> DEFINE s == searcher[p]
             to == [s EXCEPT !.pc = "archive", !.now = today]
  <2>1. searcher' = [searcher EXCEPT ![p] = to] /\ chunks' = chunks /\ UNCHANGED <<shownOn, today>>
    BY <1>3, <1>a DEF RunLifecycle, SearchersTyped
  <2>2. to \in SearchState /\ to.now = today /\ to.excess = s.excess /\ to.pc = "archive"
    BY <1>a, <1>c DEF SearchState, SearchStep
  <2>3. to.now <= today /\ to.excess <= Cardinality(ChunkId)
    BY <1>a, <1>c, <2>2
  <2> HIDE DEF to
  <2> QED
    BY <1>e, <2>1, <2>2, <2>3, GoesOn
<1>4. ASSUME NEW p \in Searcher, ArchiveStage(p) PROVE LifeInv'
  <2> DEFINE to == [searcher[p] EXCEPT !.pc = "prune"]
             cold(c) == Ages(p, c) /\ Unused(p, c) > ActiveDays /\ Unused(p, c) <= ArchiveDays
  <2>1. searcher' = [searcher EXCEPT ![p] = to] /\ UNCHANGED <<shownOn, today>>
        /\ chunks' = [c \in Stored |-> IF cold(c) THEN [chunks[c] EXCEPT !.whole = FALSE] ELSE chunks[c]]
    BY <1>4 DEF ArchiveStage, Steps
  <2>2. to \in SearchState /\ to.now <= today /\ to.excess <= Cardinality(ChunkId) /\ to.pc = "prune"
    BY <1>c, SearcherMoves DEF SearchStep
  <2> HIDE DEF to, cold
  <2>3. Stored' = Stored
    BY <2>1 DEF Stored
  <2>4. ASSUME NEW c \in Stored
        PROVE  /\ chunks'[c].used = chunks[c].used /\ chunks'[c].whole \in BOOLEAN
               /\ chunks'[c] = [used |-> chunks'[c].used, whole |-> chunks'[c].whole]
    <3>1. chunks[c] = [used |-> chunks[c].used, whole |-> chunks[c].whole] /\ chunks[c].whole \in BOOLEAN
      BY <1>a DEF UseIsKnown
    <3>2. CASE cold(c)
      <4>1. chunks'[c] = [used |-> chunks[c].used, whole |-> FALSE]
        BY <2>1, <3>1, <3>2
      <4> QED
        BY <4>1
    <3>3. CASE ~cold(c)
      BY <2>1, <3>1, <3>3
    <3> QED
      BY <3>2, <3>3
  <2>5. UseIsKnown'
    BY <1>a, <2>1, <2>3, <2>4 DEF UseIsKnown
  <2> QED
    BY <1>a, <2>1, <2>2, <2>3, <2>5, GoesOn
<1>5. ASSUME NEW p \in Searcher, PruneStage(p) PROVE LifeInv'
  <2> DEFINE to == [searcher[p] EXCEPT !.pc = "count"]
  <2>1. to \in SearchState /\ to.now <= today /\ to.excess <= Cardinality(ChunkId) /\ to.pc = "count"
    BY <1>c, SearcherMoves DEF SearchStep
  <2>2. PICK gone : Deletes(p, gone, to) /\ UNCHANGED <<shownOn, today>>
    BY <1>5 DEF PruneStage
  <2> HIDE DEF to
  <2> QED
    BY <2>1, <2>2, DeletesKeeps
<1>6. ASSUME NEW p \in Searcher, CountStage(p) PROVE LifeInv'
  <2>1. chunks' = chunks /\ UNCHANGED <<shownOn, today>>
    BY <1>6 DEF CountStage
  <2>2. CASE Cardinality(Stored) > MaxChunks
    <3> DEFINE n == Cardinality(Stored) - MaxChunks
               s == searcher[p]
               to == [s EXCEPT !.pc = "cap", !.excess = n, !.late = FALSE]
    <3>1. searcher' = [searcher EXCEPT ![p] = to]
      BY <1>6, <2>2, <1>a DEF CountStage, SearchersTyped
    <3>2. n \in Nat /\ n <= Cardinality(ChunkId) /\ Cardinality(Stored) >= MaxChunks + n
      BY <1>b, <2>2
    <3> HIDE DEF n
    <3>3. to \in SearchState /\ to.now = s.now /\ to.excess = n
      BY <1>c, <3>2 DEF SearchState, SearchStep
    <3> HIDE DEF to
    <3> QED
      BY <1>c, <1>e, <2>1, <3>1, <3>2, <3>3, GoesOn
  <2>3. CASE ~(Cardinality(Stored) > MaxChunks)
    <3>1. searcher' = [searcher EXCEPT ![p] = NoSearch]
      BY <1>6, <2>3 DEF CountStage
    <3> QED
      BY <1>d, <1>e, <2>1, <3>1, GoesOn
  <2> QED
    BY <2>2, <2>3
<1>7. ASSUME NEW p \in Searcher, CapStage(p) PROVE LifeInv'
  <2>1. PICK gone : Deletes(p, gone, NoSearch) /\ UNCHANGED <<shownOn, today>>
    BY <1>7 DEF CapStage
  <2> QED
    BY <1>d, <2>1, DeletesKeeps
<1>8. ASSUME NEW p \in Searcher, LifecycleFails(p) PROVE LifeInv'
  <2>1. searcher' = [searcher EXCEPT ![p] = NoSearch] /\ chunks' = chunks /\ UNCHANGED <<shownOn, today>>
    BY <1>8 DEF LifecycleFails
  <2> QED
    BY <1>d, <1>e, <2>1, GoesOn
<1>9. CASE Upsert
  <2>1. PICK c \in ChunkId : chunks' = [d \in Stored \cup {c} |->
                               IF d = c THEN [used |-> 0, whole |-> TRUE] ELSE chunks[d]]
    BY <1>9 DEF Upsert
  <2>2. UNCHANGED <<shownOn, today, searcher>>
    BY <1>9 DEF Upsert
  <2>3. Stored' = Stored \cup {c} /\ chunks'[c] = [used |-> 0, whole |-> TRUE]
        /\ \A d \in Stored \ {c} : chunks'[d] = chunks[d]
    BY <2>1 DEF Stored
  <2>4. UseIsKnown'
    <3>1. Stored' \subseteq ChunkId
      BY <1>a, <2>3 DEF UseIsKnown
    <3>2. ASSUME NEW d \in Stored'
          PROVE  /\ chunks'[d].used \in Nat /\ chunks'[d].whole \in BOOLEAN
                 /\ chunks'[d] = [used |-> chunks'[d].used, whole |-> chunks'[d].whole]
                 /\ chunks'[d].used <= today
                 /\ chunks'[d].used \in {0, shownOn[d]}
      <4>1. CASE d = c
        <5>1. chunks'[d].used = 0 /\ chunks'[d].whole = TRUE /\ chunks'[d] = [used |-> 0, whole |-> TRUE]
          BY <2>3, <4>1
        <5> QED
          BY <1>a, <5>1
      <4>2. CASE d # c
        <5>1. d \in Stored /\ chunks'[d] = chunks[d]
          BY <2>3, <4>2
        <5> QED
          BY <1>a, <5>1 DEF UseIsKnown
      <4> QED
        BY <4>1, <4>2
    <3> QED
      BY <2>2, <3>1, <3>2 DEF UseIsKnown
  <2>5. CountHolds'
    <3>1. IsFiniteSet(Stored') /\ Stored \subseteq Stored'
      BY <1>b, <2>3, FS_AddElement
    <3>2. Cardinality(Stored) <= Cardinality(Stored') /\ Cardinality(Stored') \in Nat
      BY <3>1, FS_Subset, FS_CardinalityType
    <3>3. ASSUME NEW p \in Searcher, searcher[p].pc = "cap", ~searcher[p].late
          PROVE  Cardinality(Stored') >= MaxChunks + searcher[p].excess
      <4>1. Cardinality(Stored) >= MaxChunks + searcher[p].excess /\ searcher[p].excess \in Nat
        BY <1>c, <3>3 DEF LifeInv, CountHolds
      <4> QED
        BY <1>b, <3>2, <4>1
    <3> QED
      BY <2>2, <3>3 DEF CountHolds
  <2> QED
    BY <1>a, <2>2, <2>4, <2>5 DEF LifeInv, SearchersTyped
<1>10. CASE DayPasses
  <2>1. UNCHANGED <<chunks, shownOn, searcher>> /\ today' = today + 1
    BY <1>10 DEF DayPasses
  <2>2. UseIsKnown'
    BY <1>a, <2>1 DEF UseIsKnown, Stored
  <2>3. SearchersTyped'
    BY <1>a, <1>c, <2>1 DEF SearchersTyped
  <2>4. CountHolds'
    BY <2>1 DEF LifeInv, CountHolds, Stored
  <2>5. today' \in Nat /\ \A c \in ChunkId : shownOn'[c] <= today'
    BY <1>a, <2>1
  <2> QED
    BY <1>a, <2>1, <2>2, <2>3, <2>4, <2>5 DEF LifeInv
<1>11. CASE UNCHANGED lifeVars
  BY <1>11 DEF lifeVars, LifeInv, UseIsKnown, SearchersTyped, CountHolds, Stored
<1> QED
  BY <1>1, <1>2, <1>3, <1>4, <1>5, <1>6, <1>7, <1>8, <1>9, <1>10, <1>11 DEF LifeNext

LEMMA LifeInit0 == LifeInit => LifeInv
<1> SUFFICES ASSUME LifeInit PROVE LifeInv
  OBVIOUS
<1>1. Stored = ChunkId /\ \A c \in ChunkId : chunks[c] \in [used : {0, 1}, whole : {TRUE}]
  BY DEF LifeInit, Stored
<1>2. today = 1 /\ shownOn = [c \in ChunkId |-> chunks[c].used] /\ searcher = [p \in Searcher |-> NoSearch]
  BY DEF LifeInit
<1>a. \A c \in ChunkId : /\ chunks[c].used \in {0, 1} /\ chunks[c].whole = TRUE
                         /\ chunks[c] = [used |-> chunks[c].used, whole |-> chunks[c].whole]
  BY <1>1
<1>b. \A c \in ChunkId : shownOn[c] = chunks[c].used
  BY <1>2
<1>e. today = 1 /\ \A c \in ChunkId : chunks[c].used \in {0, 1}
  BY <1>2, <1>a
<1>c. \A c \in ChunkId : chunks[c].used \in Nat /\ chunks[c].used <= today /\ shownOn[c] \in Nat
                         /\ shownOn[c] <= today /\ chunks[c].used \in {0, shownOn[c]}
  BY <1>e, <1>b
<1>d. \A c \in ChunkId : chunks[c].whole \in BOOLEAN
  BY <1>a
<1>3. UseIsKnown
  BY <1>1, <1>a, <1>c, <1>d, Zenon DEF UseIsKnown
<1>4. shownOn \in [ChunkId -> Nat] /\ \A c \in ChunkId : shownOn[c] <= today
  BY <1>2, <1>c
<1>5. SearchersTyped /\ CountHolds
  BY <1>2 DEF SearchersTyped, CountHolds, SearchState, SearchStep, Servings, NoSearch
<1>6. Cardinality(ChunkId) \in Nat
  BY LifeAssumption, FS_CardinalityType
<1>7. \A p \in Searcher : searcher[p].excess <= Cardinality(ChunkId)
  BY <1>2, <1>6 DEF NoSearch
<1> QED
  BY <1>2, <1>3, <1>4, <1>5, <1>7 DEF LifeInv

(* Whatever searches run at once, their variables keep their types.        *)
THEOREM LifeTypeCorrect == LifeSpec => []LifeTypeOK
<1>1. LifeInv => LifeTypeOK
  <2> SUFFICES ASSUME LifeInv PROVE LifeTypeOK
    OBVIOUS
  <2>1. Stored \subseteq ChunkId /\ \A c \in Stored : chunks[c] \in [used : 0..today, whole : BOOLEAN]
    <3>1. ASSUME NEW c \in Stored PROVE chunks[c] \in [used : 0..today, whole : BOOLEAN]
      <4>1. chunks[c] = [used |-> chunks[c].used, whole |-> chunks[c].whole]
            /\ chunks[c].used \in 0..today /\ chunks[c].whole \in BOOLEAN
        BY DEF LifeInv, UseIsKnown
      <4> QED
        BY <4>1
    <3> QED
      BY <3>1 DEF LifeInv, UseIsKnown
  <2>2. shownOn \in [ChunkId -> 0..today]
    BY DEF LifeInv
  <2>3. \A p \in Searcher : searcher[p].pc \in SearchStep /\ searcher[p].serves \subseteq ChunkId
                            /\ searcher[p].excess <= Cardinality(ChunkId)
    BY DEF LifeInv, SearchersTyped, SearchState, Servings
  <2> QED
    BY <2>1, <2>2, <2>3 DEF LifeTypeOK, SearchStep
<1> QED
  BY <1>1, LifeInit0, LifeInvStep, PTL DEF LifeSpec

(* A chunk that was served and marked within ActiveDays stays, and stays   *)
(* whole, whichever servers run their lifecycles (ArchiveStage, PruneStage *)
(* and CapStage of RunLifecycle) over it and however old those are; only   *)
(* the cap takes it, after it was indexed again or when nothing used less  *)
(* recently is left; and the cap leaves MaxChunks, unless another server   *)
(* deleted after the count.                                                *)
THEOREM UseIsKept == LifeSpec => UsedIsKept
<1> DEFINE Kept(c) == \/ c \in DOMAIN chunks' /\ (chunks[c].whole => chunks'[c].whole)
                      \/ /\ c \notin DOMAIN chunks'
                         /\ \E p \in Searcher : searcher[p].pc = "cap" /\ searcher'[p].pc = "idle"
                         /\ \/ chunks[c].used < shownOn[c]
                            \/ \A d \in DOMAIN chunks' \ Exempt : chunks[d].used >= chunks[c].used
           Recent(c) == shownOn[c] > 0 /\ today - shownOn[c] <= ActiveDays
<1>1. ASSUME LifeInv, LifeNext, NEW c \in Stored, Recent(c) PROVE Kept(c)
  <2>1. /\ c \in ChunkId /\ chunks[c].used \in Nat /\ shownOn[c] \in Nat /\ today \in Nat
        /\ chunks[c].used \in {0, shownOn[c]} /\ chunks[c].whole \in BOOLEAN
        /\ chunks[c] = [used |-> chunks[c].used, whole |-> chunks[c].whole]
    BY <1>1 DEF LifeInv, UseIsKnown
  <2>2. ASSUME NEW p \in Searcher, Ages(p, c) PROVE Unused(p, c) <= ActiveDays /\ Unused(p, c) <= ArchiveDays
    <3>1. chunks[c].used = shownOn[c] /\ searcher[p].now \in Nat /\ searcher[p].now <= today
      BY <1>1, <2>1, <2>2 DEF Ages, LifeInv, SearchersTyped, SearchState
    <3> QED
      BY <1>1, <2>1, <3>1, LifeAssumption DEF Unused
  <2>3. CASE chunks' = chunks
    BY <1>1, <2>3 DEF Stored
  <2>4. ASSUME NEW p \in Searcher, UpdateLastAccessed(p), chunks' # chunks PROVE Kept(c)
    <3>1. chunks' = [d \in Stored |-> IF d \in searcher[p].serves \cap Stored
                                      THEN [chunks[d] EXCEPT !.used = today] ELSE chunks[d]]
      BY <2>4 DEF UpdateLastAccessed
    <3> QED
      BY <1>1, <2>1, <3>1
  <2>5. ASSUME NEW p \in Searcher, ArchiveStage(p) PROVE Kept(c)
    <3> DEFINE cold(d) == Ages(p, d) /\ Unused(p, d) > ActiveDays /\ Unused(p, d) <= ArchiveDays
    <3>1. chunks' = [d \in Stored |-> IF cold(d) THEN [chunks[d] EXCEPT !.whole = FALSE] ELSE chunks[d]]
      BY <2>5 DEF ArchiveStage
    <3>2. ~cold(c)
      <4>1. Unused(p, c) \in Nat
        BY <1>1, <2>1 DEF Unused, LifeInv, SearchersTyped, SearchState
      <4> QED
        BY <2>2, <4>1, LifeAssumption
    <3> HIDE DEF cold
    <3> QED
      BY <1>1, <3>1, <3>2
  <2>6. ASSUME NEW p \in Searcher, PruneStage(p) PROVE Kept(c)
    <3>1. chunks' = [d \in Stored \ {e \in Stored : Ages(p, e) /\ Unused(p, e) > ArchiveDays} |-> chunks[d]]
      BY <2>6 DEF PruneStage, Deletes
    <3>2. ~(Ages(p, c) /\ Unused(p, c) > ArchiveDays)
      <4>1. Unused(p, c) \in Nat
        BY <1>1, <2>1 DEF Unused, LifeInv, SearchersTyped, SearchState
      <4> QED
        BY <2>2, <4>1, LifeAssumption
    <3> QED
      BY <1>1, <3>1, <3>2
  <2>7. ASSUME NEW p \in Searcher, CapStage(p) PROVE Kept(c)
    <3>1. PICK gone \in LeastUsed(Stored \ Exempt, searcher[p].excess) : Deletes(p, gone, NoSearch)
      BY <2>7 DEF CapStage
    <3>2. chunks' = [d \in Stored \ gone |-> chunks[d]] /\ searcher'[p] = NoSearch /\ searcher[p].pc = "cap"
      BY <2>7, <3>1 DEF Deletes, CapStage
    <3>3. DOMAIN chunks' = Stored \ gone
      BY <3>2
    <3>4. CASE c \notin gone
      BY <1>1, <3>2, <3>3, <3>4
    <3>5. CASE c \in gone
      <4>1. \A d \in (Stored \ Exempt) \ gone : chunks[c].used <= chunks[d].used
        BY <3>1, <3>5 DEF LeastUsed
      <4>2. \A d \in DOMAIN chunks' \ Exempt : chunks[d].used >= chunks[c].used
        <5>1. \A d \in Stored : chunks[d].used \in Nat
          BY <1>1 DEF LifeInv, UseIsKnown
        <5> QED
          BY <2>1, <3>3, <4>1, <5>1
      <4>3. searcher'[p].pc = "idle"
        BY <3>2 DEF NoSearch
      <4> QED
        BY <3>2, <3>3, <3>5, <4>2, <4>3
    <3> QED
      BY <3>4, <3>5
  <2>8. CASE Upsert
    <3>1. PICK e \in ChunkId : chunks' = [d \in Stored \cup {e} |->
                                 IF d = e THEN [used |-> 0, whole |-> TRUE] ELSE chunks[d]]
      BY <2>8 DEF Upsert
    <3> QED
      BY <1>1, <3>1
  <2>9. LifeNext => \/ chunks' = chunks
                    \/ \E p \in Searcher : \/ UpdateLastAccessed(p) \/ ArchiveStage(p) \/ PruneStage(p)
                                           \/ CapStage(p)
                    \/ Upsert
    BY DEF LifeNext, ToolSearch, RunLifecycle, CountStage, LifecycleFails, DayPasses
  <2> QED
    BY <1>1, <2>3, <2>4, <2>5, <2>6, <2>7, <2>8, <2>9
<1>2. ASSUME LifeInv, LifeNext, NEW p \in Searcher, searcher[p].pc = "cap", ~searcher[p].late,
             searcher'[p].pc = "idle"
      PROVE  Cardinality(Stored') >= MaxChunks
  <2>1. /\ Cardinality(Stored) >= MaxChunks + searcher[p].excess /\ searcher[p].excess \in Nat
        /\ IsFiniteSet(Stored) /\ Cardinality(Stored) \in Nat /\ MaxChunks \in Nat
    <3>1. IsFiniteSet(Stored)
      BY <1>2, LifeAssumption, FS_Subset DEF LifeInv, UseIsKnown
    <3>2. searcher[p].excess \in Nat
      BY <1>2 DEF LifeInv, SearchersTyped, SearchState
    <3>3. Cardinality(Stored) >= MaxChunks + searcher[p].excess
      BY <1>2 DEF LifeInv, CountHolds
    <3> QED
      BY <3>1, <3>2, <3>3, FS_CardinalityType, LifeAssumption
  <2>2. \A q \in Searcher : searcher[q] \in SearchState
    BY <1>2 DEF LifeInv, SearchersTyped
  <2>3. \A q \in Searcher : ~ToolSearch(q) \/ q # p
    BY <1>2 DEF ToolSearch
  <2>4. CapStage(p) \/ LifecycleFails(p)
    <3>1. PICK q \in Searcher : \/ ToolSearch(q) \/ UpdateLastAccessed(q) \/ RunLifecycle(q)
                                \/ ArchiveStage(q) \/ PruneStage(q) \/ CountStage(q) \/ CapStage(q)
                                \/ LifecycleFails(q)
      BY <1>2 DEF LifeNext, Upsert, DayPasses
    <3>2. CASE q # p
      <4>0. DOMAIN searcher = Searcher
        BY <1>2 DEF LifeInv, SearchersTyped
      <4>3. ASSUME PruneStage(q) \/ CapStage(q)
            PROVE  searcher'[p] = searcher[p] \/ searcher'[p] = [searcher[p] EXCEPT !.late = TRUE]
        <5>1. PICK gone, to : Deletes(q, gone, to)
          BY <4>3 DEF PruneStage, CapStage
        <5>2. searcher'[p] = (IF gone = {} THEN searcher[p] ELSE [searcher[p] EXCEPT !.late = TRUE])
          BY <3>2, <5>1 DEF Deletes
        <5> QED
          BY <5>2
      <4>4. ASSUME ~(PruneStage(q) \/ CapStage(q)) PROVE searcher'[p] = searcher[p]
        <5>1. \E to : searcher' = [searcher EXCEPT ![q] = to]
          BY <3>1, <4>4 DEF ToolSearch, UpdateLastAccessed, RunLifecycle, ArchiveStage, CountStage,
                            LifecycleFails, Steps
        <5> QED
          BY <3>2, <4>0, <5>1
      <4>1. searcher'[p] = searcher[p] \/ searcher'[p] = [searcher[p] EXCEPT !.late = TRUE]
        BY <4>3, <4>4, Zenon
      <4>2. searcher'[p].pc = "cap"
        BY <1>2, <2>2, <4>1, SearcherMoves
      <4> QED
        BY <1>2, <4>2
    <3>3. CASE q = p
      BY <1>2, <3>1, <3>3 DEF ToolSearch, UpdateLastAccessed, RunLifecycle, ArchiveStage, PruneStage,
                              CountStage, Steps
    <3> QED
      BY <3>2, <3>3
  <2>5. CASE LifecycleFails(p)
    BY <2>1, <2>5 DEF LifecycleFails, Stored
  <2>6. CASE CapStage(p)
    <3>1. PICK gone \in LeastUsed(Stored \ Exempt, searcher[p].excess) : Deletes(p, gone, NoSearch)
      BY <2>6 DEF CapStage
    <3>2. Stored' = Stored \ gone
      BY <3>1 DEF Deletes, Stored
    <3> DEFINE S == Stored \ Exempt
    <3>3. gone \subseteq S
          /\ Cardinality(gone) = (IF searcher[p].excess < Cardinality(S) THEN searcher[p].excess ELSE Cardinality(S))
      BY <3>1 DEF LeastUsed
    <3>4. IsFiniteSet(S) /\ IsFiniteSet(gone) /\ Stored \cap gone = gone
      BY <2>1, <3>3, FS_Subset
    <3>5. Cardinality(S) \in Nat /\ Cardinality(gone) \in Nat
      BY <3>4, FS_CardinalityType
    <3> HIDE DEF S
    <3>6. Cardinality(gone) <= searcher[p].excess
      BY <2>1, <3>3, <3>5
    <3>7. Cardinality(Stored \ gone) = Cardinality(Stored) - Cardinality(Stored \cap gone)
      BY <2>1, FS_Difference
    <3>8. Cardinality(Stored \ gone) >= MaxChunks
      BY <2>1, <3>4, <3>5, <3>6, <3>7
    <3> QED
      BY <3>2, <3>8
  <2> QED
    BY <2>4, <2>5, <2>6
<1> DEFINE All ==
             /\ \A c \in Stored : shownOn[c] > 0 /\ today - shownOn[c] <= ActiveDays =>
                  \/ c \in DOMAIN chunks' /\ (chunks[c].whole => chunks'[c].whole)
                  \/ /\ c \notin DOMAIN chunks' /\ \E p \in Searcher : searcher[p].pc = "cap" /\ searcher'[p].pc = "idle"
                     /\ \/ chunks[c].used < shownOn[c]
                        \/ \A d \in DOMAIN chunks' \ Exempt : chunks[d].used >= chunks[c].used
             /\ \A p \in Searcher : searcher[p].pc = "cap" /\ ~searcher[p].late /\ searcher'[p].pc = "idle"
                  => Cardinality(DOMAIN chunks') >= MaxChunks
<1>3. LifeInv /\ [LifeNext]_lifeVars => [All]_lifeVars
  <2>1. LifeInv /\ LifeNext => \A p \in Searcher :
          searcher[p].pc = "cap" /\ ~searcher[p].late /\ searcher'[p].pc = "idle"
            => Cardinality(DOMAIN chunks') >= MaxChunks
    BY <1>2 DEF Stored
  <2> QED
    BY <1>1, <2>1
<1> QED
  BY <1>3, LifeInit0, LifeInvStep, PTL DEF LifeSpec, UsedIsKept

-----------------------------------------------------------------------------
(* The configuration.                                                      *)

FileConf == [depth : 0..2, git : BOOLEAN, path : BOOLEAN, cap : {-1, 0, 1, 9}]
Copies == [depth : 0..2, git : BOOLEAN, path : BOOLEAN, cap : {-1, 0, 1}]

ConfPlace == {"off", "lock", "rename", "load", "ready", "write", "gone"}
AtWork == {"ready", "write"}
KeySets == SUBSET Key
ConfProcess == [pc : ConfPlace, copy : Copies, since : Nat, sound : BOOLEAN, set : KeySets]

(* What is in the files, and what the last whole one loads as. *)
FilesAreSound ==
  /\ confFile.conf \in FileConf
  /\ oldFile # None => oldFile.kind = "whole" /\ oldFile.conf \in FileConf
  /\ shown \in Copies
  /\ confFile.kind # "torn" => shown = LoadConfig(confFile)

ChangesAreCounted ==
  /\ saves \in Nat
  /\ \A k \in Key : changed[k].at \in 0..saves

ProcessesAreSound ==
  /\ conf \in [ConfProc -> ConfProcess]
  /\ \A p \in ConfProc : /\ conf[p].since <= saves
                         /\ "depth" \notin conf[p].set => conf[p].copy.depth # 0

(* Until the old directory is renamed or the migration disturbed, nobody   *)
(* loads and the new directory is not made.                                *)
OldStaysOut ==
  oldFile # None /\ ~disturbed =>
    ~newDir /\ \A p \in ConfProc : conf[p].pc \in {"off", "lock", "rename", "gone"}

(* Why a copy may differ from the file in a key its process did not set.   *)
Excused(p, k) ==
  \/ changed[k].at > conf[p].since /\ changed[k].by # p
  \/ ~conf[p].sound
  \/ k = "cap" /\ conf[p].copy.cap = 0
  \/ k = "git" /\ "depth" \in conf[p].set

Follows(p) ==
  conf[p].pc \in AtWork =>
    \A k \in Key \ conf[p].set : conf[p].copy[k] = shown[k] \/ Excused(p, k)

CopiesFollow == \A p \in ConfProc : Follows(p)

ConfInv == FilesAreSound /\ ChangesAreCounted /\ ProcessesAreSound /\ OldStaysOut /\ CopiesFollow

-----------------------------------------------------------------------------
(* A whole file loads as what is in it, but for a depth of zero and a cap  *)
(* that is not there.                                                      *)
LEMMA LoadIs ==
  ASSUME NEW f, f.kind = "whole", f.conf \in FileConf
  PROVE  LoadConfig(f) = [depth |-> IF f.conf.depth = 0 THEN 2 ELSE f.conf.depth,
                          git |-> IF f.conf.depth = 0 THEN TRUE ELSE f.conf.git,
                          path |-> f.conf.path,
                          cap |-> IF f.conf.cap = 9 THEN -1 ELSE f.conf.cap]
  BY DEF FileConf, LoadConfig, DefaultConfig

LEMMA DefaultIsSound == DefaultConfig \in FileConf /\ DefaultConfig \in Copies /\ DefaultConfig.depth # 0
  BY DEF DefaultConfig, FileConf, Copies

(* Whatever is in the file, a process has a copy without zero depth.       *)
LEMMA LoadIsSound ==
  ASSUME NEW f, f.conf \in FileConf
  PROVE  LoadConfig(f) \in Copies /\ LoadConfig(f).depth # 0
<1>1. CASE f.kind = "whole"
  <2> DEFINE d == IF f.conf.depth = 0 THEN 2 ELSE f.conf.depth
             g == IF f.conf.depth = 0 THEN TRUE ELSE f.conf.git
             c == IF f.conf.cap = 9 THEN -1 ELSE f.conf.cap
  <2>1. d \in 0..2 /\ d # 0
    BY DEF FileConf
  <2>2. g \in BOOLEAN
    BY Zenon DEF FileConf
  <2>3. c \in {-1, 0, 1} /\ f.conf.path \in BOOLEAN
    BY DEF FileConf
  <2>4. LoadConfig(f) = [depth |-> d, git |-> g, path |-> f.conf.path, cap |-> c]
    BY <1>1, LoadIs
  <2> HIDE DEF d, g, c
  <2> QED BY <2>1, <2>2, <2>3, <2>4 DEF Copies
<1>2. CASE f.kind # "whole"
  BY <1>2, DefaultIsSound DEF LoadConfig
<1> QED BY <1>1, <1>2

(* What is saved loads as the copy, but for a cap of zero and for git when *)
(* the depth is zero.                                                      *)
LEMMA SavedIsLoaded ==
  ASSUME NEW c \in Copies
  PROVE  /\ Whole(c).kind = "whole" /\ Whole(c).conf \in FileConf
         /\ \A k \in Key : \/ LoadConfig(Whole(c))[k] = c[k]
                           \/ k = "cap" /\ c.cap = 0
                           \/ k \in {"git", "depth"} /\ c.depth = 0
<1> DEFINE w == Whole(c)
<1>1. /\ w.kind = "whole" /\ w.conf \in FileConf
      /\ w.conf.depth = c.depth /\ w.conf.git = c.git /\ w.conf.path = c.path
      /\ w.conf.cap = IF c.cap = 0 THEN 9 ELSE c.cap
  <2>1. w.kind = "whole" /\ w.conf = IF c.cap = 0 THEN [c EXCEPT !.cap = 9] ELSE c
    BY DEF Whole
  <2>2. CASE c.cap = 0
    BY <2>1, <2>2 DEF FileConf, Copies
  <2>3. CASE c.cap # 0
    BY <2>1, <2>3 DEF FileConf, Copies
  <2> QED BY <2>2, <2>3
<1> HIDE DEF w
<1>2. LoadConfig(w) = [depth |-> IF c.depth = 0 THEN 2 ELSE c.depth,
                       git |-> IF c.depth = 0 THEN TRUE ELSE c.git,
                       path |-> c.path,
                       cap |-> IF w.conf.cap = 9 THEN -1 ELSE w.conf.cap]
  BY <1>1, LoadIs
<1>3. c.cap # 0 => c.cap # 9 /\ w.conf.cap = c.cap
  BY <1>1 DEF Copies
<1>4. ASSUME NEW k \in Key, ~(k = "cap" /\ c.cap = 0), ~(k \in {"git", "depth"} /\ c.depth = 0)
      PROVE  LoadConfig(w)[k] = c[k]
  <2>1. CASE k = "cap"
    BY <1>2, <1>3, <1>4, <2>1
  <2>2. CASE k = "git"
    <3>1. c.depth # 0
      BY <1>4, <2>2
    <3> DEFINE g == IF c.depth = 0 THEN TRUE ELSE c.git
    <3>2. g = c.git
      BY <3>1
    <3> HIDE DEF g
    <3>3. LoadConfig(w).git = g
      BY <1>2 DEF g
    <3> QED BY <2>2, <3>2, <3>3
  <2>3. CASE k = "depth"
    BY <1>2, <1>4, <2>3
  <2>4. CASE k = "path"
    BY <1>2, <2>4
  <2> QED BY <2>1, <2>2, <2>3, <2>4 DEF Key
<1> QED BY <1>1, <1>4 DEF w

(* Setting a key changes that key alone.                                   *)
LEMMA SetIsAlone ==
  ASSUME NEW c \in Copies, NEW k \in Key \ {"cap"}, NEW v \in {0, 1}
  PROVE  /\ SetValue(c, k, v) \in Copies
         /\ \A j \in Key \ {k} : SetValue(c, k, v)[j] = c[j]
         /\ SetValue(c, k, v).cap = c.cap
         /\ k # "depth" => SetValue(c, k, v).depth = c.depth
<1>1. CASE k = "depth"
  BY <1>1 DEF SetValue, Key, Copies
<1>2. CASE k = "git"
  BY <1>2 DEF SetValue, Key, Copies
<1>3. CASE k = "path"
  BY <1>3 DEF SetValue, Key, Copies
<1> QED BY <1>1, <1>2, <1>3 DEF Key

-----------------------------------------------------------------------------
LEMMA ConfInitInv == ConfInit => ConfInv
<1> SUFFICES ASSUME ConfInit PROVE ConfInv
  OBVIOUS
<1> DEFINE written == Whole([DefaultConfig EXCEPT !.git = FALSE, !.depth = 1])
<1>1. /\ newDir \in BOOLEAN
      /\ confFile \in {None} \cup (IF newDir THEN {written} ELSE {})
      /\ oldFile \in {None} \cup (IF newDir THEN {} ELSE {written})
      /\ conf = [p \in ConfProc |-> Off]
      /\ shown = LoadConfig(confFile)
      /\ saves = 0 /\ changed = [k \in Key |-> [at |-> 0, by |-> "nobody"]]
  BY DEF ConfInit
<1>2. written.kind = "whole" /\ written.conf \in FileConf
  <2>1. [DefaultConfig EXCEPT !.git = FALSE, !.depth = 1] \in Copies
    <3>1. [DefaultConfig EXCEPT !.git = FALSE] \in Copies
      BY DefaultIsSound DEF Copies
    <3>2. \A c \in Copies : [c EXCEPT !.depth = 1] \in Copies
      BY DEF Copies
    <3>3. [DefaultConfig EXCEPT !.git = FALSE, !.depth = 1] = [[DefaultConfig EXCEPT !.git = FALSE] EXCEPT !.depth = 1]
      OBVIOUS
    <3> QED BY <3>1, <3>2, <3>3
  <2> QED BY <2>1, SavedIsLoaded
<1>3. None.conf \in FileConf
  BY DefaultIsSound DEF None
<1> HIDE DEF written
<1>4. confFile.conf \in FileConf /\ (oldFile # None => oldFile = written /\ ~newDir)
  BY <1>1, <1>2, <1>3
<1>5. FilesAreSound
  BY <1>1, <1>2, <1>4, LoadIsSound DEF FilesAreSound
<1>6. ChangesAreCounted
  BY <1>1 DEF ChangesAreCounted
<1>7. Off \in ConfProcess /\ Off.pc = "off" /\ Off.since = 0 /\ Off.copy.depth # 0
  BY DefaultIsSound DEF Off, ConfProcess, ConfPlace, KeySets
<1>8. ProcessesAreSound
  BY <1>1, <1>7 DEF ProcessesAreSound
<1>9. OldStaysOut
  BY <1>1, <1>4, <1>7 DEF OldStaysOut
<1>10. CopiesFollow
  BY <1>1, <1>7 DEF CopiesFollow, Follows, AtWork
<1> QED BY <1>5, <1>6, <1>8, <1>9, <1>10 DEF ConfInv

-----------------------------------------------------------------------------
(* A key that gets another value is marked with the save that gave it.     *)
LEMMA ContentIsMarked ==
  ASSUME ConfInv, NEW f, f.kind \in {"whole", "torn"}, f.conf \in FileConf, NEW who, NewContent(f, who)
  PROVE  /\ confFile'.conf \in FileConf
         /\ shown' \in Copies
         /\ confFile'.kind # "torn" => shown' = LoadConfig(confFile')
         /\ saves' = saves + 1
         /\ ChangesAreCounted'
         /\ \A k \in Key : \/ shown'[k] = shown[k] /\ changed'[k] = changed[k]
                           \/ changed'[k].at = saves + 1 /\ changed'[k].by = who
<1>1. /\ confFile' = f
      /\ shown' = IF f.kind = "whole" THEN LoadConfig(f) ELSE shown
      /\ saves' = saves + 1
      /\ changed' = [k \in Key |-> IF shown'[k] # shown[k] THEN [at |-> saves + 1, by |-> who]
                                   ELSE changed[k]]
  BY DEF NewContent
<1>2. shown \in Copies
  BY DEF ConfInv, FilesAreSound
<1>3. shown' \in Copies
  <2>1. LoadConfig(f) \in Copies
    BY LoadIsSound
  <2> QED BY <1>1, <1>2, <2>1
<1>4. confFile'.kind # "torn" => shown' = LoadConfig(confFile')
  BY <1>1
<1>5. saves \in Nat /\ \A k \in Key : changed[k].at \in 0..saves
  BY DEF ConfInv, ChangesAreCounted
<1>6. ASSUME NEW k \in Key
      PROVE  /\ \/ shown'[k] = shown[k] /\ changed'[k] = changed[k]
                \/ changed'[k].at = saves + 1 /\ changed'[k].by = who
             /\ changed'[k].at \in 0..(saves + 1)
  <2>1. changed'[k] = IF shown'[k] # shown[k] THEN [at |-> saves + 1, by |-> who] ELSE changed[k]
    BY <1>1
  <2>2. CASE shown'[k] # shown[k]
    <3>1. changed'[k] = [at |-> saves + 1, by |-> who]
      BY <2>1, <2>2
    <3>2. changed'[k].at = saves + 1 /\ changed'[k].by = who
      BY <3>1
    <3> QED BY <3>2, <1>5
  <2>3. CASE shown'[k] = shown[k]
    <3>1. changed'[k] = changed[k]
      BY <2>1, <2>3
    <3> QED BY <3>1, <2>3, <1>5
  <2> QED BY <2>2, <2>3
<1>7. ChangesAreCounted'
  BY <1>1, <1>5, <1>6 DEF ChangesAreCounted
<1> QED BY <1>1, <1>3, <1>4, <1>6, <1>7

(* A process whose copy stays as it is: what is new in the file is marked  *)
(* as another's.                                                           *)
LEMMA OthersFollow ==
  ASSUME ConfInv, NEW f, f.kind \in {"whole", "torn"}, f.conf \in FileConf, NEW who, NewContent(f, who),
         NEW q \in ConfProc, q # who,
         conf'[q].pc = conf[q].pc, conf'[q].copy = conf[q].copy, conf'[q].since = conf[q].since,
         conf'[q].sound = conf[q].sound, conf'[q].set = conf[q].set
  PROVE  Follows(q)'
<1>1. Follows(q) /\ conf[q].since <= saves /\ conf[q].since \in Nat /\ saves \in Nat
  BY DEF ConfInv, CopiesFollow, ProcessesAreSound, ChangesAreCounted, ConfProcess
<1>2. \A k \in Key : \/ shown'[k] = shown[k] /\ changed'[k] = changed[k]
                     \/ changed'[k].at = saves + 1 /\ changed'[k].by = who
  BY ContentIsMarked
<1>3. ASSUME conf'[q].pc \in AtWork, NEW k \in Key \ conf'[q].set
      PROVE  conf'[q].copy[k] = shown'[k] \/ Excused(q, k)'
  <2>1. CASE changed'[k].at = saves + 1 /\ changed'[k].by = who
    <3>1. saves + 1 > conf[q].since
      BY <1>1
    <3>2. changed'[k].at > conf'[q].since /\ changed'[k].by # q
      BY <2>1, <3>1
    <3> QED BY <3>2 DEF Excused
  <2>2. CASE shown'[k] = shown[k] /\ changed'[k] = changed[k]
    <3>1. conf[q].copy[k] = shown[k] \/ Excused(q, k)
      BY <1>1, <1>3 DEF Follows
    <3> QED BY <3>1, <2>2 DEF Excused
  <2> QED BY <1>2, <1>3, <2>1, <2>2
<1> QED BY <1>3 DEF Follows

(* A step of one process that gives the file no new content.               *)
LEMMA QuietStep ==
  ASSUME ConfInv, NEW p \in ConfProc, UNCHANGED <<shown, saves, changed, oldFile>>,
         confFile' = confFile \/ confFile' = Torn,
         conf' \in [ConfProc -> ConfProcess],
         \A q \in ConfProc \ {p} : conf'[q] = conf[q],
         conf'[p].since <= saves, "depth" \notin conf'[p].set => conf'[p].copy.depth # 0,
         Follows(p)', OldStaysOut'
  PROVE  ConfInv'
<1>1. FilesAreSound'
  <2>1. Torn.kind = "torn" /\ Torn.conf \in FileConf
    BY DefaultIsSound DEF Torn
  <2> QED BY <2>1 DEF ConfInv, FilesAreSound
<1>2. ChangesAreCounted'
  BY DEF ConfInv, ChangesAreCounted
<1>3. ProcessesAreSound'
  <2>1. ASSUME NEW q \in ConfProc
        PROVE  conf'[q].since <= saves /\ ("depth" \notin conf'[q].set => conf'[q].copy.depth # 0)
    <3>1. CASE q = p
      BY <3>1
    <3>2. CASE q # p
      BY <3>2 DEF ConfInv, ProcessesAreSound
    <3> QED BY <3>1, <3>2
  <2> QED BY <2>1 DEF ProcessesAreSound
<1>4. CopiesFollow'
  <2>1. ASSUME NEW q \in ConfProc, q # p
        PROVE  Follows(q)'
    <3>1. conf'[q] = conf[q] /\ Follows(q)
      BY <2>1 DEF ConfInv, CopiesFollow
    <3> QED BY <3>1 DEF Follows, Excused
  <2> QED BY <2>1 DEF CopiesFollow
<1> QED BY <1>1, <1>2, <1>3, <1>4 DEF ConfInv

(* What one process's new record does to the function of them all.         *)
LEMMA Stepped ==
  ASSUME ConfInv, NEW p \in ConfProc, NEW c \in ConfProcess, conf' = [conf EXCEPT ![p] = c]
  PROVE  /\ conf' \in [ConfProc -> ConfProcess]
         /\ \A q \in ConfProc \ {p} : conf'[q] = conf[q]
         /\ conf'[p] = c
  BY DEF ConfInv, ProcessesAreSound

LEMMA Place ==
  ASSUME ConfInv, NEW p \in ConfProc, NEW from, NEW to \in ConfPlace, At(p, from, to)
  PROVE  /\ conf[p].pc = from
         /\ conf' \in [ConfProc -> ConfProcess]
         /\ \A q \in ConfProc \ {p} : conf'[q] = conf[q]
         /\ conf'[p].pc = to /\ conf'[p].copy = conf[p].copy /\ conf'[p].since = conf[p].since
         /\ conf'[p].sound = conf[p].sound /\ conf'[p].set = conf[p].set
<1> DEFINE c == [conf[p] EXCEPT !.pc = to]
<1>1. conf[p] \in ConfProcess /\ conf[p].pc = from /\ conf \in [ConfProc -> ConfProcess]
  BY DEF At, ConfInv, ProcessesAreSound
<1>2. /\ c \in ConfProcess /\ c.pc = to /\ c.copy = conf[p].copy /\ c.since = conf[p].since
      /\ c.sound = conf[p].sound /\ c.set = conf[p].set
  BY <1>1 DEF ConfProcess
<1>3. conf' = [conf EXCEPT ![p] = c]
  BY <1>1 DEF At
<1> HIDE DEF c
<1> QED BY <1>1, <1>2, <1>3, Stepped

LEMMA GoneIsSound ==
  /\ Gone \in ConfProcess /\ Gone.pc = "gone" /\ Gone.since = 0 /\ Gone.copy.depth # 0
  /\ Off \in ConfProcess /\ Off.set = {} /\ Off.since = 0 /\ Off.copy.depth # 0
  BY DefaultIsSound DEF Gone, Off, ConfProcess, ConfPlace, KeySets

-----------------------------------------------------------------------------
LEMMA ProcessIsSound ==
  ASSUME ConfInv, NEW p \in ConfProc
  PROVE  /\ conf[p] \in ConfProcess /\ conf[p].copy \in Copies /\ conf[p].set \in KeySets
         /\ conf[p].since <= saves /\ conf[p].since \in Nat /\ saves \in Nat
         /\ "depth" \notin conf[p].set => conf[p].copy.depth # 0
         /\ Follows(p)
  BY DEF ConfInv, ProcessesAreSound, ChangesAreCounted, CopiesFollow, ConfProcess

(* The steps of a process that is not at work yet.                         *)
LEMMA EarlyStep ==
  ASSUME ConfInv, NEW p \in ConfProc, NEW from, NEW to \in ConfPlace \ AtWork, At(p, from, to),
         UNCHANGED <<fileVars, oldFile>>, OldStaysOut'
  PROVE  ConfInv'
<1>1. UNCHANGED <<confFile, shown, saves, changed, oldFile>>
  BY DEF fileVars
<1>2. /\ conf' \in [ConfProc -> ConfProcess]
      /\ \A q \in ConfProc \ {p} : conf'[q] = conf[q]
      /\ conf'[p].pc = to /\ conf'[p].copy = conf[p].copy /\ conf'[p].since = conf[p].since
      /\ conf'[p].set = conf[p].set
  BY Place
<1>3. conf[p].since <= saves /\ ("depth" \notin conf[p].set => conf[p].copy.depth # 0)
  BY ProcessIsSound
<1>4. Follows(p)'
  BY <1>2 DEF Follows
<1> QED BY <1>1, <1>2, <1>3, <1>4, QuietStep

LEMMA LookForOldInv ==
  ASSUME ConfInv, NEW p \in ConfProc, LookForOld(p)
  PROVE  ConfInv'
<1> DEFINE to == IF oldFile = None THEN "load" ELSE "lock"
<1>1. At(p, "off", to) /\ UNCHANGED <<fileVars, oldFile>> /\ newDir' = newDir /\ disturbed' = disturbed
  BY DEF LookForOld
<1>2. to \in ConfPlace \ AtWork /\ (oldFile # None => to = "lock")
  BY DEF ConfPlace, AtWork
<1> HIDE DEF to
<1>3. conf'[p].pc = to /\ \A q \in ConfProc \ {p} : conf'[q] = conf[q]
  BY <1>1, <1>2, Place
<1>4. OldStaysOut'
  <2>1. OldStaysOut
    BY DEF ConfInv
  <2>2. oldFile' = oldFile
    BY <1>1
  <2> SUFFICES ASSUME oldFile' # None /\ ~disturbed', NEW q \in ConfProc
               PROVE  ~newDir' /\ conf'[q].pc \in {"off", "lock", "rename", "gone"}
    BY <1>1, <2>1, <2>2 DEF OldStaysOut
  <2>3. ~newDir /\ conf[q].pc \in {"off", "lock", "rename", "gone"}
    BY <1>1, <2>1, <2>2 DEF OldStaysOut
  <2>4. CASE q = p
    BY <1>1, <1>2, <1>3, <2>2, <2>3, <2>4
  <2>5. CASE q # p
    BY <1>1, <1>3, <2>3, <2>5
  <2> QED BY <2>4, <2>5
<1> QED BY <1>1, <1>2, <1>4, EarlyStep

LEMMA LockMigrationInv ==
  ASSUME ConfInv, NEW p \in ConfProc, LockMigration(p)
  PROVE  ConfInv'
<1> DEFINE to == IF migrator = "nobody" THEN "rename" ELSE "load"
<1>1. /\ At(p, "lock", to) /\ UNCHANGED <<fileVars, oldFile>> /\ newDir' = newDir
      /\ disturbed' = (disturbed \/ migrator # "nobody")
  BY DEF LockMigration
<1>2. to \in ConfPlace \ AtWork /\ (migrator = "nobody" => to = "rename")
  BY DEF ConfPlace, AtWork
<1> HIDE DEF to
<1>3. conf'[p].pc = to /\ \A q \in ConfProc \ {p} : conf'[q] = conf[q]
  BY <1>1, <1>2, Place
<1>4. OldStaysOut'
  <2>1. OldStaysOut
    BY DEF ConfInv
  <2>2. oldFile' = oldFile
    BY <1>1
  <2>a. ~disturbed' => ~disturbed /\ migrator = "nobody"
    BY <1>1
  <2> SUFFICES ASSUME oldFile' # None /\ ~disturbed'
               PROVE  ~newDir' /\ \A q \in ConfProc : conf'[q].pc \in {"off", "lock", "rename", "gone"}
    BY DEF OldStaysOut
  <2>3. ~newDir /\ \A q \in ConfProc : conf[q].pc \in {"off", "lock", "rename", "gone"}
    BY <2>1, <2>2, <2>a DEF OldStaysOut
  <2>4. ASSUME NEW q \in ConfProc
        PROVE  conf'[q].pc \in {"off", "lock", "rename", "gone"}
    <3>1. CASE q = p
      BY <1>2, <1>3, <2>a, <3>1
    <3>2. CASE q # p
      BY <1>3, <2>3, <3>2
    <3> QED BY <3>1, <3>2
  <2> QED BY <1>1, <2>3, <2>4
<1> QED BY <1>1, <1>2, <1>4, EarlyStep

(* The renaming: the file gets the old content, or nothing is renamed.     *)
LEMMA RenameInv ==
  ASSUME ConfInv, NEW p \in ConfProc, RenameConfigDir(p)
  PROVE  ConfInv'
<1>1. At(p, "rename", "load") /\ "load" \in ConfPlace \ AtWork
  BY DEF RenameConfigDir, ConfPlace, AtWork
<1>2. /\ conf' \in [ConfProc -> ConfProcess]
      /\ \A q \in ConfProc \ {p} : conf'[q] = conf[q]
      /\ conf'[p].pc = "load" /\ conf'[p].copy = conf[p].copy /\ conf'[p].since = conf[p].since
      /\ conf'[p].set = conf[p].set
  BY <1>1, Place
<1>3. CASE /\ MayRename /\ NewContent(oldFile, "migration") /\ oldFile' = None
  <2>1. oldFile.kind = "whole" /\ oldFile.conf \in FileConf
    BY <1>3 DEF MayRename, ConfInv, FilesAreSound
  <2>2. /\ confFile'.conf \in FileConf /\ shown' \in Copies
        /\ confFile'.kind # "torn" => shown' = LoadConfig(confFile')
        /\ saves' = saves + 1 /\ ChangesAreCounted'
    BY <1>3, <2>1, ContentIsMarked
  <2>3. FilesAreSound' /\ OldStaysOut'
    BY <1>3, <2>2 DEF FilesAreSound, OldStaysOut
  <2>4. ASSUME NEW q \in ConfProc
        PROVE  conf'[q].since <= saves' /\ ("depth" \notin conf'[q].set => conf'[q].copy.depth # 0)
    <3>1. conf'[q].since = conf[q].since /\ conf'[q].set = conf[q].set /\ conf'[q].copy = conf[q].copy
      BY <1>2
    <3>2. /\ conf[q].since <= saves /\ conf[q].since \in Nat /\ saves \in Nat
          /\ "depth" \notin conf[q].set => conf[q].copy.depth # 0
      BY ProcessIsSound
    <3> QED BY <3>1, <3>2, <2>2
  <2>5. ProcessesAreSound'
    BY <1>2, <2>4 DEF ProcessesAreSound
  <2>6. ASSUME NEW q \in ConfProc
        PROVE  Follows(q)'
    <3>1. CASE q = p
      BY <1>2, <3>1 DEF Follows, AtWork
    <3>2. CASE q # p
      <4>1. conf'[q] = conf[q]
        BY <1>2, <3>2
      <4>2. q # "migration"
        BY NamesAssumption DEF ConfProc
      <4> QED BY <1>3, <2>1, <4>1, <4>2, OthersFollow
    <3> QED BY <3>1, <3>2
  <2> QED BY <2>2, <2>3, <2>5, <2>6 DEF ConfInv, CopiesFollow
<1>4. CASE disturbed' = TRUE /\ UNCHANGED <<fileVars, oldFile>>
  <2>1. OldStaysOut'
    BY <1>4 DEF OldStaysOut
  <2> QED BY <1>1, <1>4, <2>1, EarlyStep
<1>5. CASE ~MayRename /\ UNCHANGED <<fileVars, oldFile, newDir, disturbed>>
  <2>1. OldStaysOut'
    BY <1>5 DEF OldStaysOut, MayRename, ConfInv
  <2> QED BY <1>1, <1>5, <2>1, EarlyStep
<1> QED BY <1>3, <1>4, <1>5 DEF RenameConfigDir

-----------------------------------------------------------------------------
(* Once a process loads, the old directory is gone or the migration was    *)
(* disturbed.                                                              *)
LEMMA OldIsOver ==
  ASSUME ConfInv, NEW p \in ConfProc, conf[p].pc \in {"load", "ready", "write"},
         oldFile' = oldFile, disturbed' = disturbed
  PROVE  OldStaysOut'
<1>1. oldFile = None \/ disturbed
  BY DEF ConfInv, OldStaysOut
<1> QED BY <1>1 DEF OldStaysOut

LEMMA LoadInv ==
  ASSUME ConfInv, NEW p \in ConfProc, Load(p)
  PROVE  ConfInv'
<1> DEFINE copy == LoadConfig(confFile)
           sound == confFile.kind # "torn"
           c == [Off EXCEPT !.pc = "ready", !.copy = copy, !.since = saves, !.sound = sound]
<1>1. /\ conf[p].pc = "load" /\ conf' = [conf EXCEPT ![p] = c]
      /\ UNCHANGED <<confFile, shown, saves, changed, oldFile>> /\ disturbed' = disturbed
  BY DEF Load, fileVars
<1>2. copy \in Copies /\ copy.depth # 0 /\ (sound => shown = copy) /\ sound \in BOOLEAN
  BY LoadIsSound DEF ConfInv, FilesAreSound
<1>3. saves \in Nat
  BY DEF ConfInv, ChangesAreCounted
<1> HIDE DEF copy, sound
<1>4. /\ c \in ConfProcess /\ c.pc = "ready" /\ c.copy = copy /\ c.since = saves
      /\ c.sound = sound /\ c.set = {}
  <2> DEFINE o1 == [Off EXCEPT !.pc = "ready"]
             o2 == [o1 EXCEPT !.copy = copy]
             o3 == [o2 EXCEPT !.since = saves]
  <2>1. c = [o3 EXCEPT !.sound = sound]
    OBVIOUS
  <2>2. Off \in ConfProcess /\ Off.set = {}
    BY GoneIsSound
  <2> HIDE DEF c
  <2>3. o1 \in ConfProcess /\ o1.pc = "ready" /\ o1.set = {}
    BY <2>2 DEF ConfProcess, ConfPlace
  <2> HIDE DEF o1
  <2>4. o2 \in ConfProcess /\ o2.pc = "ready" /\ o2.copy = copy /\ o2.set = {}
    BY <1>2, <2>3 DEF ConfProcess
  <2> HIDE DEF o2
  <2>5. o3 \in ConfProcess /\ o3.pc = "ready" /\ o3.copy = copy /\ o3.since = saves /\ o3.set = {}
    BY <1>3, <2>4 DEF ConfProcess
  <2> HIDE DEF o3
  <2> QED BY <1>2, <2>1, <2>5 DEF ConfProcess
<1> HIDE DEF c
<1>8. /\ conf' \in [ConfProc -> ConfProcess]
      /\ \A q \in ConfProc \ {p} : conf'[q] = conf[q]
      /\ conf'[p] = c
  BY <1>1, <1>4, Stepped
<1>9. Follows(p)'
  <2>1. CASE sound
    BY <1>1, <1>2, <1>4, <1>8, <2>1 DEF Follows
  <2>2. CASE ~sound
    BY <1>4, <1>8, <2>2 DEF Follows, Excused
  <2> QED BY <2>1, <2>2
<1>10. saves <= saves
  BY <1>3
<1>11. OldStaysOut'
  BY <1>1, OldIsOver
<1> QED BY <1>1, <1>2, <1>4, <1>8, <1>9, <1>10, <1>11, QuietStep

LEMMA NewOllamaClientInv ==
  ASSUME ConfInv, NEW p \in ConfProc, NewOllamaClient(p)
  PROVE  ConfInv'
<1>1. conf' = [conf EXCEPT ![p] = [conf[p] EXCEPT !.copy = conf[p].copy]]
  BY DEF NewOllamaClient, KeptCopy, ConfInv, ProcessesAreSound
<1>2. [conf[p] EXCEPT !.copy = conf[p].copy] = conf[p]
  BY ProcessIsSound DEF ConfProcess
<1>3. conf' = conf
  BY <1>1, <1>2 DEF ConfInv, ProcessesAreSound
<1>4. UNCHANGED <<confFile, shown, saves, changed, oldFile, newDir, disturbed>>
  BY DEF NewOllamaClient, fileVars
<1> QED
  BY <1>3, <1>4 DEF ConfInv, FilesAreSound, ChangesAreCounted, ProcessesAreSound, OldStaysOut,
                    CopiesFollow, Follows, Excused

(* What a process at work holds once it has set a key.                     *)
LEMMA ChangedIsSound ==
  ASSUME ConfInv, NEW p \in ConfProc, NEW k \in Key \ {"cap"}, NEW v \in {0, 1}, conf[p].pc \in AtWork
  PROVE  LET c == Changed(p, k, v)
         IN  /\ c \in ConfProcess /\ c.pc = conf[p].pc /\ c.since = conf[p].since
             /\ c.sound = conf[p].sound /\ c.set = conf[p].set \cup {k}
             /\ "depth" \notin c.set => c.copy.depth # 0
             /\ \A j \in Key \ c.set : \/ c.copy[j] = shown[j]
                                       \/ changed[j].at > c.since /\ changed[j].by # p
                                       \/ ~c.sound
                                       \/ j = "cap" /\ c.copy.cap = 0
                                       \/ j = "git" /\ "depth" \in c.set
<1> DEFINE copy == SetValue(conf[p].copy, k, v)
           set == conf[p].set \cup {k}
           c == Changed(p, k, v)
<1>1. /\ conf[p] \in ConfProcess /\ conf[p].copy \in Copies /\ conf[p].set \in KeySets
      /\ "depth" \notin conf[p].set => conf[p].copy.depth # 0
      /\ Follows(p)
  BY ProcessIsSound
<1>2. /\ copy \in Copies
      /\ \A j \in Key \ {k} : copy[j] = conf[p].copy[j]
      /\ copy.cap = conf[p].copy.cap
      /\ k # "depth" => copy.depth = conf[p].copy.depth
  BY <1>1, SetIsAlone
<1>3. set \in KeySets
  BY <1>1 DEF KeySets
<1>4. c = [[conf[p] EXCEPT !.copy = copy] EXCEPT !.set = set]
  BY DEF Changed
<1> HIDE DEF copy, c
<1>5. c \in ConfProcess
  <2>1. [conf[p] EXCEPT !.copy = copy] \in ConfProcess
    BY <1>1, <1>2 DEF ConfProcess
  <2> HIDE DEF set
  <2> QED BY <1>3, <1>4, <2>1 DEF ConfProcess
<1>6. /\ c.pc = conf[p].pc /\ c.since = conf[p].since /\ c.sound = conf[p].sound
      /\ c.copy = copy /\ c.set = set
  BY <1>1, <1>4 DEF ConfProcess
<1>7. "depth" \notin set => copy.depth # 0
  BY <1>1, <1>2
<1>8. ASSUME NEW j \in Key \ set
      PROVE  \/ copy[j] = shown[j]
             \/ changed[j].at > c.since /\ changed[j].by # p
             \/ ~c.sound
             \/ j = "cap" /\ copy.cap = 0
             \/ j = "git" /\ "depth" \in set
  <2>1. copy[j] = conf[p].copy[j]
    BY <1>2, <1>8
  <2>2. conf[p].copy[j] = shown[j] \/ Excused(p, j)
    BY <1>1, <1>8 DEF Follows
  <2> QED BY <1>2, <1>6, <2>1, <2>2 DEF Excused
<1> QED BY <1>5, <1>6, <1>7, <1>8 DEF c

LEMMA SetKeyInv ==
  ASSUME ConfInv, NEW p \in ConfProc, NEW k \in Key \ {"cap"}, NEW v \in {0, 1}, SetKey(p, k, v)
  PROVE  ConfInv'
<1> DEFINE c == Changed(p, k, v)
           w == [c EXCEPT !.pc = "write"]
<1>1. /\ conf[p].pc = "ready" /\ conf' = [conf EXCEPT ![p] = w]
      /\ confFile' = Torn /\ UNCHANGED <<shown, saves, changed, oldFile>> /\ disturbed' = disturbed
  BY DEF SetKey, Ready
<1>2. /\ c \in ConfProcess /\ c.since = conf[p].since
      /\ "depth" \notin c.set => c.copy.depth # 0
      /\ \A j \in Key \ c.set : \/ c.copy[j] = shown[j]
                                \/ changed[j].at > c.since /\ changed[j].by # p
                                \/ ~c.sound
                                \/ j = "cap" /\ c.copy.cap = 0
                                \/ j = "git" /\ "depth" \in c.set
  BY <1>1, ChangedIsSound DEF AtWork
<1> HIDE DEF c
<1>3. /\ w \in ConfProcess /\ w.copy = c.copy /\ w.since = c.since /\ w.sound = c.sound /\ w.set = c.set
  BY <1>2 DEF ConfProcess, ConfPlace
<1> HIDE DEF w
<1>4. /\ conf' \in [ConfProc -> ConfProcess]
      /\ \A q \in ConfProc \ {p} : conf'[q] = conf[q]
      /\ conf'[p] = w
  BY <1>1, <1>3, Stepped
<1>5. Follows(p)'
  BY <1>1, <1>2, <1>3, <1>4 DEF Follows, Excused
<1>6. OldStaysOut'
  BY <1>1, OldIsOver
<1>7. conf[p].since <= saves
  BY ProcessIsSound
<1> QED BY <1>1, <1>2, <1>3, <1>4, <1>5, <1>6, <1>7, QuietStep

(* A process that ends, however it does.                                   *)
LEMMA EndInv ==
  ASSUME ConfInv, NEW p \in ConfProc, conf' = [conf EXCEPT ![p] = Gone],
         UNCHANGED <<fileVars, oldFile, newDir>>, disturbed => disturbed'
  PROVE  ConfInv'
<1>1. /\ conf' \in [ConfProc -> ConfProcess]
      /\ \A q \in ConfProc \ {p} : conf'[q] = conf[q]
      /\ conf'[p] = Gone
  BY GoneIsSound, Stepped
<1>2. UNCHANGED <<confFile, shown, saves, changed, oldFile>>
  BY DEF fileVars
<1>3. Follows(p)'
  BY <1>1, GoneIsSound DEF Follows, AtWork
<1>4. OldStaysOut'
  <2>1. \A q \in ConfProc : conf'[q] = conf[q] \/ conf'[q].pc = "gone"
    BY <1>1, GoneIsSound
  <2> QED BY <2>1 DEF ConfInv, OldStaysOut
<1>5. Gone.since <= saves
  BY GoneIsSound DEF ConfInv, ChangesAreCounted
<1> QED BY <1>1, <1>2, <1>3, <1>4, <1>5, GoneIsSound, QuietStep

LEMMA SetFailsInv ==
  ASSUME ConfInv, NEW p \in ConfProc, NEW k \in Key \ {"cap"}, NEW v \in {0, 1}, SetFails(p, k, v)
  PROVE  ConfInv'
<1> DEFINE c == Changed(p, k, v)
<1>1. /\ conf[p].pc = "ready" /\ conf' = [conf EXCEPT ![p] = IF p \in Shell THEN Gone ELSE c]
      /\ UNCHANGED <<fileVars, oldFile, newDir>> /\ disturbed' = disturbed
      /\ UNCHANGED <<confFile, shown, saves, changed>>
  BY DEF SetFails, Ready, fileVars
<1>2. /\ c \in ConfProcess /\ c.since = conf[p].since
      /\ "depth" \notin c.set => c.copy.depth # 0
      /\ \A j \in Key \ c.set : \/ c.copy[j] = shown[j]
                                \/ changed[j].at > c.since /\ changed[j].by # p
                                \/ ~c.sound
                                \/ j = "cap" /\ c.copy.cap = 0
                                \/ j = "git" /\ "depth" \in c.set
  BY <1>1, ChangedIsSound DEF AtWork
<1> HIDE DEF c
<1>3. CASE p \in Shell
  BY <1>1, <1>3, EndInv
<1>4. CASE p \notin Shell
  <2>1. /\ conf' \in [ConfProc -> ConfProcess]
        /\ \A q \in ConfProc \ {p} : conf'[q] = conf[q]
        /\ conf'[p] = c
    BY <1>1, <1>2, <1>4, Stepped
  <2>2. Follows(p)'
    BY <1>1, <1>2, <2>1 DEF Follows, Excused
  <2>3. OldStaysOut'
    BY <1>1, OldIsOver
  <2>4. conf[p].since <= saves
    BY ProcessIsSound
  <2> QED BY <1>1, <1>2, <2>1, <2>2, <2>3, <2>4, QuietStep
<1> QED BY <1>3, <1>4

(* The end of a save: a server goes on with what it saved.                 *)
LEMMA FinishSaveInv ==
  ASSUME ConfInv, NEW p \in ConfProc, FinishSave(p)
  PROVE  ConfInv'
<1> DEFINE s == [conf[p] EXCEPT !.pc = "ready"]
           c == IF p \in Shell THEN Gone ELSE s
<1>1. /\ conf[p].pc = "write" /\ conf' = [conf EXCEPT ![p] = c]
      /\ oldFile' = oldFile /\ disturbed' = disturbed
  BY DEF FinishSave, ConfInv, ProcessesAreSound
<1>2. /\ conf[p] \in ConfProcess /\ conf[p].copy \in Copies /\ conf[p].since <= saves
      /\ saves \in Nat /\ conf[p].since \in Nat
      /\ "depth" \notin conf[p].set => conf[p].copy.depth # 0
      /\ Follows(p)
  BY ProcessIsSound
<1>3. PICK f \in {Whole(conf[p].copy)} \cup (IF confFile = Torn THEN {} ELSE {Torn}) : NewContent(f, p)
  BY DEF FinishSave
<1>4. /\ f = Whole(conf[p].copy) \/ f.kind = "torn"
      /\ f.kind \in {"whole", "torn"} /\ f.conf \in FileConf
  <2>1. Torn.kind = "torn" /\ Torn.conf \in FileConf
    BY DefaultIsSound DEF Torn
  <2> QED BY <1>2, <1>3, <2>1, SavedIsLoaded
<1>5. /\ confFile'.conf \in FileConf /\ shown' \in Copies
      /\ confFile'.kind # "torn" => shown' = LoadConfig(confFile')
      /\ saves' = saves + 1 /\ ChangesAreCounted'
      /\ \A k \in Key : \/ shown'[k] = shown[k] /\ changed'[k] = changed[k]
                        \/ changed'[k].at = saves + 1 /\ changed'[k].by = p
  BY <1>3, <1>4, ContentIsMarked
<1>6. FilesAreSound'
  BY <1>1, <1>5 DEF ConfInv, FilesAreSound
<1>7. /\ s \in ConfProcess /\ s.copy = conf[p].copy /\ s.since = conf[p].since
      /\ s.sound = conf[p].sound /\ s.set = conf[p].set
  BY <1>2 DEF ConfProcess, ConfPlace
<1> HIDE DEF s
<1>8. c \in ConfProcess /\ (c = Gone \/ c = s)
  BY <1>7, GoneIsSound
<1> HIDE DEF c
<1>9. /\ conf' \in [ConfProc -> ConfProcess]
      /\ \A q \in ConfProc \ {p} : conf'[q] = conf[q]
      /\ conf'[p] = c
  BY <1>1, <1>8, Stepped
<1>10. ProcessesAreSound'
  <2>1. ASSUME NEW q \in ConfProc
        PROVE  conf'[q].since <= saves' /\ ("depth" \notin conf'[q].set => conf'[q].copy.depth # 0)
    <3>1. CASE q = p
      <4>1. c.since \in Nat /\ c.since <= saves /\ ("depth" \notin c.set => c.copy.depth # 0)
        BY <1>2, <1>7, <1>8, GoneIsSound
      <4> QED BY <1>2, <1>5, <1>9, <3>1, <4>1
    <3>2. CASE q # p
      <4>1. conf[q].since <= saves /\ conf[q].since \in Nat /\ ("depth" \notin conf[q].set => conf[q].copy.depth # 0)
        BY ProcessIsSound
      <4> QED BY <1>2, <1>5, <1>9, <3>2, <4>1
    <3> QED BY <3>1, <3>2
  <2> QED BY <1>9, <2>1 DEF ProcessesAreSound
<1>11. OldStaysOut'
  BY <1>1, OldIsOver
<1>12. Follows(p)'
  <2>1. CASE c = Gone
    BY <1>9, <2>1, GoneIsSound DEF Follows, AtWork
  <2>2. CASE c = s
    <3> SUFFICES ASSUME NEW k \in Key \ s.set
                 PROVE  s.copy[k] = shown'[k] \/ Excused(p, k)'
      BY <1>9, <2>2 DEF Follows
    <3>1. CASE f.kind = "torn"
      <4>1. shown' = shown /\ changed'[k] = changed[k]
        BY <1>3, <3>1 DEF NewContent
      <4>2. conf[p].copy[k] = shown[k] \/ Excused(p, k)
        BY <1>1, <1>2, <1>7 DEF Follows, AtWork
      <4> QED BY <1>7, <1>9, <2>2, <4>1, <4>2 DEF Excused
    <3>2. CASE f = Whole(conf[p].copy) /\ f.kind # "torn"
      <4>1. shown' = LoadConfig(Whole(conf[p].copy))
        BY <1>3, <1>5, <3>2 DEF NewContent
      <4>2. \/ shown'[k] = conf[p].copy[k]
            \/ k = "cap" /\ conf[p].copy.cap = 0
            \/ k \in {"git", "depth"} /\ conf[p].copy.depth = 0
        BY <1>2, <4>1, SavedIsLoaded
      <4>3. k \in {"git", "depth"} /\ conf[p].copy.depth = 0 => k = "git" /\ "depth" \in s.set
        BY <1>2, <1>7
      <4> QED BY <1>7, <1>9, <2>2, <4>2, <4>3 DEF Excused
    <3> QED BY <1>4, <3>1, <3>2
  <2> QED BY <1>8, <2>1, <2>2
<1>13. ASSUME NEW q \in ConfProc, q # p
       PROVE  Follows(q)'
  BY <1>3, <1>4, <1>9, <1>13, OthersFollow
<1> QED BY <1>5, <1>6, <1>10, <1>11, <1>12, <1>13 DEF ConfInv, CopiesFollow

LEMMA EditByHandInv ==
  ASSUME ConfInv, NEW n \in {0, 1}, EditByHand(n)
  PROVE  ConfInv'
<1> DEFINE f == [kind |-> "whole", conf |-> [LoadConfig(confFile) EXCEPT !.cap = n]]
<1>1. newDir /\ NewContent(f, "user") /\ UNCHANGED <<oldFile, newDir, conf, disturbed>>
  BY DEF EditByHand
<1>2. f.kind = "whole" /\ f.conf \in FileConf
  <2>1. LoadConfig(confFile) \in Copies
    BY LoadIsSound DEF ConfInv, FilesAreSound
  <2> DEFINE g == [LoadConfig(confFile) EXCEPT !.cap = n]
  <2>2. g \in FileConf
    BY <2>1 DEF FileConf, Copies
  <2> HIDE DEF g
  <2> QED BY <2>2 DEF g
<1> HIDE DEF f
<1>3. /\ confFile'.conf \in FileConf /\ shown' \in Copies
      /\ confFile'.kind # "torn" => shown' = LoadConfig(confFile')
      /\ saves' = saves + 1 /\ ChangesAreCounted'
  BY <1>1, <1>2, ContentIsMarked
<1>4. FilesAreSound'
  BY <1>1, <1>3 DEF ConfInv, FilesAreSound
<1>5. ProcessesAreSound'
  <2>1. ASSUME NEW q \in ConfProc
        PROVE  conf'[q].since <= saves' /\ ("depth" \notin conf'[q].set => conf'[q].copy.depth # 0)
    <3>1. /\ conf[q].since <= saves /\ conf[q].since \in Nat /\ saves \in Nat
          /\ "depth" \notin conf[q].set => conf[q].copy.depth # 0
      BY ProcessIsSound
    <3> QED BY <1>1, <1>3, <3>1
  <2> QED BY <1>1, <2>1 DEF ConfInv, ProcessesAreSound
<1>6. OldStaysOut'
  BY <1>1 DEF ConfInv, OldStaysOut
<1>7. ASSUME NEW q \in ConfProc
      PROVE  Follows(q)'
  <2>1. q # "user"
    BY NamesAssumption DEF ConfProc
  <2> QED BY <1>1, <1>2, <2>1, OthersFollow
<1> QED BY <1>3, <1>4, <1>5, <1>6, <1>7 DEF ConfInv, CopiesFollow

-----------------------------------------------------------------------------
LEMMA ConfStepInv == ConfInv /\ [ConfNext]_confVars => ConfInv'
<1> SUFFICES ASSUME ConfInv, [ConfNext]_confVars PROVE ConfInv'
  OBVIOUS
<1>1. ASSUME NEW p \in ConfProc, LookForOld(p) PROVE ConfInv'
  BY <1>1, LookForOldInv
<1>2. ASSUME NEW p \in ConfProc, LockMigration(p) PROVE ConfInv'
  BY <1>2, LockMigrationInv
<1>3. ASSUME NEW p \in ConfProc, RenameConfigDir(p) PROVE ConfInv'
  BY <1>3, RenameInv
<1>4. ASSUME NEW p \in ConfProc, Load(p) PROVE ConfInv'
  BY <1>4, LoadInv
<1>5. ASSUME NEW p \in ConfProc, NewOllamaClient(p) PROVE ConfInv'
  BY <1>5, NewOllamaClientInv
<1>6. ASSUME NEW p \in ConfProc, NEW k \in Key \ {"cap"}, NEW v \in {0, 1}, SetKey(p, k, v) PROVE ConfInv'
  BY <1>6, SetKeyInv
<1>7. ASSUME NEW p \in ConfProc, NEW k \in Key \ {"cap"}, NEW v \in {0, 1}, SetFails(p, k, v) PROVE ConfInv'
  BY <1>7, SetFailsInv
<1>8. ASSUME NEW p \in ConfProc, FinishSave(p) PROVE ConfInv'
  BY <1>8, FinishSaveInv
<1>9. ASSUME NEW p \in ConfProc, EndOfProcess(p) \/ KillProcess(p) PROVE ConfInv'
  <2>1. conf' = [conf EXCEPT ![p] = Gone] /\ UNCHANGED <<fileVars, oldFile, newDir>>
    BY <1>9 DEF EndOfProcess, KillProcess
  <2>2. disturbed => disturbed'
    BY <1>9, Zenon DEF EndOfProcess, KillProcess
  <2> QED BY <2>1, <2>2, EndInv
<1>10. ASSUME NEW n \in {0, 1}, EditByHand(n) PROVE ConfInv'
  BY <1>10, EditByHandInv
<1>11. CASE UNCHANGED confVars
  BY <1>11 DEF confVars, fileVars, ConfInv, FilesAreSound, ChangesAreCounted, ProcessesAreSound,
               OldStaysOut, CopiesFollow, Follows, Excused
<1> QED
  BY <1>1, <1>2, <1>3, <1>4, <1>5, <1>6, <1>7, <1>8, <1>9, <1>10, <1>11 DEF ConfNext

(* The invariant says what the files and the copies may hold, so nothing   *)
(* of the environment and no old configuration at work.                    *)
LEMMA ConfInvSays == ConfInv => EnvStaysOut /\ OldConfigIsSeen
<1> SUFFICES ASSUME ConfInv PROVE EnvStaysOut /\ OldConfigIsSeen
  OBVIOUS
<1>1. confFile.conf.cap \in {-1, 0, 1, 9}
  BY DEF ConfInv, FilesAreSound, FileConf
<1>2. EnvStaysOut
  BY <1>1, CapAssumption DEF EnvStaysOut
<1>3. OldConfigIsSeen
  BY DEF ConfInv, OldStaysOut, OldConfigIsSeen
<1> QED BY <1>2, <1>3

(* A whole save changes no key its process did not set, but for the        *)
(* reasons named.                                                          *)
LEMMA SaveUndoesNothing ==
  ASSUME ConfInv, NEW p \in ConfProc, FinishSave(p), confFile'.kind = "whole", NEW k \in Key \ conf[p].set
  PROVE  shown'[k] = shown[k] \/ Excused(p, k)
<1>1. /\ conf[p].pc = "write" /\ Follows(p) /\ conf[p].copy \in Copies
      /\ "depth" \notin conf[p].set => conf[p].copy.depth # 0
  BY ProcessIsSound DEF FinishSave
<1>2. PICK f \in {Whole(conf[p].copy)} \cup (IF confFile = Torn THEN {} ELSE {Torn}) : NewContent(f, p)
  BY DEF FinishSave
<1>3. confFile' = f /\ f.kind = "whole" /\ f = Whole(conf[p].copy)
  <2>1. confFile' = f
    BY <1>2 DEF NewContent
  <2> QED BY <1>2, <2>1 DEF Torn
<1>4. shown' = LoadConfig(Whole(conf[p].copy))
  BY <1>2, <1>3 DEF NewContent
<1>5. \/ shown'[k] = conf[p].copy[k]
      \/ k = "cap" /\ conf[p].copy.cap = 0
      \/ k \in {"git", "depth"} /\ conf[p].copy.depth = 0
  BY <1>1, <1>4, SavedIsLoaded
<1>6. k \in {"git", "depth"} /\ conf[p].copy.depth = 0 => k = "git" /\ "depth" \in conf[p].set
  BY <1>1
<1>7. conf[p].copy[k] = shown[k] \/ Excused(p, k)
  BY <1>1 DEF Follows, AtWork
<1> QED BY <1>5, <1>6, <1>7 DEF Excused

(* For any number of servers and commands: a save undoes nothing that was  *)
(* set unless its process's copy was stale, and neither the environment    *)
(* nor the old directory takes the place of what was set.                  *)
THEOREM SetStaysSet == ConfSpec => OnlyStaleCopiesUndo
<1> DEFINE All ==
      /\ \A p \in ConfProc : FinishSave(p) /\ confFile'.kind = "whole" =>
           \A k \in Key \ conf[p].set :
             \/ shown'[k] = shown[k]
             \/ changed[k].at > conf[p].since /\ changed[k].by # p
             \/ ~conf[p].sound
             \/ k = "cap" /\ conf[p].copy.cap = 0
             \/ k = "git" /\ "depth" \in conf[p].set
      /\ EnvStaysOut' /\ OldConfigIsSeen'
<1>1. ConfInit => ConfInv
  BY ConfInitInv
<1>2. ConfInv /\ [ConfNext]_confVars => ConfInv'
  BY ConfStepInv
<1>3. ConfInv /\ [ConfNext]_confVars => [All]_confVars
  <2> SUFFICES ASSUME ConfInv, [ConfNext]_confVars PROVE All
    OBVIOUS
  <2>1. ASSUME NEW p \in ConfProc, FinishSave(p), confFile'.kind = "whole", NEW k \in Key \ conf[p].set
        PROVE  \/ shown'[k] = shown[k]
               \/ changed[k].at > conf[p].since /\ changed[k].by # p
               \/ ~conf[p].sound
               \/ k = "cap" /\ conf[p].copy.cap = 0
               \/ k = "git" /\ "depth" \in conf[p].set
    BY <2>1, SaveUndoesNothing DEF Excused
  <2>2. EnvStaysOut' /\ OldConfigIsSeen'
    <3>1. ConfInv'
      BY ConfStepInv
    <3> QED BY <3>1, ConfInvSays, PTL
  <2> QED BY <2>1, <2>2
<1> QED BY <1>1, <1>2, <1>3, PTL DEF ConfSpec, OnlyStaleCopiesUndo

-----------------------------------------------------------------------------
(* The registry of projects.                                               *)

(* No reserved name is ever in a registry.                                 *)
Registries == {e \in [Path -> Where \cup {"none"}] : \A p \in Path : BaseName[p] \in Reserved => e[p] = "none"}
ModelSets == SUBSET Model
IndexDirs == Outer \X Where
Markers == [by : Command \cup {"nobody", "torn"}, models : ModelSets]
RunPlace == {"idle", "choose", "mark", "unmarked", "index", "clean"}
CommandRun == [pc : RunPlace, path : Path \cup {""}, db : Where, saw : ModelSets, models : ModelSets,
               left : ModelSets, entries : Registries, since : Nat, found : SUBSET Path]
Named(found) == {p \in found : BaseName[p] \notin Reserved}

RegistryIsSound ==
  /\ registryFile \in Registries /\ served \in Registries
  /\ projectSaves \in Nat /\ servedAt \in Nat /\ servedAt <= projectSaves
  /\ bornAt \in [Path -> Nat]
  /\ wrote \in [Path -> Where \cup {"nowhere"}]
  /\ marker \in [IndexDirs -> Markers] /\ stopped \in [IndexDirs -> ModelSets]
  /\ markerTmp \in [IndexDirs -> Markers]
  /\ command \in [Command -> CommandRun]

(* A copy lacks a path of the file only if that came after it was loaded.  *)
LacksOnlyNewer(listed, from) ==
  \A p \in Paths(registryFile) \ Paths(listed) : bornAt[p] > from

DirOf(c) == <<command[c].path, command[c].db>>

(* The marker and the temporary that are a run's own name its models, and  *)
(* no earlier run of its directory counts as cut off.                      *)
Marked(c) ==
  /\ command[c].pc \in {"index", "clean"} =>
       /\ stopped[DirOf(c)] = {}
       /\ marker[DirOf(c)].by = c => marker[DirOf(c)].models = command[c].models
  /\ command[c].pc \in {"mark", "unmarked", "index", "clean"} =>
       (markerTmp[DirOf(c)].by = c => markerTmp[DirOf(c)].models = command[c].models)

(* A run registers what it found.                                          *)
RunIsSound(c) ==
  /\ command[c].since <= projectSaves
  /\ command[c].pc # "idle" => command[c].path \in Outer
  /\ command[c].pc \in {"choose", "mark", "unmarked"} => command[c].found = {}
  /\ command[c].pc # "idle" => Named(command[c].found) \subseteq Paths(command[c].entries)
  /\ Marked(c)
  /\ command[c].pc = "index" => LacksOnlyNewer(command[c].entries, command[c].since)

StoppedAreMarked == \A d \in IndexDirs : stopped[d] # {} => marker[d].models = stopped[d]

WrittenIsServed == \A p \in Path : wrote[p] # "nowhere" => StatusBaseDir(p) = wrote[p]

ProjectsInv ==
  /\ RegistryIsSound
  /\ \A c \in Command : RunIsSound(c)
  /\ StoppedAreMarked /\ WrittenIsServed
  /\ LacksOnlyNewer(served, servedAt) /\ LacksOnlyNewer(NoEntries, 0)

-----------------------------------------------------------------------------
LEMMA RegistryFacts == ASSUME ProjectsInv PROVE RegistryIsSound
  BY DEF ProjectsInv

LEMMA RunFacts ==
  ASSUME ProjectsInv, NEW c \in Command
  PROVE  command[c] \in CommandRun /\ RunIsSound(c)
  BY DEF ProjectsInv, RegistryIsSound

(* Registering takes no path out of a registry; the repair of the entries  *)
(* takes none out and brings none in.                                      *)
LEMMA RegisterKeeps ==
  ASSUME NEW e \in Registries, NEW path \in Path, NEW db \in Where
  PROVE  /\ Register(e, path, db) \in Registries
         /\ Paths(e) \subseteq Paths(Register(e, path, db))
         /\ BaseName[path] \notin Reserved => Register(e, path, db)[path] = db
         /\ BaseName[path] \in Reserved => Register(e, path, db)[path] = "none"
         /\ \A p \in Path \ {path} : Register(e, path, db)[p] = e[p]
<1>1. CASE BaseName[path] \in Reserved
  BY <1>1 DEF Register, Registries
<1>2. CASE BaseName[path] \notin Reserved
  <2> DEFINE r == [e EXCEPT ![path] = db]
  <2>1. Register(e, path, db) = r
    BY <1>2 DEF Register
  <2>2. /\ r \in [Path -> Where \cup {"none"}] /\ r[path] = db /\ db # "none"
        /\ \A p \in Path \ {path} : r[p] = e[p]
    BY DEF Registries, Where
  <2> HIDE DEF r
  <2>3. r \in Registries
    BY <1>2, <2>2 DEF Registries
  <2>4. Paths(e) \subseteq Paths(r)
    BY <2>2 DEF Paths
  <2> QED BY <1>2, <2>1, <2>2, <2>3, <2>4
<1> QED BY <1>1, <1>2

LEMMA RegisterFoundKeeps ==
  ASSUME NEW e \in Registries, NEW found \in SUBSET Path
  PROVE  /\ RegisterFound(e, found) \in Registries
         /\ Paths(e) \subseteq Paths(RegisterFound(e, found))
         /\ Named(found) \subseteq Paths(RegisterFound(e, found))
         /\ \A p \in Named(found) : RegisterFound(e, found)[p] = "own"
         /\ \A p \in Path \ Named(found) : RegisterFound(e, found)[p] = e[p]
<1> DEFINE r == RegisterFound(e, found)
<1>1. r = [p \in Path |-> IF p \in found THEN Register(e, p, "own")[p] ELSE e[p]]
  BY DEF RegisterFound
<1>2. ASSUME NEW p \in Path
      PROVE  /\ Register(e, p, "own")[p] = IF BaseName[p] \in Reserved THEN e[p] ELSE "own"
             /\ e[p] \in Where \cup {"none"} /\ (BaseName[p] \in Reserved => e[p] = "none")
  BY RegisterKeeps DEF Registries, Where
<1> HIDE DEF r
<1>3. \A p \in Path : r[p] = IF p \in Named(found) THEN "own" ELSE e[p]
  BY <1>1, <1>2 DEF Named
<1>4. r \in [Path -> Where \cup {"none"}]
  <2>1. r = [p \in Path |-> r[p]]
    BY <1>1
  <2>2. \A p \in Path : r[p] \in Where \cup {"none"}
    BY <1>2, <1>3 DEF Where
  <2> QED BY <2>1, <2>2
<1>5. \A p \in Path : BaseName[p] \in Reserved => r[p] = "none"
  BY <1>2, <1>3 DEF Named
<1>6. r \in Registries
  BY <1>4, <1>5 DEF Registries
<1>7. Named(found) \subseteq Path
  BY DEF Named
<1>8. Paths(e) \subseteq Paths(r) /\ Named(found) \subseteq Paths(r)
  BY <1>3, <1>7 DEF Paths
<1> QED BY <1>3, <1>6, <1>7, <1>8 DEF r

LEMMA LoadedKeeps ==
  ASSUME NEW e \in Registries
  PROVE  Loaded(e) \in Registries /\ Paths(Loaded(e)) = Paths(e)
<1>1. \A p \in Path : e[p] \in Where \cup {"none"} /\ (BaseName[p] \in Reserved => e[p] = "none")
  BY DEF Registries
<1>2. Loaded(e) = [p \in Path |-> IF p \in ownDirs /\ e[p] # "none" THEN "own" ELSE e[p]]
  BY DEF Loaded
<1> QED BY <1>1, <1>2 DEF Registries, Paths, Where

(* A load lacks what came after it, or could not read the file.            *)
LEMMA LoadsAreSound ==
  ASSUME ProjectsInv, NEW load \in Loads
  PROVE  /\ load.entries \in Registries /\ load.since \in Nat /\ load.since <= projectSaves
         /\ LacksOnlyNewer(load.entries, load.since)
<1>1. registryFile \in Registries /\ projectSaves \in Nat
  BY RegistryFacts DEF RegistryIsSound
<1>2. CASE load = [entries |-> Loaded(registryFile), since |-> projectSaves]
  BY <1>1, <1>2, LoadedKeeps DEF LacksOnlyNewer
<1>3. CASE load = [entries |-> NoEntries, since |-> 0]
  <2>1. NoEntries \in Registries
    BY DEF NoEntries, Registries
  <2> QED BY <1>1, <1>3, <2>1 DEF ProjectsInv
<1> QED BY <1>2, <1>3 DEF Loads

(* A save marks what it brings into the file, so that a copy loaded before *)
(* still lacks only what is newer than it.                                 *)
LEMMA SaveMarksTheNew ==
  ASSUME ProjectsInv, NEW listed \in Registries, NEW from, Save(listed, from)
  PROVE  /\ registryFile' = listed /\ savedFrom' = from /\ projectSaves' = projectSaves + 1
         /\ bornAt' \in [Path -> Nat]
         /\ \A e \in Registries, s \in Nat : s <= projectSaves /\ LacksOnlyNewer(e, s) =>
              \A p \in Paths(listed) \ Paths(e) : bornAt'[p] > s
<1>1. /\ projectSaves \in Nat /\ bornAt \in [Path -> Nat] /\ registryFile \in Registries
  BY RegistryFacts DEF RegistryIsSound
<1>2. /\ registryFile' = listed /\ savedFrom' = from /\ projectSaves' = projectSaves + 1
      /\ bornAt' = [p \in Path |-> IF p \in Paths(listed) \ Paths(registryFile) THEN projectSaves + 1
                                   ELSE bornAt[p]]
  BY DEF Save
<1>3. bornAt' \in [Path -> Nat]
  BY <1>1, <1>2
<1>4. ASSUME NEW e \in Registries, NEW s \in Nat, s <= projectSaves, LacksOnlyNewer(e, s),
             NEW p \in Paths(listed) \ Paths(e)
      PROVE  bornAt'[p] > s
  <2>1. p \in Path
    BY DEF Paths
  <2>2. CASE p \in Paths(registryFile)
    <3>1. bornAt'[p] = bornAt[p]
      BY <1>2, <2>1, <2>2
    <3> QED BY <1>4, <2>2, <3>1 DEF LacksOnlyNewer
  <2>3. CASE p \notin Paths(registryFile)
    <3>1. bornAt'[p] = projectSaves + 1
      BY <1>2, <2>1, <2>3
    <3> QED BY <1>1, <1>4, <3>1
  <2> QED BY <2>2, <2>3
<1> QED BY <1>2, <1>3, <1>4

(* A run that does not step: what the step must leave it.                  *)
LEMMA OtherRun ==
  ASSUME ProjectsInv, NEW d \in Command, command'[d] = command[d],
         \/ UNCHANGED <<registryFile, bornAt, projectSaves>>
         \/ \E listed \in Registries : \E from : Save(listed, from),
         Marked(d)'
  PROVE  RunIsSound(d)'
<1>1. RunIsSound(d) /\ command[d].since \in Nat /\ command[d].entries \in Registries /\ projectSaves \in Nat
  BY RunFacts, RegistryFacts DEF CommandRun, RegistryIsSound
<1>3. command'[d].since <= projectSaves'
  <2>1. projectSaves' = projectSaves \/ projectSaves' = projectSaves + 1
    BY DEF Save
  <2> QED BY <1>1, <2>1 DEF RunIsSound
<1>4. command'[d].pc = "index" => LacksOnlyNewer(command[d].entries, command[d].since)'
  <2> SUFFICES ASSUME command[d].pc = "index" PROVE LacksOnlyNewer(command[d].entries, command[d].since)'
    OBVIOUS
  <2>1. LacksOnlyNewer(command[d].entries, command[d].since)
    BY <1>1 DEF RunIsSound
  <2>2. CASE UNCHANGED <<registryFile, bornAt, projectSaves>>
    BY <2>1, <2>2 DEF LacksOnlyNewer, Paths
  <2>3. CASE \E listed \in Registries : \E from : Save(listed, from)
    <3>0. PICK listed \in Registries : \E from : Save(listed, from)
      BY <2>3
    <3>1. PICK from : Save(listed, from)
      BY <3>0
    <3>2. /\ registryFile' = listed
          /\ \A p \in Paths(listed) \ Paths(command[d].entries) : bornAt'[p] > command[d].since
      BY <1>1, <2>1, <3>1, SaveMarksTheNew DEF RunIsSound
    <3> QED BY <3>2 DEF LacksOnlyNewer, Paths
  <2> QED BY <2>2, <2>3
<1> QED BY <1>1, <1>3, <1>4 DEF RunIsSound, Paths

LEMMA RunChanges ==
  ASSUME ProjectsInv, NEW c \in Command, NEW r \in CommandRun, command' = [command EXCEPT ![c] = r]
  PROVE  /\ command' \in [Command -> CommandRun]
         /\ \A d \in Command \ {c} : command'[d] = command[d]
         /\ command'[c] = r
  BY RegistryFacts DEF RegistryIsSound

(* A step of a run that leaves the registry and the server alone.          *)
LEMMA RunStep ==
  ASSUME ProjectsInv, NEW c \in Command, NEW r \in CommandRun, command' = [command EXCEPT ![c] = r],
         UNCHANGED <<fileOf, served, servedAt, wrote>>,
         marker' \in [IndexDirs -> Markers], markerTmp' \in [IndexDirs -> Markers],
         stopped' \in [IndexDirs -> ModelSets],
         StoppedAreMarked', RunIsSound(c)', \A d \in Command \ {c} : Marked(d)'
  PROVE  ProjectsInv'
<1>1. UNCHANGED <<registryFile, projectSaves, bornAt>>
  BY DEF fileOf
<1>2. command' \in [Command -> CommandRun] /\ \A d \in Command \ {c} : command'[d] = command[d]
  BY RunChanges
<1>3. RegistryIsSound'
  BY <1>1, <1>2, RegistryFacts DEF RegistryIsSound
<1>4. ASSUME NEW d \in Command
      PROVE  RunIsSound(d)'
  <2>1. CASE d = c
    BY <2>1
  <2>2. CASE d # c
    BY <1>1, <1>2, <2>2, OtherRun
  <2> QED BY <2>1, <2>2
<1>5. WrittenIsServed'
  BY DEF ProjectsInv, WrittenIsServed, StatusBaseDir
<1>6. LacksOnlyNewer(served, servedAt)' /\ LacksOnlyNewer(NoEntries, 0)'
  BY <1>1 DEF ProjectsInv, LacksOnlyNewer, Paths
<1> QED BY <1>3, <1>4, <1>5, <1>6 DEF ProjectsInv

-----------------------------------------------------------------------------
LEMMA IdleIsSound ==
  /\ Idle \in CommandRun /\ Idle.pc = "idle" /\ Idle.since = 0 /\ Idle.found = {}
  /\ NoEntries \in Registries /\ Paths(NoEntries) = {}
  /\ NoMarker \in Markers /\ NoMarker.by = "nobody"
  /\ TornMarker \in Markers /\ TornMarker.by = "torn"
<1>1. NoEntries \in Registries /\ Paths(NoEntries) = {}
  BY DEF NoEntries, Registries, Paths, Where
<1> DEFINE e == NoEntries
           m == ModelSets
<1>2. Idle = [pc |-> "idle", path |-> "", db |-> "own", saw |-> {}, models |-> {}, left |-> {},
              entries |-> e, since |-> 0, found |-> {}]
  BY DEF Idle
<1>3. {} \in m /\ e \in Registries /\ "own" \in Where /\ "idle" \in RunPlace
  BY <1>1 DEF ModelSets, Where, RunPlace
<1>4. CommandRun = [pc : RunPlace, path : Path \cup {""}, db : Where, saw : m, models : m,
                    left : m, entries : Registries, since : Nat, found : SUBSET Path]
  BY DEF CommandRun
<1> HIDE DEF e, m
<1>5. Idle \in CommandRun
  BY <1>2, <1>3, <1>4
<1>6. Idle.pc = "idle" /\ Idle.since = 0 /\ Idle.found = {}
  BY <1>2
<1>7. /\ NoMarker \in Markers /\ NoMarker.by = "nobody"
      /\ TornMarker \in Markers /\ TornMarker.by = "torn"
  BY DEF NoMarker, TornMarker, Markers, ModelSets
<1> QED BY <1>1, <1>5, <1>6, <1>7

LEMMA ProjectsInitInv == ProjectsInit => ProjectsInv
<1> SUFFICES ASSUME ProjectsInit PROVE ProjectsInv
  OBVIOUS
<1>1. /\ registryFile = NoEntries /\ served = NoEntries /\ servedAt = 0
      /\ command = [c \in Command |-> Idle]
      /\ marker = [d \in IndexDirs |-> NoMarker] /\ markerTmp = [d \in IndexDirs |-> NoMarker] /\ stopped = [d \in IndexDirs |-> {}]
      /\ projectSaves = 0 /\ bornAt = [p \in Path |-> 0]
      /\ wrote = [p \in Path |-> "nowhere"]
  BY DEF ProjectsInit, IndexDirs
<1>2. {} \in ModelSets
  BY DEF ModelSets
<1>3. RegistryIsSound
  <2>1. registryFile \in Registries /\ served \in Registries
    BY <1>1, IdleIsSound
  <2>2. projectSaves \in Nat /\ servedAt \in Nat /\ servedAt <= projectSaves /\ bornAt \in [Path -> Nat]
    BY <1>1
  <2>3. wrote \in [Path -> Where \cup {"nowhere"}]
    BY <1>1
  <2>4. /\ marker \in [IndexDirs -> Markers] /\ markerTmp \in [IndexDirs -> Markers]
        /\ stopped \in [IndexDirs -> ModelSets]
    BY <1>1, <1>2, IdleIsSound
  <2>5. command \in [Command -> CommandRun]
    BY <1>1, IdleIsSound
  <2> QED BY <2>1, <2>2, <2>3, <2>4, <2>5 DEF RegistryIsSound
<1>4. ASSUME NEW c \in Command
      PROVE  RunIsSound(c)
  <2>1. command[c] = Idle
    BY <1>1
  <2> QED BY <1>1, <2>1, IdleIsSound DEF RunIsSound, Marked
<1>5. StoppedAreMarked /\ WrittenIsServed
  BY <1>1 DEF StoppedAreMarked, WrittenIsServed
<1>6. LacksOnlyNewer(served, servedAt) /\ LacksOnlyNewer(NoEntries, 0)
  BY <1>1, IdleIsSound DEF LacksOnlyNewer
<1> QED BY <1>3, <1>4, <1>5, <1>6 DEF ProjectsInv

-----------------------------------------------------------------------------
(* A step that touches neither the markers nor the registry.               *)
LEMMA PlainRunStep ==
  ASSUME ProjectsInv, NEW c \in Command, NEW r \in CommandRun, command' = [command EXCEPT ![c] = r],
         UNCHANGED <<fileOf, served, servedAt, wrote, markerVars>>, RunIsSound(c)'
  PROVE  ProjectsInv'
<1>1. /\ marker' \in [IndexDirs -> Markers] /\ markerTmp' \in [IndexDirs -> Markers]
      /\ stopped' \in [IndexDirs -> ModelSets]
  BY RegistryFacts DEF RegistryIsSound, markerVars
<1>2. StoppedAreMarked'
  BY DEF ProjectsInv, StoppedAreMarked, markerVars
<1>3. ASSUME NEW d \in Command \ {c}
      PROVE  Marked(d)'
  <2>1. Marked(d) /\ command'[d] = command[d]
    BY RunFacts, RunChanges DEF RunIsSound
  <2> QED BY <2>1 DEF Marked, DirOf, markerVars
<1> QED BY <1>1, <1>2, <1>3, RunStep

(* What a step that writes the files of one directory leaves the other     *)
(* directories, and what it must say of a run of the same directory.       *)
LEMMA MarkersOfOthers ==
  ASSUME ProjectsInv, NEW c \in Command, NEW r \in CommandRun, command' = [command EXCEPT ![c] = r],
         NEW dir \in IndexDirs,
         \A e \in IndexDirs \ {dir} :
           marker'[e] = marker[e] /\ markerTmp'[e] = markerTmp[e] /\ stopped'[e] = stopped[e],
         stopped'[dir] = {} \/ (stopped'[dir] = stopped[dir] /\ marker'[dir] = marker[dir]),
         marker'[dir] \in {marker[dir], markerTmp[dir]} \/ marker'[dir].by \in {c, "nobody", "torn"},
         markerTmp'[dir] = markerTmp[dir] \/ markerTmp'[dir].by \in {c, "nobody", "torn"}
  PROVE  StoppedAreMarked' /\ \A d \in Command \ {c} : Marked(d)'
<1>1. StoppedAreMarked'
  BY DEF ProjectsInv, StoppedAreMarked
<1>2. ASSUME NEW d \in Command \ {c}
      PROVE  Marked(d)'
  <2>1. Marked(d) /\ command'[d] = command[d] /\ command[d] \in CommandRun
        /\ (command[d].pc # "idle" => command[d].path \in Outer)
    BY RunFacts, RunChanges DEF RunIsSound
  <2>2. DirOf(d)' = DirOf(d)
    BY <2>1 DEF DirOf
  <2>3. command[d].pc # "idle" => DirOf(d) \in IndexDirs
    BY <2>1 DEF DirOf, IndexDirs, CommandRun
  <2>4. d # c /\ d # "nobody" /\ d # "torn"
    BY ProjectsAssumption
  <2>5. CASE DirOf(d) # dir
    BY <2>1, <2>2, <2>3, <2>5 DEF Marked
  <2>6. CASE DirOf(d) = dir
    <3>1. command[d].pc \in {"index", "clean"} => stopped'[dir] = {}
      BY <2>1, <2>6 DEF Marked
    <3>2. command[d].pc \in {"index", "clean"} /\ marker'[dir].by = d => marker'[dir].models = command[d].models
      BY <2>1, <2>4, <2>6 DEF Marked
    <3>3. command[d].pc \in {"mark", "unmarked", "index", "clean"} /\ markerTmp'[dir].by = d =>
            markerTmp'[dir].models = command[d].models
      BY <2>1, <2>4, <2>6 DEF Marked
    <3> QED BY <2>1, <2>2, <2>6, <3>1, <3>2, <3>3 DEF Marked
  <2> QED BY <2>5, <2>6
<1> QED BY <1>1, <1>2

LEMMA DisownedIs ==
  ASSUME NEW c \in Command, NEW file \in Markers
  PROVE  /\ Disowned(file, c) \in Markers /\ Disowned(file, c).by # c
         /\ Disowned(file, c) = file \/ Disowned(file, c).by = "nobody"
<1> DEFINE by == IF file.by = c THEN "nobody" ELSE file.by
           d == [file EXCEPT !.by = by]
<1>1. Disowned(file, c) = d
  BY DEF Disowned
<1>2. by \in Command \cup {"nobody", "torn"} /\ by # c /\ (by = file.by \/ by = "nobody")
  BY ProjectsAssumption DEF Markers
<1> HIDE DEF by
<1>3. d \in Markers /\ d.by = by /\ (by = file.by => d = file)
  BY <1>2 DEF Markers
<1> QED BY <1>1, <1>2, <1>3

LEMMA IdleRun ==
  ASSUME ProjectsInv, NEW c \in Command, command' = [command EXCEPT ![c] = Idle], UNCHANGED projectSaves
  PROVE  RunIsSound(c)'
<1>1. command'[c] = Idle
  BY IdleIsSound, RunChanges
<1>2. projectSaves \in Nat
  BY RegistryFacts DEF RegistryIsSound
<1> QED BY <1>1, <1>2, IdleIsSound DEF RunIsSound, Marked

LEMMA RunDir ==
  ASSUME ProjectsInv, NEW c \in Command, command[c].pc # "idle"
  PROVE  /\ command[c].path \in Outer /\ command[c].path \in Path /\ command[c].db \in Where
         /\ DirOf(c) \in IndexDirs
         /\ SubOf[command[c].path] \in SUBSET Path
<1>1. command[c].path \in Outer /\ command[c].db \in Where
  BY RunFacts DEF RunIsSound, CommandRun
<1> QED BY <1>1, ProjectsAssumption DEF DirOf, IndexDirs

LEMMA ReadResumeMarkerInv ==
  ASSUME ProjectsInv, NEW c \in Command, NEW path \in Outer, NEW db \in Where, ReadResumeMarker(c, path, db)
  PROVE  ProjectsInv'
<1> DEFINE dir == <<path, db>>
           o1 == [Idle EXCEPT !.pc = "choose"]
           o2 == [o1 EXCEPT !.path = path]
           o3 == [o2 EXCEPT !.db = db]
           r(saw) == [o3 EXCEPT !.saw = saw]
<1>1. /\ UNCHANGED <<fileOf, served, servedAt, wrote, markerTmp>>
      /\ \/ command' = [command EXCEPT ![c] = r(marker[dir].models)] /\ UNCHANGED <<marker, stopped>>
         \/ /\ command' = [command EXCEPT ![c] = r({})]
            /\ marker' \in {marker, [marker EXCEPT ![dir] = NoMarker]}
            /\ stopped' = [stopped EXCEPT ![dir] = {}]
  BY DEF ReadResumeMarker
<1>2. path \in Path /\ dir \in IndexDirs
  BY ProjectsAssumption DEF IndexDirs
<1>3. /\ marker \in [IndexDirs -> Markers] /\ markerTmp \in [IndexDirs -> Markers]
      /\ stopped \in [IndexDirs -> ModelSets]
  BY RegistryFacts DEF RegistryIsSound
<1>4. marker[dir].models \in ModelSets /\ {} \in ModelSets
  BY <1>2, <1>3 DEF Markers, ModelSets
<1>5. /\ o1 \in CommandRun /\ o1.pc = "choose" /\ o1.since = 0 /\ o1.found = {}
  BY IdleIsSound DEF CommandRun, RunPlace
<1> HIDE DEF o1
<1>6. o2 \in CommandRun /\ o2.pc = "choose" /\ o2.since = 0 /\ o2.found = {} /\ o2.path = path
  BY <1>2, <1>5 DEF CommandRun
<1> HIDE DEF o2
<1>7. o3 \in CommandRun /\ o3.pc = "choose" /\ o3.since = 0 /\ o3.found = {} /\ o3.path = path
  BY <1>6 DEF CommandRun
<1> HIDE DEF o3
<1>8. ASSUME NEW saw \in ModelSets
      PROVE  /\ r(saw) \in CommandRun /\ r(saw).pc = "choose" /\ r(saw).since = 0 /\ r(saw).found = {}
             /\ r(saw).path = path
  BY <1>7 DEF CommandRun
<1> HIDE DEF r, dir
<1>9. ASSUME NEW saw \in ModelSets, command' = [command EXCEPT ![c] = r(saw)]
      PROVE  RunIsSound(c)'
  <2>1. command'[c] = r(saw)
    BY <1>8, <1>9, RunChanges
  <2>2. projectSaves' \in Nat
    BY <1>1, RegistryFacts DEF RegistryIsSound, fileOf
  <2>3. Named({}) = {}
    BY DEF Named
  <2>4. /\ command'[c].pc = "choose" /\ command'[c].since = 0 /\ command'[c].found = {}
        /\ command'[c].path \in Outer
    BY <1>8, <2>1
  <2>5. Marked(c)'
    BY <2>4 DEF Marked
  <2>6. command'[c].since <= projectSaves'
    BY <2>2, <2>4
  <2> QED BY <2>3, <2>4, <2>5, <2>6 DEF RunIsSound
<1>10. CASE command' = [command EXCEPT ![c] = r(marker[dir].models)] /\ UNCHANGED <<marker, stopped>>
  <2>1. UNCHANGED markerVars
    BY <1>1, <1>10 DEF markerVars
  <2> QED BY <1>1, <1>4, <1>8, <1>9, <1>10, <2>1, PlainRunStep
<1>11. CASE /\ command' = [command EXCEPT ![c] = r({})]
            /\ marker' \in {marker, [marker EXCEPT ![dir] = NoMarker]}
            /\ stopped' = [stopped EXCEPT ![dir] = {}]
  <2>1. r({}) \in CommandRun /\ RunIsSound(c)'
    BY <1>4, <1>8, <1>9, <1>11
  <2>2. /\ marker' \in [IndexDirs -> Markers] /\ markerTmp' \in [IndexDirs -> Markers]
        /\ stopped' \in [IndexDirs -> ModelSets]
    BY <1>1, <1>3, <1>4, <1>11, IdleIsSound
  <2>3. /\ stopped'[dir] = {} /\ markerTmp' = markerTmp
        /\ marker'[dir] = marker[dir] \/ marker'[dir].by = "nobody"
        /\ \A e \in IndexDirs \ {dir} : marker'[e] = marker[e] /\ stopped'[e] = stopped[e]
    BY <1>1, <1>2, <1>3, <1>11, IdleIsSound
  <2>4. StoppedAreMarked' /\ \A d \in Command \ {c} : Marked(d)'
    BY <1>2, <1>11, <2>1, <2>3, MarkersOfOthers
  <2> QED BY <1>1, <1>11, <2>1, <2>2, <2>4, RunStep
<1> QED BY <1>1, <1>10, <1>11

LEMMA NothingToIndexInv ==
  ASSUME ProjectsInv, NEW c \in Command, NothingToIndex(c)
  PROVE  ProjectsInv'
<1> DEFINE dir == <<command[c].path, command[c].db>>
<1>1. /\ command' = [command EXCEPT ![c] = Idle] /\ command[c].pc # "idle"
      /\ UNCHANGED <<fileOf, served, servedAt, wrote, marker, stopped>> /\ UNCHANGED projectSaves
      /\ UNCHANGED markerTmp \/ markerTmp' = [markerTmp EXCEPT ![dir] = TornMarker]
  BY DEF NothingToIndex, fileOf
<1>2. CASE UNCHANGED markerTmp
  <2>1. UNCHANGED markerVars
    BY <1>1, <1>2 DEF markerVars
  <2> QED BY <1>1, <2>1, IdleIsSound, IdleRun, PlainRunStep
<1>3. CASE markerTmp' = [markerTmp EXCEPT ![dir] = TornMarker]
  <2>1. /\ marker \in [IndexDirs -> Markers] /\ markerTmp \in [IndexDirs -> Markers]
        /\ stopped \in [IndexDirs -> ModelSets] /\ dir \in IndexDirs
    BY <1>1, RegistryFacts, RunDir DEF RegistryIsSound, DirOf
  <2> HIDE DEF dir
  <2>2. /\ markerTmp' \in [IndexDirs -> Markers] /\ markerTmp'[dir].by = "torn"
        /\ \A e \in IndexDirs \ {dir} : markerTmp'[e] = markerTmp[e]
    BY <1>3, <2>1, IdleIsSound
  <2>3. StoppedAreMarked' /\ \A d \in Command \ {c} : Marked(d)'
    BY <1>1, <2>1, <2>2, IdleIsSound, MarkersOfOthers
  <2>4. RunIsSound(c)'
    BY <1>1, IdleRun
  <2> QED BY <1>1, <2>1, <2>2, <2>3, <2>4, IdleIsSound, RunStep
<1> QED BY <1>1, <1>2, <1>3

(* The models of a run are models.                                         *)
LEMMA ModelsAreChosen ==
  ASSUME NEW request \in {"all", "flags", "batch", "terminal"}, NEW configured, NEW saw \in ModelSets,
         NEW models \in ResolveIndexModels(request, configured, saw)
  PROVE  models \in ModelSets
<1>1. CASE request = "all"
  BY <1>1 DEF ResolveIndexModels, ModelSets
<1>2. CASE request = "flags"
  BY <1>2 DEF ResolveIndexModels, ModelSets
<1>3. CASE request = "batch"
  BY <1>3 DEF ResolveIndexModels, ModelSets
<1>4. CASE request = "terminal"
  BY <1>4 DEF ResolveIndexModels, ModelSets
<1> QED BY <1>1, <1>2, <1>3, <1>4

(* Models are chosen, and the temporary is written.                        *)
LEMMA WriteMarkerTmpInv ==
  ASSUME ProjectsInv, NEW c \in Command, NEW request \in {"all", "flags", "batch", "terminal"},
         NEW configured, WriteMarkerTmp(c, request, configured)
  PROVE  ProjectsInv'
<1> DEFINE run == command[c]
           dir == <<run.path, run.db>>
<1>1. /\ run.pc = "choose" /\ UNCHANGED <<fileOf, served, servedAt, wrote, marker, stopped>>
  BY DEF WriteMarkerTmp
<1>2. PICK models \in ResolveIndexModels(request, configured, run.saw), place \in {"mark", "unmarked"} :
        /\ command' = [command EXCEPT ![c] = [run EXCEPT !.pc = place, !.saw = {}, !.models = models, !.left = models]]
        /\ \E file \in {MarkerOf(dir, c, models), Disowned(markerTmp[dir], c), TornMarker} :
             markerTmp' = [markerTmp EXCEPT ![dir] = file]
  BY DEF WriteMarkerTmp
<1>3. run \in CommandRun /\ RunIsSound(c) /\ run.saw \in ModelSets
  BY RunFacts DEF CommandRun
<1>4. models \in ModelSets /\ {} \in ModelSets
  BY <1>2, <1>3, ModelsAreChosen DEF ModelSets
<1>5. dir \in IndexDirs /\ run.path \in Outer /\ dir = DirOf(c)
  BY <1>1, RunDir DEF DirOf
<1>6. /\ marker \in [IndexDirs -> Markers] /\ markerTmp \in [IndexDirs -> Markers]
      /\ stopped \in [IndexDirs -> ModelSets] /\ projectSaves \in Nat
  BY RegistryFacts DEF RegistryIsSound
<1> DEFINE o1 == [run EXCEPT !.pc = place]
           o2 == [o1 EXCEPT !.saw = {}]
           o3 == [o2 EXCEPT !.models = models]
           r == [o3 EXCEPT !.left = models]
<1>7. command' = [command EXCEPT ![c] = r]
  BY <1>2
<1>8. /\ o1 \in CommandRun /\ o1.pc = place /\ o1.found = run.found
      /\ o1.path = run.path /\ o1.db = run.db /\ o1.since = run.since
  BY <1>3 DEF CommandRun, RunPlace
<1> HIDE DEF o1
<1>9. /\ o2 \in CommandRun /\ o2.pc = place /\ o2.found = run.found
      /\ o2.path = run.path /\ o2.db = run.db /\ o2.since = run.since
  BY <1>4, <1>8 DEF CommandRun
<1> HIDE DEF o2
<1>10. /\ o3 \in CommandRun /\ o3.pc = place /\ o3.found = run.found
       /\ o3.path = run.path /\ o3.db = run.db /\ o3.since = run.since /\ o3.models = models
  BY <1>4, <1>9 DEF CommandRun
<1> HIDE DEF o3
<1>11. /\ r \in CommandRun /\ r.pc = place /\ r.found = run.found
       /\ r.path = run.path /\ r.db = run.db /\ r.since = run.since /\ r.models = models
  BY <1>4, <1>10 DEF CommandRun
<1> HIDE DEF r
<1>12. command'[c] = r
  BY <1>7, <1>11, RunChanges
<1>13. PICK file \in {MarkerOf(dir, c, models), Disowned(markerTmp[dir], c), TornMarker} :
         markerTmp' = [markerTmp EXCEPT ![dir] = file]
  BY <1>2
<1>14. /\ file \in Markers /\ (file.by = c => file.models = models)
       /\ file = markerTmp[dir] \/ file.by \in {c, "nobody", "torn"}
  <2>1. CASE file = MarkerOf(dir, c, models)
    BY <1>4, <2>1 DEF MarkerOf, Markers
  <2>2. CASE file = Disowned(markerTmp[dir], c)
    <3>1. markerTmp[dir] \in Markers
      BY <1>5, <1>6
    <3> QED BY <2>2, <3>1, DisownedIs
  <2>3. CASE file = TornMarker
    BY <2>3, IdleIsSound, ProjectsAssumption
  <2> QED BY <1>13, <2>1, <2>2, <2>3
<1> HIDE DEF dir
<1>15. /\ markerTmp' \in [IndexDirs -> Markers] /\ markerTmp'[dir] = file
       /\ \A e \in IndexDirs \ {dir} : markerTmp'[e] = markerTmp[e]
  BY <1>5, <1>6, <1>13, <1>14
<1>16. StoppedAreMarked' /\ \A d \in Command \ {c} : Marked(d)'
  BY <1>1, <1>5, <1>7, <1>11, <1>14, <1>15, MarkersOfOthers
<1>17. RunIsSound(c)'
  <2>1. DirOf(c)' = dir
    BY <1>5, <1>11, <1>12 DEF DirOf
  <2>2. /\ place \in {"mark", "unmarked"} /\ command'[c].pc = place /\ command'[c].models = models
        /\ command'[c].found = {} /\ command'[c].path \in Outer /\ command'[c].since <= projectSaves'
    BY <1>1, <1>3, <1>5, <1>11, <1>12 DEF RunIsSound, fileOf
  <2>3. Marked(c)'
    BY <1>14, <1>15, <2>1, <2>2 DEF Marked
  <2>4. Named({}) = {}
    BY DEF Named
  <2> QED BY <2>2, <2>3, <2>4 DEF RunIsSound
<1> QED BY <1>1, <1>6, <1>7, <1>11, <1>15, <1>16, <1>17, RunStep

(* The temporary is renamed, or not, and the registry is loaded.           *)
LEMMA BeginRunInv ==
  ASSUME ProjectsInv, NEW c \in Command, BeginRun(c)
  PROVE  ProjectsInv'
<1> DEFINE run == command[c]
           dir == <<run.path, run.db>>
<1>1. /\ run.pc \in {"mark", "unmarked"} /\ stopped' = [stopped EXCEPT ![dir] = {}]
      /\ UNCHANGED <<fileOf, served, servedAt, wrote>>
      /\ marker' \in {[marker EXCEPT ![dir] = markerTmp[dir]], [marker EXCEPT ![dir] = Disowned(marker[dir], c)]}
      /\ markerTmp' \in {markerTmp, [markerTmp EXCEPT ![dir] = NoMarker]}
  <2>1. \/ marker' = [marker EXCEPT ![dir] = markerTmp[dir]] /\ markerTmp' = [markerTmp EXCEPT ![dir] = NoMarker]
        \/ /\ marker' = [marker EXCEPT ![dir] = Disowned(@, c)]
           /\ UNCHANGED markerTmp \/ markerTmp' = [markerTmp EXCEPT ![dir] = NoMarker]
    BY DEF BeginRun
  <2>2. [marker EXCEPT ![dir] = Disowned(@, c)] = [marker EXCEPT ![dir] = Disowned(marker[dir], c)]
    OBVIOUS
  <2>3. /\ run.pc \in {"mark", "unmarked"} /\ stopped' = [stopped EXCEPT ![dir] = {}]
        /\ UNCHANGED <<fileOf, served, servedAt, wrote>>
    BY DEF BeginRun
  <2> HIDE DEF dir, run
  <2> QED BY <2>1, <2>2, <2>3
<1>2. PICK load \in Loads : command' = [command EXCEPT ![c] =
             [run EXCEPT !.pc = "index", !.entries = load.entries, !.since = load.since]]
  BY DEF BeginRun
<1>3. run \in CommandRun /\ RunIsSound(c)
  BY RunFacts DEF CommandRun
<1>4. /\ load.entries \in Registries /\ load.since \in Nat /\ load.since <= projectSaves
      /\ LacksOnlyNewer(load.entries, load.since)
  BY LoadsAreSound
<1>5. dir \in IndexDirs /\ run.path \in Outer /\ dir = DirOf(c)
  BY <1>1, RunDir DEF DirOf
<1>6. /\ marker \in [IndexDirs -> Markers] /\ markerTmp \in [IndexDirs -> Markers]
      /\ stopped \in [IndexDirs -> ModelSets] /\ {} \in ModelSets
  BY RegistryFacts DEF RegistryIsSound, ModelSets
<1> DEFINE o1 == [run EXCEPT !.pc = "index"]
           o2 == [o1 EXCEPT !.entries = load.entries]
           r == [o2 EXCEPT !.since = load.since]
<1>7. command' = [command EXCEPT ![c] = r]
  BY <1>2
<1>8. /\ o1 \in CommandRun /\ o1.pc = "index" /\ o1.found = run.found
      /\ o1.path = run.path /\ o1.db = run.db /\ o1.models = run.models
  BY <1>3 DEF CommandRun, RunPlace
<1> HIDE DEF o1
<1>9. /\ o2 \in CommandRun /\ o2.pc = "index" /\ o2.found = run.found
      /\ o2.path = run.path /\ o2.db = run.db /\ o2.models = run.models /\ o2.entries = load.entries
  BY <1>4, <1>8 DEF CommandRun
<1> HIDE DEF o2
<1>10. /\ r \in CommandRun /\ r.pc = "index" /\ r.found = run.found
       /\ r.path = run.path /\ r.db = run.db /\ r.models = run.models /\ r.entries = load.entries
       /\ r.since = load.since
  BY <1>4, <1>9 DEF CommandRun
<1> HIDE DEF r
<1>11. command'[c] = r
  BY <1>7, <1>10, RunChanges
<1>12. /\ Disowned(marker[dir], c) \in Markers /\ Disowned(marker[dir], c).by # c
       /\ Disowned(marker[dir], c) = marker[dir] \/ Disowned(marker[dir], c).by = "nobody"
  <2>1. marker[dir] \in Markers
    BY <1>5, <1>6
  <2> QED BY <2>1, DisownedIs
<1> HIDE DEF dir
<1>13. /\ marker' \in [IndexDirs -> Markers] /\ markerTmp' \in [IndexDirs -> Markers]
       /\ stopped' \in [IndexDirs -> ModelSets]
  BY <1>1, <1>5, <1>6, <1>12, IdleIsSound
<1>14. /\ marker'[dir] \in {markerTmp[dir], Disowned(marker[dir], c)} /\ stopped'[dir] = {}
       /\ markerTmp'[dir] \in {markerTmp[dir], NoMarker}
       /\ \A e \in IndexDirs \ {dir} :
            marker'[e] = marker[e] /\ markerTmp'[e] = markerTmp[e] /\ stopped'[e] = stopped[e]
  BY <1>1, <1>5, <1>6
<1>15. StoppedAreMarked' /\ \A d \in Command \ {c} : Marked(d)'
  <2>1. marker'[dir] \in {marker[dir], markerTmp[dir]} \/ marker'[dir].by \in {c, "nobody", "torn"}
    BY <1>12, <1>14
  <2>2. markerTmp'[dir] = markerTmp[dir] \/ markerTmp'[dir].by \in {c, "nobody", "torn"}
    BY <1>14, IdleIsSound
  <2> QED BY <1>5, <1>7, <1>10, <1>14, <2>1, <2>2, MarkersOfOthers
<1>16. RunIsSound(c)'
  <2>1. DirOf(c)' = dir
    BY <1>5, <1>10, <1>11 DEF DirOf
  <2>2. UNCHANGED <<registryFile, projectSaves, bornAt>>
    BY <1>1 DEF fileOf
  <2>3. run.found = {} /\ Marked(c)
    BY <1>1, <1>3 DEF RunIsSound
  <2>4. Named({}) = {}
    BY DEF Named
  <2>5. markerTmp[dir].by = c => markerTmp[dir].models = run.models
    BY <1>1, <1>5, <2>3 DEF Marked
  <2>6. Marked(c)'
    <3>1. marker'[dir].by = c => marker'[dir].models = run.models
      BY <1>12, <1>14, <2>5
    <3>2. markerTmp'[dir].by = c => markerTmp'[dir].models = run.models
      BY <1>14, <2>5, IdleIsSound, ProjectsAssumption
    <3> QED BY <1>10, <1>11, <1>14, <2>1, <3>1, <3>2 DEF Marked
  <2>7. LacksOnlyNewer(command[c].entries, command[c].since)'
    BY <1>4, <1>10, <1>11, <2>2 DEF LacksOnlyNewer, Paths
  <2>8. /\ command'[c].since <= projectSaves' /\ command'[c].path \in Outer
        /\ command'[c].pc = "index" /\ command'[c].found = {}
    BY <1>4, <1>5, <1>10, <1>11, <2>2, <2>3
  <2> QED BY <2>4, <2>6, <2>7, <2>8 DEF RunIsSound
<1> HIDE DEF run
<1> QED BY <1>1, <1>7, <1>10, <1>13, <1>15, <1>16, RunStep

LEMMA PassFailsInv ==
  ASSUME ProjectsInv, NEW c \in Command, NEW m \in Model, PassFails(c, m)
  PROVE  ProjectsInv'
<1> DEFINE run == command[c]
           left == run.left \ {m}
           r == [run EXCEPT !.left = left]
<1>1. run \in CommandRun /\ RunIsSound(c) /\ command \in [Command -> CommandRun]
  BY RunFacts, RegistryFacts DEF RegistryIsSound
<1>2. command' = [command EXCEPT ![c] = r] /\ UNCHANGED <<fileOf, served, servedAt, wrote, markerVars>>
  BY <1>1 DEF PassFails
<1>3. left \in ModelSets
  BY <1>1 DEF CommandRun, ModelSets
<1> HIDE DEF left
<1>4. /\ r \in CommandRun /\ r.pc = run.pc /\ r.path = run.path /\ r.db = run.db /\ r.models = run.models
      /\ r.entries = run.entries /\ r.since = run.since /\ r.found = run.found
  BY <1>1, <1>3 DEF CommandRun
<1> HIDE DEF r
<1>5. command'[c] = r
  BY <1>2, <1>4, RunChanges
<1>6. UNCHANGED <<registryFile, projectSaves, bornAt>>
  BY <1>2 DEF fileOf
<1>7. RunIsSound(c)'
  BY <1>1, <1>2, <1>4, <1>5, <1>6 DEF RunIsSound, Marked, DirOf, LacksOnlyNewer, Paths, markerVars
<1> QED BY <1>2, <1>4, <1>7, PlainRunStep

LEMMA IndexWithModelInv ==
  ASSUME ProjectsInv, NEW c \in Command, NEW m \in Model, NEW found, NEW opened, IndexWithModel(c, m, found, opened)
  PROVE  ProjectsInv'
<1> DEFINE run == command[c]
           left == run.left \ {m}
           all == run.found \cup found
           listed == RegisterFound(run.entries, found)
           o1 == [run EXCEPT !.left = left]
           o2 == [o1 EXCEPT !.found = all]
           r == [o2 EXCEPT !.entries = listed]
<1>1. run \in CommandRun /\ RunIsSound(c) /\ command \in [Command -> CommandRun] /\ run.pc = "index"
  BY RunFacts, RegistryFacts DEF RegistryIsSound, IndexWithModel
<1>2. UNCHANGED <<fileOf, served, servedAt, wrote, markerVars>> /\ found \subseteq SubOf[run.path]
  BY DEF IndexWithModel
<1>3. command' = [command EXCEPT ![c] = r]
  <2> DEFINE f1 == [command EXCEPT ![c] = o1]
             f2 == [f1 EXCEPT ![c] = o2]
  <2>1. command' = [command EXCEPT ![c].left = left, ![c].found = all, ![c].entries = listed]
    BY DEF IndexWithModel
  <2>2. [command EXCEPT ![c].left = left] = f1
    OBVIOUS
  <2>3. [f1 EXCEPT ![c].found = all] = f2
    BY <1>1
  <2>4. [f2 EXCEPT ![c].entries = listed] = [f2 EXCEPT ![c] = r]
    BY <1>1
  <2>5. [f2 EXCEPT ![c] = r] = [command EXCEPT ![c] = r]
    BY <1>1
  <2> QED BY <2>1, <2>2, <2>3, <2>4, <2>5
<1>4. left \in ModelSets
  BY <1>1 DEF CommandRun, ModelSets
<1>5. /\ found \in SUBSET Path /\ run.path \in Outer /\ run.entries \in Registries
      /\ all \in SUBSET Path
  BY <1>1, <1>2, RunDir DEF CommandRun
<1>6. /\ listed \in Registries /\ Paths(run.entries) \subseteq Paths(listed)
      /\ Named(all) \subseteq Paths(listed)
  <2>1. /\ listed \in Registries /\ Paths(run.entries) \subseteq Paths(listed)
        /\ Named(found) \subseteq Paths(listed)
    BY <1>5, RegisterFoundKeeps
  <2>2. Named(run.found) \subseteq Paths(run.entries)
    BY <1>1 DEF RunIsSound
  <2>3. Named(all) = Named(run.found) \cup Named(found)
    BY DEF Named
  <2> HIDE DEF listed, all
  <2> QED BY <2>1, <2>2, <2>3
<1> HIDE DEF left, listed, all
<1>7. /\ o1 \in CommandRun /\ o1.pc = "index" /\ o1.path = run.path /\ o1.db = run.db
      /\ o1.models = run.models /\ o1.since = run.since
  BY <1>1, <1>4 DEF CommandRun
<1> HIDE DEF o1
<1>8. /\ o2 \in CommandRun /\ o2.pc = "index" /\ o2.path = run.path /\ o2.db = run.db
      /\ o2.models = run.models /\ o2.since = run.since /\ o2.found = all
  BY <1>5, <1>7 DEF CommandRun
<1> HIDE DEF o2
<1>9. /\ r \in CommandRun /\ r.pc = "index" /\ r.path = run.path /\ r.db = run.db
      /\ r.models = run.models /\ r.since = run.since /\ r.entries = listed /\ r.found = all
  BY <1>6, <1>8 DEF CommandRun
<1> HIDE DEF r
<1>10. command'[c] = r
  BY <1>3, <1>9, RunChanges
<1>11. UNCHANGED <<registryFile, projectSaves, bornAt>>
  BY <1>2 DEF fileOf
<1>12. RunIsSound(c)'
  <2>1. LacksOnlyNewer(run.entries, run.since)
    BY <1>1 DEF RunIsSound
  <2>2. LacksOnlyNewer(listed, run.since)
    BY <1>6, <2>1 DEF LacksOnlyNewer
  <2>3. LacksOnlyNewer(command[c].entries, command[c].since)'
    BY <1>9, <1>10, <1>11, <2>2 DEF LacksOnlyNewer, Paths
  <2>4. Paths(command[c].entries)' = Paths(listed)
    BY <1>9, <1>10 DEF Paths
  <2>5. Named(command'[c].found) \subseteq Paths(command[c].entries)'
    BY <1>6, <1>9, <1>10, <2>4
  <2>6. DirOf(c)' = DirOf(c)
    BY <1>9, <1>10 DEF DirOf
  <2>7. Marked(c)'
    BY <1>1, <1>2, <1>9, <1>10, <2>6 DEF RunIsSound, Marked, markerVars
  <2> QED BY <1>1, <1>5, <1>9, <1>10, <1>11, <2>3, <2>5, <2>7 DEF RunIsSound
<1> QED BY <1>2, <1>3, <1>9, <1>12, PlainRunStep

(* What a run saves: nothing its copy had is missing.                      *)
LEMMA SaveRegistrySaves ==
  ASSUME ProjectsInv, NEW c \in Command, SaveRegistry(c)
  PROVE  LET listed == Register(command[c].entries, command[c].path, command[c].db)
         IN  /\ command[c].pc = "index"
             /\ listed \in Registries /\ Paths(command[c].entries) \subseteq Paths(listed)
             /\ LacksOnlyNewer(command[c].entries, command[c].since)
             /\ Save(listed, command[c].since) \/ UNCHANGED fileOf
<1>1. command[c].pc = "index"
  BY DEF SaveRegistry
<1>2. command[c].entries \in Registries /\ LacksOnlyNewer(command[c].entries, command[c].since)
  BY <1>1, RunFacts DEF RunIsSound, CommandRun
<1>3. command[c].path \in Path /\ command[c].db \in Where
  BY <1>1, RunDir
<1> QED BY <1>1, <1>2, <1>3, RegisterKeeps DEF SaveRegistry

LEMMA SaveRegistryInv ==
  ASSUME ProjectsInv, NEW c \in Command, SaveRegistry(c)
  PROVE  ProjectsInv'
<1> DEFINE run == command[c]
           listed == Register(run.entries, run.path, run.db)
           o1 == [run EXCEPT !.pc = "clean"]
           r == [o1 EXCEPT !.entries = listed]
<1>1. run \in CommandRun /\ RunIsSound(c) /\ command \in [Command -> CommandRun]
  BY RunFacts, RegistryFacts DEF RegistryIsSound
<1>2. UNCHANGED <<served, servedAt, wrote, markerVars>>
  BY DEF SaveRegistry
<1>3. /\ run.pc = "index" /\ listed \in Registries /\ Paths(run.entries) \subseteq Paths(listed)
      /\ Save(listed, run.since) \/ UNCHANGED fileOf
  BY SaveRegistrySaves
<1>4. command' = [command EXCEPT ![c] = r]
  <2> DEFINE f1 == [command EXCEPT ![c] = o1]
  <2>1. command' = [command EXCEPT ![c].pc = "clean", ![c].entries = listed]
    BY DEF SaveRegistry
  <2>2. [command EXCEPT ![c].pc = "clean"] = f1
    OBVIOUS
  <2>3. [f1 EXCEPT ![c].entries = listed] = [f1 EXCEPT ![c] = r]
    BY <1>1
  <2>4. [f1 EXCEPT ![c] = r] = [command EXCEPT ![c] = r]
    BY <1>1
  <2> QED BY <2>1, <2>2, <2>3, <2>4
<1> HIDE DEF listed
<1>5. /\ o1 \in CommandRun /\ o1.pc = "clean" /\ o1.path = run.path /\ o1.db = run.db
      /\ o1.models = run.models /\ o1.since = run.since /\ o1.found = run.found
  BY <1>1 DEF CommandRun, RunPlace
<1> HIDE DEF o1
<1>6. /\ r \in CommandRun /\ r.pc = "clean" /\ r.path = run.path /\ r.db = run.db
      /\ r.models = run.models /\ r.since = run.since /\ r.found = run.found /\ r.entries = listed
  BY <1>3, <1>5 DEF CommandRun
<1> HIDE DEF r
<1>7. /\ command' \in [Command -> CommandRun] /\ command'[c] = r
      /\ \A d \in Command \ {c} : command'[d] = command[d]
  BY <1>4, <1>6, RunChanges
<1>8. /\ projectSaves \in Nat /\ served \in Registries /\ servedAt \in Nat /\ servedAt <= projectSaves
      /\ run.since <= projectSaves /\ run.since \in Nat /\ LacksOnlyNewer(served, servedAt)
      /\ LacksOnlyNewer(NoEntries, 0)
  BY <1>1, RegistryFacts DEF RegistryIsSound, RunIsSound, CommandRun, ProjectsInv
<1>9. \/ Save(listed, run.since)
      \/ UNCHANGED <<registryFile, projectSaves, bornAt>>
  BY <1>3 DEF fileOf
<1>10. /\ registryFile' \in Registries /\ bornAt' \in [Path -> Nat]
       /\ projectSaves' = projectSaves \/ projectSaves' = projectSaves + 1
       /\ LacksOnlyNewer(served, servedAt)' /\ LacksOnlyNewer(NoEntries, 0)'
  <2>1. CASE Save(listed, run.since)
    <3>1. /\ registryFile' = listed /\ projectSaves' = projectSaves + 1 /\ bornAt' \in [Path -> Nat]
          /\ \A p \in Paths(listed) \ Paths(served) : bornAt'[p] > servedAt
          /\ \A p \in Paths(listed) \ Paths(NoEntries) : bornAt'[p] > 0
      BY <1>3, <1>8, <2>1, SaveMarksTheNew, IdleIsSound
    <3> QED BY <1>2, <1>3, <3>1 DEF LacksOnlyNewer, Paths
  <2>2. CASE UNCHANGED <<registryFile, projectSaves, bornAt>>
    BY <1>2, <1>8, <2>2, RegistryFacts DEF LacksOnlyNewer, Paths, RegistryIsSound
  <2> QED BY <1>9, <2>1, <2>2
<1>11. RegistryIsSound'
  <2>1. projectSaves' \in Nat /\ servedAt' \in Nat /\ servedAt' <= projectSaves'
    BY <1>2, <1>8, <1>10
  <2> QED BY <1>2, <1>7, <1>10, <2>1, RegistryFacts DEF RegistryIsSound, markerVars
<1>12. RunIsSound(c)'
  <2>1. r.since <= projectSaves'
    BY <1>6, <1>8, <1>10
  <2>2. Paths(command[c].entries)' = Paths(listed)
    BY <1>6, <1>7 DEF Paths
  <2>3. DirOf(c)' = DirOf(c)
    BY <1>6, <1>7 DEF DirOf
  <2>4. Marked(c)'
    BY <1>1, <1>2, <1>3, <1>6, <1>7, <2>3 DEF RunIsSound, Marked, markerVars
  <2>5. Named(run.found) \subseteq Paths(listed)
    BY <1>1, <1>3 DEF RunIsSound
  <2> QED BY <1>1, <1>3, <1>6, <1>7, <2>1, <2>2, <2>4, <2>5 DEF RunIsSound
<1>13. ASSUME NEW d \in Command \ {c}
       PROVE  RunIsSound(d)'
  <2>1. Marked(d)'
    BY <1>2, <1>7, RunFacts DEF RunIsSound, Marked, DirOf, markerVars
  <2>2. \/ UNCHANGED <<registryFile, bornAt, projectSaves>>
        \/ \E e \in Registries : \E from : Save(e, from)
    BY <1>3, <1>9
  <2> QED BY <1>7, <2>1, <2>2, OtherRun
<1>14. StoppedAreMarked' /\ WrittenIsServed'
  BY <1>2 DEF ProjectsInv, StoppedAreMarked, WrittenIsServed, StatusBaseDir, markerVars
<1> QED BY <1>10, <1>11, <1>12, <1>13, <1>14 DEF ProjectsInv

LEMMA DeleteResumeMarkerInv ==
  ASSUME ProjectsInv, NEW c \in Command, DeleteResumeMarker(c)
  PROVE  ProjectsInv'
<1> DEFINE dir == <<command[c].path, command[c].db>>
<1>1. /\ command[c].pc = "clean" /\ marker' \in {marker, [marker EXCEPT ![dir] = NoMarker]}
      /\ command' = [command EXCEPT ![c] = Idle]
      /\ UNCHANGED <<fileOf, served, servedAt, wrote, stopped, markerTmp>>
  BY DEF DeleteResumeMarker
<1>2. RunIsSound(c)'
  BY <1>1, IdleRun DEF fileOf
<1>3. dir \in IndexDirs /\ stopped[dir] = {}
  BY <1>1, RunDir, RunFacts DEF RunIsSound, Marked, DirOf
<1>4. /\ marker \in [IndexDirs -> Markers] /\ markerTmp \in [IndexDirs -> Markers]
      /\ stopped \in [IndexDirs -> ModelSets]
  BY RegistryFacts DEF RegistryIsSound
<1> HIDE DEF dir
<1>5. /\ marker' \in [IndexDirs -> Markers] /\ stopped'[dir] = {}
      /\ marker'[dir] = marker[dir] \/ marker'[dir].by = "nobody"
      /\ \A e \in IndexDirs \ {dir} : marker'[e] = marker[e]
  BY <1>1, <1>3, <1>4, IdleIsSound
<1>6. StoppedAreMarked' /\ \A d \in Command \ {c} : Marked(d)'
  BY <1>1, <1>3, <1>5, IdleIsSound, MarkersOfOthers
<1> QED BY <1>1, <1>2, <1>4, <1>5, <1>6, IdleIsSound, RunStep

(* A run that is cut off: its models count as stopped if the marker is its *)
(* own, and then the marker names them.                                    *)
LEMMA StopRunInv ==
  ASSUME ProjectsInv, NEW c \in Command, StopRun(c)
  PROVE  ProjectsInv'
<1> DEFINE dir == <<command[c].path, command[c].db>>
           alone == \A d \in Command \ {c} :
                      command[d].pc = "idle" \/ <<command[d].path, command[d].db>> # dir
<1>1. /\ command[c].pc \in {"index", "clean"}
      /\ stopped' = IF alone /\ marker[dir].by = c THEN [stopped EXCEPT ![dir] = command[c].models]
                    ELSE stopped
      /\ command' = [command EXCEPT ![c] = Idle] /\ UNCHANGED <<fileOf, served, servedAt, wrote, marker, markerTmp>>
  BY DEF StopRun
<1>2. RunIsSound(c)'
  BY <1>1, IdleRun DEF fileOf
<1>3. CASE ~(alone /\ marker[dir].by = c)
  <2>1. stopped' = stopped
    BY <1>1, <1>3
  <2>2. UNCHANGED markerVars
    BY <1>1, <2>1 DEF markerVars
  <2> QED BY <1>1, <1>2, <2>2, IdleIsSound, PlainRunStep
<1>4. CASE alone /\ marker[dir].by = c
  <2>1. stopped' = [stopped EXCEPT ![dir] = command[c].models]
    BY <1>1, <1>4
  <2>2. dir \in IndexDirs /\ command[c].models \in ModelSets /\ marker[dir].models = command[c].models
    BY <1>1, <1>4, RunDir, RunFacts DEF RunIsSound, Marked, DirOf, CommandRun
  <2>3. marker \in [IndexDirs -> Markers] /\ markerTmp \in [IndexDirs -> Markers] /\ stopped \in [IndexDirs -> ModelSets] /\ StoppedAreMarked
    BY RegistryFacts DEF RegistryIsSound, ProjectsInv
  <2>4. /\ stopped' \in [IndexDirs -> ModelSets] /\ marker' \in [IndexDirs -> Markers]
        /\ markerTmp' \in [IndexDirs -> Markers]
    BY <1>1, <2>1, <2>2, <2>3
  <2>5. StoppedAreMarked'
    <3> HIDE DEF dir, alone
    <3> QED BY <1>1, <2>1, <2>2, <2>3 DEF StoppedAreMarked
  <2>6. ASSUME NEW d \in Command \ {c}
        PROVE  Marked(d)'
    <3>1. command[d].pc # "idle" => DirOf(d) # dir /\ DirOf(d) \in IndexDirs
      BY <1>4, RunDir DEF DirOf
    <3>2. Marked(d) /\ command'[d] = command[d]
      BY <1>1, RunFacts, RunChanges, IdleIsSound DEF RunIsSound
    <3>3. DirOf(d)' = DirOf(d)
      BY <3>2 DEF DirOf
    <3> HIDE DEF dir
    <3>4. command[d].pc # "idle" => stopped'[DirOf(d)] = stopped[DirOf(d)]
      BY <2>1, <2>3, <3>1
    <3> QED BY <1>1, <3>2, <3>3, <3>4 DEF Marked
  <2> QED BY <1>1, <1>2, <2>4, <2>5, <2>6, IdleIsSound, RunStep
<1> QED BY <1>3, <1>4

-----------------------------------------------------------------------------
LEMMA StartServerInv ==
  ASSUME ProjectsInv, StartServer
  PROVE  ProjectsInv'
<1>1. /\ wrote' = [p \in Path |-> "nowhere"]
      /\ UNCHANGED <<registryFile, projectSaves, bornAt, command, marker, markerTmp, stopped>>
  BY DEF StartServer, fileOf, markerVars
<1>2. RegistryIsSound /\ LacksOnlyNewer(NoEntries, 0)
  BY RegistryFacts DEF ProjectsInv
<1>3. /\ served' \in Registries /\ servedAt' \in Nat /\ servedAt' <= projectSaves
      /\ LacksOnlyNewer(served', servedAt')
  <2>1. PICK load \in Loads : served' = load.entries /\ servedAt' = load.since
    BY DEF StartServer
  <2> QED BY <2>1, LoadsAreSound
<1>4. RegistryIsSound'
  <2>1. wrote' \in [Path -> Where \cup {"nowhere"}]
    BY <1>1
  <2>2. servedAt' \in Nat /\ servedAt' <= projectSaves'
    BY <1>1, <1>3
  <2> QED BY <1>1, <1>2, <1>3, <2>1, <2>2 DEF RegistryIsSound
<1>5. ASSUME NEW c \in Command
      PROVE  RunIsSound(c)'
  BY <1>1, RunFacts DEF RunIsSound, Marked, DirOf, LacksOnlyNewer, Paths
<1>6. StoppedAreMarked' /\ WrittenIsServed'
  BY <1>1 DEF ProjectsInv, StoppedAreMarked, WrittenIsServed
<1>7. LacksOnlyNewer(served, servedAt)' /\ LacksOnlyNewer(NoEntries, 0)'
  BY <1>1, <1>2, <1>3 DEF LacksOnlyNewer, Paths
<1> QED BY <1>4, <1>5, <1>6, <1>7 DEF ProjectsInv

(* What the server registers: itself where it indexed, what it found below *)
(* the projects themselves, and all that it had.                           *)
LEMMA ServerIndexSaves ==
  ASSUME ProjectsInv, NEW path \in Path, NEW found, NEW opened, ServerIndex(path, found, opened)
  PROVE  /\ served' \in Registries /\ Paths(served) \subseteq Paths(served')
         /\ path \notin found /\ opened \subseteq found
         /\ RunIndexBaseDir(path) \in Where
         /\ StatusBaseDir(path)' = RunIndexBaseDir(path)
         /\ \A p \in Path : p \in found => StatusBaseDir(p)' = "own"
         /\ \A p \in Path : p \notin found /\ p # path => StatusBaseDir(p)' = StatusBaseDir(p)
         /\ Save(served', servedAt) \/ UNCHANGED fileOf
<1> DEFINE db == RunIndexBaseDir(path)
           own == Register(served, path, db)
           listed == RegisterFound(own, found)
<1>1. served \in Registries
  BY RegistryFacts DEF RegistryIsSound
<1>2. db \in Where /\ (served[path] = "none" => db = "own") /\ (served[path] # "none" => db = served[path])
  BY <1>1 DEF RunIndexBaseDir, Registries, Where
<1>3. found \in SUBSET Path /\ path \notin found
  BY ProjectsAssumption DEF ServerIndex
<1>4. /\ served' = listed /\ opened \subseteq found
      /\ Save(listed, servedAt) \/ UNCHANGED fileOf
  BY DEF ServerIndex
<1>5. Save(served', servedAt) \/ UNCHANGED fileOf
  BY <1>4
<1>6. \A p \in Path : BaseName[p] \in Reserved => served[p] = "none"
  BY <1>1 DEF Registries
<1>7. /\ own \in Registries /\ Paths(served) \subseteq Paths(own)
      /\ BaseName[path] \notin Reserved => own[path] = db
      /\ BaseName[path] \in Reserved => own[path] = "none"
      /\ \A p \in Path \ {path} : own[p] = served[p]
  <2> HIDE DEF db
  <2> QED BY <1>1, <1>2, RegisterKeeps
<1> HIDE DEF own
<1>8. /\ listed \in Registries /\ Paths(own) \subseteq Paths(listed)
      /\ \A p \in Named(found) : listed[p] = "own"
      /\ \A p \in Path \ Named(found) : listed[p] = own[p]
  BY <1>3, <1>7, RegisterFoundKeeps
<1> HIDE DEF listed, db
<1>9. StatusBaseDir(path)' = db
  <2>1. listed[path] = own[path]
    BY <1>3, <1>8 DEF Named
  <2> QED BY <1>2, <1>4, <1>6, <1>7, <2>1 DEF StatusBaseDir, Where
<1>10. ASSUME NEW p \in Path, p \in found
       PROVE  StatusBaseDir(p)' = "own"
  <2>1. CASE BaseName[p] \in Reserved
    <3>1. listed[p] = served[p]
      BY <1>3, <1>7, <1>8, <1>10, <2>1 DEF Named
    <3> QED BY <1>4, <1>6, <2>1, <3>1 DEF StatusBaseDir
  <2>2. CASE BaseName[p] \notin Reserved
    BY <1>4, <1>8, <1>10, <2>2 DEF StatusBaseDir, Named
  <2> QED BY <2>1, <2>2
<1>11. ASSUME NEW p \in Path, p \notin found, p # path
       PROVE  StatusBaseDir(p)' = StatusBaseDir(p)
  <2>1. listed[p] = served[p]
    BY <1>7, <1>8, <1>11 DEF Named
  <2> QED BY <1>4, <2>1 DEF StatusBaseDir
<1>12. Paths(served) \subseteq Paths(served')
  BY <1>4, <1>7, <1>8
<1> QED BY <1>2, <1>3, <1>4, <1>5, <1>8, <1>9, <1>10, <1>11, <1>12 DEF db

LEMMA ServerIndexInv ==
  ASSUME ProjectsInv, NEW path \in Path, NEW found, NEW opened, ServerIndex(path, found, opened)
  PROVE  ProjectsInv'
<1> DEFINE db == RunIndexBaseDir(path)
<1>1. /\ served' \in Registries /\ Paths(served) \subseteq Paths(served')
      /\ path \notin found /\ opened \subseteq found
      /\ db \in Where /\ StatusBaseDir(path)' = db
      /\ \A p \in Path : p \in found => StatusBaseDir(p)' = "own"
      /\ \A p \in Path : p \notin found /\ p # path => StatusBaseDir(p)' = StatusBaseDir(p)
      /\ Save(served', servedAt) \/ UNCHANGED fileOf
  BY ServerIndexSaves
<1>2. /\ wrote' = [p \in Path |-> IF p = path THEN db
                                  ELSE IF p \in opened THEN "own"
                                  ELSE IF p \in found THEN "nowhere" ELSE wrote[p]]
      /\ UNCHANGED <<servedAt, command, marker, markerTmp, stopped>>
  BY DEF ServerIndex, markerVars
<1> HIDE DEF db
<1>3. /\ RegistryIsSound /\ LacksOnlyNewer(served, servedAt) /\ LacksOnlyNewer(NoEntries, 0)
      /\ WrittenIsServed
  BY RegistryFacts DEF ProjectsInv
<1>4. wrote' \in [Path -> Where \cup {"nowhere"}]
  BY <1>1, <1>2, <1>3 DEF RegistryIsSound, Where
<1>5. \/ Save(served', servedAt)
      \/ UNCHANGED <<registryFile, bornAt, projectSaves>>
  BY <1>1 DEF fileOf
<1>6. /\ registryFile' \in Registries /\ bornAt' \in [Path -> Nat]
      /\ projectSaves' = projectSaves \/ projectSaves' = projectSaves + 1
      /\ LacksOnlyNewer(served, servedAt)' /\ LacksOnlyNewer(NoEntries, 0)'
  <2>1. CASE Save(served', servedAt)
    <3>1. /\ registryFile' = served' /\ projectSaves' = projectSaves + 1 /\ bornAt' \in [Path -> Nat]
          /\ \A p \in Paths(served') \ Paths(NoEntries) : bornAt'[p] > 0
      <4>1. projectSaves \in Nat
        BY <1>3 DEF RegistryIsSound
      <4> QED BY <1>1, <1>3, <2>1, <4>1, SaveMarksTheNew, IdleIsSound
    <3> QED BY <1>1, <3>1 DEF LacksOnlyNewer, Paths
  <2>2. CASE UNCHANGED <<registryFile, bornAt, projectSaves>>
    <3>1. LacksOnlyNewer(served, servedAt)' /\ LacksOnlyNewer(NoEntries, 0)'
      BY <1>1, <1>2, <1>3, <2>2 DEF LacksOnlyNewer, Paths
    <3> QED BY <1>3, <2>2, <3>1 DEF RegistryIsSound
  <2> QED BY <1>5, <2>1, <2>2
<1>7. RegistryIsSound'
  <2>1. projectSaves' \in Nat /\ servedAt' \in Nat /\ servedAt' <= projectSaves'
    BY <1>2, <1>3, <1>6 DEF RegistryIsSound
  <2> QED BY <1>1, <1>2, <1>3, <1>4, <1>6, <2>1 DEF RegistryIsSound
<1>8. ASSUME NEW c \in Command
      PROVE  RunIsSound(c)'
  <2>1. Marked(c)'
    BY <1>2, RunFacts DEF RunIsSound, Marked, DirOf
  <2>2. \/ UNCHANGED <<registryFile, bornAt, projectSaves>>
        \/ \E e \in Registries : \E from : Save(e, from)
    BY <1>1, <1>5
  <2> QED BY <1>2, <2>1, <2>2, OtherRun
<1>9. StoppedAreMarked'
  BY <1>2 DEF ProjectsInv, StoppedAreMarked
<1>10. ASSUME NEW p \in Path, wrote'[p] # "nowhere"
       PROVE  StatusBaseDir(p)' = wrote'[p]
  <2>1. CASE p = path
    BY <1>1, <1>2, <2>1
  <2>2. CASE p \in found
    BY <1>1, <1>2, <1>10, <2>2
  <2>3. CASE p # path /\ p \notin found
    <3>1. StatusBaseDir(p)' = StatusBaseDir(p) /\ wrote'[p] = wrote[p]
      BY <1>1, <1>2, <2>3
    <3> QED BY <1>3, <1>10, <3>1 DEF WrittenIsServed
  <2> QED BY <2>1, <2>2, <2>3
<1>11. WrittenIsServed'
  BY <1>10 DEF WrittenIsServed
<1> QED BY <1>6, <1>7, <1>8, <1>9, <1>11 DEF ProjectsInv

-----------------------------------------------------------------------------
LEMMA ProjectsStepInv == ProjectsInv /\ [ProjectsNext]_projectVars => ProjectsInv'
<1> SUFFICES ASSUME ProjectsInv, [ProjectsNext]_projectVars PROVE ProjectsInv'
  OBVIOUS
<1>1. ASSUME NEW c \in Command, CommandStep(c)
      PROVE  ProjectsInv'
  <2>1. ASSUME NEW path \in Outer, NEW db \in Where, ReadResumeMarker(c, path, db) PROVE ProjectsInv'
    BY <2>1, ReadResumeMarkerInv
  <2>2. CASE NothingToIndex(c)
    BY <2>2, NothingToIndexInv
  <2>3. ASSUME NEW request \in {"all", "flags", "batch", "terminal"}, NEW configured \in Model \cup {"none"},
               WriteMarkerTmp(c, request, configured)
        PROVE  ProjectsInv'
    BY <2>3, WriteMarkerTmpInv
  <2>9. CASE BeginRun(c)
    BY <2>9, BeginRunInv
  <2>4. ASSUME NEW m \in Model, PassFails(c, m) PROVE ProjectsInv'
    BY <2>4, PassFailsInv
  <2>5. ASSUME NEW m \in Model, NEW found \in SUBSET Path, NEW opened \in SUBSET Path,
               IndexWithModel(c, m, found, opened)
        PROVE  ProjectsInv'
    BY <2>5, IndexWithModelInv
  <2>6. CASE SaveRegistry(c)
    BY <2>6, SaveRegistryInv
  <2>7. CASE DeleteResumeMarker(c)
    BY <2>7, DeleteResumeMarkerInv
  <2>8. CASE StopRun(c)
    BY <2>8, StopRunInv
  <2> QED BY <1>1, <2>1, <2>2, <2>3, <2>4, <2>5, <2>6, <2>7, <2>8, <2>9 DEF CommandStep
<1>2. CASE StartServer
  BY <1>2, StartServerInv
<1>3. ASSUME NEW path \in Path, NEW found \in SUBSET Path, NEW opened \in SUBSET Path,
             ServerIndex(path, found, opened)
      PROVE  ProjectsInv'
  BY <1>3, ServerIndexInv
<1>4. ASSUME \/ UNCHANGED projectVars
             \/ \E path \in Path : ServerPassFails(path)
      PROVE  ProjectsInv'
  <2>1. UNCHANGED <<registryFile, projectSaves, bornAt, served, servedAt, command, marker, markerTmp, stopped, wrote>>
    BY <1>4 DEF projectVars, fileOf, markerVars, ServerPassFails
  <2>2. /\ RegistryIsSound' /\ StoppedAreMarked' /\ WrittenIsServed' /\ LacksOnlyNewer(served, servedAt)'
        /\ LacksOnlyNewer(NoEntries, 0)'
    BY <2>1 DEF ProjectsInv, RegistryIsSound, StoppedAreMarked, WrittenIsServed, StatusBaseDir,
                LacksOnlyNewer, Paths
  <2>3. \A c \in Command : RunIsSound(c)'
    BY <2>1, RunFacts DEF RunIsSound, Marked, DirOf, LacksOnlyNewer, Paths
  <2> QED BY <2>2, <2>3 DEF ProjectsInv
<1> QED BY <1>1, <1>2, <1>3, <1>4 DEF ProjectsNext, ServerStep

LEMMA ProjectsInvariant == ProjectsSpec => []ProjectsInv
<1>1. ProjectsInit => ProjectsInv
  BY ProjectsInitInv
<1>2. ProjectsInv /\ [ProjectsNext]_projectVars => ProjectsInv'
  BY ProjectsStepInv
<1> QED BY <1>1, <1>2, PTL DEF ProjectsSpec

(* What a later command or heimdall_status reads of earlier runs is true   *)
(* of them, for any projects, models and number of processes.              *)
THEOREM RunsAreFound == ProjectsSpec => []RunsAreFoundAgain
<1>1. ProjectsInv => RunsAreFoundAgain
  <2> SUFFICES ASSUME ProjectsInv PROVE RunsAreFoundAgain
    OBVIOUS
  <2>1. \A c \in Command : command[c].pc # "idle" =>
          {p \in command[c].found : BaseName[p] \notin Reserved} \subseteq Paths(command[c].entries)
    BY RunFacts DEF RunIsSound, Named
  <2>2. DOMAIN marker = IndexDirs
    BY RegistryFacts DEF RegistryIsSound
  <2> QED BY <2>1, <2>2 DEF ProjectsInv, StoppedAreMarked, WrittenIsServed, RunsAreFoundAgain
<1> QED BY <1>1, ProjectsInvariant, PTL

(* An entry leaves the registry only by the save of a process that had     *)
(* loaded the file before the entry came into it, or could not read it.    *)
THEOREM EntriesLeaveByOverlap == ProjectsSpec => EntriesLeaveOnlyByOverlap
<1> DEFINE All == \A p \in Paths(registryFile) \ Paths(registryFile') : bornAt[p] > savedFrom'
<1>1. ProjectsInv /\ [ProjectsNext]_projectVars => [All]_projectVars
  <2> SUFFICES ASSUME ProjectsInv, ProjectsNext PROVE All
    OBVIOUS
  <2>1. CASE registryFile' = registryFile
    BY <2>1
  <2>2. ASSUME NEW c \in Command, SaveRegistry(c) PROVE All
    <3> DEFINE listed == Register(command[c].entries, command[c].path, command[c].db)
    <3>1. /\ listed \in Registries /\ Paths(command[c].entries) \subseteq Paths(listed)
          /\ LacksOnlyNewer(command[c].entries, command[c].since)
          /\ Save(listed, command[c].since) \/ UNCHANGED fileOf
      BY <2>2, SaveRegistrySaves
    <3> HIDE DEF listed
    <3>2. CASE Save(listed, command[c].since)
      <4>1. registryFile' = listed /\ savedFrom' = command[c].since
        BY <3>2 DEF Save
      <4> QED BY <3>1, <4>1 DEF LacksOnlyNewer
    <3>3. CASE UNCHANGED fileOf
      BY <2>1, <3>3 DEF fileOf
    <3> QED BY <3>1, <3>2, <3>3
  <2>3. ASSUME NEW path \in Path, NEW found \in SUBSET Path, NEW opened \in SUBSET Path,
               ServerIndex(path, found, opened)
        PROVE  All
    <3>1. /\ served' \in Registries /\ Paths(served) \subseteq Paths(served')
          /\ Save(served', servedAt) \/ UNCHANGED fileOf
      BY <2>3, ServerIndexSaves
    <3>2. LacksOnlyNewer(served, servedAt)
      BY DEF ProjectsInv
    <3>3. CASE Save(served', servedAt)
      <4>1. registryFile' = served' /\ savedFrom' = servedAt
        BY <3>3 DEF Save
      <4> QED BY <3>1, <3>2, <4>1 DEF LacksOnlyNewer
    <3>4. CASE UNCHANGED fileOf
      BY <2>1, <3>4 DEF fileOf
    <3> QED BY <3>1, <3>3, <3>4
  <2>4. ASSUME NEW c \in Command, CommandStep(c), ~SaveRegistry(c) PROVE registryFile' = registryFile
    BY <2>4 DEF CommandStep, ReadResumeMarker, NothingToIndex, WriteMarkerTmp, BeginRun, PassFails, IndexWithModel,
                DeleteResumeMarker, StopRun, fileOf
  <2>5. StartServer \/ (\E path \in Path : ServerPassFails(path)) => registryFile' = registryFile
    BY DEF StartServer, ServerPassFails, fileOf
  <2> QED BY <2>1, <2>2, <2>3, <2>4, <2>5 DEF ProjectsNext, ServerStep
<1> QED BY <1>1, ProjectsInvariant, PTL DEF ProjectsSpec, EntriesLeaveOnlyByOverlap

-----------------------------------------------------------------------------
(* The hook before a Bash command.                                         *)

(* A row of a command's verdict has a class, a row of telemetry does not   *)
(* or is known by its stage.                                               *)
LogEntry == [stage : {"classify", "llm.classify", "reason_truncated", "timeout", "bad_response", "panic",
                 "unreachable", "no_model", "skip"},
        class : Class \cup {""}, mode : Mode \cup {""}, by : {"", "rule", "llm"},
        at : Int, root : Root]

WellFormed(r) ==
  /\ r \in LogEntry
  /\ r.stage = "classify" => r.class # ""
  /\ r.stage \notin {"classify", "llm.classify"} => r.class = ""

RowsInv ==
  /\ auditLog \in Seq(LogEntry)
  /\ \A i \in DOMAIN auditLog : WellFormed(auditLog[i]) /\ auditLog[i].at \in 1..hour

(* The row of the last command is the last of the log, and of this hour.   *)
ReplyInv ==
  /\ reply.exit \in {0, 2} /\ reply.class \in Class \cup {""}
  /\ reply.exit = 2 =>
       /\ auditLog # <<>> /\ Last(auditLog).stage = "classify" /\ Last(auditLog).at = hour
       /\ Last(auditLog).class = "block"

GuardInv ==
  /\ hour \in 1..MaxHour /\ RowsInv /\ ReplyInv
  /\ RefusedByVerdict /\ WrappersAreTransparent

-----------------------------------------------------------------------------
LEMMA HasLeast ==
  ASSUME NEW S \in SUBSET Nat, S # {}
  PROVE  \E m \in S : \A k \in S : m <= k
<1> DEFINE R == {ss \in Nat \X Nat : ss[1] < ss[2]}
<1>1. IsWellFoundedOn(R, Nat)
  BY NatLessThanWellFounded, Zenon DEF OpToRel
<1>2. \E m \in S : \A k \in S : <<k, m>> \notin R
  <2> HIDE DEF R
  <2> QED
    BY <1>1, WFMin
<1>3. PICK m \in S : \A k \in S : <<k, m>> \notin R
  BY <1>2
<1>4. \A k \in S : ~(k < m)
  BY <1>3
<1> QED
  BY <1>4

(* What is left after leading words is empty if there is nothing else, and *)
(* otherwise begins with the first other word.                             *)
LEMMA DropAll ==
  ASSUME NEW s, NEW words, \A i \in DOMAIN s : s[i] \in words
  PROVE  DropWhile(s, words) = <<>>
BY DEF DropWhile

LEMMA DropSome ==
  ASSUME NEW s \in Seq(STRING), NEW words, NEW m \in DOMAIN s, s[m] \notin words,
         \A i \in DOMAIN s : i < m => s[i] \in words
  PROVE  DropWhile(s, words) = SubSeq(s, m, Len(s))
<1> DEFINE rest == {i \in DOMAIN s : s[i] \notin words}
<1>1. m \in rest /\ \A i \in rest : m <= i
  BY LenProperties
<1>2. \A k \in rest : k \in Nat
  BY LenProperties
<1>3. Min(rest) = m
  <2> HIDE DEF rest
  <2>1. Min(rest) \in rest /\ Min(rest) <= m
    BY <1>1 DEF Min
  <2> QED
    BY <1>1, <1>2, <2>1
<1> QED
  BY <1>1, <1>3 DEF DropWhile

(* An env with its assignments and wrappers normalize to nothing. *)
Transparent(prefix) ==
  \A i \in DOMAIN prefix :
    \/ prefix[i] \in {"time", "nice"}
    \/ prefix[1] = "env" /\ \A j \in 2..i : prefix[j] = "assign"

LEMMA WrappersNormalize ==
  ASSUME NEW prefix \in Seq(STRING), Transparent(prefix)
  PROVE  NormalizeCommand(prefix) = <<>>
<1> DEFINE wrappers == {"time", "nice"}
<1>1. CASE ~(prefix # <<>> /\ Head(prefix) = "env")
  <2>1. NormalizeCommand(prefix) = DropWhile(prefix, wrappers)
    BY <1>1 DEF NormalizeCommand
  <2>2. \A i \in DOMAIN prefix : prefix[i] \in wrappers
    <3>1. prefix # <<>> => prefix[1] # "env"
      BY <1>1
    <3>2. DOMAIN prefix # {} => prefix # <<>>
      BY EmptySeq
    <3> QED
      BY <3>1, <3>2 DEF Transparent
  <2> QED
    BY <2>1, <2>2, DropAll
<1>2. CASE prefix # <<>> /\ Head(prefix) = "env"
  <2> DEFINE t == Tail(prefix)
             rest == {i \in DOMAIN t : t[i] # "assign"}
  <2>1. NormalizeCommand(prefix) = DropWhile(DropWhile(t, {"assign"}), wrappers)
    BY <1>2 DEF NormalizeCommand
  <2>2. /\ t \in Seq(STRING) /\ Len(prefix) \in Nat /\ Len(t) = Len(prefix) - 1
        /\ DOMAIN t = 1..Len(t) /\ DOMAIN prefix = 1..Len(prefix)
        /\ \A i \in DOMAIN t : t[i] = prefix[i + 1]
    BY <1>2, HeadTailProperties, LenProperties
  <2>3. CASE rest = {}
    <3>1. DropWhile(t, {"assign"}) = <<>>
      BY <2>3, DropAll
    <3>2. DropWhile(<<>>, wrappers) = <<>>
      BY DropAll
    <3> QED
      BY <2>1, <3>1, <3>2
  <2>4. CASE rest # {}
    <3>1. rest \in SUBSET Nat
      BY <2>2
    <3>2. PICK m \in rest : \A k \in rest : m <= k
      <4> HIDE DEF rest
      <4> QED
        BY <2>4, <3>1, HasLeast
    <3>3. /\ m \in DOMAIN t /\ t[m] \notin {"assign"}
          /\ \A i \in DOMAIN t : i < m => t[i] \in {"assign"}
      BY <2>2, <3>2
    <3> HIDE DEF rest, t
    <3>4. DropWhile(t, {"assign"}) = SubSeq(t, m, Len(t))
      BY <2>2, <3>3, DropSome
    <3> DEFINE u == SubSeq(t, m, Len(t))
    <3>5. /\ DOMAIN u = 1..Len(t) - m + 1
          /\ \A i \in 1..Len(t) - m + 1 : u[i] = t[m + i - 1]
      <4>1. m \in 1..Len(t) + 1 /\ Len(t) \in m - 1 .. Len(t) /\ \A i \in m..Len(t) : t[i] \in STRING
        BY <2>2, <3>3, ElementOfSeq
      <4> QED
        BY <2>2, <3>3, <4>1, SubSeqProperties
    <3>6. ASSUME NEW i \in DOMAIN u PROVE u[i] \in wrappers
      <4>1. u[i] = prefix[m + i] /\ m + i \in DOMAIN prefix /\ m + 1 \in 2..m + i
        <5>1. i \in Nat /\ i >= 1 /\ m \in Nat /\ m >= 1 /\ m + i - 1 \in DOMAIN t /\ u[i] = t[m + i - 1]
          BY <2>2, <3>3, <3>5
        <5>2. t[m + i - 1] = prefix[m + i - 1 + 1] /\ m + i - 1 + 1 = m + i
          BY <2>2, <5>1
        <5> QED
          BY <2>2, <5>1, <5>2
      <4>2. prefix[m + 1] # "assign"
        BY <2>2, <3>3
      <4> QED
        BY <4>1, <4>2 DEF Transparent
    <3> HIDE DEF u
    <3>7. DropWhile(u, wrappers) = <<>>
      BY <3>6, DropAll
    <3> QED
      BY <2>1, <3>4, <3>7 DEF u
  <2> QED
    BY <2>3, <2>4
<1> QED
  BY <1>1, <1>2

-----------------------------------------------------------------------------
(* What a verdict is, and the rows it leaves beside its own. *)
Kinds == DOMAIN KindRules

LEMMA StaticClass ==
  ASSUME NEW c, c.kind \in Kinds
  PROVE  /\ ClassifyStatic(c) \in Class
         /\ ClassifyStatic(c) = "block" =>
              "block" \in KindRules[c.kind] /\ "allow" \notin KindRules[c.kind]
<1> DEFINE rules == IF c.kind = "dropDatabase" \/ NormalizeCommand(c.prefix) = <<>>
                    THEN KindRules[c.kind] ELSE {}
<1>1. rules = {} \/ rules = KindRules[c.kind]
  OBVIOUS
<1>2. ClassifyStatic(c) = IF "allow" \in rules THEN "allow" ELSE IF "block" \in rules THEN "block"
                          ELSE IF "warn" \in rules THEN "warn" ELSE "unknown"
  BY DEF ClassifyStatic
<1> HIDE DEF rules
<1> QED
  BY <1>1, <1>2 DEF Class

(* The rows of telemetry that one command leaves. *)
BesideRow(root) ==
  {r \in LogEntry : WellFormed(r) /\ r.root = root /\ r.at = hour /\ r.stage # "classify"}

BesideFacts(r, root) ==
  r \in LogEntry /\ WellFormed(r) /\ r.root = root /\ r.at = hour

LEMMA BesideRows == ASSUME NEW root, NEW r \in BesideRow(root) PROVE BesideFacts(r, root)
BY DEF BesideRow, BesideFacts

RowsBeside(beside, root) == beside \in Seq(BesideRow(root))

LEMMA Joined ==
  ASSUME NEW S, NEW r \in S, NEW t \in S
  PROVE  <<r>> \o <<t>> = <<r, t>> /\ <<>> \o <<t>> = <<t>>
<1>1. <<r>> \in Seq(S) /\ <<t>> \in Seq(S)
  OBVIOUS
<1>2. Append(<<r>>, t) = <<r, t>>
  <2> DEFINE u == <<r>>
             v == <<r, t>>
             w == Append(u, t)
  <2>1. u \in Seq(S) /\ Len(u) = 1 /\ u[1] = r
    OBVIOUS
  <2>2. v \in Seq(S) /\ Len(v) = 2 /\ v[1] = r /\ v[2] = t
    OBVIOUS
  <2> HIDE DEF u, v
  <2>3. w \in Seq(S) /\ Len(w) = 2 /\ w[1] = r /\ w[2] = t
    <3>1. w \in Seq(S) /\ Len(w) = Len(u) + 1
      BY <2>1, AppendProperties
    <3>2. \A i \in 1..Len(u) : w[i] = u[i]
      BY <2>1, AppendProperties
    <3>3. w[Len(u) + 1] = t
      BY <2>1, AppendProperties
    <3> HIDE DEF w
    <3> QED
      BY <2>1, <3>1, <3>2, <3>3
  <2> HIDE DEF w
  <2>4. w = v
    BY <2>2, <2>3, SeqEqual
  <2> QED
    BY <2>4 DEF u, v, w
<1> QED
  BY <1>1, <1>2, AppendIsConcat, ConcatEmptySeq

LEMMA NoRows == ASSUME NEW root PROVE RowsBeside(<<>>, root)
BY EmptySeq DEF RowsBeside

LEMMA OneRow == ASSUME NEW root, NEW r \in BesideRow(root) PROVE RowsBeside(<<r>>, root)
<1>1. <<r>> \in Seq(BesideRow(root))
  OBVIOUS
<1> QED
  BY <1>1 DEF RowsBeside

LEMMA TwoRows ==
  ASSUME NEW root, NEW r \in BesideRow(root), NEW t \in BesideRow(root)
  PROVE  RowsBeside(<<r, t>>, root)
<1>1. <<r, t>> \in Seq(BesideRow(root))
  OBVIOUS
<1> QED
  BY <1>1 DEF RowsBeside

LEMMA LogRowBeside ==
  ASSUME NEW root \in Root, hour \in Int,
         NEW stage \in {"llm.classify", "reason_truncated", "timeout", "bad_response", "panic",
                        "unreachable", "no_model", "skip"},
         NEW class \in Class \cup {""},
         stage # "llm.classify" => class = ""
  PROVE  LogRow(stage, root, class, "", "") \in BesideRow(root)
         /\ LogRow(stage, root, class, "", "").stage = stage
<1> DEFINE r == LogRow(stage, root, class, "", "")
<1>1. r = [stage |-> stage, class |-> class, mode |-> "", by |-> "", at |-> hour, root |-> root]
  BY DEF LogRow
<1> HIDE DEF r
<1>2. r.stage = stage /\ r.class = class /\ r.root = root /\ r.at = hour
  BY <1>1
<1>3. r \in LogEntry
  BY <1>1 DEF LogEntry
<1>4. WellFormed(r)
  BY <1>2, <1>3 DEF WellFormed
<1>5. r \in BesideRow(root)
  BY <1>2, <1>3, <1>4 DEF BesideRow
<1> QED
  BY <1>2, <1>5 DEF r

GoodVerdict(v, root, c, deps, opinion) ==
  /\ RowsBeside(v.rows, root)
  /\ v.class \in Class /\ v.by \in {"", "rule", "llm"}
  /\ v.class = "block" =>
       \/ "block" \in KindRules[c.kind] /\ "allow" \notin KindRules[c.kind]
       \/ ClassifyStatic(c) = "unknown" /\ deps # "none" /\ opinion \in {"block", "long"}

LEMMA FailuresAreLogged ==
  ASSUME NEW root \in Root, NEW opinion \in Failure, hour \in Int
  PROVE  RowsBeside(FailureRows(root, opinion), root)
<1>1. CASE opinion = "late"
  <2>1. FailureRows(root, opinion) = <<LogRow("timeout", root, "", "", "")>>
    BY <1>1 DEF FailureRows
  <2>2. LogRow("timeout", root, "", "", "") \in BesideRow(root)
    BY LogRowBeside
  <2> QED
    BY <2>1, <2>2, OneRow
<1>2. CASE opinion = "garbled"
  <2>1. FailureRows(root, opinion) = <<LogRow("bad_response", root, "", "", "")>>
    BY <1>2 DEF FailureRows
  <2>2. LogRow("bad_response", root, "", "", "") \in BesideRow(root)
    BY LogRowBeside
  <2> QED
    BY <2>1, <2>2, OneRow
<1>3. CASE opinion = "panic"
  <2> DEFINE p == LogRow("panic", root, "", "", "")
             b == LogRow("bad_response", root, "", "", "")
  <2>1. FailureRows(root, opinion) = <<p, b>>
    BY <1>3 DEF FailureRows
  <2>2. p \in BesideRow(root) /\ p.stage = "panic"
    BY LogRowBeside
  <2>3. b \in BesideRow(root) /\ b.stage = "bad_response"
    BY LogRowBeside
  <2> HIDE DEF p, b
  <2> QED
    BY <2>1, <2>2, <2>3, TwoRows
<1>4. CASE opinion = "refused"
  <2>1. FailureRows(root, opinion) = <<LogRow("unreachable", root, "", "", "")>>
    BY <1>4 DEF FailureRows
  <2>2. LogRow("unreachable", root, "", "", "") \in BesideRow(root)
    BY LogRowBeside
  <2> QED
    BY <2>1, <2>2, OneRow
<1>5. CASE opinion = "hushed"
  BY <1>5, NoRows DEF FailureRows
<1> QED
  BY <1>1, <1>2, <1>3, <1>4, <1>5 DEF Failure

LEMMA VerdictsAreGood ==
  ASSUME NEW root \in Root, NEW c, c.kind \in Kinds, NEW deps,
         NEW opinion \in Opined \cup {"off", "no model"}, hour \in Int
  PROVE  GoodVerdict(Verdict(root, c, deps, opinion), root, c, deps, opinion)
<1> DEFINE v == Verdict(root, c, deps, opinion)
           static == ClassifyStatic(c)
<1>1. static \in Class /\ (static = "block" =>
        "block" \in KindRules[c.kind] /\ "allow" \notin KindRules[c.kind])
  BY StaticClass
<1>2. CASE static # "unknown"
  <2>1. v = [class |-> static, by |-> "rule", rows |-> <<>>]
    BY <1>2 DEF Verdict
  <2> HIDE DEF v, static
  <2>2. GoodVerdict(v, root, c, deps, opinion)
    BY <1>1, <2>1, NoRows DEF GoodVerdict
  <2> QED
    BY <2>2 DEF v
<1>3. CASE static = "unknown" /\ (deps = "none" \/ opinion = "off")
  <2>1. v = [class |-> static, by |-> "", rows |-> <<>>]
    BY <1>3 DEF Verdict
  <2> HIDE DEF v, static
  <2>2. GoodVerdict(v, root, c, deps, opinion)
    BY <1>1, <1>3, <2>1, NoRows DEF GoodVerdict
  <2> QED
    BY <2>2 DEF v
<1>4. CASE static = "unknown" /\ deps # "none" /\ opinion = "no model"
  <2>1. v = [class |-> static, by |-> "", rows |-> <<LogRow("no_model", root, "", "", "")>>]
    BY <1>4 DEF Verdict
  <2>2. LogRow("no_model", root, "", "", "") \in BesideRow(root)
    BY LogRowBeside
  <2>3. RowsBeside(<<LogRow("no_model", root, "", "", "")>>, root)
    BY <2>2, OneRow
  <2> HIDE DEF v, static
  <2>4. GoodVerdict(v, root, c, deps, opinion)
    BY <1>1, <1>4, <2>1, <2>3 DEF GoodVerdict
  <2> QED
    BY <2>4 DEF v
<1>5. CASE static = "unknown" /\ deps # "none" /\ opinion \in Failure
  <2>1. v = [class |-> "unknown", by |-> "", rows |-> FailureRows(root, opinion)]
    BY <1>5 DEF Verdict, Opinion, Failure
  <2>2. RowsBeside(FailureRows(root, opinion), root)
    BY <1>5, FailuresAreLogged
  <2> HIDE DEF v, static
  <2>3. GoodVerdict(v, root, c, deps, opinion)
    BY <2>1, <2>2 DEF GoodVerdict, Class
  <2> QED
    BY <2>3 DEF v
<1>6. CASE static = "unknown" /\ deps # "none" /\ opinion \in Opined \ Failure
  <2> DEFINE class == IF opinion = "long" THEN "block" ELSE opinion
             row == LogRow("llm.classify", root, class, "", "")
             short == LogRow("reason_truncated", root, "", "", "")
             beside == (IF opinion = "long" THEN <<short>> ELSE <<>>) \o <<row>>
  <2>1. v = [class |-> class, by |-> "llm", rows |-> beside]
    BY <1>6 DEF Verdict, Opinion, Opined
  <2>2. class \in Class /\ (class = "block" => opinion \in {"block", "long"})
    BY <1>6 DEF Opined, Class
  <2>3. row \in BesideRow(root) /\ row.stage = "llm.classify"
    BY <2>2, LogRowBeside
  <2>4. short \in BesideRow(root) /\ short.stage = "reason_truncated"
    BY LogRowBeside
  <2> HIDE DEF row, short
  <2>5. beside = <<short, row>> \/ beside = <<row>>
    BY <2>3, <2>4, Joined
  <2>6. RowsBeside(beside, root)
    <3> HIDE DEF beside
    <3> QED
      BY <2>3, <2>4, <2>5, OneRow, TwoRows
  <2> HIDE DEF v, static, beside, class
  <2>7. GoodVerdict(v, root, c, deps, opinion)
    BY <1>6, <2>1, <2>2, <2>6 DEF GoodVerdict, static
  <2> QED
    BY <2>7 DEF v
<1> QED
  BY <1>2, <1>3, <1>4, <1>5, <1>6

-----------------------------------------------------------------------------
(* The log after a command: the rows there were, those beside, and that of *)
(* the verdict.                                                            *)
LEMMA LogGrows ==
  ASSUME NEW S, NEW s \in Seq(S), NEW t \in Seq(S), NEW r \in S
  PROVE  LET u == s \o (t \o <<r>>) IN
         /\ u \in Seq(S) /\ Len(u) = Len(s) + Len(t) + 1 /\ DOMAIN u = 1..Len(s) + Len(t) + 1
         /\ Len(s) \in Nat /\ Len(t) \in Nat
         /\ \A i \in DOMAIN s : u[i] = s[i]
         /\ \A i \in DOMAIN t : u[Len(s) + i] = t[i]
         /\ u[Len(u)] = r /\ u # <<>>
<1> DEFINE w == t \o <<r>>
           u == s \o w
<1>1. <<r>> \in Seq(S) /\ Len(<<r>>) = 1 /\ <<r>>[1] = r
  OBVIOUS
<1>2. Len(s) \in Nat /\ Len(t) \in Nat /\ DOMAIN s = 1..Len(s) /\ DOMAIN t = 1..Len(t)
  BY LenProperties
<1>3. /\ w \in Seq(S) /\ Len(w) = Len(t) + 1
      /\ \A i \in 1..Len(t) + 1 : w[i] = IF i <= Len(t) THEN t[i] ELSE <<r>>[i - Len(t)]
  BY <1>1, ConcatProperties
<1>4. w[Len(t) + 1] = r /\ \A i \in DOMAIN t : w[i] = t[i]
  <2>1. Len(t) + 1 - Len(t) = 1 /\ ~(Len(t) + 1 <= Len(t)) /\ Len(t) + 1 \in 1..Len(t) + 1
    BY <1>2
  <2> QED
    BY <1>1, <1>2, <1>3, <2>1
<1> HIDE DEF w
<1>5. /\ u \in Seq(S) /\ Len(u) = Len(s) + Len(w)
      /\ \A i \in 1..Len(s) + Len(w) : u[i] = IF i <= Len(s) THEN s[i] ELSE w[i - Len(s)]
  <2>1. w \in Seq(S)
    BY <1>3
  <2> QED
    BY <2>1, ConcatProperties
<1> HIDE DEF u
<1>6. DOMAIN u = 1..Len(s) + Len(t) + 1 /\ Len(u) = Len(s) + Len(t) + 1
  BY <1>2, <1>3, <1>5, LenProperties
<1>7. \A i \in DOMAIN s : u[i] = s[i]
  BY <1>2, <1>3, <1>5
<1>8. ASSUME NEW i \in DOMAIN t PROVE u[Len(s) + i] = t[i]
  <2>1. Len(s) + i \in 1..Len(s) + Len(w) /\ ~(Len(s) + i <= Len(s)) /\ Len(s) + i - Len(s) = i
    BY <1>2, <1>3
  <2>2. u[Len(s) + i] = w[i]
    BY <1>5, <2>1
  <2> QED
    BY <1>4, <2>2
<1>9. u[Len(u)] = r
  <2>1. Len(u) \in 1..Len(s) + Len(w) /\ ~(Len(u) <= Len(s)) /\ Len(u) - Len(s) = Len(t) + 1
    BY <1>2, <1>3, <1>6
  <2> QED
    BY <1>4, <1>5, <2>1
<1>10. u # <<>>
  BY <1>2, <1>6, EmptySeq
<1> QED
  BY <1>2, <1>5, <1>6, <1>7, <1>8, <1>9, <1>10 DEF u, w

LEMMA IsAmong ==
  ASSUME NEW i \in Nat, NEW n \in Nat, NEW k \in Nat, i \in 1..n + k + 1, ~(i \in 1..n), i # n + k + 1
  PROVE  i - n \in 1..k /\ i = n + (i - n)
OBVIOUS

(* What a longer log keeps. *)
LEMMA LogKeeps ==
  ASSUME GuardInv, NEW root \in Root, NEW beside, RowsBeside(beside, root), NEW r \in LogEntry, WellFormed(r),
         r.at = hour, auditLog' = auditLog \o (beside \o <<r>>), hour' = hour
  PROVE  RowsInv' /\ auditLog' # <<>> /\ Last(auditLog') = r
<1>1. hour \in Nat /\ hour >= 1 /\ hour \in 1..hour
  BY DEF GuardInv
<1>2. beside \in Seq(LogEntry) /\ auditLog \in Seq(LogEntry)
  <2>1. BesideRow(root) \subseteq LogEntry
    BY DEF BesideRow
  <2>2. \A i \in DOMAIN beside : beside[i] \in LogEntry
    BY <2>1, ElementOfSeq, LenProperties DEF RowsBeside
  <2> QED
    BY <2>1, <2>2 DEF RowsBeside, GuardInv, RowsInv
<1> DEFINE n == Len(auditLog)
           k == Len(beside)
<1>3. /\ auditLog' \in Seq(LogEntry) /\ Len(auditLog') = n + k + 1 /\ DOMAIN auditLog' = 1..n + k + 1
      /\ n \in Nat /\ k \in Nat
      /\ \A i \in DOMAIN auditLog : auditLog'[i] = auditLog[i]
      /\ \A i \in DOMAIN beside : auditLog'[n + i] = beside[i]
      /\ auditLog'[Len(auditLog')] = r /\ auditLog' # <<>>
  BY <1>2, LogGrows
<1>4. DOMAIN auditLog = 1..n /\ DOMAIN beside = 1..k
  BY <1>2, LenProperties
<1>5. Last(auditLog') = r
  BY <1>3 DEF Last
<1>6. \A i \in DOMAIN beside : beside[i] \in BesideRow(root)
  BY <1>4, ElementOfSeq DEF RowsBeside
<1> HIDE DEF n, k
<1>7. \A i \in DOMAIN auditLog' :
        \/ i \in DOMAIN auditLog /\ auditLog'[i] = auditLog[i]
        \/ \E j \in DOMAIN beside : i = n + j /\ auditLog'[i] = beside[j]
        \/ i = n + k + 1 /\ auditLog'[i] = r
  <2> SUFFICES ASSUME NEW i \in DOMAIN auditLog', i \notin DOMAIN auditLog, i # n + k + 1
               PROVE  \E j \in DOMAIN beside : i = n + j /\ auditLog'[i] = beside[j]
    BY <1>3
  <2>1. i \in 1..n + k + 1 /\ ~(i \in 1..n)
    BY <1>3, <1>4
  <2>4. i \in Nat /\ n \in Nat /\ k \in Nat
    BY <1>3, <2>1
  <2>2. i - n \in 1..k /\ i = n + (i - n)
    BY <2>1, <2>4, IsAmong
  <2>3. auditLog'[n + (i - n)] = beside[i - n] /\ i - n \in DOMAIN beside
    BY <1>3, <1>4, <2>2
  <2> QED
    BY <2>2, <2>3
<1>8. RowsInv'
  <2>1. \A j \in DOMAIN beside : WellFormed(beside[j]) /\ beside[j].at = hour
    BY <1>6, BesideRows, Zenon DEF BesideFacts
  <2>2. \A i \in DOMAIN auditLog' : WellFormed(auditLog'[i]) /\ auditLog'[i].at \in 1..hour
    BY <1>1, <1>7, <2>1 DEF GuardInv, RowsInv
  <2> QED
    BY <1>3, <2>2 DEF RowsInv
<1> QED
  BY <1>3, <1>5, <1>8

-----------------------------------------------------------------------------
(* The exit codes differ. *)
LEMMA ExitCodes == 0 # 2
OBVIOUS

LEMMA HourIsNumber == ASSUME GuardInv PROVE hour \in Int
<1>1. hour \in 1..MaxHour
  BY DEF GuardInv
<1> QED
  BY <1>1, GuardAssumption

LEMMA BashStep ==
  ASSUME GuardInv, NEW root \in Root, NEW setting \in Setting, NEW c \in BashCommand,
         NEW deps \in Classifiers, NEW opinion \in Opined \cup {"off", "no model"},
         HookPreToolUse(root, setting, c, deps, opinion)
  PROVE  GuardInv'
<1> DEFINE v == Verdict(root, c, deps, opinion)
           mode == ParseGuardrailMode(setting)
           r == LogRow("classify", root, v.class, mode, v.by)
<1>1. hour \in Int /\ c.kind \in Kinds /\ c.prefix \in Seq(STRING)
  <2>1. hour \in Int
    BY HourIsNumber
  <2>2. c \in [prefix : Seq(STRING), kind : Kinds]
    BY GuardAssumption DEF Kinds
  <2> HIDE DEF v, mode, r
  <2> QED
    BY <2>1, <2>2
<1>2. GoodVerdict(v, root, c, deps, opinion)
  BY <1>1, VerdictsAreGood
<1>3. auditLog' = auditLog \o (v.rows \o <<r>>) /\ hour' = hour
  BY DEF HookPreToolUse, Log
<1>14. reply'.exit = IF mode = "block" /\ v.class = "block" THEN 2 ELSE 0
  BY DEF HookPreToolUse
<1>4. /\ reply'.class = v.class /\ reply'.static = ClassifyStatic(c)
      /\ reply'.answer = IF deps = "none" THEN "off" ELSE opinion
      /\ reply'.setting = setting /\ reply'.kind = c.kind /\ reply'.prefix = c.prefix
  BY DEF HookPreToolUse
<1>5. mode \in Mode
  BY DEF ParseGuardrailMode, Mode
<1> HIDE DEF v, mode
<1>6. /\ r = [stage |-> "classify", class |-> v.class, mode |-> mode, by |-> v.by, at |-> hour,
              root |-> root]
      /\ v.class \in Class /\ v.by \in {"", "rule", "llm"} /\ RowsBeside(v.rows, root)
  BY <1>2 DEF LogRow, GoodVerdict
<1> HIDE DEF r
<1>7. r.stage = "classify" /\ r.class = v.class /\ r.mode = mode /\ r.at = hour
  BY <1>6
<1>8. r \in LogEntry
  BY <1>1, <1>5, <1>6 DEF LogEntry
<1>9. WellFormed(r)
  BY <1>6, <1>7, <1>8 DEF WellFormed, Class
<1>10. RowsInv' /\ auditLog' # <<>> /\ Last(auditLog') = r
  BY <1>3, <1>6, <1>7, <1>8, <1>9, LogKeeps
<1>15. reply'.exit \in {0, 2}
  BY <1>14
<1>16. reply'.exit = 2 => mode = "block" /\ v.class = "block"
  BY <1>14, ExitCodes, Zenon
<1>11. ReplyInv'
  BY <1>3, <1>4, <1>6, <1>7, <1>10, <1>15, <1>16 DEF ReplyInv
<1>12. RefusedByVerdict'
  <2> SUFFICES ASSUME reply'.exit = 2
               PROVE  /\ ParseGuardrailMode(reply'.setting) = "block"
                      /\ \/ "block" \in KindRules[reply'.kind] /\ "allow" \notin KindRules[reply'.kind]
                         \/ reply'.static = "unknown" /\ reply'.answer \in {"block", "long"}
                      /\ Last(auditLog').class = "block" /\ Last(auditLog').mode = "block"
    BY DEF RefusedByVerdict
  <2>1. mode = "block" /\ v.class = "block"
    BY <1>16
  <2> QED
    BY <1>2, <1>4, <1>7, <1>10, <2>1 DEF GoodVerdict, mode
<1>13. WrappersAreTransparent'
  <2> SUFFICES ASSUME Transparent(c.prefix)
               PROVE  ClassifyStatic(c) = ClassifyStatic([prefix |-> <<>>, kind |-> c.kind])
    BY <1>4 DEF WrappersAreTransparent, Transparent
  <2>1. NormalizeCommand(c.prefix) = <<>>
    BY <1>1, WrappersNormalize
  <2>2. NormalizeCommand(<<>>) = <<>>
    <3>1. PICK e \in Seq(STRING) : e = <<>>
      BY EmptySeq
    <3>2. Transparent(e)
      BY <3>1, EmptySeq, LenProperties DEF Transparent
    <3> QED
      BY <3>1, <3>2, WrappersNormalize
  <2> QED
    BY <2>1, <2>2 DEF ClassifyStatic
<1> QED
  BY <1>3, <1>10, <1>11, <1>12, <1>13 DEF GuardInv

LEMMA OtherEventStep ==
  ASSUME GuardInv,
         \/ StaysSilent \/ HourPasses \/ UNCHANGED guardVars
         \/ \E root \in Root : NothingToClassify(root)
  PROVE  GuardInv'
<1>1. /\ NoReply.exit = 0 /\ NoReply.class = "" /\ NoReply.kind = ""
  BY DEF NoReply
<1>2. ASSUME reply' = NoReply PROVE ReplyInv' /\ RefusedByVerdict' /\ WrappersAreTransparent'
  <2>1. reply'.exit = 0 /\ reply'.class = "" /\ reply'.kind = ""
    BY <1>1, <1>2
  <2> QED
    BY <2>1, ExitCodes, Zenon DEF ReplyInv, RefusedByVerdict, WrappersAreTransparent
<1>3. CASE UNCHANGED guardVars
  BY <1>3 DEF guardVars, GuardInv, RowsInv, ReplyInv, RefusedByVerdict, WrappersAreTransparent
<1>4. CASE StaysSilent
  <2>1. reply' = NoReply /\ UNCHANGED <<hour, auditLog>>
    BY <1>4 DEF StaysSilent
  <2> QED
    BY <1>2, <2>1 DEF GuardInv, RowsInv
<1>5. CASE HourPasses
  <2>1. reply' = NoReply /\ auditLog' = auditLog /\ hour' = hour + 1 /\ hour < MaxHour
    BY <1>5 DEF HourPasses
  <2>2. hour \in 1..MaxHour /\ MaxHour \in Nat /\ hour' \in 1..MaxHour /\ 1..hour \subseteq 1..hour'
    BY <2>1, GuardAssumption DEF GuardInv
  <2>3. RowsInv'
    BY <2>1, <2>2 DEF GuardInv, RowsInv
  <2> QED
    BY <1>2, <2>1, <2>2, <2>3 DEF GuardInv
<1>6. ASSUME NEW root \in Root, NothingToClassify(root) PROVE GuardInv'
  <2> DEFINE r == LogRow("skip", root, "", "", "")
  <2>1. reply' = NoReply /\ hour' = hour /\ auditLog' = auditLog \o <<r>>
    BY <1>6 DEF NothingToClassify, Log
  <2>2. hour \in Int
    BY DEF GuardInv
  <2>3. r \in BesideRow(root) /\ r.stage = "skip"
    BY <2>2, LogRowBeside
  <2> HIDE DEF r
  <2>4. r \in LogEntry /\ WellFormed(r) /\ r.at = hour
    BY <2>3, BesideRows, Zenon DEF BesideFacts
  <2>5. auditLog' = auditLog \o (<<>> \o <<r>>)
    BY <2>1, <2>4, Joined
  <2>7. RowsInv'
    BY <2>1, <2>3, <2>4, <2>5, NoRows, LogKeeps
  <2> QED
    BY <1>2, <2>1, <2>7 DEF GuardInv
<1> QED
  BY <1>3, <1>4, <1>5, <1>6

(* The invariant implies what the audit counts. *)
LEMMA AuditCounts == ASSUME GuardInv PROVE AuditCountsVerdicts
<1> SUFFICES ASSUME NEW back \in 0..MaxHour
             PROVE  /\ TotalEvents(back) = Cardinality({i \in DOMAIN auditLog :
                         auditLog[i].stage = "classify" /\ auditLog[i].at >= hour - back})
                    /\ reply.exit = 2 /\ back >= FullDay => ~PromoteToWarn(back)
  BY DEF AuditCountsVerdicts
<1> DEFINE counted == {i \in Read(back) : Counts(auditLog[i])}
           blocked == {i \in Read(back) : Counts(auditLog[i]) /\ auditLog[i].class = "block"}
<1>1. /\ hour \in Nat /\ back \in Nat /\ FullDay \in Nat
      /\ \A i \in DOMAIN auditLog : auditLog[i].at \in Nat /\ WellFormed(auditLog[i])
      /\ auditLog \in Seq(LogEntry)
  BY GuardAssumption DEF GuardInv, RowsInv
<1>2. counted = {i \in DOMAIN auditLog :
                   auditLog[i].stage = "classify" /\ auditLog[i].at >= hour - back}
  BY <1>1 DEF Read, Counts, WellFormed
<1>3. ASSUME reply.exit = 2, back >= FullDay PROVE ~PromoteToWarn(back)
  <2>1. DOMAIN auditLog = 1..Len(auditLog) /\ Len(auditLog) \in Nat
    BY <1>1, LenProperties
  <2>2. /\ auditLog # <<>> /\ Last(auditLog).stage = "classify" /\ Last(auditLog).at = hour
        /\ Last(auditLog).class = "block"
    BY <1>3 DEF GuardInv, ReplyInv
  <2>3. Len(auditLog) \in DOMAIN auditLog /\ Last(auditLog) = auditLog[Len(auditLog)]
    BY <1>1, <2>1, <2>2, EmptySeq DEF Last
  <2>4. Len(auditLog) \in blocked /\ Len(auditLog) \in counted
    <3> DEFINE n == Len(auditLog)
    <3>1. n \in DOMAIN auditLog /\ auditLog[n].at = hour /\ auditLog[n].class = "block"
          /\ auditLog[n].stage = "classify"
      BY <2>2, <2>3
    <3> HIDE DEF n
    <3>2. Counts(auditLog[n]) /\ n \in Read(back)
      BY <1>1, <3>1 DEF Read, Counts
    <3> QED
      BY <3>1, <3>2 DEF n
  <2>5. blocked \subseteq 1..Len(auditLog) /\ counted \subseteq 1..Len(auditLog)
    BY <2>1 DEF Read
  <2> HIDE DEF blocked, counted
  <2>6. IsFiniteSet(1..Len(auditLog))
    BY <2>1, FS_Interval
  <2>7. IsFiniteSet(blocked) /\ IsFiniteSet(counted)
    BY <2>5, <2>6, FS_Subset
  <2>8. Cardinality(blocked) # 0 /\ Cardinality(counted) # 0
    BY <2>4, <2>7, FS_EmptySet
  <2>9. CountOf(back, "block") = Cardinality(blocked) /\ TotalEvents(back) = Cardinality(counted)
    BY DEF CountOf, TotalEvents, blocked, counted
  <2> QED
    BY <1>1, <1>3, <2>8, <2>9 DEF PromoteToWarn
<1> QED
  BY <1>2, <1>3 DEF TotalEvents

LEMMA GuardStart == GuardInit => GuardInv
<1> SUFFICES ASSUME GuardInit PROVE GuardInv
  OBVIOUS
<1>1. hour = 1 /\ auditLog = <<>> /\ reply = NoReply
  BY DEF GuardInit
<1>2. NoReply.exit = 0 /\ NoReply.class = "" /\ NoReply.kind = ""
  BY DEF NoReply
<1>3. hour \in 1..MaxHour
  BY <1>1, GuardAssumption
<1>4. auditLog \in Seq(LogEntry) /\ DOMAIN auditLog = {}
  BY <1>1, EmptySeq
<1>5. RowsInv
  BY <1>4 DEF RowsInv
<1>7. reply.exit = 0 /\ reply.class = "" /\ reply.kind = ""
  BY <1>1, <1>2
<1>8. ReplyInv /\ RefusedByVerdict /\ WrappersAreTransparent
  BY <1>7, ExitCodes, Zenon DEF ReplyInv, RefusedByVerdict, WrappersAreTransparent
<1> QED
  BY <1>3, <1>5, <1>8 DEF GuardInv

LEMMA GuardStep == GuardInv /\ [GuardNext]_guardVars => GuardInv'
BY BashStep, OtherEventStep DEF GuardNext

LEMMA GuardInductive == GuardSpec => []GuardInv
BY GuardStart, GuardStep, PTL DEF GuardSpec

(* Whatever the commands, the settings, the answers of the model and the   *)
(* clock: a refusal stands on a verdict and a row, env and wrappers change *)
(* no verdict, and the audit counts each verdict once.                     *)
THEOREM VerdictsAreHeld == GuardSpec => []VerdictsHold
<1>1. GuardInv => VerdictsHold
  BY AuditCounts DEF GuardInv, VerdictsHold
<1> QED
  BY <1>1, GuardInductive, PTL

(* What is logged, noted and replied is of its type. *)
THEOREM GuardTypeCorrect == GuardSpec => []GuardTypeOK
<1>1. GuardInv => GuardTypeOK
  <2> SUFFICES ASSUME GuardInv PROVE GuardTypeOK
    OBVIOUS
  <2>1. auditLog \in Seq([stage : {"classify", "llm.classify", "reason_truncated", "timeout",
                                "bad_response", "panic", "unreachable", "no_model", "skip"},
                       class : Class \cup {""}, mode : Mode \cup {""}, by : {"", "rule", "llm"},
                       at : 1..hour, root : Root])
    <3> DEFINE T == [stage : {"classify", "llm.classify", "reason_truncated", "timeout",
                                "bad_response", "panic", "unreachable", "no_model", "skip"},
                       class : Class \cup {""}, mode : Mode \cup {""}, by : {"", "rule", "llm"},
                       at : 1..hour, root : Root]
    <3>1. \A r \in LogEntry : r.at \in 1..hour => r \in T
      BY DEF LogEntry
    <3> HIDE DEF T
    <3>2. auditLog \in Seq(LogEntry) /\ \A i \in DOMAIN auditLog : auditLog[i] \in T
      BY <3>1 DEF GuardInv, RowsInv, WellFormed
    <3>3. auditLog = [i \in 1..Len(auditLog) |-> auditLog[i]] /\ Len(auditLog) \in Nat
      BY <3>2, LenProperties
    <3>4. DOMAIN auditLog = 1..Len(auditLog)
      BY <3>2, LenProperties
    <3>5. auditLog \in [1..Len(auditLog) -> T]
      BY <3>2, <3>3, <3>4
    <3>6. auditLog \in Seq(T)
      BY <3>3, <3>5, SeqDef
    <3> QED
      BY <3>6 DEF T
  <2> QED
    BY <2>1 DEF GuardInv, GuardTypeOK, ReplyInv
<1> QED
  BY <1>1, GuardInductive, PTL

-----------------------------------------------------------------------------
(* The hooks in the settings of Claude Code.                               *)

(* The entries of one event, each at its place. *)
ArePlaced(es) ==
  /\ es \in [DOMAIN es -> HookEntry]
  /\ LastPlace(es) \in Nat /\ DOMAIN es \subseteq 1..LastPlace(es)

Ours(es) == {i \in DOMAIN es : IsHeimdallEntry(es[i])}
UsersPart(es) == Restrict(es, DOMAIN es \ Ours(es))

(* Heimdall has one entry for each hook, with the hook's matcher. *)
OneOfOurs(es, ev) ==
  /\ \A i, j \in Ours(es) : i = j
  /\ \A i \in Ours(es) : es[i].matcher = Matcher[ev]

Placed(es, ev) == ArePlaced(es) /\ OneOfOurs(es, ev)
AllPlaced(s) == s = [ev \in HookEvent |-> s[ev]] /\ \A ev \in HookEvent : Placed(s[ev], ev)

-----------------------------------------------------------------------------
LEMMA HasGreatest ==
  ASSUME NEW n \in Nat, NEW D, D \subseteq 1..n, D # {}
  PROVE  Max(D) \in D /\ \A k \in D : Max(D) >= k
<1> DEFINE S == {n - k : k \in D}
<1>1. S \in SUBSET Nat /\ S # {}
  <2>1. \A k \in D : n - k \in Nat
    OBVIOUS
  <2> QED
    BY <2>1
<1>2. PICK m \in S : \A k \in S : m <= k
  <2> HIDE DEF S
  <2> QED
    BY <1>1, HasLeast
<1>3. PICK g \in D : m = n - g
  BY <1>2
<1>4. \A k \in D : g >= k
  <2> SUFFICES ASSUME NEW k \in D PROVE g >= k
    OBVIOUS
  <2>1. n - g <= n - k /\ g \in Int /\ k \in Int
    BY <1>2, <1>3
  <2> QED
    BY <2>1
<1> QED
  BY <1>4 DEF Max

LEMMA MaxOfOne == ASSUME NEW i \in Int PROVE Max({i}) = i /\ Min({i}) = i
BY DEF Max, Min

LEMMA PlacesWithin ==
  ASSUME NEW n \in Nat, NEW es, DOMAIN es \subseteq 1..n
  PROVE  LastPlace(es) \in 0..n /\ DOMAIN es \subseteq 1..LastPlace(es)
<1>1. CASE DOMAIN es = {}
  BY <1>1 DEF LastPlace
<1>2. CASE DOMAIN es # {}
  <2> DEFINE D == DOMAIN es
             g == Max(D)
  <2>1. g \in D /\ \A k \in D : g >= k
    <3> HIDE DEF g
    <3> QED
      BY <1>2, HasGreatest DEF g
  <2>2. LastPlace(es) = g
    BY <1>2 DEF LastPlace
  <2> HIDE DEF g
  <2> QED
    BY <2>1, <2>2
<1> QED
  BY <1>1, <1>2

LEMMA PartIsPlaced ==
  ASSUME NEW es, ArePlaced(es), NEW fs, DOMAIN fs \subseteq DOMAIN es, fs \in [DOMAIN fs -> HookEntry]
  PROVE  ArePlaced(fs)
<1>1. DOMAIN fs \subseteq 1..LastPlace(es) /\ LastPlace(es) \in Nat
  BY DEF ArePlaced
<1>2. LastPlace(fs) \in 0..LastPlace(es) /\ DOMAIN fs \subseteq 1..LastPlace(fs)
  BY <1>1, PlacesWithin
<1> QED
  BY <1>1, <1>2 DEF ArePlaced

(* An entry that is added has the place after the last. *)
LEMMA AddedIsPlaced ==
  ASSUME NEW es, ArePlaced(es), NEW e \in HookEntry
  PROVE  LET new == LastPlace(es) + 1
             fs == Added(es, e)
         IN  /\ ArePlaced(fs) /\ new \notin DOMAIN es /\ DOMAIN fs = DOMAIN es \cup {new}
             /\ fs[new] = e /\ \A i \in DOMAIN es : fs[i] = es[i]
<1> DEFINE last == LastPlace(es)
           new == last + 1
           fs == Added(es, e)
<1>1. last \in Nat /\ DOMAIN es \subseteq 1..last /\ es \in [DOMAIN es -> HookEntry]
  BY DEF ArePlaced
<1>2. fs = [i \in DOMAIN es \cup {new} |-> IF i = new THEN e ELSE es[i]]
  BY DEF Added
<1> HIDE DEF last, fs
<1>3. new \notin DOMAIN es /\ new \in Nat /\ new >= 1
  BY <1>1
<1>4. DOMAIN fs = DOMAIN es \cup {new} /\ fs[new] = e
  BY <1>2
<1>5. \A i \in DOMAIN es : fs[i] = es[i]
  BY <1>2, <1>3
<1>6. fs \in [DOMAIN fs -> HookEntry]
  BY <1>1, <1>2, <1>4
<1>7. DOMAIN fs \subseteq 1..new
  BY <1>1, <1>3, <1>4
<1>8. LastPlace(fs) \in 0..new /\ DOMAIN fs \subseteq 1..LastPlace(fs)
  BY <1>3, <1>7, PlacesWithin
<1>9. ArePlaced(fs)
  BY <1>3, <1>6, <1>8 DEF ArePlaced
<1> QED
  BY <1>3, <1>4, <1>5, <1>9 DEF fs, last

LEMMA Matchers == \A ev \in HookEvent : Matcher[ev] \in {"", "Bash"}
<1>1. Matcher["Stop"] = "" /\ Matcher["PreToolUse"] = "Bash"
  BY DEF Matcher
<1> QED
  BY <1>1 DEF HookEvent

LEMMA BuiltEntry ==
  ASSUME NEW ev \in HookEvent
  PROVE  LET e == BuildHookEntry(ev)
         IN  /\ e \in HookEntry /\ IsHeimdallEntry(e) /\ e.matcher = Matcher[ev]
             /\ UpToDate(e) /\ EntryMatchesCurrentVersion(e) /\ e.cmds = {"ours"}
<1> DEFINE e == BuildHookEntry(ev)
<1>1. e = [matcher |-> Matcher[ev], source |-> TRUE, version |-> 1, binary |-> "now", cmds |-> {"ours"}]
  BY DEF BuildHookEntry
<1>2. Matcher[ev] \in {"", "Bash"}
  BY Matchers
<1> HIDE DEF e
<1>3. e.matcher = Matcher[ev] /\ e.source = TRUE /\ e.version = 1 /\ e.binary = "now" /\ e.cmds = {"ours"}
  BY <1>1
<1>4. e \in HookEntry
  BY <1>1, <1>2 DEF HookEntry
<1>5. IsHeimdallEntry(e)
  BY <1>3, Zenon DEF IsHeimdallEntry
<1>6. UpToDate(e) /\ EntryMatchesCurrentVersion(e)
  BY <1>3 DEF UpToDate, EntryMatchesCurrentVersion
<1> QED
  BY <1>3, <1>4, <1>5, <1>6 DEF e

LEMMA UsersEntry ==
  ASSUME NEW ev \in HookEvent, NEW u \in UserCmd
  PROVE  UserEntry(ev, u) \in HookEntry /\ ~IsHeimdallEntry(UserEntry(ev, u))
<1> DEFINE e == UserEntry(ev, u)
<1>1. e = [matcher |-> Matcher[ev], source |-> FALSE, version |-> 0, binary |-> "none", cmds |-> {u}]
  BY DEF UserEntry
<1>2. Matcher[ev] \in {"", "Bash"}
  BY Matchers
<1> HIDE DEF e
<1>3. e.source = FALSE /\ e.cmds = {u}
  BY <1>1
<1>4. e \in HookEntry
  BY <1>1, <1>2 DEF HookEntry
<1>5. {u} \cap {"ours", "oldOurs"} = {}
  BY UserAssumption
<1>6. ~IsHeimdallEntry(e)
  BY <1>3, <1>5, Zenon DEF IsHeimdallEntry
<1> QED
  BY <1>4, <1>6 DEF e

-----------------------------------------------------------------------------
(* Heimdall's entry renewed, or added where there is none. *)
LEMMA Renewed ==
  ASSUME NEW ev \in HookEvent, NEW es, Placed(es, ev), NEW i \in Ours(es)
  PROVE  LET fs == [es EXCEPT ![i] = BuildHookEntry(ev)]
         IN  /\ Placed(fs, ev) /\ Ours(fs) = {i} /\ fs[i] = BuildHookEntry(ev)
             /\ UsersPart(fs) = UsersPart(es)
<1> DEFINE b == BuildHookEntry(ev)
           fs == [es EXCEPT ![i] = b]
<1>1. b \in HookEntry /\ IsHeimdallEntry(b) /\ b.matcher = Matcher[ev]
  BY BuiltEntry
<1>2. es \in [DOMAIN es -> HookEntry] /\ i \in DOMAIN es /\ ArePlaced(es) /\ Ours(es) = {i}
  BY DEF Placed, ArePlaced, OneOfOurs, Ours
<1> HIDE DEF b
<1>3. /\ DOMAIN fs = DOMAIN es /\ fs[i] = b /\ fs \in [DOMAIN fs -> HookEntry]
      /\ \A j \in DOMAIN es : j # i => fs[j] = es[j]
  BY <1>1, <1>2
<1> HIDE DEF fs
<1>4. ArePlaced(fs)
  BY <1>2, <1>3, PartIsPlaced
<1>5. Ours(fs) = {i}
  BY <1>1, <1>2, <1>3 DEF Ours
<1>6. OneOfOurs(fs, ev)
  BY <1>1, <1>3, <1>5 DEF OneOfOurs
<1>7. UsersPart(fs) = UsersPart(es)
  BY <1>2, <1>3, <1>5 DEF UsersPart, Restrict
<1> QED
  BY <1>3, <1>4, <1>5, <1>6, <1>7 DEF Placed, fs, b

LEMMA AddedOurs ==
  ASSUME NEW ev \in HookEvent, NEW es, Placed(es, ev), Ours(es) = {}
  PROVE  LET fs == Added(es, BuildHookEntry(ev))
         IN  /\ Placed(fs, ev) /\ UsersPart(fs) = UsersPart(es)
             /\ \E i \in DOMAIN fs : Ours(fs) = {i} /\ fs[i] = BuildHookEntry(ev)
             /\ \A j \in DOMAIN es : j \in DOMAIN fs /\ fs[j] = es[j]
<1> DEFINE b == BuildHookEntry(ev)
           fs == Added(es, b)
           new == LastPlace(es) + 1
<1>1. b \in HookEntry /\ IsHeimdallEntry(b) /\ b.matcher = Matcher[ev]
  BY BuiltEntry
<1>2. ArePlaced(es)
  BY DEF Placed
<1> HIDE DEF b
<1>3. /\ ArePlaced(fs) /\ new \notin DOMAIN es /\ DOMAIN fs = DOMAIN es \cup {new}
      /\ fs[new] = b /\ \A j \in DOMAIN es : fs[j] = es[j]
  BY <1>1, <1>2, AddedIsPlaced
<1> HIDE DEF fs, new
<1>4. Ours(fs) = {new}
  BY <1>1, <1>3 DEF Ours
<1>5. OneOfOurs(fs, ev)
  BY <1>1, <1>3, <1>4 DEF OneOfOurs
<1>6. UsersPart(fs) = UsersPart(es)
  <2>1. DOMAIN fs \ Ours(fs) = DOMAIN es \ Ours(es)
    BY <1>3, <1>4
  <2>2. UsersPart(fs) = [j \in DOMAIN es \ Ours(es) |-> fs[j]] /\ UsersPart(es) = [j \in DOMAIN es \ Ours(es) |-> es[j]]
    BY <2>1 DEF UsersPart, Restrict
  <2> QED
    BY <1>3, <2>2
<1> QED
  BY <1>3, <1>4, <1>5, <1>6 DEF Placed, fs, b

LEMMA AddedUsers ==
  ASSUME NEW ev \in HookEvent, NEW es, Placed(es, ev), NEW u \in UserCmd
  PROVE  Placed(Added(es, UserEntry(ev, u)), ev)
<1> DEFINE b == UserEntry(ev, u)
           fs == Added(es, b)
           new == LastPlace(es) + 1
<1>1. b \in HookEntry /\ ~IsHeimdallEntry(b)
  BY UsersEntry
<1>2. ArePlaced(es)
  BY DEF Placed
<1> HIDE DEF b
<1>3. /\ ArePlaced(fs) /\ new \notin DOMAIN es /\ DOMAIN fs = DOMAIN es \cup {new}
      /\ fs[new] = b /\ \A j \in DOMAIN es : fs[j] = es[j]
  BY <1>1, <1>2, AddedIsPlaced
<1> HIDE DEF fs, new
<1>4. Ours(fs) = Ours(es)
  BY <1>1, <1>3 DEF Ours
<1>5. OneOfOurs(fs, ev)
  <2>1. \A i \in Ours(fs) : fs[i] = es[i]
    BY <1>3, <1>4 DEF Ours
  <2> QED
    BY <1>4, <2>1 DEF OneOfOurs, Placed
<1> QED
  BY <1>3, <1>5 DEF Placed, fs, b

LEMMA KeptPart ==
  ASSUME NEW ev \in HookEvent, NEW es, Placed(es, ev), NEW K, K \subseteq DOMAIN es
  PROVE  Placed(Restrict(es, K), ev)
<1> DEFINE fs == Restrict(es, K)
<1>1. DOMAIN fs = K /\ \A i \in K : fs[i] = es[i]
  BY DEF Restrict
<1>2. ArePlaced(es) /\ es \in [DOMAIN es -> HookEntry]
  BY DEF Placed, ArePlaced
<1>3. fs \in [DOMAIN fs -> HookEntry]
  BY <1>2 DEF Restrict
<1> HIDE DEF fs
<1>4. ArePlaced(fs)
  BY <1>1, <1>2, <1>3, PartIsPlaced
<1>5. Ours(fs) \subseteq Ours(es) /\ \A i \in Ours(fs) : fs[i] = es[i]
  BY <1>1 DEF Ours
<1>6. OneOfOurs(fs, ev)
  BY <1>5 DEF OneOfOurs, Placed
<1> QED
  BY <1>4, <1>6 DEF Placed, fs

(* An entry that runs one more command of the user is whose it was. *)
LEMMA JoinedEntry ==
  ASSUME NEW ev \in HookEvent, NEW es, Placed(es, ev), NEW i \in DOMAIN es, NEW u \in UserCmd
  PROVE  Placed([es EXCEPT ![i].cmds = @ \cup {u}], ev)
<1> DEFINE e == [es[i] EXCEPT !.cmds = es[i].cmds \cup {u}]
           fs == [es EXCEPT ![i] = e]
<1>1. [es EXCEPT ![i].cmds = @ \cup {u}] = fs
  OBVIOUS
<1>2. es[i] \in HookEntry /\ ArePlaced(es) /\ es \in [DOMAIN es -> HookEntry]
  BY DEF Placed, ArePlaced
<1>3. e \in HookEntry /\ e.source = es[i].source /\ e.matcher = es[i].matcher /\ e.cmds = es[i].cmds \cup {u}
  <2>1. es[i].cmds \cup {u} \in SUBSET (UserCmd \cup {"ours", "oldOurs"})
    BY <1>2 DEF HookEntry
  <2> QED
    BY <1>2, <2>1 DEF HookEntry
<1> HIDE DEF e
<1>4. IsHeimdallEntry(e) <=> IsHeimdallEntry(es[i])
  <2>1. u \notin {"ours", "oldOurs"}
    BY UserAssumption
  <2>2. e.cmds \cap {"ours", "oldOurs"} = es[i].cmds \cap {"ours", "oldOurs"}
    BY <1>3, <2>1
  <2> QED
    BY <1>3, <2>2, Zenon DEF IsHeimdallEntry
<1>5. /\ DOMAIN fs = DOMAIN es /\ fs[i] = e /\ fs \in [DOMAIN fs -> HookEntry]
      /\ \A j \in DOMAIN es : j # i => fs[j] = es[j]
  BY <1>2, <1>3
<1> HIDE DEF fs
<1>6. ArePlaced(fs)
  BY <1>2, <1>5, PartIsPlaced
<1>7. Ours(fs) = Ours(es) /\ \A j \in DOMAIN es : fs[j].matcher = es[j].matcher
  BY <1>3, <1>4, <1>5 DEF Ours
<1>8. OneOfOurs(fs, ev)
  BY <1>7 DEF OneOfOurs, Placed, Ours
<1> QED
  BY <1>1, <1>6, <1>8 DEF Placed

-----------------------------------------------------------------------------
(* What install, uninstall and a session start make of the entries.        *)

LEMMA OursAreAll ==
  ASSUME NEW s, AllPlaced(s), NEW ev \in HookEvent
  PROVE  OursAt(s, ev) = Ours(s[ev])
BY DEF OursAt, Ours, AllPlaced, Placed, OneOfOurs, SameMatcher

LEMMA OursIsOne ==
  ASSUME NEW s, AllPlaced(s), NEW ev \in HookEvent, OursAt(s, ev) # {}
  PROVE  \E i \in DOMAIN s[ev] : OursAt(s, ev) = {i} /\ Ours(s[ev]) = {i} /\ Max({i}) = i /\ Min({i}) = i
<1>1. PICK i \in Ours(s[ev]) : TRUE
  BY OursAreAll
<1>2. Ours(s[ev]) = {i} /\ i \in DOMAIN s[ev]
  BY <1>1 DEF AllPlaced, Placed, OneOfOurs, Ours
<1>3. i \in Int
  BY <1>2 DEF AllPlaced, Placed, ArePlaced
<1> QED
  BY <1>2, <1>3, MaxOfOne, OursAreAll

(* After an install, forced or not, the entries are placed; if nothing is  *)
(* replaced, the users' are what they were and Heimdall's is up to date.   *)
LEMMA InstallKeeps ==
  ASSUME NEW s, AllPlaced(s), NEW ev \in HookEvent, NEW mode
  PROVE  Placed(InstallAt(s, ev, mode), ev)
<1>1. Placed(s[ev], ev) /\ ArePlaced(s[ev])
  BY DEF AllPlaced, Placed
<1>2. CASE OursAt(s, ev) # {}
  <2>1. PICK i \in DOMAIN s[ev] : OursAt(s, ev) = {i} /\ Ours(s[ev]) = {i} /\ Max({i}) = i
    BY <1>2, OursIsOne
  <2>2. InstallAt(s, ev, mode) = IF UpToDate(s[ev][i]) THEN s[ev] ELSE [s[ev] EXCEPT ![i] = BuildHookEntry(ev)]
    BY <1>2, <2>1 DEF InstallAt
  <2>3. Placed([s[ev] EXCEPT ![i] = BuildHookEntry(ev)], ev)
    BY <1>1, <2>1, Renewed
  <2> QED
    BY <1>1, <2>2, <2>3
<1>3. CASE OursAt(s, ev) = {} /\ (Conflicts(s, ev) = {} \/ mode = "merge")
  <2>1. InstallAt(s, ev, mode) = Added(s[ev], BuildHookEntry(ev)) /\ Ours(s[ev]) = {}
    BY <1>3, OursAreAll DEF InstallAt
  <2> QED
    BY <1>1, <2>1, AddedOurs
<1>4. CASE OursAt(s, ev) = {} /\ Conflicts(s, ev) # {} /\ mode # "merge"
  <2> DEFINE C == Conflicts(s, ev)
             i == Min(C)
             b == BuildHookEntry(ev)
             es == [s[ev] EXCEPT ![i] = b]
             K == (DOMAIN s[ev] \ C) \cup {i}
             fs == Restrict(es, K)
  <2>1. InstallAt(s, ev, mode) = fs
    BY <1>4 DEF InstallAt
  <2>2. C \subseteq DOMAIN s[ev] /\ C # {} /\ DOMAIN s[ev] \in SUBSET Nat
    BY <1>1, <1>4 DEF Conflicts, ArePlaced
  <2>3. i \in C
    <3>1. PICK m \in C : \A k \in C : m <= k
      <4> HIDE DEF C
      <4> QED
        BY <2>2, HasLeast
    <3> HIDE DEF C
    <3> QED
      BY <3>1 DEF Min
  <2>4. b \in HookEntry /\ IsHeimdallEntry(b) /\ b.matcher = Matcher[ev]
    BY BuiltEntry
  <2> HIDE DEF C, i, b
  <2>5. s[ev] \in [DOMAIN s[ev] -> HookEntry] /\ Ours(s[ev]) = {}
    BY <1>1, <1>4, OursAreAll DEF ArePlaced
  <2>6. /\ DOMAIN es = DOMAIN s[ev] /\ es[i] = b /\ es \in [DOMAIN es -> HookEntry]
        /\ \A j \in DOMAIN es : j # i => es[j] = s[ev][j]
    BY <2>2, <2>3, <2>4, <2>5
  <2>7. ArePlaced(es)
    BY <1>1, <2>6, PartIsPlaced
  <2>8. Ours(es) = {i}
    BY <2>2, <2>3, <2>4, <2>5, <2>6 DEF Ours
  <2>9. Placed(es, ev)
    BY <2>4, <2>6, <2>7, <2>8 DEF Placed, OneOfOurs
  <2>10. K \subseteq DOMAIN es
    BY <2>2, <2>3, <2>6
  <2> HIDE DEF es, K
  <2> QED
    BY <2>1, <2>9, <2>10, KeptPart
<1> QED
  BY <1>2, <1>3, <1>4

LEMMA InstallIsPlaced ==
  ASSUME NEW s, AllPlaced(s), NEW only, NEW mode
  PROVE  AllPlaced(ApplyInstall(s, only, mode))
<1> DEFINE r == ApplyInstall(s, only, mode)
<1>1. r = [ev \in HookEvent |-> IF ev \in only THEN InstallAt(s, ev, mode) ELSE s[ev]]
  BY DEF ApplyInstall
<1> HIDE DEF r
<1>2. ASSUME NEW ev \in HookEvent PROVE Placed(r[ev], ev)
  <2>1. r[ev] = InstallAt(s, ev, mode) \/ r[ev] = s[ev]
    BY <1>1
  <2> QED
    BY <2>1, InstallKeeps DEF AllPlaced
<1>3. r = [ev \in HookEvent |-> r[ev]]
  BY <1>1
<1> QED
  BY <1>2, <1>3 DEF AllPlaced, r

LEMMA UninstallIsPlaced ==
  ASSUME NEW s, AllPlaced(s) PROVE AllPlaced(ApplyUninstall(s))
<1> DEFINE r == ApplyUninstall(s)
<1>1. r = [ev \in HookEvent |-> Restrict(s[ev], {i \in DOMAIN s[ev] : ~IsHeimdallEntry(s[ev][i])})]
  BY DEF ApplyUninstall
<1> HIDE DEF r
<1>2. ASSUME NEW ev \in HookEvent PROVE Placed(r[ev], ev)
  <2> DEFINE K == {i \in DOMAIN s[ev] : ~IsHeimdallEntry(s[ev][i])}
  <2>1. r[ev] = Restrict(s[ev], K) /\ K \subseteq DOMAIN s[ev]
    BY <1>1
  <2>2. Placed(s[ev], ev)
    BY DEF AllPlaced
  <2> HIDE DEF K
  <2> QED
    BY <2>1, <2>2, KeptPart
<1>3. r = [ev \in HookEvent |-> r[ev]]
  BY <1>1
<1> QED
  BY <1>2, <1>3 DEF AllPlaced, r

(* What a start does to the entries of one hook. *)
UpgradeAt(es, ev) ==
  IF Ours(es) = {} THEN Added(es, BuildHookEntry(ev))
  ELSE LET i == Min(Ours(es))
       IN IF EntryMatchesCurrentVersion(es[i]) THEN es ELSE [es EXCEPT ![i] = BuildHookEntry(ev)]

LEMMA UpgradeByEvent ==
  ASSUME NEW s, AllPlaced(s)
  PROVE  AutoUpgrade(s) = IF ~HooksDetected(s) THEN s ELSE [ev \in HookEvent |-> UpgradeAt(s[ev], ev)]
BY OursAreAll DEF AutoUpgrade, UpgradeAt

LEMMA UpgradeAtKeeps ==
  ASSUME NEW ev \in HookEvent, NEW es, Placed(es, ev)
  PROVE  LET fs == UpgradeAt(es, ev)
         IN  /\ Placed(fs, ev) /\ UsersPart(fs) = UsersPart(es)
             /\ \E i \in DOMAIN fs : Ours(fs) = {i} /\ EntryMatchesCurrentVersion(fs[i])
                                  /\ \/ fs[i] = BuildHookEntry(ev)
                                     \/ fs = es
             /\ \A j \in DOMAIN es \ Ours(es) : j \in DOMAIN fs /\ fs[j] = es[j]
<1> DEFINE fs == UpgradeAt(es, ev)
           b == BuildHookEntry(ev)
<1>0. EntryMatchesCurrentVersion(b)
  BY BuiltEntry
<1>1. CASE Ours(es) = {}
  <2>1. fs = Added(es, b)
    BY <1>1 DEF UpgradeAt
  <2>2. /\ Placed(Added(es, b), ev) /\ UsersPart(Added(es, b)) = UsersPart(es)
        /\ \E i \in DOMAIN Added(es, b) : Ours(Added(es, b)) = {i} /\ Added(es, b)[i] = b
        /\ \A j \in DOMAIN es : j \in DOMAIN Added(es, b) /\ Added(es, b)[j] = es[j]
    BY <1>1, AddedOurs
  <2> HIDE DEF fs, b
  <2>3. PICK i \in DOMAIN fs : Ours(fs) = {i} /\ fs[i] = b
    BY <2>1, <2>2
  <2>4. Placed(fs, ev) /\ UsersPart(fs) = UsersPart(es) /\ \A j \in DOMAIN es : j \in DOMAIN fs /\ fs[j] = es[j]
    BY <2>1, <2>2
  <2> QED
    BY <1>0, <2>3, <2>4 DEF fs, b
<1>2. CASE Ours(es) # {}
  <2>1. PICK i \in Ours(es) : Ours(es) = {i} /\ i \in DOMAIN es
    BY <1>2 DEF Placed, OneOfOurs, Ours
  <2>2. Min(Ours(es)) = i
    <3>1. i \in Int
      BY <2>1 DEF Placed, ArePlaced
    <3> QED
      BY <2>1, <3>1, MaxOfOne
  <2>3. fs = IF EntryMatchesCurrentVersion(es[i]) THEN es ELSE [es EXCEPT ![i] = b]
    BY <1>2, <2>2 DEF UpgradeAt
  <2>4. /\ Placed([es EXCEPT ![i] = b], ev) /\ Ours([es EXCEPT ![i] = b]) = {i}
        /\ [es EXCEPT ![i] = b][i] = b /\ UsersPart([es EXCEPT ![i] = b]) = UsersPart(es)
    BY Renewed
  <2>5. \A j \in DOMAIN es \ {i} : [es EXCEPT ![i] = b][j] = es[j]
    BY DEF Placed, ArePlaced
  <2> HIDE DEF fs, b
  <2>6. CASE EntryMatchesCurrentVersion(es[i])
    <3>1. fs = es
      BY <2>3, <2>6
    <3> QED
      BY <2>1, <2>6, <3>1 DEF fs
  <2>7. CASE ~EntryMatchesCurrentVersion(es[i])
    <3> DEFINE gs == [es EXCEPT ![i] = b]
    <3>1. fs = gs
      BY <2>3, <2>7
    <3>2. DOMAIN gs = DOMAIN es
      OBVIOUS
    <3>3. Placed(gs, ev) /\ Ours(gs) = {i} /\ gs[i] = b /\ UsersPart(gs) = UsersPart(es)
          /\ \A j \in DOMAIN es \ {i} : gs[j] = es[j]
      BY <2>4, <2>5
    <3> HIDE DEF gs
    <3> QED
      BY <1>0, <2>1, <3>1, <3>2, <3>3 DEF fs, b
  <2> QED
    BY <2>6, <2>7
<1> QED
  BY <1>1, <1>2

LEMMA UpgradeIsPlaced ==
  ASSUME NEW s, AllPlaced(s) PROVE AllPlaced(AutoUpgrade(s))
<1> DEFINE r == [ev \in HookEvent |-> UpgradeAt(s[ev], ev)]
<1>1. \A ev \in HookEvent : r[ev] = UpgradeAt(s[ev], ev) /\ Placed(r[ev], ev)
  BY UpgradeAtKeeps DEF AllPlaced
<1>2. r = [ev \in HookEvent |-> r[ev]]
  OBVIOUS
<1>3. AutoUpgrade(s) = s \/ AutoUpgrade(s) = r
  BY UpgradeByEvent
<1> HIDE DEF r
<1>4. AllPlaced(r)
  BY <1>1, <1>2 DEF AllPlaced
<1> QED
  BY <1>3, <1>4

LEMMA InstallIsUpToDate ==
  ASSUME NEW s, AllPlaced(s), NEW ev \in HookEvent
  PROVE  LET es == InstallAt(s, ev, "merge")
         IN  /\ \E i \in DOMAIN es : Ours(es) = {i} /\ UpToDate(es[i])
             /\ UsersPart(es) = UsersPart(s[ev])
<1> DEFINE es == InstallAt(s, ev, "merge")
           b == BuildHookEntry(ev)
<1>1. Placed(s[ev], ev)
  BY DEF AllPlaced
<1>2. UpToDate(b)
  BY BuiltEntry
<1>3. CASE OursAt(s, ev) # {}
  <2>1. PICK i \in DOMAIN s[ev] : OursAt(s, ev) = {i} /\ Ours(s[ev]) = {i} /\ Max({i}) = i
    BY <1>3, OursIsOne
  <2>2. es = IF UpToDate(s[ev][i]) THEN s[ev] ELSE [s[ev] EXCEPT ![i] = b]
    BY <1>3, <2>1 DEF InstallAt
  <2> DEFINE gs == [s[ev] EXCEPT ![i] = b]
  <2>3. Ours(gs) = {i} /\ gs[i] = b /\ UsersPart(gs) = UsersPart(s[ev])
    BY <1>1, <2>1, Renewed
  <2>4. DOMAIN gs = DOMAIN s[ev]
    OBVIOUS
  <2> HIDE DEF es, b, gs
  <2>5. es = IF UpToDate(s[ev][i]) THEN s[ev] ELSE gs
    BY <2>2 DEF gs
  <2> QED
    BY <1>2, <2>1, <2>3, <2>4, <2>5 DEF es
<1>4. CASE OursAt(s, ev) = {}
  <2> DEFINE gs == Added(s[ev], b)
  <2>1. es = gs /\ Ours(s[ev]) = {}
    BY <1>4, OursAreAll DEF InstallAt
  <2>2. UsersPart(gs) = UsersPart(s[ev]) /\ \E i \in DOMAIN gs : Ours(gs) = {i} /\ gs[i] = b
    BY <1>1, <2>1, AddedOurs
  <2> HIDE DEF es, b, gs
  <2> QED
    BY <1>2, <2>1, <2>2 DEF es
<1> QED
  BY <1>3, <1>4

LEMMA Settles ==
  ASSUME NEW s, AllPlaced(s)
  PROVE  \A r \in {AutoUpgrade(ApplyInstall(s, HookEvent, "merge"))} :
           /\ AutoUpgrade(r) = r /\ ApplyInstall(r, HookEvent, "plain") = r
           /\ \A ev \in HookEvent : OursAt(r, ev) # {} /\ \A i, j \in OursAt(r, ev) : i = j
           /\ ApplyUninstall(r) = ApplyUninstall(s)
<1> DEFINE a == ApplyInstall(s, HookEvent, "merge")
           r == AutoUpgrade(a)
<1>1. AllPlaced(a) /\ AllPlaced(r)
  BY InstallIsPlaced, UpgradeIsPlaced
<1>2. \A ev \in HookEvent : a[ev] = InstallAt(s, ev, "merge")
  BY DEF ApplyInstall
<1>3. \A ev \in HookEvent : UsersPart(a[ev]) = UsersPart(s[ev])
                            /\ \E i \in DOMAIN a[ev] : Ours(a[ev]) = {i} /\ UpToDate(a[ev][i])
  BY <1>2, InstallIsUpToDate
<1>4. ASSUME NEW z, \A ev \in HookEvent : \E i \in DOMAIN z[ev] : Ours(z[ev]) = {i}
      PROVE  HooksDetected(z)
  <2>1. "Stop" \in HookEvent
    BY DEF HookEvent
  <2>2. PICK i \in DOMAIN z["Stop"] : Ours(z["Stop"]) = {i}
    BY <1>4, <2>1
  <2>3. IsHeimdallEntry(z["Stop"][i])
    BY <2>2 DEF Ours
  <2> QED
    BY <2>1, <2>2, <2>3 DEF HooksDetected
<1>5. HooksDetected(a)
  <2> HIDE DEF a
  <2> QED
    BY <1>3, <1>4
<1>6. r = [ev \in HookEvent |-> UpgradeAt(a[ev], ev)]
  <2> HIDE DEF a
  <2> QED
    BY <1>1, <1>5, UpgradeByEvent
<1> HIDE DEF a, r
<1>7. ASSUME NEW ev \in HookEvent
      PROVE  /\ UsersPart(r[ev]) = UsersPart(s[ev])
             /\ \E i \in DOMAIN r[ev] : Ours(r[ev]) = {i} /\ UpToDate(r[ev][i]) /\ EntryMatchesCurrentVersion(r[ev][i])
  <2>1. r[ev] = UpgradeAt(a[ev], ev) /\ Placed(a[ev], ev)
    BY <1>1, <1>6 DEF AllPlaced
  <2>2. UsersPart(r[ev]) = UsersPart(a[ev])
    BY <2>1, UpgradeAtKeeps
  <2>3. PICK i \in DOMAIN r[ev] : Ours(r[ev]) = {i} /\ EntryMatchesCurrentVersion(r[ev][i])
                                  /\ (r[ev][i] = BuildHookEntry(ev) \/ r[ev] = a[ev])
    BY <2>1, UpgradeAtKeeps
  <2>4. PICK j \in DOMAIN a[ev] : Ours(a[ev]) = {j} /\ UpToDate(a[ev][j])
    BY <1>3
  <2>5. UpToDate(r[ev][i])
    <3>1. CASE r[ev][i] = BuildHookEntry(ev)
      BY <3>1, BuiltEntry
    <3>2. CASE r[ev] = a[ev]
      BY <2>3, <2>4, <3>2
    <3> QED
      BY <2>3, <3>1, <3>2
  <2> QED
    BY <1>3, <2>2, <2>3, <2>5
<1>8. HooksDetected(r)
  BY <1>4, <1>7
<1>9. r = [ev \in HookEvent |-> r[ev]]
  BY <1>1 DEF AllPlaced
<1>10. AutoUpgrade(r) = r
  <2>1. AutoUpgrade(r) = [ev \in HookEvent |-> UpgradeAt(r[ev], ev)]
    BY <1>1, <1>8, UpgradeByEvent
  <2>2. ASSUME NEW ev \in HookEvent PROVE UpgradeAt(r[ev], ev) = r[ev]
    <3>1. PICK i \in DOMAIN r[ev] : Ours(r[ev]) = {i} /\ EntryMatchesCurrentVersion(r[ev][i])
      BY <1>7
    <3>2. i \in Int
      BY <1>1 DEF AllPlaced, Placed, ArePlaced
    <3>3. Min(Ours(r[ev])) = i
      BY <3>1, <3>2, MaxOfOne
    <3> QED
      BY <3>1, <3>3 DEF UpgradeAt
  <2> QED
    BY <1>9, <2>1, <2>2
<1>11. ApplyInstall(r, HookEvent, "plain") = r
  <2>1. ApplyInstall(r, HookEvent, "plain") = [ev \in HookEvent |-> InstallAt(r, ev, "plain")]
    BY DEF ApplyInstall
  <2>2. ASSUME NEW ev \in HookEvent PROVE InstallAt(r, ev, "plain") = r[ev]
    <3>1. PICK i \in DOMAIN r[ev] : Ours(r[ev]) = {i} /\ UpToDate(r[ev][i])
      BY <1>7
    <3>2. i \in Int
      BY <1>1 DEF AllPlaced, Placed, ArePlaced
    <3>3. OursAt(r, ev) = {i} /\ Max({i}) = i
      BY <1>1, <3>1, <3>2, MaxOfOne, OursAreAll
    <3> QED
      BY <3>1, <3>3 DEF InstallAt
  <2> QED
    BY <1>9, <2>1, <2>2
<1>12. ASSUME NEW ev \in HookEvent
       PROVE  OursAt(r, ev) # {} /\ \A i, j \in OursAt(r, ev) : i = j
  BY <1>1, <1>7, OursAreAll
<1>13. ApplyUninstall(r) = ApplyUninstall(s)
  <2>1. ASSUME NEW es PROVE {i \in DOMAIN es : ~IsHeimdallEntry(es[i])} = DOMAIN es \ Ours(es)
    BY DEF Ours
  <2>2. ASSUME NEW z PROVE ApplyUninstall(z) = [ev \in HookEvent |-> UsersPart(z[ev])]
    BY <2>1 DEF ApplyUninstall, UsersPart
  <2> QED
    BY <1>7, <2>2
<1> QED
  BY <1>10, <1>11, <1>12, <1>13 DEF r, a

-----------------------------------------------------------------------------
(* The file at every moment.                                               *)

Places == UNION {[D -> HookEntry] : D \in SUBSET Nat}
PlacedSettings == {s \in [HookEvent -> Places] : AllPlaced(s)}

LEMMA PlacedMeans == \A s : AllPlaced(s) <=> s \in PlacedSettings
<1> SUFFICES ASSUME NEW s, AllPlaced(s) PROVE s \in [HookEvent -> Places]
  BY DEF PlacedSettings
<1>1. \A ev \in HookEvent : s[ev] \in Places
  <2> SUFFICES ASSUME NEW ev \in HookEvent PROVE s[ev] \in Places
    OBVIOUS
  <2>1. s[ev] \in [DOMAIN s[ev] -> HookEntry] /\ DOMAIN s[ev] \in SUBSET Nat
    BY DEF AllPlaced, Placed, ArePlaced
  <2> QED
    BY <2>1 DEF Places
<1>2. s = [ev \in HookEvent |-> s[ev]]
  BY DEF AllPlaced
<1> QED
  BY <1>1, <1>2

LEMMA ShortLists ==
  ASSUME NEW ev \in HookEvent, NEW e \in HookEntry, NEW f \in HookEntry,
         IsHeimdallEntry(f) => f.matcher = Matcher[ev], ~IsHeimdallEntry(e)
  PROVE  Placed(<<>>, ev) /\ Placed(<<f>>, ev) /\ Placed(<<e, f>>, ev)
<1>1. ASSUME NEW es, NEW n \in Nat, DOMAIN es = 1..n, es \in [1..n -> HookEntry],
             \A i \in 1..n : IsHeimdallEntry(es[i]) => i = n /\ es[i].matcher = Matcher[ev]
      PROVE  Placed(es, ev)
  <2>1. LastPlace(es) \in 0..n /\ DOMAIN es \subseteq 1..LastPlace(es)
    BY <1>1, PlacesWithin
  <2>2. ArePlaced(es)
    BY <1>1, <2>1 DEF ArePlaced
  <2>3. OneOfOurs(es, ev)
    BY <1>1 DEF OneOfOurs, Ours
  <2> QED
    BY <2>2, <2>3 DEF Placed
<1>2. Placed(<<>>, ev)
  <2>1. PICK es \in Seq(HookEntry) : es = <<>>
    BY EmptySeq
  <2>2. Len(es) = 0
    BY <2>1
  <2>3. DOMAIN es = 1..0 /\ es \in [1..0 -> HookEntry] /\ \A i \in 1..0 : FALSE
    BY <2>1, <2>2
  <2>4. Placed(es, ev)
    BY <1>1, <2>3
  <2> QED
    BY <2>1, <2>4
<1>3. Placed(<<f>>, ev)
  <2> DEFINE es == <<f>>
  <2>1. DOMAIN es = 1..1 /\ es \in [1..1 -> HookEntry] /\ es[1] = f
    OBVIOUS
  <2> HIDE DEF es
  <2>2. \A i \in 1..1 : i = 1
    OBVIOUS
  <2>3. \A i \in 1..1 : IsHeimdallEntry(es[i]) => i = 1 /\ es[i].matcher = Matcher[ev]
    BY <2>1, <2>2
  <2>4. Placed(es, ev)
    BY <1>1, <2>1, <2>3
  <2> QED
    BY <2>4 DEF es
<1>4. Placed(<<e, f>>, ev)
  <2> DEFINE es == <<e, f>>
  <2>1. DOMAIN es = 1..2 /\ es \in [1..2 -> HookEntry] /\ es[1] = e /\ es[2] = f
    OBVIOUS
  <2> HIDE DEF es
  <2>2. \A i \in 1..2 : i = 1 \/ i = 2
    OBVIOUS
  <2>3. \A i \in 1..2 : IsHeimdallEntry(es[i]) => i = 2 /\ es[i].matcher = Matcher[ev]
    BY <2>1, <2>2
  <2>4. Placed(es, ev)
    BY <1>1, <2>1, <2>3
  <2> QED
    BY <2>4 DEF es
<1> QED
  BY <1>2, <1>3, <1>4

(* What an earlier binary has left. *)
LEMMA LeftEntries ==
  ASSUME NEW ev \in HookEvent
  PROVE  /\ Older(ev) \in HookEntry /\ Older(ev).matcher = Matcher[ev]
         /\ Earlier(ev) \in HookEntry /\ Earlier(ev).matcher = Matcher[ev]
<1> DEFINE b == BuildHookEntry(ev)
           e == [b EXCEPT !.binary = "old"]
           f == [e EXCEPT !.version = 0]
           g == [f EXCEPT !.cmds = {"oldOurs"}]
<1>1. b \in HookEntry /\ b.matcher = Matcher[ev]
  BY BuiltEntry
<1>2. Earlier(ev) = e /\ Older(ev) = g
  BY DEF Earlier, Older
<1> HIDE DEF b
<1>3. e \in HookEntry /\ e.matcher = Matcher[ev]
  BY <1>1 DEF HookEntry
<1> HIDE DEF e
<1>4. f \in HookEntry /\ f.matcher = Matcher[ev]
  BY <1>3 DEF HookEntry
<1> HIDE DEF f
<1>5. g \in HookEntry /\ g.matcher = Matcher[ev]
  BY <1>4 DEF HookEntry
<1> QED
  BY <1>2, <1>3, <1>5

LEMMA FirstFiles ==
  ASSUME NEW u \in UserCmd
  PROVE  /\ AllPlaced(NoHooks)
         /\ AllPlaced([NoHooks EXCEPT !.Stop = <<UserEntry("Stop", u)>>])
         /\ AllPlaced([Stop |-> <<Earlier("Stop")>>, PreToolUse |-> <<UserEntry("Stop", u), Older("PreToolUse")>>])
<1> DEFINE e == UserEntry("Stop", u)
           one == [NoHooks EXCEPT !.Stop = <<e>>]
           two == [Stop |-> <<Earlier("Stop")>>, PreToolUse |-> <<e, Older("PreToolUse")>>]
<1>1. "Stop" \in HookEvent /\ "PreToolUse" \in HookEvent /\ \A ev \in HookEvent : ev = "Stop" \/ ev = "PreToolUse"
  BY DEF HookEvent
<1>2. e \in HookEntry /\ ~IsHeimdallEntry(e)
  BY <1>1, UsersEntry
<1>3. /\ Earlier("Stop") \in HookEntry /\ Earlier("Stop").matcher = Matcher["Stop"]
      /\ Older("PreToolUse") \in HookEntry /\ Older("PreToolUse").matcher = Matcher["PreToolUse"]
  BY <1>1, LeftEntries
<1> HIDE DEF e
<1>4. ASSUME NEW ev \in HookEvent PROVE Placed(<<>>, ev) /\ Placed(<<e>>, ev)
  BY <1>2, ShortLists
<1>5. Placed(<<Earlier("Stop")>>, "Stop") /\ Placed(<<e, Older("PreToolUse")>>, "PreToolUse")
  BY <1>1, <1>2, <1>3, ShortLists
<1>6. AllPlaced(NoHooks)
  BY <1>4 DEF AllPlaced, NoHooks
<1>7. AllPlaced(one)
  <2>1. one["Stop"] = <<e>> /\ one["PreToolUse"] = <<>> /\ one = [ev \in HookEvent |-> one[ev]]
    BY <1>1 DEF NoHooks
  <2> HIDE DEF one
  <2> QED
    BY <1>1, <1>4, <2>1 DEF AllPlaced
<1>8. AllPlaced(two)
  <2>1. two["Stop"] = <<Earlier("Stop")>> /\ two["PreToolUse"] = <<e, Older("PreToolUse")>>
    OBVIOUS
  <2>2. two = [ev \in HookEvent |-> two[ev]]
    BY DEF HookEvent
  <2> HIDE DEF two
  <2> QED
    BY <1>1, <1>5, <2>1, <2>2 DEF AllPlaced
<1> QED
  BY <1>6, <1>7, <1>8 DEF e

LEMMA AFileIsThere == ASSUME NEW s, AllPlaced(s) PROVE Held(s) = s
<1>1. SUFFICES ASSUME s = NoSettings PROVE FALSE
  BY DEF Held
<1> DEFINE e == [matcher |-> "no file"]
<1>2. s["Stop"] = <<e>> /\ Placed(s["Stop"], "Stop")
  <2>1. "Stop" \in HookEvent
    BY DEF HookEvent
  <2> QED
    BY <1>1, <2>1 DEF NoSettings, AllPlaced
<1>3. e \in HookEntry
  <2> HIDE DEF e
  <2>1. 1 \in DOMAIN <<e>> /\ <<e>>[1] = e
    OBVIOUS
  <2>2. <<e>> \in [DOMAIN <<e>> -> HookEntry]
    BY <1>2, Zenon DEF Placed, ArePlaced
  <2> QED
    BY <2>1, <2>2
<1>4. e.matcher \in {"", "Bash"}
  <2> HIDE DEF e
  <2> QED
    BY <1>3 DEF HookEntry
<1> QED
  BY <1>4

-----------------------------------------------------------------------------
Backed == UNION {UsersIn(backups[i]) : i \in DOMAIN backups}

ChangerType == [pc : {"idle", "backup", "write"}, kind : {"install", "uninstall", "start"},
                read : PlacedSettings, write : PlacedSettings, late : BOOLEAN]

(* Whatever happens, Heimdall has one entry at most for each hook; the     *)
(* user can add to it, not take its marks off.                             *)
SettingsParts ==
  /\ settings = NoSettings \/ AllPlaced(settings)
  /\ overwritten \in BOOLEAN
  /\ backups \in Seq(PlacedSettings)
  /\ changer \in [Changer -> ChangerType]

(* Who is not late has read what is there, and has what it is to write     *)
(* from that; a command that is about to write has kept the users'         *)
(* commands in a backup, unless another has taken its name.                *)
KeepsUp(p) ==
  changer[p].pc # "idle" /\ ~changer[p].late => changer[p].read = Held(settings)
StartsFromHooks(p) ==
  changer[p].pc # "idle" /\ changer[p].kind = "start" =>
    changer[p].write = AutoUpgrade(changer[p].read) /\ HooksDetected(changer[p].read)
HasBackedUp(p) ==
  changer[p].pc = "write" /\ changer[p].kind # "start" /\ ~overwritten =>
    UsersIn(changer[p].read) \subseteq Backed

SettingsInv == SettingsParts /\ \A p \in Changer : KeepsUp(p) /\ StartsFromHooks(p) /\ HasBackedUp(p)

LEMMA NoHooksArePlaced == AllPlaced(NoHooks)
<1>1. \A ev \in HookEvent : NoHooks[ev] = <<>> /\ Placed(<<>>, ev)
  <2> SUFFICES ASSUME NEW ev \in HookEvent PROVE NoHooks[ev] = <<>> /\ Placed(<<>>, ev)
    OBVIOUS
  <2> DEFINE e == [BuildHookEntry(ev) EXCEPT !.source = FALSE]
             f == [e EXCEPT !.cmds = {}]
  <2>1. f \in HookEntry /\ f.source = FALSE /\ f.cmds = {}
    BY BuiltEntry DEF HookEntry
  <2>2. ~IsHeimdallEntry(f)
    <3> HIDE DEF f
    <3>1. f.cmds \cap {"ours", "oldOurs"} = {}
      BY <2>1
    <3> QED
      BY <2>1, <3>1, Zenon DEF IsHeimdallEntry
  <2> HIDE DEF f
  <2> QED
    BY <2>1, <2>2, ShortLists DEF NoHooks
<1> QED
  BY <1>1 DEF AllPlaced, NoHooks

LEMMA HeldIsPlaced == SettingsParts => AllPlaced(Held(settings))
BY NoHooksArePlaced DEF SettingsParts, Held

LEMMA SettingsBegin == SettingsInit => SettingsInv
<1> SUFFICES ASSUME SettingsInit PROVE SettingsInv
  OBVIOUS
<1>1. PICK u \in UserCmd :
        settings \in {NoSettings, NoHooks, [NoHooks EXCEPT !.Stop = <<UserEntry("Stop", u)>>],
          [Stop |-> <<Earlier("Stop")>>, PreToolUse |-> <<UserEntry("Stop", u), Older("PreToolUse")>>]}
  BY DEF SettingsInit
<1>2. settings = NoSettings \/ AllPlaced(settings)
  BY <1>1, FirstFiles
<1>3. Resting \in ChangerType
  BY FirstFiles, <1>1, PlacedMeans DEF Resting, ChangerType
<1>4. SettingsParts
  <2>1. backups = <<>> /\ overwritten = FALSE /\ changer = [p \in Changer |-> Resting]
    BY DEF SettingsInit
  <2> QED
    BY <1>2, <1>3, <2>1, EmptySeq DEF SettingsParts
<1>5. \A p \in Changer : changer[p].pc = "idle"
  BY DEF SettingsInit, Resting
<1> QED
  BY <1>4, <1>5 DEF SettingsInv, KeepsUp, StartsFromHooks, HasBackedUp

(* What one process does leaves the others as they were, if the file stays *)
(* and no backup is lost.                                                  *)
LEMMA OthersKeepUp ==
  ASSUME NEW q \in Changer, changer'[q] = changer[q], settings' = settings,
         overwritten' = TRUE \/ (Backed \subseteq Backed' /\ overwritten' = overwritten),
         KeepsUp(q), StartsFromHooks(q), HasBackedUp(q)
  PROVE  KeepsUp(q)' /\ StartsFromHooks(q)' /\ HasBackedUp(q)'
<1>1. KeepsUp(q)'
  BY DEF KeepsUp
<1>2. StartsFromHooks(q)'
  BY DEF StartsFromHooks
<1>3. HasBackedUp(q)'
  BY DEF HasBackedUp
<1> QED
  BY <1>1, <1>2, <1>3

LEMMA ReadsKeeps ==
  ASSUME SettingsInv, NEW p \in Changer, NEW kind \in {"install", "uninstall", "start"},
         NEW result, AllPlaced(result), Reads(p, kind, result),
         kind = "start" => result = AutoUpgrade(Held(settings))
  PROVE  SettingsInv'
<1> DEFINE r == [pc |-> IF kind = "start" \/ settings = NoSettings THEN "write" ELSE "backup",
                 kind |-> kind, read |-> Held(settings), write |-> result, late |-> FALSE]
<1>1. /\ changer' = [changer EXCEPT ![p] = r] /\ result # Held(settings)
      /\ UNCHANGED <<settings, backups, overwritten>>
  BY DEF Reads
<1>2. AllPlaced(Held(settings)) /\ SettingsParts
  BY HeldIsPlaced DEF SettingsInv
<1>3. r \in ChangerType
  BY <1>2, PlacedMeans DEF ChangerType
<1>4. /\ r.kind = kind /\ r.read = Held(settings) /\ r.write = result /\ r.late = FALSE
      /\ r.pc = "write" => kind = "start" \/ settings = NoSettings
  OBVIOUS
<1> HIDE DEF r
<1>5. /\ changer'[p] = r /\ \A q \in Changer \ {p} : changer'[q] = changer[q]
      /\ changer' \in [Changer -> ChangerType]
  BY <1>1, <1>2, <1>3 DEF SettingsParts
<1>6. SettingsParts'
  BY <1>1, <1>2, <1>5 DEF SettingsParts
<1>7. ASSUME NEW q \in Changer \ {p} PROVE KeepsUp(q)' /\ StartsFromHooks(q)' /\ HasBackedUp(q)'
  <2>1. Backed' = Backed
    BY <1>1 DEF Backed
  <2> QED
    BY <1>1, <1>5, <2>1, OthersKeepUp DEF SettingsInv
<1>8. KeepsUp(p)'
  BY <1>1, <1>4, <1>5 DEF KeepsUp
<1>9. StartsFromHooks(p)'
  <2>1. kind = "start" => HooksDetected(Held(settings))
    BY <1>1, <1>2, UpgradeByEvent
  <2> QED
    BY <1>4, <1>5, <2>1 DEF StartsFromHooks
<1>10. HasBackedUp(p)'
  <2>1. ASSUME settings = NoSettings PROVE UsersIn(Held(settings)) = {}
    <3>1. Held(settings) = NoHooks
      BY <2>1 DEF Held
    <3>2. \A ev \in HookEvent : DOMAIN NoHooks[ev] = {}
      <4>1. \A i \in DOMAIN <<>> : FALSE
        <5>1. PICK es \in Seq(HookEntry) : es = <<>>
          BY EmptySeq
        <5> QED
          BY <5>1
      <4> QED
        BY <4>1 DEF NoHooks
    <3> QED
      BY <3>1, <3>2 DEF UsersIn
  <2> QED
    BY <1>4, <1>5, <2>1 DEF HasBackedUp
<1> QED
  BY <1>6, <1>7, <1>8, <1>9, <1>10 DEF SettingsInv

LEMMA BackupKeeps ==
  ASSUME SettingsInv, NEW p \in Changer, WriteBackup(p)
  PROVE  SettingsInv'
<1> DEFINE r == [changer[p] EXCEPT !.pc = "write"]
           b == changer[p].read
<1>1. /\ changer' = [changer EXCEPT ![p] = r] /\ settings' = settings /\ changer[p].pc = "backup"
      /\ \/ backups' = Append(backups, b) /\ overwritten' = overwritten
         \/ backups # <<>> /\ overwritten' = TRUE /\ backups' = Append(Front(backups), b)
  BY DEF WriteBackup
<1>2. SettingsParts /\ changer[p] \in ChangerType /\ KeepsUp(p) /\ StartsFromHooks(p)
  BY DEF SettingsInv, SettingsParts
<1>3. /\ r \in ChangerType /\ r.pc = "write" /\ r.kind = changer[p].kind /\ r.read = b
      /\ r.write = changer[p].write /\ r.late = changer[p].late /\ b \in PlacedSettings
  BY <1>2 DEF ChangerType
<1> HIDE DEF r, b
<1>4. /\ changer'[p] = r /\ \A q \in Changer \ {p} : changer'[q] = changer[q]
      /\ changer' \in [Changer -> ChangerType]
  BY <1>1, <1>2, <1>3 DEF SettingsParts
<1>5. backups' \in Seq(PlacedSettings) /\ overwritten' \in BOOLEAN
  <2>1. backups \in Seq(PlacedSettings) /\ overwritten \in BOOLEAN
    BY <1>2 DEF SettingsParts
  <2>2. CASE backups' = Append(backups, b) /\ overwritten' = overwritten
    BY <1>3, <2>1, <2>2
  <2>3. CASE backups # <<>> /\ overwritten' = TRUE /\ backups' = Append(Front(backups), b)
    <3>1. Front(backups) \in Seq(PlacedSettings)
      BY <2>1, <2>3 DEF Front
    <3> QED
      BY <1>3, <2>3, <3>1
  <2> QED
    BY <1>1, <2>2, <2>3
<1>6. SettingsParts'
  BY <1>1, <1>2, <1>4, <1>5 DEF SettingsParts
<1>7. (Backed \subseteq Backed' /\ UsersIn(b) \subseteq Backed' /\ overwritten' = overwritten) \/ overwritten' = TRUE
  <2>1. CASE backups' = Append(backups, b) /\ overwritten' = overwritten
    <3>1. backups \in Seq(PlacedSettings)
      BY <1>2 DEF SettingsParts
    <3>2. /\ DOMAIN backups \subseteq DOMAIN backups' /\ \A i \in DOMAIN backups : backups'[i] = backups[i]
          /\ \E i \in DOMAIN backups' : backups'[i] = b
      BY <1>3, <2>1, <3>1
    <3> QED
      BY <2>1, <3>2 DEF Backed
  <2> QED
    BY <1>1, <2>1
<1>8. ASSUME NEW q \in Changer \ {p} PROVE KeepsUp(q)' /\ StartsFromHooks(q)' /\ HasBackedUp(q)'
  <2>2. overwritten' = TRUE \/ (Backed \subseteq Backed' /\ overwritten' = overwritten)
    BY <1>7
  <2>3. q \in Changer /\ changer'[q] = changer[q] /\ settings' = settings
    BY <1>1, <1>4
  <2>4. KeepsUp(q) /\ StartsFromHooks(q) /\ HasBackedUp(q)
    BY DEF SettingsInv
  <2> QED
    BY <2>2, <2>3, <2>4, OthersKeepUp, Zenon
<1>9. KeepsUp(p)' /\ StartsFromHooks(p)'
  <2>1. /\ changer'[p].late = changer[p].late /\ changer'[p].read = changer[p].read
        /\ changer'[p].kind = changer[p].kind /\ changer'[p].write = changer[p].write
    BY <1>3, <1>4 DEF b
  <2>2. changer[p].pc # "idle"
    BY <1>1
  <2>3. ~changer[p].late => changer[p].read = Held(settings)
    BY <1>2, <2>2, Zenon DEF KeepsUp
  <2>4. KeepsUp(p)'
    BY <1>1, <2>1, <2>3, Zenon DEF KeepsUp
  <2>5. StartsFromHooks(p)'
    BY <1>2, <2>1, <2>2 DEF StartsFromHooks
  <2> QED
    BY <2>4, <2>5
<1>10. HasBackedUp(p)'
  BY <1>3, <1>4, <1>7 DEF HasBackedUp
<1> QED
  BY <1>6, <1>8, <1>9, <1>10 DEF SettingsInv

(* Once the file has changed, the others at work are late. *)
LEMMA OutdatedKeeps ==
  ASSUME SettingsInv, NEW others \in SUBSET Changer, changer' = Outdated(others),
         AllPlaced(settings'), UNCHANGED <<backups, overwritten>>
  PROVE  SettingsInv'
<1>1. SettingsParts /\ changer \in [Changer -> ChangerType]
  BY DEF SettingsInv, SettingsParts
<1>2. Resting \in ChangerType /\ Resting.pc = "idle"
  BY NoHooksArePlaced, PlacedMeans DEF Resting, ChangerType
<1>3. ASSUME NEW q \in Changer
      PROVE  /\ changer'[q] \in ChangerType
             /\ changer'[q].pc = "idle"
                \/ /\ changer'[q].late = TRUE /\ changer'[q].pc = changer[q].pc
                   /\ changer'[q].kind = changer[q].kind /\ changer'[q].read = changer[q].read
                   /\ changer'[q].write = changer[q].write
  <2> DEFINE r == [changer[q] EXCEPT !.late = TRUE]
  <2>1. changer'[q] = IF q \in others /\ changer[q].pc # "idle" THEN r
                      ELSE IF q \in others THEN changer[q] ELSE Resting
    BY DEF Outdated
  <2>2. /\ changer[q] \in ChangerType /\ r \in ChangerType /\ r.late = TRUE /\ r.pc = changer[q].pc
        /\ r.kind = changer[q].kind /\ r.read = changer[q].read /\ r.write = changer[q].write
    BY <1>1 DEF ChangerType
  <2> HIDE DEF r
  <2> QED
    BY <1>2, <2>1, <2>2
<1>4. changer' \in [Changer -> ChangerType]
  <2>1. changer' = [q \in Changer |-> changer'[q]]
    BY DEF Outdated
  <2> QED
    BY <1>3, <2>1
<1>5. SettingsParts'
  BY <1>1, <1>4 DEF SettingsParts
<1>6. ASSUME NEW q \in Changer PROVE KeepsUp(q)' /\ StartsFromHooks(q)' /\ HasBackedUp(q)'
  <2>1. Backed' = Backed
    BY DEF Backed
  <2>2. StartsFromHooks(q) /\ HasBackedUp(q)
    BY DEF SettingsInv
  <2> QED
    BY <1>3, <2>1, <2>2 DEF KeepsUp, StartsFromHooks, HasBackedUp
<1> QED
  BY <1>5, <1>6 DEF SettingsInv

LEMMA KilledKeeps ==
  ASSUME SettingsInv, NEW p \in Changer, ChangerKilled(p)
  PROVE  SettingsInv'
<1>1. /\ changer' = [changer EXCEPT ![p] = Resting] /\ settings' = settings /\ backups' = backups
      /\ overwritten' = overwritten
  BY DEF ChangerKilled
<1>2. SettingsParts
  BY DEF SettingsInv
<1>3. Resting \in ChangerType /\ Resting.pc = "idle"
  BY NoHooksArePlaced, PlacedMeans DEF Resting, ChangerType
<1>4. /\ changer'[p] = Resting /\ \A q \in Changer \ {p} : changer'[q] = changer[q]
      /\ changer' \in [Changer -> ChangerType]
  BY <1>1, <1>2, <1>3 DEF SettingsParts
<1>5. SettingsParts'
  BY <1>1, <1>2, <1>4 DEF SettingsParts
<1>6. ASSUME NEW q \in Changer \ {p} PROVE KeepsUp(q)' /\ StartsFromHooks(q)' /\ HasBackedUp(q)'
  <2>1. Backed' = Backed
    BY <1>1 DEF Backed
  <2> QED
    BY <1>1, <1>4, <2>1, OthersKeepUp DEF SettingsInv
<1>7. KeepsUp(p)' /\ StartsFromHooks(p)' /\ HasBackedUp(p)'
  BY <1>3, <1>4 DEF KeepsUp, StartsFromHooks, HasBackedUp
<1> QED
  BY <1>5, <1>6, <1>7 DEF SettingsInv

LEMMA EditKeeps == ASSUME SettingsInv, UserEdits PROVE SettingsInv'
<1> DEFINE h == Held(settings)
<1>1. AllPlaced(h) /\ SettingsParts
  BY HeldIsPlaced DEF SettingsInv
<1>2. PICK ev \in HookEvent, u \in UserCmd :
        \/ settings' = [h EXCEPT ![ev] = Added(@, UserEntry(ev, u))]
        \/ \E i \in DOMAIN h[ev] :
             \/ settings' = [settings EXCEPT ![ev][i].cmds = @ \cup {u}]
             \/ settings' = [settings EXCEPT ![ev] = Restrict(@, DOMAIN @ \ {i})]
  BY DEF UserEdits
<1>3. \E es : settings' = [h EXCEPT ![ev] = es] /\ Placed(es, ev)
  <2>1. Placed(h[ev], ev)
    BY <1>1 DEF AllPlaced
  <2>2. CASE settings' = [h EXCEPT ![ev] = Added(@, UserEntry(ev, u))]
    <3>1. settings' = [h EXCEPT ![ev] = Added(h[ev], UserEntry(ev, u))]
      BY <2>2
    <3> HIDE DEF h
    <3> QED
      BY <2>1, <3>1, AddedUsers
  <2>3. CASE \E i \in DOMAIN h[ev] :
               \/ settings' = [settings EXCEPT ![ev][i].cmds = @ \cup {u}]
               \/ settings' = [settings EXCEPT ![ev] = Restrict(@, DOMAIN @ \ {i})]
    <3>1. PICK i \in DOMAIN h[ev] :
               \/ settings' = [settings EXCEPT ![ev][i].cmds = @ \cup {u}]
               \/ settings' = [settings EXCEPT ![ev] = Restrict(@, DOMAIN @ \ {i})]
      BY <2>3
    <3>2. settings = h
      <4>1. SUFFICES ASSUME settings = NoSettings PROVE FALSE
        BY DEF Held
      <4>2. h[ev] = <<>>
        BY <4>1 DEF Held, NoHooks
      <4>3. PICK es \in Seq(HookEntry) : es = <<>>
        BY EmptySeq
      <4>4. DOMAIN es = {}
        BY <4>3
      <4> QED
        BY <3>1, <4>2, <4>3, <4>4
    <3>3. CASE settings' = [settings EXCEPT ![ev][i].cmds = @ \cup {u}]
      <4> DEFINE es == [h[ev] EXCEPT ![i].cmds = @ \cup {u}]
      <4>1. settings' = [h EXCEPT ![ev] = es]
        BY <3>2, <3>3
      <4>2. Placed(es, ev)
        BY <2>1, <3>1, JoinedEntry
      <4> QED
        BY <4>1, <4>2
    <3>4. CASE settings' = [settings EXCEPT ![ev] = Restrict(@, DOMAIN @ \ {i})]
      <4> DEFINE K == DOMAIN h[ev] \ {i}
      <4>1. settings' = [h EXCEPT ![ev] = Restrict(h[ev], K)]
        BY <3>2, <3>4
      <4>2. Placed(Restrict(h[ev], K), ev)
        BY <2>1, KeptPart
      <4> QED
        BY <4>1, <4>2
    <3> QED
      BY <3>1, <3>3, <3>4
  <2> QED
    BY <1>2, <2>2, <2>3
<1>4. AllPlaced(settings')
  <2>1. PICK es : settings' = [h EXCEPT ![ev] = es] /\ Placed(es, ev)
    BY <1>3
  <2>2. h = [e \in HookEvent |-> h[e]] /\ \A e \in HookEvent : Placed(h[e], e)
    BY <1>1 DEF AllPlaced
  <2> DEFINE s == [h EXCEPT ![ev] = es]
  <2> HIDE DEF h
  <2>3. s = [e \in HookEvent |-> s[e]] /\ s[ev] = es /\ \A e \in HookEvent \ {ev} : s[e] = h[e]
    BY <2>2
  <2> HIDE DEF s
  <2>4. AllPlaced(s)
    BY <2>1, <2>2, <2>3 DEF AllPlaced
  <2>5. settings' = s
    BY <2>1 DEF s
  <2> QED
    BY <2>4, <2>5
<1>5. changer' = Outdated(Changer) /\ UNCHANGED <<backups, overwritten>>
  BY DEF UserEdits
<1> QED
  BY <1>4, <1>5, OutdatedKeeps

LEMMA SettingsStep == SettingsInv /\ [SettingsNext]_settingsVars => SettingsInv'
<1> SUFFICES ASSUME SettingsInv, [SettingsNext]_settingsVars PROVE SettingsInv'
  OBVIOUS
<1>1. AllPlaced(Held(settings)) /\ SettingsParts
  BY HeldIsPlaced DEF SettingsInv
<1>2. ASSUME NEW p \in Changer, InstallHooks(p) PROVE SettingsInv'
  <2>1. PICK only \in SUBSET HookEvent, mode \in {"plain", "merge", "force"} :
          Reads(p, "install", ApplyInstall(Held(settings), only, mode))
    BY <1>2 DEF InstallHooks
  <2>2. AllPlaced(ApplyInstall(Held(settings), only, mode))
    BY <1>1, InstallIsPlaced
  <2> QED
    BY <2>1, <2>2, ReadsKeeps
<1>3. ASSUME NEW p \in Changer, UninstallHooks(p) PROVE SettingsInv'
  <2>1. AllPlaced(ApplyUninstall(Held(settings)))
    BY <1>1, UninstallIsPlaced
  <2> QED
    BY <1>3, <2>1, ReadsKeeps DEF UninstallHooks
<1>4. ASSUME NEW p \in Changer, SessionStarts(p) PROVE SettingsInv'
  <2>1. AllPlaced(AutoUpgrade(Held(settings)))
    BY <1>1, UpgradeIsPlaced
  <2> QED
    BY <1>4, <2>1, ReadsKeeps DEF SessionStarts
<1>5. ASSUME NEW p \in Changer, AtomicWrite(p) PROVE SettingsInv'
  <2>1. /\ settings' = changer[p].write /\ changer' = Outdated(Changer \ {p})
        /\ UNCHANGED <<backups, overwritten>>
    BY <1>5 DEF AtomicWrite
  <2>2. AllPlaced(changer[p].write)
    BY <1>1, PlacedMeans DEF SettingsParts, ChangerType
  <2>3. AllPlaced(settings')
    BY <2>1, <2>2
  <2> QED
    BY <2>1, <2>3, OutdatedKeeps
<1>6. CASE UNCHANGED settingsVars
  <2>1. UNCHANGED <<settings, backups, changer, overwritten>>
    BY <1>6 DEF settingsVars
  <2>2. Backed' = Backed /\ SettingsParts'
    BY <1>1, <2>1 DEF Backed, SettingsParts
  <2> QED
    BY <2>1, <2>2 DEF SettingsInv, KeepsUp, StartsFromHooks, HasBackedUp
<1> QED
  BY <1>2, <1>3, <1>4, <1>5, <1>6, BackupKeeps, KilledKeeps, EditKeeps DEF SettingsNext

LEMMA SettingsAreTyped == SettingsInv => SettingsTypeOK
<1> SUFFICES ASSUME SettingsInv PROVE SettingsTypeOK
  OBVIOUS
<1>1. \A s : AllPlaced(s) => HoldsHooks(s)
  BY DEF AllPlaced, Placed, ArePlaced, HoldsHooks
<1>2. SettingsParts
  BY DEF SettingsInv
<1>3. \A i \in DOMAIN backups : HoldsHooks(backups[i])
  BY <1>1, <1>2, PlacedMeans DEF SettingsParts
<1>4. \A p \in Changer : changer[p].pc \in {"idle", "backup", "write"} /\ HoldsHooks(changer[p].write)
  BY <1>1, <1>2, PlacedMeans DEF SettingsParts, ChangerType
<1> QED
  BY <1>1, <1>2, <1>3, <1>4 DEF SettingsTypeOK, SettingsParts

(* What a start does not keep of the users' commands was in an entry of    *)
(* Heimdall's.                                                             *)
LEMMA UpgradeDrops ==
  ASSUME NEW s, AllPlaced(s), HooksDetected(s), NEW u \in UsersIn(s), u \notin UsersIn(AutoUpgrade(s))
  PROVE  \E ev \in HookEvent : \E i \in OursAt(s, ev) : u \in s[ev][i].cmds
<1>0. PICK ev \in HookEvent : \E i \in DOMAIN s[ev] : u \in s[ev][i].cmds /\ u \in UserCmd
  BY DEF UsersIn
<1>1. PICK i \in DOMAIN s[ev] : u \in s[ev][i].cmds /\ u \in UserCmd
  BY <1>0
<1>2. CASE i \in Ours(s[ev])
  BY <1>1, <1>2, OursAreAll
<1>3. CASE i \notin Ours(s[ev])
  <2>1. AutoUpgrade(s)[ev] = UpgradeAt(s[ev], ev)
    BY UpgradeByEvent
  <2>2. i \in DOMAIN UpgradeAt(s[ev], ev) /\ UpgradeAt(s[ev], ev)[i] = s[ev][i]
    BY <1>1, <1>3, UpgradeAtKeeps DEF AllPlaced
  <2>3. u \in UsersIn(AutoUpgrade(s))
    BY <1>1, <2>1, <2>2 DEF UsersIn
  <2> QED
    BY <2>3
<1> QED
  BY <1>2, <1>3

LEMMA WriteUndoesNothing ==
  ASSUME SettingsInv, NEW p \in Changer, AtomicWrite(p), ~changer[p].late
  PROVE  /\ changer[p].kind = "start" => HooksDetected(Held(settings))
         /\ \A u \in Known \ Known' :
              \/ overwritten
              \/ /\ changer[p].kind = "start"
                 /\ \E ev \in HookEvent : \E i \in OursAt(Held(settings), ev) :
                      u \in Held(settings)[ev][i].cmds
<1> DEFINE h == Held(settings)
<1>1. /\ settings' = changer[p].write /\ changer[p].pc = "write" /\ changer[p].pc # "idle"
      /\ UNCHANGED backups
  BY DEF AtomicWrite
<1>2. KeepsUp(p) /\ StartsFromHooks(p) /\ HasBackedUp(p) /\ SettingsParts
  BY DEF SettingsInv
<1>3. changer[p].read = h
  BY <1>1, <1>2, Zenon DEF KeepsUp
<1>4. AllPlaced(h) /\ AllPlaced(settings')
  BY <1>1, <1>2, HeldIsPlaced, PlacedMeans DEF SettingsParts, ChangerType
<1>5. Known = UsersIn(h) \cup Backed
  BY DEF Known, Backed
<1>6. Known' = UsersIn(settings') \cup Backed
  <2>1. Held(settings') = settings'
    BY <1>4, AFileIsThere
  <2>2. Held(settings)' = settings'
    BY <2>1 DEF Held
  <2> QED
    BY <1>1, <2>2 DEF Known, Backed, UsersIn
<1>7. changer[p].kind = "start" => settings' = AutoUpgrade(h) /\ HooksDetected(h)
  BY <1>1, <1>2, <1>3 DEF StartsFromHooks
<1> HIDE DEF h
<1>8. ASSUME NEW u \in Known \ Known', ~overwritten
      PROVE  /\ changer[p].kind = "start"
             /\ \E ev \in HookEvent : \E i \in OursAt(h, ev) : u \in h[ev][i].cmds
  <2>1. u \in UsersIn(h) /\ u \notin Backed /\ u \notin UsersIn(settings')
    BY <1>5, <1>6
  <2>2. changer[p].kind = "start"
    BY <1>1, <1>2, <1>3, <1>8, <2>1 DEF HasBackedUp
  <2>3. u \notin UsersIn(AutoUpgrade(h)) /\ HooksDetected(h)
    BY <1>7, <2>1, <2>2
  <2> QED
    BY <1>4, <2>1, <2>2, <2>3, UpgradeDrops
<1>9. changer[p].kind = "start" => HooksDetected(Held(settings))
  BY <1>7 DEF h
<1>10. ASSUME NEW u \in Known \ Known'
       PROVE  \/ overwritten
              \/ /\ changer[p].kind = "start"
                 /\ \E ev \in HookEvent : \E i \in OursAt(Held(settings), ev) :
                      u \in Held(settings)[ev][i].cmds
  BY <1>8, Zenon DEF h
<1> QED
  BY <1>9, <1>10, Zenon

LEMMA InstallSettlesHere == SettingsInv' => InstallSettles'
<1> SUFFICES ASSUME SettingsInv' PROVE InstallSettles'
  OBVIOUS
<1>1. AllPlaced(Held(settings)')
  BY NoHooksArePlaced DEF SettingsInv, SettingsParts, Held
<1>2. \A r \in {AutoUpgrade(ApplyInstall(Held(settings)', HookEvent, "merge"))} :
        /\ AutoUpgrade(r) = r /\ ApplyInstall(r, HookEvent, "plain") = r
        /\ \A ev \in HookEvent : OursAt(r, ev) # {} /\ \A i, j \in OursAt(r, ev) : i = j
        /\ ApplyUninstall(r) = ApplyUninstall(Held(settings)')
  BY <1>1, Settles
<1> QED
  BY <1>2, Zenon DEF InstallSettles

(* In the settings at every moment there are hooks in every event, each    *)
(* entry at a place of its own, and so in every backup and in what every   *)
(* process has yet to write (install.go).                                  *)
THEOREM SettingsTypeCorrect == SettingsSpec => []SettingsTypeOK
BY SettingsBegin, SettingsStep, SettingsAreTyped, PTL DEF SettingsSpec

(* Of a file that is what it was when it was read, a start writes back     *)
(* only one with hooks in it, and the user's commands stay in the file or  *)
(* in a backup, except what the user let one of Heimdall's entries run and *)
(* what backups of the same second overwrote; and wherever the file is     *)
(* left, an install and a start after it settle (autoUpgradeHooks and      *)
(* applyInstall, install.go).                                              *)
THEOREM ChangesAreKept == SettingsSpec => ChangesUndoNothing
<1> DEFINE UndoesNothing ==
             /\ settings' # settings => InstallSettles'
             /\ \A p \in Changer : AtomicWrite(p) /\ ~changer[p].late =>
                  /\ changer[p].kind = "start" => HooksDetected(Held(settings))
                  /\ \A u \in Known \ Known' :
                       \/ overwritten
                       \/ /\ changer[p].kind = "start"
                          /\ \E ev \in HookEvent : \E i \in OursAt(Held(settings), ev) :
                               u \in Held(settings)[ev][i].cmds
<1>1. SettingsInv /\ [SettingsNext]_settingsVars => [UndoesNothing]_settingsVars
  <2> SUFFICES ASSUME SettingsInv, [SettingsNext]_settingsVars PROVE UndoesNothing
    OBVIOUS
  <2>1. InstallSettles'
    BY SettingsStep, InstallSettlesHere
  <2> QED
    BY <2>1, WriteUndoesNothing, Zenon
<1> QED
  BY <1>1, SettingsBegin, SettingsStep, PTL DEF SettingsSpec, ChangesUndoNothing

-----------------------------------------------------------------------------
(* Loops over the lines of a file.                                         *)

(* What holds of 0 and, up to N, of the next number too holds of all to N. *)
LEMMA UpToLast ==
  ASSUME NEW N \in Nat, NEW S, 0 \in S, \A n \in 1..N : n - 1 \in S => n \in S
  PROVE  0..N \subseteq S
<1> DEFINE rest == (0..N) \ S
<1> SUFFICES ASSUME rest # {} PROVE FALSE
  OBVIOUS
<1>1. rest \in SUBSET Nat
  OBVIOUS
<1>2. PICK m \in rest : \A k \in rest : m <= k
  <2> HIDE DEF rest
  <2> QED
    BY <1>1, HasLeast
<1>3. m \in 1..N /\ m - 1 \in 0..N /\ ~(m <= m - 1)
  OBVIOUS
<1>4. m - 1 \in S
  BY <1>2, <1>3
<1> QED
  BY <1>3, <1>4

(* A loop of N turns has a value after each: the step from one to the next *)
(* is given as a function.                                                 *)
IsLoop(f, N, V, base, step) ==
  f \in [0..N -> V] /\ f[0] = base /\ \A n \in 1..N : f[n] = step[n][f[n - 1]]

LEMMA LoopHasValues ==
  ASSUME NEW N \in Nat, NEW V, NEW base \in V, NEW step \in [1..N -> [V -> V]]
  PROVE  \E f : IsLoop(f, N, V, base, step)
<1> DEFINE Upto(m, f) == f \in [0..m -> V] /\ f[0] = base /\ \A n \in 1..m : f[n] = step[n][f[n - 1]]
           S == {m \in 0..N : \E f \in [0..m -> V] : Upto(m, f)}
<1>1. 0 \in S
  <2> DEFINE g == [n \in 0..0 |-> base]
  <2>1. g \in [0..0 -> V] /\ Upto(0, g) /\ 0 \in 0..N
    OBVIOUS
  <2> HIDE DEF g, Upto
  <2> QED
    BY <2>1
<1>2. ASSUME NEW m \in 1..N, m - 1 \in S PROVE m \in S
  <2>1. PICK f \in [0..m - 1 -> V] : Upto(m - 1, f)
    BY <1>2
  <2> DEFINE g == [n \in 0..m |-> IF n = m THEN step[m][f[m - 1]] ELSE f[n]]
  <2>2. m - 1 \in 0..m - 1 /\ m \in Nat
    OBVIOUS
  <2>3. step[m][f[m - 1]] \in V
    <3>1. f[m - 1] \in V
      BY <2>1, <2>2
    <3> QED
      BY <3>1
  <2>4. g \in [0..m -> V]
    <3>1. \A n \in 0..m : n # m => n \in 0..m - 1
      OBVIOUS
    <3> QED
      BY <2>1, <2>3, <3>1
  <2>5. g[0] = base
    BY <2>1, <2>2
  <2>6. ASSUME NEW n \in 1..m PROVE g[n] = step[n][g[n - 1]]
    <3>1. n - 1 \in 0..m /\ n - 1 # m /\ n \in 0..m
      OBVIOUS
    <3>2. g[n - 1] = f[n - 1]
      BY <3>1
    <3>3. CASE n = m
      BY <3>1, <3>2, <3>3
    <3>4. CASE n # m
      <4>1. n \in 1..m - 1
        BY <3>4
      <4> QED
        BY <2>1, <3>1, <3>2, <3>4, <4>1
    <3> QED
      BY <3>3, <3>4
  <2> HIDE DEF g
  <2>7. Upto(m, g)
    BY <2>4, <2>5, <2>6
  <2> HIDE DEF Upto
  <2>8. m \in 0..N
    OBVIOUS
  <2> QED
    BY <2>4, <2>7, <2>8
<1>3. N \in S
  <2> HIDE DEF S
  <2>1. 0..N \subseteq S
    BY <1>1, <1>2, UpToLast
  <2> QED
    BY <2>1
<1>4. PICK f \in [0..N -> V] : Upto(N, f)
  BY <1>3
<1> QED
  BY <1>4 DEF IsLoop

LEMMA FiniteUpTo ==
  ASSUME NEW n \in Nat, NEW S, S \subseteq 1..n
  PROVE  IsFiniteSet(S) /\ Cardinality(S) \in Nat
<1>1. IsFiniteSet(1..n)
  BY FS_Interval
<1> QED
  BY <1>1, FS_Subset, FS_CardinalityType

-----------------------------------------------------------------------------
(* The transcript of a session, and its transcript and log together.       *)

Role == {"", "user", "assistant", "system"}
Line == [role : Role, named : Role, text : Said \cup {"", "answer"}, tools : Calls,
         result : {"", "Read", "WebFetch"}, long : BOOLEAN, meta : BOOLEAN, huge : BOOLEAN]
TalkInv == talk \in Seq(Line) /\ Len(talk) <= MaxLength

LEMMA LinesAreTyped ==
  /\ NoMessage \in Line
  /\ \A t \in Said, meta \in BOOLEAN : Human(t, meta) \in Line
  /\ \A c \in Calls : Assistant(c) \in Line
  /\ \A tool \in {"Read", "WebFetch"}, long \in BOOLEAN, huge \in BOOLEAN : Result(tool, long, huge) \in Line
  /\ System \in Line
  /\ \A l \in Line, r \in Role : [l EXCEPT !.named = r] \in Line
<1>0. {} \in Calls
  BY DEF Calls
<1>1. NoMessage \in Line
  BY <1>0 DEF NoMessage, Line, Role
<1>2. ASSUME NEW r \in Role PROVE Message(r) \in Line
  <2> DEFINE l1 == [NoMessage EXCEPT !.role = r]
             l2 == [l1 EXCEPT !.named = r]
  <2>1. Message(r) = l2
    BY DEF Message
  <2>2. l1 \in Line
    BY <1>1 DEF Line
  <2> HIDE DEF l1
  <2>3. l2 \in Line
    BY <2>2 DEF Line
  <2> QED
    BY <2>1, <2>3
<1>3. ASSUME NEW t \in Said, NEW meta \in BOOLEAN PROVE Human(t, meta) \in Line
  <2> DEFINE l1 == Message("user")
             l2 == [l1 EXCEPT !.text = t]
             l3 == [l2 EXCEPT !.meta = meta]
  <2>1. Human(t, meta) = l3
    BY DEF Human
  <2>2. l1 \in Line
    BY <1>2 DEF Role
  <2> HIDE DEF l1
  <2>3. l2 \in Line
    BY <2>2 DEF Line
  <2> HIDE DEF l2
  <2>4. l3 \in Line
    BY <2>3 DEF Line
  <2> QED
    BY <2>1, <2>4
<1>4. ASSUME NEW c \in Calls PROVE Assistant(c) \in Line
  <2> DEFINE said == IF c = {} THEN "answer" ELSE ""
             l1 == Message("assistant")
             l2 == [l1 EXCEPT !.tools = c]
             l3 == [l2 EXCEPT !.text = said]
  <2>1. Assistant(c) = l3
    BY DEF Assistant
  <2>2. l1 \in Line
    BY <1>2 DEF Role
  <2> HIDE DEF l1
  <2>3. l2 \in Line
    BY <2>2 DEF Line
  <2>4. said \in Said \cup {"", "answer"}
    OBVIOUS
  <2> HIDE DEF l2, said
  <2>5. l3 \in Line
    BY <2>3, <2>4 DEF Line
  <2> QED
    BY <2>1, <2>5
<1>5. ASSUME NEW tool \in {"Read", "WebFetch"}, NEW long \in BOOLEAN, NEW huge \in BOOLEAN
      PROVE  Result(tool, long, huge) \in Line
  <2> DEFINE l1 == Message("user")
             l2 == [l1 EXCEPT !.result = tool]
             l3 == [l2 EXCEPT !.long = long]
             l4 == [l3 EXCEPT !.huge = huge]
  <2>1. Result(tool, long, huge) = l4
    BY DEF Result
  <2>2. l1 \in Line
    BY <1>2 DEF Role
  <2> HIDE DEF l1
  <2>3. l2 \in Line
    BY <2>2 DEF Line
  <2> HIDE DEF l2
  <2>4. l3 \in Line
    BY <2>3 DEF Line
  <2> HIDE DEF l3
  <2>5. l4 \in Line
    BY <2>4 DEF Line
  <2> QED
    BY <2>1, <2>5
<1>6. System \in Line
  <2> DEFINE l1 == Message("system")
             l2 == [l1 EXCEPT !.text = "correction"]
  <2>1. System = l2
    BY DEF System
  <2>2. l1 \in Line
    BY <1>2 DEF Role
  <2> HIDE DEF l1
  <2>3. l2 \in Line
    BY <2>2 DEF Line, Said
  <2> QED
    BY <2>1, <2>3
<1>7. ASSUME NEW l \in Line, NEW r \in Role PROVE [l EXCEPT !.named = r] \in Line
  BY DEF Line
<1> QED
  BY <1>1, <1>3, <1>4, <1>5, <1>6, <1>7

LEMMA TalkStart == TalkInit => TalkInv
BY EmptySeq, LengthAssumption DEF TalkInit, TalkInv

(* What a step says is a line, or the line without its name. *)
LEMMA SaysLine ==
  ASSUME [TalkNext]_talk
  PROVE  \/ UNCHANGED talk
         \/ \E l \in Line : Says(l) /\ (l.huge => HugeLines)
                            /\ (l.role \in {"user", "assistant"} => l.named = l.role)
                            /\ (l.named \in {"user", "assistant"} /\ l.text # "" => l.role = l.named)
<1> DEFINE NamesItself(l) ==
             /\ l.huge => HugeLines
             /\ l.role \in {"user", "assistant"} => l.named = l.role
             /\ l.named \in {"user", "assistant"} /\ l.text # "" => l.role = l.named
<1>1. /\ \A t \in Said, meta \in BOOLEAN : NamesItself(Human(t, meta))
      /\ \A c \in Calls : NamesItself(Assistant(c))
      /\ \A tool, long : NamesItself(Result(tool, long, FALSE))
      /\ HugeLines => \A tool, long : NamesItself(Result(tool, long, TRUE))
  <2>1. ASSUME NEW t \in Said, NEW meta \in BOOLEAN PROVE NamesItself(Human(t, meta))
    <3>1. Human(t, meta).role = "user" /\ Human(t, meta).named = "user" /\ Human(t, meta).huge = FALSE
      BY DEF Human, Message, NoMessage
    <3> QED
      BY <3>1, Zenon
  <2>2. ASSUME NEW c \in Calls PROVE NamesItself(Assistant(c))
    <3>1. Assistant(c).role = "assistant" /\ Assistant(c).named = "assistant" /\ Assistant(c).huge = FALSE
      BY DEF Assistant, Message, NoMessage
    <3> QED
      BY <3>1, Zenon
  <2>3. ASSUME NEW tool, NEW long, NEW huge, huge => HugeLines PROVE NamesItself(Result(tool, long, huge))
    <3>1. /\ Result(tool, long, huge).role = "user" /\ Result(tool, long, huge).named = "user"
          /\ Result(tool, long, huge).huge = huge
      BY DEF Result, Message, NoMessage
    <3> QED
      BY <2>3, <3>1, Zenon
  <2> QED
    BY <2>1, <2>2, <2>3
<1>2. NamesItself(System)
  <2>1. System.role = "system" /\ System.named = "system" /\ System.huge = FALSE
    BY DEF System, Message, NoMessage
  <2> QED
    BY <2>1
<1>3. ASSUME NEW r PROVE NamesItself([NoMessage EXCEPT !.named = r])
  <2> DEFINE l == [NoMessage EXCEPT !.named = r]
  <2>1. l.role = "" /\ l.text = "" /\ l.huge = FALSE
    BY DEF NoMessage
  <2> HIDE DEF l
  <2>2. NamesItself(l)
    BY <2>1
  <2> QED
    BY <2>2 DEF l
<1> HIDE DEF NamesItself
<1> SUFFICES UNCHANGED talk \/ \E l \in Line : Says(l) /\ NamesItself(l)
  BY DEF NamesItself
<1>4. CASE HumanSpeaks
  BY <1>1, <1>4, LinesAreTyped DEF HumanSpeaks
<1>5. CASE SkillIsLoaded
  BY <1>1, <1>5, LinesAreTyped DEF SkillIsLoaded, Said
<1>6. CASE AssistantSpeaks
  BY <1>1, <1>6, LinesAreTyped DEF AssistantSpeaks
<1>7. CASE ToolAnswers
  <2>1. PICK tool \in {"Read", "WebFetch"}, long \in BOOLEAN :
          Says(Result(tool, long, FALSE)) \/ (HugeLines /\ Says(Result(tool, TRUE, TRUE)))
    BY <1>7 DEF ToolAnswers
  <2>2. Result(tool, long, FALSE) \in Line /\ Result(tool, TRUE, TRUE) \in Line
    BY LinesAreTyped
  <2> QED
    BY <1>1, <2>1, <2>2
<1>8. CASE SystemSpeaks
  BY <1>2, <1>8, LinesAreTyped DEF SystemSpeaks
<1>9. CASE OtherEntry
  <2>1. PICK r \in {"", "user", "assistant"} : Says([NoMessage EXCEPT !.named = r])
    BY <1>9 DEF OtherEntry
  <2>2. [NoMessage EXCEPT !.named = r] \in Line
    BY LinesAreTyped DEF Role
  <2> QED
    BY <1>3, <2>1, <2>2
<1> QED
  BY <1>4, <1>5, <1>6, <1>7, <1>8, <1>9 DEF TalkNext

(* The line that is appended. *)
LEMMA LineSaid ==
  ASSUME NEW l \in Line, Says(l)
  PROVE  \E m \in Line : /\ talk' = Append(talk, m) /\ m.huge = l.huge /\ m.role = l.role /\ m.text = l.text
                         /\ m.named = l.named \/ (m.named = "" /\ l.role \in Nameless)
<1>1. CASE talk' = Append(talk, l)
  BY <1>1
<1>2. CASE l.role \in Nameless /\ talk' = Append(talk, [l EXCEPT !.named = ""])
  <2> DEFINE m == [l EXCEPT !.named = ""]
  <2>1. m \in Line
    BY LinesAreTyped DEF Role
  <2>2. m.huge = l.huge /\ m.role = l.role /\ m.text = l.text /\ m.named = ""
    BY DEF Line
  <2> HIDE DEF m
  <2> QED
    BY <1>2, <2>1, <2>2 DEF m
<1> QED
  BY <1>1, <1>2 DEF Says

LEMMA TalkStep == TalkInv /\ [TalkNext]_talk => TalkInv'
<1> SUFFICES ASSUME TalkInv, [TalkNext]_talk PROVE TalkInv'
  OBVIOUS
<1>1. ASSUME NEW l \in Line, Says(l) PROVE TalkInv'
  <2>1. talk \in Seq(Line) /\ Len(talk) < MaxLength /\ MaxLength \in Nat
    BY <1>1, LengthAssumption DEF TalkInv, Says
  <2>2. PICK m \in Line : talk' = Append(talk, m)
    BY <1>1, LineSaid
  <2>3. talk' \in Seq(Line) /\ Len(talk') = Len(talk) + 1 /\ Len(talk) \in Nat
    BY <2>1, <2>2
  <2> QED
    BY <2>1, <2>3 DEF TalkInv
<1>2. CASE UNCHANGED talk
  BY <1>2 DEF TalkInv
<1> QED
  BY <1>1, <1>2, SaysLine

(* A line that names one of the two who talk is a message of theirs, or    *)
(* says nothing; and theirs name them.                                     *)
NamedTruly(l) ==
  /\ l.role \in {"user", "assistant"} => l.named = l.role
  /\ l.named \in {"user", "assistant"} /\ l.text # "" => l.role = l.named
NamesAreTrue == \A i \in DOMAIN talk : NamedTruly(talk[i])

LEMMA NamesStayTrue ==
  Nameless \subseteq {"system"} /\ TalkInv /\ NamesAreTrue /\ [TalkNext]_talk => NamesAreTrue'
<1> SUFFICES ASSUME Nameless \subseteq {"system"}, TalkInv, NamesAreTrue, [TalkNext]_talk
             PROVE  NamesAreTrue'
  OBVIOUS
<1>1. ASSUME NEW l \in Line, Says(l), NamedTruly(l) PROVE NamesAreTrue'
  <2>1. PICK m \in Line : /\ talk' = Append(talk, m) /\ m.role = l.role /\ m.text = l.text
                          /\ m.named = l.named \/ (m.named = "" /\ l.role \in Nameless)
    BY <1>1, LineSaid
  <2>2. NamedTruly(m)
    BY <1>1, <2>1 DEF NamedTruly
  <2>3. talk \in Seq(Line)
    BY DEF TalkInv
  <2>4. ASSUME NEW i \in DOMAIN talk' PROVE NamedTruly(talk'[i])
    <3>1. (i \in DOMAIN talk /\ talk'[i] = talk[i]) \/ talk'[i] = m
      <4>1. talk' = Append(talk, m)
        BY <2>1
      <4> QED
        BY <2>3, <4>1
    <3> QED
      BY <2>2, <3>1 DEF NamesAreTrue
  <2> QED
    BY <2>4 DEF NamesAreTrue, NamedTruly
<1>2. CASE UNCHANGED talk
  BY <1>2 DEF NamesAreTrue, NamedTruly
<1> QED
  BY <1>1, <1>2, SaysLine DEF NamedTruly

LEMMA TalkIsTyped == TalkInv => TalkTypeOK
<1> SUFFICES ASSUME TalkInv, NEW i \in DOMAIN talk
             PROVE  /\ {talk[i].role, talk[i].named} \subseteq Role /\ talk[i].tools \in Calls
                    /\ talk[i].text \in Said \cup {"", "answer"} /\ talk[i].result \in {"", "Read", "WebFetch"}
                    /\ {talk[i].long, talk[i].meta, talk[i].huge} \subseteq BOOLEAN
  BY DEF TalkInv, TalkTypeOK, Role
<1>1. talk[i] \in Line
  BY DEF TalkInv
<1> QED
  BY <1>1 DEF Line

-----------------------------------------------------------------------------
(* What the readers make of a transcript. *)

Heard == [line : Line, at : Int]
MessagesUpTo ==
  CHOOSE upTo : upTo = [i \in 0..Len(talk) |->
    IF i = 0 THEN <<>> ELSE IF ~IsMessage(talk[i]) THEN upTo[i - 1]
    ELSE Append(upTo[i - 1], [line |-> talk[i], at |-> i - 1])]

(* Every message is the line at its place, and is no entry that is left out. *)
AreTheLines(m) ==
  \A i \in DOMAIN m : /\ m[i].at + 1 \in DOMAIN talk /\ m[i].line = talk[m[i].at + 1]
                      /\ IsMessage(m[i].line)

Parses(m, i) ==
  IF ~IsMessage(talk[i]) THEN m ELSE Append(m, [line |-> talk[i], at |-> i - 1])

LEMMA ParsesLine ==
  ASSUME talk \in Seq(Line), NEW m \in Seq(Heard), NEW i \in 1..Len(talk)
  PROVE  Parses(m, i) \in Seq(Heard) /\ (AreTheLines(m) => AreTheLines(Parses(m, i)))
<1> DEFINE new == [line |-> talk[i], at |-> i - 1]
<1>1. new \in Heard /\ i - 1 + 1 \in DOMAIN talk /\ new.line = talk[new.at + 1]
  BY DEF Heard
<1>2. Parses(m, i) = m \/ (IsMessage(new.line) /\ Parses(m, i) = Append(m, new))
  BY DEF Parses
<1>3. new.at + 1 \in DOMAIN talk
  OBVIOUS
<1> HIDE DEF new
<1>4. Parses(m, i) \in Seq(Heard)
  BY <1>1, <1>2
<1>5. ASSUME AreTheLines(m), IsMessage(new.line), NEW j \in DOMAIN Append(m, new)
      PROVE  LET l == Append(m, new)[j]
             IN l.at + 1 \in DOMAIN talk /\ l.line = talk[l.at + 1] /\ IsMessage(l.line)
  <2>1. CASE j \in DOMAIN m
    <3>1. Append(m, new)[j] = m[j]
      BY <2>1
    <3> QED
      BY <1>5, <2>1, <3>1 DEF AreTheLines
  <2>2. CASE j \notin DOMAIN m
    <3>1. Append(m, new)[j] = new
      BY <1>5, <2>2
    <3> QED
      BY <1>1, <1>3, <1>5, <3>1
  <2> QED
    BY <2>1, <2>2
<1>6. AreTheLines(m) /\ IsMessage(new.line) => AreTheLines(Append(m, new))
  BY <1>5 DEF AreTheLines
<1> QED
  BY <1>2, <1>4, <1>6

LEMMA MessagesAreTheLines ==
  ASSUME talk \in Seq(Line)
  PROVE  Parsed(talk) \in Seq(Heard) /\ AreTheLines(Parsed(talk))
<1> DEFINE N == Len(talk)
           step == [i \in 1..N |-> [m \in Seq(Heard) |-> Parses(m, i)]]
           Loop(f) == f = [i \in 0..N |->
                             IF i = 0 THEN <<>> ELSE IF ~IsMessage(talk[i]) THEN f[i - 1]
                             ELSE Append(f[i - 1], [line |-> talk[i], at |-> i - 1])]
           nothing == <<>>
<1>1. N \in Nat
  OBVIOUS
<1>2. nothing \in Seq(Heard)
  <2>1. PICK e \in Seq(Heard) : e = <<>>
    BY EmptySeq
  <2> QED
    BY <2>1
<1>3. step \in [1..N -> [Seq(Heard) -> Seq(Heard)]]
  BY ParsesLine
<1>4. PICK f : IsLoop(f, N, Seq(Heard), nothing, step)
  <2> HIDE DEF step, N, nothing
  <2> QED
    BY <1>1, <1>2, <1>3, LoopHasValues
<1>5. ASSUME NEW i \in 0..N, i # 0 PROVE f[i] = Parses(f[i - 1], i)
  <2>1. i \in 1..N /\ i - 1 \in 0..N
    BY <1>1, <1>5
  <2>2. f[i - 1] \in Seq(Heard) /\ f[i] = step[i][f[i - 1]]
    BY <1>4, <2>1 DEF IsLoop
  <2> QED
    BY <2>1, <2>2
<1>6. Loop(f)
  <2>1. f = [i \in 0..N |-> f[i]] /\ f[0] = <<>>
    BY <1>4 DEF IsLoop
  <2> QED
    BY <1>5, <2>1 DEF Parses
<1>7. Loop(MessagesUpTo)
  BY <1>6 DEF MessagesUpTo
<1>8. Parsed(talk) = MessagesUpTo[N]
  BY DEF Parsed, MessagesUpTo
<1> DEFINE S == {i \in 0..N : MessagesUpTo[i] \in Seq(Heard) /\ AreTheLines(MessagesUpTo[i])}
<1>9. 0 \in S
  <2>1. MessagesUpTo[0] = nothing /\ 0 \in 0..N
    BY <1>1, <1>7
  <2>2. AreTheLines(nothing)
    BY DEF AreTheLines
  <2> QED
    BY <1>2, <2>1, <2>2
<1>10. ASSUME NEW i \in 1..N, i - 1 \in S PROVE i \in S
  <2>1. i \in 0..N /\ i # 0
    BY <1>1
  <2>2. MessagesUpTo[i] = Parses(MessagesUpTo[i - 1], i)
    BY <1>7, <2>1 DEF Parses
  <2> QED
    BY <1>10, <2>1, <2>2, ParsesLine
<1>11. N \in S
  <2> HIDE DEF S
  <2>1. 0..N \subseteq S
    BY <1>1, <1>9, <1>10, UpToLast
  <2> QED
    BY <1>1, <2>1
<1> QED
  BY <1>8, <1>11

-----------------------------------------------------------------------------
(* The scan for moments. *)

Text == Said \cup {"", "answer"}
Moment == [marker : Text, at : Int]
Exchange == [before : Text, text : Text]
ScanSoFar == [candidates : Seq(Moment), windows : Seq(Exchange), tail : Seq(Text), before : Text]

LEMMA SilentScanned ==
  ASSUME NEW s, NEW l, l.named = "", NEW at
  PROVE  ScanLine(s, l, at) = s
BY DEF ScanLine

LEMMA AnswerScanned ==
  ASSUME NEW s \in ScanSoFar, NEW l \in Line, l.named = "assistant", NEW at, NEW r, r = ScanLine(s, l, at)
  PROVE  /\ r \in ScanSoFar /\ r.candidates = s.candidates /\ r.windows = s.windows /\ r.before = l.text
<1> DEFINE tail == IF Len(s.tail) < TailCount THEN Append(s.tail, l.text) ELSE Append(Tail(s.tail), l.text)
           s1 == [s EXCEPT !.before = l.text]
           s2 == [s1 EXCEPT !.tail = tail]
<1>1. r = s2
  BY DEF ScanLine, ScanSoFar
<1>2. s.tail \in Seq(Text) /\ l.text \in Text /\ TailCount \in Nat \ {0}
  BY LengthAssumption DEF ScanSoFar, Line, Text
<1>3. tail \in Seq(Text)
  <2>1. CASE Len(s.tail) < TailCount
    BY <1>2, <2>1
  <2>2. CASE ~(Len(s.tail) < TailCount)
    <3>1. s.tail # <<>>
      BY <1>2, <2>2
    <3>2. Tail(s.tail) \in Seq(Text)
      BY <1>2, <3>1
    <3> QED
      BY <1>2, <2>2, <3>2
  <2> QED
    BY <2>1, <2>2
<1> HIDE DEF tail
<1>4. s1 \in ScanSoFar /\ s1.candidates = s.candidates /\ s1.windows = s.windows /\ s1.before = l.text
  BY <1>2 DEF ScanSoFar
<1> HIDE DEF s1
<1> QED
  BY <1>1, <1>3, <1>4 DEF ScanSoFar

LEMMA TalkScanned ==
  ASSUME NEW s \in ScanSoFar, NEW l \in Line, l.named \notin {"", "assistant"},
         l.named # "user" \/ l.text \notin {"correction", "frustration"}, NEW at, NEW r, r = ScanLine(s, l, at)
  PROVE  /\ r \in ScanSoFar /\ r.candidates = s.candidates /\ r.windows = s.windows /\ r.before = ""
<1>1. r = [s EXCEPT !.before = ""]
  BY DEF ScanLine
<1> QED
  BY <1>1 DEF ScanSoFar, Text

LEMMA MomentScanned ==
  ASSUME NEW s \in ScanSoFar, NEW l \in Line, l.named = "user", l.text \in {"correction", "frustration"},
         NEW at \in Int, NEW r, r = ScanLine(s, l, at)
  PROVE  /\ r \in ScanSoFar /\ r.before = ""
         /\ r.candidates = Append(s.candidates, [marker |-> l.text, at |-> at])
         /\ \/ r.windows = s.windows /\ s.windows # <<>>
            \/ r.windows = Append(s.windows, Window(s.before, l.text))
<1> DEFINE w == Window(s.before, l.text)
           c == [marker |-> l.text, at |-> at]
           windows == IF Contains(s.windows, w) THEN s.windows ELSE Append(s.windows, w)
           candidates == Append(s.candidates, c)
           s1 == [s EXCEPT !.candidates = candidates]
           s2 == [s1 EXCEPT !.windows = windows]
           s3 == [s2 EXCEPT !.before = ""]
<1>1. r = s3
  BY DEF ScanLine, ScanSoFar
<1>2. s.windows \in Seq(Exchange) /\ s.candidates \in Seq(Moment)
  BY DEF ScanSoFar
<1>3. w \in Exchange /\ c \in Moment
  BY DEF Window, ScanSoFar, Line, Text, Exchange, Moment
<1> HIDE DEF w, c
<1>4. candidates \in Seq(Moment)
  BY <1>2, <1>3
<1>5. windows \in Seq(Exchange) /\ ((windows = s.windows /\ s.windows # <<>>) \/ windows = Append(s.windows, w))
  <2>1. CASE Contains(s.windows, w)
    <3>1. s.windows # <<>>
      BY <1>2, <2>1 DEF Contains
    <3> QED
      BY <1>2, <2>1, <3>1
  <2>2. CASE ~Contains(s.windows, w)
    BY <1>2, <1>3, <2>2
  <2> QED
    BY <2>1, <2>2
<1> HIDE DEF windows, candidates
<1>6. s1 \in ScanSoFar /\ s1.candidates = candidates
  BY <1>4 DEF ScanSoFar
<1> HIDE DEF s1
<1>7. s2 \in ScanSoFar /\ s2.candidates = candidates /\ s2.windows = windows
  BY <1>5, <1>6 DEF ScanSoFar
<1> HIDE DEF s2
<1>8. s3 \in ScanSoFar /\ s3.candidates = candidates /\ s3.windows = windows /\ s3.before = ""
  BY <1>7 DEF ScanSoFar, Text
<1> HIDE DEF s3
<1> QED
  BY <1>1, <1>5, <1>8 DEF candidates, w, c

LEMMA LineIsScanned ==
  ASSUME NEW s \in ScanSoFar, NEW l \in Line, NEW at \in Int
  PROVE  ScanLine(s, l, at) \in ScanSoFar
<1>1. l.named \in Role
  BY DEF Line
<1> QED
  BY <1>1, SilentScanned, AnswerScanned, TalkScanned, MomentScanned

(* The lines a scanner gets to see are the first ones, and all of them if  *)
(* none is too long.                                                       *)
LEMMA SeesTheFirst ==
  ASSUME talk \in Seq(Line)
  PROVE  /\ Len(Scannable(talk)) \in 0..Len(talk)
         /\ (\A i \in DOMAIN talk : talk[i].huge = FALSE) => Scannable(talk) = talk
<1> DEFINE huge == {i \in DOMAIN talk : talk[i].huge}
<1>1. (\A i \in DOMAIN talk : talk[i].huge = FALSE) => huge = {}
  BY Zenon
<1>2. CASE huge = {}
  BY <1>2 DEF Scannable
<1>3. CASE huge # {}
  <2> DEFINE first == CHOOSE i \in huge : \A j \in huge : i <= j
  <2>1. \E i \in huge : \A j \in huge : i <= j
    <3>1. huge \in SUBSET Nat
      OBVIOUS
    <3> HIDE DEF huge
    <3> QED
      BY <1>3, <3>1, HasLeast
  <2>2. first \in huge
    BY <2>1
  <2>3. first \in 1..Len(talk)
    BY <2>2
  <2>4. Scannable(talk) = SubSeq(talk, 1, first - 1)
    BY <1>3, Zenon DEF Scannable
  <2> HIDE DEF first
  <2>5. Len(SubSeq(talk, 1, first - 1)) = first - 1
    BY <2>3
  <2> QED
    BY <1>1, <1>3, <2>3, <2>4, <2>5
<1> QED
  BY <1>2, <1>3

ScanUpTo ==
  CHOOSE upTo : upTo = [i \in 0..Len(Scannable(talk)) |->
    IF i = 0 THEN NoScan ELSE ScanLine(upTo[i - 1], talk[i], i - 1)]

(* What an assistant said is what was said last up to line n.              *)
SaidLast(n, said) ==
  \E j \in 1..n : /\ talk[j].role = "assistant" /\ talk[j].text = said
                  /\ \A k \in j + 1..n : talk[k].named = "" /\ talk[k].role \notin {"user", "assistant"}

(* A window is a user's line, with what was said before it, up to line n.  *)
WasSaid(n, w) ==
  /\ w.text # ""
  /\ \E i \in 1..n : /\ talk[i].text = w.text /\ talk[i].role = "user"
                     /\ w.before # "" => SaidLast(i - 1, w.before)

(* What the scan has after n lines. *)
ScanIsOf(n, s) ==
  /\ \A i \in 1..n : talk[i].role = "user" /\ talk[i].text = "correction" =>
       \E c \in DOMAIN s.candidates : s.candidates[c] = [marker |-> "correction", at |-> i - 1]
  /\ s.candidates # <<>> => s.windows # <<>>
  /\ \A k \in DOMAIN s.windows : WasSaid(n, s.windows[k])
  /\ s.before # "" => SaidLast(n, s.before)

LEMMA ScanStarts == ScanIsOf(0, NoScan) /\ NoScan \in ScanSoFar
<1>1. /\ \E e \in Seq(Moment) : e = <<>>
      /\ \E e \in Seq(Exchange) : e = <<>>
      /\ \E e \in Seq(Text) : e = <<>>
  BY EmptySeq
<1>2. NoScan \in ScanSoFar
  BY <1>1 DEF NoScan, ScanSoFar, Text
<1>3. DOMAIN NoScan.windows = {} /\ NoScan.candidates = <<>> /\ NoScan.before = ""
  BY DEF NoScan
<1>4. 1..0 = {}
  OBVIOUS
<1>5. ScanIsOf(0, NoScan)
  BY <1>3, <1>4, Zenon DEF ScanIsOf
<1> QED
  BY <1>2, <1>5

LEMMA SaidStays ==
  ASSUME talk \in Seq(Line), NEW n \in 1..Len(talk), NEW said
  PROVE  /\ talk[n].named = "" /\ talk[n].role \notin {"user", "assistant"} /\ SaidLast(n - 1, said)
            => SaidLast(n, said)
         /\ talk[n].role = "assistant" /\ talk[n].text = said => SaidLast(n, said)
         /\ \A w : WasSaid(n - 1, w) => WasSaid(n, w)
<1>1. n \in Nat /\ n + 1 - 1 = n /\ 1..n = (1..n - 1) \cup {n} /\ n \in 1..n /\ n + 1..n = {}
  OBVIOUS
<1>3. ASSUME talk[n].named = "", talk[n].role \notin {"user", "assistant"}, SaidLast(n - 1, said)
      PROVE  SaidLast(n, said)
  <2>1. PICK j \in 1..n - 1 : /\ talk[j].role = "assistant" /\ talk[j].text = said
                              /\ \A k \in j + 1..n - 1 :
                                   talk[k].named = "" /\ talk[k].role \notin {"user", "assistant"}
    BY <1>3 DEF SaidLast
  <2>2. j \in 1..n /\ \A k \in j + 1..n : k = n \/ k \in j + 1..n - 1
    BY <1>1
  <2>3. \A k \in j + 1..n : talk[k].named = "" /\ talk[k].role \notin {"user", "assistant"}
    BY <1>3, <2>1, <2>2
  <2> QED
    BY <2>1, <2>2, <2>3 DEF SaidLast
<1>4. \A w : WasSaid(n - 1, w) => WasSaid(n, w)
  BY <1>1 DEF WasSaid
<1>5. talk[n].role = "assistant" /\ talk[n].text = said => SaidLast(n, said)
  BY <1>1 DEF SaidLast
<1> QED
  BY <1>3, <1>4, <1>5

LEMMA ScanFollows ==
  ASSUME talk \in Seq(Line), NamesAreTrue, NEW n \in 1..Len(talk), NEW s \in ScanSoFar, ScanIsOf(n - 1, s),
         NEW r, r = ScanLine(s, talk[n], n - 1)
  PROVE  ScanIsOf(n, r)
<1> DEFINE l == talk[n]
<1>1. l \in Line /\ n - 1 \in Int /\ n - 1 + 1 = n /\ 1..n = (1..n - 1) \cup {n} /\ n \in 1..n
  OBVIOUS
<1>2. l.named \in Role /\ l.text \in Text /\ NamedTruly(l)
  <2>1. NamedTruly(l)
    BY DEF NamesAreTrue
  <2> HIDE DEF l
  <2> QED
    BY <1>1, <2>1 DEF Line, Text
<1>3. \A w : WasSaid(n - 1, w) => WasSaid(n, w)
  BY SaidStays
<1>4. ASSUME r.candidates = s.candidates, r.windows = s.windows,
             l.role = "user" => l.text # "correction",
             r.before # "" => SaidLast(n, r.before)
      PROVE  ScanIsOf(n, r)
  BY <1>1, <1>3, <1>4 DEF ScanIsOf
<1>5. CASE l.named = ""
  <2>1. r = s
    BY <1>5, SilentScanned
  <2>2. l.role \notin {"user", "assistant"}
    BY <1>2, <1>5 DEF NamedTruly
  <2>3. r.before # "" => SaidLast(n, r.before)
    BY <1>1, <1>5, <2>1, <2>2, SaidStays DEF ScanIsOf
  <2> QED
    BY <1>4, <2>1, <2>2, <2>3
<1>6. CASE l.named = "assistant"
  <2>1. r.candidates = s.candidates /\ r.windows = s.windows /\ r.before = l.text
    BY <1>1, <1>6, AnswerScanned
  <2>2. l.role # "user" /\ (l.text # "" => l.role = "assistant")
    BY <1>2, <1>6 DEF NamedTruly
  <2>3. r.before # "" => SaidLast(n, r.before)
    BY <2>1, <2>2, SaidStays
  <2> QED
    BY <1>4, <2>1, <2>2, <2>3
<1>7. CASE l.named \notin {"", "assistant"} /\ (l.named # "user" \/ l.text \notin {"correction", "frustration"})
  <2>1. r.candidates = s.candidates /\ r.windows = s.windows /\ r.before = ""
    <3>1. r = ScanLine(s, l, n - 1) /\ l \in Line
      BY <1>1
    <3>2. l.named # "" /\ l.named # "assistant"
      BY <1>7
    <3>3. l.named # "user" \/ l.text \notin {"correction", "frustration"}
      BY <1>7
    <3> HIDE DEF l
    <3>4. r = [s EXCEPT !.before = ""]
      BY <3>1, <3>2, <3>3 DEF ScanLine
    <3> QED
      BY <3>4 DEF ScanSoFar
  <2>2. l.role = "user" => l.text # "correction"
    BY <1>2, <1>7 DEF NamedTruly
  <2> QED
    BY <1>4, <2>1, <2>2
<1>8. CASE l.named = "user" /\ l.text \in {"correction", "frustration"}
  <2> DEFINE w == Window(s.before, l.text)
             c == [marker |-> l.text, at |-> n - 1]
  <2>1. /\ r.before = "" /\ r.candidates = Append(s.candidates, c)
        /\ \/ r.windows = s.windows /\ s.windows # <<>>
           \/ r.windows = Append(s.windows, w)
    BY <1>1, <1>8, MomentScanned
  <2>2. s.windows \in Seq(Exchange) /\ s.candidates \in Seq(Moment)
    BY DEF ScanSoFar
  <2>3. WasSaid(n, w)
    <3>0. l.role = "user"
      BY <1>2, <1>8 DEF NamedTruly
    <3>1. s.before # "" => SaidLast(n - 1, s.before)
      BY <1>1 DEF ScanIsOf
    <3>2. w.text = l.text /\ w.before = s.before /\ l.text # ""
      BY <1>8 DEF Window
    <3> HIDE DEF w
    <3> QED
      BY <1>1, <3>0, <3>1, <3>2 DEF WasSaid
  <2>4. \A i \in 1..n : talk[i].role = "user" /\ talk[i].text = "correction" =>
          \E k \in DOMAIN r.candidates : r.candidates[k] = [marker |-> "correction", at |-> i - 1]
    <3> SUFFICES ASSUME NEW i \in 1..n, talk[i].role = "user", talk[i].text = "correction"
                 PROVE  \E k \in DOMAIN r.candidates : r.candidates[k] = [marker |-> "correction", at |-> i - 1]
      OBVIOUS
    <3> DEFINE m == [marker |-> "correction", at |-> i - 1]
    <3>1. CASE i \in 1..n - 1
      <4>1. PICK k \in DOMAIN s.candidates : s.candidates[k] = m
        BY <3>1 DEF ScanIsOf
      <4> HIDE DEF c, m
      <4>2. k \in DOMAIN Append(s.candidates, c) /\ Append(s.candidates, c)[k] = m
        BY <2>2, <4>1
      <4> QED
        BY <2>1, <4>2 DEF m
    <3>2. CASE i = n
      <4>1. m = c
        BY <3>2
      <4> HIDE DEF c, m
      <4> DEFINE k == Len(s.candidates) + 1
      <4>2. k \in DOMAIN Append(s.candidates, c) /\ Append(s.candidates, c)[k] = c
        BY <2>2
      <4> QED
        BY <2>1, <4>1, <4>2 DEF m
    <3> QED
      BY <1>1, <3>1, <3>2
  <2>5. r.windows # <<>> /\ \A k \in DOMAIN r.windows : WasSaid(n, r.windows[k])
    <3>1. \A k \in DOMAIN s.windows : WasSaid(n, s.windows[k])
      BY <1>3 DEF ScanIsOf
    <3> HIDE DEF w, l
    <3>2. CASE r.windows = s.windows /\ s.windows # <<>>
      BY <3>1, <3>2
    <3>3. CASE r.windows = Append(s.windows, w)
      <4>1. ASSUME NEW k \in DOMAIN Append(s.windows, w) PROVE WasSaid(n, Append(s.windows, w)[k])
        <5>1. CASE k \in DOMAIN s.windows
          <6>1. Append(s.windows, w)[k] = s.windows[k]
            BY <2>2, <5>1
          <6> QED
            BY <3>1, <5>1, <6>1
        <5>2. CASE k \notin DOMAIN s.windows
          <6>1. Append(s.windows, w)[k] = w
            BY <2>2, <4>1, <5>2
          <6> QED
            BY <2>3, <6>1
        <5> QED
          BY <5>1, <5>2
      <4>2. Len(Append(s.windows, w)) # 0
        BY <2>2
      <4> QED
        BY <3>3, <4>1, <4>2
    <3> QED
      BY <2>1, <3>2, <3>3
  <2> QED
    BY <2>1, <2>4, <2>5 DEF ScanIsOf
<1> QED
  BY <1>5, <1>6, <1>7, <1>8

LEMMA ScanIsTrue ==
  ASSUME talk \in Seq(Line), NamesAreTrue
  PROVE  Scan(talk) \in ScanSoFar /\ ScanIsOf(Len(Scannable(talk)), Scan(talk))
<1> DEFINE N == Len(Scannable(talk))
           step == [i \in 1..N |-> [s \in ScanSoFar |-> ScanLine(s, talk[i], i - 1)]]
           Loop(f) == f = [i \in 0..N |-> IF i = 0 THEN NoScan ELSE ScanLine(f[i - 1], talk[i], i - 1)]
           S == {i \in 0..N : ScanUpTo[i] \in ScanSoFar /\ ScanIsOf(i, ScanUpTo[i])}
<1>1. N \in Nat /\ N <= Len(talk) /\ \A i \in 1..N : i \in 1..Len(talk) /\ talk[i] \in Line /\ i - 1 \in Int
  <2>1. N \in 0..Len(talk)
    BY SeesTheFirst
  <2> HIDE DEF N
  <2> QED
    BY <2>1
<1> HIDE DEF N
<1>2. step \in [1..N -> [ScanSoFar -> ScanSoFar]]
  BY <1>1, LineIsScanned
<1>3. PICK f : IsLoop(f, N, ScanSoFar, NoScan, step)
  <2> HIDE DEF step
  <2> QED
    BY <1>1, <1>2, ScanStarts, LoopHasValues
<1>4. ASSUME NEW i \in 0..N, i # 0 PROVE f[i] = ScanLine(f[i - 1], talk[i], i - 1)
  <2>1. i \in 1..N /\ i - 1 \in 0..N
    BY <1>1, <1>4
  <2>2. f[i - 1] \in ScanSoFar /\ f[i] = step[i][f[i - 1]]
    BY <1>3, <2>1 DEF IsLoop
  <2> QED
    BY <2>1, <2>2
<1>5. Loop(f)
  <2>1. f = [i \in 0..N |-> f[i]] /\ f[0] = NoScan
    BY <1>3 DEF IsLoop
  <2> QED
    BY <1>4, <2>1
<1>6. Loop(ScanUpTo)
  BY <1>5 DEF ScanUpTo, N
<1>7. Scan(talk) = ScanUpTo[N]
  BY DEF Scan, ScanUpTo, N
<1>8. 0 \in S
  <2>1. ScanUpTo[0] = NoScan /\ 0 \in 0..N
    BY <1>1, <1>6
  <2> QED
    BY <2>1, ScanStarts
<1>9. ASSUME NEW i \in 1..N, i - 1 \in S PROVE i \in S
  <2>1. i \in 0..N /\ i # 0 /\ i \in 1..Len(talk)
    BY <1>1
  <2>2. ScanUpTo[i] = ScanLine(ScanUpTo[i - 1], talk[i], i - 1)
    BY <1>6, <2>1
  <2>3. ScanUpTo[i] \in ScanSoFar
    BY <1>1, <1>9, <2>2, LineIsScanned
  <2>4. ScanIsOf(i, ScanUpTo[i])
    BY <1>9, <2>1, <2>2, ScanFollows
  <2> QED
    BY <2>1, <2>3, <2>4
<1>10. N \in S
  <2> HIDE DEF S
  <2>1. 0..N \subseteq S
    BY <1>1, <1>8, <1>9, UpToLast
  <2> QED
    BY <1>1, <2>1
<1> QED
  BY <1>7, <1>10 DEF N

-----------------------------------------------------------------------------
(* No line is too long for a scanner. *)
NoneIsHuge == \A i \in DOMAIN talk : talk[i].huge = FALSE

LEMMA HugeFreeStep == ~HugeLines /\ TalkInv /\ NoneIsHuge /\ [TalkNext]_talk => NoneIsHuge'
<1> SUFFICES ASSUME ~HugeLines, TalkInv, NoneIsHuge, [TalkNext]_talk PROVE NoneIsHuge'
  OBVIOUS
<1>1. ASSUME NEW l \in Line, Says(l), l.huge => HugeLines PROVE NoneIsHuge'
  <2>1. PICK m \in Line : talk' = Append(talk, m) /\ m.huge = l.huge
    BY <1>1, LineSaid
  <2>2. m.huge \in BOOLEAN /\ talk \in Seq(Line)
    BY DEF Line, TalkInv
  <2>3. m.huge = FALSE
    BY <1>1, <2>1, <2>2, Zenon
  <2>4. ASSUME NEW i \in DOMAIN talk' PROVE talk'[i].huge = FALSE
    <3>1. (i \in DOMAIN talk /\ talk'[i] = talk[i]) \/ talk'[i] = m
      BY <2>1, <2>2
    <3> QED
      BY <2>3, <3>1 DEF NoneIsHuge
  <2> QED
    BY <2>4 DEF NoneIsHuge
<1>2. CASE UNCHANGED talk
  BY <1>2 DEF NoneIsHuge
<1> QED
  BY <1>1, <1>2, SaysLine

LEMMA CorrectionsAreFound ==
  ASSUME talk \in Seq(Line), NamesAreTrue, NoneIsHuge
  PROVE  CorrectionsAreCandidates
<1> DEFINE found == Scan(talk).candidates
           ms == Parsed(talk)
<1>1. found \in Seq(Moment) /\ ms \in Seq(Heard) /\ AreTheLines(ms) /\ Scannable(talk) = talk
  BY ScanIsTrue, MessagesAreTheLines, SeesTheFirst DEF ScanSoFar, NoneIsHuge
<1>2. ScanIsOf(Len(talk), Scan(talk))
  BY <1>1, ScanIsTrue
<1>3. ASSUME NEW i \in UserCorrection(talk)
      PROVE  [marker |-> "correction", at |-> ms[i].at] \in ToSet(found)
  <2>1. i \in DOMAIN ms /\ ms[i].line.role = "user" /\ ms[i].line.text = "correction"
    BY <1>3 DEF UserCorrection, MessagesOf, Msg
  <2> DEFINE at == ms[i].at
  <2>2. at \in Int /\ at + 1 \in DOMAIN talk /\ ms[i].line = talk[at + 1]
    <3>1. ms[i] \in Heard
      BY <1>1, <2>1
    <3> QED
      BY <1>1, <2>1, <3>1 DEF AreTheLines, Heard
  <2>3. talk[at + 1].role = "user" /\ talk[at + 1].text = "correction"
    BY <2>1, <2>2
  <2> HIDE DEF at
  <2>4. at + 1 \in 1..Len(talk)
    BY <2>2
  <2> DEFINE line == at + 1
  <2>5. at \in Int
    BY <2>2
  <2>6. line - 1 = at
    BY <2>5
  <2>7. \E c \in DOMAIN found : found[c] = [marker |-> "correction", at |-> line - 1]
    <3>1. line \in 1..Len(talk) /\ talk[line].role = "user" /\ talk[line].text = "correction"
      BY <2>3, <2>4
    <3> HIDE DEF line
    <3> QED
      BY <1>2, <3>1 DEF ScanIsOf
  <2>8. \E c \in DOMAIN found : found[c] = [marker |-> "correction", at |-> at]
    <3> HIDE DEF line
    <3> QED
      BY <2>7, <2>6, Zenon
  <2>9. [marker |-> "correction", at |-> at] \in ToSet(found)
    <3> HIDE DEF found
    <3> QED
      BY <2>8, Zenon DEF ToSet
  <2> QED
    BY <2>9 DEF at
<1> QED
  BY <1>3 DEF CorrectionsAreCandidates

LEMMA WritesAreCounted ==
  ASSUME talk \in Seq(Line), NoneIsHuge, NEW i, NEW tool \in {"remember", "index_text"},
         AssistantHasTool(talk, i, tool)
  PROVE  CountHeimdallWrites(talk) >= 1
<1> DEFINE writes == {j \in DOMAIN talk : IsMessage(talk[j]) /\ talk[j].tools \cap {"remember", "index_text"} # {}}
           ms == Parsed(talk)
<1>1. Scannable(talk) = talk
  BY SeesTheFirst DEF NoneIsHuge
<1>2. i \in DOMAIN ms /\ tool \in ms[i].line.tools
  BY DEF AssistantHasTool, MessagesOf, Msg
<1>3. AreTheLines(ms)
  BY MessagesAreTheLines
<1>4. ms[i].at + 1 \in writes
  <2>1. ms[i].at + 1 \in DOMAIN talk /\ ms[i].line = talk[ms[i].at + 1] /\ IsMessage(ms[i].line)
    BY <1>2, <1>3 DEF AreTheLines
  <2> HIDE DEF ms
  <2> QED
    BY <1>2, <2>1
<1>5. PICK n \in Nat : n = Len(talk)
  OBVIOUS
<1>6. writes \subseteq 1..n
  BY <1>5
<1>7. CountHeimdallWrites(talk) = Cardinality(writes)
  BY <1>1 DEF CountHeimdallWrites
<1> HIDE DEF writes, ms
<1>8. IsFiniteSet(writes) /\ Cardinality(writes) \in Nat
  BY <1>6, FiniteUpTo
<1>9. Cardinality(writes) # 0
  BY <1>4, <1>8, FS_EmptySet
<1> QED
  BY <1>7, <1>8, <1>9

LEMMA FollowersAreNotReproached ==
  ASSUME talk \in Seq(Line), NoneIsHuge
  PROVE  FollowersAreWriters
<1> SUFFICES ASSUME NEW f \in Firings(talk), f.ok, f.rule \in {"remember", "index_text"},
                    Misses(talk) = {}, Len(Scan(talk).candidates) <= FewMoments
             PROVE  ~WritesReview(talk)
  BY DEF FollowersAreWriters
<1>1. \E i : AssistantHasTool(talk, i, "remember") \/ AssistantHasTool(talk, i, "index_text")
  <2>1. ASSUME NEW i, f = [rule |-> "search", at |-> i, ok |-> SearchFollows(talk, i)] PROVE FALSE
    BY <2>1
  <2>2. ASSUME NEW i, f = [rule |-> "recall", at |-> i, ok |-> RecallFollows(talk, i)] PROVE FALSE
    BY <2>2
  <2>3. ASSUME NEW i, f = [rule |-> "remember", at |-> i, ok |-> RememberFollows(talk, i)]
        PROVE  RememberFollows(talk, i)
    BY <2>3, Zenon
  <2>4. ASSUME NEW i, f = [rule |-> "index_text", at |-> i, ok |-> IndexTextFollows(talk, i)]
        PROVE  IndexTextFollows(talk, i)
    BY <2>4, Zenon
  <2>5. \E i : \/ f = [rule |-> "search", at |-> i, ok |-> SearchFollows(talk, i)]
               \/ f = [rule |-> "recall", at |-> i, ok |-> RecallFollows(talk, i)]
               \/ f = [rule |-> "remember", at |-> i, ok |-> RememberFollows(talk, i)]
               \/ f = [rule |-> "index_text", at |-> i, ok |-> IndexTextFollows(talk, i)]
    BY Zenon DEF Firings
  <2>6. \E i : RememberFollows(talk, i) \/ IndexTextFollows(talk, i)
    BY <2>1, <2>2, <2>3, <2>4, <2>5, Zenon
  <2> QED
    BY <2>6 DEF RememberFollows, IndexTextFollows
<1>2. CountHeimdallWrites(talk) >= 1
  BY <1>1, WritesAreCounted
<1> QED
  BY <1>2 DEF WritesReview

LEMMA WindowsWereSaid ==
  ASSUME talk \in Seq(Line), NamesAreTrue
  PROVE  WindowsAreExchanges
<1> DEFINE s == Scan(talk)
           N == Len(Scannable(talk))
<1>1. s \in ScanSoFar /\ ScanIsOf(N, s) /\ N \in 0..Len(talk)
  BY ScanIsTrue, SeesTheFirst
<1>2. s.windows \in Seq(Exchange) /\ s.candidates \in Seq(Moment)
  BY <1>1 DEF ScanSoFar
<1> HIDE DEF s, N
<1> SUFFICES ASSUME NEW w \in ToSet(Summary(talk))
             PROVE  IF w.text = "" THEN s.candidates = <<>>
                    ELSE \E i \in DOMAIN talk :
                      /\ talk[i].text = w.text /\ talk[i].role = "user"
                      /\ w.before # "" =>
                           \E j \in 1..i - 1 : /\ talk[j].role = "assistant" /\ talk[j].text = w.before
                                               /\ \A k \in j + 1..i - 1 :
                                                    talk[k].named = "" /\ talk[k].role \notin {"user", "assistant"}
  BY DEF WindowsAreExchanges, s
<1>3. CASE s.windows # <<>>
  <2>1. Summary(talk) = s.windows
    BY <1>3, Zenon DEF Summary, s
  <2>2. \E k \in DOMAIN s.windows : w = s.windows[k]
    BY <2>1 DEF ToSet
  <2>3. WasSaid(N, w)
    BY <1>1, <2>2 DEF ScanIsOf
  <2>4. \A i \in 1..N : i \in DOMAIN talk
    BY <1>1
  <2> QED
    BY <2>3, <2>4 DEF WasSaid, SaidLast
<1>4. CASE s.windows = <<>>
  <2> DEFINE answers == SelectSeq(s.tail, LAMBDA t : t # "")
  <2>1. Summary(talk) = [i \in DOMAIN answers |-> Window("answer", "")]
    BY <1>4, Zenon DEF Summary, s
  <2> HIDE DEF answers
  <2>2. \E i \in DOMAIN answers : w = Window("answer", "")
    BY <2>1 DEF ToSet
  <2>3. w.text = ""
    <3>1. w = [before |-> "answer", text |-> ""]
      BY <2>2, Zenon DEF Window
    <3> QED
      BY <3>1
  <2>4. s.candidates = <<>>
    BY <1>1, <1>4 DEF ScanIsOf
  <2> QED
    BY <2>3, <2>4
<1> QED
  BY <1>3, <1>4

(* The readers of one transcript agree, whatever is said in it, if no line *)
(* is longer than what a scanner of the Stop hook takes, and the messages  *)
(* of the two who talk name their role: a correction that the compliance   *)
(* checks count is a candidate moment at the same line, a session that     *)
(* followed a rule by writing is not reproached for not writing, and the   *)
(* windows show what was said (hook_stop.go, missed_calls.go).             *)
THEOREM ReadersDoAgree == ~HugeLines /\ Nameless \subseteq {"system"} /\ TalkSpec => []ReadersAgree
<1> SUFFICES ASSUME ~HugeLines, Nameless \subseteq {"system"} PROVE TalkSpec => []ReadersAgree
  OBVIOUS
<1>1. TalkInit => NoneIsHuge /\ NamesAreTrue
  BY DEF TalkInit, NoneIsHuge, NamesAreTrue
<1>2. TalkInv /\ NamesAreTrue /\ NoneIsHuge => ReadersAgree
  BY CorrectionsAreFound, FollowersAreNotReproached, WindowsWereSaid DEF TalkInv, ReadersAgree
<1>3. /\ TalkInv /\ NoneIsHuge /\ [TalkNext]_talk => NoneIsHuge'
      /\ TalkInv /\ NamesAreTrue /\ [TalkNext]_talk => NamesAreTrue'
  BY HugeFreeStep, NamesStayTrue
<1> QED
  BY <1>1, <1>2, <1>3, TalkStart, TalkStep, PTL DEF TalkSpec

(* However long the lines: a window of the summary is a line of the user's *)
(* with the message of the assistant's right before it, and the assistant  *)
(* is shown alone only if there was no moment (extractTranscriptSummary).  *)
THEOREM WindowsAreSaid == Nameless \subseteq {"system"} /\ TalkSpec => []WindowsAreExchanges
<1> SUFFICES ASSUME Nameless \subseteq {"system"} PROVE TalkSpec => []WindowsAreExchanges
  OBVIOUS
<1>1. TalkInit => NamesAreTrue
  BY DEF TalkInit, NamesAreTrue
<1>2. TalkInv /\ NamesAreTrue => WindowsAreExchanges
  BY WindowsWereSaid DEF TalkInv
<1>3. TalkInv /\ NamesAreTrue /\ [TalkNext]_talk => NamesAreTrue'
  BY NamesStayTrue
<1> QED
  BY <1>1, <1>2, <1>3, TalkStart, TalkStep, PTL DEF TalkSpec

-----------------------------------------------------------------------------
LEMMA PromptsAreCounted == ASSUME DriftTypeOK PROVE Prompts \in 0..Len(entries)
<1> DEFINE S == {i \in DOMAIN entries : entries[i].prompt # 0}
<1>1. DOMAIN entries = 1..Len(entries) /\ Len(entries) \in Nat
  BY DEF DriftTypeOK
<1>2. IsFiniteSet(1..Len(entries)) /\ Cardinality(1..Len(entries)) = Len(entries)
  <2>1. PICK k \in Nat : k = Len(entries)
    BY <1>1
  <2>2. IsFiniteSet(1..k) /\ Cardinality(1..k) = IF 1 <= k THEN k - 1 + 1 ELSE 0
    BY FS_Interval
  <2>3. (IF 1 <= k THEN k - 1 + 1 ELSE 0) = k
    OBVIOUS
  <2> QED
    BY <2>1, <2>2, <2>3
<1>3. S \subseteq 1..Len(entries)
  BY <1>1
<1>4. IsFiniteSet(S) /\ Cardinality(S) <= Cardinality(1..Len(entries))
  BY <1>2, <1>3, FS_Subset
<1>5. Cardinality(S) \in Nat
  BY <1>4, FS_CardinalityType
<1> QED
  BY <1>1, <1>2, <1>4, <1>5 DEF Prompts

LEMMA EntriesAreTyped ==
  /\ Blank \in Entry /\ Injected \in Entry
  /\ \A n \in 0..MaxEntries : Asked(n) \in Entry
  /\ \A tool \in {"none", "search", "recall"}, near \in BOOLEAN :
       [Blank EXCEPT !.kind = "assistant", !.tool = tool, !.near = near] \in Entry
<1>1. Blank \in Entry
  BY EntriesAssumption DEF Blank, Entry
<1>2. Injected \in Entry
  BY <1>1 DEF Injected, Entry
<1>3. ASSUME NEW n \in 0..MaxEntries PROVE Asked(n) \in Entry
  <2> DEFINE l1 == [Blank EXCEPT !.kind = "user"]
             l2 == [l1 EXCEPT !.prompt = n]
  <2>1. l1 \in Entry
    BY <1>1 DEF Entry
  <2> HIDE DEF l1
  <2>2. l2 \in Entry
    BY <2>1 DEF Entry
  <2> QED
    BY <2>2 DEF Asked, l1
<1>4. ASSUME NEW tool \in {"none", "search", "recall"}, NEW near \in BOOLEAN
      PROVE  [Blank EXCEPT !.kind = "assistant", !.tool = tool, !.near = near] \in Entry
  <2> DEFINE l1 == [Blank EXCEPT !.kind = "assistant"]
             l2 == [l1 EXCEPT !.tool = tool]
             l3 == [l2 EXCEPT !.near = near]
  <2>1. l1 \in Entry
    BY <1>1 DEF Entry
  <2> HIDE DEF l1
  <2>2. l2 \in Entry
    BY <2>1 DEF Entry
  <2> HIDE DEF l2
  <2>3. l3 \in Entry
    BY <2>2 DEF Entry
  <2> QED
    BY <2>3 DEF l1, l2
<1> QED
  BY <1>1, <1>2, <1>3, <1>4

LEMMA StagesAreTyped ==
  ASSUME Prompts \in 1..MaxEntries
  PROVE  /\ \A s \in {"skip", "error", "nag_eval", "cache_hit", "ok"} : Logged(s) \in Stage
         /\ \A h \in BOOLEAN, v \in {"near", "far"} : [Logged("ok") EXCEPT !.hits = h, !.vector = v] \in Stage
<1>1. \A s \in {"skip", "error", "nag_eval", "cache_hit", "ok"} : Logged(s) \in Stage
  BY DEF Logged, Stage
<1>2. ASSUME NEW h \in BOOLEAN, NEW v \in {"near", "far"}
      PROVE  [Logged("ok") EXCEPT !.hits = h, !.vector = v] \in Stage
  <2> DEFINE l1 == [Logged("ok") EXCEPT !.hits = h]
             l2 == [l1 EXCEPT !.vector = v]
  <2>1. l1 \in Stage
    BY <1>1 DEF Stage
  <2> HIDE DEF l1
  <2>2. l2 \in Stage
    BY <2>1 DEF Stage
  <2> QED
    BY <2>2 DEF l1
<1> QED
  BY <1>1, <1>2

LEMMA DriftStart == DriftInit => DriftTypeOK
BY EmptySeq, EntriesAssumption DEF DriftInit, DriftTypeOK, NoHook, HookState

(* What a hook is doing. *)
LEMMA HookIsTyped ==
  ASSUME hook \in HookState, NEW a \in {"none", "look", "nag", "log", "said", "mute"}
  PROVE  /\ NoHook \in HookState /\ NoHook.at = "none"
         /\ [NoHook EXCEPT !.at = "look"] \in HookState /\ [NoHook EXCEPT !.at = "look"].at = "look"
         /\ [hook EXCEPT !.at = a] \in HookState /\ [hook EXCEPT !.at = a].at = a
         /\ \A w \in {"cache_hit", "ok"} :
              /\ [hook EXCEPT !.at = a, !.way = w] \in HookState
              /\ [hook EXCEPT !.at = a, !.way = w].at = a
         /\ hook.slips < MaxSlips =>
              /\ [hook EXCEPT !.slips = @ + 1] \in HookState
              /\ [hook EXCEPT !.slips = @ + 1].at = hook.at
<1>1. NoHook = [at |-> "none", way |-> "ok", slips |-> 0] /\ 0 \in 0..MaxSlips
  BY EntriesAssumption DEF NoHook
<1>2. [NoHook EXCEPT !.at = "look"] = [at |-> "look", way |-> "ok", slips |-> 0]
  BY DEF NoHook
<1> DEFINE h1 == [hook EXCEPT !.at = a]
<1>3. h1 \in HookState /\ h1.at = a
  BY DEF HookState
<1> HIDE DEF h1
<1>4. ASSUME NEW w \in {"cache_hit", "ok"}
      PROVE  [hook EXCEPT !.at = a, !.way = w] \in HookState /\ [hook EXCEPT !.at = a, !.way = w].at = a
  <2> DEFINE h2 == [h1 EXCEPT !.way = w]
  <2>1. h2 \in HookState /\ h2.at = a
    BY <1>3 DEF HookState
  <2> QED
    BY <2>1 DEF h1
<1>5. ASSUME hook.slips < MaxSlips
      PROVE  [hook EXCEPT !.slips = @ + 1] \in HookState /\ [hook EXCEPT !.slips = @ + 1].at = hook.at
  <2>1. hook.slips + 1 \in 0..MaxSlips
    BY <1>5, EntriesAssumption DEF HookState
  <2> QED
    BY <2>1 DEF HookState
<1> QED
  BY <1>1, <1>2, <1>3, <1>4, <1>5 DEF HookState, h1

(* The transcript grows by one line at most, which is a prompt only when   *)
(* the user asks.                                                          *)
LEMMA TranscriptGrows ==
  ASSUME DriftTypeOK, [DriftNext]_driftVars
  PROVE  \/ entries' = entries
         \/ \E e \in Entry :
              /\ Len(entries) < MaxEntries /\ entries' = Append(entries, e)
              /\ e.tool # "none" => e.kind = "assistant"
              /\ \/ Asks /\ e.prompt = Prompts + 1
                 \/ e.prompt = 0
<1>0. Len(entries) \in Nat /\ Prompts \in 0..Len(entries) /\ MaxEntries \in Nat
  BY PromptsAreCounted, EntriesAssumption DEF DriftTypeOK
<1>a. /\ Blank.tool = "none" /\ Blank.prompt = 0 /\ Injected.tool = "none" /\ Injected.prompt = 0
      /\ \A k : Asked(k).tool = "none" /\ Asked(k).prompt = k
  BY DEF Blank, Injected, Asked
<1>1. CASE Asks
  <2>1. Len(entries) < MaxEntries /\ entries' = Append(entries, Asked(Prompts + 1)) /\ Prompts + 1 \in 0..MaxEntries
    BY <1>0, <1>1 DEF Asks
  <2> QED
    BY <1>1, <1>a, <2>1, EntriesAreTyped
<1>2. CASE Exits
  <2>1. entries' = entries \/ (Len(entries) < MaxEntries /\ entries' = Append(entries, Injected))
    BY <1>2 DEF Exits
  <2> QED
    BY <1>a, <2>1, EntriesAreTyped
<1>3. CASE Replies
  <2>1. PICK tool \in {"none", "search", "recall"}, near \in BOOLEAN :
          entries' = Append(entries, [Blank EXCEPT !.kind = "assistant", !.tool = tool, !.near = near])
    BY <1>3 DEF Replies
  <2> DEFINE e == [Blank EXCEPT !.kind = "assistant", !.tool = tool, !.near = near]
  <2>2. e \in Entry
    BY EntriesAreTyped
  <2>3. e.prompt = 0 /\ e.kind = "assistant"
    BY DEF Blank
  <2>4. Len(entries) < MaxEntries
    BY <1>3 DEF Replies
  <2> HIDE DEF e
  <2> QED
    BY <2>1, <2>2, <2>3, <2>4 DEF e
<1>4. CASE ToolReturns
  <2>1. Len(entries) < MaxEntries /\ entries' = Append(entries, Asked(0))
    BY <1>4 DEF ToolReturns
  <2>2. Asked(0) \in Entry
    <3>1. 0 \in 0..MaxEntries
      BY <1>0
    <3> QED
      BY <3>1, EntriesAreTyped
  <2> QED
    BY <1>a, <2>1, <2>2
<1>5. CASE Garbles
  BY <1>a, <1>5, EntriesAreTyped DEF Garbles
<1>6. CASE Stops \/ Slips \/ Answers \/ EvaluatesNag \/ LogsAnswer \/ Killed \/ Rotated \/ UNCHANGED driftVars
  <2>1. entries' = entries
    BY <1>6 DEF Stops, Slips, Answers, EvaluatesNag, LogsAnswer, Killed, Rotated, driftVars
  <2> QED
    BY <2>1
<1> QED
  BY <1>1, <1>2, <1>3, <1>4, <1>5, <1>6 DEF DriftNext

(* How the log and the hook may move.  Told is what a hook that has come   *)
(* to at makes of itself when it writes l.                                 *)
Told(at, to, l) ==
  \/ l.stage \in {"skip", "error"} /\ at = "look" /\ to \in {"look", "said", "mute"}
  \/ l.stage = "nag_eval" /\ at = "nag" /\ to = "log"
  \/ l.stage \in {"cache_hit", "ok"} /\ at = "log" /\ to = "said"

LEMMA LogMoves ==
  ASSUME DriftTypeOK, [DriftNext]_driftVars
  PROVE  /\ hook' \in HookState
         /\ \/ hook.at = "none" /\ hook'.at = "look" /\ Asks /\ UNCHANGED <<stages, intact>>
            \/ /\ hook'.at = hook.at \/ hook'.at = "none" \/ (hook.at = "look" /\ hook'.at = "nag")
               /\ hook.at = "log" => hook'.at = "log" \/ ~intact'
               /\ stages' = stages \/ (stages' = <<>> /\ ~intact')
               /\ intact' = intact \/ ~intact'
            \/ \E l \in Stage :
                 /\ l.prompt = Prompts /\ Told(hook.at, hook'.at, l)
                 /\ \/ stages' = Append(stages, l) /\ intact' = intact
                    \/ stages' = stages /\ ~intact'
<1>0. /\ hook \in HookState /\ Len(entries) \in Nat /\ Prompts \in 0..Len(entries) /\ Len(entries) <= MaxEntries
      /\ MaxEntries \in Nat /\ intact \in BOOLEAN
  BY PromptsAreCounted, EntriesAssumption DEF DriftTypeOK
<1>a. hook.at # "none" => Prompts \in 1..MaxEntries
  BY <1>0 DEF DriftTypeOK
<1>b. \A s : Logged(s).stage = s /\ Logged(s).prompt = Prompts
  BY DEF Logged
<1>c. ASSUME NEW l, Logs(l)
      PROVE  (stages' = Append(stages, l) /\ intact' = intact) \/ (stages' = stages /\ ~intact')
  BY <1>c, Zenon DEF Logs
<1>1. CASE Asks
  BY <1>0, <1>1, HookIsTyped DEF Asks
<1>2. CASE Stops
  <2>1. PICK s \in {"skip", "error"}, end \in {"said", "mute"} :
          hook.at = "look" /\ Logs(Logged(s)) /\ hook' = [hook EXCEPT !.at = end]
    BY <1>2 DEF Stops
  <2>2. hook' \in HookState /\ hook'.at = end
    BY <1>0, <2>1, HookIsTyped
  <2>3. Logged(s) \in Stage /\ Told(hook.at, hook'.at, Logged(s))
    BY <1>a, <1>b, <2>1, <2>2, StagesAreTyped DEF Told
  <2> QED
    BY <1>b, <1>c, <2>1, <2>2, <2>3
<1>3. CASE Slips
  <2>1. hook.at = "look" /\ Logs(Logged("error")) /\ hook' = [hook EXCEPT !.slips = @ + 1] /\ hook.slips < MaxSlips
    BY <1>3 DEF Slips
  <2>2. hook' \in HookState /\ hook'.at = "look"
    BY <1>0, <2>1, HookIsTyped
  <2>3. Logged("error") \in Stage /\ Told(hook.at, hook'.at, Logged("error"))
    BY <1>a, <1>b, <2>1, <2>2, StagesAreTyped DEF Told
  <2> QED
    BY <1>b, <1>c, <2>1, <2>2, <2>3
<1>4. CASE Answers
  <2>1. PICK w \in {"cache_hit", "ok"} : hook.at = "look" /\ hook' = [hook EXCEPT !.at = "nag", !.way = w]
    BY <1>4 DEF Answers
  <2>2. hook' \in HookState /\ hook'.at = "nag"
    BY <1>0, <2>1, HookIsTyped
  <2> QED
    BY <1>4, <2>1, <2>2 DEF Answers
<1>5. CASE EvaluatesNag
  <2>1. hook.at = "nag" /\ Logs(Logged("nag_eval")) /\ hook' = [hook EXCEPT !.at = "log"]
    BY <1>5 DEF EvaluatesNag
  <2>2. hook' \in HookState /\ hook'.at = "log"
    BY <1>0, <2>1, HookIsTyped
  <2>3. Logged("nag_eval") \in Stage /\ Told(hook.at, hook'.at, Logged("nag_eval"))
    BY <1>a, <1>b, <2>1, <2>2, StagesAreTyped DEF Told
  <2> QED
    BY <1>b, <1>c, <2>1, <2>2, <2>3
<1>6. CASE LogsAnswer
  <2>1. hook.at = "log" /\ hook' = [hook EXCEPT !.at = "said"]
    BY <1>6 DEF LogsAnswer
  <2>2. hook' \in HookState /\ hook'.at = "said"
    BY <1>0, <2>1, HookIsTyped
  <2>3. ASSUME NEW h \in BOOLEAN, NEW v \in {"near", "far"}
        PROVE  /\ [Logged("ok") EXCEPT !.hits = h, !.vector = v] \in Stage
               /\ [Logged("ok") EXCEPT !.hits = h, !.vector = v].stage = "ok"
               /\ [Logged("ok") EXCEPT !.hits = h, !.vector = v].prompt = Prompts
    <3>1. [Logged("ok") EXCEPT !.hits = h, !.vector = v] \in Stage
      BY <1>a, <2>1, StagesAreTyped
    <3> QED
      BY <3>1 DEF Logged
  <2>4. \E l \in Stage : l.stage \in {"cache_hit", "ok"} /\ l.prompt = Prompts /\ Logs(l)
    <3>1. CASE Logs(Logged("cache_hit"))
      BY <1>a, <1>b, <2>1, <3>1, StagesAreTyped
    <3>2. ASSUME NEW h \in BOOLEAN, NEW v \in {"near", "far"},
                 Logs([Logged("ok") EXCEPT !.hits = h, !.vector = v])
          PROVE  \E l \in Stage : l.stage \in {"cache_hit", "ok"} /\ l.prompt = Prompts /\ Logs(l)
      BY <2>3, <3>2
    <3> QED
      BY <1>6, <3>1, <3>2 DEF LogsAnswer
  <2>5. PICK l \in Stage : l.stage \in {"cache_hit", "ok"} /\ l.prompt = Prompts /\ Logs(l)
    BY <2>4
  <2>6. Told(hook.at, hook'.at, l)
    BY <2>1, <2>2, <2>5 DEF Told
  <2> QED
    BY <1>c, <2>2, <2>5, <2>6
<1>7. CASE Exits
  <2>1. hook' = NoHook /\ hook.at \in {"said", "mute"} /\ UNCHANGED <<stages, intact>>
    BY <1>7 DEF Exits
  <2> QED
    BY <1>0, <2>1, HookIsTyped
<1>8. CASE Killed
  <2>1. hook' = NoHook /\ ~intact' /\ stages' = stages
    BY <1>8 DEF Killed
  <2> QED
    BY <1>0, <2>1, HookIsTyped
<1>9. CASE Rotated
  <2>1. hook' = hook /\ ~intact' /\ stages' = <<>>
    BY <1>9 DEF Rotated
  <2> QED
    BY <1>0, <2>1
<1>10. CASE Replies \/ ToolReturns \/ Garbles \/ UNCHANGED driftVars
  <2>1. UNCHANGED <<stages, hook, intact>>
    BY <1>10 DEF Replies, ToolReturns, Garbles, driftVars
  <2> QED
    BY <1>0, <2>1
<1> QED
  BY <1>1, <1>2, <1>3, <1>4, <1>5, <1>6, <1>7, <1>8, <1>9, <1>10 DEF DriftNext

(* The prompts of a transcript. *)
PromptsIn(es) == {i \in DOMAIN es : es[i].prompt # 0}

LEMMA FiniteInSeq ==
  ASSUME NEW S, NEW s \in Seq(S), NEW T, T \subseteq DOMAIN s
  PROVE  IsFiniteSet(T) /\ Cardinality(T) \in Nat
<1>1. PICK n \in Nat : n = Len(s)
  OBVIOUS
<1>2. T \subseteq 1..n
  BY <1>1
<1> QED
  BY <1>2, FiniteUpTo

LEMMA PromptsAppended ==
  ASSUME NEW es \in Seq(Entry), NEW e \in Entry
  PROVE  /\ Cardinality(PromptsIn(es)) \in Nat
         /\ e.prompt = 0 => PromptsIn(Append(es, e)) = PromptsIn(es)
         /\ e.prompt # 0 => Cardinality(PromptsIn(Append(es, e))) = Cardinality(PromptsIn(es)) + 1
<1> DEFINE n == Len(es) + 1
           more == Append(es, e)
<1>1. /\ DOMAIN more = DOMAIN es \cup {n} /\ n \notin DOMAIN es /\ more[n] = e
      /\ \A i \in DOMAIN es : more[i] = es[i]
  OBVIOUS
<1> HIDE DEF n, more
<1>2. IsFiniteSet(PromptsIn(es)) /\ Cardinality(PromptsIn(es)) \in Nat /\ n \notin PromptsIn(es)
  <2>1. PromptsIn(es) \subseteq DOMAIN es
    BY DEF PromptsIn
  <2> QED
    BY <1>1, <2>1, FiniteInSeq
<1>3. e.prompt = 0 => PromptsIn(more) = PromptsIn(es)
  BY <1>1 DEF PromptsIn
<1>4. e.prompt # 0 => PromptsIn(more) = PromptsIn(es) \cup {n}
  BY <1>1 DEF PromptsIn
<1>5. Cardinality(PromptsIn(es) \cup {n}) = Cardinality(PromptsIn(es)) + 1
  BY <1>2, FS_AddElement
<1> QED
  BY <1>2, <1>3, <1>4, <1>5 DEF more

LEMMA PromptsMove ==
  ASSUME DriftTypeOK, [DriftNext]_driftVars
  PROVE  Prompts' = Prompts \/ (Asks /\ Prompts' = Prompts + 1)
<1>1. entries \in Seq(Entry)
  BY DEF DriftTypeOK
<1>2. Prompts = Cardinality(PromptsIn(entries)) /\ Prompts' = Cardinality(PromptsIn(entries'))
  BY DEF Prompts, PromptsIn
<1>3. ASSUME NEW e \in Entry, entries' = Append(entries, e), e.prompt = 0 PROVE Prompts' = Prompts
  BY <1>1, <1>2, <1>3, PromptsAppended
<1>4. ASSUME NEW e \in Entry, entries' = Append(entries, e), e.prompt = Prompts + 1
      PROVE  Prompts' = Prompts + 1
  <2>1. e.prompt # 0
    BY <1>4, PromptsAreCounted
  <2>2. Cardinality(PromptsIn(Append(entries, e))) = Cardinality(PromptsIn(entries)) + 1
    BY <1>1, <2>1, PromptsAppended
  <2> QED
    BY <1>2, <1>4, <2>2
<1>5. ASSUME entries' = entries PROVE Prompts' = Prompts
  BY <1>2, <1>5
<1> QED
  BY <1>3, <1>4, <1>5, TranscriptGrows

LEMMA PromptAsked == ASSUME DriftTypeOK, Asks PROVE Prompts' = Prompts + 1
<1>1. entries' = Append(entries, Asked(Prompts + 1)) /\ entries \in Seq(Entry)
  BY DEF Asks, DriftTypeOK
<1>2. Prompts \in Nat /\ Prompts + 1 \in 0..MaxEntries
  BY PromptsAreCounted, EntriesAssumption DEF Asks, DriftTypeOK
<1>3. Asked(Prompts + 1) \in Entry
  BY <1>2, EntriesAreTyped
<1>4. Asked(Prompts + 1).prompt = Prompts + 1
  BY DEF Asked, Blank
<1>5. Prompts + 1 # 0
  BY <1>2
<1>6. Cardinality(PromptsIn(Append(entries, Asked(Prompts + 1)))) = Cardinality(PromptsIn(entries)) + 1
  BY <1>1, <1>3, <1>4, <1>5, PromptsAppended
<1> QED
  BY <1>1, <1>6 DEF Prompts, PromptsIn

LEMMA DriftStep == DriftTypeOK /\ [DriftNext]_driftVars => DriftTypeOK'
<1> SUFFICES ASSUME DriftTypeOK, [DriftNext]_driftVars PROVE DriftTypeOK'
  OBVIOUS
<1>1. entries \in Seq(Entry) /\ stages \in Seq(Stage) /\ Len(entries) <= MaxEntries /\ MaxEntries \in Nat
  BY EntriesAssumption DEF DriftTypeOK
<1>2. hook' \in HookState
  BY LogMoves
<1>3. stages' \in Seq(Stage)
  <2>1. \/ stages' = stages \/ stages' = <<>>
        \/ \E l \in Stage : stages' = Append(stages, l)
    BY LogMoves
  <2>2. \A l \in Stage : Append(stages, l) \in Seq(Stage)
    BY <1>1
  <2>3. <<>> \in Seq(Stage)
    BY EmptySeq
  <2> QED
    BY <1>1, <2>1, <2>2, <2>3
<1>4. intact' \in BOOLEAN
  <2>1. intact' = intact \/ intact' = FALSE
    BY Zenon DEF DriftNext, Asks, Stops, Slips, Answers, EvaluatesNag, LogsAnswer, Exits, Killed, Rotated,
                 Replies, ToolReturns, Garbles, Logs, driftVars
  <2> QED
    BY <2>1, Zenon DEF DriftTypeOK
<1>5. entries' \in Seq(Entry) /\ Len(entries') <= MaxEntries
  <2>1. ASSUME NEW e \in Entry, Len(entries) < MaxEntries, entries' = Append(entries, e)
        PROVE  entries' \in Seq(Entry) /\ Len(entries') <= MaxEntries
    BY <1>1, <2>1
  <2>2. ASSUME entries' = entries PROVE entries' \in Seq(Entry) /\ Len(entries') <= MaxEntries
    BY <1>1, <2>2
  <2> QED
    BY <2>1, <2>2, TranscriptGrows
<1>6. hook'.at # "none" => Prompts' > 0
  <2>1. Prompts' = Prompts \/ (Asks /\ Prompts' = Prompts + 1)
    BY PromptsMove
  <2>2. hook'.at # "none" => hook.at # "none" \/ Asks
    <3>1. ASSUME NEW l, Told(hook.at, hook'.at, l) PROVE hook.at # "none"
      BY <3>1 DEF Told
    <3> QED
      BY <3>1, LogMoves
  <2>3. ~(0 > 0) /\ Prompts \in Nat
    BY PromptsAreCounted
  <2>4. hook.at # "none" => Prompts > 0
    BY DEF DriftTypeOK
  <2>5. Prompts + 1 > 0
    BY <2>3
  <2>6. hook'.at # "none" => Prompts > 0 \/ Asks
    BY <2>2, <2>4, Zenon
  <2>7. Asks => Prompts' = Prompts + 1
    BY PromptAsked
  <2> QED
    BY <2>1, <2>5, <2>6, <2>7, Zenon
<1> QED
  BY <1>2, <1>3, <1>4, <1>5, <1>6 DEF DriftTypeOK

-----------------------------------------------------------------------------
(* What the report makes of a session. *)

Query == [turn : Int, near : BOOLEAN]
SummarySoFar == [users : Nat, hadHits : BOOLEAN, redundant : Nat, nonSearch : Nat,
                 queries : Seq(Query), calls : SUBSET Int, parseErrors : Nat]

(* What one line of the transcript does to the summary. *)
LEMMA UserLine ==
  ASSUME NEW sum \in SummarySoFar, NEW e \in Entry, e.kind = "user", NEW r, r = ApplyTranscriptLine(sum, e)
  PROVE  /\ r \in SummarySoFar /\ r.users = sum.users + 1 /\ r.hadHits = FALSE
         /\ r.redundant = sum.redundant /\ r.queries = sum.queries /\ r.calls = sum.calls
<1> DEFINE s1 == [sum EXCEPT !.users = @ + 1]
           s2 == [s1 EXCEPT !.hadHits = FALSE]
<1>1. r = s2
  BY DEF ApplyTranscriptLine
<1>2. /\ s1 \in SummarySoFar /\ s1.users = sum.users + 1
      /\ s1.redundant = sum.redundant /\ s1.queries = sum.queries /\ s1.calls = sum.calls
  BY DEF SummarySoFar
<1> HIDE DEF s1
<1> QED
  BY <1>1, <1>2 DEF SummarySoFar

LEMMA AttachmentLine ==
  ASSUME NEW sum \in SummarySoFar, NEW e \in Entry, e.kind = "attachment", NEW r, r = ApplyTranscriptLine(sum, e)
  PROVE  /\ r \in SummarySoFar /\ r.users = sum.users /\ r.hadHits = TRUE
         /\ r.redundant = sum.redundant /\ r.queries = sum.queries /\ r.calls = sum.calls
<1>1. r = [sum EXCEPT !.hadHits = TRUE]
  BY DEF ApplyTranscriptLine
<1> QED
  BY <1>1 DEF SummarySoFar

LEMMA GarbledLine ==
  ASSUME NEW sum \in SummarySoFar, NEW e \in Entry, e.kind = "garbled", NEW r, r = ApplyTranscriptLine(sum, e)
  PROVE  /\ r \in SummarySoFar /\ r.users = sum.users /\ r.hadHits = sum.hadHits
         /\ r.redundant = sum.redundant /\ r.queries = sum.queries /\ r.calls = sum.calls
<1>1. r = [sum EXCEPT !.parseErrors = @ + 1]
  BY DEF ApplyTranscriptLine
<1> QED
  BY <1>1 DEF SummarySoFar

LEMMA AssistantLine ==
  ASSUME NEW sum \in SummarySoFar, NEW e \in Entry, e.kind = "assistant", e.tool # "none",
         NEW r, r = ApplyTranscriptLine(sum, e)
  PROVE  /\ r \in SummarySoFar /\ r.users = sum.users /\ r.hadHits = sum.hadHits
         /\ r.redundant = (IF sum.hadHits THEN sum.redundant + 1 ELSE sum.redundant)
         /\ r.calls = sum.calls \cup {sum.users - 1}
         /\ \/ r.queries = sum.queries
            \/ r.queries = Append(sum.queries, [turn |-> sum.users - 1, near |-> e.near])
<1> DEFINE q == [turn |-> sum.users - 1, near |-> e.near]
           redundant == IF sum.hadHits THEN sum.redundant + 1 ELSE sum.redundant
           nonSearch == IF sum.hadHits /\ e.tool # "search" THEN sum.nonSearch + 1 ELSE sum.nonSearch
           queries == IF e.tool = "search" THEN Append(sum.queries, q) ELSE sum.queries
           calls == sum.calls \cup {sum.users - 1}
           s1 == [sum EXCEPT !.redundant = redundant]
           s2 == [s1 EXCEPT !.nonSearch = nonSearch]
           s3 == [s2 EXCEPT !.queries = queries]
           s4 == [s3 EXCEPT !.calls = calls]
<1>1. r = s4
  BY DEF ApplyTranscriptLine, ApplyAssistantMessage, SummarySoFar
<1>2. /\ sum.users \in Nat /\ sum.redundant \in Nat /\ sum.nonSearch \in Nat /\ sum.calls \in SUBSET Int
      /\ sum.queries \in Seq(Query)
  BY DEF SummarySoFar
<1>3. q \in Query
  BY <1>2 DEF Entry, Query
<1>4. redundant \in Nat /\ nonSearch \in Nat /\ calls \in SUBSET Int
  BY <1>2
<1>5. queries \in Seq(Query) /\ (queries = sum.queries \/ queries = Append(sum.queries, q))
  <2> HIDE DEF q
  <2> QED
    BY <1>2, <1>3
<1> HIDE DEF redundant, nonSearch, queries, calls
<1>6. /\ s1 \in SummarySoFar /\ s1.redundant = redundant /\ s1.users = sum.users /\ s1.hadHits = sum.hadHits
  BY <1>4 DEF SummarySoFar
<1> HIDE DEF s1
<1>7. /\ s2 \in SummarySoFar /\ s2.redundant = redundant /\ s2.users = sum.users /\ s2.hadHits = sum.hadHits
  BY <1>4, <1>6 DEF SummarySoFar
<1> HIDE DEF s2
<1>8. /\ s3 \in SummarySoFar /\ s3.redundant = redundant /\ s3.users = sum.users /\ s3.hadHits = sum.hadHits
      /\ s3.queries = queries
  BY <1>5, <1>7 DEF SummarySoFar
<1> HIDE DEF s3
<1>9. /\ s4 \in SummarySoFar /\ s4.redundant = redundant /\ s4.users = sum.users /\ s4.hadHits = sum.hadHits
      /\ s4.queries = queries /\ s4.calls = calls
  BY <1>4, <1>8 DEF SummarySoFar
<1> HIDE DEF s4
<1> QED
  BY <1>1, <1>5, <1>9 DEF redundant, calls

LEMMA LineIsApplied ==
  ASSUME NEW sum \in SummarySoFar, NEW e \in Entry
  PROVE  /\ ApplyTranscriptLine(sum, e) \in SummarySoFar
         /\ e.kind = "assistant" /\ e.tool = "none" => ApplyTranscriptLine(sum, e) = sum
<1>1. e.kind = "assistant" /\ e.tool = "none" => ApplyTranscriptLine(sum, e) = sum
  BY DEF ApplyTranscriptLine, ApplyAssistantMessage
<1>2. e.kind \in {"user", "assistant", "attachment", "garbled"}
  BY DEF Entry
<1> QED
  BY <1>1, <1>2, UserLine, AttachmentLine, GarbledLine, AssistantLine

SummaryUpTo ==
  CHOOSE upTo : upTo = [n \in 0..Len(entries) |->
    IF n = 0 THEN NoSummary ELSE ApplyTranscriptLine(upTo[n - 1], entries[n])]

LEMMA SummaryIsALoop ==
  ASSUME entries \in Seq(Entry)
  PROVE  /\ SummaryUpTo \in [0..Len(entries) -> SummarySoFar]
         /\ SummaryUpTo[0] = NoSummary
         /\ \A n \in 1..Len(entries) : SummaryUpTo[n] = ApplyTranscriptLine(SummaryUpTo[n - 1], entries[n])
         /\ ParseTranscript = SummaryUpTo[Len(entries)]
<1> DEFINE N == Len(entries)
           step == [n \in 1..N |-> [sum \in SummarySoFar |-> ApplyTranscriptLine(sum, entries[n])]]
           Loop(f) == f = [n \in 0..N |-> IF n = 0 THEN NoSummary ELSE ApplyTranscriptLine(f[n - 1], entries[n])]
<1>1. N \in Nat /\ \A n \in 1..N : entries[n] \in Entry
  OBVIOUS
<1>2. NoSummary \in SummarySoFar
  <2>1. PICK qs \in Seq(Query) : qs = <<>>
    BY EmptySeq
  <2> QED
    BY <2>1 DEF NoSummary, SummarySoFar
<1>3. step \in [1..N -> [SummarySoFar -> SummarySoFar]]
  BY <1>1, LineIsApplied
<1>4. PICK f : IsLoop(f, N, SummarySoFar, NoSummary, step)
  <2> HIDE DEF step, N
  <2> QED
    BY <1>1, <1>2, <1>3, LoopHasValues
<1>5. ASSUME NEW n \in 1..N PROVE n \in 0..N /\ n # 0 /\ n - 1 \in 0..N
  BY <1>1
<1>6. ASSUME NEW n \in 0..N, n # 0
      PROVE  f[n] = ApplyTranscriptLine(f[n - 1], entries[n])
  <2>1. n \in 1..N /\ n - 1 \in 0..N
    BY <1>1, <1>6
  <2>2. f[n - 1] \in SummarySoFar /\ f[n] = step[n][f[n - 1]]
    BY <1>4, <2>1 DEF IsLoop
  <2> QED
    BY <2>1, <2>2
<1>7. Loop(f)
  <2>1. f = [n \in 0..N |-> f[n]] /\ f[0] = NoSummary
    BY <1>4 DEF IsLoop
  <2> QED
    BY <1>6, <2>1
<1>8. Loop(SummaryUpTo)
  BY <1>7 DEF SummaryUpTo
<1>9. ParseTranscript = SummaryUpTo[N]
  BY DEF ParseTranscript, SummaryUpTo
<1>10. SummaryUpTo[0] = NoSummary
  BY <1>1, <1>8
<1>11. \A n \in 1..N : SummaryUpTo[n] = ApplyTranscriptLine(SummaryUpTo[n - 1], entries[n])
  BY <1>5, <1>8
<1>12. \A n \in 0..N : SummaryUpTo[n] \in SummarySoFar
  <2> DEFINE S == {n \in 0..N : SummaryUpTo[n] \in SummarySoFar}
  <2>1. 0 \in S
    BY <1>1, <1>2, <1>10
  <2>2. ASSUME NEW n \in 1..N, n - 1 \in S PROVE n \in S
    BY <1>1, <1>5, <1>11, <2>2, LineIsApplied
  <2> HIDE DEF S
  <2>3. 0..N \subseteq S
    BY <1>1, <2>1, <2>2, UpToLast
  <2> QED
    BY <2>3 DEF S
<1>13. SummaryUpTo \in [0..N -> SummarySoFar]
  BY <1>8, <1>12
<1> QED
  BY <1>9, <1>10, <1>11, <1>13

-----------------------------------------------------------------------------
(* Only an assistant's line calls a tool. *)
ToolsAreCalled == \A i \in DOMAIN entries : entries[i].tool # "none" => entries[i].kind = "assistant"

(* A hook has shown something since the last of the users' lines up to n,  *)
(* and the calls up to n that followed something shown.                    *)
ShownSince(n, i) == \E j \in 1..n : entries[j].kind = "attachment" /\ Users(i) = Users(j)
CallsAfterShown(n) == {i \in 1..n : entries[i].tool # "none" /\ ShownSince(i - 1, i)}

(* What the summary says after n lines. *)
SummaryIsOf(n, sum) ==
  /\ sum.users = Cardinality(Users(n))
  /\ sum.hadHits = TRUE <=> ShownSince(n, n)
  /\ sum.redundant = Cardinality(CallsAfterShown(n))
  /\ \A i \in 1..n : entries[i].tool # "none" => Cardinality(Users(i)) - 1 \in sum.calls
  /\ \A q \in DOMAIN sum.queries : sum.queries[q].turn \in sum.calls

LEMMA UsersGrow ==
  ASSUME entries \in Seq(Entry), NEW n \in 1..Len(entries)
  PROVE  /\ n \notin Users(n - 1) /\ IsFiniteSet(Users(n - 1)) /\ Cardinality(Users(n - 1)) \in Nat
         /\ entries[n].kind = "user" =>
              Users(n) = Users(n - 1) \cup {n} /\ Cardinality(Users(n)) = Cardinality(Users(n - 1)) + 1
         /\ entries[n].kind # "user" => Users(n) = Users(n - 1)
<1>1. n - 1 \in Nat /\ n \notin 1..n - 1 /\ 1..n = (1..n - 1) \cup {n}
  OBVIOUS
<1>2. Users(n - 1) \subseteq 1..n - 1 /\ n \notin Users(n - 1)
  BY <1>1 DEF Users
<1>3. IsFiniteSet(Users(n - 1)) /\ Cardinality(Users(n - 1)) \in Nat
  BY <1>1, <1>2, FiniteUpTo
<1>4. entries[n].kind = "user" => Users(n) = Users(n - 1) \cup {n}
  BY <1>1 DEF Users
<1>5. entries[n].kind # "user" => Users(n) = Users(n - 1)
  BY <1>1 DEF Users
<1>6. Cardinality(Users(n - 1) \cup {n}) = Cardinality(Users(n - 1)) + 1
  BY <1>2, <1>3, FS_AddElement
<1> QED
  BY <1>2, <1>3, <1>4, <1>5, <1>6

LEMMA ShownGrows ==
  ASSUME entries \in Seq(Entry), ToolsAreCalled, NEW n \in 1..Len(entries)
  PROVE  /\ entries[n].kind = "user" => ~ShownSince(n, n)
         /\ entries[n].kind = "attachment" => ShownSince(n, n)
         /\ entries[n].kind \notin {"user", "attachment"} => (ShownSince(n, n) <=> ShownSince(n - 1, n - 1))
         /\ entries[n].tool # "none" => (ShownSince(n - 1, n) <=> ShownSince(n - 1, n - 1))
<1>1. n \in Nat /\ n - 1 \in Nat /\ 1..n = (1..n - 1) \cup {n} /\ n \in 1..n
  OBVIOUS
<1>2. ASSUME entries[n].kind = "user" PROVE ~ShownSince(n, n)
  <2> SUFFICES ASSUME NEW j \in 1..n, entries[j].kind = "attachment", Users(n) = Users(j) PROVE FALSE
    BY DEF ShownSince
  <2>1. j \in 1..n - 1
    BY <1>1, <1>2
  <2>2. n \in Users(n)
    BY <1>1, <1>2 DEF Users
  <2>3. n \notin Users(j)
    BY <2>1 DEF Users
  <2> QED
    BY <2>2, <2>3
<1>3. entries[n].kind = "attachment" => ShownSince(n, n)
  BY <1>1 DEF ShownSince
<1>4. entries[n].kind # "user" => (ShownSince(n - 1, n) <=> ShownSince(n - 1, n - 1))
  BY UsersGrow DEF ShownSince
<1>5. entries[n].kind \notin {"user", "attachment"} => (ShownSince(n, n) <=> ShownSince(n - 1, n))
  BY <1>1 DEF ShownSince
<1>6. entries[n].tool # "none" => entries[n].kind = "assistant"
  BY DEF ToolsAreCalled
<1> QED
  BY <1>2, <1>3, <1>4, <1>5, <1>6

LEMMA CallsGrow ==
  ASSUME entries \in Seq(Entry), NEW n \in 1..Len(entries)
  PROVE  /\ Cardinality(CallsAfterShown(n - 1)) \in Nat
         /\ entries[n].tool # "none" /\ ShownSince(n - 1, n) =>
              Cardinality(CallsAfterShown(n)) = Cardinality(CallsAfterShown(n - 1)) + 1
         /\ ~(entries[n].tool # "none" /\ ShownSince(n - 1, n)) =>
              CallsAfterShown(n) = CallsAfterShown(n - 1)
<1>1. n - 1 \in Nat /\ n \notin 1..n - 1 /\ 1..n = (1..n - 1) \cup {n}
  OBVIOUS
<1>2. CallsAfterShown(n - 1) \subseteq 1..n - 1 /\ n \notin CallsAfterShown(n - 1)
  BY <1>1 DEF CallsAfterShown
<1>3. IsFiniteSet(CallsAfterShown(n - 1)) /\ Cardinality(CallsAfterShown(n - 1)) \in Nat
  BY <1>1, <1>2, FiniteUpTo
<1>4. entries[n].tool # "none" /\ ShownSince(n - 1, n) => CallsAfterShown(n) = CallsAfterShown(n - 1) \cup {n}
  BY <1>1 DEF CallsAfterShown
<1>5. ~(entries[n].tool # "none" /\ ShownSince(n - 1, n)) => CallsAfterShown(n) = CallsAfterShown(n - 1)
  BY <1>1 DEF CallsAfterShown
<1>6. Cardinality(CallsAfterShown(n - 1) \cup {n}) = Cardinality(CallsAfterShown(n - 1)) + 1
  BY <1>2, <1>3, FS_AddElement
<1> QED
  BY <1>3, <1>4, <1>5, <1>6

LEMMA SummaryStarts == SummaryIsOf(0, NoSummary)
<1>1. Users(0) = {} /\ CallsAfterShown(0) = {} /\ ~ShownSince(0, 0) /\ Cardinality({}) = 0
  BY FS_EmptySet DEF Users, CallsAfterShown, ShownSince
<1> QED
  BY <1>1 DEF SummaryIsOf, NoSummary

LEMMA SummaryFollows ==
  ASSUME entries \in Seq(Entry), ToolsAreCalled, NEW n \in 1..Len(entries),
         NEW sum \in SummarySoFar, SummaryIsOf(n - 1, sum),
         NEW r, r = ApplyTranscriptLine(sum, entries[n])
  PROVE  SummaryIsOf(n, r)
<1> DEFINE e == entries[n]
           kinds == {"user", "assistant", "attachment", "garbled"}
<1>1. e \in Entry /\ e.kind \in kinds
  <2>1. e \in Entry
    OBVIOUS
  <2> QED
    BY <2>1 DEF Entry
<1>2. e.tool # "none" => e.kind = "assistant"
  BY DEF ToolsAreCalled
<1>3. n \in Nat /\ n - 1 \in Nat /\ 1..n = (1..n - 1) \cup {n}
  OBVIOUS
<1>4. ASSUME r.calls = sum.calls, r.queries = sum.queries, r.redundant = sum.redundant,
             r.users = Cardinality(Users(n)), r.hadHits = TRUE <=> ShownSince(n, n), e.tool = "none"
      PROVE  SummaryIsOf(n, r)
  <2>1. CallsAfterShown(n) = CallsAfterShown(n - 1)
    BY <1>4, CallsGrow DEF e
  <2>2. \A i \in 1..n : entries[i].tool # "none" => Cardinality(Users(i)) - 1 \in r.calls
    BY <1>3, <1>4 DEF SummaryIsOf, e
  <2>3. \A q \in DOMAIN r.queries : r.queries[q].turn \in r.calls
    BY <1>4 DEF SummaryIsOf
  <2>4. r.redundant = Cardinality(CallsAfterShown(n))
    BY <1>4, <2>1 DEF SummaryIsOf
  <2> QED
    BY <1>4, <2>2, <2>3, <2>4 DEF SummaryIsOf
<1> HIDE DEF e
<1>5. CASE e.kind = "user"
  <2>1. /\ r.users = sum.users + 1 /\ r.hadHits = FALSE /\ r.redundant = sum.redundant
        /\ r.queries = sum.queries /\ r.calls = sum.calls
    BY <1>1, <1>5, UserLine DEF e
  <2>2. sum.users = Cardinality(Users(n - 1)) /\ (sum.hadHits = TRUE <=> ShownSince(n - 1, n - 1))
    BY DEF SummaryIsOf
  <2>3. r.users = Cardinality(Users(n))
    BY <1>5, <2>1, <2>2, UsersGrow DEF e
  <2>4. r.hadHits = TRUE <=> ShownSince(n, n)
    BY <1>5, <2>1, <2>2, ShownGrows DEF e
  <2> QED
    BY <1>2, <1>4, <1>5, <2>1, <2>3, <2>4
<1>6. CASE e.kind = "attachment"
  <2>1. /\ r.users = sum.users /\ r.hadHits = TRUE /\ r.redundant = sum.redundant
        /\ r.queries = sum.queries /\ r.calls = sum.calls
    BY <1>1, <1>6, AttachmentLine DEF e
  <2>2. sum.users = Cardinality(Users(n - 1)) /\ (sum.hadHits = TRUE <=> ShownSince(n - 1, n - 1))
    BY DEF SummaryIsOf
  <2>3. r.users = Cardinality(Users(n))
    BY <1>6, <2>1, <2>2, UsersGrow DEF e
  <2>4. r.hadHits = TRUE <=> ShownSince(n, n)
    BY <1>6, <2>1, <2>2, ShownGrows DEF e
  <2> QED
    BY <1>2, <1>4, <1>6, <2>1, <2>3, <2>4
<1>7. CASE e.kind = "garbled"
  <2>1. /\ r.users = sum.users /\ r.hadHits = sum.hadHits /\ r.redundant = sum.redundant
        /\ r.queries = sum.queries /\ r.calls = sum.calls
    BY <1>1, <1>7, GarbledLine DEF e
  <2>2. sum.users = Cardinality(Users(n - 1)) /\ (sum.hadHits = TRUE <=> ShownSince(n - 1, n - 1))
    BY DEF SummaryIsOf
  <2>3. r.users = Cardinality(Users(n))
    BY <1>7, <2>1, <2>2, UsersGrow DEF e
  <2>4. r.hadHits = TRUE <=> ShownSince(n, n)
    BY <1>7, <2>1, <2>2, ShownGrows DEF e
  <2> QED
    BY <1>2, <1>4, <1>7, <2>1, <2>3, <2>4
<1>8. CASE e.kind = "assistant" /\ e.tool = "none"
  <2>1. r = sum
    BY <1>1, <1>8, LineIsApplied DEF e
  <2> QED
    BY <2>1, <1>4, <1>8, UsersGrow, ShownGrows DEF SummaryIsOf, e
<1>9. CASE e.kind = "assistant" /\ e.tool # "none"
  <2> DEFINE t == sum.users - 1
  <2>1. /\ r \in SummarySoFar /\ r.users = sum.users /\ r.hadHits = sum.hadHits
        /\ r.redundant = (IF sum.hadHits THEN sum.redundant + 1 ELSE sum.redundant)
        /\ r.calls = sum.calls \cup {t}
        /\ \/ r.queries = sum.queries
           \/ r.queries = Append(sum.queries, [turn |-> t, near |-> e.near])
    BY <1>1, <1>9, AssistantLine DEF e
  <2>2. Users(n) = Users(n - 1) /\ Cardinality(Users(n)) = sum.users
    BY <1>9, UsersGrow DEF SummaryIsOf, e
  <2>3. /\ ShownSince(n, n) <=> ShownSince(n - 1, n - 1)
        /\ ShownSince(n - 1, n) <=> ShownSince(n - 1, n - 1)
    BY <1>9, ShownGrows DEF e
  <2>4. sum.hadHits = TRUE <=> ShownSince(n - 1, n - 1)
    BY DEF SummaryIsOf
  <2>5. r.redundant = Cardinality(CallsAfterShown(n))
    <3>1. sum.redundant = Cardinality(CallsAfterShown(n - 1)) /\ sum.hadHits \in BOOLEAN
      BY DEF SummaryIsOf, SummarySoFar
    <3>2. CASE sum.hadHits = TRUE
      BY <1>9, <2>1, <2>3, <2>4, <3>1, <3>2, CallsGrow DEF e
    <3>3. CASE sum.hadHits = FALSE
      BY <1>9, <2>1, <2>3, <2>4, <3>1, <3>3, CallsGrow DEF e
    <3> QED
      BY <3>1, <3>2, <3>3
  <2>6. \A i \in 1..n : entries[i].tool # "none" => Cardinality(Users(i)) - 1 \in r.calls
    BY <1>3, <2>1, <2>2 DEF SummaryIsOf
  <2>7. \A q \in DOMAIN r.queries : r.queries[q].turn \in r.calls
    <3>1. \A q \in DOMAIN sum.queries : sum.queries[q].turn \in r.calls
      BY <2>1 DEF SummaryIsOf
    <3>2. sum.queries \in Seq(Query)
      BY DEF SummarySoFar
    <3>3. ASSUME r.queries = Append(sum.queries, [turn |-> t, near |-> e.near]),
                 NEW q \in DOMAIN r.queries
          PROVE  r.queries[q].turn \in r.calls
      <4> DEFINE new == [turn |-> t, near |-> e.near]
      <4>1. new.turn \in r.calls
        BY <2>1
      <4> HIDE DEF new
      <4>2. CASE q \in DOMAIN sum.queries
        BY <3>1, <3>2, <3>3, <4>2 DEF new
      <4>3. CASE q \notin DOMAIN sum.queries
        <5>1. r.queries[q] = new
          BY <3>2, <3>3, <4>3 DEF new
        <5> QED
          BY <4>1, <5>1
      <4> QED
        BY <4>2, <4>3
    <3> QED
      BY <2>1, <3>1, <3>3
  <2> QED
    BY <2>1, <2>2, <2>3, <2>4, <2>5, <2>6, <2>7 DEF SummaryIsOf
<1> QED
  BY <1>1, <1>5, <1>6, <1>7, <1>8, <1>9

(* What the summary says of the whole transcript. *)
LEMMA SummaryIsTrue ==
  ASSUME entries \in Seq(Entry), ToolsAreCalled
  PROVE  ParseTranscript \in SummarySoFar /\ SummaryIsOf(Len(entries), ParseTranscript)
<1> DEFINE N == Len(entries)
           S == {n \in 0..N : SummaryIsOf(n, SummaryUpTo[n])}
<1>1. N \in Nat
  OBVIOUS
<1>2. 0 \in S
  BY <1>1, SummaryStarts, SummaryIsALoop
<1>3. ASSUME NEW n \in 1..N, n - 1 \in S PROVE n \in S
  <2>1. n \in 0..N /\ n - 1 \in 0..N
    BY <1>1
  <2>2. SummaryUpTo[n - 1] \in SummarySoFar /\ SummaryUpTo[n] = ApplyTranscriptLine(SummaryUpTo[n - 1], entries[n])
    BY <2>1, SummaryIsALoop
  <2>3. SummaryIsOf(n, SummaryUpTo[n])
    BY <1>3, <2>2, SummaryFollows
  <2> QED
    BY <2>1, <2>3
<1>4. N \in S
  <2> HIDE DEF S
  <2>1. 0..N \subseteq S
    BY <1>1, <1>2, <1>3, UpToLast
  <2> QED
    BY <1>1, <2>1
<1>5. N \in 0..N
  BY <1>1
<1> QED
  BY <1>4, <1>5, SummaryIsALoop

(* Every turn begins at one of the users' lines. *)
LEMMA TurnsHaveALine ==
  ASSUME entries \in Seq(Entry), NEW t \in Nat, t < Cardinality(Users(Len(entries)))
  PROVE  LineOfTurn(t) \in Users(Len(entries)) /\ Cardinality(Users(LineOfTurn(t))) = t + 1
<1> DEFINE N == Len(entries)
           Begun(n) == t < Cardinality(Users(n)) => \E i \in Users(n) : Cardinality(Users(i)) = t + 1
           S == {n \in 0..N : Begun(n)}
<1>1. N \in Nat
  OBVIOUS
<1>2. 0 \in S
  <2>1. Users(0) = {} /\ Cardinality({}) = 0 /\ 0 \in 0..N
    BY <1>1, FS_EmptySet DEF Users
  <2>2. ~(t < Cardinality(Users(0)))
    BY <2>1
  <2> QED
    BY <2>1, <2>2
<1>3. ASSUME NEW n \in 1..N, n - 1 \in S PROVE n \in S
  <2>1. n \in 0..N
    BY <1>1
  <2>2. CASE entries[n].kind = "user"
    <3> DEFINE c == Cardinality(Users(n - 1))
    <3>1. Users(n) = Users(n - 1) \cup {n} /\ Cardinality(Users(n)) = c + 1 /\ c \in Nat
      BY <2>2, UsersGrow
    <3>2. Begun(n - 1)
      BY <1>3
    <3> HIDE DEF c
    <3>3. CASE t < c
      <4>1. \E i \in Users(n - 1) : Cardinality(Users(i)) = t + 1
        BY <3>2, <3>3 DEF c
      <4> QED
        BY <2>1, <3>1, <4>1
    <3>4. CASE ~(t < c)
      <4>1. t < c + 1 => c + 1 = t + 1
        BY <3>1, <3>4
      <4> QED
        BY <2>1, <3>1, <4>1
    <3> QED
      BY <3>3, <3>4
  <2>3. CASE entries[n].kind # "user"
    <3>1. Users(n) = Users(n - 1)
      BY <2>3, UsersGrow
    <3> QED
      BY <1>3, <2>1, <3>1
  <2> QED
    BY <2>2, <2>3
<1>4. Begun(N)
  <2> HIDE DEF S
  <2>1. 0..N \subseteq S
    BY <1>1, <1>2, <1>3, UpToLast
  <2>2. N \in 0..N
    BY <1>1
  <2> QED
    BY <2>1, <2>2 DEF S
<1> QED
  BY <1>4 DEF LineOfTurn

LEMMA FairOnMisses ==
  ASSUME entries \in Seq(Entry), ToolsAreCalled
  PROVE  MissedMeansSilent
<1> DEFINE N == Len(entries)
           sum == ParseTranscript
<1>1. sum \in SummarySoFar /\ SummaryIsOf(N, sum) /\ N \in Nat
  BY SummaryIsTrue
<1> SUFFICES ASSUME NEW t \in Missed PROVE CallsIn(t) = {} /\ RedundantCalls(t) = {}
  BY DEF MissedMeansSilent
<1>2. t \in 0..sum.users - 1 /\ t \notin sum.calls
  BY DEF Missed, Turns, MissedCall
<1>3. t \in Nat /\ t < Cardinality(Users(N))
  <2>1. sum.users \in Nat /\ sum.users = Cardinality(Users(N))
    BY <1>1 DEF SummarySoFar, SummaryIsOf
  <2> QED
    BY <1>2, <2>1
<1>4. Cardinality(Users(LineOfTurn(t))) = t + 1
  BY <1>3, TurnsHaveALine
<1>5. ASSUME NEW i \in CallsIn(t) PROVE FALSE
  <2>1. i \in 1..N /\ entries[i].tool # "none" /\ Users(i) = Users(LineOfTurn(t))
    BY <1>5 DEF CallsIn
  <2>2. Cardinality(Users(i)) - 1 \in sum.calls
    BY <1>1, <2>1 DEF SummaryIsOf
  <2>3. Cardinality(Users(i)) - 1 = t
    BY <1>3, <1>4, <2>1
  <2> QED
    BY <1>2, <2>2, <2>3
<1>6. ASSUME NEW q \in RedundantCalls(t) PROVE FALSE
  BY <1>1, <1>2, <1>6 DEF RedundantCalls, SummaryIsOf
<1> QED
  BY <1>5, <1>6

LEMMA FairOnRedundance ==
  ASSUME entries \in Seq(Entry), ToolsAreCalled
  PROVE  RedundantAsDefined
<1> DEFINE found == {i \in DOMAIN entries :
      /\ entries[i].tool # "none"
      /\ \E j \in 1..i - 1 : entries[j].kind = "attachment" /\ Users(i) = Users(j)}
<1>1. found = CallsAfterShown(Len(entries))
  BY DEF CallsAfterShown, ShownSince
<1> QED
  BY <1>1, SummaryIsTrue DEF SummaryIsOf, RedundantAsDefined

-----------------------------------------------------------------------------
(* The lines of a log with some of the stages, and the prompts they are    *)
(* about.                                                                  *)
LinesWith(st, set) == {i \in DOMAIN st : st[i].stage \in set}
InLog(st, set) == {st[i].prompt : i \in LinesWith(st, set)}
Looks == {"cache_hit", "ok"}
LogIsFair(st) ==
  /\ Cardinality(LinesWith(st, Looks)) = Cardinality(InLog(st, Looks))
  /\ IsFiniteSet(InLog(st, Looks))
LogIsBehind(st, n) == \A i \in DOMAIN st : st[i].prompt <= n

(* A log of n prompts, with the hook of the last being at some step: each  *)
(* prompt has left one look at the cache at most, the last has left none   *)
(* before its hook has logged its answer; and if nothing was lost, those   *)
(* that were looked up are those whose nag was evaluated, but for the last *)
(* while its answer is not logged yet.                                     *)
LogInv(st, at, n, sound) ==
  /\ LogIsFair(st) /\ LogIsBehind(st, n)
  /\ at \in {"look", "nag", "log"} => n \notin InLog(st, Looks)
  /\ sound => InLog(st, {"nag_eval"}) = InLog(st, Looks) \cup {m \in {n} : at = "log"}

LEMMA LineAppended ==
  ASSUME NEW st \in Seq(Stage), NEW l \in Stage, NEW set
  PROVE  /\ l.stage \notin set => /\ LinesWith(Append(st, l), set) = LinesWith(st, set)
                                  /\ InLog(Append(st, l), set) = InLog(st, set)
         /\ l.stage \in set =>
              /\ Cardinality(LinesWith(Append(st, l), set)) = Cardinality(LinesWith(st, set)) + 1
              /\ InLog(Append(st, l), set) = InLog(st, set) \cup {l.prompt}
         /\ \A n : LogIsBehind(st, n) /\ l.prompt <= n => LogIsBehind(Append(st, l), n)
<1> DEFINE k == Len(st) + 1
           more == Append(st, l)
<1>1. /\ DOMAIN more = DOMAIN st \cup {k} /\ k \notin DOMAIN st /\ more[k] = l
      /\ \A i \in DOMAIN st : more[i] = st[i]
  OBVIOUS
<1> HIDE DEF k, more
<1>2. IsFiniteSet(LinesWith(st, set)) /\ k \notin LinesWith(st, set)
  <2>1. LinesWith(st, set) \subseteq DOMAIN st
    BY DEF LinesWith
  <2> QED
    BY <1>1, <2>1, FiniteInSeq
<1>3. l.stage \notin set => LinesWith(more, set) = LinesWith(st, set)
  BY <1>1 DEF LinesWith
<1>4. l.stage \in set => LinesWith(more, set) = LinesWith(st, set) \cup {k}
  BY <1>1 DEF LinesWith
<1>5. Cardinality(LinesWith(st, set) \cup {k}) = Cardinality(LinesWith(st, set)) + 1
  BY <1>2, FS_AddElement
<1>6. \A i \in LinesWith(st, set) : more[i] = st[i]
  BY <1>1 DEF LinesWith
<1>7. l.stage \notin set => InLog(more, set) = InLog(st, set)
  BY <1>3, <1>6 DEF InLog
<1>8. l.stage \in set => InLog(more, set) = InLog(st, set) \cup {l.prompt}
  BY <1>1, <1>4, <1>6 DEF InLog
<1>9. \A n : LogIsBehind(st, n) /\ l.prompt <= n => LogIsBehind(more, n)
  BY <1>1 DEF LogIsBehind
<1> QED
  BY <1>3, <1>4, <1>5, <1>7, <1>8, <1>9 DEF more

(* An empty log, after a rotation or at the start. *)
LEMMA EmptyLog ==
  ASSUME NEW at, NEW n
  PROVE  LogInv(<<>>, at, n, FALSE) /\ (at # "log" => LogInv(<<>>, at, n, TRUE))
<1>1. \A set : LinesWith(<<>>, set) = {} /\ InLog(<<>>, set) = {}
  BY DEF LinesWith, InLog
<1>2. IsFiniteSet({}) /\ LogIsBehind(<<>>, n)
  BY FS_EmptySet DEF LogIsBehind
<1>3. LogIsFair(<<>>)
  BY <1>1, <1>2 DEF LogIsFair
<1> QED
  BY <1>1, <1>2, <1>3 DEF LogInv

(* The next prompt is about nothing in the log. *)
LEMMA NextPrompt ==
  ASSUME NEW st \in Seq(Stage), NEW n \in Nat, NEW sound, LogInv(st, "none", n, sound)
  PROVE  LogInv(st, "look", n + 1, sound)
<1>1. \A i \in DOMAIN st : st[i].prompt <= n /\ st[i].prompt \in Int
  <2> SUFFICES ASSUME NEW i \in DOMAIN st PROVE st[i].prompt <= n /\ st[i].prompt \in Int
    OBVIOUS
  <2>1. st[i].prompt <= n
    BY DEF LogInv, LogIsBehind
  <2>2. st[i] \in Stage
    OBVIOUS
  <2>3. st[i].prompt \in 1..MaxEntries
    BY <2>2 DEF Stage
  <2> QED
    BY <2>1, <2>3, EntriesAssumption
<1>2. LogIsBehind(st, n + 1)
  BY <1>1 DEF LogIsBehind
<1>3. n + 1 \notin InLog(st, Looks)
  <2> SUFFICES ASSUME NEW i \in DOMAIN st, st[i].prompt = n + 1 PROVE FALSE
    BY DEF InLog, LinesWith
  <2> QED
    BY <1>1
<1>4. sound => InLog(st, {"nag_eval"}) = InLog(st, Looks)
  BY DEF LogInv
<1> QED
  BY <1>2, <1>3, <1>4 DEF LogInv

(* The hook goes on without a line, or with a line that is not written. *)
LEMMA HookMoves ==
  ASSUME NEW st, NEW at, NEW to, NEW n, NEW sound, NEW still, LogInv(st, at, n, sound),
         to \in {"look", "nag", "log"} => at \in {"look", "nag", "log"},
         still => sound /\ (to = "log" <=> at = "log")
  PROVE  LogInv(st, to, n, still)
BY Zenon DEF LogInv

LEMMA LineLogged ==
  ASSUME NEW st \in Seq(Stage), NEW l \in Stage, NEW at, NEW to, NEW n \in Nat, NEW sound,
         LogInv(st, at, n, sound), l.prompt = n, Told(at, to, l)
  PROVE  LogInv(Append(st, l), to, n, sound)
<1>1. LogIsBehind(Append(st, l), n)
  <2>1. l.prompt <= n
    OBVIOUS
  <2> QED
    BY <2>1, LineAppended DEF LogInv
<1>2. CASE l.stage \in {"skip", "error"} /\ at = "look" /\ to \in {"look", "said", "mute"}
  <2>1. LogIsFair(Append(st, l)) /\ InLog(Append(st, l), Looks) = InLog(st, Looks)
    <3>1. l.stage \notin Looks
      BY <1>2 DEF Looks
    <3> QED
      BY <3>1, LineAppended DEF LogInv, LogIsFair
  <2>2. InLog(Append(st, l), {"nag_eval"}) = InLog(st, {"nag_eval"})
    BY <1>2, LineAppended
  <2> QED
    BY <1>1, <1>2, <2>1, <2>2 DEF LogInv
<1>3. CASE l.stage = "nag_eval" /\ at = "nag" /\ to = "log"
  <2>1. LogIsFair(Append(st, l)) /\ InLog(Append(st, l), Looks) = InLog(st, Looks)
    <3>1. l.stage \notin Looks
      BY <1>3 DEF Looks
    <3> QED
      BY <3>1, LineAppended DEF LogInv, LogIsFair
  <2>2. InLog(Append(st, l), {"nag_eval"}) = InLog(st, {"nag_eval"}) \cup {n}
    BY <1>3, LineAppended
  <2> QED
    BY <1>1, <1>3, <2>1, <2>2 DEF LogInv
<1>4. CASE l.stage \in {"cache_hit", "ok"} /\ at = "log" /\ to = "said"
  <2>1. l.stage \in Looks /\ l.stage \notin {"nag_eval"}
    BY <1>4 DEF Looks
  <2>2. /\ InLog(Append(st, l), Looks) = InLog(st, Looks) \cup {n}
        /\ Cardinality(LinesWith(Append(st, l), Looks)) = Cardinality(LinesWith(st, Looks)) + 1
        /\ InLog(Append(st, l), {"nag_eval"}) = InLog(st, {"nag_eval"})
    BY <2>1, LineAppended
  <2>3. n \notin InLog(st, Looks) /\ IsFiniteSet(InLog(st, Looks))
    BY <1>4 DEF LogInv, LogIsFair
  <2>4. /\ IsFiniteSet(InLog(st, Looks) \cup {n})
        /\ Cardinality(InLog(st, Looks) \cup {n}) = Cardinality(InLog(st, Looks)) + 1
    BY <2>3, FS_AddElement
  <2>5. LogIsFair(Append(st, l))
    BY <2>2, <2>4 DEF LogInv, LogIsFair
  <2> QED
    BY <1>1, <1>4, <2>2, <2>5 DEF LogInv
<1> QED
  BY <1>2, <1>3, <1>4 DEF Told

FairInv == ToolsAreCalled /\ LogInv(stages, hook.at, Prompts, intact)

LEMMA FairStart == DriftInit => FairInv
<1> SUFFICES ASSUME DriftInit PROVE FairInv
  OBVIOUS
<1>1. stages = <<>> /\ entries = <<>> /\ hook.at = "none" /\ intact = TRUE
  BY DEF DriftInit, NoHook
<1>2. ToolsAreCalled
  BY <1>1 DEF ToolsAreCalled
<1>3. LogInv(<<>>, "none", Prompts, TRUE)
  BY EmptyLog
<1> QED
  BY <1>1, <1>2, <1>3 DEF FairInv

LEMMA ToolsStayCalled ==
  ASSUME DriftTypeOK, ToolsAreCalled, [DriftNext]_driftVars
  PROVE  ToolsAreCalled'
<1>1. entries \in Seq(Entry)
  BY DEF DriftTypeOK
<1>2. ASSUME NEW e \in Entry, entries' = Append(entries, e), e.tool # "none" => e.kind = "assistant"
      PROVE  ToolsAreCalled'
  <2> SUFFICES ASSUME NEW i \in DOMAIN entries', entries'[i].tool # "none" PROVE entries'[i].kind = "assistant"
    BY DEF ToolsAreCalled
  <2>1. (i \in DOMAIN entries /\ entries'[i] = entries[i]) \/ entries'[i] = e
    BY <1>1, <1>2
  <2> QED
    BY <1>2, <2>1 DEF ToolsAreCalled
<1>3. ASSUME entries' = entries PROVE ToolsAreCalled'
  BY <1>3 DEF ToolsAreCalled
<1> QED
  BY <1>2, <1>3, TranscriptGrows

LEMMA FairStep == DriftTypeOK /\ FairInv /\ [DriftNext]_driftVars => FairInv'
<1> SUFFICES ASSUME DriftTypeOK, FairInv, [DriftNext]_driftVars PROVE FairInv'
  OBVIOUS
<1>1. stages \in Seq(Stage) /\ Prompts \in Nat /\ hook \in HookState
  BY PromptsAreCounted DEF DriftTypeOK
<1>2. LogInv(stages, hook.at, Prompts, intact)
  BY DEF FairInv
<1>3. ToolsAreCalled'
  BY ToolsStayCalled DEF FairInv
<1>4. ASSUME Asks PROVE LogInv(stages', hook'.at, Prompts', intact')
  <2>1. hook.at = "none" /\ hook'.at = "look" /\ stages' = stages /\ intact' = intact
    BY <1>4 DEF Asks, NoHook
  <2>2. Prompts' = Prompts + 1
    BY <1>4, PromptAsked
  <2>3. LogInv(stages, "none", Prompts, intact)
    BY <1>2, <2>1
  <2>4. LogInv(stages, "look", Prompts + 1, intact)
    BY <1>1, <2>3, NextPrompt
  <2> QED
    BY <2>1, <2>2, <2>4
<1>5. ASSUME ~Asks PROVE LogInv(stages', hook'.at, Prompts', intact')
  <2>1. Prompts' = Prompts
    BY <1>5, PromptsMove
  <2>2. CASE /\ hook'.at = hook.at \/ hook'.at = "none" \/ (hook.at = "look" /\ hook'.at = "nag")
             /\ hook.at = "log" => hook'.at = "log" \/ ~intact'
             /\ stages' = stages \/ (stages' = <<>> /\ ~intact')
             /\ intact' = intact \/ ~intact'
    <3>1. CASE stages' = stages
      <4>1. hook'.at \in {"look", "nag", "log"} => hook.at \in {"look", "nag", "log"}
        BY <2>2
      <4>2. intact' => intact /\ (hook'.at = "log" <=> hook.at = "log")
        BY <2>2, Zenon
      <4>3. LogInv(stages, hook'.at, Prompts, intact')
        BY <1>2, <4>1, <4>2, HookMoves
      <4> QED
        BY <2>1, <3>1, <4>3
    <3>2. CASE stages' = <<>> /\ ~intact'
      <4>1. LogInv(<<>>, hook'.at, Prompts, FALSE)
        BY EmptyLog
      <4>2. LogInv(<<>>, hook'.at, Prompts, intact')
        BY <3>2, <4>1, Zenon DEF LogInv
      <4> QED
        BY <2>1, <3>2, <4>2
    <3> QED
      BY <2>2, <3>1, <3>2
  <2>3. ASSUME NEW l \in Stage, l.prompt = Prompts, Told(hook.at, hook'.at, l),
               stages' = Append(stages, l) /\ intact' = intact
        PROVE  LogInv(stages', hook'.at, Prompts', intact')
    <3>1. LogInv(Append(stages, l), hook'.at, Prompts, intact)
      BY <1>1, <1>2, <2>3, LineLogged
    <3> QED
      BY <2>1, <2>3, <3>1
  <2>4. ASSUME NEW l \in Stage, Told(hook.at, hook'.at, l), stages' = stages /\ ~intact'
        PROVE  LogInv(stages', hook'.at, Prompts', intact')
    <3>1. hook.at \in {"look", "nag", "log"}
      BY <2>4 DEF Told
    <3>2. LogInv(stages, hook'.at, Prompts, intact')
      BY <1>2, <2>4, <3>1, HookMoves
    <3> QED
      BY <2>1, <2>4, <3>2
  <2> QED
    BY <1>5, <2>2, <2>3, <2>4, LogMoves
<1> QED
  BY <1>3, <1>4, <1>5 DEF FairInv

LEMMA FairOnLooks == ASSUME FairInv PROVE RatioOverServed
<1>1. \A set : With(set) = InLog(stages, set) /\ StagesIn(set) = Cardinality(LinesWith(stages, set))
  BY DEF With, InLog, LinesWith, StagesIn
<1>2. Aggregate.cacheTotal = StagesIn(Looks)
  BY DEF Aggregate, UserPromptCacheTotal, Looks
<1>3. Aggregate.cacheTotal = Cardinality(With(Looks))
  BY <1>1, <1>2 DEF FairInv, LogInv, LogIsFair
<1>4. ASSUME intact, hook.at = "none" PROVE With(Looks) = With({"nag_eval"})
  <2>1. InLog(stages, {"nag_eval"}) = InLog(stages, Looks) \cup {m \in {Prompts} : hook.at = "log"}
    BY <1>4 DEF FairInv, LogInv
  <2>2. InLog(stages, {"nag_eval"}) = InLog(stages, Looks)
    BY <1>4, <2>1
  <2> QED
    BY <1>1, <2>2
<1> QED
  BY <1>3, <1>4 DEF RatioOverServed, Looks

(* The report of a session accuses nobody of what did not happen: a turn   *)
(* that is said to have missed a call made none, the redundant calls are   *)
(* those that came after something was shown, each counted once, and the   *)
(* ratio of cache hits counts a prompt once, whatever is killed, lost or   *)
(* rotated away, and while nothing was, just the prompts that were served. *)
THEOREM ReportsAreFair == DriftSpec => []ReportIsFair
<1>1. DriftTypeOK /\ FairInv => ReportIsFair
  BY FairOnMisses, FairOnRedundance, FairOnLooks DEF DriftTypeOK, FairInv, ReportIsFair
<1> QED
  BY <1>1, DriftStart, DriftStep, FairStart, FairStep, PTL DEF DriftSpec

-----------------------------------------------------------------------------
(* What is left of the types, of the configuration and of the registry.    *)

(* The flags of the configuration, and who may hold its lock.              *)
FlagsAreTyped ==
  /\ confFile.kind \in {"none", "torn", "whole"}
  /\ newDir \in BOOLEAN /\ disturbed \in BOOLEAN
  /\ migrator \in ConfProc \cup {"nobody", "killed"}

LEMMA FlagsStart == ConfInit => FlagsAreTyped
<1> SUFFICES ASSUME ConfInit PROVE FlagsAreTyped
  OBVIOUS
<1>1. confFile = None \/ confFile.kind = "whole"
  <2> DEFINE c == [DefaultConfig EXCEPT !.git = FALSE, !.depth = 1]
  <2>1. confFile \in {None} \cup (IF newDir THEN {Whole(c)} ELSE {})
    BY DEF ConfInit
  <2>2. Whole(c).kind = "whole"
    BY DEF Whole
  <2> HIDE DEF c
  <2> QED
    BY <2>1, <2>2
<1>2. None.kind = "none"
  BY DEF None
<1> QED
  BY <1>1, <1>2 DEF ConfInit, FlagsAreTyped

LEMMA FlagsStep == ConfInv /\ FlagsAreTyped /\ [ConfNext]_confVars => FlagsAreTyped'
<1> SUFFICES ASSUME ConfInv, FlagsAreTyped, [ConfNext]_confVars PROVE FlagsAreTyped'
  OBVIOUS
<1>1. \A c : Whole(c).kind = "whole"
  BY DEF Whole
<1>2. Torn.kind = "torn" /\ None.kind = "none"
  BY DEF Torn, None
<1>3. ASSUME NEW p \in ConfProc,
             LookForOld(p) \/ NewOllamaClient(p) \/ EndOfProcess(p)
             \/ \E k \in Key, v \in {0, 1} : SetFails(p, k, v)
      PROVE  FlagsAreTyped'
  <2>1. UNCHANGED <<confFile, newDir, migrator, disturbed>>
    BY <1>3 DEF LookForOld, NewOllamaClient, EndOfProcess, SetFails, fileVars
  <2> QED
    BY <2>1 DEF FlagsAreTyped
<1>4. ASSUME NEW p \in ConfProc, LockMigration(p) PROVE FlagsAreTyped'
  <2>1. /\ UNCHANGED <<confFile, newDir>>
        /\ migrator' = p \/ migrator' = migrator
        /\ disturbed' = (disturbed \/ migrator # "nobody")
    BY <1>4 DEF LockMigration, fileVars
  <2>2. disturbed' \in BOOLEAN
    BY <2>1, Zenon
  <2> QED
    BY <2>1, <2>2 DEF FlagsAreTyped
<1>5. ASSUME NEW p \in ConfProc, RenameConfigDir(p) PROVE FlagsAreTyped'
  <2>1. migrator' = "nobody"
    BY <1>5 DEF RenameConfigDir
  <2>2. newDir' \in BOOLEAN /\ disturbed' \in BOOLEAN
    BY <1>5 DEF RenameConfigDir, FlagsAreTyped
  <2>3. confFile'.kind \in {"none", "torn", "whole"}
    BY <1>5, <1>2 DEF RenameConfigDir, FlagsAreTyped, MayRename, NewContent, ConfInv, FilesAreSound, fileVars
  <2> QED
    BY <2>1, <2>2, <2>3 DEF FlagsAreTyped
<1>6. ASSUME NEW p \in ConfProc, Load(p) PROVE FlagsAreTyped'
  <2>1. UNCHANGED <<confFile, migrator, disturbed>> /\ newDir' = (newDir \/ p \in Server)
    BY <1>6 DEF Load, fileVars
  <2>2. newDir' \in BOOLEAN
    BY <2>1, Zenon
  <2> QED
    BY <2>1, <2>2 DEF FlagsAreTyped
<1>7. ASSUME NEW p \in ConfProc, NEW k \in Key, NEW v \in {0, 1}, SetKey(p, k, v) PROVE FlagsAreTyped'
  <2>1. newDir' = TRUE /\ confFile' = Torn /\ UNCHANGED <<migrator, disturbed>>
    BY <1>7 DEF SetKey
  <2> QED
    BY <1>2, <2>1 DEF FlagsAreTyped
<1>8. ASSUME NEW p \in ConfProc, FinishSave(p) PROVE FlagsAreTyped'
  <2>1. UNCHANGED <<newDir, migrator, disturbed>> /\ (confFile' = Whole(conf[p].copy) \/ confFile' = Torn)
    BY <1>8 DEF FinishSave, NewContent
  <2> QED
    BY <1>1, <1>2, <2>1 DEF FlagsAreTyped
<1>9. ASSUME NEW p \in ConfProc, KillProcess(p) PROVE FlagsAreTyped'
  <2>1. /\ UNCHANGED <<confFile, newDir>> /\ migrator' \in {migrator, "killed"}
        /\ disturbed' = (disturbed \/ migrator = p)
    BY <1>9 DEF KillProcess, fileVars
  <2>2. disturbed' \in BOOLEAN
    BY <2>1, Zenon
  <2> QED
    BY <2>1, <2>2 DEF FlagsAreTyped
<1>10. ASSUME NEW n \in {0, 1}, EditByHand(n) PROVE FlagsAreTyped'
  <2>1. UNCHANGED <<newDir, migrator, disturbed>> /\ confFile'.kind = "whole"
    BY <1>10 DEF EditByHand, NewContent
  <2> QED
    BY <2>1 DEF FlagsAreTyped
<1>11. CASE UNCHANGED confVars
  BY <1>11 DEF confVars, fileVars, FlagsAreTyped
<1> QED
  BY <1>3, <1>4, <1>5, <1>6, <1>7, <1>8, <1>9, <1>10, <1>11 DEF ConfNext

LEMMA ConfIsTyped == ConfSpec => []ConfTypeOK
<1>1. ConfInv /\ FlagsAreTyped => ConfTypeOK
  <2> SUFFICES ASSUME ConfInv, FlagsAreTyped PROVE ConfTypeOK
    OBVIOUS
  <2>1. Copies \subseteq Config
    BY DEF Copies, Config
  <2>2. oldFile.kind \in {"none", "whole"}
    BY DEF ConfInv, FilesAreSound, None
  <2>3. shown \in Config /\ \A p \in ConfProc : conf[p].copy \in Config
    BY <2>1 DEF ConfInv, FilesAreSound, ProcessesAreSound, ConfProcess
  <2> QED
    BY <2>2, <2>3 DEF ConfInv, ChangesAreCounted, FlagsAreTyped, ConfTypeOK
<1> QED
  BY <1>1, ConfInitInv, ConfStepInv, FlagsStart, FlagsStep, PTL DEF ConfSpec

-----------------------------------------------------------------------------
(* The saves are within their bound, and own directories those of projects. *)
SavesAreBounded == projectSaves <= MaxRegistrySaves /\ ownDirs \subseteq Path

LEMMA BoundedStep == ProjectsInv /\ SavesAreBounded /\ [ProjectsNext]_projectVars => SavesAreBounded'
<1> SUFFICES ASSUME ProjectsInv, SavesAreBounded, [ProjectsNext]_projectVars PROVE SavesAreBounded'
  OBVIOUS
<1>1. projectSaves \in Nat /\ MaxRegistrySaves \in Nat /\ Outer \subseteq Path
      /\ \A p \in Outer : SubOf[p] \subseteq Path
  BY RegistryFacts, ProjectsAssumption DEF RegistryIsSound
<1>2. ASSUME NEW listed, NEW from, Save(listed, from) \/ UNCHANGED fileOf PROVE projectSaves' <= MaxRegistrySaves
  BY <1>1, <1>2 DEF Save, fileOf, SavesAreBounded
<1>3. ASSUME UNCHANGED fileOf, UNCHANGED ownDirs PROVE SavesAreBounded'
  BY <1>3 DEF fileOf, SavesAreBounded
<1>4. ASSUME NEW c \in Command, CommandStep(c) PROVE SavesAreBounded'
  <2>1. command[c].pc # "idle" => command[c].path \in Outer
    BY RunFacts DEF RunIsSound
  <2>2. ASSUME NEW request, NEW configured, WriteMarkerTmp(c, request, configured) PROVE SavesAreBounded'
    <3>1. UNCHANGED fileOf /\ command[c].pc = "choose" /\ ownDirs' \subseteq ownDirs \cup {command[c].path}
      BY <2>2 DEF WriteMarkerTmp
    <3> QED
      BY <1>1, <2>1, <3>1 DEF fileOf, SavesAreBounded
  <2>3. ASSUME NEW m, NEW found, NEW opened, IndexWithModel(c, m, found, opened) PROVE SavesAreBounded'
    <3>1. /\ UNCHANGED fileOf /\ command[c].pc = "index" /\ ownDirs' = ownDirs \cup opened
          /\ opened \subseteq SubOf[command[c].path]
      BY <2>3 DEF IndexWithModel
    <3> QED
      BY <1>1, <2>1, <3>1 DEF fileOf, SavesAreBounded
  <2>4. CASE SaveRegistry(c)
    <3> DEFINE listed == Register(command[c].entries, command[c].path, command[c].db)
    <3>1. (Save(listed, command[c].since) \/ UNCHANGED fileOf) /\ UNCHANGED ownDirs
      BY <2>4 DEF SaveRegistry
    <3> QED
      BY <1>2, <3>1 DEF SavesAreBounded
  <2>5. ASSUME \/ \E path \in Outer, db \in Where : ReadResumeMarker(c, path, db)
               \/ NothingToIndex(c) \/ BeginRun(c) \/ (\E m \in Model : PassFails(c, m))
               \/ DeleteResumeMarker(c) \/ StopRun(c)
        PROVE  UNCHANGED fileOf /\ UNCHANGED ownDirs
    BY <2>5 DEF ReadResumeMarker, NothingToIndex, BeginRun, PassFails, DeleteResumeMarker, StopRun
  <2> QED
    BY <1>3, <1>4, <2>2, <2>3, <2>4, <2>5 DEF CommandStep
<1>5. CASE StartServer
  BY <1>3, <1>5 DEF StartServer
<1>6. ASSUME NEW path \in Path, NEW found \in SUBSET Path, NEW opened \in SUBSET Path,
             ServerIndex(path, found, opened)
      PROVE  SavesAreBounded'
  <2>1. ownDirs' \subseteq ownDirs \cup opened \cup {path}
    BY <1>6 DEF ServerIndex
  <2>2. \E listed : Save(listed, servedAt) \/ UNCHANGED fileOf
    BY <1>6 DEF ServerIndex
  <2> QED
    BY <1>2, <2>1, <2>2 DEF SavesAreBounded
<1>7. CASE UNCHANGED projectVars
  BY <1>3, <1>7 DEF projectVars
<1>8. CASE \E path \in Path : ServerPassFails(path)
  BY <1>8 DEF ServerPassFails, fileOf, SavesAreBounded
<1> QED
  BY <1>4, <1>5, <1>6, <1>7, <1>8 DEF ProjectsNext, ServerStep

LEMMA ProjectsAreTyped == ProjectsSpec => []ProjectsTypeOK
<1>1. ProjectsInit => SavesAreBounded
  BY ProjectsAssumption DEF ProjectsInit, SavesAreBounded
<1>2. ProjectsInv /\ SavesAreBounded => ProjectsTypeOK
  <2> SUFFICES ASSUME ProjectsInv, SavesAreBounded PROVE ProjectsTypeOK
    OBVIOUS
  <2>1. /\ projectSaves \in 0..MaxRegistrySaves /\ servedAt \in 0..projectSaves
        /\ registryFile \in Registries /\ served \in Registries
    BY RegistryFacts, ProjectsAssumption DEF RegistryIsSound, SavesAreBounded
  <2>2. \A c \in Command : command[c].pc \in RunPlace /\ command[c].models \subseteq Model
    BY RunFacts DEF CommandRun, ModelSets
  <2> QED
    BY <2>1, <2>2 DEF SavesAreBounded, ProjectsTypeOK, Registries, RunPlace
<1> QED
  BY <1>1, <1>2, ProjectsInitInv, ProjectsStepInv, BoundedStep, PTL DEF ProjectsSpec

-----------------------------------------------------------------------------
(* The modules together.                                                   *)

LEMMA PartSteps ==
  [RecordsNext]_recordsVars =>
    /\ [ChunkNext]_chunkVars /\ [NoteNext]_noteVars /\ [ReviewNext]_reviewVars /\ [NagNext]_nagVars
    /\ [LifeNext]_lifeVars /\ [ConfNext]_confVars /\ [ProjectsNext]_projectVars
    /\ [GuardNext]_guardVars /\ [SettingsNext]_settingsVars /\ [TalkNext]_talk
    /\ [DriftNext]_driftVars /\ [Next]_vars
<1> SUFFICES ASSUME [RecordsNext]_recordsVars
             PROVE  /\ [ChunkNext]_chunkVars /\ [NoteNext]_noteVars /\ [ReviewNext]_reviewVars
                    /\ [NagNext]_nagVars /\ [LifeNext]_lifeVars /\ [ConfNext]_confVars
                    /\ [ProjectsNext]_projectVars /\ [GuardNext]_guardVars
                    /\ [SettingsNext]_settingsVars /\ [TalkNext]_talk /\ [DriftNext]_driftVars
                    /\ [Next]_vars
  OBVIOUS
<1>1. [ChunkNext]_chunkVars
  BY DEF RecordsNext, recordsVars, shortVars
<1>2. [NoteNext]_noteVars
  BY DEF RecordsNext, recordsVars, shortVars
<1>3. [ReviewNext]_reviewVars
  BY DEF RecordsNext, recordsVars, shortVars
<1>4. [NagNext]_nagVars
  BY DEF RecordsNext, recordsVars, shortVars
<1>5. [LifeNext]_lifeVars
  BY DEF RecordsNext, recordsVars, shortVars
<1>6. [ConfNext]_confVars
  BY DEF RecordsNext, recordsVars, shortVars
<1>7. [ProjectsNext]_projectVars
  <2>1. ASSUME NEW c \in Command, CommandStep(c) PROVE ProjectsNext
    BY <2>1 DEF ProjectsNext
  <2>2. ServerStep => ProjectsNext
    BY DEF ProjectsNext
  <2> QED
    BY <2>1, <2>2 DEF RecordsNext, recordsVars, shortVars
<1>8. [Next]_vars
  BY DEF RecordsNext, recordsVars, cacheVars
<1>9. [GuardNext]_guardVars
  BY DEF RecordsNext, recordsVars
<1>10. [SettingsNext]_settingsVars
  BY DEF RecordsNext, recordsVars, shortVars
<1>11. [TalkNext]_talk
  BY DEF RecordsNext, recordsVars, talkVars
<1>12. [DriftNext]_driftVars
  BY DEF RecordsNext, recordsVars
<1> QED
  BY <1>1, <1>2, <1>3, <1>4, <1>5, <1>6, <1>7, <1>8, <1>9, <1>10, <1>11, <1>12

LEMMA PartSpecs ==
  RecordsSpec =>
    /\ ChunkSpec /\ NoteSpec /\ ReviewSpec /\ NagSpec /\ LifeSpec /\ ConfSpec /\ ProjectsSpec
    /\ GuardSpec /\ SettingsSpec /\ TalkSpec /\ DriftSpec /\ Spec
<1>1. RecordsInit => /\ ChunkInit /\ NoteInit /\ ReviewInit /\ NagInit /\ LifeInit /\ ConfInit
                     /\ ProjectsInit /\ GuardInit /\ SettingsInit /\ TalkInit /\ DriftInit /\ Init
  BY DEF RecordsInit
<1> QED
  BY <1>1, PartSteps, PTL
     DEF RecordsSpec, ChunkSpec, NoteSpec, ReviewSpec, NagSpec, LifeSpec, ConfSpec, ProjectsSpec, GuardSpec,
         SettingsSpec, TalkSpec, DriftSpec, Spec

(* A behaviour of the modules together is one of each of them, so that     *)
(* what is proved of each holds of them together, whatever their bounds.   *)
THEOREM RecordsKeepTheirParts ==
  RecordsSpec =>
    /\ []ChunksCover /\ NoteOncePerWindow /\ ReviewShownOnce /\ UsedIsKept
    /\ OnlyStaleCopiesUndo /\ []RunsAreFoundAgain /\ EntriesLeaveOnlyByOverlap
    /\ []VerdictsHold /\ ChangesUndoNothing /\ []CapOvershoot
    /\ ({"save", "read"} \cap NagFaults = {} => NagExactly)
BY PartSpecs, ChunksCoverTheFile, NotesAreSpaced, ReviewsAreShownOnce, UseIsKept, SetStaysSet,
   RunsAreFound, EntriesLeaveByOverlap, VerdictsAreHeld, ChangesAreKept, CapIsOvershotLittle,
   NagIsExact, PTL

(* What the readers make of a session is right, of its transcript and of   *)
(* its log, whatever is said and in whatever order the hooks and Claude    *)
(* Code write, if no line is too long for the scanners of the Stop hook    *)
(* and the messages of the two who talk name their role.                   *)
THEOREM SessionsAreReadFairly ==
  ~HugeLines /\ Nameless \subseteq {"system"} /\ RecordsSpec => []SessionIsReadFairly
<1> SUFFICES ASSUME ~HugeLines, Nameless \subseteq {"system"} PROVE RecordsSpec => []SessionIsReadFairly
  OBVIOUS
<1>1. TalkSpec => []ReadersAgree
  BY ReadersDoAgree
<1>2. ReadersAgree /\ ReportIsFair => SessionIsReadFairly
  BY DEF SessionIsReadFairly
<1> QED
  BY <1>1, <1>2, PartSpecs, ReportsAreFair, PTL

(* Whatever is kept beside the index is at every moment what the next      *)
(* process can read: the files, the registry, the configuration and the    *)
(* settings are whole or known to be torn, the logs hold lines of their    *)
(* kinds, and every process is at one of its steps.                        *)
THEOREM RecordsTypeCorrect == RecordsSpec => []RecordsTypeOK
<1>1. TalkSpec => []TalkTypeOK
  BY TalkStart, TalkStep, TalkIsTyped, PTL DEF TalkSpec
<1>2. DriftSpec => []DriftTypeOK
  BY DriftStart, DriftStep, PTL DEF DriftSpec
<1>3. NoteSpec => []NoteTypeOK
  <2>1. NoteInv => NoteTypeOK
    BY DEF NoteInv
  <2> QED
    BY <2>1, NoteInvInit, NoteInvStep, PTL DEF NoteSpec
<1>4. ReviewSpec => []ReviewTypeOK
  <2>1. ReviewInv => ReviewTypeOK
    BY DEF ReviewInv
  <2> QED
    BY <2>1, ReviewInvInit, ReviewInvStep, PTL DEF ReviewSpec
<1>5. ChunkSpec => []ChunkTypeOK
  <2>1. ChunkInv => ChunkTypeOK
    BY DEF ChunkInv
  <2> QED
    BY <2>1, ChunkInvHolds, PTL
<1>6. /\ TalkTypeOK /\ DriftTypeOK /\ GuardTypeOK /\ ConfTypeOK /\ ProjectsTypeOK
      /\ NagTypeOK /\ NoteTypeOK /\ ReviewTypeOK /\ SettingsTypeOK /\ LifeTypeOK /\ ChunkTypeOK
      => RecordsTypeOK
  BY DEF RecordsTypeOK
<1> QED
  BY <1>1, <1>2, <1>3, <1>4, <1>5, <1>6, PartSpecs, GuardTypeCorrect, ConfIsTyped, ProjectsAreTyped,
     NagTypeCorrect, SettingsTypeCorrect, LifeTypeCorrect, PTL
=============================================================================
