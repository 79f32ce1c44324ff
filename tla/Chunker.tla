------------------------------ MODULE Chunker ------------------------------
(***************************************************************************)
(* How a file is cut into chunks (internal/heimdall/indexer.go,            *)
(* chunkFile): a short file is one chunk; of a longer one lines are        *)
(* gathered until the next would make the chunk too long.  A step is one   *)
(* line of the file.                                                       *)
(*                                                                         *)
(* A file is the offsets at which its lines end: the last one is its       *)
(* length, and two of them tell the length of the line between.  An empty  *)
(* line at the start of a chunk leaves the buffer empty: it is counted in  *)
(* the range of the chunk, and not in its text.                            *)
(***************************************************************************)
EXTENDS Integers, Sequences

CONSTANTS Texts,         \* files
          MaxChunkSize

ASSUME ChunkerAssumption ==
  /\ MaxChunkSize \in Nat
  /\ \A t \in Texts : /\ t \in Seq(Nat) /\ t # <<>>
                      /\ \A i, j \in DOMAIN t : i < j => t[i] < t[j]

VARIABLES lineEnds,      \* the file
          lineNum,       \* the line that is looked at, 0 before the first
          startLine,     \* the first line of the chunk being gathered
          bufLen,        \* the length of its text
          cuts           \* the chunks made so far

chunkVars == <<lineEnds, lineNum, startLine, bufLen, cuts>>

ChunkInit ==
  /\ lineEnds \in Texts
  /\ lineNum = 0 /\ startLine = 1 /\ bufLen = 0 /\ cuts = <<>>

Lines == 1..Len(lineEnds)
ContentLength == lineEnds[Len(lineEnds)]
LineLength(l) == IF l = 1 THEN lineEnds[1] ELSE lineEnds[l] - lineEnds[l - 1] - 1

FileIsRead == lineNum > Len(lineEnds) + 1
Cut(last) == Append(cuts, [first |-> startLine, last |-> last, size |-> bufLen])

(* A file without content has no chunk, a short one has one. *)
ReadFile ==
  /\ lineNum = 0
  /\ IF ContentLength <= MaxChunkSize
       THEN /\ lineNum' = Len(lineEnds) + 2
            /\ cuts' = IF ContentLength = 0 THEN cuts
                       ELSE <<[first |-> 1, last |-> Len(lineEnds), size |-> ContentLength]>>
       ELSE lineNum' = 1 /\ UNCHANGED cuts
  /\ UNCHANGED <<lineEnds, startLine, bufLen>>

(* Mutant: the line break is not counted. *)
FullWithoutBreak(gathered, length) == gathered + length > MaxChunkSize /\ gathered > 0

Full(gathered, length) == gathered + length + 1 > MaxChunkSize /\ gathered > 0

AddLine ==
  LET length == LineLength(lineNum)
      full == Full(bufLen, length)
  IN /\ lineNum \in Lines
     /\ lineNum' = lineNum + 1
     /\ cuts' = IF full THEN Cut(lineNum - 1) ELSE cuts
     /\ startLine' = IF full THEN lineNum ELSE startLine
     /\ bufLen' = IF full \/ bufLen = 0 THEN length ELSE bufLen + 1 + length
     /\ UNCHANGED lineEnds

FlushRest ==
  /\ lineNum = Len(lineEnds) + 1
  /\ lineNum' = lineNum + 1
  /\ cuts' = IF bufLen > 0 THEN Cut(Len(lineEnds)) ELSE cuts
  /\ UNCHANGED <<lineEnds, startLine, bufLen>>

ChunkNext == ReadFile \/ AddLine \/ FlushRest

ChunkSpec == ChunkInit /\ [][ChunkNext]_chunkVars

-----------------------------------------------------------------------------
ChunkTypeOK ==
  /\ lineEnds \in Texts
  /\ lineNum \in 0..Len(lineEnds) + 2
  /\ startLine \in Lines /\ bufLen \in Nat
  /\ cuts \in Seq([first : Lines, last : Lines, size : Nat])

InOneLine(first, last) ==
  \A l, m \in first..last : LineLength(l) > 0 /\ LineLength(m) > 0 => l = m

Fits(c) == c.first <= c.last /\ c.size > 0 /\ (c.size <= MaxChunkSize \/ InOneLine(c.first, c.last))
InOrder == \A i, j \in DOMAIN cuts : i < j => cuts[i].last < cuts[j].first
Covered(l) == \E i \in DOMAIN cuts : l \in cuts[i].first..cuts[i].last

(* Chunks have line ranges of their own, by which their rows are told      *)
(* apart, and in the order of the file; every line with text in it is in   *)
(* one of them, once the file is read; none is empty, and none is longer   *)
(* than MaxChunkSize unless a single line is.                              *)
ChunksCover ==
  /\ \A i \in DOMAIN cuts : Fits(cuts[i])
  /\ InOrder
  /\ FileIsRead => \A l \in Lines : LineLength(l) > 0 => Covered(l)
=============================================================================
