-------------------------- MODULE IndexStateProofs --------------------------
(***************************************************************************)
(* The report of background indexing is of one run, for any number of      *)
(* overlapping runs, directories and files and whatever fails. The run     *)
(* that is indexing is the only one that Running speaks of; the runs of    *)
(* before it are past their last write of IndexState, except Cancel.       *)
(***************************************************************************)
EXTENDS IndexState, SequenceTheorems, TLAPS

(* An indexer that is in a file has one left. *)
AtFile == \A r \in Run : xpc[r] \in {"send", "work", "hung"} => left[r] # 0
TInv == TypeOK /\ AtFile

(* Files still to read, after one more. *)
LEMMA OneLess == ASSUME NEW n \in Nat, NEW k \in 0..n, k # 0 PROVE k - 1 \in 0..n
OBVIOUS

LEMMA NoneLeft == 0 \in 0..MaxFiles
BY BoundsAssumption

LEMMA TypeStep == TInv /\ [Next]_vars => TInv'
<1> SUFFICES ASSUME TInv, [Next]_vars PROVE TInv'
  OBVIOUS
<1> USE CwdAssumption, BoundsAssumption, NullAssumption
    DEF TInv, TypeOK, AtFile, Errors, RunnerStep, IndexerStep
<1>1. ASSUME NEW r \in Run, NEW p \in Path, FillIn(r, p) PROVE TInv'
  <2>1. <<>> \in Seq(Message)
    BY EmptySeq
  <2> QED BY <1>1, <2>1 DEF FillIn, world
<1>2. ASSUME NEW p \in Path, TakeResult(p) PROVE TInv'
  BY <1>2 DEF TakeResult, runners, indexers, world
<1>3. ASSUME NEW r \in Run, PingFails(r) \/ OpenFails(r) \/ Stall(r) \/ ContextDone(r) PROVE TInv'
  BY <1>3 DEF PingFails, OpenFails, Stall, ContextDone, EndWith, RunnerGo, indexers, world
<1>4. ASSUME NEW r \in Run, Ping(r) \/ PostPhase(r) PROVE TInv'
  BY <1>4 DEF Ping, PostPhase, RunnerGo, state, indexers, world
<1>5. ASSUME NEW r \in Run, OpenStore(r) PROVE TInv'
  BY ZenonT(60), <1>5 DEF OpenStore, RunnerGo, state
<1>6. ASSUME NEW r \in Run, NEW to \in RunnerStep, Receive(r, to)
      PROVE /\ rpc' \in [Run -> RunnerStep]
            /\ channel' \in [Run -> Seq(Message)]
            /\ Head(channel[r]) \in Message
  <2>1. channel[r] \in Seq(Message) /\ channel[r] # <<>>
    BY <1>6 DEF Receive
  <2>2. Tail(channel[r]) \in Seq(Message) /\ Head(channel[r]) \in Message
    BY <2>1, HeadTailProperties
  <2> QED BY <1>6, <2>2 DEF Receive, RunnerGo
<1>7. ASSUME NEW r \in Run, ReceiveProgress(r) PROVE TInv'
  BY <1>6, <1>7 DEF ReceiveProgress, state, world
<1>8. ASSUME NEW r \in Run, ReceiveDone(r) PROVE TInv'
  <2>1. PICK to \in {"cleanup", "post"} : Receive(r, to)
    BY <1>8 DEF ReceiveDone
  <2> QED BY <1>6, <1>8, <2>1 DEF ReceiveDone
<1>9. ASSUME NEW r \in Run, CleanUp(r) PROVE TInv'
  BY <1>9 DEF CleanUp, RunnerGo, indexers, world
<1>10. ASSUME NEW r \in Run, Expire(r) PROVE TInv'
  BY <1>10 DEF Expire, state, indexers, world
<1>11. ASSUME NEW r \in Run, NextFile(r) PROVE TInv'
  BY <1>11 DEF NextFile, IndexerGo, state, runners, world
<1>12. ASSUME NEW r \in Run, NEW m \in Message, channel' = [channel EXCEPT ![r] = Append(@, m)]
       PROVE channel' \in [Run -> Seq(Message)]
  <2>1. Append(channel[r], m) \in Seq(Message)
    BY AppendProperties
  <2> QED BY <1>12, <2>1
<1>13. ASSUME NEW r \in Run, SendProgress(r) PROVE TInv'
  BY <1>12, <1>13 DEF SendProgress, IndexerGo, Message, state, runners, world
<1>14. ASSUME NEW r \in Run, NEW from \in {"work", "hung"}, IndexFile(r, from) PROVE TInv'
  <2>1. xpc[r] = from /\ xpc' = [xpc EXCEPT ![r] = "next"]
    BY <1>14 DEF IndexFile, IndexerGo
  <2>2. left' = [left EXCEPT ![r] = left[r] - 1]
    BY <1>14 DEF IndexFile
  <2>7. left[r] \in 0..MaxFiles /\ left[r] # 0
    BY <2>1
  <2>8. left[r] - 1 \in 0..MaxFiles
    BY <2>7, OneLess
  <2>9. left' \in [Run -> 0..MaxFiles] /\ xpc' \in [Run -> IndexerStep]
    BY <2>1, <2>2, <2>8
  <2>10. \A q \in Run : xpc'[q] \in {"send", "work", "hung"} => left'[q] # 0
    BY <2>1, <2>2
  <2>3. left' \in [Run -> 0..MaxFiles] /\ xpc' \in [Run -> IndexerStep] /\ AtFile'
    BY <2>9, <2>10
  <2>4. PICK e \in {entries[rpath[r]], IF entries[rpath[r]] = "new" THEN "new" ELSE mtime[rpath[r]]} :
              entries' = [entries EXCEPT ![rpath[r]] = e]
    BY <1>14 DEF IndexFile
  <2>5. entries' \in [Path -> {"none", "empty", "new", "old"}]
    <3>1. CASE rpath[r] \in Path
      <4>1. e \in {"none", "empty", "new", "old"}
        BY <2>4, <3>1
      <4> QED BY <2>4, <4>1
    <3>2. CASE rpath[r] \notin Path
      BY <2>4, <3>2
    <3> QED BY <3>1, <3>2
  <2>6. UNCHANGED <<state, runners, channel, mtime>>
    BY <1>14 DEF IndexFile
  <2> QED BY <2>3, <2>5, <2>6 DEF state, runners
<1>15. ASSUME NEW r \in Run, Hang(r) PROVE TInv'
  BY <1>15 DEF Hang, IndexerGo, state, runners, world
<1>16. ASSUME NEW r \in Run, SendDone(r) PROVE TInv'
  <2>1. PICK m \in {"ok", "failed"} : channel' = [channel EXCEPT ![r] = Append(@, m)]
    BY <1>16 DEF SendDone
  <2>2. channel' \in [Run -> Seq(Message)]
    BY <1>12, <2>1 DEF Message
  <2>3. /\ xpc' = [xpc EXCEPT ![r] = "none"] /\ left' = [left EXCEPT ![r] = 0]
        /\ UNCHANGED <<state, runners, world>>
    BY <1>16 DEF SendDone, IndexerGo
  <2>4. left' \in [Run -> 0..MaxFiles] /\ xpc' \in [Run -> IndexerStep]
    BY <2>3, NoneLeft
  <2>5. \A q \in Run : xpc'[q] \in {"send", "work", "hung"} => left'[q] # 0
    BY <2>3
  <2>6. AtFile'
    BY <2>5
  <2>7. TypeOK'
    BY <2>2, <2>3, <2>4 DEF state, runners, world
  <2> QED BY <2>6, <2>7
<1>17. ASSUME NEW p \in Path, EditFile(p) PROVE TInv'
  BY <1>17 DEF EditFile, state, runners, indexers
<1>18. CASE HalfHour
  BY <1>18 DEF HalfHour, state, runners, indexers
<1>19. CASE UNCHANGED vars
  BY <1>19 DEF vars, state, runners, indexers, world
<1> QED
  BY <1>1, <1>2, <1>3, <1>4, <1>5, <1>7, <1>8, <1>9, <1>10, <1>11, <1>13, <1>14, <1>15, <1>16,
     <1>17, <1>18, <1>19
  DEF Next, Runner, Indexer, StartIndex, SearchStarts, Start

(* The run that is indexing is alone, so a step that clears Running leaves *)
(* no run behind that is indexing, and a step that sets it found none.     *)
LEMMA ReportStep ==
  TInv /\ RunningIsOneRun /\ ReportIsOfOneRun /\ [Next]_vars
    => (RunningIsOneRun /\ ReportIsOfOneRun)'
<1> SUFFICES ASSUME TInv, RunningIsOneRun, ReportIsOfOneRun, [Next]_vars
             PROVE (RunningIsOneRun /\ ReportIsOfOneRun)'
  OBVIOUS
<1> USE NullAssumption DEF TInv, TypeOK, RunningIsOneRun, ReportIsOfOneRun, Indexing
<1> DEFINE Report == RunningIsOneRun /\ ReportIsOfOneRun
<1>1. ASSUME NEW r \in Run, NEW p \in Path, Start(r, p) PROVE Report'
  BY <1>1 DEF Start, FillIn
<1>2. ASSUME NEW p \in Path, TakeResult(p) PROVE Report'
  BY <1>2 DEF TakeResult, runners
<1>3. ASSUME NEW r \in Run, PingFails(r) \/ OpenFails(r) \/ Stall(r) \/ ContextDone(r)
      PROVE Report'
  BY <1>3 DEF PingFails, OpenFails, Stall, ContextDone, EndWith, RunnerGo
<1>4. ASSUME NEW r \in Run, Ping(r) \/ PostPhase(r) \/ OpenStore(r) PROVE Report'
  <2>1. UNCHANGED state /\ rpath' = rpath
    BY <1>4 DEF Ping, PostPhase, OpenStore
  <2>2. \A q \in Run : rpc'[q] \in Indexing <=> rpc[q] \in Indexing
    BY <1>4 DEF Ping, PostPhase, OpenStore, RunnerGo
  <2> QED BY <2>1, <2>2 DEF state
<1>5. ASSUME NEW r \in Run, ReceiveProgress(r) PROVE Report'
  BY <1>5 DEF ReceiveProgress, Receive, RunnerGo, state
<1>6. ASSUME NEW r \in Run, ReceiveDone(r) PROVE Report'
  BY <1>6 DEF ReceiveDone, Receive, RunnerGo
<1>7. ASSUME NEW r \in Run, CleanUp(r) PROVE Report'
  BY <1>7 DEF CleanUp, RunnerGo
<1>8. ASSUME NEW r \in Run, Expire(r) PROVE Report'
  BY <1>8 DEF Expire, state
<1>9. ASSUME UNCHANGED <<state, runners>> PROVE Report'
  BY <1>9 DEF state, runners
<1>10. ASSUME NEW r \in Run, Indexer(r) \/ IndexFile(r, "hung") \/ Hang(r) PROVE Report'
  BY <1>9, <1>10 DEF Indexer, NextFile, SendProgress, IndexFile, SendDone, Hang
<1>11. ASSUME (\E p \in Path : EditFile(p)) \/ HalfHour \/ UNCHANGED vars PROVE Report'
  BY <1>9, <1>11 DEF EditFile, HalfHour, vars
<1> QED BY <1>1, <1>2, <1>3, <1>4, <1>5, <1>6, <1>7, <1>8, <1>10, <1>11
        DEF Next, Runner, StartIndex, SearchStarts

LEMMA Initially == Init => TInv /\ RunningIsOneRun /\ ReportIsOfOneRun
<1> SUFFICES ASSUME Init PROVE TInv /\ RunningIsOneRun /\ ReportIsOfOneRun
  OBVIOUS
<1>1. <<>> \in Seq(Message)
  BY EmptySeq
<1>2. channel \in [Run -> Seq(Message)]
  BY <1>1 DEF Init
<1>3. left \in [Run -> 0..MaxFiles]
  BY NoneLeft DEF Init
<1>5. TypeOK
  BY <1>2, <1>3 DEF Init, TypeOK, Errors, RunnerStep, IndexerStep
<1>6. \A r \in Run : xpc[r] = "none" /\ rpc[r] = "idle"
  BY DEF Init
<1>7. AtFile
  BY <1>6 DEF AtFile
<1>8. RunningIsOneRun /\ ReportIsOfOneRun
  BY <1>6 DEF Init, RunningIsOneRun, ReportIsOfOneRun, Indexing
<1> QED BY <1>5, <1>7, <1>8 DEF TInv

(* Every variable keeps its type.                                          *)
THEOREM TypeCorrect == Spec => []TypeOK
<1>1. TInv => TypeOK
  BY DEF TInv
<1> QED BY <1>1, Initially, TypeStep, PTL DEF Spec

(* Running is true exactly while one run is indexing: no two runs index at *)
(* a time by the word of IndexState, and no ended run keeps it set.        *)
THEOREM RunningSpeaksOfOneRun == Spec => []RunningIsOneRun
BY Initially, TypeStep, ReportStep, PTL DEF Spec

(* The result and the error that status and index report are of the last   *)
(* run that was started, and of its directory.                             *)
THEOREM ReportCorrect == Spec => []ReportIsOfOneRun
BY Initially, TypeStep, ReportStep, PTL DEF Spec

(* Flag and report together speak of one run, whichever runs are ending.   *)
THEOREM StateSpeaksOfOneRun == Spec => []StateIsOfOneRun
<1>1. RunningIsOneRun /\ ReportIsOfOneRun => StateIsOfOneRun
  BY DEF StateIsOfOneRun
<1> QED
  BY <1>1, RunningSpeaksOfOneRun, ReportCorrect, PTL
=============================================================================
