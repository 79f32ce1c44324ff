------------------------------ MODULE HookLog ------------------------------
(***************************************************************************)
(* hooks.log, which every hook process and the server append to, and its   *)
(* predecessor hooks.log.1 (internal/heimdall/hooklog.go).  A process      *)
(* looks at the size, renames a full log away, opens the path and appends, *)
(* with nothing that keeps other processes out.  A file is its lines; it   *)
(* keeps its number when it is renamed, so a writer or a follower that has *)
(* it open goes on with it.  All lines are of length 1.                    *)
(***************************************************************************)
EXTENDS Integers, Sequences, FiniteSets, Functions

CONSTANTS Writer,    \* processes that log
          LogMax,    \* hookLogMaxBytes
          MaxLines   \* bound: lines ever logged

ASSUME LogAssumption ==
  LogMax \in Nat \ {0} /\ MaxLines \in Nat /\ IsFiniteSet(Writer)

VARIABLES files,     \* the lines of every file there ever was, by its number
          kept,      \* history: how often each file stayed though it was full
          cur,       \* the file at hooks.log, 0 for none
          old,       \* the file at hooks.log.1, 0 for none
          logger,    \* what each writer is doing
          lines,     \* lines logged so far
          follower   \* hooks tail --follow: its step, file, offset, output

logVars == <<files, kept, cur, old, logger, lines, follower>>

IdleLogger == [pc |-> "idle", line |-> 0, file |-> 0]
Size(f) == IF f = 0 THEN 0 ELSE Len(files[f])

LogTypeOK ==
  /\ files \in Seq(Seq(1..MaxLines)) /\ lines \in 0..MaxLines
  /\ kept \in Seq(Nat) /\ Len(kept) = Len(files)
  /\ cur \in 0..Len(files) /\ old \in 0..Len(files)
  /\ logger \in [Writer -> [pc : {"idle", "rotate", "open", "write"},
                            line : 0..MaxLines, file : 0..Len(files)]]
  /\ follower \in [step : {"none", "read", "wait", "reopen", "failed"},
                  file : 0..Len(files), pos : Nat, out : Seq(1..MaxLines)]

LogInit ==
  /\ files = <<>> /\ kept = <<>> /\ cur = 0 /\ old = 0 /\ lines = 0
  /\ logger = [p \in Writer |-> IdleLogger]
  /\ follower = [step |-> "none", file |-> 0, pos |-> 0, out |-> <<>>]

(* Mutant: the line itself is not counted. *)
MustRotateLate == cur # 0 /\ Size(cur) > LogMax

(* The log is full when the line would not fit; no file is not full. *)
MustRotate == cur # 0 /\ Size(cur) + 1 > LogMax

(* LogHookEvent: the line is formatted, then the size is looked at. *)
LogHookEvent(p) ==
  /\ logger[p].pc = "idle" /\ lines < MaxLines
  /\ lines' = lines + 1
  /\ logger' = [logger EXCEPT ![p] =
       [pc |-> IF MustRotate THEN "rotate" ELSE "open", line |-> lines + 1, file |-> 0]]
  /\ UNCHANGED <<files, kept, cur, old, follower>>

(* rotateHookLog renames what is at the path by now. The error of a rename *)
(* is ignored, and the writer goes on to append to the full file.          *)
RotateHookLog(p) ==
  /\ logger[p].pc = "rotate"
  /\ logger' = [logger EXCEPT ![p].pc = "open"]
  /\ \/ cur = 0 /\ UNCHANGED <<cur, old, kept>>
     \/ cur # 0 /\ cur' = 0 /\ old' = cur /\ UNCHANGED kept
     \/ cur # 0 /\ kept' = [kept EXCEPT ![cur] = @ + 1] /\ UNCHANGED <<cur, old>>
  /\ UNCHANGED <<files, lines, follower>>

(* O_APPEND|O_CREATE. *)
OpenLog(p) ==
  /\ logger[p].pc = "open"
  /\ IF cur # 0 THEN UNCHANGED <<files, kept, cur>>
     ELSE files' = Append(files, <<>>) /\ kept' = Append(kept, 0) /\ cur' = Len(files) + 1
  /\ logger' = [logger EXCEPT ![p].pc = "write", ![p].file = cur']
  /\ UNCHANGED <<old, lines, follower>>

WriteLine(p) ==
  /\ logger[p].pc = "write"
  /\ files' = [files EXCEPT ![logger[p].file] = Append(@, logger[p].line)]
  /\ logger' = [logger EXCEPT ![p] = IdleLogger]
  /\ UNCHANGED <<kept, cur, old, lines, follower>>

(* A directory, open or write that fails, or the process is killed: the    *)
(* line is dropped and nobody is told.                                     *)
DropLine(p) ==
  /\ logger[p].pc # "idle"
  /\ logger' = [logger EXCEPT ![p] = IdleLogger]
  /\ UNCHANGED <<files, kept, cur, old, lines, follower>>

-----------------------------------------------------------------------------
(* hooks tail --follow: OpenHookLog(0, true) and followingReader.Read. *)
Follows(from, to) ==
  /\ follower.step = from
  /\ follower' = to
  /\ UNCHANGED <<files, kept, cur, old, logger, lines>>

OpenHookLog ==
  /\ cur # 0
  /\ Follows("none", [follower EXCEPT !.step = "read", !.file = cur])

ReadLine ==
  /\ follower.pos < Size(follower.file)
  /\ Follows("read", [follower EXCEPT !.pos = @ + 1,
                        !.out = Append(@, files[follower.file][follower.pos + 1])])

(* At the end of the file it waits; lines may come in the meantime. *)
SeeEnd ==
  /\ follower.pos = Size(follower.file)
  /\ Follows("read", [follower EXCEPT !.step = "wait"])

(* Mutant: the size is asked of the open file, not of the path. *)
StatHandle ==
  Follows("wait", [follower EXCEPT !.step =
    IF cur # 0 /\ Size(follower.file) < follower.pos THEN "reopen" ELSE "read"])

(* maybeReopen: what is at the path by now is looked at, and if it is      *)
(* shorter than what was read ...                                          *)
StatPath ==
  Follows("wait", [follower EXCEPT !.step =
    IF cur # 0 /\ Size(cur) < follower.pos THEN "reopen" ELSE "read"])

(* ... the file is closed and the path opened, which may be another file   *)
(* again. If it cannot be opened, the closed file fails the next read.     *)
MaybeReopen ==
  \/ cur # 0 /\ Follows("reopen", [follower EXCEPT !.step = "read", !.file = cur, !.pos = 0])
  \/ Follows("reopen", [follower EXCEPT !.step = "failed"])

LogNext ==
  \/ \E p \in Writer : LogHookEvent(p) \/ RotateHookLog(p) \/ OpenLog(p)
                       \/ WriteLine(p) \/ DropLine(p)
  \/ OpenHookLog \/ ReadLine \/ SeeEnd \/ StatPath \/ MaybeReopen

(* The follower polls every 200 ms; writers need not go on. *)
LogFairness ==
  WF_logVars(ReadLine) /\ WF_logVars(SeeEnd) /\ WF_logVars(StatPath) /\ WF_logVars(MaybeReopen)

-----------------------------------------------------------------------------
(* A file grows past the limit by no more than one line for each writer    *)
(* but one, which may all have looked at the size before any of them       *)
(* wrote, and one for each time its own rename failed.                     *)
LogBounded ==
  \A f \in DOMAIN files : Len(files[f]) <= LogMax + Cardinality(Writer) - 1 + kept[f]

(* However often the log is renamed under it, also between its look and    *)
(* its reopening, the follower prints no line twice: what it opens again   *)
(* is another file.                                                        *)
FollowerNeverRepeats == IsInjective(follower.out)

(* The log under its writers and its follower, at any time. *)
LogSound == LogBounded /\ FollowerNeverRepeats

(* A follower left behind on a renamed file goes over to the new log if    *)
(* that stays shorter than what the follower has read, or ends with an     *)
(* error: it does not stay on the old file in silence.                     *)
FollowerMovesOn ==
  (follower.step # "none" /\ cur \notin {0, follower.file} /\ Size(cur) < follower.pos)
    ~> (follower.step = "failed" \/ cur \in {0, follower.file} \/ Size(cur) >= follower.pos)
=============================================================================
