------------------------------ MODULE Buffers ------------------------------
(***************************************************************************)
(* The rolling buffer of a session of Claude Code, a file <id>.jsonl in    *)
(* the project's .heimdall_db/hooks: the Stop hook appends to it, the end  *)
(* of the session removes it, and the start of any session moves away what *)
(* ended sessions left (internal/cli/hook_stop.go).  Each hook is a        *)
(* process of its own; the sessions overlap, and a reboot or an overrun    *)
(* budget kills hooks.                                                     *)
(***************************************************************************)
EXTENDS Integers

CONSTANTS Session,
          Grace,       \* orphanBufferGracePeriod
          MaxNow       \* bound of the clock

ASSUME BufferAssumption == Grace \in Nat /\ MaxNow \in Nat

VARIABLES now,
          open,      \* the sessions that are open
          buffer,    \* the mtime of <id>.jsonl, NoBuffer for none
          stopper,   \* the Stop hook of a session: the file it has open is
                     \* its buffer still, or is away
          ending,    \* sessions whose SessionEnd hook runs
          sweeper    \* the SessionStart hook of a session: the listed
                     \* buffers it has not looked at, the one it moves

bufferVars == <<now, open, buffer, stopper, ending, sweeper>>

NoBuffer == -1
Buffered == {s \in Session : buffer[s] # NoBuffer}
IdleSweeper == [on |-> FALSE, todo |-> {}, pick |-> {}]

BufferTypeOK ==
  /\ now \in 0..MaxNow /\ open \subseteq Session /\ ending \subseteq Session
  /\ buffer \in [Session -> -1..MaxNow]
  /\ stopper \in [Session -> {"idle", "fired", "buffer", "away"}]
  /\ sweeper \in [Session -> [on : BOOLEAN, todo : SUBSET Session, pick : SUBSET Session]]

BufferInit ==
  /\ now \in 0..MaxNow /\ open = {} /\ ending = {}
  /\ buffer = [s \in Session |-> NoBuffer] /\ stopper = [s \in Session |-> "idle"]
  /\ sweeper = [s \in Session |-> IdleSweeper]

(* The file with the name is gone, and with it what a Stop hook has open. *)
NameGoes(b) ==
  /\ buffer' = [buffer EXCEPT ![b] = NoBuffer]
  /\ stopper' = [stopper EXCEPT ![b] = IF @ = "buffer" THEN "away" ELSE @]

-----------------------------------------------------------------------------
(* HookStop, which the project's hooks.disabled does not stop: it opens    *)
(* the buffer, looks at its size and appends, unless the buffer is full.   *)
StopFires(s) ==
  /\ s \in open /\ stopper[s] = "idle"
  /\ stopper' = [stopper EXCEPT ![s] = "fired"]
  /\ UNCHANGED <<now, open, buffer, ending, sweeper>>

OpenBuffer(s) ==
  /\ stopper[s] = "fired"
  /\ stopper' = [stopper EXCEPT ![s] = "buffer"]
  /\ buffer' = [buffer EXCEPT ![s] = IF @ = NoBuffer THEN now ELSE @]
  /\ UNCHANGED <<now, open, ending, sweeper>>

AppendBuffer(s) ==
  /\ stopper[s] \in {"buffer", "away"}
  /\ stopper' = [stopper EXCEPT ![s] = "idle"]
  /\ \/ stopper[s] = "buffer" /\ buffer' = [buffer EXCEPT ![s] = now]
     \/ UNCHANGED buffer
  /\ UNCHANGED <<now, open, ending, sweeper>>

(* HookSessionEnd: the review is written (Reviews), then the buffer        *)
(* removed; the hook may be killed before that.                            *)
SessionEnds(s) ==
  /\ s \in open
  /\ open' = open \ {s} /\ ending' = ending \cup {s}
  /\ UNCHANGED <<now, buffer, stopper, sweeper>>

RemoveBuffer(s) ==
  /\ s \in ending
  /\ ending' = ending \ {s}
  /\ NameGoes(s)
  /\ UNCHANGED <<now, open, sweeper>>

EndKilled(s) ==
  /\ s \in ending
  /\ ending' = ending \ {s}
  /\ UNCHANGED <<now, open, buffer, stopper, sweeper>>

-----------------------------------------------------------------------------
(* HookSessionStart, of a new session or one that is resumed: a disabled   *)
(* project stops it, otherwise sweepOrphanBuffers lists the buffers.       *)
SessionStarts(s) ==
  /\ s \notin open \cup ending /\ ~sweeper[s].on
  /\ open' = open \cup {s}
  /\ \/ sweeper' = [sweeper EXCEPT ![s] = [on |-> TRUE, todo |-> Buffered, pick |-> {}]]
     \/ UNCHANGED sweeper
  /\ UNCHANGED <<now, buffer, stopper, ending>>

(* Mutant: what is younger than the grace period is moved. *)
LookAtBufferAfter(s, b) ==
  /\ sweeper[s].pick = {} /\ b \in sweeper[s].todo
  /\ sweeper' = [sweeper EXCEPT ![s].todo = @ \ {b},
       ![s].pick = IF b \in Buffered /\ buffer[b] > now - Grace THEN {b} ELSE {}]
  /\ UNCHANGED <<now, open, buffer, stopper, ending>>

(* The next buffer of the list stays if it has gone or was written in the  *)
(* grace period.                                                           *)
LookAtBuffer(s, b) ==
  /\ sweeper[s].pick = {} /\ b \in sweeper[s].todo
  /\ sweeper' = [sweeper EXCEPT ![s].todo = @ \ {b},
       ![s].pick = IF b \in Buffered /\ buffer[b] < now - Grace THEN {b} ELSE {}]
  /\ UNCHANGED <<now, open, buffer, stopper, ending>>

(* The rename to _orphaned/ takes what has the name by now, if anything. *)
MoveBuffer(s, b) ==
  /\ b \in sweeper[s].pick
  /\ sweeper' = [sweeper EXCEPT ![s].pick = {}]
  /\ NameGoes(b)
  /\ UNCHANGED <<now, open, ending>>

(* The directory cannot be made or the rename fails: the next buffer. *)
SkipBuffer(s) ==
  /\ sweeper[s].pick # {}
  /\ sweeper' = [sweeper EXCEPT ![s].pick = {}]
  /\ UNCHANGED <<now, open, buffer, stopper, ending>>

SweepDone(s) ==
  /\ sweeper[s] = [on |-> TRUE, todo |-> {}, pick |-> {}]
  /\ sweeper' = [sweeper EXCEPT ![s].on = FALSE]
  /\ UNCHANGED <<now, open, buffer, stopper, ending>>

Reboot ==
  /\ open' = {} /\ ending' = {}
  /\ stopper' = [s \in Session |-> "idle"] /\ sweeper' = [s \in Session |-> IdleSweeper]
  /\ UNCHANGED <<now, buffer>>

TimePasses ==
  /\ now < MaxNow
  /\ now' = now + 1
  /\ UNCHANGED <<open, buffer, stopper, ending, sweeper>>

Sweeps(s) == (\E b \in Session : LookAtBuffer(s, b) \/ MoveBuffer(s, b)) \/ SweepDone(s)

BufferNext ==
  \/ \E s \in Session :
       \/ StopFires(s) \/ OpenBuffer(s) \/ AppendBuffer(s)
       \/ SessionEnds(s) \/ RemoveBuffer(s) \/ EndKilled(s)
       \/ SessionStarts(s) \/ Sweeps(s) \/ SkipBuffer(s)
  \/ Reboot \/ TimePasses

(* Time passes, hooks are scheduled, and the rename of one buffer does not *)
(* fail for ever.                                                          *)
BufferFairness ==
  /\ WF_bufferVars(TimePasses)
  /\ \A s \in Session : WF_bufferVars(Sweeps(s))
  /\ \A b \in Session : SF_bufferVars(\E s \in Session : MoveBuffer(s, b))

-----------------------------------------------------------------------------
(* The buffer of a session that is over, by a reboot, a killed end or a    *)
(* Stop hook that came after the end, does not stay for ever if sessions   *)
(* keep being started (the clock must be able to pass its grace period).   *)
AbandonedBufferLeaves ==
  (\A s \in Session : []<><<SweepDone(s)>>_bufferVars) =>
    \A b \in Session :
      [](b \in Buffered /\ buffer[b] + Grace < MaxNow
           => <>(b \notin Buffered \/ stopper[b] # "idle"))
=============================================================================
