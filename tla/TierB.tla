------------------------------- MODULE TierB -------------------------------
(***************************************************************************)
(* Notes on failures, shown at most once in NoteWindow for a project and a *)
(* kind of failure (internal/heimdall/suppress.go).  Hook processes read   *)
(* when the note was last shown and then record that they show it, as two  *)
(* statements with no transaction around them.                             *)
(***************************************************************************)
EXTENDS Integers, FiniteSets

CONSTANTS Noter,      \* hook processes
          NoteKey,    \* (project, failure code) as suppressKey folds them
          NoteWindow, \* seconds between two notes
          MaxTick     \* bound of the clock

ASSUME WindowAssumption ==
  NoteWindow \in Nat \ {0} /\ MaxTick \in Nat \ {0} /\ NoteKey # {}

VARIABLES tick,        \* the clock
          suppression, \* the table: last_emitted of each key, 0 for no row
          noter,       \* what each process is doing
          notes        \* the notes shown, each with when its process took
                       \* the time and whether it was alone and met no error

noteVars == <<tick, suppression, noter, notes>>

IdleNoter == [pc |-> "idle", key |-> CHOOSE k \in NoteKey : TRUE, now |-> 0, alone |-> TRUE]

NoteTypeOK ==
  /\ tick \in 1..MaxTick
  /\ suppression \in [NoteKey -> 0..MaxTick]
  /\ noter \in [Noter -> [pc : {"idle", "query", "insert"}, key : NoteKey,
                          now : 0..MaxTick, alone : BOOLEAN]]
  /\ notes \subseteq [key : NoteKey, now : 1..MaxTick, alone : BOOLEAN]

NoteInit ==
  /\ tick = 1 /\ notes = {}
  /\ suppression = [k \in NoteKey |-> 0]
  /\ noter = [h \in Noter |-> IdleNoter]

Busy(k) == {h \in Noter : noter[h].pc # "idle" /\ noter[h].key = k}

(* ShouldEmitTierB takes the time; whoever is at work on the key is not    *)
(* alone any more.                                                         *)
ShouldEmitTierB(h, k) ==
  /\ noter[h].pc = "idle"
  /\ noter' = [x \in Noter |->
       IF x = h THEN [pc |-> "query", key |-> k, now |-> tick, alone |-> Busy(k) = {}]
       ELSE IF x \in Busy(k) THEN [noter[x] EXCEPT !.alone = FALSE] ELSE noter[x]]
  /\ UNCHANGED <<tick, suppression, notes>>

Suppressed(k, now) == suppression[k] # 0 /\ now - suppression[k] < NoteWindow

QueryLast(h) ==
  /\ noter[h].pc = "query"
  /\ noter' = [noter EXCEPT ![h] =
       IF Suppressed(noter[h].key, noter[h].now) THEN IdleNoter ELSE [@ EXCEPT !.pc = "insert"]]
  /\ UNCHANGED <<tick, suppression, notes>>

Show(h, alone) ==
  /\ notes' = notes \cup {[key |-> noter[h].key, now |-> noter[h].now, alone |-> alone]}
  /\ noter' = [noter EXCEPT ![h] = IdleNoter]

(* Mutant: INSERT OR IGNORE in place of INSERT OR REPLACE. *)
InsertLastOnce(h) ==
  /\ noter[h].pc = "insert"
  /\ suppression' = [suppression EXCEPT ![noter[h].key] = IF @ = 0 THEN noter[h].now ELSE @]
  /\ Show(h, noter[h].alone)
  /\ UNCHANGED tick

InsertLast(h) ==
  /\ noter[h].pc = "insert"
  /\ suppression' = [suppression EXCEPT ![noter[h].key] = noter[h].now]
  /\ Show(h, noter[h].alone)
  /\ UNCHANGED tick

(* An error of the store, at either statement, opens the gate. *)
StoreError(h) ==
  /\ noter[h].pc \in {"query", "insert"}
  /\ Show(h, FALSE)
  /\ UNCHANGED <<tick, suppression>>

NoterKilled(h) ==
  /\ noter[h].pc # "idle"
  /\ noter' = [noter EXCEPT ![h] = IdleNoter]
  /\ UNCHANGED <<tick, suppression, notes>>

Tock ==
  /\ tick < MaxTick
  /\ tick' = tick + 1
  /\ UNCHANGED <<suppression, noter, notes>>

NoteNext ==
  \/ \E h \in Noter : (\E k \in NoteKey : ShouldEmitTierB(h, k)) \/ QueryLast(h)
                      \/ InsertLast(h) \/ StoreError(h) \/ NoterKilled(h)
  \/ Tock

NoteSpec == NoteInit /\ [][NoteNext]_noteVars

-----------------------------------------------------------------------------
(* A user sees the same note twice within the window only if hooks asked   *)
(* at the same time or the store failed.                                   *)
NoteOncePerWindow ==
  [][\A h \in Noter : InsertLast(h) /\ noter[h].alone =>
       \A n \in notes : n.key = noter[h].key /\ n.alone => noter[h].now - n.now >= NoteWindow
    ]_noteVars
=============================================================================
