----------------------------- MODULE MCRecords -----------------------------
(***************************************************************************)
(* What is kept and read beside the index: the cache of the hooks, the     *)
(* transcript and the logs of a session, the log of the guardrail, the     *)
(* configuration, the settings of Claude Code, the registry, the small     *)
(* files of reminders, notes and reviews, the chunks a file is cut into    *)
(* and the use that is made of them.  They share no state, and one of them *)
(* is looked at in each behaviour.  The registry is looked at twice: with  *)
(* two commands, and with one run of a command beside a server.  The       *)
(* processes x1 and x2 of each part are interchangeable.                   *)
(***************************************************************************)
EXTENDS HookCache, Compliance, Drift, Guardrail, Config, Projects, Nag, TierB, Reviews,
        Settings, Lifecycle, Chunker

CONSTANTS x1, x2, y1, y2, r1

VARIABLE part

Bash ==
  {[prefix |-> <<>>, kind |-> "plain"],
   [prefix |-> <<"env", "assign", "time", "nice">>, kind |-> "forcePushMain"],
   [prefix |-> <<"time", "env", "assign">>, kind |-> "forcePushMain"],
   [prefix |-> <<"nice">>, kind |-> "forceWithLease"],
   [prefix |-> <<"env">>, kind |-> "dropDatabase"],
   [prefix |-> <<>>, kind |-> "forcePush"]}

Names == [wrapper |-> "shared", sub |-> "shared", other |-> "__root__"]
Subs == [wrapper |-> {"sub", "other"}]

Types == [c1 |-> "code", t1 |-> "text", t2 |-> "text"]
Likenesses == [c1 |-> 3, t1 |-> 2, t2 |-> 3]

(* Files of up to five lines that are empty, short, long or too long. *)
Files ==
  LET rising[n \in 1..5] ==
        IF n = 1 THEN {<<e>> : e \in 0..7}
        ELSE UNION {{Append(ends, e) : e \in Last(ends) + 1..7} : ends \in rising[n - 1]}
  IN UNION {rising[n] : n \in 1..5}

Symmetry == Permutations({x1, x2})

cacheVars == vars
talkVars == talk
shortVars == <<nagVars, noteVars, reviewVars, settingsVars, lifeVars, chunkVars>>

RecordsTypeOK ==
  /\ TalkTypeOK /\ DriftTypeOK /\ GuardTypeOK /\ ConfTypeOK /\ ProjectsTypeOK
  /\ NagTypeOK /\ NoteTypeOK /\ ReviewTypeOK /\ SettingsTypeOK /\ LifeTypeOK
  /\ part = "chunks" => ChunkTypeOK

(* What is read back from a session, its transcript and its log, is right. *)
SessionIsReadFairly == ReadersAgree /\ ReportIsFair

RecordsInit ==
  /\ part \in {"cache", "talk", "drift", "guard", "config", "commands", "server",
              "nag", "notes", "reviews", "settings", "life", "chunks"}
  /\ Init /\ TalkInit /\ DriftInit /\ GuardInit /\ ConfInit /\ ProjectsInit
  /\ NagInit /\ NoteInit /\ ReviewInit /\ SettingsInit /\ LifeInit /\ ChunkInit
  /\ part # "life" => shownOn = [c \in ChunkId |-> 0]
  /\ part # "chunks" => lineEnds = <<0>>
  /\ part # "settings" => settings = NoHooks
  /\ part # "config" => newDir /\ confFile = None

RecordsNext ==
  /\ UNCHANGED part
  /\ \/ /\ part = "cache" /\ Next
        /\ UNCHANGED <<talkVars, driftVars, guardVars, confVars, projectVars, shortVars>>
     \/ /\ part = "talk" /\ TalkNext
        /\ UNCHANGED <<cacheVars, driftVars, guardVars, confVars, projectVars, shortVars>>
     \/ /\ part = "drift" /\ DriftNext
        /\ UNCHANGED <<cacheVars, talkVars, guardVars, confVars, projectVars, shortVars>>
     \/ /\ part = "guard" /\ GuardNext
        /\ UNCHANGED <<cacheVars, talkVars, driftVars, confVars, projectVars, shortVars>>
     \/ /\ part = "config" /\ ConfNext
        /\ UNCHANGED <<cacheVars, talkVars, driftVars, guardVars, projectVars, shortVars>>
     \/ /\ part = "commands"
        /\ \E c \in Command : CommandStep(c) /\ command'[c].found \in {{}, Subs["wrapper"]}
        /\ UNCHANGED <<cacheVars, talkVars, driftVars, guardVars, confVars, shortVars>>
     \/ /\ part = "server"
        /\ \/ ServerStep
           \/ \E c \in Command : /\ runs = 0 \/ command[c].pc # "idle"
                               /\ CommandStep(c) /\ command'[c].models \in {{}, {"m1"}}
                               /\ command'[c].pc # "unmarked" /\ command'[c].found \in {{}, Subs["wrapper"]}
        /\ UNCHANGED <<cacheVars, talkVars, driftVars, guardVars, confVars, shortVars>>
     \/ /\ UNCHANGED <<cacheVars, talkVars, driftVars, guardVars, confVars, projectVars>>
        /\ \/ /\ part = "nag" /\ NagNext
              /\ UNCHANGED <<noteVars, reviewVars, settingsVars, lifeVars, chunkVars>>
           \/ /\ part = "notes" /\ NoteNext
              /\ UNCHANGED <<nagVars, reviewVars, settingsVars, lifeVars, chunkVars>>
           \/ /\ part = "reviews" /\ ReviewNext
              /\ UNCHANGED <<nagVars, noteVars, settingsVars, lifeVars, chunkVars>>
           \/ /\ part = "settings" /\ SettingsNext
              /\ UNCHANGED <<nagVars, noteVars, reviewVars, lifeVars, chunkVars>>
           \/ /\ part = "life" /\ LifeNext
              /\ UNCHANGED <<nagVars, noteVars, reviewVars, settingsVars, chunkVars>>
           \/ /\ part = "chunks" /\ ChunkNext
              /\ UNCHANGED <<nagVars, noteVars, reviewVars, settingsVars, lifeVars>>

recordsVars ==
  <<part, cacheVars, talkVars, driftVars, guardVars, confVars, projectVars, shortVars>>

RecordsSpec == RecordsInit /\ [][RecordsNext]_recordsVars
=============================================================================
