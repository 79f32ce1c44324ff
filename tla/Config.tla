------------------------------- MODULE Config -------------------------------
(***************************************************************************)
(* The configuration file and the processes that hold a copy of it:        *)
(*   internal/config/config.go       load, save, migrate, resolve          *)
(*   internal/mcp/config_tools.go    heimdall_configure, _manage_paths     *)
(*   internal/cli/cli.go             config set, paths add and remove      *)
(*                                                                         *)
(* A server loads once and saves the whole of its copy for every key it    *)
(* sets; a command loads, sets, saves and ends.  The file is written in    *)
(* place: truncated, then filled, so that two writers may leave a file     *)
(* that is neither's.  Four settings stand for the rest: an integer whose  *)
(* zero means unset (git.depth), a boolean that falls back with it         *)
(* (git.enabled), a list (indexedPaths, with one path), and an integer     *)
(* written only if it is not zero and of which zero has a meaning          *)
(* (embedMaxConcurrent: 0 is no limit, -1 is unset).                       *)
(***************************************************************************)
EXTENDS Integers

CONSTANTS Server,    \* processes that stay
          Shell,     \* one-shot commands
          EnvCap,    \* HEIMDALL_EMBED_MAX_CONCURRENT, above CapMax
          CapMax,    \* MaxEmbedConcurrent
          MaxSaves   \* bound: saves that finish

(* The limits are told apart from what a user writes and from "not there"; *)
(* the names of those who are no process are none of a process.            *)
ASSUME CapAssumption == CapMax \in Nat \ {0, 1, 9} /\ EnvCap \in Nat \ {0, 1, 9}
ASSUME NamesAssumption ==
  {"nobody", "killed", "migration", "user"} \cap (Server \cup Shell) = {}

ConfProc == Server \cup Shell
Key == {"depth", "git", "path", "cap"}
Config == [depth : 0..2, git : BOOLEAN, path : BOOLEAN, cap : {-1, 0, 1, CapMax, EnvCap}]

DefaultConfig == [depth |-> 2, git |-> TRUE, path |-> FALSE, cap |-> -1]

(* What is in a file: a configuration, with 9 for a key that is not there; *)
(* "torn" between truncation and the end of the write.                     *)
None == [kind |-> "none", conf |-> DefaultConfig]
Torn == [kind |-> "torn", conf |-> DefaultConfig]
Whole(c) == [kind |-> "whole", conf |-> IF c.cap = 0 THEN [c EXCEPT !.cap = 9] ELSE c]

VARIABLES confFile,  \* heimdall-mcp/config.json
          oldFile,   \* openviking-mcp/config.json
          newDir,    \* heimdall-mcp/ exists
          migrator,  \* whose lock file is there, "killed" if nobody's
          conf,      \* for each process: where it is and its copy
          shown,     \* what the last whole file loads as
          saves,     \* number of times the file got a new content
          changed,   \* for each key: when it last changed, and by whom
          disturbed  \* the lock was found taken, its holder was killed, or
                     \* the renaming failed

fileVars == <<confFile, shown, saves, changed>>
confVars == <<fileVars, oldFile, newDir, migrator, conf, disturbed>>

Off == [pc |-> "off", copy |-> DefaultConfig, since |-> 0, sound |-> TRUE, set |-> {}]
Gone == [Off EXCEPT !.pc = "gone"]

(* Mutant: a cap that is not there is left as it is.                       *)
LoadConfigLiteral(f) ==
  IF f.kind # "whole" THEN DefaultConfig
  ELSE [f.conf EXCEPT !.git = IF f.conf.depth = 0 THEN DefaultConfig.git ELSE @,
                      !.depth = IF @ = 0 THEN DefaultConfig.depth ELSE @]

(* LoadConfig: no file or no JSON is the defaults; a depth of zero resets  *)
(* depth and git; a cap that is not there is unset.                        *)
LoadConfig(f) ==
  IF f.kind # "whole" THEN DefaultConfig
  ELSE [f.conf EXCEPT !.cap = IF @ = 9 THEN -1 ELSE @,
                      !.git = IF f.conf.depth = 0 THEN DefaultConfig.git ELSE @,
                      !.depth = IF @ = 0 THEN DefaultConfig.depth ELSE @]

ConfInit ==
  /\ newDir \in BOOLEAN
  /\ LET written == Whole([DefaultConfig EXCEPT !.git = FALSE, !.depth = 1])
     IN /\ confFile \in {None} \cup (IF newDir THEN {written} ELSE {})
        /\ oldFile \in {None} \cup (IF newDir THEN {} ELSE {written})
  /\ migrator = "nobody"
  /\ conf = [p \in ConfProc |-> Off]
  /\ shown = LoadConfig(confFile)
  /\ saves = 0 /\ changed = [k \in Key |-> [at |-> 0, by |-> "nobody"]] /\ disturbed = FALSE

(* The file gets the content f, from who. *)
NewContent(f, who) ==
  /\ confFile' = f
  /\ shown' = IF f.kind = "whole" THEN LoadConfig(f) ELSE shown
  /\ saves' = saves + 1
  /\ changed' = [k \in Key |-> IF shown'[k] # shown[k] THEN [at |-> saves + 1, by |-> who]
                               ELSE changed[k]]

-----------------------------------------------------------------------------
At(p, from, to) == conf[p].pc = from /\ conf' = [conf EXCEPT ![p].pc = to]

(* migrateConfigDir: a look at the old directory, the lock file, and under *)
(* it both directories again.  A process that finds the lock taken goes on *)
(* without migrating.                                                      *)
LookForOld(p) ==
  /\ At(p, "off", IF oldFile = None THEN "load" ELSE "lock")
  /\ UNCHANGED <<fileVars, oldFile, newDir, migrator, disturbed>>

LockMigration(p) ==
  /\ At(p, "lock", IF migrator = "nobody" THEN "rename" ELSE "load")
  /\ migrator' = IF migrator = "nobody" THEN p ELSE migrator
  /\ disturbed' = (disturbed \/ migrator # "nobody")
  /\ UNCHANGED <<fileVars, oldFile, newDir>>

MayRename == oldFile # None /\ ~newDir

RenameConfigDir(p) ==
  /\ At(p, "rename", "load")
  /\ migrator' = "nobody"
  /\ \/ /\ MayRename
        /\ NewContent(oldFile, "migration")
        /\ oldFile' = None /\ newDir' = TRUE
        /\ UNCHANGED disturbed
     \/ /\ MayRename
        /\ disturbed' = TRUE
        /\ UNCHANGED <<fileVars, oldFile, newDir>>
     \/ ~MayRename /\ UNCHANGED <<fileVars, oldFile, newDir, disturbed>>

(* A server makes the directory at once, for its memory store. *)
Load(p) ==
  /\ conf[p].pc = "load"
  /\ conf' = [conf EXCEPT ![p] = [Off EXCEPT !.pc = "ready", !.copy = LoadConfig(confFile),
                                             !.since = saves, !.sound = confFile.kind # "torn"]]
  /\ newDir' = (newDir \/ p \in Server)
  /\ UNCHANGED <<fileVars, oldFile, migrator, disturbed>>

(* ResolveEmbedConfig: the environment over the file, within the limits.   *)
ResolveEmbedConfig(c) == [c EXCEPT !.cap = IF EnvCap > CapMax THEN CapMax ELSE EnvCap]

(* A client is made from a copy: the server's own stays as it was. *)
KeptCopy(c) == c

NewOllamaClient(p) ==
  /\ p \in Server /\ conf[p].pc = "ready"
  /\ conf' = [conf EXCEPT ![p].copy = KeptCopy(@)]
  /\ UNCHANGED <<fileVars, oldFile, newDir, migrator, disturbed>>

(* Mutant: the key is set in a fresh configuration. *)
SetValueAlone(c, k, v) == [DefaultConfig EXCEPT ![k] = IF k = "depth" THEN v ELSE v = 1]

SetValue(c, k, v) == [c EXCEPT ![k] = IF k = "depth" THEN v ELSE v = 1]

Ready(p, k, v) == conf[p].pc = "ready" /\ (k = "path" => conf[p].copy.path # (v = 1))

Changed(p, k, v) == [conf[p] EXCEPT !.copy = SetValue(@, k, v), !.set = @ \cup {k}]

(* configureSet, setConfigKey and the path commands, up to the truncation  *)
(* of the file.  A path is added or removed only if that changes the list. *)
SetKey(p, k, v) ==
  /\ saves < MaxSaves
  /\ Ready(p, k, v)
  /\ conf' = [conf EXCEPT ![p] = [Changed(p, k, v) EXCEPT !.pc = "write"]]
  /\ newDir' = TRUE /\ confFile' = Torn
  /\ UNCHANGED <<oldFile, migrator, shown, saves, changed, disturbed>>

(* The file cannot be opened: a server keeps the value in its copy, a      *)
(* command ends.                                                           *)
SetFails(p, k, v) ==
  /\ Ready(p, k, v)
  /\ conf' = [conf EXCEPT ![p] = IF p \in Shell THEN Gone ELSE Changed(p, k, v)]
  /\ UNCHANGED <<fileVars, oldFile, newDir, migrator, disturbed>>

(* If another's content came after the truncation, a rest of it may stay.  *)
FinishSave(p) ==
  /\ conf[p].pc = "write"
  /\ \E f \in {Whole(conf[p].copy)} \cup (IF confFile = Torn THEN {} ELSE {Torn}) :
       NewContent(f, p)
  /\ conf' = [conf EXCEPT ![p] = IF p \in Shell THEN Gone ELSE [@ EXCEPT !.pc = "ready"]]
  /\ UNCHANGED <<oldFile, newDir, migrator, disturbed>>

EndOfProcess(p) ==
  /\ conf[p].pc = "ready"
  /\ conf' = [conf EXCEPT ![p] = Gone]
  /\ UNCHANGED <<fileVars, oldFile, newDir, migrator, disturbed>>

(* Killed: its lock file and a torn file stay. *)
KillProcess(p) ==
  /\ conf[p].pc \notin {"off", "ready", "gone"}
  /\ conf' = [conf EXCEPT ![p] = Gone]
  /\ migrator' = IF migrator = p THEN "killed" ELSE migrator
  /\ disturbed' = (disturbed \/ migrator = p)
  /\ UNCHANGED <<fileVars, oldFile, newDir>>

(* The user sets the cap in the file, or writes one anew. *)
EditByHand(n) ==
  /\ saves < MaxSaves /\ newDir
  /\ \A p \in ConfProc : conf[p].pc # "write"
  /\ LoadConfig(confFile).cap # n
  /\ NewContent([kind |-> "whole", conf |-> [LoadConfig(confFile) EXCEPT !.cap = n]], "user")
  /\ UNCHANGED <<oldFile, newDir, migrator, conf, disturbed>>

ConfNext ==
  \/ \E p \in ConfProc :
       \/ LookForOld(p) \/ LockMigration(p) \/ RenameConfigDir(p) \/ Load(p) \/ NewOllamaClient(p)
       \/ \E k \in Key \ {"cap"}, v \in {0, 1} : SetKey(p, k, v) \/ SetFails(p, k, v)
       \/ FinishSave(p) \/ EndOfProcess(p) \/ KillProcess(p)
  \/ \E n \in {0, 1} : EditByHand(n)

ConfSpec == ConfInit /\ [][ConfNext]_confVars

-----------------------------------------------------------------------------
ConfTypeOK ==
  /\ confFile.kind \in {"none", "torn", "whole"} /\ oldFile.kind \in {"none", "whole"}
  /\ newDir \in BOOLEAN /\ disturbed \in BOOLEAN
  /\ migrator \in ConfProc \cup {"nobody", "killed"}
  /\ shown \in Config /\ \A p \in ConfProc : conf[p].copy \in Config
  /\ saves \in Nat /\ \A k \in Key : changed[k].at \in 0..saves

(* Nothing of the environment gets into the file, whatever clients were    *)
(* made before it was saved.                                               *)
EnvStaysOut == confFile.conf.cap \notin {CapMax, EnvCap}

(* The old configuration is out of sight of a process at work only if the  *)
(* migration was disturbed.                                                *)
OldConfigIsSeen ==
  oldFile # None /\ (\E p \in ConfProc : conf[p].pc \in {"ready", "write"}) => disturbed

(* What was set stays set: a save that leaves the file whole changes a key *)
(* its process did not set only if another changed that key after the file *)
(* was read (by a server, maybe days ago), or if the file was read torn,   *)
(* or if a zero is at play: a cap of zero is not written, and a depth of   *)
(* zero takes git with it.  Nor does a step put into the file, or leave in *)
(* the old place, what a process would then take for what was set.         *)
OnlyStaleCopiesUndo ==
  [][/\ \A p \in ConfProc : FinishSave(p) /\ confFile'.kind = "whole" =>
          \A k \in Key \ conf[p].set :
            \/ shown'[k] = shown[k]
            \/ changed[k].at > conf[p].since /\ changed[k].by # p
            \/ ~conf[p].sound
            \/ k = "cap" /\ conf[p].copy.cap = 0
            \/ k = "git" /\ "depth" \in conf[p].set
     /\ EnvStaysOut' /\ OldConfigIsSeen']_confVars
=============================================================================
