------------------------------ MODULE Projects ------------------------------
(***************************************************************************)
(* The registry of projects and the commands that fill it:                 *)
(*   internal/registry/registry.go       load, repair, register, save      *)
(*   internal/cli/cli.go                 index: one run over some models   *)
(*   internal/cli/discover.go            which models                      *)
(*   internal/heimdall/resume.go         the marker of a run under way     *)
(*   internal/heimdall/indexer.go        the pass over the sub-repositories*)
(*   internal/mcp/tools.go, server.go    the same by a server              *)
(*                                                                         *)
(* The server loads the registry once; a command loads it for its run.     *)
(* Both save all of their copy.  What indexing itself does is the business *)
(* of Indexer; here a pass ends in one of the ways the callers tell apart. *)
(***************************************************************************)
EXTENDS Integers, FiniteSets

CONSTANTS Outer,     \* paths of projects with sub-repositories
          SubOf,     \* their sub-repositories, those not excluded
          BaseName,  \* the last component of every path: two may be equal
          Reserved,  \* names that filters of a search have for themselves
          Model,     \* models that Ollama has and that can embed
          Command,   \* processes of heimdall-mcp index
          MaxRegistrySaves, \* bound: successful saves of the registry
          MaxRuns    \* bound: runs of commands

Path == DOMAIN BaseName

ASSUME ProjectsAssumption ==
  /\ Outer \subseteq Path
  /\ SubOf \in [Outer -> SUBSET (Path \ Outer)]
  /\ {"nobody", "torn"} \cap Command = {}
  /\ MaxRegistrySaves \in Nat

(* Where an index is: below the project's own path, or where --db said.    *)
Where == {"own", "other"}

(* A registry: the DBPath of each project, "none" for one without entry.   *)
(* (The order of the entries is left out.)                                 *)
NoEntries == [p \in Path |-> "none"]

VARIABLES registryFile, \* projects.json
          served,       \* the server's copy
          servedAt,     \* the number of saves when the server loaded it
          command,      \* for each process: where it is and its copy
          ownDirs,      \* projects whose own .heimdall_db exists
          marker,       \* .indexing-in-progress in each index directory
          markerTmp,    \* its temporary, one for all runs of the directory
          projectSaves, \* number of saves
          runs,         \* number of runs
          bornAt,       \* the save that last brought a path into the file
          savedFrom,    \* the load the last save goes back to, 0 for one
                        \* that could not read the file
          stopped,      \* models of a run that was killed, if no other run
                        \* of that directory was under way or came since
          wrote         \* where the server last indexed a project

fileOf == <<registryFile, projectSaves, bornAt, savedFrom>>
markerVars == <<marker, markerTmp, stopped>>
projectVars == <<fileOf, served, servedAt, command, ownDirs, markerVars, wrote, runs>>

Paths(entries) == {p \in Path : entries[p] # "none"}

(* Mutant: an entry whose project has no directory of its own is dropped.  *)
LoadedDropping(entries) == [p \in Path |-> IF p \in ownDirs THEN entries[p] ELSE "none"]

(* repairStaleDBPaths: an entry whose project has its own directory points *)
(* there.                                                                  *)
Loaded(entries) == [p \in Path |-> IF p \in ownDirs /\ entries[p] # "none" THEN "own" ELSE entries[p]]

(* LoadRegistry: a file that cannot be read or parsed makes an empty       *)
(* registry, as one that is not there.                                     *)
Loads == {[entries |-> Loaded(registryFile), since |-> projectSaves], [entries |-> NoEntries, since |-> 0]}

(* Name and path make an entry; the name is the path's last component, so  *)
(* that each path has one entry.  A reserved name is refused.              *)
Register(entries, path, db) ==
  IF BaseName[path] \in Reserved THEN entries ELSE [entries EXCEPT ![path] = db]

(* IndexSubRepos announces what it found before it opens its store.        *)
RegisterFound(entries, found) ==
  [p \in Path |-> IF p \in found THEN Register(entries, p, "own")[p] ELSE entries[p]]

(* The rename over the file, of a copy loaded after the save number since. *)
Save(entries, since) ==
  /\ projectSaves < MaxRegistrySaves
  /\ registryFile' = entries
  /\ projectSaves' = projectSaves + 1
  /\ bornAt' = [p \in Path |-> IF p \in Paths(entries) \ Paths(registryFile) THEN projectSaves + 1 ELSE bornAt[p]]
  /\ savedFrom' = since

Idle == [pc |-> "idle", path |-> "", db |-> "own", saw |-> {}, models |-> {}, left |-> {},
         entries |-> NoEntries, since |-> 0, found |-> {}]

(* No such file; and one of which two runs, or one that was killed, have   *)
(* written a part, so that it cannot be parsed.                            *)
NoMarker == [by |-> "nobody", models |-> {}]
TornMarker == [by |-> "torn", models |-> {}]

ProjectsInit ==
  /\ registryFile = NoEntries /\ served = NoEntries /\ runs = 0 /\ servedAt = 0
  /\ command = [c \in Command |-> Idle]
  /\ ownDirs = {} /\ marker = [d \in Outer \X Where |-> NoMarker]
  /\ markerTmp = [d \in Outer \X Where |-> NoMarker]
  /\ projectSaves = 0 /\ bornAt = [p \in Path |-> 0] /\ savedFrom = 0
  /\ stopped = [d \in Outer \X Where |-> {}]
  /\ wrote = [p \in Path |-> "nowhere"]

-----------------------------------------------------------------------------
(* cliIndex up to the choice of models.  A marker that cannot be read is   *)
(* deleted, if that works.                                                 *)
ReadResumeMarker(c, path, db) ==
  LET dir == <<path, db>>
      Chooses(saw) == command' = [command EXCEPT ![c] =
                        [Idle EXCEPT !.pc = "choose", !.path = path, !.db = db, !.saw = saw]]
  IN /\ command[c].pc = "idle" /\ runs < MaxRuns /\ runs' = runs + 1
     /\ \/ Chooses(marker[dir].models) /\ UNCHANGED <<marker, stopped>>
        \/ /\ Chooses({}) /\ marker' \in {marker, [marker EXCEPT ![dir] = NoMarker]}
           /\ stopped' = [stopped EXCEPT ![dir] = {}]
     /\ UNCHANGED <<fileOf, served, servedAt, ownDirs, markerTmp, wrote>>

(* resolveIndexModels: flags name models or all of them; without a         *)
(* terminal the configured model, then those of the marker, then the only  *)
(* one; on a terminal the only one, or any choice.                         *)
ResolveIndexModels(request, configured, saw) ==
  CASE request = "all" -> {Model}
    [] request = "flags" -> SUBSET Model \ {{}}
    [] request = "batch" ->
         IF configured \in Model THEN {{configured}}
         ELSE IF saw # {} THEN {saw}
         ELSE IF Cardinality(Model) = 1 THEN {Model} ELSE {}
    [] request = "terminal" -> IF Cardinality(Model) = 1 THEN {Model} ELSE SUBSET Model \ {{}}

(* No model, no answer of Ollama, or killed, perhaps while it writes the   *)
(* temporary: the run ends, the marker stays.                              *)
NothingToIndex(c) ==
  LET dir == <<command[c].path, command[c].db>>
  IN /\ command[c].pc \in {"choose", "mark", "unmarked"}
     /\ \/ UNCHANGED markerTmp
        \/ command[c].pc = "choose" /\ markerTmp' = [markerTmp EXCEPT ![dir] = TornMarker]
     /\ command' = [command EXCEPT ![c] = Idle]
     /\ UNCHANGED <<runs, fileOf, served, servedAt, ownDirs, marker, stopped, wrote>>

(* Mutant: a marker that is there is left as it is. *)
MarkerKept(dir, c, models) ==
  IF marker[dir].models = {} THEN [by |-> c, models |-> models] ELSE [marker[dir] EXCEPT !.by = c]

MarkerOf(dir, c, models) == [by |-> c, models |-> models]

(* What c could not write is of no run that is under way. *)
Disowned(file, c) == [file EXCEPT !.by = IF @ = c THEN "nobody" ELSE @]

(* WriteResumeMarker makes the directory and writes the temporary, which   *)
(* another run may write at the same time; or it fails.                    *)
WriteMarkerTmp(c, request, configured) ==
  LET run == command[c]
      dir == <<run.path, run.db>>
      others == {d \in Command \ {c} : command[d].pc = "mark" /\ <<command[d].path, command[d].db>> = dir}
  IN /\ run.pc = "choose"
     /\ \E models \in ResolveIndexModels(request, configured, run.saw), pc \in {"mark", "unmarked"} :
          /\ command' = [command EXCEPT ![c] = [run EXCEPT !.pc = pc, !.saw = {}, !.models = models, !.left = models]]
          /\ \E file \in IF pc = "unmarked" THEN {Disowned(markerTmp[dir], c), TornMarker}
                          ELSE {MarkerOf(dir, c, models)} \cup (IF others = {} THEN {} ELSE {TornMarker}) :
               markerTmp' = [markerTmp EXCEPT ![dir] = file]
     /\ ownDirs' = IF run.db = "own" THEN ownDirs \cup {run.path} ELSE ownDirs
     /\ UNCHANGED <<runs, fileOf, served, servedAt, marker, stopped, wrote>>

(* It renames what is then in the temporary, or removes that; LoadRegistry *)
(* comes next.                                                             *)
BeginRun(c) ==
  LET run == command[c]
      dir == <<run.path, run.db>>
  IN /\ run.pc \in {"mark", "unmarked"}
     /\ \/ /\ run.pc = "mark" /\ markerTmp[dir] # NoMarker
           /\ marker' = [marker EXCEPT ![dir] = markerTmp[dir]]
           /\ markerTmp' = [markerTmp EXCEPT ![dir] = NoMarker]
        \/ /\ marker' = [marker EXCEPT ![dir] = Disowned(@, c)]
           /\ \/ UNCHANGED markerTmp
              \/ run.pc = "mark" /\ markerTmp' = [markerTmp EXCEPT ![dir] = NoMarker]
     /\ \E load \in Loads : command' = [command EXCEPT ![c] =
          [run EXCEPT !.pc = "index", !.entries = load.entries, !.since = load.since]]
     /\ stopped' = [stopped EXCEPT ![dir] = {}]
     /\ UNCHANGED <<runs, fileOf, served, servedAt, ownDirs, wrote>>

(* indexWithModel.  The pass over the project fails, and the next model is *)
(* taken; or it is done, and so is one over each sub-repository found, of  *)
(* which those in opened could open their store.  None is found when the   *)
(* directory cannot be read, and one is left out when its .git cannot.     *)
PassFails(c, m) ==
  /\ command[c].pc = "index" /\ m \in command[c].left
  /\ command' = [command EXCEPT ![c].left = @ \ {m}]
  /\ UNCHANGED <<runs, fileOf, served, servedAt, ownDirs, markerVars, wrote>>

IndexWithModel(c, m, found, opened) ==
  /\ command[c].pc = "index" /\ m \in command[c].left
  /\ found \subseteq SubOf[command[c].path] /\ opened \subseteq found
  /\ command' = [command EXCEPT ![c].left = @ \ {m}, ![c].found = @ \cup found,
                                ![c].entries = RegisterFound(@, found)]
  /\ ownDirs' = ownDirs \cup opened
  /\ UNCHANGED <<runs, fileOf, served, servedAt, markerVars, wrote>>

(* The project itself is registered, whether or not a pass was done. *)
SaveRegistry(c) ==
  LET run == command[c]
      entries == Register(run.entries, run.path, run.db)
  IN /\ run.pc = "index" /\ run.left = {}
     /\ Save(entries, run.since) \/ UNCHANGED fileOf
     /\ command' = [command EXCEPT ![c].pc = "clean", ![c].entries = entries]
     /\ UNCHANGED <<runs, served, servedAt, ownDirs, markerVars, wrote>>

DeleteResumeMarker(c) ==
  LET dir == <<command[c].path, command[c].db>>
  IN /\ command[c].pc = "clean"
     /\ marker' \in {marker, [marker EXCEPT ![dir] = NoMarker]}
     /\ command' = [command EXCEPT ![c] = Idle]
     /\ UNCHANGED <<runs, fileOf, served, servedAt, ownDirs, markerTmp, stopped, wrote>>

(* Killed, or the project's own store cannot be opened. *)
StopRun(c) ==
  LET run == command[c]
      dir == <<run.path, run.db>>
      alone == \A d \in Command \ {c} : command[d].pc = "idle" \/ <<command[d].path, command[d].db>> # dir
  IN /\ run.pc \in {"index", "clean"}
     /\ stopped' = IF alone /\ marker[dir].by = c THEN [stopped EXCEPT ![dir] = run.models] ELSE stopped
     /\ command' = [command EXCEPT ![c] = Idle]
     /\ UNCHANGED <<runs, fileOf, served, servedAt, ownDirs, marker, markerTmp, wrote>>

-----------------------------------------------------------------------------
(* The server: main.go loads, runIndex indexes and registers. *)
StartServer ==
  /\ \E load \in Loads : served' = load.entries /\ servedAt' = load.since
  /\ wrote' = [p \in Path |-> "nowhere"]
  /\ UNCHANGED <<runs, fileOf, command, ownDirs, markerVars>>

(* resolveRunIndexBaseDir: the DBPath of an entry of exactly this path, or *)
(* the project's own directory.                                            *)
RunIndexBaseDir(path) == IF served[path] = "none" THEN "own" ELSE served[path]

(* resolveStatusBaseDir: the same, written again. *)
StatusBaseDir(path) == IF served[path] = "none" THEN "own" ELSE served[path]

(* The registration and the save of a run whose pass is done.  A           *)
(* sub-repository whose store did not open is registered all the same.     *)
ServerIndex(path, found, opened) ==
  LET entries == RegisterFound(Register(served, path, RunIndexBaseDir(path)), found)
  IN /\ found \subseteq (IF path \in Outer THEN SubOf[path] ELSE {}) /\ opened \subseteq found
     /\ served' = entries
     /\ ownDirs' = ownDirs \cup opened \cup (IF RunIndexBaseDir(path) = "own" THEN {path} ELSE {})
     /\ wrote' = [p \in Path |-> IF p = path THEN RunIndexBaseDir(path)
                                 ELSE IF p \in opened THEN "own"
                                 ELSE IF p \in found THEN "nowhere" ELSE wrote[p]]
     /\ Save(entries, servedAt) \/ UNCHANGED fileOf
     /\ UNCHANGED <<runs, servedAt, command, markerVars>>

(* A run whose pass fails has opened its store all the same. *)
ServerPassFails(path) ==
  /\ RunIndexBaseDir(path) = "own" /\ ownDirs' = ownDirs \cup {path}
  /\ UNCHANGED <<runs, fileOf, served, servedAt, command, markerVars, wrote>>

CommandStep(c) ==
  \/ \E path \in Outer, db \in Where : ReadResumeMarker(c, path, db)
  \/ NothingToIndex(c)
  \/ \E request \in {"all", "flags", "batch", "terminal"}, configured \in Model \cup {"none"} :
       WriteMarkerTmp(c, request, configured)
  \/ BeginRun(c)
  \/ \E m \in Model : PassFails(c, m)
  \/ \E m \in Model, found, opened \in SUBSET Path : IndexWithModel(c, m, found, opened)
  \/ SaveRegistry(c) \/ DeleteResumeMarker(c) \/ StopRun(c)

ServerStep ==
  \/ StartServer
  \/ \E path \in Path, found, opened \in SUBSET Path : ServerIndex(path, found, opened)
  \/ \E path \in Path : ServerPassFails(path)

ProjectsNext == ServerStep \/ \E c \in Command : CommandStep(c)

ProjectsSpec == ProjectsInit /\ [][ProjectsNext]_projectVars

-----------------------------------------------------------------------------
ProjectsTypeOK ==
  /\ registryFile \in [Path -> Where \cup {"none"}] /\ served \in [Path -> Where \cup {"none"}]
  /\ \A c \in Command : /\ command[c].pc \in {"idle", "choose", "mark", "unmarked", "index", "clean"}
                       /\ command[c].models \subseteq Model
  /\ projectSaves \in 0..MaxRegistrySaves /\ servedAt \in 0..projectSaves /\ ownDirs \subseteq Path

(* An entry leaves the file only by a save whose process had loaded the    *)
(* file before the entry came into it, or could not read it: neither a     *)
(* repair, nor a project of the same name, nor a run that failed or found  *)
(* less takes one out.                                                     *)
EntriesLeaveOnlyByOverlap ==
  [][\A p \in Paths(registryFile) \ Paths(registryFile') : bornAt[p] > savedFrom']_projectVars

(* What later commands read of earlier runs is true of them: a run has     *)
(* each sub-repository it has found in the copy it saves, whichever of     *)
(* their stores could be opened, but for those of a reserved name; after a *)
(* run that was cut off, the marker names the models of that run, until    *)
(* another run chooses or cannot read it; heimdall_status looks where this *)
(* server last indexed the project.                                        *)
RunsAreFoundAgain ==
  /\ \A c \in Command : command[c].pc # "idle" =>
       {p \in command[c].found : BaseName[p] \notin Reserved} \subseteq Paths(command[c].entries)
  /\ \A d \in DOMAIN marker : stopped[d] # {} => marker[d].models = stopped[d]
  /\ \A p \in Path : wrote[p] # "nowhere" => StatusBaseDir(p) = wrote[p]
=============================================================================
