------------------------------ MODULE Settings ------------------------------
(***************************************************************************)
(* The hooks in Claude Code's settings.json (internal/cli/install.go):     *)
(* `install-hooks` and `uninstall-hooks` read the file, copy it to a       *)
(* backup and replace it; every session start reads it and replaces it if  *)
(* a hook is missing or of an older binary (autoUpgradeHooks).  Nothing is *)
(* locked, and the user and Claude Code edit the file too.                 *)
(*                                                                         *)
(* An entry under an event has a matcher, marks of who wrote it, and       *)
(* commands: Heimdall's, one it had before, or the user's.  Two of the six *)
(* hooks stand for all, and one file for the two scopes, which are treated *)
(* one after the other.  The entries of an event are in the order of their *)
(* places, with gaps where entries were taken out.  A file that is not     *)
(* JSON stops the commands and the start before they change anything, and  *)
(* is left out.                                                            *)
(***************************************************************************)
EXTENDS Naturals, Sequences, SequencesExt

CONSTANTS Changer,       \* processes: commands and session starts
          UserCmd,       \* commands of the user
          MaxChanges, MaxEdits   \* bounds on their number

VARIABLES settings,      \* the file, or NoSettings
          backups,       \* settings.json.heimdall-backup-<UTC>, oldest first
          changer,       \* per process: step, what it read and what it writes,
                         \* and whether the file has changed in between
          overwritten,   \* two backups have been made in one second
          changes, edits

settingsVars == <<settings, backups, changer, overwritten, changes, edits>>

ASSUME UserAssumption == {"ours", "oldOurs"} \cap UserCmd = {}

HookEvent == {"Stop", "PreToolUse"}
Matcher == [Stop |-> "", PreToolUse |-> "Bash"]
HookEntry == [matcher : {"", "Bash"}, source : BOOLEAN, version : {0, 1},
              binary : {"none", "old", "now"}, cmds : SUBSET (UserCmd \cup {"ours", "oldOurs"})]
NoHooks == [ev \in HookEvent |-> <<>>]
NoSettings == [ev \in HookEvent |-> <<[matcher |-> "no file"]>>]
Resting == [pc |-> "idle", kind |-> "start", read |-> NoHooks, write |-> NoHooks, late |-> FALSE]

LastPlace(es) == IF DOMAIN es = {} THEN 0 ELSE Max(DOMAIN es)
Added(es, e) ==
  LET new == LastPlace(es) + 1
  IN [i \in DOMAIN es \cup {new} |-> IF i = new THEN e ELSE es[i]]

BuildHookEntry(ev) ==
  [matcher |-> Matcher[ev], source |-> TRUE, version |-> 1, binary |-> "now", cmds |-> {"ours"}]

(* Either mark makes an entry Heimdall's, whatever else it runs. *)
IsHeimdallEntry(e) == e.source \/ e.cmds \cap {"ours", "oldOurs"} # {}
SameMatcher(e, ev) == e.matcher = Matcher[ev]
UpToDate(e) == e.version = 1 /\ "ours" \in e.cmds       \* as install-hooks has it
EntryMatchesCurrentVersion(e) == e.binary = "now"       \* as a session start has it

OursAt(s, ev) == {i \in DOMAIN s[ev] : IsHeimdallEntry(s[ev][i]) /\ SameMatcher(s[ev][i], ev)}
ConflictsWith(e, ev) == ~IsHeimdallEntry(e) /\ SameMatcher(e, ev)
Conflicts(s, ev) == {i \in DOMAIN s[ev] : ConflictsWith(s[ev][i], ev)}
HooksDetected(s) == \E ev \in HookEvent : \E i \in DOMAIN s[ev] : IsHeimdallEntry(s[ev][i])

(* applyInstall for one event: the last entry of Heimdall's is renewed if  *)
(* it is out of date; without one, the user's entries in the way are       *)
(* joined or replaced.                                                     *)
InstallAt(s, ev, mode) ==
  IF OursAt(s, ev) # {} THEN
    LET i == Max(OursAt(s, ev)) IN
    IF UpToDate(s[ev][i]) THEN s[ev] ELSE [s[ev] EXCEPT ![i] = BuildHookEntry(ev)]
  ELSE IF Conflicts(s, ev) = {} \/ mode = "merge" THEN Added(s[ev], BuildHookEntry(ev))
  ELSE LET i == Min(Conflicts(s, ev))
       IN Restrict([s[ev] EXCEPT ![i] = BuildHookEntry(ev)],
                   (DOMAIN s[ev] \ Conflicts(s, ev)) \cup {i})

ApplyInstall(s, only, mode) ==
  [ev \in HookEvent |-> IF ev \in only THEN InstallAt(s, ev, mode) ELSE s[ev]]
Refused(s, only, mode) ==
  mode = "plain" /\ \E ev \in only : OursAt(s, ev) = {} /\ Conflicts(s, ev) # {}

ApplyUninstall(s) ==
  [ev \in HookEvent |-> Restrict(s[ev], {i \in DOMAIN s[ev] : ~IsHeimdallEntry(s[ev][i])})]

(* Mutant: a start installs the hooks where there were none. *)
AutoUpgradeFromScratch(s) ==
  [ev \in HookEvent |->
     IF OursAt(s, ev) = {} THEN Added(s[ev], BuildHookEntry(ev)) ELSE s[ev]]

(* autoUpgradeHooks: only if there is an entry of Heimdall's anywhere, the *)
(* first one of each hook is renewed if it is of another binary, and what  *)
(* is missing is added, --only or not.                                     *)
AutoUpgrade(s) ==
  IF ~HooksDetected(s) THEN s ELSE
  [ev \in HookEvent |->
     IF OursAt(s, ev) = {} THEN Added(s[ev], BuildHookEntry(ev)) ELSE
     LET i == Min(OursAt(s, ev)) IN
     IF EntryMatchesCurrentVersion(s[ev][i]) THEN s[ev] ELSE [s[ev] EXCEPT ![i] = BuildHookEntry(ev)]]

-----------------------------------------------------------------------------
UserEntry(ev, u) ==
  [matcher |-> Matcher[ev], source |-> FALSE, version |-> 0, binary |-> "none", cmds |-> {u}]
Older(ev) == [BuildHookEntry(ev) EXCEPT !.binary = "old", !.version = 0, !.cmds = {"oldOurs"}]
Earlier(ev) == [BuildHookEntry(ev) EXCEPT !.binary = "old"]

(* No file, no hooks, hooks of the user, or those of an earlier binary. *)
SettingsInit ==
  /\ \E u \in UserCmd : settings \in {NoSettings, NoHooks, [NoHooks EXCEPT !.Stop = <<UserEntry("Stop", u)>>],
       [Stop |-> <<Earlier("Stop")>>, PreToolUse |-> <<UserEntry("Stop", u), Older("PreToolUse")>>]}
  /\ backups = <<>>
  /\ changer = [p \in Changer |-> Resting]
  /\ overwritten = FALSE /\ changes = 0 /\ edits = 0

Held(s) == IF s = NoSettings THEN NoHooks ELSE s        \* readSettings

(* What is to be written is worked out at once from what was read; if it   *)
(* is the same, nothing is written.                                        *)
Reads(p, kind, result) ==
  /\ changer[p].pc = "idle" /\ changes < MaxChanges
  /\ result # Held(settings)
  /\ changer' = [changer EXCEPT ![p] =
       [pc |-> IF kind = "start" \/ settings = NoSettings THEN "write" ELSE "backup",
        kind |-> kind, read |-> Held(settings), write |-> result, late |-> FALSE]]
  /\ changes' = changes + 1
  /\ UNCHANGED <<settings, backups, overwritten, edits>>

InstallHooks(p) ==
  \E only \in SUBSET HookEvent \ {{}}, mode \in {"plain", "merge", "force"} :
    /\ ~Refused(Held(settings), only, mode)
    /\ Reads(p, "install", ApplyInstall(Held(settings), only, mode))
UninstallHooks(p) == Reads(p, "uninstall", ApplyUninstall(Held(settings)))
SessionStarts(p) == Reads(p, "start", AutoUpgrade(Held(settings)))

(* The name of a backup is the second it is made in. *)
WriteBackup(p) ==
  /\ changer[p].pc = "backup"
  /\ changer' = [changer EXCEPT ![p].pc = "write"]
  /\ \/ backups' = Append(backups, changer[p].read) /\ UNCHANGED overwritten
     \/ /\ backups # <<>> /\ overwritten' = TRUE
        /\ backups' = Append(Front(backups), changer[p].read)
  /\ UNCHANGED <<settings, changes, edits>>

(* The others at work have read what is no longer there. *)
Outdated(others) ==
  [p \in Changer |-> IF p \in others /\ changer[p].pc # "idle" THEN [changer[p] EXCEPT !.late = TRUE]
                     ELSE IF p \in others THEN changer[p] ELSE Resting]

(* atomicWrite: a temporary file renamed over the file. *)
AtomicWrite(p) ==
  /\ changer[p].pc = "write"
  /\ settings' = changer[p].write
  /\ changer' = Outdated(Changer \ {p})
  /\ UNCHANGED <<backups, overwritten, changes, edits>>

ChangerKilled(p) ==
  /\ changer[p].pc # "idle"
  /\ changer' = [changer EXCEPT ![p] = Resting]
  /\ UNCHANGED <<settings, backups, overwritten, changes, edits>>

(* The user adds an entry, lets an entry run one more command, or removes  *)
(* one.                                                                    *)
UserEdits ==
  /\ edits < MaxEdits /\ edits' = edits + 1
  /\ \E ev \in HookEvent, u \in UserCmd :
       \/ settings' = [Held(settings) EXCEPT ![ev] = Added(@, UserEntry(ev, u))]
       \/ \E i \in DOMAIN Held(settings)[ev] :
            \/ settings' = [settings EXCEPT ![ev][i].cmds = @ \cup {u}]
            \/ settings' = [settings EXCEPT ![ev] = Restrict(@, DOMAIN @ \ {i})]
  /\ changer' = Outdated(Changer)
  /\ UNCHANGED <<backups, overwritten, changes>>

SettingsNext ==
  \/ \E p \in Changer : \/ InstallHooks(p) \/ UninstallHooks(p) \/ SessionStarts(p)
                        \/ WriteBackup(p) \/ AtomicWrite(p) \/ ChangerKilled(p)
  \/ UserEdits

SettingsSpec == SettingsInit /\ [][SettingsNext]_settingsVars

-----------------------------------------------------------------------------
HoldsHooks(s) ==
  /\ s = [ev \in HookEvent |-> s[ev]]
  /\ \A ev \in HookEvent :
       /\ s[ev] \in [DOMAIN s[ev] -> HookEntry]
       /\ LastPlace(s[ev]) \in Nat /\ DOMAIN s[ev] \subseteq 1..LastPlace(s[ev])

SettingsTypeOK ==
  /\ settings = NoSettings \/ HoldsHooks(settings)
  /\ overwritten \in BOOLEAN
  /\ \A i \in DOMAIN backups : HoldsHooks(backups[i])
  /\ \A p \in Changer : changer[p].pc \in {"idle", "backup", "write"} /\ HoldsHooks(changer[p].write)

(* Commands and starts do not fight: whatever is in the file, after an     *)
(* install and a start neither has more to do, no hook is there twice, and *)
(* uninstalling leaves what it would have left before.                     *)
InstallSettles ==
  \A s \in {Held(settings)} : \A r \in {AutoUpgrade(ApplyInstall(s, HookEvent, "merge"))} :
    /\ AutoUpgrade(r) = r /\ ApplyInstall(r, HookEvent, "plain") = r
    /\ \A ev \in HookEvent : OursAt(r, ev) # {} /\ \A i, j \in OursAt(r, ev) : i = j
    /\ ApplyUninstall(r) = ApplyUninstall(s)

UsersIn(s) == {u \in UserCmd : \E ev \in HookEvent : \E i \in DOMAIN s[ev] : u \in s[ev][i].cmds}
Known == UsersIn(Held(settings)) \cup UNION {UsersIn(backups[i]) : i \in DOMAIN backups}

(* What a command or a start writes undoes nobody's change, unless the     *)
(* file was changed after it was read: a start brings hooks only where     *)
(* there are hooks, not back to a file they were taken out of; and a       *)
(* command of the user is neither in the file nor in a backup any more     *)
(* only if the user took it out, if it was in an entry of Heimdall's that  *)
(* a start renewed, or if backups were made in one second.  And            *)
(* installing settles from wherever they leave the file.                   *)
ChangesUndoNothing ==
  [][/\ settings' # settings => InstallSettles'
     /\ \A p \in Changer : AtomicWrite(p) /\ ~changer[p].late =>
          /\ changer[p].kind = "start" => HooksDetected(Held(settings))
          /\ \A u \in Known \ Known' :
               \/ overwritten
               \/ /\ changer[p].kind = "start"
                  /\ \E ev \in HookEvent : \E i \in OursAt(Held(settings), ev) :
                       u \in Held(settings)[ev][i].cmds]_settingsVars
=============================================================================
