---------------------------- MODULE ReindexQueue ----------------------------
(***************************************************************************)
(* What the post-edit pipeline promises to a user who edits files: a file  *)
(* whose index entry is out of date is on somebody's list, unless the      *)
(* pipeline has given it up by one of its two documented caps (the 1000    *)
(* lines of reindex.pending, the ten attempts of the dead-letter file), or *)
(* has lost an entry in one of three ways: hooks that overlapped, a file   *)
(* that failed in a pass that succeeded, and an entry added for a file     *)
(* whose earlier entry was at its cap.                                     *)
(*                                                                         *)
(* This is the abstract specification of internal/cli/hook_post_edit.go    *)
(* and hook_post_edit_actor.go: no processes, no files on disk, no locks.  *)
(* PostEdit implements it (see RefinesQueue there).                        *)
(***************************************************************************)
CONSTANT File          \* the project's files

VARIABLES
  stale,       \* files whose content is newer than their index entry
  owed,        \* files that some list or process still answers for
  abandoned,   \* files given up at a cap since their last edit
  lost         \* files of which an entry was lost since their last edit

vars == <<stale, owed, abandoned, lost>>

TypeOK ==
  /\ stale \subseteq File
  /\ owed \subseteq File
  /\ abandoned \subseteq File
  /\ lost \subseteq File

Init ==
  /\ stale = {}
  /\ owed = {}
  /\ abandoned = {}
  /\ lost = {}

(* An edit makes the file stale and somebody answers for it at once. *)
Edit(f) ==
  /\ stale' = stale \cup {f}
  /\ owed' = owed \cup {f}
  /\ abandoned' = abandoned \ {f}
  /\ lost' = lost \ {f}

(* Work brings files up to date, gives some up, loses some, and strikes    *)
(* files off the lists; a file that is struck off is up to date, given up  *)
(* or lost. A list may also name a file again that is already up to date.  *)
Work ==
  /\ stale' \subseteq stale
  /\ owed' \subseteq File
  /\ abandoned' \subseteq File /\ lost' \subseteq File
  /\ (abandoned \cup lost) \cap stale' \subseteq abandoned' \cup lost'
  /\ (owed \ owed') \cap stale' \subseteq abandoned' \cup lost'

Next == Work \/ \E f \in File : Edit(f)

Spec == Init /\ [][Next]_vars

(* Every stale file is on some list, was given up at a cap, or lost. *)
NothingForgotten == stale \subseteq owed \cup abandoned \cup lost
=============================================================================
