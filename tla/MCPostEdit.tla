----------------------------- MODULE MCPostEdit -----------------------------
(* PostEdit for TLC. *)
EXTENDS PostEdit, TLC

CONSTANTS h1, h2, a1, f1, f2

(* Two sessions, each of which edits a file of its own. *)
OwnFile == (h1 :> f1) @@ (h2 :> f2)
OwnFiles == \A h \in Hook : hfile'[h] \in {NoFile, OwnFile[h]}
OwnSpec == Init /\ [][Next /\ OwnFiles]_vars /\ Fairness
=============================================================================
