----------------------------- MODULE MCIndexer -----------------------------
(* Indexer with three contents whose line ranges overlap and an empty one. *)
EXTENDS Indexer, TLC

CONSTANTS f1, f2, i1, i2, a, b, c, empty

Overlapping == a :> {1, 2} @@ b :> {1, 3} @@ c :> {2} @@ empty :> {}
OneRange == a :> {1} @@ b :> {1} @@ c :> {1}
=============================================================================
