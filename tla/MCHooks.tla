------------------------------ MODULE MCHooks ------------------------------
(***************************************************************************)
(* What must move on: the log of the hooks under its follower, the buffers *)
(* of the sessions under their sweep, the lock of the post-edit hooks      *)
(* without flock, the callers of the client for embeddings.  They share no *)
(* state, and one of them is looked at in each behaviour; the others stay  *)
(* where nothing fair of theirs can happen.                                *)
(***************************************************************************)
EXTENDS HookLog, Buffers, FallbackLock, EmbedClient

CONSTANTS w1, w2, s1, s2, k1, k2

VARIABLE part

embedVars == vars

(* What each of them keeps is of its type, and the log stays bounded under *)
(* writers that overlap and is never printed twice to its follower.        *)
HooksSound == LogTypeOK /\ BufferTypeOK /\ LockTypeOK /\ LogSound

HooksInit ==
  /\ part \in {"log", "buffers", "lock", "embed"}
  /\ LogInit /\ BufferInit /\ LockInit /\ Init
  /\ part # "buffers" => now = MaxNow

HooksNext ==
  /\ UNCHANGED part
  /\ \/ part = "log" /\ LogNext /\ UNCHANGED <<bufferVars, lockVars, embedVars>>
     \/ part = "buffers" /\ BufferNext /\ UNCHANGED <<logVars, lockVars, embedVars>>
     \/ part = "lock" /\ LockNext /\ UNCHANGED <<logVars, bufferVars, embedVars>>
     \/ part = "embed" /\ Next /\ UNCHANGED <<logVars, bufferVars, lockVars>>

hooksVars == <<part, logVars, bufferVars, lockVars, embedVars>>

HooksSpec ==
  /\ HooksInit /\ [][HooksNext]_hooksVars
  /\ LogFairness /\ BufferFairness /\ LockFairness /\ Fairness
=============================================================================
