----------------------------- MODULE EmbedClient -----------------------------
(***************************************************************************)
(* Embedding requests to Ollama:                                           *)
(*   internal/heimdall/ollama.go    OllamaClient: semaphore, retries       *)
(*   internal/heimdall/embedder.go  OllamaEmbedder: batches, in pieces     *)
(*   internal/mcp/server.go         newOllamaClient: one client per server *)
(*                                                                         *)
(* A caller (a tool call, an indexing goroutine) gets the server's client  *)
(* and embeds a list of texts, one piece of at most EmbedBatchSize texts   *)
(* after the other. Each piece takes a slot of the client's semaphore,     *)
(* keeps it over all its attempts, and gives it back however it ends. An   *)
(* attempt that runs into its own deadline is tried again; an attempt that *)
(* runs into the caller's is not.                                          *)
(*                                                                         *)
(* Time is the deadline a caller's context carries: none, far (more than   *)
(* the request's own budget away), near, or done (expired or cancelled).   *)
(***************************************************************************)
EXTENDS Naturals, FiniteSets

CONSTANTS
  Caller,           \* concurrent callers
  Client, NoClient, \* identities a client can get, and none
  MaxConcurrent,    \* capacity of the semaphore; 0 is unbounded
  MaxRetries,
  BatchSize,        \* EmbedBatchSize
  MaxTexts          \* bound: texts of one call

ASSUME CallerAssumption == IsFiniteSet(Caller)
ASSUME ClientAssumption == NoClient \notin Client
ASSUME LimitAssumption ==
  /\ MaxConcurrent \in Nat /\ MaxRetries \in Nat /\ MaxTexts \in Nat
  /\ BatchSize \in Nat \ {0}

VARIABLES
  server,    \* Server.ollama: the cached client
  sem,       \* per client: tokens in the semaphore's channel
  pc,        \* per caller: what it is doing
  mine,      \* per caller: the client it uses
  texts,     \* per caller: texts not embedded yet
  attempt,   \* per caller: attempt of the current piece, from 0
  own,       \* per caller: the request runs under its own deadline
  ctx        \* per caller: the deadline of its context

vars == <<server, sem, pc, mine, texts, attempt, own, ctx>>

Deadline == {"none", "far", "near", "done"}
Step == {"idle", "client", "acquire", "check", "request", "judge", "backoff"}

(* Callers between acquireEmbedSlot and its release. *)
Holding == {"check", "request", "judge", "backoff"}
Holders(k) == {c \in Caller : pc[c] \in Holding /\ mine[c] = k}
Requests == {c \in Caller : pc[c] = "request"}

Init ==
  /\ server = NoClient
  /\ sem = [k \in Client |-> 0]
  /\ pc = [c \in Caller |-> "idle"]
  /\ mine = [c \in Caller |-> NoClient]
  /\ texts = [c \in Caller |-> 0]
  /\ attempt = [c \in Caller |-> 0]
  /\ own = [c \in Caller |-> FALSE]
  /\ ctx = [c \in Caller |-> "none"]

Go(c, from, to) == pc[c] = from /\ pc' = [pc EXCEPT ![c] = to]

-----------------------------------------------------------------------------
(* A caller with n texts and a context; no texts is no request. *)
Call(c, n, d) ==
  /\ n > 0
  /\ Go(c, "idle", "client")
  /\ texts' = [texts EXCEPT ![c] = n]
  /\ ctx' = [ctx EXCEPT ![c] = d]
  /\ UNCHANGED <<server, sem, mine, attempt, own>>

GetClientUncached(c) ==
  /\ Go(c, "client", "acquire")
  /\ server' \in Client
  /\ mine' = [mine EXCEPT ![c] = server']
  /\ UNCHANGED <<sem, texts, attempt, own, ctx>>

(* newOllamaClient under ollamaMu: the cached client, or the first one.    *)
(* The fields of the cache key cannot be changed in a running server.      *)
GetClient(c) ==
  /\ Go(c, "client", "acquire")
  /\ server' \in IF server = NoClient THEN Client ELSE {server}
  /\ mine' = [mine EXCEPT ![c] = server']
  /\ UNCHANGED <<sem, texts, attempt, own, ctx>>

(* The call is over: the slot was given back, the caller's context goes.   *)
Finish(c) ==
  /\ pc' = [pc EXCEPT ![c] = "idle"]
  /\ mine' = [mine EXCEPT ![c] = NoClient]
  /\ texts' = [texts EXCEPT ![c] = 0]
  /\ attempt' = [attempt EXCEPT ![c] = 0]
  /\ own' = [own EXCEPT ![c] = FALSE]
  /\ ctx' = [ctx EXCEPT ![c] = "none"]

(* acquireEmbedSlot: a token, or the end of the context; the select takes  *)
(* either when both are ready.                                             *)
Acquire(c) ==
  /\ Go(c, "acquire", "check")
  /\ MaxConcurrent = 0 \/ sem[mine[c]] < MaxConcurrent
  /\ sem' = [sem EXCEPT ![mine[c]] = IF MaxConcurrent = 0 THEN @ ELSE @ + 1]
  /\ attempt' = [attempt EXCEPT ![c] = 0]
  /\ UNCHANGED <<server, mine, texts, own, ctx>>

GiveUpWaiting(c) ==
  /\ pc[c] = "acquire"
  /\ ctx[c] = "done"
  /\ MaxConcurrent > 0
  /\ Finish(c)
  /\ UNCHANGED <<server, sem>>

(* The deferred release. *)
Release(c) ==
  /\ sem' = [sem EXCEPT ![mine[c]] = IF MaxConcurrent = 0 THEN @ ELSE @ - 1]
  /\ UNCHANGED server

Fail(c) == Release(c) /\ Finish(c)

(* The head of the retry loop: the caller's context, then the deadline the *)
(* attempt runs under (perRequestCtx, applyBatchDeadline).                 *)
Attempt(c) ==
  /\ ctx[c] # "done"
  /\ Go(c, "check", "request")
  /\ own' = [own EXCEPT ![c] = ctx[c] \in {"none", "far"}]
  /\ UNCHANGED <<server, sem, mine, texts, attempt, ctx>>

Abandon(c) ==
  /\ pc[c] = "check"
  /\ ctx[c] = "done"
  /\ Fail(c)

(* The embedding arrives: the next piece, or the end of the call. *)
Answer(c) ==
  /\ pc[c] = "request"
  /\ Release(c)
  /\ IF texts[c] > BatchSize
       THEN /\ Go(c, "request", "acquire")
            /\ texts' = [texts EXCEPT ![c] = @ - BatchSize]
            /\ own' = [own EXCEPT ![c] = FALSE]
            /\ UNCHANGED <<mine, attempt, ctx>>
       ELSE Finish(c)

(* Any error but a deadline: transport, status, decoding, count. *)
Error(c) ==
  /\ pc[c] = "request"
  /\ Fail(c)

(* The request's context ends: its own deadline, or the caller's. *)
TimeOut(c) ==
  /\ own[c] \/ ctx[c] = "done"
  /\ Go(c, "request", "judge")
  /\ UNCHANGED <<server, sem, mine, texts, attempt, own, ctx>>

(* isPerRequestDeadlineExceeded looks at the caller's context once more.   *)
Judge(c) ==
  /\ pc[c] = "judge"
  /\ IF ctx[c] = "done" \/ attempt[c] = MaxRetries
       THEN Fail(c)
       ELSE /\ Go(c, "judge", "backoff")
            /\ UNCHANGED <<server, sem, mine, texts, attempt, own, ctx>>

RetryUncounted(c) ==
  /\ Go(c, "backoff", "check")
  /\ UNCHANGED <<server, sem, mine, texts, attempt, own, ctx>>

Retry(c) ==
  /\ Go(c, "backoff", "check")
  /\ attempt' = [attempt EXCEPT ![c] = @ + 1]
  /\ UNCHANGED <<server, sem, mine, texts, own, ctx>>

StopWaiting(c) ==
  /\ pc[c] = "backoff"
  /\ ctx[c] = "done"
  /\ Fail(c)

-----------------------------------------------------------------------------
(* The caller's context: its deadline comes nearer, or it is cancelled.    *)
Passes(c) ==
  /\ pc[c] # "idle"
  /\ \/ ctx[c] = "far" /\ ctx' = [ctx EXCEPT ![c] = "near"]
     \/ ctx[c] = "near" /\ ctx' = [ctx EXCEPT ![c] = "done"]
  /\ UNCHANGED <<server, sem, pc, mine, texts, attempt, own>>

Cancel(c) ==
  /\ pc[c] # "idle"
  /\ ctx[c] # "done"
  /\ ctx' = [ctx EXCEPT ![c] = "done"]
  /\ UNCHANGED <<server, sem, pc, mine, texts, attempt, own>>

Runs(c) ==
  \/ GetClient(c) \/ Attempt(c) \/ Abandon(c) \/ GiveUpWaiting(c)
  \/ TimeOut(c) \/ Judge(c) \/ Retry(c) \/ StopWaiting(c)

Next ==
  \E c \in Caller :
    \/ \E n \in 1..MaxTexts, d \in {"none", "far", "near"} : Call(c, n, d)
    \/ Runs(c) \/ Acquire(c) \/ Answer(c) \/ Error(c) \/ Passes(c) \/ Cancel(c)

Spec == Init /\ [][Next]_vars

(* Timers fire and goroutines run. A channel serves its senders in turn,   *)
(* so a caller that keeps waiting gets a token that keeps being returned.  *)
(* Nothing is assumed of Ollama: it may never answer.                      *)
Fairness ==
  \A c \in Caller : WF_vars(Runs(c)) /\ SF_vars(Acquire(c)) /\ WF_vars(Passes(c))

FairSpec == Spec /\ Fairness

-----------------------------------------------------------------------------
TypeOK ==
  /\ server \in Client \cup {NoClient}
  /\ sem \in [Client -> Nat]
  /\ pc \in [Caller -> Step]
  /\ mine \in [Caller -> Client \cup {NoClient}]
  /\ texts \in [Caller -> Nat]
  /\ attempt \in [Caller -> 0..MaxRetries]
  /\ own \in [Caller -> BOOLEAN]
  /\ ctx \in [Caller -> Deadline]

(* One server, one cap: however many tool calls run at once, and whatever  *)
(* times out, is cancelled or retried, no more than MaxConcurrent requests *)
(* are at Ollama.                                                          *)
OneServerOneCap == MaxConcurrent > 0 => Cardinality(Requests) <= MaxConcurrent

(* No path through a call loses a token or returns one twice: the tokens   *)
(* in the channel are the callers that owe one.                            *)
SlotsAccounted ==
  MaxConcurrent > 0 => \A k \in Client : sem[k] = Cardinality(Holders(k))

(* The cap holds, and it keeps holding: no token is lost or made.          *)
CapKept == OneServerOneCap /\ SlotsAccounted

(* Whatever Ollama does, a call ends: its attempts have deadlines and are  *)
(* numbered, and the slots it waits for come back.                         *)
EveryCallEnds == \A c \in Caller : (pc[c] # "idle") ~> (pc[c] = "idle")

-----------------------------------------------------------------------------
(* The comment of embed: an attempt gets its own deadline UNLESS the       *)
(* caller already set one, then the caller's is honored.                   *)
CallerDeadlineHonored ==
  \A c \in Caller : pc[c] = "request" /\ own[c] => ctx[c] \in {"none", "done"}
=============================================================================
