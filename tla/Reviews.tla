------------------------------ MODULE Reviews ------------------------------
(***************************************************************************)
(* The review that the end of one session of Claude Code leaves for the    *)
(* start of the next, in last-session-review.json of the project's         *)
(* .heimdall_db/hooks (internal/cli/hook_stop.go, hook.go).  Both hooks    *)
(* are processes; the sessions overlap, and a hook over its budget is      *)
(* killed.                                                                 *)
(***************************************************************************)
EXTENDS Integers

CONSTANTS Ender, Starter,  \* SessionEnd and SessionStart hooks
          MaxAge,          \* lastSessionReviewMaxAge
          MaxDay,          \* bound of the clock
          MaxReviews       \* bound: reviews written

ASSUME ReviewAssumption == MaxAge \in Nat /\ MaxDay \in Nat /\ MaxReviews \in Nat

VARIABLES day,       \* the clock
          review,    \* the number of the review in the file and its time,
                     \* n = 0 if it does not parse, NoReview for no file
          reviews,   \* reviews written so far
          ender, starter,
          told,      \* reviews shown
          stuck      \* history: reviews that could not be unlinked

reviewVars == <<day, review, reviews, ender, starter, told, stuck>>

NoReview == [n |-> -1, at |-> 0]
Review == [n : -1..MaxReviews, at : 0..MaxDay]
IdleStarter == [pc |-> "idle", got |-> NoReview, before |-> {}]

ReviewTypeOK ==
  /\ day \in 0..MaxDay /\ review \in Review /\ reviews \in 0..MaxReviews
  /\ ender \in [Ender -> {"idle", "fired", "truncated", "unlinked"}]
  /\ starter \in [Starter -> [pc : {"idle", "gates", "unlink", "show"}, got : Review,
                              before : SUBSET (1..MaxReviews)]]
  /\ told \subseteq 1..MaxReviews /\ stuck \subseteq 1..MaxReviews

ReviewInit ==
  /\ day = 0 /\ review = NoReview /\ reviews = 0 /\ told = {} /\ stuck = {}
  /\ ender = [e \in Ender |-> "idle"] /\ starter = [s \in Starter |-> IdleStarter]

EndFires(e) ==
  /\ ender[e] = "idle"
  /\ ender' = [ender EXCEPT ![e] = "fired"]
  /\ UNCHANGED <<day, review, reviews, starter, told, stuck>>

(* os.WriteFile truncates the file before it writes. *)
TruncateReview(e) ==
  /\ ender[e] = "fired" /\ reviews < MaxReviews
  /\ ender' = [ender EXCEPT ![e] = "truncated"]
  /\ review' = [n |-> 0, at |-> day]
  /\ UNCHANGED <<day, reviews, starter, told, stuck>>

(* It writes to no file if the one it opened was unlinked in between; two  *)
(* ends that write at the same time may leave a file that does not parse.  *)
(* No review is written when there is no transcript or nothing to say.     *)
WriteLastSessionReview(e) ==
  /\ ender[e] # "idle"
  /\ ender' = [ender EXCEPT ![e] = "idle"]
  /\ IF ender[e] # "truncated" THEN UNCHANGED <<review, reviews>>
     ELSE /\ reviews < MaxReviews
          /\ reviews' = reviews + 1
          /\ \/ review' = [n |-> reviews', at |-> day]
             \/ review.n > 0 /\ review' = [n |-> 0, at |-> day]
  /\ UNCHANGED <<day, starter, told, stuck>>

EndOverran(e) ==
  /\ ender[e] # "idle"
  /\ ender' = [ender EXCEPT ![e] = "idle"]
  /\ UNCHANGED <<day, review, reviews, starter, told, stuck>>

StartFires(s) ==
  /\ starter[s].pc = "idle"
  /\ starter' = [starter EXCEPT ![s] = [pc |-> "gates", got |-> NoReview, before |-> told]]
  /\ UNCHANGED <<day, review, reviews, ender, told, stuck>>

(* The review is looked at when no gate of the hook has ended it. *)
ReadReview(s) ==
  /\ starter[s].pc = "gates" /\ review # NoReview
  /\ starter' = [starter EXCEPT ![s].pc = "unlink", ![s].got = review]
  /\ UNCHANGED <<day, review, reviews, ender, told, stuck>>

(* Mutant: only what does not parse is unlinked. *)
UnlinkParsed(s) ==
  /\ starter[s].pc = "unlink"
  /\ review' = IF starter[s].got.n > 0 THEN review ELSE NoReview
  /\ ender' = [e \in Ender |-> IF ender[e] = "truncated" THEN "unlinked" ELSE ender[e]]
  /\ starter' = [starter EXCEPT ![s].pc = "show"]
  /\ UNCHANGED <<day, reviews, told, stuck>>

(* renderLastSessionReview unlinks whatever has the name by now, and goes  *)
(* on if that fails ...                                                    *)
UnlinkReview(s) ==
  /\ starter[s].pc = "unlink"
  /\ \/ /\ review' = NoReview
        /\ ender' = [e \in Ender |-> IF ender[e] = "truncated" THEN "unlinked" ELSE ender[e]]
        /\ UNCHANGED stuck
     \/ /\ review # NoReview
        /\ stuck' = stuck \cup ({starter[s].got.n} \cap 1..MaxReviews)
        /\ UNCHANGED <<review, ender>>
  /\ starter' = [starter EXCEPT ![s].pc = "show"]
  /\ UNCHANGED <<day, reviews, told>>

Shows(s) == starter[s].got.n > 0 /\ day - starter[s].got.at <= MaxAge

(* ... and shows what it read unless that does not parse or is too old. *)
ShowReview(s) ==
  /\ starter[s].pc = "show"
  /\ starter' = [starter EXCEPT ![s] = IdleStarter]
  /\ told' = IF Shows(s) THEN told \cup {starter[s].got.n} ELSE told
  /\ UNCHANGED <<day, review, reviews, ender, stuck>>

(* Ollama, the model, the store, its verification or the budget end the    *)
(* hook before it looks; it is killed at any time.                         *)
StartGivesUp(s) ==
  /\ starter[s].pc # "idle"
  /\ starter' = [starter EXCEPT ![s] = IdleStarter]
  /\ UNCHANGED <<day, review, reviews, ender, told, stuck>>

NextDay ==
  /\ day < MaxDay
  /\ day' = day + 1
  /\ UNCHANGED <<review, reviews, ender, starter, told, stuck>>

ReviewNext ==
  \/ \E e \in Ender : EndFires(e) \/ TruncateReview(e) \/ WriteLastSessionReview(e)
                      \/ EndOverran(e)
  \/ \E s \in Starter : StartFires(s) \/ ReadReview(s) \/ UnlinkReview(s) \/ ShowReview(s)
                        \/ StartGivesUp(s)
  \/ NextDay

ReviewSpec == ReviewInit /\ [][ReviewNext]_reviewVars

-----------------------------------------------------------------------------
(* A start that comes after a review was shown does not show it again,     *)
(* whatever ends and starts overlap, unless a start that read it could not *)
(* unlink it.                                                              *)
ReviewShownOnce ==
  [][\A s \in Starter : ShowReview(s) /\ Shows(s) =>
        starter[s].got.n \notin starter[s].before \ stuck]_reviewVars

=============================================================================
