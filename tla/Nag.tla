-------------------------------- MODULE Nag --------------------------------
(***************************************************************************)
(* The reminder that the user-prompt hook adds after Threshold prompts in  *)
(* a row without a direct call of a heimdall tool (internal/cli/           *)
(* hook_nag.go).  Its state is a file for each session; direct calls are   *)
(* lines of hooks.log, which any process writes, late, and which a         *)
(* rotation (HookLog) takes away.  One user-prompt hook of a session at a  *)
(* time.  Times are whole seconds, 0 is "never".                           *)
(***************************************************************************)
EXTENDS Integers, FiniteSets

CONSTANTS Prompter,    \* sessions
          Threshold,   \* nagThresholdFromEnv
          MaxPrompts,  \* bound: prompts of a session
          MaxCalls,    \* bound: direct calls
          MaxSecond,   \* bound of the clock
          NagFaults    \* subset of {"save", "read"}: saveNagState fails,
                       \* hooks.log cannot be read

ASSUME NagAssumption ==
  /\ Threshold \in Nat \ {0} /\ MaxSecond \in Nat \ {0}
  /\ MaxPrompts \in Nat /\ MaxCalls \in Nat

VARIABLES second,    \* the clock
          callLog,   \* mcp.tool_call lines of direct tools in hooks.log
          made,      \* calls whose line is not written yet
          nagState,  \* the nag file of each session, NoState for none
          prompts,   \* prompts of each session that reached the nag
          streak,    \* prompts in a row with neither a call nor a nag, and
                     \* the nag file in place
          outcome    \* what became of the last prompt of each session

nagVars == <<second, callLog, made, nagState, prompts, streak, outcome>>

NoState == [turn |-> 0, last |-> 0, reset |-> 0]
NagCalls == [n : 1..MaxCalls, ts : 1..MaxSecond, after : [Prompter -> 0..MaxPrompts]]

NagTypeOK ==
  /\ second \in 1..MaxSecond
  /\ callLog \subseteq NagCalls /\ made \subseteq NagCalls
  /\ nagState \in [Prompter -> [turn : 0..MaxPrompts, last : 0..MaxPrompts,
                                reset : 0..MaxSecond]]
  /\ prompts \in [Prompter -> 0..MaxPrompts]
  /\ streak \in [Prompter -> 0..MaxPrompts]
  /\ outcome \in [Prompter -> {"none", "nag", "call"}]

NagInit ==
  /\ second = 1 /\ callLog = {} /\ made = {}
  /\ nagState = [s \in Prompter |-> NoState]
  /\ prompts = [s \in Prompter |-> 0] /\ streak = [s \in Prompter |-> 0]
  /\ outcome = [s \in Prompter |-> "none"]

(* Mutant: the turn of the nag is not kept. *)
EvaluateNagRepeating(prev, had) ==
  LET turn == prev.turn + 1
  IN IF had THEN [emit |-> FALSE, state |-> [turn |-> 0, last |-> 0, reset |-> second]]
     ELSE [emit |-> turn - prev.last >= Threshold,
           state |-> [turn |-> turn, last |-> prev.last,
                      reset |-> IF prev.reset = 0 THEN second ELSE prev.reset]]

(* evaluateNag: a call resets; otherwise the turn counts, and the nag is   *)
(* due Threshold turns after the last one.                                 *)
EvaluateNag(prev, had) ==
  LET turn == prev.turn + 1
      due == turn - prev.last >= Threshold
  IN IF had THEN [emit |-> FALSE, state |-> [turn |-> 0, last |-> 0, reset |-> second]]
     ELSE [emit |-> due,
           state |-> [turn |-> turn, last |-> IF due THEN turn ELSE prev.last,
                      reset |-> IF prev.reset = 0 THEN second ELSE prev.reset]]

(* hadDirectHeimdallCallSince by way of ReadHookLog, whose Since keeps the *)
(* lines of that very second.  A log that cannot be read answers no.       *)
HadDirectCallSince(since) ==
  {\E c \in callLog : c.ts >= since} \cup (IF "read" \in NagFaults THEN {FALSE} ELSE {})

(* evaluateAndSpliceNag, on a cache hit and on a fresh answer alike. *)
UserPrompt(s) ==
  /\ prompts[s] < MaxPrompts
  /\ \E had \in HadDirectCallSince(IF nagState[s].reset = 0 THEN second ELSE nagState[s].reset) :
     LET decision == EvaluateNag(nagState[s], had)
     IN /\ \/ nagState' = [nagState EXCEPT ![s] = decision.state]
           \/ "save" \in NagFaults /\ UNCHANGED nagState
        /\ outcome' = [outcome EXCEPT ![s] =
             IF had THEN "call" ELSE IF decision.emit THEN "nag" ELSE "none"]
        /\ streak' = [streak EXCEPT ![s] = IF outcome'[s] = "none" THEN @ + 1 ELSE 0]
  /\ prompts' = [prompts EXCEPT ![s] = @ + 1]
  /\ UNCHANGED <<second, callLog, made>>

(* The server runs a direct tool and, when it has run, logs it. *)
DirectCall ==
  /\ Cardinality(callLog \cup made) < MaxCalls
  /\ \E n \in 1..MaxCalls \ {c.n : c \in callLog \cup made} :
       made' = made \cup {[n |-> n, ts |-> second, after |-> prompts]}
  /\ UNCHANGED <<second, callLog, nagState, prompts, streak, outcome>>

LogCall(c) ==
  /\ c \in made
  /\ made' = made \ {c} /\ callLog' = callLog \cup {c}
  /\ UNCHANGED <<second, nagState, prompts, streak, outcome>>

(* The log is rotated away: only hooks.log is read. *)
RotateAway ==
  /\ callLog # {}
  /\ callLog' = {}
  /\ UNCHANGED <<second, made, nagState, prompts, streak, outcome>>

(* purgeNagStateIfPresent at the end of the session, which may be resumed, *)
(* or the file is found malformed.                                         *)
PurgeNagState(s) ==
  /\ nagState[s] # NoState
  /\ nagState' = [nagState EXCEPT ![s] = NoState]
  /\ streak' = [streak EXCEPT ![s] = 0]
  /\ UNCHANGED <<second, callLog, made, prompts, outcome>>

NextSecond ==
  /\ second < MaxSecond
  /\ second' = second + 1
  /\ UNCHANGED <<callLog, made, nagState, prompts, streak, outcome>>

NagNext ==
  \/ \E s \in Prompter : UserPrompt(s) \/ PurgeNagState(s)
  \/ DirectCall \/ (\E c \in made : LogCall(c)) \/ RotateAway \/ NextSecond

NagSpec == NagInit /\ [][NagNext]_nagVars

-----------------------------------------------------------------------------
Prompted(s) == prompts'[s] # prompts[s]

(* The nag comes on the Threshold-th prompt in a row without a call, and   *)
(* on no other: it is neither repeated on the next prompt nor forgotten.   *)
(* And whoever made it and however late its line was written: if a direct  *)
(* call is in the log when the nag is given, Threshold prompts have come   *)
(* since.                                                                  *)
NagExactly ==
  [][\A s \in Prompter : Prompted(s) =>
       /\ outcome'[s] = "nag" <=> outcome'[s] # "call" /\ streak[s] + 1 = Threshold
       /\ outcome'[s] = "nag" => \A c \in callLog : prompts'[s] - c.after[s] >= Threshold]_nagVars
=============================================================================
