------------------------------- MODULE Drift -------------------------------
(***************************************************************************)
(* The two records of one session that `sessions report` joins: the        *)
(* transcript that Claude Code writes (internal/heimdall/transcript.go)    *)
(* and the user-prompt lines of hooks.log (cli/hook_user_prompt.go), and   *)
(* what it makes of them (semantic_drift.go).  The hook of a prompt        *)
(* appends its lines one by one, with its output in between: it may be     *)
(* killed between any two, a line may not get written, and the log may be  *)
(* rotated away.  The report may be asked for at any time.                 *)
(***************************************************************************)
EXTENDS Integers, Sequences, FiniteSets, SequencesExt

CONSTANTS MaxEntries,  \* bound: lines of the transcript
          MaxSlips     \* bound: errors that one hook logs and goes on after

VARIABLES entries,     \* the transcript
          stages,      \* the session's user-prompt lines in hooks.log
          hook,        \* what the hook of the last prompt is doing
          intact        \* history: no hook was killed and no line got lost

driftVars == <<entries, stages, hook, intact>>

ASSUME EntriesAssumption == MaxEntries \in Nat /\ MaxSlips \in Nat

(* An entry: a user's line, with the number of the prompt, 0 for the       *)
(* result of a tool; an assistant's, with the heimdall tool it calls and   *)
(* whether the query is near what the hook injected; the attachment of a   *)
(* hook that wrote to stdout; a line that does not parse.                  *)
Entry == [kind : {"user", "assistant", "attachment", "garbled"}, prompt : 0..MaxEntries,
          tool : {"none", "search", "recall"}, near : BOOLEAN]
Blank == [kind |-> "garbled", prompt |-> 0, tool |-> "none", near |-> FALSE]

(* A line of hooks.log: its stage, the prompt that it is about, whether it *)
(* has the ids of hits, and, for the prompt's vector, "" for none, whether *)
(* the store has something near it by the time of the report.              *)
Stage == [stage : {"skip", "error", "nag_eval", "cache_hit", "ok"}, prompt : 1..MaxEntries,
          hits : BOOLEAN, vector : {"", "near", "far"}]

Prompts == Cardinality({i \in DOMAIN entries : entries[i].prompt # 0})

(* The hook looks for an answer, has one and evaluates the nag, has the    *)
(* answer out and has yet to log it, or is about to exit.                  *)
NoHook == [at |-> "none", way |-> "ok", slips |-> 0]
HookState == [at : {"none", "look", "nag", "log", "said", "mute"}, way : {"cache_hit", "ok"},
              slips : 0..MaxSlips]

DriftTypeOK ==
  /\ entries \in Seq(Entry) /\ stages \in Seq(Stage) /\ Len(entries) <= MaxEntries
  /\ hook \in HookState /\ intact \in BOOLEAN
  /\ hook.at # "none" => Prompts > 0

DriftInit == entries = <<>> /\ stages = <<>> /\ hook = NoHook /\ intact = TRUE

Users(n) == {i \in 1..n : entries[i].kind = "user"}
Asked(n) == [Blank EXCEPT !.kind = "user", !.prompt = n]
Injected == [Blank EXCEPT !.kind = "attachment"]
Logged(stage) == [stage |-> stage, prompt |-> Prompts, hits |-> FALSE, vector |-> ""]

(* LogHookEvent of a line, which may not get written. *)
Logs(l) ==
  \/ stages' = Append(stages, l) /\ UNCHANGED intact
  \/ intact' = FALSE /\ UNCHANGED stages

(* The user's line; HookUserPrompt starts. *)
Asks ==
  /\ hook.at = "none" /\ Len(entries) + 1 < MaxEntries
  /\ entries' = Append(entries, Asked(Prompts + 1))
  /\ hook' = [NoHook EXCEPT !.at = "look"]
  /\ UNCHANGED <<stages, intact>>

(* A gate or an error ends the hook after one more line; some show a note. *)
Stops ==
  /\ hook.at = "look"
  /\ \E s \in {"skip", "error"} :
       /\ s = "skip" => hook.slips = 0
       /\ Logs(Logged(s))
       /\ \E end \in {"said", "mute"} :
            /\ s = "skip" => end = "mute"
            /\ hook' = [hook EXCEPT !.at = end]
  /\ UNCHANGED entries

(* The cache, the memory store or the put fails; the hook goes on. *)
Slips ==
  /\ hook.at = "look" /\ hook.slips < MaxSlips
  /\ Logs(Logged("error"))
  /\ hook' = [hook EXCEPT !.slips = @ + 1]
  /\ UNCHANGED entries

(* The answer is in the cache, or is made now. *)
Answers ==
  /\ hook.at = "look"
  /\ \E way \in {"cache_hit", "ok"} :
       /\ way = "cache_hit" => hook.slips = 0
       /\ hook' = [hook EXCEPT !.at = "nag", !.way = way]
  /\ UNCHANGED <<entries, stages, intact>>

(* evaluateAndSpliceNag logs; then the answer goes out ... *)
EvaluatesNag ==
  /\ hook.at = "nag"
  /\ Logs(Logged("nag_eval"))
  /\ hook' = [hook EXCEPT !.at = "log"]
  /\ UNCHANGED entries

(* ... and only then the prompt's own line is written. *)
LogsAnswer ==
  /\ hook.at = "log"
  /\ \/ hook.way = "cache_hit" /\ Logs(Logged("cache_hit"))
     \/ /\ hook.way = "ok"
        /\ \E h \in BOOLEAN, v \in {"near", "far"} :
             Logs([Logged("ok") EXCEPT !.hits = h, !.vector = v])
  /\ hook' = [hook EXCEPT !.at = "said"]
  /\ UNCHANGED entries

(* The hook exits, and Claude Code attaches what it wrote to stdout. *)
Exits ==
  /\ \/ hook.at = "said" /\ Len(entries) < MaxEntries /\ entries' = Append(entries, Injected)
     \/ hook.at = "mute" /\ UNCHANGED entries
  /\ hook' = NoHook
  /\ UNCHANGED <<stages, intact>>

(* Claude Code kills a hook that takes too long. *)
Killed ==
  /\ hook.at # "none"
  /\ hook' = NoHook /\ intact' = FALSE
  /\ UNCHANGED <<entries, stages>>

(* Whoever logs next renames hooks.log away; the report reads no other. *)
Rotated ==
  /\ stages # <<>>
  /\ stages' = <<>> /\ intact' = FALSE
  /\ UNCHANGED <<entries, hook>>

Replies ==
  /\ hook.at = "none" /\ Len(entries) < MaxEntries
  /\ \E tool \in {"none", "search", "recall"}, near \in BOOLEAN :
       /\ near => tool = "search"
       /\ entries' = Append(entries, [Blank EXCEPT !.kind = "assistant", !.tool = tool,
                                                   !.near = near])
  /\ UNCHANGED <<stages, hook, intact>>

(* The result of a tool is a user's line too. *)
ToolReturns ==
  /\ hook.at = "none"
  /\ entries # <<>> /\ Len(entries) < MaxEntries /\ Last(entries).tool # "none"
  /\ entries' = Append(entries, Asked(0))
  /\ UNCHANGED <<stages, hook, intact>>

Garbles ==
  /\ Len(entries) < MaxEntries
  /\ entries' = Append(entries, Blank)
  /\ UNCHANGED <<stages, hook, intact>>

DriftNext ==
  \/ Asks \/ Stops \/ Slips \/ Answers \/ EvaluatesNag \/ LogsAnswer \/ Exits \/ Killed \/ Rotated
  \/ Replies \/ ToolReturns \/ Garbles

DriftSpec == DriftInit /\ [][DriftNext]_driftVars

-----------------------------------------------------------------------------
(* ParseTranscript.  Turn 0 is that of the first user's line. *)
NoSummary == [users |-> 0, hadHits |-> FALSE, redundant |-> 0, nonSearch |-> 0,
              queries |-> <<>>, calls |-> {}, parseErrors |-> 0]

ApplyAssistantMessage(sum, e, turn) ==
  IF e.tool = "none" THEN sum
  ELSE [sum EXCEPT
     !.redundant = IF sum.hadHits THEN @ + 1 ELSE @,
     !.nonSearch = IF sum.hadHits /\ e.tool # "search" THEN @ + 1 ELSE @,
     !.queries = IF e.tool = "search" THEN Append(@, [turn |-> turn, near |-> e.near]) ELSE @,
     !.calls = @ \cup {turn}]

ApplyTranscriptLine(sum, e) ==
  CASE e.kind = "user" -> [sum EXCEPT !.users = @ + 1, !.hadHits = FALSE]
    [] e.kind = "assistant" -> ApplyAssistantMessage(sum, e, sum.users - 1)
    [] e.kind = "attachment" -> [sum EXCEPT !.hadHits = TRUE]
    [] OTHER -> [sum EXCEPT !.parseErrors = @ + 1]

ParseTranscript ==
  LET upTo[n \in 0..Len(entries)] ==
        IF n = 0 THEN NoSummary ELSE ApplyTranscriptLine(upTo[n - 1], entries[n])
  IN upTo[Len(entries)]

-----------------------------------------------------------------------------
(* ComputeSemanticDrift: the hook's data of a turn are those of the line   *)
(* of hooks.log with the turn's place.                                     *)
NoLine == [stage |-> "", prompt |-> 0, hits |-> FALSE, vector |-> ""]
TurnHook(t) == IF t + 1 \in DOMAIN stages THEN stages[t + 1] ELSE NoLine

Turns == 0..ParseTranscript.users - 1

(* Why a turn cannot have missed a call, "" if it can. *)
SkipReason(t) ==
  CASE TurnHook(t).stage = "" -> "no_log_line"
    [] TurnHook(t).stage = "cache_hit" -> "cache_hit"
    [] TurnHook(t).stage \notin {"", "cache_hit"} /\ TurnHook(t).vector = "" -> "no_prompt_embed"
    [] OTHER -> ""

RedundantCalls(t) ==
  IF ~TurnHook(t).hits THEN {}
  ELSE {q \in DOMAIN ParseTranscript.queries :
          ParseTranscript.queries[q].turn = t /\ ParseTranscript.queries[q].near}

(* Mutant: only the queries of a turn, not its other calls, excuse it. *)
MissedCallWithoutQuery(t) ==
  /\ SkipReason(t) = "" /\ TurnHook(t).vector = "near"
  /\ \A q \in DOMAIN ParseTranscript.queries : ParseTranscript.queries[q].turn # t

MissedCall(t) ==
  /\ SkipReason(t) = "" /\ t \notin ParseTranscript.calls
  /\ TurnHook(t).vector = "near"

Missed == {t \in Turns : MissedCall(t)}
Redundant == UNION {{<<t, q>> : q \in RedundantCalls(t)} : t \in Turns}
Skipped == {t \in Turns : SkipReason(t) # ""}

(* ComputeSemanticDrift gives no report without a user-prompt line, and    *)
(* computeSemanticDriftForReport none without a user's line.               *)
HasReport == Turns # {} /\ stages # <<>>

(* AggregateHookLogBySession: what is neither a hit nor an answer is no look. *)
StagesIn(set) == Cardinality({i \in DOMAIN stages : stages[i].stage \in set})
UserPromptCacheTotal == StagesIn({"cache_hit", "ok"})

Aggregate == [prompts |-> Len(stages), cacheHits |-> StagesIn({"cache_hit"}),
              cacheTotal |-> UserPromptCacheTotal, skips |-> StagesIn({"skip"})]

-----------------------------------------------------------------------------
(* The user's line whose turn number t is. *)
LineOfTurn(t) == CHOOSE i \in Users(Len(entries)) : Cardinality(Users(i)) = t + 1
CallsIn(t) ==
  {i \in DOMAIN entries : /\ entries[i].tool # "none" /\ i > LineOfTurn(t)
                          /\ Users(i) = Users(LineOfTurn(t))}

(* No turn is reproached both ways: whoever is said to have missed a call  *)
(* made none between that user's line and the next.                        *)
MissedMeansSilent ==
  HasReport => \A t \in Missed : CallsIn(t) = {} /\ RedundantCalls(t) = {}

(* The redundant calls are those that follow, with no user's line between, *)
(* an attachment of the prompt's hook.                                     *)
RedundantAsDefined ==
  ParseTranscript.redundant =
    Cardinality({i \in DOMAIN entries :
      /\ entries[i].tool # "none"
      /\ \E j \in 1..i - 1 : entries[j].kind = "attachment" /\ Users(i) = Users(j)})

(* The ratio of cache hits counts a prompt once, though its hook leaves    *)
(* several lines, whatever is killed, lost or rotated away; and while      *)
(* nothing was, it counts exactly the prompts that were served.            *)
With(set) == {stages[i].prompt : i \in {j \in DOMAIN stages : stages[j].stage \in set}}
RatioOverServed ==
  /\ Aggregate.cacheTotal = Cardinality(With({"cache_hit", "ok"}))
  /\ intact /\ hook.at = "none" => With({"cache_hit", "ok"}) = With({"nag_eval"})

(* The report accuses nobody of what did not happen, twice or both ways.   *)
ReportIsFair == MissedMeansSilent /\ RedundantAsDefined /\ RatioOverServed

(* As semantic_drift.go has it, the Nth user-prompt line is about the Nth  *)
(* user's line of the transcript: the data of a turn are its own prompt's. *)
PairedWithItsPrompt ==
  \A t \in Turns : TurnHook(t).stage = "" \/ TurnHook(t).prompt = entries[LineOfTurn(t)].prompt
=============================================================================
