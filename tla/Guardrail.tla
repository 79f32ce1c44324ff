----------------------------- MODULE Guardrail -----------------------------
(***************************************************************************)
(* The hook before a Bash command and the audit of what it logged:         *)
(*   internal/cli/hook_pre_tool_use.go       the handler                   *)
(*   internal/heimdall/destructive_ops.go    the static rules              *)
(*   internal/heimdall/llm_classifier.go     the second opinion            *)
(*   internal/cli/hooks_audit.go             the audit of hooks.log        *)
(* hook.go:60 gives the handler no second classifier, so that the shipped  *)
(* hook is the one with Classifiers = {"none"}; its tests give it one.     *)
(***************************************************************************)
EXTENDS Integers, Sequences, SequencesExt, FiniteSets, FiniteSetsExt

CONSTANTS BashCommand, \* records [prefix, kind]
          Setting,     \* values of HEIMDALL_GUARDRAILS
          Classifiers, \* what HookPreToolUseDeps holds: "none" or "llm"
          Root,        \* working directories of the events
          FullDay,     \* promotionMinWindow
          MaxHour,     \* bound of the clock
          MaxFires     \* bound: events that leave rows

VARIABLES hour,      \* the clock
          auditLog,  \* the rows of hooks.log
          reply      \* what the last command was told, and why

guardVars == <<hour, auditLog, reply>>

Class == {"allow", "warn", "block", "unknown"}
Mode == {"shadow", "warn", "block"}

(* What the model does with the question: it answers (with too many words  *)
(* if "long"), or it fails: too late, with words that are no answer, with  *)
(* a panic, or refused.  "hushed" is refused as well, when the note of it  *)
(* is not due (TierB models when that is).                                 *)
Failure == {"late", "refused", "hushed", "garbled", "panic"}
Opined == {"allow", "warn", "block", "long"} \cup Failure

(* The classes of the rules that commands of a kind match.  All rules but  *)
(* DROP_DATABASE want their command at the start of the line.              *)
KindRules ==
  [plain |-> {}, forcePush |-> {"warn"}, forcePushMain |-> {"block", "warn"},
   forceWithLease |-> {"allow", "block", "warn"}, dropDatabase |-> {"block"}]

ASSUME GuardAssumption ==
  /\ FullDay \in Nat /\ MaxHour \in Nat \ {0}
  /\ BashCommand \subseteq [prefix : Seq(STRING), kind : DOMAIN KindRules]
  /\ Classifiers \subseteq {"none", "llm"}

(* normalizeCommand: an env with its assignments, then any wrappers. *)
DropWhile(s, words) ==
  LET rest == {i \in DOMAIN s : s[i] \notin words}
  IN IF rest = {} THEN <<>> ELSE SubSeq(s, Min(rest), Len(s))

NormalizeCommand(prefix) ==
  DropWhile(IF prefix # <<>> /\ Head(prefix) = "env" THEN DropWhile(Tail(prefix), {"assign"})
            ELSE prefix, {"time", "nice"})

(* classifyStatic: allow before block before warn. *)
ClassifyStatic(c) ==
  LET rules == IF c.kind = "dropDatabase" \/ NormalizeCommand(c.prefix) = <<>>
               THEN KindRules[c.kind] ELSE {}
  IN IF "allow" \in rules THEN "allow" ELSE IF "block" \in rules THEN "block"
     ELSE IF "warn" \in rules THEN "warn" ELSE "unknown"

ParseGuardrailMode(setting) ==
  IF setting \in {"block", "1", "on", "enforce"} THEN "block"
  ELSE IF setting = "warn" THEN "warn" ELSE "shadow"

IsOff(setting) == setting \in {"off", "0"}

LogRow(stage, root, class, mode, by) ==
  [stage |-> stage, class |-> class, mode |-> mode, by |-> by, at |-> hour, root |-> root]

(* llmFailureStage: what the failure is logged as.  The panic was logged   *)
(* already, but its error has no stage of its own.                         *)
FailureRows(root, answer) ==
  CASE answer = "late" -> <<LogRow("timeout", root, "", "", "")>>
    [] answer = "garbled" -> <<LogRow("bad_response", root, "", "", "")>>
    [] answer = "panic" -> <<LogRow("panic", root, "", "", ""), LogRow("bad_response", root, "", "", "")>>
    [] answer = "refused" -> <<LogRow("unreachable", root, "", "", "")>>
    [] answer = "hushed" -> <<>>

(* Mutant: the hook closes when the model cannot be asked. *)
OpinionClosed(root, answer) ==
  [class |-> IF answer \in Failure \cup {"long"} THEN "block" ELSE answer, by |-> "llm",
   rows |-> IF answer \in Failure THEN FailureRows(root, answer)
            ELSE <<LogRow("llm.classify", root, IF answer = "long" THEN "block" ELSE answer, "", "")>>]

(* runLLMFallback: the verdict and the rows it leaves. *)
Opinion(root, answer) ==
  IF answer \in Failure
  THEN [class |-> "unknown", by |-> "", rows |-> FailureRows(root, answer)]
  ELSE LET class == IF answer = "long" THEN "block" ELSE answer
       IN [class |-> class, by |-> "llm",
           rows |-> (IF answer = "long" THEN <<LogRow("reason_truncated", root, "", "", "")>> ELSE <<>>)
                    \o <<LogRow("llm.classify", root, class, "", "")>>]

(* The verdict of the handler; answer is "off" if the second opinion is    *)
(* not asked for, "no model" if none is configured.                        *)
Verdict(root, c, deps, answer) ==
  LET static == ClassifyStatic(c)
  IN IF static # "unknown" THEN [class |-> static, by |-> "rule", rows |-> <<>>]
     ELSE IF deps = "none" \/ answer = "off" THEN [class |-> static, by |-> "", rows |-> <<>>]
     ELSE IF answer = "no model"
     THEN [class |-> static, by |-> "", rows |-> <<LogRow("no_model", root, "", "", "")>>]
     ELSE Opinion(root, answer)

Log(rows) ==
  /\ Cardinality({i \in DOMAIN auditLog : auditLog[i].stage \in {"classify", "skip"}}) < MaxFires
  /\ auditLog' = auditLog \o rows

NoReply == [exit |-> 0, shown |-> "", class |-> "", static |-> "", answer |-> "", setting |-> "",
            kind |-> "", prefix |-> <<>>]

(* HookPreToolUse with a Bash command and nothing that disables it. *)
HookPreToolUse(root, setting, c, deps, answer) ==
  /\ ~IsOff(setting)
  /\ LET v == Verdict(root, c, deps, answer)
         mode == ParseGuardrailMode(setting)
     IN /\ Log(v.rows \o <<LogRow("classify", root, v.class, mode, v.by)>>)
        /\ reply' =
             [exit |-> IF mode = "block" /\ v.class = "block" THEN 2 ELSE 0,
              shown |-> IF mode = "block" /\ v.class = "block" THEN "stderr"
                        ELSE IF mode # "shadow" /\ v.class \in {"warn", "block"} THEN "stdout" ELSE "",
              class |-> v.class, static |-> ClassifyStatic(c),
              answer |-> IF deps = "none" THEN "off" ELSE answer, setting |-> setting,
              kind |-> c.kind, prefix |-> c.prefix]
  /\ UNCHANGED hour

(* Off, HEIMDALL_HOOKS=0, another tool or hooks.disabled: no row at all.   *)
StaysSilent ==
  /\ reply' = NoReply
  /\ UNCHANGED <<hour, auditLog>>

(* Nothing on stdin, no JSON, no command: one row without a class. *)
NothingToClassify(root) ==
  /\ Log(<<LogRow("skip", root, "", "", "")>>)
  /\ reply' = NoReply
  /\ UNCHANGED hour

HourPasses ==
  /\ hour < MaxHour
  /\ hour' = hour + 1
  /\ reply' = NoReply
  /\ UNCHANGED auditLog

GuardInit == hour = 1 /\ auditLog = <<>> /\ reply = NoReply

GuardNext ==
  \/ \E root \in Root, setting \in Setting, c \in BashCommand, deps \in Classifiers,
        answer \in Opined \cup {"off", "no model"} :
          HookPreToolUse(root, setting, c, deps, answer)
  \/ StaysSilent
  \/ \E root \in Root : NothingToClassify(root)
  \/ HourPasses

GuardSpec == GuardInit /\ [][GuardNext]_guardVars

-----------------------------------------------------------------------------
(* aggregateAudit over the rows not older than since hours.  A row of the  *)
(* second opinion is telemetry of a verdict that has a row of its own.     *)
Read(since) == {i \in DOMAIN auditLog : auditLog[i].at >= hour - since}

Counts(r) == r.stage # "llm.classify" /\ r.class # ""

CountOf(since, class) ==
  Cardinality({i \in Read(since) : Counts(auditLog[i]) /\ auditLog[i].class = class})

TotalEvents(since) == Cardinality({i \in Read(since) : Counts(auditLog[i])})

PromoteToWarn(since) ==
  TotalEvents(since) = 0 \/ CountOf(since, "block") = 0 \/ since < FullDay

-----------------------------------------------------------------------------
GuardTypeOK ==
  /\ hour \in 1..MaxHour
  /\ auditLog \in Seq([stage : {"classify", "llm.classify", "reason_truncated", "timeout",
                                "bad_response", "panic", "unreachable", "no_model", "skip"},
                       class : Class \cup {""}, mode : Mode \cup {""}, by : {"", "rule", "llm"},
                       at : 1..hour, root : Root])
  /\ reply.exit \in {0, 2} /\ reply.class \in Class \cup {""}

(* A command is refused only in a setting that enforces, on a verdict of   *)
(* the rules or of a model that answered, and the log says so: a failure   *)
(* of the model never refuses, and an allow rule cannot be overruled.      *)
RefusedByVerdict ==
  reply.exit = 2 =>
    /\ ParseGuardrailMode(reply.setting) = "block"
    /\ \/ "block" \in KindRules[reply.kind] /\ "allow" \notin KindRules[reply.kind]
       \/ reply.static = "unknown" /\ reply.answer \in {"block", "long"}
    /\ Last(auditLog).class = "block" /\ Last(auditLog).mode = "block"

(* An env with assignments and then any wrappers change nothing in how a   *)
(* command is judged.                                                      *)
WrappersAreTransparent ==
  /\ reply.kind # ""
  /\ \A i \in DOMAIN reply.prefix :
       \/ reply.prefix[i] \in {"time", "nice"}
       \/ reply.prefix[1] = "env" /\ \A j \in 2..i : reply.prefix[j] = "assign"
  => reply.static = ClassifyStatic([prefix |-> <<>>, kind |-> reply.kind])

(* The audit counts every verdict once, whichever rows its hook logged,    *)
(* and a refusal in a window of a day keeps it from recommending to go on. *)
AuditCountsVerdicts ==
  \A since \in 0..MaxHour :
    /\ TotalEvents(since) =
         Cardinality({i \in DOMAIN auditLog : auditLog[i].stage = "classify" /\ auditLog[i].at >= hour - since})
    /\ reply.exit = 2 /\ since >= FullDay => ~PromoteToWarn(since)

(* A verdict is the command's, it is what is done, and it is in the log    *)
(* and in what is counted there.                                           *)
VerdictsHold == RefusedByVerdict /\ WrappersAreTransparent /\ AuditCountsVerdicts
=============================================================================
