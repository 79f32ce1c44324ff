----------------------------- MODULE Compliance -----------------------------
(***************************************************************************)
(* What the hooks read out of the transcript of a session that has ended:  *)
(* the moments worth remembering and the summary of them                   *)
(* (internal/cli/hook_stop.go), the four rules on when heimdall should     *)
(* have been called (missed_calls.go), and whether the next session is     *)
(* told.  Three readers walk the same lines on their own.  The transcript  *)
(* grows line by line; each state is one the session may end in.           *)
(***************************************************************************)
EXTENDS Integers, Sequences, FiniteSets, SequencesExt

CONSTANTS RecallTurns,  \* assistant turns in which the recall is expected
          TailCount,    \* extractorTailCount
          FewMoments,   \* candidates that writes make up for
          MaxLength,    \* bound: lines
          HugeLines,    \* whether a line may exceed the scanners' 2 MB
          Nameless      \* types of messages that may come without their role

VARIABLE talk           \* the lines

ASSUME LengthAssumption == MaxLength \in Nat /\ TailCount \in Nat \ {0}

RuleTools == {"search", "remember", "index_text", "recall"}
Said == {"plain", "correction", "frustration", "plan"}

(* A line: the role that the parsed message has, which is its type if it   *)
(* names none; the role that the first `"role":"` in the bytes names; its  *)
(* text, "" if nothing; the tools an assistant calls; the tool whose       *)
(* result it brings and whether that is long; whether it is a meta entry   *)
(* or too long for a scanner.  A line that is no message, or does not      *)
(* parse, has no role of its own, but a message inside it may name one.    *)
NoMessage == [role |-> "", named |-> "", text |-> "", tools |-> {}, result |-> "",
              long |-> FALSE, meta |-> FALSE, huge |-> FALSE]
Message(role) == [NoMessage EXCEPT !.role = role, !.named = role]
Human(t, meta) == [Message("user") EXCEPT !.text = t, !.meta = meta]
Assistant(tools) == [Message("assistant") EXCEPT !.tools = tools,
                                                 !.text = IF tools = {} THEN "answer" ELSE ""]
Result(tool, long, huge) == [Message("user") EXCEPT !.result = tool, !.long = long,
                                                    !.huge = huge]
System == [Message("system") EXCEPT !.text = "correction"]
Calls == {{}, {"Read"}, {"WebFetch"}, {"Read", "search"}} \cup {{t} : t \in RuleTools}

TalkTypeOK ==
  /\ Len(talk) <= MaxLength
  /\ \A i \in DOMAIN talk :
       /\ {talk[i].role, talk[i].named} \subseteq {"", "user", "assistant", "system"}
       /\ talk[i].tools \in Calls
       /\ talk[i].text \in Said \cup {"", "answer"} /\ talk[i].result \in {"", "Read", "WebFetch"}
       /\ {talk[i].long, talk[i].meta, talk[i].huge} \subseteq BOOLEAN

Says(l) ==
  /\ Len(talk) < MaxLength
  /\ \/ talk' = Append(talk, l)
     \/ l.role \in Nameless /\ talk' = Append(talk, [l EXCEPT !.named = ""])

HumanSpeaks == \E t \in Said : Says(Human(t, FALSE))
SkillIsLoaded == Says(Human("correction", TRUE))
AssistantSpeaks == \E c \in Calls : Says(Assistant(c))
ToolAnswers ==
  /\ talk # <<>>
  /\ \E tool \in Last(talk).tools \cap {"Read", "WebFetch"}, long \in BOOLEAN :
       \/ Says(Result(tool, long, FALSE))
       \/ long /\ HugeLines /\ Says(Result(tool, TRUE, TRUE))
SystemSpeaks == Says(System)
OtherEntry == \E r \in {"", "user", "assistant"} : Says([NoMessage EXCEPT !.named = r])

TalkInit == talk = <<>>
TalkNext ==
  HumanSpeaks \/ SkillIsLoaded \/ AssistantSpeaks \/ ToolAnswers \/ SystemSpeaks \/ OtherEntry

TalkSpec == TalkInit /\ [][TalkNext]_talk

-----------------------------------------------------------------------------
(* parseTranscriptMessages: the messages, each with the place of its line. *)
IsMessage(l) == l.role # "" /\ ~l.meta

(* Mutant: lines that are left out are not counted. *)
ParsedCountingMessages(lines) ==
  LET upTo[i \in 0..Len(lines)] ==
        IF i = 0 THEN <<>> ELSE IF ~IsMessage(lines[i]) THEN upTo[i - 1]
        ELSE Append(upTo[i - 1], [line |-> lines[i], at |-> Len(upTo[i - 1])])
  IN upTo[Len(lines)]

Parsed(lines) ==
  LET upTo[i \in 0..Len(lines)] ==
        IF i = 0 THEN <<>> ELSE IF ~IsMessage(lines[i]) THEN upTo[i - 1]
        ELSE Append(upTo[i - 1], [line |-> lines[i], at |-> i - 1])
  IN upTo[Len(lines)]

Msg(lines, i) == Parsed(lines)[i].line
MessagesOf(lines) == DOMAIN Parsed(lines)
AssistantHasTool(lines, i, tool) ==
  i \in MessagesOf(lines) /\ Msg(lines, i).role = "assistant" /\ tool \in Msg(lines, i).tools

(* The messages at which each rule fires, and whether it was followed. *)
ReadLargeFile(lines) ==
  {i \in MessagesOf(lines) : /\ AssistantHasTool(lines, i, "Read") /\ i + 1 \in MessagesOf(lines)
                        /\ Msg(lines, i + 1).result = "Read" /\ Msg(lines, i + 1).long}
SearchFollows(lines, i) ==
  AssistantHasTool(lines, i, "search") \/ AssistantHasTool(lines, i + 2, "search")

UserCorrection(lines) ==
  {i \in MessagesOf(lines) : Msg(lines, i).role = "user" /\ Msg(lines, i).text = "correction"}
RememberFollows(lines, i) == AssistantHasTool(lines, i + 1, "remember")

ExternalContent(lines) ==
  {i \in MessagesOf(lines) : /\ Msg(lines, i).role = "user" /\ Msg(lines, i).long
                        /\ Msg(lines, i).result = "WebFetch"}
IndexTextFollows(lines, i) == AssistantHasTool(lines, i + 1, "index_text")

TaskStartRecall(lines) ==
  {i \in MessagesOf(lines) :
     /\ Msg(lines, i).role = "user" /\ Msg(lines, i).text = "plan"
     /\ \A j \in 1..i - 1 : ~(Msg(lines, j).role = "user" /\ Msg(lines, j).text # "")}
RecallFollows(lines, i) ==
  \E j \in MessagesOf(lines) :
     /\ j > i /\ AssistantHasTool(lines, j, "recall")
     /\ Cardinality({k \in i + 1..j : Msg(lines, k).role = "assistant"}) <= RecallTurns

(* AnalyzeTranscript. *)
Firings(lines) ==
  {[rule |-> "search", at |-> i, ok |-> SearchFollows(lines, i)] : i \in ReadLargeFile(lines)}
  \cup {[rule |-> "remember", at |-> i, ok |-> RememberFollows(lines, i)]
          : i \in UserCorrection(lines)}
  \cup {[rule |-> "index_text", at |-> i, ok |-> IndexTextFollows(lines, i)]
          : i \in ExternalContent(lines)}
  \cup {[rule |-> "recall", at |-> i, ok |-> RecallFollows(lines, i)]
          : i \in TaskStartRecall(lines)}
Misses(lines) == {f \in Firings(lines) : ~f.ok}

-----------------------------------------------------------------------------
(* What a bufio.Scanner gets to see. *)
Scannable(lines) ==
  LET huge == {i \in DOMAIN lines : lines[i].huge}
  IN IF huge = {} THEN lines ELSE SubSeq(lines, 1, (CHOOSE i \in huge : \A j \in huge : i <= j) - 1)

CountHeimdallWrites(lines) ==
  Cardinality({i \in DOMAIN Scannable(lines) :
                 IsMessage(lines[i]) /\ lines[i].tools \cap {"remember", "index_text"} # {}})

(* extractTranscriptSummary.  The scan keeps the candidates with their     *)
(* line, the windows (the assistant's text before, the user's), the last   *)
(* assistant lines, and the assistant line right before, if there is one.  *)
(* roleFromLine goes by the role that the bytes name.                      *)
Window(before, text) == [before |-> before, text |-> text]
NoScan == [candidates |-> <<>>, windows |-> <<>>, tail |-> <<>>, before |-> ""]

ScanLine(s, l, at) ==
  IF l.named = "" THEN s
  ELSE IF l.named = "assistant"
  THEN [s EXCEPT !.before = l.text,
                 !.tail = IF Len(@) < TailCount THEN Append(@, l.text)
                          ELSE Append(Tail(@), l.text)]
  ELSE IF l.named # "user" \/ l.text \notin {"correction", "frustration"}
  THEN [s EXCEPT !.before = ""]
  ELSE [s EXCEPT !.candidates = Append(@, [marker |-> l.text, at |-> at]),
                 !.windows = IF Contains(@, Window(s.before, l.text)) THEN @
                             ELSE Append(@, Window(s.before, l.text)),
                 !.before = ""]

Scan(lines) ==
  LET upTo[i \in 0..Len(Scannable(lines))] ==
        IF i = 0 THEN NoScan ELSE ScanLine(upTo[i - 1], lines[i], i - 1)
  IN upTo[Len(Scannable(lines))]

Summary(lines) ==
  LET s == Scan(lines)
  IN IF s.windows # <<>> THEN s.windows
     ELSE [i \in DOMAIN SelectSeq(s.tail, LAMBDA t : t # "") |-> Window("answer", "")]

(* writeLastSessionReview: whether there is one, and what it counts. *)
WritesReview(lines) ==
  ~(/\ Len(Scan(lines).candidates) <= FewMoments /\ CountHeimdallWrites(lines) >= 1
    /\ Misses(lines) = {})

-----------------------------------------------------------------------------
(* The two readers that look for corrections agree: the line a missed      *)
(* correction names is a candidate of the other, with that marker (a meta  *)
(* entry is a candidate only), though one parses the role and the other    *)
(* looks for it in the bytes.                                              *)
CorrectionsAreCandidates ==
  LET found == ToSet(Scan(talk).candidates)
  IN \A i \in UserCorrection(talk) :
       [marker |-> "correction", at |-> Parsed(talk)[i].at] \in found

(* The two readers that look for writes agree: a session credited with     *)
(* following a rule that asks for a write is not reproached, if nothing    *)
(* was missed and the moments are few.                                     *)
FollowersAreWriters ==
  /\ \E f \in Firings(talk) : f.ok /\ f.rule \in {"remember", "index_text"}
  /\ Misses(talk) = {} /\ Len(Scan(talk).candidates) <= FewMoments
  => ~WritesReview(talk)

(* The summary shows the assistant's words before the user's only if the   *)
(* user answered them: no other message of the two, and none that names a  *)
(* role, is between.  It shows the assistant alone only if there was       *)
(* nothing worth remembering.                                              *)
WindowsAreExchanges ==
  \A w \in ToSet(Summary(talk)) :
    IF w.text = "" THEN Scan(talk).candidates = <<>>
    ELSE \E i \in DOMAIN talk :
      /\ talk[i].text = w.text /\ talk[i].role = "user"
      /\ w.before # "" =>
           \E j \in 1..i - 1 : /\ talk[j].role = "assistant" /\ talk[j].text = w.before
                               /\ \A k \in j + 1..i - 1 :
                                    talk[k].named = "" /\ talk[k].role \notin {"user", "assistant"}

(* The readers of one transcript do not contradict each other, and show no *)
(* exchange that was not one.                                              *)
ReadersAgree == CorrectionsAreCandidates /\ FollowersAreWriters /\ WindowsAreExchanges
=============================================================================
