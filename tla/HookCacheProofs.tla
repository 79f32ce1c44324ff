-------------------------- MODULE HookCacheProofs --------------------------
(***************************************************************************)
(* The prompt hook never prints a stale answer, for any number of hooks,   *)
(* prompts and rows, as far as changes of the index go through a           *)
(* transaction that bumps index_version and the version query succeeds.    *)
(* Searches and puts may fail, hooks may be killed, the cache be cleared.  *)
(* And the table outgrows its cap by no more than a row for each other     *)
(* hook and for each that was cut off: the rows that may yet be added are  *)
(* counted against the evictions still owed.                               *)
(***************************************************************************)
EXTENDS HookCache, FiniteSetTheorems, TLAPS

Answered == {"count", "exists", "insert", "replace", "evict", "print"}

(* The types, and what makes them inductive: the table is finite, so that  *)
(* it has a count, the version never runs ahead of the index, and a hook   *)
(* at work has a prompt.                                                   *)
TInv ==
  /\ TypeOK
  /\ IsFiniteSet(table)
  /\ version <= content
  /\ \A h \in Hook : pc[h] # "idle" => prompt[h] \in Prompt

(* A row's version is a lower bound of the generation it was computed      *)
(* from, and the version of a hook that of its prompt.                     *)
RowsFresh == \A r \in table : r.body # Partial => r.ver <= r.body /\ r.body <= content
HooksFresh ==
  \A h \in Hook :
    /\ ver[h] = since[h] /\ since[h] <= content
    /\ pc[h] \in Answered /\ answer[h] # Partial => since[h] <= answer[h] /\ answer[h] <= content
FInv == RowsFresh /\ HooksFresh

(* Every statement of the database keeps the types and a finite table. *)
LEMMA TypeStep == TInv /\ [Next]_vars => TInv'
<1> SUFFICES ASSUME TInv, [Next]_vars PROVE TInv'
  OBVIOUS
<1> USE BoundsAssumption, NullAssumption DEF TInv, TypeOK, Generation, Answer, Step
<1>1. ASSUME NEW h \in Hook, NEW p \in Prompt, ComputeKey(h, p) PROVE TInv'
  BY <1>1 DEF ComputeKey, Go, index
<1>2. ASSUME NEW h \in Hook, Hit(h) PROVE TInv'
  <2>1. PICK r \in table : answer' = [answer EXCEPT ![h] = r.body]
    BY <1>2 DEF Hit
  <2>2. r.body \in Answer
    BY <2>1 DEF Row
  <2> QED BY <1>2, <2>1, <2>2 DEF Hit, Go, index
<1>3. ASSUME NEW h \in Hook, Miss(h) PROVE TInv'
  BY <1>3 DEF Miss, Go, index
<1>4. ASSUME NEW h \in Hook, GiveUp(h) \/ PrintAnswer(h) \/ HookKilled(h) PROVE TInv'
  BY <1>4 DEF GiveUp, PrintAnswer, HookKilled, Forget, CutOff, Go, index
<1>5. ASSUME NEW h \in Hook, Search(h) PROVE TInv'
  BY <1>5 DEF Search, Go, index
<1>6. ASSUME NEW h \in Hook, PutCount(h) PROVE TInv'
  <2>1. Cardinality(table) \in Nat
    BY FS_CardinalityType
  <2> QED BY <1>6, <2>1 DEF PutCount, Go, index
<1>7. ASSUME NEW h \in Hook, PutExists(h) PROVE TInv'
  BY <1>7 DEF PutExists, Go, index
<1>8. ASSUME NEW h \in Hook, PutRow(h) PROVE TInv'
  <2> DEFINE kept == {r \in table : ~Mine(h, r)}
             new == [prompt |-> prompt[h], ver |-> ver[h], body |-> answer[h], at |-> now]
  <2>1. table' = kept \cup {new}
    BY <1>8 DEF PutRow
  <2>2. IsFiniteSet(table')
    <3>1. IsFiniteSet(kept)
      BY FS_Subset
    <3> QED BY <2>1, <3>1, FS_AddElement
  <2>3. pc[h] \in {"insert", "replace"} /\ pc' = [pc EXCEPT ![h] = "evict"]
    BY <1>8 DEF PutRow, Go
  <2>4. new \in Row
    BY <2>3 DEF Row
  <2> QED BY <1>8, <2>1, <2>2, <2>3, <2>4 DEF PutRow, index
<1>9. ASSUME NEW h \in Hook, Evict(h) PROVE TInv'
  <2>1. table' \subseteq table
    BY <1>9 DEF Evict
  <2>2. IsFiniteSet(table')
    BY <2>1, FS_Subset
  <2> QED BY <1>9, <2>1, <2>2 DEF Evict, Go, index
<1>10. ASSUME NEW h \in Hook, PutFails(h) PROVE TInv'
  BY <1>10 DEF PutFails, CutOff, Go, index
<1>11. ASSUME WriteIndex \/ WriteUnversioned PROVE TInv'
  BY <1>11 DEF WriteIndex, WriteUnversioned, hookVars
<1>12. CASE ClearCache
  BY <1>12, FS_EmptySet DEF ClearCache, index, hookVars
<1>13. CASE Tick
  BY <1>13 DEF Tick, index, hookVars
<1>14. CASE UNCHANGED vars
  BY <1>14 DEF vars, index, hookVars
<1> QED BY <1>1, <1>2, <1>3, <1>4, <1>5, <1>6, <1>7, <1>8, <1>9, <1>10, <1>11, <1>12, <1>13, <1>14
        DEF Next, HookRuns

(* A hook keeps the key and the generation it started from, and whatever   *)
(* it prints was searched after that or found under that very version.     *)
LEMMA FreshStep ==
  TInv /\ FInv /\ [Next]_vars /\ "version" \notin Faults => FInv'
<1> SUFFICES ASSUME TInv, FInv, [Next]_vars, "version" \notin Faults
             PROVE FInv'
  OBVIOUS
<1> USE NullAssumption DEF TInv, TypeOK, FInv, RowsFresh, HooksFresh, Answered, Generation, Answer
<1>1. ASSUME NEW h \in Hook, NEW p \in Prompt, ComputeKey(h, p) PROVE FInv'
  BY <1>1 DEF ComputeKey, Go, index
<1>2. ASSUME NEW h \in Hook, Hit(h) PROVE FInv'
  <2>1. PICK r \in table : Mine(h, r) /\ answer' = [answer EXCEPT ![h] = r.body]
    BY <1>2 DEF Hit
  <2>2. r.body # Partial => since[h] <= r.body /\ r.body <= content
    BY <2>1 DEF Mine
  <2> QED BY <1>2, <2>1, <2>2 DEF Hit, Go, index
<1>3. ASSUME NEW h \in Hook, Miss(h) PROVE FInv'
  BY <1>3 DEF Miss, Go, index
<1>4. ASSUME NEW h \in Hook, GiveUp(h) \/ PrintAnswer(h) \/ HookKilled(h) PROVE FInv'
  BY <1>4 DEF GiveUp, PrintAnswer, HookKilled, Forget, Go, index
<1>5. ASSUME NEW h \in Hook, Search(h) PROVE FInv'
  BY <1>5 DEF Search, Go, index
<1>6. ASSUME NEW h \in Hook, PutCount(h) \/ PutExists(h) \/ PutFails(h) PROVE FInv'
  BY <1>6 DEF PutCount, PutExists, PutFails, Go, index
<1>7. ASSUME NEW h \in Hook, PutRow(h) PROVE FInv'
  <2> DEFINE new == [prompt |-> prompt[h], ver |-> ver[h], body |-> answer[h], at |-> now]
  <2>1. table' \subseteq table \cup {new} /\ pc[h] \in {"insert", "replace"}
    BY <1>7 DEF PutRow, Go
  <2>2. new.body # Partial => new.ver <= new.body /\ new.body <= content
    BY <2>1
  <2>3. RowsFresh'
    BY <1>7, <2>1, <2>2 DEF PutRow, index
  <2> QED BY <1>7, <2>1, <2>3 DEF PutRow, Go, index
<1>8. ASSUME NEW h \in Hook, Evict(h) PROVE FInv'
  <2>1. table' \subseteq table
    BY <1>8 DEF Evict
  <2> QED BY <1>8, <2>1 DEF Evict, Go, index
<1>9. CASE WriteIndex
  BY <1>9 DEF WriteIndex, hookVars, Row
<1>10. CASE WriteUnversioned
  BY <1>10 DEF WriteUnversioned, hookVars, Row
<1>11. CASE ClearCache
  BY <1>11 DEF ClearCache, index, hookVars
<1>12. CASE Tick \/ UNCHANGED vars
  BY <1>12 DEF Tick, vars, index, hookVars
<1> QED BY <1>1, <1>2, <1>3, <1>4, <1>5, <1>6, <1>7, <1>8, <1>9, <1>10, <1>11, <1>12
        DEF Next, HookRuns

LEMMA Initially == Init => TInv /\ FInv
BY BoundsAssumption, FS_EmptySet, NullAssumption
   DEF Init, TInv, TypeOK, FInv, RowsFresh, HooksFresh, Answered, Generation, Answer, Step

(* Every variable keeps its type, whatever fails.                          *)
THEOREM TypeCorrect == Spec => []TypeOK
<1>1. TInv => TypeOK
  BY DEF TInv
<1> QED BY <1>1, Initially, TypeStep, PTL DEF Spec

(* No stale answer: what a hook prints reflects every versioned write      *)
(* before its prompt, if no version query fails (its error is dropped and  *)
(* reads as version 0).                                                    *)
THEOREM AnswersAreFresh ==
  "version" \notin Faults => (Spec => []FreshAnswer)
<1> SUFFICES ASSUME "version" \notin Faults
             PROVE Spec => []FreshAnswer
  OBVIOUS
<1>1. TInv /\ FInv /\ [Next]_vars => (TInv /\ FInv)'
  BY TypeStep, FreshStep
<1>2. TInv /\ FInv => FreshAnswer
  BY DEF TInv, TypeOK, FInv, HooksFresh, Answered, FreshAnswer, Generation, Answer
<1> QED BY <1>1, <1>2, Initially, PTL DEF Spec

-----------------------------------------------------------------------------
(* A put that may yet add a row without taking one away; one that will add *)
(* a row now, should it go on; one that owes the table an eviction; and    *)
(* one that will evict.                                                    *)
Threat(h) ==
  \/ pc[h] \in {"exists", "replace"} /\ rows[h] <= RowCap
  \/ pc[h] = "insert" /\ rows[h] < RowCap
Missing(h) == pc[h] = "replace" /\ \A r \in table : ~Mine(h, r)
Adds(h) ==
  \/ pc[h] \in {"exists", "insert", "replace"} /\ rows[h] < RowCap
  \/ Missing(h) /\ rows[h] = RowCap
Owes(h) == pc[h] = "evict" /\ rows[h] > RowCap
WillEvict(h) ==
  \/ pc[h] \in {"exists", "insert"} /\ rows[h] >= RowCap
  \/ pc[h] \in {"replace", "evict"} /\ rows[h] > RowCap

Threats == {h \in Hook : Threat(h)}
Adders == {h \in Hook : Adds(h)}
Owing == {h \in Hook : Owes(h)}
Others == Cardinality(Hook) - 1
Lacks(h) == IF Missing(h) THEN 1 ELSE 0

(* However many rows the puts under way add before they evict, the table   *)
(* stays within what every hook may add once; and so does what has come to *)
(* the table since a hook that will evict has counted it.                  *)
TableWithin ==
  Cardinality(table) + Cardinality(Adders) <= RowCap + Others + cut + Cardinality(Owing)
HookWithin(h) ==
  WillEvict(h) =>
    Cardinality(table) + Cardinality(Threats \ {h}) + Lacks(h)
      <= rows[h] + Others + cut + Cardinality(Owing \ {h})
CapInv == TableWithin /\ \A h \in Hook : HookWithin(h)

(* A set of hooks is counted with and without one of them. *)
LEMMA HooksCounted ==
  ASSUME NEW S \in SUBSET Hook, NEW h \in Hook
  PROVE  /\ Cardinality(S) \in Nat /\ Cardinality(S \ {h}) \in Nat
         /\ Cardinality(S) = Cardinality(S \ {h}) + (IF h \in S THEN 1 ELSE 0)
         /\ Cardinality(S) <= Cardinality(Hook) /\ Cardinality(S \ {h}) <= Cardinality(Hook) - 1
         /\ Cardinality(Hook) \in Nat
<1>1. IsFiniteSet(Hook) /\ IsFiniteSet(S) /\ IsFiniteSet(Hook \ {h})
  BY BoundsAssumption, FS_Subset
<1>2. Cardinality(S) \in Nat /\ Cardinality(S \ {h}) \in Nat /\ Cardinality(Hook) \in Nat
  BY <1>1, FS_CardinalityType, FS_RemoveElement
<1>3. ASSUME h \in S PROVE Cardinality(S) = Cardinality(S \ {h}) + 1
  <2>1. Cardinality(S \ {h}) = Cardinality(S) - 1
    BY <1>1, <1>3, FS_RemoveElement
  <2> QED
    BY <1>2, <2>1
<1>4. ASSUME h \notin S PROVE Cardinality(S) = Cardinality(S \ {h})
  <2>1. S \ {h} = S
    BY <1>4
  <2> QED
    BY <2>1
<1>a. Cardinality(S) = Cardinality(S \ {h}) + (IF h \in S THEN 1 ELSE 0)
  BY <1>2, <1>3, <1>4
<1>5. Cardinality(S) <= Cardinality(Hook)
  BY <1>1, FS_Subset
<1>6. Cardinality(Hook \ {h}) = Cardinality(Hook) - 1
  BY <1>1, FS_RemoveElement
<1>7. S \ {h} \subseteq Hook \ {h}
  OBVIOUS
<1>8. Cardinality(S \ {h}) <= Cardinality(Hook) - 1
  BY <1>1, <1>6, <1>7, FS_Subset
<1> QED
  BY <1>2, <1>a, <1>5, <1>8

(* While one hook takes a step, the others are counted as they were.       *)
Indicator(b) == IF b THEN 1 ELSE 0
OthersRest(h) == \A g \in Hook \ {h} : pc'[g] = pc[g] /\ rows'[g] = rows[g]

LEMMA OneMoves ==
  ASSUME NEW h \in Hook, OthersRest(h)
  PROVE  /\ \E n \in Nat : /\ Cardinality(Owing) = n + Indicator(Owes(h))
                           /\ Cardinality(Owing') = n + Indicator(Owes(h)')
         /\ \A g \in Hook \ {h} :
              /\ \E n \in Nat : /\ Cardinality(Threats \ {g}) = n + Indicator(Threat(h))
                                /\ Cardinality((Threats \ {g})') = n + Indicator(Threat(h)')
              /\ \E n \in Nat : /\ Cardinality(Owing \ {g}) = n + Indicator(Owes(h))
                                /\ Cardinality((Owing \ {g})') = n + Indicator(Owes(h)')
         /\ (Threats \ {h})' = Threats \ {h} /\ (Owing \ {h})' = Owing \ {h}
<1>1. \A k \in Hook \ {h} : (Threat(k)' <=> Threat(k)) /\ (Owes(k)' <=> Owes(k))
  BY DEF OthersRest, Threat, Owes
<1>2. (Threats \ {h})' = Threats \ {h} /\ (Owing \ {h})' = Owing \ {h}
  BY <1>1 DEF Threats, Owing
<1>3. Owing \in SUBSET Hook /\ Owing' \in SUBSET Hook /\ Threats \in SUBSET Hook /\ Threats' \in SUBSET Hook
  BY DEF Threats, Owing
<1>4. (h \in Owing <=> Owes(h)) /\ (h \in Owing' <=> Owes(h)') /\ (h \in Threats <=> Threat(h))
      /\ (h \in Threats' <=> Threat(h)')
  BY DEF Threats, Owing
<1>5. \E n \in Nat : /\ Cardinality(Owing) = n + Indicator(Owes(h))
                     /\ Cardinality(Owing') = n + Indicator(Owes(h)')
  <2>1. Cardinality(Owing \ {h}) \in Nat
        /\ Cardinality(Owing) = Cardinality(Owing \ {h}) + Indicator(Owes(h))
    BY <1>3, <1>4, HooksCounted DEF Indicator
  <2>2. Cardinality(Owing') = Cardinality(Owing' \ {h}) + Indicator(Owes(h)')
    BY <1>3, <1>4, HooksCounted DEF Indicator
  <2>3. Cardinality(Owing' \ {h}) = Cardinality(Owing \ {h})
    BY <1>2
  <2> QED
    BY <2>1, <2>2, <2>3
<1>6. ASSUME NEW g \in Hook \ {h}
      PROVE  \E n \in Nat : /\ Cardinality(Threats \ {g}) = n + Indicator(Threat(h))
                            /\ Cardinality((Threats \ {g})') = n + Indicator(Threat(h)')
  <2> DEFINE S == Threats \ {g}
             R == Threats' \ {g}
  <2>1. S \in SUBSET Hook /\ R \in SUBSET Hook /\ (h \in S <=> Threat(h)) /\ (h \in R <=> Threat(h)')
    BY <1>3, <1>4
  <2>2. R \ {h} = S \ {h}
    BY <1>2
  <2> HIDE DEF S, R
  <2>3. Cardinality(S \ {h}) \in Nat /\ Cardinality(S) = Cardinality(S \ {h}) + Indicator(Threat(h))
    BY <2>1, HooksCounted DEF Indicator
  <2>4. Cardinality(R) = Cardinality(R \ {h}) + Indicator(Threat(h)')
    BY <2>1, HooksCounted DEF Indicator
  <2>5. Cardinality(R) = Cardinality(S \ {h}) + Indicator(Threat(h)')
    BY <2>2, <2>4
  <2> QED
    BY <2>3, <2>5 DEF S, R
<1>7. ASSUME NEW g \in Hook \ {h}
      PROVE  \E n \in Nat : /\ Cardinality(Owing \ {g}) = n + Indicator(Owes(h))
                            /\ Cardinality((Owing \ {g})') = n + Indicator(Owes(h)')
  <2> DEFINE S == Owing \ {g}
             R == Owing' \ {g}
  <2>1. S \in SUBSET Hook /\ R \in SUBSET Hook /\ (h \in S <=> Owes(h)) /\ (h \in R <=> Owes(h)')
    BY <1>3, <1>4
  <2>2. R \ {h} = S \ {h}
    BY <1>2
  <2> HIDE DEF S, R
  <2>3. Cardinality(S \ {h}) \in Nat /\ Cardinality(S) = Cardinality(S \ {h}) + Indicator(Owes(h))
    BY <2>1, HooksCounted DEF Indicator
  <2>4. Cardinality(R) = Cardinality(R \ {h}) + Indicator(Owes(h)')
    BY <2>1, HooksCounted DEF Indicator
  <2>5. Cardinality(R) = Cardinality(S \ {h}) + Indicator(Owes(h)')
    BY <2>2, <2>4
  <2> QED
    BY <2>3, <2>5 DEF S, R
<1> QED
  BY <1>2, <1>5, <1>6, <1>7

(* The same of those that will add a row, if none of the others begins to. *)
LEMMA NoMoreAdders ==
  ASSUME NEW h \in Hook, \A g \in Hook \ {h} : Adds(g)' => Adds(g)
  PROVE  \E n, m \in Nat : /\ n <= m /\ Cardinality(Adders) = m + Indicator(Adds(h))
                           /\ Cardinality(Adders') = n + Indicator(Adds(h)')
<1>1. Adders \in SUBSET Hook /\ Adders' \in SUBSET Hook /\ (h \in Adders <=> Adds(h))
      /\ (h \in Adders' <=> Adds(h)') /\ Adders' \ {h} \subseteq Adders \ {h}
  BY DEF Adders
<1>2. Cardinality(Adders \ {h}) \in Nat /\ Cardinality(Adders) = Cardinality(Adders \ {h}) + Indicator(Adds(h))
  BY <1>1, HooksCounted DEF Indicator
<1>3. Cardinality(Adders' \ {h}) \in Nat /\ Cardinality(Adders') = Cardinality(Adders' \ {h}) + Indicator(Adds(h)')
  BY <1>1, HooksCounted DEF Indicator
<1>4. IsFiniteSet(Adders \ {h})
  BY <1>1, BoundsAssumption, FS_Subset
<1>5. Cardinality(Adders' \ {h}) <= Cardinality(Adders \ {h})
  BY <1>1, <1>4, FS_Subset
<1> QED
  BY <1>2, <1>3, <1>5

(* What one hook does keeps the bound of another if it gives up as much    *)
(* (a threat, or by being cut off) as it takes.                            *)
LEMMA OtherKept ==
  ASSUME NEW h \in Hook, OthersRest(h), TInv, TInv', NEW g \in Hook \ {h}, HookWithin(g),
         Cardinality(table') + Indicator(Threat(h)') + Lacks(g)' + Indicator(Owes(h)) + cut
           <= Cardinality(table) + Indicator(Threat(h)) + Lacks(g) + Indicator(Owes(h)') + cut'
  PROVE  HookWithin(g)'
<1>1. /\ Cardinality(table) \in Nat /\ Cardinality(table') \in Nat /\ cut \in Nat /\ cut' \in Nat
      /\ rows[g] \in Nat /\ Others \in Int /\ Lacks(g) \in Nat /\ Lacks(g)' \in Nat
  <2>1. Cardinality(table) \in Nat /\ Cardinality(table') \in Nat
    BY FS_CardinalityType DEF TInv
  <2>2. cut \in Nat /\ cut' \in Nat /\ rows[g] \in Nat
    BY BoundsAssumption DEF TInv, TypeOK
  <2>3. Cardinality(Hook) \in Nat
    BY BoundsAssumption, FS_CardinalityType
  <2>4. Lacks(g) \in Nat /\ Lacks(g)' \in Nat
    BY DEF Lacks
  <2> QED
    BY <2>1, <2>2, <2>3, <2>4 DEF Others
<1>2. PICK n \in Nat : /\ Cardinality(Threats \ {g}) = n + Indicator(Threat(h))
                       /\ Cardinality((Threats \ {g})') = n + Indicator(Threat(h)')
  BY OneMoves
<1>3. PICK m \in Nat : /\ Cardinality(Owing \ {g}) = m + Indicator(Owes(h))
                       /\ Cardinality((Owing \ {g})') = m + Indicator(Owes(h)')
  BY OneMoves
<1>4. rows'[g] = rows[g] /\ (WillEvict(g)' => WillEvict(g)) /\ Others' = Others
  BY DEF OthersRest, WillEvict, Others
<1>5. \A P : Indicator(P) \in Nat
  BY DEF Indicator
<1>6. CASE ~WillEvict(g)
  BY <1>4, <1>6 DEF HookWithin
<1>7. CASE WillEvict(g)
  <2>1. Cardinality(table) + Cardinality(Threats \ {g}) + Lacks(g)
          <= rows[g] + Others + cut + Cardinality(Owing \ {g})
    BY <1>7 DEF HookWithin, Lacks
  <2>2. Indicator(Threat(h)) \in Nat /\ Indicator(Threat(h)') \in Nat
        /\ Indicator(Owes(h)) \in Nat /\ Indicator(Owes(h)') \in Nat
    BY <1>5
  <2>3. Cardinality(table') + Cardinality((Threats \ {g})') + Lacks(g)'
          <= rows[g] + Others + cut' + Cardinality((Owing \ {g})')
    BY <1>1, <1>2, <1>3, <2>1, <2>2
  <2> QED
    BY <1>4, <2>3 DEF HookWithin, Lacks
<1> QED
  BY <1>6, <1>7

(* The same of the table.                                                  *)
LEMMA TableKept ==
  ASSUME NEW h \in Hook, OthersRest(h), TInv, TInv', TableWithin,
         \A g \in Hook \ {h} : Adds(g)' => Adds(g),
         Cardinality(table') + Indicator(Adds(h)') + Indicator(Owes(h)) + cut
           <= Cardinality(table) + Indicator(Adds(h)) + Indicator(Owes(h)') + cut'
  PROVE  TableWithin'
<1>1. /\ Cardinality(table) \in Nat /\ Cardinality(table') \in Nat /\ cut \in Nat /\ cut' \in Nat
      /\ Others \in Int /\ RowCap \in Nat
  <2>1. Cardinality(table) \in Nat /\ Cardinality(table') \in Nat
    BY FS_CardinalityType DEF TInv
  <2>2. cut \in Nat /\ cut' \in Nat /\ RowCap \in Nat
    BY BoundsAssumption DEF TInv, TypeOK
  <2>3. Cardinality(Hook) \in Nat
    BY BoundsAssumption, FS_CardinalityType
  <2> QED
    BY <2>1, <2>2, <2>3 DEF Others
<1>2. PICK n \in Nat, k \in Nat : /\ n <= k /\ Cardinality(Adders) = k + Indicator(Adds(h))
                                 /\ Cardinality(Adders') = n + Indicator(Adds(h)')
  BY NoMoreAdders
<1>3. PICK m \in Nat : /\ Cardinality(Owing) = m + Indicator(Owes(h))
                       /\ Cardinality(Owing') = m + Indicator(Owes(h)')
  BY OneMoves
<1>4. Indicator(Adds(h)) \in Nat /\ Indicator(Adds(h)') \in Nat
      /\ Indicator(Owes(h)) \in Nat /\ Indicator(Owes(h)') \in Nat
  BY DEF Indicator
<1>5. Cardinality(table) + Cardinality(Adders) <= RowCap + Others + cut + Cardinality(Owing)
  BY DEF TableWithin
<1>6. Others' = Others
  BY DEF Others
<1>7. Cardinality(table') + Cardinality(Adders') <= RowCap + Others + cut' + Cardinality(Owing')
  BY <1>1, <1>2, <1>3, <1>4, <1>5
<1> QED
  BY <1>6, <1>7 DEF TableWithin

(* A step that leaves the table, adds no threat and, if it drops what it   *)
(* owed, is counted as cut off.                                            *)
LEMMA QuietKept ==
  ASSUME NEW h \in Hook, OthersRest(h), TInv, TInv', CapInv, table' = table,
         \A g \in Hook \ {h} : prompt'[g] = prompt[g] /\ ver'[g] = ver[g],
         Threat(h)' => Threat(h), Adds(h)' => Adds(h),
         Indicator(Owes(h)) + cut <= Indicator(Owes(h)') + cut', cut <= cut',
         WillEvict(h)' => WillEvict(h) /\ rows'[h] = rows[h] /\ ~Missing(h)'
  PROVE  CapInv'
<1>1. /\ Cardinality(table) \in Nat /\ cut \in Nat /\ cut' \in Nat /\ Others \in Int
      /\ \A g \in Hook : rows[g] \in Nat
  <2>1. Cardinality(table) \in Nat
    BY FS_CardinalityType DEF TInv
  <2>2. cut \in Nat /\ cut' \in Nat /\ \A g \in Hook : rows[g] \in Nat
    BY BoundsAssumption DEF TInv, TypeOK
  <2>3. Cardinality(Hook) \in Nat
    BY BoundsAssumption, FS_CardinalityType
  <2> QED
    BY <2>1, <2>2, <2>3 DEF Others
<1>2. \A g \in Hook \ {h} : (Missing(g)' <=> Missing(g)) /\ Lacks(g)' = Lacks(g)
  BY DEF OthersRest, Missing, Mine, Lacks
<1>3. \A g \in Hook \ {h} : Adds(g)' => Adds(g)
  BY <1>2 DEF OthersRest, Adds
<1>4. /\ Indicator(Threat(h)') <= Indicator(Threat(h)) /\ Indicator(Adds(h)') <= Indicator(Adds(h))
      /\ \A P : Indicator(P) \in Nat
      /\ \A g \in Hook : Lacks(g) \in Nat
  BY DEF Indicator, Lacks
<1>5. TableWithin'
  <2>1. Cardinality(table') + Indicator(Adds(h)') + Indicator(Owes(h)) + cut
           <= Cardinality(table) + Indicator(Adds(h)) + Indicator(Owes(h)') + cut'
    <3> DEFINE a == Indicator(Adds(h))
               b == Indicator(Adds(h)')
               c == Indicator(Owes(h))
               d == Indicator(Owes(h)')
    <3>1. a \in Nat /\ b \in Nat /\ c \in Nat /\ d \in Nat /\ b <= a /\ c + cut <= d + cut'
      BY <1>4
    <3> HIDE DEF a, b, c, d
    <3>2. Cardinality(table) + b + c + cut <= Cardinality(table) + a + d + cut'
      BY <3>1, <1>1
    <3> QED
      BY <3>2 DEF a, b, c, d
  <2> QED
    BY <1>3, <2>1, TableKept DEF CapInv
<1>6. ASSUME NEW g \in Hook \ {h} PROVE HookWithin(g)'
  <2>1. Cardinality(table') + Indicator(Threat(h)') + Lacks(g)' + Indicator(Owes(h)) + cut
           <= Cardinality(table) + Indicator(Threat(h)) + Lacks(g) + Indicator(Owes(h)') + cut'
    <3> DEFINE a == Indicator(Threat(h))
               b == Indicator(Threat(h)')
               c == Indicator(Owes(h))
               d == Indicator(Owes(h)')
    <3>1. a \in Nat /\ b \in Nat /\ c \in Nat /\ d \in Nat /\ b <= a /\ c + cut <= d + cut'
      BY <1>4
    <3>2. Lacks(g)' = Lacks(g) /\ Lacks(g) \in Nat
      BY <1>2, <1>4
    <3> DEFINE l == Lacks(g)
               t == Cardinality(table)
    <3>4. l \in Nat /\ t \in Nat
      BY <3>2, <1>1
    <3> HIDE DEF a, b, c, d, l, t
    <3>5. t + b + l + c + cut <= t + a + l + d + cut'
      BY <3>1, <3>4, <1>1
    <3>3. Cardinality(table) + b + Lacks(g) + c + cut <= Cardinality(table) + a + Lacks(g) + d + cut'
      BY <3>5 DEF l, t
    <3> QED
      BY <3>2, <3>3 DEF a, b, c, d
  <2> QED
    BY <2>1, OtherKept DEF CapInv
<1>7. HookWithin(h)'
  <2>1. CASE ~WillEvict(h)'
    BY <2>1 DEF HookWithin
  <2>2. CASE WillEvict(h)'
    <3>1. WillEvict(h) /\ rows'[h] = rows[h] /\ Lacks(h)' = 0
      BY <2>2 DEF Lacks
    <3>2. Cardinality(table) + Cardinality(Threats \ {h}) + Lacks(h)
            <= rows[h] + Others + cut + Cardinality(Owing \ {h})
      BY <3>1 DEF CapInv, HookWithin, Lacks
    <3>3. /\ (Threats \ {h})' = Threats \ {h} /\ (Owing \ {h})' = Owing \ {h}
      BY OneMoves
    <3>4. Cardinality(Threats \ {h}) \in Nat /\ Cardinality(Owing \ {h}) \in Nat
      BY HooksCounted DEF Threats, Owing
    <3>5. Cardinality(table) + Cardinality(Threats \ {h}) + 0
            <= rows[h] + Others + cut' + Cardinality(Owing \ {h})
      BY <1>1, <1>4, <3>2, <3>4
    <3>6. Others' = Others
      BY DEF Others
    <3> QED
      BY <3>1, <3>3, <3>5, <3>6 DEF HookWithin, Lacks
  <2> QED
    BY <2>1, <2>2
<1> QED
  BY <1>5, <1>6, <1>7 DEF CapInv

(* The count: whoever finds the table short of its cap may add a row, but  *)
(* each hook only one.                                                     *)
LEMMA CountKeeps ==
  ASSUME NEW h \in Hook, PutCount(h), TInv, TInv', CapInv PROVE CapInv'
<1>1. /\ pc[h] = "count" /\ pc' = [pc EXCEPT ![h] = "exists"] /\ pc'[h] = "exists"
      /\ rows'[h] = Cardinality(table) /\ UNCHANGED <<table, prompt, ver, cut>> /\ OthersRest(h)
  BY DEF PutCount, Go, TInv, TypeOK, OthersRest
<1>2. /\ Cardinality(table) \in Nat /\ cut \in Nat /\ Cardinality(Hook) \in Nat
      /\ RowCap \in Nat /\ \A g \in Hook : rows[g] \in Nat
  BY FS_CardinalityType, BoundsAssumption DEF TInv, TypeOK
<1>3. ~Threat(h) /\ ~Owes(h) /\ ~Adds(h) /\ ~WillEvict(h) /\ ~Missing(h) /\ ~Owes(h)' /\ ~Missing(h)'
      /\ (Threat(h)' <=> Cardinality(table) <= RowCap) /\ (Adds(h)' <=> Cardinality(table) < RowCap)
      /\ (WillEvict(h)' <=> Cardinality(table) >= RowCap)
  BY <1>1 DEF Threat, Owes, Adds, WillEvict, Missing
<1>4. \A g \in Hook \ {h} : (Missing(g)' <=> Missing(g)) /\ (Adds(g)' <=> Adds(g))
                            /\ (WillEvict(g)' <=> WillEvict(g)) /\ rows'[g] = rows[g]
  BY <1>1 DEF OthersRest, Missing, Mine, Adds, WillEvict
<1>5. Others' = Others /\ Cardinality(table') = Cardinality(table)
  BY <1>1 DEF Others
<1>6. \A S \in SUBSET Hook : Cardinality(S) \in Nat
  BY HooksCounted
<1>7. TableWithin'
  <2>1. CASE Cardinality(table) < RowCap
    <3>1. Cardinality(Adders') <= Cardinality(Hook) /\ Cardinality(Adders') \in Nat
          /\ Cardinality(Owing') \in Nat
      BY HooksCounted DEF Adders, Owing
    <3>2. Cardinality(table) + Cardinality(Adders') <= RowCap + (Cardinality(Hook) - 1) + cut + Cardinality(Owing')
      BY <1>2, <2>1, <3>1
    <3> QED
      BY <1>1, <1>5, <3>2 DEF TableWithin, Others
  <2>2. CASE ~(Cardinality(table) < RowCap)
    <3>1. Cardinality(table') + Indicator(Adds(h)') + Indicator(Owes(h)) + cut
           <= Cardinality(table) + Indicator(Adds(h)) + Indicator(Owes(h)') + cut'
      BY <1>1, <1>2, <1>3, <1>5, <2>2 DEF Indicator
    <3> QED
      BY <1>1, <1>4, <3>1, TableKept DEF CapInv
  <2> QED
    BY <2>1, <2>2
<1>8. ASSUME NEW g \in Hook \ {h} PROVE HookWithin(g)'
  <2>1. CASE Cardinality(table) <= RowCap
    <3>1. SUFFICES ASSUME WillEvict(g)
                   PROVE  Cardinality(table) + Cardinality((Threats \ {g})') + Lacks(g)'
                            <= rows[g] + Others + cut + Cardinality((Owing \ {g})')
      BY <1>1, <1>4, <1>5 DEF HookWithin, Lacks
    <3>2. Threats' \in SUBSET Hook /\ Owing' \in SUBSET Hook
      BY DEF Threats, Owing
    <3>3. Cardinality((Threats \ {g})') <= Cardinality(Hook) - 1 /\ Cardinality((Threats \ {g})') \in Nat
          /\ Cardinality((Owing \ {g})') \in Nat
      BY <3>2, HooksCounted
    <3>4. Lacks(g)' + RowCap <= rows[g] /\ Lacks(g)' \in Nat
      BY <1>2, <1>4, <3>1 DEF Lacks, WillEvict, Missing
    <3> QED
      BY <1>2, <2>1, <3>3, <3>4 DEF Others
  <2>2. CASE ~(Cardinality(table) <= RowCap)
    <3>1. Lacks(g)' = Lacks(g) /\ Lacks(g) \in Nat
      BY <1>4 DEF Lacks
    <3>2. Indicator(Threat(h)) = 0 /\ Indicator(Threat(h)') = 0 /\ Indicator(Owes(h)) = 0
          /\ Indicator(Owes(h)') = 0
      BY <1>3, <2>2 DEF Indicator
    <3>3. Cardinality(table') + Indicator(Threat(h)') + Lacks(g)' + Indicator(Owes(h)) + cut
           <= Cardinality(table) + Indicator(Threat(h)) + Lacks(g) + Indicator(Owes(h)') + cut'
      BY <1>1, <1>2, <1>5, <3>1, <3>2
    <3> QED
      BY <1>1, <3>3, OtherKept DEF CapInv
  <2> QED
    BY <2>1, <2>2
<1>9. HookWithin(h)'
  <2>1. Threats' \in SUBSET Hook /\ Owing' \in SUBSET Hook
    BY DEF Threats, Owing
  <2>2. Cardinality((Threats \ {h})') <= Cardinality(Hook) - 1 /\ Cardinality((Threats \ {h})') \in Nat
        /\ Cardinality((Owing \ {h})') \in Nat
    BY <2>1, HooksCounted
  <2>3. Cardinality(table) + Cardinality((Threats \ {h})') + 0
          <= Cardinality(table) + Others + cut + Cardinality((Owing \ {h})')
    BY <1>2, <2>2 DEF Others
  <2>4. Lacks(h)' = 0
    BY <1>3 DEF Lacks
  <2>5. Cardinality(table') + Cardinality((Threats \ {h})') + Lacks(h)'
          <= rows'[h] + Others' + cut' + Cardinality((Owing \ {h})')
    BY <1>1, <1>5, <2>3, <2>4
  <2> QED
    BY <2>5 DEF HookWithin, Lacks
<1> QED
  BY <1>7, <1>8, <1>9 DEF CapInv

(* The row: at most one more, and none more if it was there.               *)
LEMMA RowAdded ==
  ASSUME NEW h \in Hook, PutRow(h), TInv
  PROVE  /\ Cardinality(table') <= Cardinality(table) + 1 /\ Cardinality(table) \in Nat
         /\ Cardinality(table') \in Nat
         /\ (\E r \in table : Mine(h, r)) => Cardinality(table') <= Cardinality(table)
<1> DEFINE kept == {r \in table : ~Mine(h, r)}
           new == [prompt |-> prompt[h], ver |-> ver[h], body |-> answer[h], at |-> now]
<1>1. table' = kept \cup {new}
  BY DEF PutRow
<1>2. IsFiniteSet(table) /\ IsFiniteSet(kept) /\ Cardinality(table) \in Nat /\ Cardinality(kept) \in Nat
      /\ Cardinality(kept) <= Cardinality(table)
  BY FS_Subset, FS_CardinalityType DEF TInv
<1> HIDE DEF new
<1>3. /\ Cardinality(kept \cup {new}) = Cardinality(kept) \/ Cardinality(kept \cup {new}) = Cardinality(kept) + 1
  BY <1>2, FS_AddElement
<1>4. ASSUME NEW r \in table, Mine(h, r) PROVE Cardinality(kept) <= Cardinality(table) - 1
  <2>1. kept \subseteq table \ {r} /\ IsFiniteSet(table \ {r})
    BY <1>2, <1>4, FS_RemoveElement
  <2>2. Cardinality(table \ {r}) = Cardinality(table) - 1
    BY <1>2, FS_RemoveElement
  <2> QED
    BY <2>1, <2>2, FS_Subset
<1> QED
  BY <1>1, <1>2, <1>3, <1>4

LEMMA RowKeeps ==
  ASSUME NEW h \in Hook, PutRow(h), TInv, TInv', CapInv PROVE CapInv'
<1> DEFINE new == [prompt |-> prompt[h], ver |-> ver[h], body |-> answer[h], at |-> now]
<1>1. /\ pc[h] \in {"insert", "replace"} /\ pc'[h] = "evict" /\ UNCHANGED <<prompt, ver, cut>>
      /\ table' = {r \in table : ~Mine(h, r)} \cup {new}
      /\ rows'[h] = (IF pc[h] = "insert" THEN rows[h] + 1 ELSE rows[h]) /\ OthersRest(h)
  BY DEF PutRow, Go, TInv, TypeOK, OthersRest
<1>2. /\ Cardinality(table) \in Nat /\ Cardinality(table') \in Nat /\ cut \in Nat
      /\ Cardinality(Hook) \in Nat /\ RowCap \in Nat /\ \A g \in Hook : rows[g] \in Nat
      /\ Cardinality(table') <= Cardinality(table) + 1
      /\ (\E r \in table : Mine(h, r)) => Cardinality(table') <= Cardinality(table)
  <2>1. cut \in Nat /\ RowCap \in Nat /\ \A g \in Hook : rows[g] \in Nat
    BY BoundsAssumption DEF TInv, TypeOK
  <2>2. Cardinality(Hook) \in Nat
    BY FS_CardinalityType, BoundsAssumption
  <2> QED
    BY <2>1, <2>2, RowAdded
<1>3. \A g \in Hook : Missing(g)' => g # h /\ Missing(g)
  <2>1. ASSUME NEW g \in Hook \ {h}, NEW r \in table, Mine(g, r), pc[g] = "replace" PROVE ~Missing(g)'
    <3>1. Mine(g, r)'
      BY <1>1, <2>1 DEF Mine
    <3>2. CASE Mine(h, r)
      <4>1. new \in table' /\ new.prompt = prompt'[g] /\ new.ver = ver'[g]
        BY <1>1, <2>1, <3>2 DEF Mine
      <4> HIDE DEF new
      <4> QED
        BY <4>1 DEF Missing, Mine
    <3>3. CASE ~Mine(h, r)
      BY <1>1, <3>1, <3>3 DEF Missing
    <3> QED
      BY <3>2, <3>3
  <2>2. ~Missing(h)'
    BY <1>1 DEF Missing
  <2>3. \A g \in Hook \ {h} : pc'[g] = pc[g]
    BY <1>1 DEF OthersRest
  <2> QED
    BY <2>1, <2>2, <2>3 DEF Missing
<1>4. /\ ~Threat(h)' /\ ~Adds(h)' /\ ~Owes(h) /\ ~Missing(h)'
      /\ (Owes(h)' <=> rows'[h] > RowCap) /\ (WillEvict(h)' <=> rows'[h] > RowCap)
  BY <1>1 DEF Threat, Adds, Owes, Missing, WillEvict
<1>5. Others' = Others
  BY DEF Others
<1>6. \A g \in Hook \ {h} : (Adds(g)' => Adds(g)) /\ Lacks(g)' <= Lacks(g) /\ Lacks(g) \in Nat /\ Lacks(g)' \in Nat
  BY <1>1, <1>3 DEF OthersRest, Adds, Lacks
<1>7. Cardinality(table') <= Cardinality(table) + Indicator(Adds(h)) + Indicator(Owes(h)')
  <2>1. CASE rows'[h] > RowCap
    BY <1>2, <1>4, <2>1 DEF Indicator
  <2>2. CASE ~(rows'[h] > RowCap) /\ pc[h] = "insert"
    <3>1. Adds(h)
      BY <1>1, <1>2, <2>2 DEF Adds
    <3> QED
      BY <1>2, <1>4, <2>2, <3>1 DEF Indicator
  <2>3. CASE ~(rows'[h] > RowCap) /\ pc[h] = "replace" /\ Missing(h)
    <3>1. Adds(h)
      BY <1>1, <1>2, <2>3 DEF Adds
    <3> QED
      BY <1>2, <1>4, <2>3, <3>1 DEF Indicator
  <2>4. CASE ~(rows'[h] > RowCap) /\ pc[h] = "replace" /\ ~Missing(h)
    BY <1>2, <1>4, <2>4 DEF Indicator, Missing
  <2> QED
    BY <1>1, <2>1, <2>2, <2>3, <2>4
<1>8. Indicator(Adds(h)) <= Indicator(Threat(h)) /\ Indicator(Adds(h)) \in Nat /\ Indicator(Threat(h)) \in Nat
      /\ Indicator(Owes(h)') \in Nat
      /\ Indicator(Adds(h)') = 0 /\ Indicator(Threat(h)') = 0 /\ Indicator(Owes(h)) = 0
  <2>1. Adds(h) => Threat(h)
    BY <1>1, <1>2 DEF Adds, Threat, Missing
  <2> QED
    BY <1>4, <2>1 DEF Indicator
<1>9. TableWithin'
  <2>1. Cardinality(table') + Indicator(Adds(h)') + Indicator(Owes(h)) + cut
           <= Cardinality(table) + Indicator(Adds(h)) + Indicator(Owes(h)') + cut'
    BY <1>1, <1>2, <1>7, <1>8
  <2> QED
    BY <1>1, <1>6, <2>1, TableKept DEF CapInv
<1>10. ASSUME NEW g \in Hook \ {h} PROVE HookWithin(g)'
  <2>1. Cardinality(table') + Indicator(Threat(h)') + Lacks(g)' + Indicator(Owes(h)) + cut
           <= Cardinality(table) + Indicator(Threat(h)) + Lacks(g) + Indicator(Owes(h)') + cut'
    BY <1>1, <1>2, <1>6, <1>7, <1>8
  <2> QED
    BY <1>1, <2>1, OtherKept DEF CapInv
<1>11. HookWithin(h)'
  <2>1. SUFFICES ASSUME rows'[h] > RowCap
                 PROVE  Cardinality(table') + Cardinality(Threats \ {h}) + 0
                          <= rows'[h] + Others + cut + Cardinality(Owing \ {h})
    <3>1. (Threats \ {h})' = Threats \ {h} /\ (Owing \ {h})' = Owing \ {h}
      BY <1>1, OneMoves
    <3>2. Lacks(h)' = 0 /\ cut' = cut
      BY <1>1, <1>4 DEF Lacks
    <3>3. Cardinality((Threats \ {h})') = Cardinality(Threats \ {h})
          /\ Cardinality((Owing \ {h})') = Cardinality(Owing \ {h})
      BY <3>1
    <3>4. WillEvict(h)' => Cardinality(table') + Cardinality((Threats \ {h})') + Lacks(h)'
                             <= rows'[h] + Others' + cut' + Cardinality((Owing \ {h})')
      BY <1>4, <1>5, <3>2, <3>3
    <3> QED
      BY <3>4 DEF HookWithin, Lacks
  <2>2. Threats \in SUBSET Hook /\ Owing \in SUBSET Hook
    BY DEF Threats, Owing
  <2>3. Cardinality(Threats \ {h}) \in Nat /\ Cardinality(Owing \ {h}) \in Nat /\ Others \in Int
    BY <1>2, <2>2, HooksCounted DEF Others
  <2>4. WillEvict(h)
    BY <1>1, <1>2, <2>1 DEF WillEvict
  <2>5. Cardinality(table) + Cardinality(Threats \ {h}) + Lacks(h)
          <= rows[h] + Others + cut + Cardinality(Owing \ {h})
    BY <2>4 DEF CapInv, HookWithin, Lacks
  <2>6. Cardinality(table') + rows[h] <= Cardinality(table) + Lacks(h) + rows'[h] /\ Lacks(h) \in Nat
    BY <1>1, <1>2 DEF Lacks, Missing
  <2> QED
    BY <1>1, <1>2, <2>3, <2>5, <2>6
<1> QED
  BY <1>9, <1>10, <1>11 DEF CapInv

(* The eviction takes away at least what came since the hook's count and   *)
(* was over the cap by then.                                               *)
LEMMA RowsEvicted ==
  ASSUME NEW h \in Hook, Evict(h), TInv, rows[h] > RowCap
  PROVE  /\ Cardinality(table) \in Nat /\ Cardinality(table') \in Nat
         /\ \/ Cardinality(table') = 0
            \/ Cardinality(table') = Cardinality(table) - (rows[h] - RowCap)
<1> DEFINE n == rows[h] - RowCap
<1>1. PICK s \in Oldest(n) : table' = table \ s
  BY DEF Evict
<1>2. s \subseteq table /\ Cardinality(s) = (IF n > Cardinality(table) THEN Cardinality(table) ELSE n)
  BY DEF Oldest
<1>3. IsFiniteSet(table) /\ IsFiniteSet(s) /\ Cardinality(table) \in Nat /\ n \in Nat
  <2>1. rows[h] \in Nat /\ RowCap \in Nat
    BY BoundsAssumption DEF TInv, TypeOK
  <2> QED
    BY <1>2, <2>1, FS_Subset, FS_CardinalityType DEF TInv
<1>4. table \cap s = s /\ IsFiniteSet(table \ s)
  BY <1>2, <1>3, FS_Difference
<1>a. Cardinality(table \ s) = Cardinality(table) - Cardinality(table \cap s)
  BY <1>3, FS_Difference
<1>5. Cardinality(table \ s) = Cardinality(table) - Cardinality(s)
  BY <1>4, <1>a
<1>6. Cardinality(table \ s) \in Nat
  BY <1>4, FS_CardinalityType
<1> HIDE DEF n
<1>7. Cardinality(table \ s) = 0 \/ Cardinality(table \ s) = Cardinality(table) - n
  <2>1. CASE n > Cardinality(table)
    BY <1>2, <1>3, <1>5, <2>1
  <2>2. CASE ~(n > Cardinality(table))
    BY <1>2, <1>5, <2>2
  <2> QED
    BY <2>1, <2>2
<1> QED
  BY <1>1, <1>3, <1>6, <1>7 DEF n

LEMMA EvictKeeps ==
  ASSUME NEW h \in Hook, Evict(h), TInv, TInv', CapInv PROVE CapInv'
<1>1. /\ pc[h] = "evict" /\ pc'[h] = "print" /\ rows'[h] = 0 /\ OthersRest(h)
      /\ UNCHANGED <<prompt, ver, cut>>
  BY DEF Evict, Go, TInv, TypeOK, OthersRest
<1>2. /\ cut \in Nat /\ RowCap \in Nat \ {0} /\ Cardinality(Hook) \in Nat
      /\ \A g \in Hook : rows[g] \in Nat
  <2>1. cut \in Nat /\ \A g \in Hook : rows[g] \in Nat
    BY BoundsAssumption DEF TInv, TypeOK
  <2> QED
    BY <2>1, BoundsAssumption, FS_CardinalityType
<1>3. ~Threat(h) /\ ~Threat(h)' /\ ~Owes(h)' /\ ~Adds(h)' /\ ~WillEvict(h)' /\ ~Missing(h)
  BY <1>1 DEF Threat, Owes, Adds, WillEvict, Missing
<1>4. CASE ~(rows[h] > RowCap)
  <2>1. table' = table /\ ~Owes(h)
    BY <1>4 DEF Evict, Owes
  <2> QED
    BY <1>1, <1>2, <1>3, <2>1, QuietKept DEF Indicator
<1>5. CASE rows[h] > RowCap
  <2>1. /\ Cardinality(table) \in Nat /\ Cardinality(table') \in Nat
        /\ \/ Cardinality(table') = 0
           \/ Cardinality(table') = Cardinality(table) - (rows[h] - RowCap)
    BY <1>5, RowsEvicted
  <2>2. /\ Threats' = Threats \ {h} /\ Owing' = Owing \ {h} /\ Threats \in SUBSET Hook /\ Owing \in SUBSET Hook
    <3>1. (Threats \ {h})' = Threats \ {h} /\ (Owing \ {h})' = Owing \ {h}
      BY <1>1, OneMoves
    <3>2. h \notin Threats' /\ h \notin Owing'
      BY <1>3 DEF Threats, Owing
    <3> QED
      BY <3>1, <3>2 DEF Threats, Owing
  <2> DEFINE T == Threats \ {h}
             O == Owing \ {h}
  <2>3. T \in SUBSET Hook /\ O \in SUBSET Hook /\ Threats' = T /\ Owing' = O
    BY <2>2
  <2>4. Cardinality(T) \in Nat /\ Cardinality(O) \in Nat /\ Cardinality(T) <= Others /\ Others \in Int
    BY <1>2, <2>2, HooksCounted DEF Others
  <2>5. Cardinality(table') + Cardinality(T) <= RowCap + Others + cut + Cardinality(O)
    <3>1. WillEvict(h) /\ Lacks(h) = 0
      BY <1>1, <1>3, <1>5 DEF WillEvict, Lacks
    <3>2. Cardinality(table) + Cardinality(T) + Lacks(h) <= rows[h] + Others + cut + Cardinality(O)
      BY <3>1 DEF CapInv, HookWithin, Lacks
    <3> HIDE DEF T, O
    <3>3. CASE Cardinality(table') = 0
      BY <1>2, <2>4, <3>3
    <3>4. CASE Cardinality(table') = Cardinality(table) - (rows[h] - RowCap)
      BY <1>2, <2>1, <2>4, <3>1, <3>2, <3>4
    <3> QED
      BY <2>1, <3>3, <3>4
  <2> HIDE DEF T, O
  <2>6. Others' = Others /\ cut' = cut
    BY <1>1 DEF Others
  <2>7. TableWithin'
    <3>1. Adders' \subseteq T
      <4>1. Adders' \subseteq Threats'
        BY <1>2, <1>1 DEF Adders, Threats, Adds, Threat, Missing, OthersRest
      <4> QED
        BY <4>1, <2>3
    <3>2. IsFiniteSet(T) /\ Adders' \in SUBSET Hook
      BY <2>3, BoundsAssumption, FS_Subset DEF Adders
    <3>3. Cardinality(Adders') <= Cardinality(T) /\ Cardinality(Adders') \in Nat
      BY <3>1, <3>2, FS_Subset, FS_CardinalityType
    <3>4. Cardinality(table') + Cardinality(Adders') <= RowCap + Others + cut + Cardinality(O)
      BY <1>2, <2>1, <2>4, <2>5, <3>3
    <3> QED
      BY <2>3, <2>6, <3>4 DEF TableWithin
  <2>8. ASSUME NEW g \in Hook \ {h}, WillEvict(g)'
        PROVE  Cardinality(table') + Cardinality(T \ {g}) + Lacks(g)'
                 <= rows[g] + Others + cut + Cardinality(O \ {g})
    <3>1. pc'[g] = pc[g] /\ rows'[g] = rows[g] /\ rows[g] >= RowCap /\ rows[g] \in Nat
      BY <1>1, <1>2, <2>8 DEF OthersRest, WillEvict
    <3>2. /\ Cardinality(T \ {g}) \in Nat /\ Cardinality(O \ {g}) \in Nat
          /\ Cardinality(T) = Cardinality(T \ {g}) + (IF g \in T THEN 1 ELSE 0)
          /\ Cardinality(O) = Cardinality(O \ {g}) + (IF g \in O THEN 1 ELSE 0)
      BY <2>3, HooksCounted
    <3>3. CASE pc[g] = "evict"
      <4>1. rows[g] >= RowCap + 1 /\ Lacks(g)' = 0
        BY <1>2, <2>8, <3>1, <3>3 DEF WillEvict, Lacks, Missing
      <4> QED
        BY <1>2, <2>1, <2>4, <2>5, <3>1, <3>2, <4>1
    <3>4. CASE pc[g] = "replace"
      <4>1. rows[g] >= RowCap + 1 /\ g \notin O /\ Lacks(g)' \in {0, 1}
        BY <1>2, <2>3, <2>8, <3>1, <3>4 DEF WillEvict, Lacks, Owing, Owes
      <4> QED
        BY <1>2, <2>1, <2>4, <2>5, <3>1, <3>2, <4>1
    <3>5. CASE pc[g] \in {"exists", "insert"}
      <4>1. g \notin O /\ Lacks(g)' = 0
        BY <2>3, <3>1, <3>5 DEF Lacks, Missing, Owing, Owes
      <4> QED
        BY <1>2, <2>1, <2>4, <2>5, <3>1, <3>2, <4>1
    <3> QED
      BY <3>1, <3>3, <3>4, <3>5, <2>8 DEF WillEvict
  <2>9. \A g \in Hook \ {h} : HookWithin(g)'
    BY <1>1, <2>3, <2>6, <2>8 DEF HookWithin, Lacks, OthersRest
  <2>10. HookWithin(h)'
    BY <1>3 DEF HookWithin
  <2> QED
    BY <2>7, <2>9, <2>10 DEF CapInv
<1> QED
  BY <1>4, <1>5

LEMMA ClearKeeps == ASSUME ClearCache, TInv PROVE CapInv'
<1>1. table' = {} /\ UNCHANGED <<pc, rows, cut>>
  BY DEF ClearCache, hookVars
<1>2. Cardinality(table') = 0
  BY <1>1, FS_EmptySet
<1>3. /\ cut \in Nat /\ RowCap \in Nat \ {0} /\ Cardinality(Hook) \in Nat /\ \A g \in Hook : rows[g] \in Nat
  <2>1. cut \in Nat /\ \A g \in Hook : rows[g] \in Nat
    BY BoundsAssumption DEF TInv, TypeOK
  <2> QED
    BY <2>1, BoundsAssumption, FS_CardinalityType
<1>4. Threats' \in SUBSET Hook /\ Owing' \in SUBSET Hook /\ Adders' \in SUBSET Hook
  BY DEF Threats, Owing, Adders
<1>5. Others' = Others /\ Others = Cardinality(Hook) - 1
  BY DEF Others
<1>6. Cardinality(Adders') \in Nat /\ Cardinality(Owing') \in Nat /\ Cardinality(Adders') <= Cardinality(Hook)
  <2>1. IsFiniteSet(Hook)
    BY BoundsAssumption
  <2> QED
    BY <1>4, <2>1, FS_Subset, FS_CardinalityType
<1>7. TableWithin'
  <2>1. 0 + Cardinality(Adders') <= RowCap + Others + cut + Cardinality(Owing')
    BY <1>3, <1>5, <1>6
  <2> QED
    BY <1>1, <1>2, <1>5, <2>1 DEF TableWithin
<1>8. ASSUME NEW g \in Hook PROVE HookWithin(g)'
  <2>1. Cardinality((Threats \ {g})') \in Nat /\ Cardinality((Threats \ {g})') <= Cardinality(Hook) - 1
        /\ Cardinality((Owing \ {g})') \in Nat
    BY <1>4, HooksCounted
  <2>2. WillEvict(g)' => rows[g] >= 1
    BY <1>1, <1>3 DEF WillEvict
  <2>3. Lacks(g)' \in {0, 1}
    BY DEF Lacks
  <2>4. WillEvict(g)' => 0 + Cardinality((Threats \ {g})') + Lacks(g)'
                           <= rows[g] + Others + cut + Cardinality((Owing \ {g})')
    BY <1>3, <1>5, <2>1, <2>2, <2>3
  <2>5. WillEvict(g)' => Cardinality(table') + Cardinality((Threats \ {g})') + Lacks(g)'
                           <= rows'[g] + Others' + cut' + Cardinality((Owing \ {g})')
    BY <1>1, <1>2, <1>5, <2>4
  <2> QED
    BY <2>5 DEF HookWithin, Lacks
<1> QED
  BY <1>7, <1>8 DEF CapInv

LEMMA CapStep == TInv /\ TInv' /\ CapInv /\ [Next]_vars => CapInv'
<1> SUFFICES ASSUME TInv, TInv', CapInv, [Next]_vars PROVE CapInv'
  OBVIOUS
<1> DEFINE Still(h) == /\ OthersRest(h) /\ table' = table
                       /\ \A g \in Hook \ {h} : prompt'[g] = prompt[g] /\ ver'[g] = ver[g]
<1>0. cut \in Nat /\ cut' \in Nat /\ \A g \in Hook : rows[g] \in Nat
  BY BoundsAssumption DEF TInv, TypeOK
<1>1. ASSUME NEW h \in Hook, NEW p \in Prompt, ComputeKey(h, p) PROVE CapInv'
  <2>1. Still(h) /\ cut' = cut /\ pc[h] = "idle" /\ pc'[h] = "lookup"
    BY <1>1 DEF ComputeKey, Go, TInv, TypeOK, OthersRest
  <2> QED
    BY <1>0, <2>1, QuietKept DEF Threat, Adds, Owes, WillEvict, Missing, Indicator
<1>2. ASSUME NEW h \in Hook, Hit(h) \/ Miss(h) \/ Search(h) PROVE CapInv'
  <2>1. /\ Still(h) /\ cut' = cut
        /\ pc[h] \in {"lookup", "search"} /\ pc'[h] \in {"print", "search", "count"}
    BY <1>2 DEF Hit, Miss, Search, Go, TInv, TypeOK, OthersRest
  <2> QED
    BY <1>0, <2>1, QuietKept DEF Threat, Adds, Owes, WillEvict, Missing, Indicator
<1>3. ASSUME NEW h \in Hook, GiveUp(h) \/ PrintAnswer(h) PROVE CapInv'
  <2>1. /\ Still(h) /\ cut' = cut /\ pc[h] \in {"search", "print"} /\ pc'[h] = "idle"
    BY <1>3 DEF GiveUp, PrintAnswer, Forget, Go, TInv, TypeOK, OthersRest
  <2> QED
    BY <1>0, <2>1, QuietKept DEF Threat, Adds, Owes, WillEvict, Missing, Indicator
<1>4. ASSUME NEW h \in Hook, PutExists(h) PROVE CapInv'
  <2>1. /\ Still(h) /\ cut' = cut /\ rows' = rows /\ pc[h] = "exists"
        /\ pc'[h] = (IF \E r \in table : Mine(h, r) THEN "replace" ELSE "insert")
        /\ UNCHANGED <<prompt, ver>>
    BY <1>4 DEF PutExists, Go, TInv, TypeOK, OthersRest
  <2>2. ~Missing(h)' /\ rows[h] \in Nat /\ RowCap \in Nat
    BY <1>0, <2>1, BoundsAssumption DEF Missing, Mine
  <2>3. /\ (Threat(h)' => Threat(h)) /\ (Adds(h)' => Adds(h)) /\ ~Owes(h) /\ ~Owes(h)'
        /\ (WillEvict(h)' => WillEvict(h))
    BY <2>1, <2>2 DEF Threat, Adds, Owes, WillEvict
  <2> QED
    BY <1>0, <2>1, <2>2, <2>3, QuietKept DEF Indicator
<1>5. ASSUME NEW h \in Hook, PutFails(h) \/ HookKilled(h) PROVE CapInv'
  <2>1. /\ Still(h) /\ pc'[h] \in {"print", "idle"}
        /\ cut' = (IF pc[h] = "evict" THEN cut + 1 ELSE cut)
    BY <1>5 DEF PutFails, HookKilled, CutOff, Forget, Go, TInv, TypeOK, OthersRest
  <2>2. ~Threat(h)' /\ ~Adds(h)' /\ ~Owes(h)' /\ ~WillEvict(h)'
    BY <2>1 DEF Threat, Adds, Owes, WillEvict, Missing
  <2>3. Indicator(Owes(h)) + cut <= Indicator(Owes(h)') + cut' /\ cut <= cut'
    BY <1>0, <2>1, <2>2 DEF Indicator, Owes
  <2> QED
    BY <2>1, <2>2, <2>3, QuietKept
<1>6. ASSUME NEW h \in Hook, PutCount(h) \/ PutRow(h) \/ Evict(h) PROVE CapInv'
  BY <1>6, CountKeeps, RowKeeps, EvictKeeps
<1>7. CASE ClearCache
  BY <1>7, ClearKeeps
<1>8. CASE WriteIndex \/ WriteUnversioned \/ Tick \/ UNCHANGED vars
  <2>1. UNCHANGED <<table, pc, rows, cut, prompt, ver>>
    BY <1>8 DEF WriteIndex, WriteUnversioned, Tick, vars, hookVars
  <2>2. \A h \in Hook : /\ Adds(h)' <=> Adds(h)
                        /\ Owes(h)' <=> Owes(h)
                        /\ Threat(h)' <=> Threat(h)
                        /\ Missing(h)' <=> Missing(h)
                        /\ WillEvict(h)' <=> WillEvict(h)
    BY <2>1 DEF Adds, Owes, Threat, Missing, Mine, WillEvict
  <2>3. Adders' = Adders /\ Owing' = Owing /\ Threats' = Threats /\ Others' = Others
    BY <2>2 DEF Adders, Owing, Threats, Others
  <2>4. TableWithin'
    BY <2>1, <2>3 DEF TableWithin, CapInv
  <2>5. ASSUME NEW h \in Hook PROVE HookWithin(h)'
    <3>1. HookWithin(h)
      BY DEF CapInv
    <3>2. (Threats \ {h})' = Threats \ {h} /\ (Owing \ {h})' = Owing \ {h} /\ rows'[h] = rows[h]
      BY <2>1, <2>3
    <3>3. (WillEvict(h)' <=> WillEvict(h)) /\ (Missing(h)' <=> Missing(h))
      BY <2>2
    <3>4. /\ Cardinality((Threats \ {h})') = Cardinality(Threats \ {h}) /\ Lacks(h)' = Lacks(h)
          /\ Cardinality((Owing \ {h})') = Cardinality(Owing \ {h})
          /\ Cardinality(table') = Cardinality(table) /\ cut' = cut
      BY <2>1, <3>2, <3>3 DEF Lacks
    <3>5. WillEvict(h) => Cardinality(table) + Cardinality(Threats \ {h}) + Lacks(h)
                            <= rows[h] + Others + cut + Cardinality(Owing \ {h})
      BY <3>1 DEF HookWithin, Lacks
    <3>6. WillEvict(h)' => Cardinality(table') + Cardinality((Threats \ {h})') + Lacks(h)'
                            <= rows'[h] + Others' + cut' + Cardinality((Owing \ {h})')
      BY <2>3, <3>2, <3>3, <3>4, <3>5
    <3> QED
      BY <3>6 DEF HookWithin, Lacks
  <2> QED
    BY <2>4, <2>5 DEF CapInv
<1> QED
  BY <1>1, <1>2, <1>3, <1>4, <1>5, <1>6, <1>7, <1>8 DEF Next, HookRuns

LEMMA CapInit == Init => CapInv
<1> SUFFICES ASSUME Init PROVE CapInv
  OBVIOUS
<1>1. Cardinality(table) = 0 /\ RowCap \in Nat \ {0} /\ cut = 0 /\ Cardinality(Hook) \in Nat
  BY BoundsAssumption, FS_EmptySet, FS_CardinalityType DEF Init
<1>2. Adders = {} /\ Owing = {}
  BY DEF Init, Adders, Owing, Adds, Owes, Missing
<1>3. \A h \in Hook : ~WillEvict(h)
  BY DEF Init, WillEvict
<1>4. TableWithin
  BY <1>1, <1>2, FS_EmptySet DEF TableWithin, Others
<1> QED
  BY <1>3, <1>4 DEF CapInv, HookWithin

(* Hooks that overlap or are cut off leave the table over its cap by no    *)
(* more than a row for each other hook and for each that was cut off       *)
(* (HookCachePut), however many prompts come, however often the cache is   *)
(* cleared, and though a row that was there may be evicted before it is    *)
(* replaced.                                                               *)
THEOREM CapIsOvershotLittle == Spec => []CapOvershoot
<1>1. TInv /\ CapInv => CapOvershoot
  <2> SUFFICES ASSUME TInv, CapInv, AtRest
               PROVE  Cardinality(table) <= RowCap + (Cardinality(Hook) - 1) + cut
    BY DEF CapOvershoot
  <2>1. Owing = {} /\ Adders = {}
    BY DEF AtRest, Owing, Owes, Adders, Adds, Missing
  <2>2. Cardinality(Owing) = 0 /\ Cardinality(Adders) = 0
    BY <2>1, FS_EmptySet
  <2>3. Cardinality(table) \in Nat /\ cut \in Nat /\ RowCap \in Nat /\ Cardinality(Hook) \in Nat
    BY FS_CardinalityType, BoundsAssumption DEF TInv, TypeOK
  <2> QED
    BY <2>2, <2>3 DEF CapInv, TableWithin, Others
<1>2. Init => TInv /\ CapInv
  BY Initially, CapInit
<1>3. TInv /\ [Next]_vars => TInv'
  BY TypeStep
<1>4. TInv /\ TInv' /\ CapInv /\ [Next]_vars => CapInv'
  BY CapStep
<1> QED
  BY <1>1, <1>2, <1>3, <1>4, PTL DEF Spec
=============================================================================
