------------------------ MODULE AnalysisCallsProofs ------------------------
(***************************************************************************)
(* Proofs about AnalysisCalls, for any number of calls in one process and  *)
(* any cases they are given: late answers are dropped, what the prompt     *)
(* says of event types is grounded, and so is an analysis that needs no    *)
(* analyst.  Then about SentimentReports, the tables an analysis ends up   *)
(* in: for any runs, moments, limits and spans, what a fault may leave of  *)
(* a run, and what the reports say of the tables.                          *)
(***************************************************************************)
EXTENDS AnalysisCalls, SentimentReports, SequenceFilterProofs,
        SequenceTheorems

USE CallsAssumption
-----------------------------------------------------------------------------
(* What the timer and the recorded error of a call say, by where it is.    *)
Fields == {"pc", "timer", "aborted", "todo", "triggers", "error", "result", "before"}
Timed(k, structured) ==
    /\ DOMAIN k = Fields
    /\ k.pc = "idle" => k.aborted = FALSE /\ k.timer = "none"
    /\ k.pc = "done" /\ ~structured => k.aborted # TRUE /\ k.timer # "fired"
    /\ k.pc = "failed" => (k.error = "timed out" <=> k.timer = "fired")
    /\ k.pc \in Ended => k.timer # "armed"
    /\ k.aborted \in BOOLEAN
TimedInv == DOMAIN call = Calls /\ \A c \in Calls : Timed(call[c], Given(c).structured)

(* A step is about one call. *)
Moves(c, m) == call' = [call EXCEPT ![c] = m] /\ input' = input

LEMMA TimedMove ==
  ASSUME TimedInv, NEW c \in Calls, NEW m, Moves(c, m), Timed(m, Given(c).structured)
  PROVE  TimedInv'
  BY DEF TimedInv, Moves, Given

LEMMA TimedInit == Init => TimedInv
  <1>1. /\ DOMAIN NotBegun = Fields /\ NotBegun.pc = "idle"
        /\ NotBegun.timer = "none" /\ NotBegun.aborted = FALSE
    BY DEF NotBegun, Fields
  <1>2. Init => DOMAIN call = Calls /\ \A c \in Calls : call[c] = NotBegun
    BY DEF Init
  <1>3. \A structured : Timed(NotBegun, structured)
    BY <1>1 DEF Timed, Ended
  <1>4. QED
    BY <1>2, <1>3 DEF TimedInv

(* A call that is on its way and has not ended with this step.             *)
LEMMA TimedOnTheWay ==
  ASSUME TimedInv, NEW c \in Calls, NEW m, Moves(c, m), DOMAIN m = Fields, m.pc \notin Ended \cup {"idle"},
         m.aborted = call[c].aborted
  PROVE  TimedInv'
  <1>1. Timed(m, Given(c).structured)
    BY DEF TimedInv, Timed, Ended
  <1>2. QED
    BY <1>1, TimedMove

LEMMA TimedNext ==
  ASSUME TimedInv, NEW c \in Calls, NEW triggers, NextType(c, triggers), input' = input,
         call[c].pc \in {"lookup", "fetch"}
  PROVE  TimedInv'
  <1> DEFINE m == [call[c] EXCEPT !.triggers = triggers, !.todo = Tail(call[c].todo),
                                  !.pc = IF Tail(call[c].todo) = << >> THEN "chat" ELSE "lookup"]
  <1>1. Moves(c, m)
    BY DEF NextType, Moves
  <1>2. DOMAIN m = Fields /\ m.pc \in {"chat", "lookup"} /\ m.aborted = call[c].aborted
    BY DEF TimedInv, Timed, Fields
  <1> HIDE DEF m
  <1>3. QED
    BY <1>1, <1>2, TimedOnTheWay DEF Ended

LEMMA TimedStep ==
  ASSUME TimedInv, NEW c \in Calls, Step(c) PROVE TimedInv'
  <1> DEFINE k == call[c]
  <1>0. Timed(k, Given(c).structured) /\ DOMAIN call = Calls
    BY DEF TimedInv
  <1>1. CASE Begin(c)
    <2> DEFINE local == [k EXCEPT !.before = BeforeCase[input[c]]]
               m == Prepared(c, local)
    <2>1. Moves(c, m) /\ k.pc = "idle"
      BY <1>1 DEF Begin, Moves
    <2>2. DOMAIN local = Fields /\ local.aborted = FALSE /\ local.timer = "none"
      BY <1>0, <2>1 DEF Timed, Fields
    <2> HIDE DEF local
    <2>3. CASE HasEligibleTurn(local.before.assignments)
      <3>1. /\ m = [local EXCEPT !.pc = IF Given(c).structured THEN "chat" ELSE "embed",
                                 !.timer = IF HasTimeout THEN "armed" ELSE "none"]
        BY <2>3 DEF Prepared
      <3>2. DOMAIN m = Fields /\ m.pc \in {"chat", "embed"} /\ m.aborted = FALSE
        BY <2>2, <3>1 DEF Fields
      <3> HIDE DEF m
      <3>3. Timed(m, Given(c).structured)
        BY <3>2 DEF Timed, Ended
      <3>4. QED
        BY <2>1, <3>3, TimedMove
    <2>4. CASE ~HasEligibleTurn(local.before.assignments)
      <3>1. PICK result : m = [local EXCEPT !.pc = "done", !.timer = Stopped(@), !.result = result]
        BY <2>4 DEF Prepared, Returning
      <3>2. DOMAIN m = Fields /\ m.pc = "done" /\ m.aborted = FALSE /\ m.timer = "none"
        BY <2>2, <3>1 DEF Fields, Stopped
      <3> HIDE DEF m
      <3>3. Timed(m, Given(c).structured)
        BY <3>2 DEF Timed, Ended
      <3>4. QED
        BY <2>1, <3>3, TimedMove
    <2>5. QED
      BY <2>3, <2>4
  <1>2. CASE TimerFires(c)
    <2> DEFINE m == [k EXCEPT !.timer = "fired"]
    <2>1. Moves(c, m) /\ k.timer = "armed"
      BY <1>0, <1>2 DEF TimerFires, Moves
    <2>2. Timed(m, Given(c).structured)
      BY <1>0, <2>1 DEF Timed, Fields, Ended
    <2>3. QED
      BY <2>1, <2>2, TimedMove
  <1>3. CASE Abort(c)
    <2> DEFINE m == [k EXCEPT !.aborted = TRUE]
    <2>1. Moves(c, m) /\ k.pc \notin Ended \cup {"idle"}
      BY <1>0, <1>3 DEF Abort, Moves
    <2>2. Timed(m, Given(c).structured)
      BY <1>0, <2>1 DEF Timed, Fields, Ended
    <2>3. QED
      BY <2>1, <2>2, TimedMove
  <1>4. CASE EmbedTurns(c)
    <2>1. PICK m : /\ m = [k EXCEPT !.todo = TypesWithPhrases(c),
                                    !.pc = IF TypesWithPhrases(c) = << >> THEN "chat" ELSE "lookup"]
                   /\ Moves(c, m)
      BY <1>0, <1>4 DEF EmbedTurns, Moves
    <2>2. DOMAIN m = Fields /\ m.pc \in {"chat", "lookup"} /\ m.aborted = k.aborted
      BY <1>0, <2>1 DEF Timed, Fields
    <2>3. QED
      BY <2>1, <2>2, TimedOnTheWay DEF Ended
  <1>5. CASE EmbeddingFails(c)
    <2>1. PICK m : m = [k EXCEPT !.pc = "chat"] /\ Moves(c, m)
      BY <1>0, <1>5 DEF EmbeddingFails, Moves
    <2>2. DOMAIN m = Fields /\ m.pc = "chat" /\ m.aborted = k.aborted
      BY <1>0, <2>1 DEF Timed, Fields
    <2>3. QED
      BY <2>1, <2>2, TimedOnTheWay DEF Ended
  <1>6. CASE Lookup(c)
    <2>1. CASE Cached(Head(k.todo)) # None
      BY <1>6, <2>1, TimedNext DEF Lookup
    <2>2. CASE Cached(Head(k.todo)) = None
      <3>1. PICK m : m = [k EXCEPT !.pc = "fetch"] /\ Moves(c, m)
        BY <1>0, <1>6, <2>2 DEF Lookup, Moves
      <3>2. DOMAIN m = Fields /\ m.pc = "fetch" /\ m.aborted = k.aborted
        BY <1>0, <3>1 DEF Timed, Fields
      <3>3. QED
        BY <3>1, <3>2, TimedOnTheWay DEF Ended
    <2>3. QED
      BY <2>1, <2>2
  <1>7. CASE EmbedExamples(c)
    BY <1>7, TimedNext DEF EmbedExamples
  <1>8. CASE ExamplesFail(c)
    BY <1>8, TimedNext DEF ExamplesFail
  <1>9. ASSUME NEW answer, ChatAnswers(c, answer) PROVE TimedInv'
    <2>1. PICK m, result : /\ m = [k EXCEPT !.pc = "done", !.timer = Stopped(@), !.result = result]
                           /\ Moves(c, m)
      BY <1>0, <1>9 DEF ChatAnswers, Returning, Moves
    <2>2. Given(c).structured \/ (k.aborted = FALSE /\ k.timer # "fired")
      BY <1>0, <1>9 DEF ChatAnswers, Aborted, Timed
    <2>3. /\ DOMAIN m = Fields /\ m.pc = "done" /\ m.timer = Stopped(k.timer) /\ m.aborted = k.aborted
      BY <1>0, <2>1 DEF Timed, Fields
    <2>4. Timed(m, Given(c).structured)
      BY <1>0, <2>2, <2>3 DEF Timed, Stopped
    <2>5. QED
      BY <2>1, <2>4, TimedMove
  <1>10. CASE ChatFails(c)
    <2>0. PICK reason \in {"aborted", "refused"} : Fail(c, reason) /\ input' = input
      BY <1>10, Zenon DEF ChatFails
    <2> DEFINE error == Reason(c, reason)
               m == [k EXCEPT !.pc = "failed", !.timer = Stopped(@), !.error = error]
    <2>1. Moves(c, m)
      BY <2>0 DEF Fail, Moves
    <2>2. error = "timed out" <=> k.timer = "fired"
      BY DEF Reason
    <2> HIDE DEF error
    <2>3. /\ DOMAIN m = Fields /\ m.pc = "failed" /\ m.timer = Stopped(k.timer) /\ m.aborted = k.aborted
          /\ m.error = error
      BY <1>0 DEF Timed, Fields
    <2> HIDE DEF m
    <2>4. Timed(m, Given(c).structured)
      BY <1>0, <2>2, <2>3 DEF Timed, Stopped
    <2>5. QED
      BY <2>1, <2>4, TimedMove
  <1>11. QED
    BY <1>1, <1>2, <1>3, <1>4, <1>5, <1>6, <1>7, <1>8, <1>9, <1>10 DEF Step

LEMMA TimedSteps == TimedInv /\ [Next]_vars => TimedInv'
  <1> SUFFICES ASSUME TimedInv, [Next]_vars PROVE TimedInv'
    OBVIOUS
  <1>1. CASE UNCHANGED vars
    BY <1>1 DEF vars, TimedInv, Given
  <1>2. QED
    BY <1>1, TimedStep DEF Next

(* In JSON mode a call whose timer has fired or whose caller has aborted   *)
(* returns no answer, "timed out" is said of the calls the timer ended and *)
(* of no other, and no timer outlives its call.                            *)
THEOREM LateDropped == Spec => []LateAnswersAreDropped
  <1>1. TimedInv => LateAnswersAreDropped
    BY DEF TimedInv, Timed, LateAnswersAreDropped, Aborted
  <1>2. QED
    BY <1>1, TimedInit, TimedSteps, PTL DEF Spec
-----------------------------------------------------------------------------
(* The greatest of a few numbers and the least of any.                     *)
LEMMA MaxOf ==
  ASSUME NEW S \in SUBSET {0, 80, 90}, 0 \in S
  PROVE  Max(S) \in S /\ \A x \in S : x <= Max(S)
  <1>1. \E x \in S : \A y \in S : x >= y
    <2>1. CASE 90 \in S
      BY <2>1
    <2>2. CASE 90 \notin S /\ 80 \in S
      BY <2>2
    <2>3. CASE 90 \notin S /\ 80 \notin S
      BY <2>3
    <2>4. QED
      BY <2>1, <2>2, <2>3
  <1>2. Max(S) \in S /\ \A y \in S : Max(S) >= y
    BY <1>1 DEF Max
  <1>3. QED
    BY <1>2

LEMMA MinOf ==
  ASSUME NEW S \in SUBSET Nat, S # {}
  PROVE  Min(S) \in S /\ \A x \in S : Min(S) <= x
  <1>1. PICK x \in S : \A y \in S : <<y, x>> \notin OpToRel(<, Nat)
    BY NatLessThanWellFounded, WFMin, Zenon
  <1>2. ASSUME NEW y \in S PROVE x <= y
    <2>1. <<y, x>> \notin OpToRel(<, Nat)
      BY <1>1
    <2>2. QED
      BY <2>1 DEF OpToRel
  <1>3. QED
    BY <1>2 DEF Min

(* A list that is kept in part has elements of the whole.                  *)
LEMMA KeptIsList ==
  ASSUME NEW s, IsList(s), NEW keep
  PROVE  IsList(Kept(s, keep)) /\ Range(Kept(s, keep)) \subseteq Range(s)
  <1>1. Kept(s, keep) \in Seq(Range(s))
    BY KeptType DEF IsList
  <1>2. PICK t : t = Kept(s, keep)
    OBVIOUS
  <1>3. DOMAIN t = 1..Len(t) /\ Len(t) \in Nat /\ \A i \in 1..Len(t) : t[i] \in Range(s)
    BY <1>1, <1>2
  <1>4. t \in [1..Len(t) -> Range(t)]
    BY <1>1, <1>2, <1>3 DEF Range
  <1>5. t \in Seq(Range(t))
    BY <1>3, <1>4, SeqDef
  <1>6. QED
    BY <1>2, <1>3, <1>5 DEF IsList, Range

(* The event types a call asks for are known to the cache.                 *)
LEMMA TypesAreKnown ==
  ASSUME NEW c \in Calls, input[c] \in DOMAIN Cases
  PROVE  IsList(EventTypes(c)) /\ Range(EventTypes(c)) \subseteq KnownTypes
  <1>1. Given(c) \in Range(Cases)
    BY DEF Given, Range
  <1>2. IsList(Definitions(c))
    BY <1>1 DEF CaseForm, Definitions
  <1>3. PICK own : own = Exemplified(c)
    OBVIOUS
  <1>4. IsList(own) /\ Range(own) \subseteq Range(Definitions(c))
    BY <1>2, <1>3, KeptIsList DEF Exemplified
  <1>5. CASE own = << >>
    BY <1>3, <1>5 DEF EventTypes, KnownTypes
  <1>6. CASE own # << >>
    <2>1. PICK types : types = [i \in DOMAIN own |-> own[i].type]
      OBVIOUS
    <2>2. DOMAIN own = 1..Len(own) /\ Len(own) \in Nat
      BY <1>4 DEF IsList
    <2>3. types \in [1..Len(own) -> Range(types)]
      BY <2>1, <2>2 DEF Range
    <2>4. IsList(types)
      BY <2>2, <2>3, SeqDef DEF IsList
    <2>5. \A i \in DOMAIN own : own[i] \in Range(Given(c).pack.definitions)
      BY <1>4 DEF Range, Definitions
    <2>6. \A i \in DOMAIN own : own[i].type \in KnownTypes
      BY <1>1, <2>5 DEF KnownTypes
    <2>7. Range(types) \subseteq KnownTypes
      BY <2>1, <2>6 DEF Range
    <2>8. QED
      BY <1>3, <1>6, <2>1, <2>4, <2>7 DEF EventTypes
  <1>7. QED
    BY <1>5, <1>6

(* What computeSemanticTriggers finds among the phrases is as near to one  *)
(* of them as any turn is to any, and no earlier turn is as near.          *)
LEMMA BestIs ==
  ASSUME NEW c, NEW phrases, DOMAIN ReadBack(c) \subseteq Nat,
         BestMatch(c, phrases).confidence >= Threshold
  PROVE  LET best == BestMatch(c, phrases)
             Like(i, p) == cosineSimilarity(ReadBack(c)[i].text, p)
         IN  /\ best.turn \in Nat /\ best.confidence \in {80, 90}
             /\ \E p \in Range(phrases) : Like(best.turn, p) = best.confidence
             /\ \A i \in DOMAIN ReadBack(c) : \A p \in Range(phrases) :
                    Like(i, p) <= best.confidence /\ (i < best.turn => Like(i, p) < best.confidence)
  <1> DEFINE turns == ReadBack(c)
             Like(i, p) == cosineSimilarity(turns[i].text, p)
             Of(i) == {0} \cup {Like(i, p) : p \in Range(phrases)}
             sim(i) == Max(Of(i))
             All == {0} \cup {sim(i) : i \in DOMAIN turns}
             best == Max(All)
             First == {i \in DOMAIN turns : sim(i) = best}
  <1>1. \A i, p : Like(i, p) \in {0, 80, 90}
    BY DEF cosineSimilarity
  <1> HIDE DEF Like
  <1>2. ASSUME NEW i PROVE sim(i) \in Of(i) /\ \A x \in Of(i) : x <= sim(i)
    <2>1. Of(i) \in SUBSET {0, 80, 90} /\ 0 \in Of(i)
      BY <1>1
    <2> HIDE DEF Of
    <2>2. QED
      BY <2>1, MaxOf
  <1>3. \A i : sim(i) \in {0, 80, 90}
    BY <1>1, <1>2
  <1>4. \A i, p : p \in Range(phrases) => Like(i, p) <= sim(i)
    BY <1>2
  <1>5. \A i : sim(i) # 0 => \E p \in Range(phrases) : Like(i, p) = sim(i)
    BY <1>2
  <1>6. BestMatch(c, phrases) = [confidence |-> best, turn |-> IF best = 0 THEN 1 ELSE Min(First)]
    BY DEF BestMatch, Like
  <1> HIDE DEF sim
  <1>7. All \in SUBSET {0, 80, 90} /\ 0 \in All
    BY <1>3
  <1>8. best \in All /\ \A i \in DOMAIN turns : sim(i) <= best
    <2>1. \A x \in All : x <= best
      BY <1>7, MaxOf
    <2>2. QED
      BY <1>7, <2>1, MaxOf
  <1>9. best # 0 /\ best \in {80, 90}
    BY <1>6, <1>7, <1>8
  <1>10. First \in SUBSET Nat /\ First # {}
    BY <1>8, <1>9
  <1>11. Min(First) \in First /\ \A i \in First : Min(First) <= i
    BY <1>10, MinOf
  <1> DEFINE first == Min(First)
  <1>12. first \in DOMAIN turns /\ sim(first) = best /\ \A i \in DOMAIN turns : sim(i) = best => first <= i
    BY <1>11
  <1> HIDE DEF All, best, First, first
  <1>13. BestMatch(c, phrases) = [confidence |-> best, turn |-> first]
    BY <1>6, <1>9 DEF first
  <1>14. first \in Nat
    BY <1>12
  <1>15. \E p \in Range(phrases) : Like(first, p) = best
    BY <1>5, <1>9, <1>12
  <1>16. ASSUME NEW i \in DOMAIN turns, NEW p \in Range(phrases)
         PROVE  Like(i, p) <= best /\ (i < first => Like(i, p) < best)
    <2>1. Like(i, p) \in {0, 80, 90} /\ sim(i) \in {0, 80, 90} /\ Like(i, p) <= sim(i) /\ sim(i) <= best
      BY <1>1, <1>3, <1>4, <1>8
    <2>2. i < first => sim(i) # best
      BY <1>12, <1>14
    <2>3. QED
      BY <1>9, <2>1, <2>2
  <1>17. QED
    BY <1>9, <1>13, <1>14, <1>15, <1>16 DEF Like
-----------------------------------------------------------------------------
(* The recursive functions of the model, by what each does in a step.      *)
StepOf(what, arg, x, i) ==
    IF what = "read" THEN ReadLine(x, arg, i)
    ELSE IF what = "mask" THEN Masked(x, arg[i])
    ELSE IF what = "atoms" THEN TokenizeAtom(i \in Reached(arg.rule, arg.text), x, arg.text[i])
    ELSE IF what = "rules" THEN TokenizeRule(arg[i], x)
    ELSE IF what = "turns" THEN tokenizeText(arg.turns[i].text, arg.rules, x).map
    ELSE x \o arg[i]
IsRun(f, what, arg, base, n) ==
    f = [i \in 0..n |-> IF i = 0 THEN base ELSE StepOf(what, arg, f[i - 1], i)]

LEMMA RunExists ==
  ASSUME NEW what, NEW arg, NEW base, NEW n \in Nat
  PROVE  \E f : IsRun(f, what, arg, base, n)
  <1> DEFINE S == {m \in Nat : \E f : IsRun(f, what, arg, base, m)}
  <1>1. 0 \in S
    <2>1. IsRun([i \in 0..0 |-> base], what, arg, base, 0)
      BY DEF IsRun
    <2>2. QED
      BY <2>1
  <1>2. ASSUME NEW m \in Nat, m \in S PROVE m + 1 \in S
    <2>1. PICK f : IsRun(f, what, arg, base, m)
      BY <1>2
    <2> DEFINE g == [i \in 0..(m + 1) |-> IF i <= m THEN f[i] ELSE StepOf(what, arg, f[m], m + 1)]
    <2>2. ASSUME NEW i \in 0..(m + 1)
          PROVE  g[i] = IF i = 0 THEN base ELSE StepOf(what, arg, g[i - 1], i)
      <3>1. CASE i = 0
        BY <2>1, <3>1 DEF IsRun
      <3>2. CASE i \in 1..m
        <4>1. g[i] = f[i] /\ g[i - 1] = f[i - 1] /\ i \in 0..m /\ i # 0
          BY <3>2
        <4>2. QED
          BY <2>1, <4>1 DEF IsRun
      <3>3. CASE i = m + 1
        <4>1. g[i] = StepOf(what, arg, f[m], m + 1) /\ g[i - 1] = f[m] /\ i # 0
          BY <3>3
        <4>2. QED
          BY <3>3, <4>1
      <3>4. QED
        BY <3>1, <3>2, <3>3
    <2>3. IsRun(g, what, arg, base, m + 1)
      <3>1. DOMAIN g = 0..(m + 1)
        OBVIOUS
      <3> HIDE DEF g
      <3>2. g = [i \in 0..(m + 1) |-> g[i]]
        <4>1. g = [i \in DOMAIN g |-> g[i]]
          BY DEF g
        <4>2. QED
          BY <3>1, <4>1
      <3>3. QED
        BY <2>2, <3>2 DEF IsRun
    <2>4. QED
      BY <2>3
  <1> HIDE DEF S
  <1>3. Nat \subseteq S
    BY <1>1, <1>2, SetInduction
  <1>4. QED
    BY <1>3 DEF S

(* Step by step, what holds at first and is kept holds in the end: P holds *)
(* the places up to n where it does.                                       *)
LEMMA RunInduction ==
  ASSUME NEW n \in Nat, NEW P, 0 \in P, \A m \in 0..(n - 1) : m \in P => m + 1 \in P
  PROVE  0..n \subseteq P
  <1> DEFINE S == {m \in Nat : m <= n => m \in P}
  <1>1. 0 \in S
    OBVIOUS
  <1>2. ASSUME NEW m \in Nat, m \in S PROVE m + 1 \in S
    BY <1>2
  <1> HIDE DEF S
  <1>3. Nat \subseteq S
    BY <1>1, <1>2, SetInduction
  <1>4. QED
    BY <1>3 DEF S
-----------------------------------------------------------------------------
(* The turns that are read back from the prompt are in a list.             *)
IsRead(f, lines, n) ==
    f = [i \in 0..n |-> IF i = 0 THEN [turns |-> << >>, taken |-> 0] ELSE ReadLine(f[i - 1], lines, i)]

LEMMA ReadExists ==
  ASSUME NEW lines, NEW n \in Nat
  PROVE  \E f : IsRead(f, lines, n)
  <1>1. PICK base : base = [turns |-> << >>, taken |-> 0]
    OBVIOUS
  <1>2. PICK f : IsRun(f, "read", lines, base, n)
    BY RunExists
  <1>3. \A x, i : StepOf("read", lines, x, i) = ReadLine(x, lines, i)
    BY DEF StepOf
  <1>4. IsRead(f, lines, n)
    BY <1>1, <1>2, <1>3 DEF IsRun, IsRead
  <1>5. QED
    BY <1>4

LEMMA ReadIsList ==
  ASSUME NEW lines, Len(lines) \in Nat
  PROVE  \E n \in Nat : DOMAIN extractTurnTextsFromContext(lines) = 1..n
  <1> DEFINE n == Len(lines)
  <1>1. PICK f : f = (CHOOSE h : IsRead(h, lines, n))
    OBVIOUS
  <1>2. IsRead(f, lines, n)
    BY <1>1, ReadExists
  <1>3. extractTurnTextsFromContext(lines) = f[n].turns
    BY <1>1 DEF extractTurnTextsFromContext, IsRead
  <1> HIDE DEF n
  <1> DEFINE Collects(s) == {"turns", "taken"} = DOMAIN s /\ \E U : s.turns \in Seq(U)
             S == {m \in Nat : m <= n => Collects(f[m])}
  <1>4. 0 \in S
    <2>1. f[0] = [turns |-> << >>, taken |-> 0]
      BY <1>2 DEF IsRead, n
    <2>2. << >> \in Seq({})
      OBVIOUS
    <2>3. DOMAIN f[0] = {"turns", "taken"} /\ f[0].turns = << >>
      BY <2>1
    <2>4. Collects(f[0])
      BY <2>2, <2>3
    <2>5. QED
      BY <2>4
  <1>5. ASSUME NEW m \in Nat, m \in S PROVE m + 1 \in S
    <2> SUFFICES ASSUME m + 1 <= n PROVE Collects(f[m + 1])
      OBVIOUS
    <2>1. m <= n /\ n \in Nat
      BY DEF n
    <2>2. Collects(f[m])
      BY <1>5, <2>1
    <2>3. f[m + 1] = ReadLine(f[m], lines, m + 1)
      BY <1>2, <2>1 DEF IsRead
    <2>4. PICK s : s = f[m]
      OBVIOUS
    <2>5. PICK U : s.turns \in Seq(U)
      BY <2>2, <2>4
    <2>6. PICK turn : turn = TurnOfLine(lines, m + 1)
      OBVIOUS
    <2>7. PutTurn(s.turns, turn) \in Seq(U \cup {turn})
      <3>1. PICK t : t = s.turns
        OBVIOUS
      <3>2. t \in Seq(U \cup {turn})
        BY <2>5, <3>1, SeqMonotonic
      <3>3. PICK at : at = SelectInSeq(t, LAMBDA x : x.id = turn.id)
        OBVIOUS
      <3>4. PutTurn(t, turn) = IF at = 0 THEN Append(t, turn) ELSE [t EXCEPT ![at] = turn]
        BY <3>3 DEF PutTurn
      <3>5. Append(t, turn) \in Seq(U \cup {turn})
        BY <3>2
      <3>6. [t EXCEPT ![at] = turn] \in Seq(U \cup {turn})
        <4>1. Len(t) \in Nat /\ t \in [1..Len(t) -> U \cup {turn}]
          BY <3>2
        <4>2. [t EXCEPT ![at] = turn] \in [1..Len(t) -> U \cup {turn}]
          BY <4>1
        <4>3. QED
          BY <4>1, <4>2, SeqDef
      <3>7. QED
        BY <3>1, <3>4, <3>5, <3>6
    <2>8. ReadLine(s, lines, m + 1) = s
          \/ \E taken : ReadLine(s, lines, m + 1) = [turns |-> PutTurn(s.turns, turn), taken |-> taken]
      BY <2>6 DEF ReadLine
    <2>9. PICK next : next = ReadLine(s, lines, m + 1)
      OBVIOUS
    <2>10. CASE next = s
      BY <2>2, <2>3, <2>4, <2>9, <2>10
    <2>11. ASSUME NEW taken, next = [turns |-> PutTurn(s.turns, turn), taken |-> taken]
           PROVE  Collects(next)
      <3>1. DOMAIN next = {"turns", "taken"} /\ next.turns = PutTurn(s.turns, turn)
        BY <2>11
      <3>2. QED
        BY <2>7, <3>1
    <2>12. QED
      BY <2>3, <2>4, <2>8, <2>9, <2>10, <2>11
  <1> HIDE DEF Collects
  <1>6. Nat \subseteq S
    <2> HIDE DEF S
    <2>1. QED
      BY <1>4, <1>5, SetInduction
  <1>7. Collects(f[n])
    BY <1>6 DEF n
  <1>8. PICK U : f[n].turns \in Seq(U)
    BY <1>7 DEF Collects
  <1>9. QED
    BY <1>3, <1>8

(* Masking and normalization keep a transcript's turns in their places.    *)
LEMMA TurnsInPlace ==
  ASSUME NEW case \in Range(Cases)
  PROVE  LET turns == normalizeTranscript(prepareRequest(case.transcript, case.pii).transcript)
         IN  \E n \in Nat : DOMAIN turns = 1..n
  <1> DEFINE transcript == case.transcript
             prepared == prepareRequest(transcript, case.pii)
  <1>1. PICK n \in Nat : DOMAIN transcript.turns = 1..n
    <2>1. PICK turns : turns = transcript.turns
      OBVIOUS
    <2>2. IsList(turns)
      BY <2>1 DEF CaseForm
    <2>3. Len(turns) \in Nat /\ DOMAIN turns = 1..Len(turns)
      BY <2>2 DEF IsList
    <2>4. QED
      BY <2>1, <2>3
  <1>2. DOMAIN prepared.transcript.turns = DOMAIN transcript.turns
    <2>1. CASE case.pii.enabled /\ case.pii.reversible
      BY <2>1 DEF prepareRequest, reversibleMaskAnalysisRequest
    <2>2. CASE ~(case.pii.enabled /\ case.pii.reversible)
      <3>1. prepared.transcript = maskAnalysisRequest(transcript, case.pii)
        BY <2>2 DEF prepareRequest
      <3>2. DOMAIN maskAnalysisRequest(transcript, case.pii).turns = DOMAIN transcript.turns
        BY DEF maskAnalysisRequest
      <3>3. QED
        BY <3>1, <3>2
    <2>3. QED
      BY <2>1, <2>2
  <1> HIDE DEF prepared
  <1>3. DOMAIN normalizeTranscript(prepared.transcript) = DOMAIN prepared.transcript.turns
    BY DEF normalizeTranscript
  <1>4. QED
    BY <1>1, <1>2, <1>3 DEF prepared

LEMMA LenIs ==
  ASSUME NEW s, NEW n \in Nat, DOMAIN s = 1..n, s = [i \in 1..n |-> s[i]]
  PROVE  IsList(s) /\ Len(s) = n
  <1>1. s \in [1..n -> Range(s)]
    BY DEF Range
  <1>2. s \in Seq(Range(s))
    BY <1>1, SeqDef
  <1>3. Len(s) \in Nat /\ DOMAIN s = 1..Len(s)
    BY <1>2
  <1>4. QED
    BY <1>2, <1>3 DEF IsList

LEMMA BeforeIs ==
  ASSUME NEW case \in Range(Cases)
  PROVE  LET before == Before(case)
         IN  /\ IsList(before.assignments) /\ DOMAIN before.readBack \subseteq Nat
             /\ \A i \in DOMAIN before.assignments : LET a == before.assignments[i] IN
                    /\ DOMAIN a = {"id", "name", "role", "confidence", "eligibleForSentiment",
                                   "eligibleForKeyMoments"}
                    /\ a.eligibleForSentiment <=> a.role \in case.pack.sentimentRoles
                    /\ a.eligibleForKeyMoments <=> a.role \in case.pack.keyMomentRoles
  <1>1. PICK turns : turns = normalizeTranscript(prepareRequest(case.transcript, case.pii).transcript)
    OBVIOUS
  <1>2. PICK n \in Nat : DOMAIN turns = 1..n
    BY <1>1, TurnsInPlace
  <1>3. PICK assignments : assignments = resolveSpeakers(turns, case.pack)
    OBVIOUS
  <1>4. PICK prompt, lines : /\ prompt = buildCanonicalAnalysisPrompt(turns, assignments)
                             /\ lines = IF case.structured THEN prompt ELSE CompactContext(prompt)
    OBVIOUS
  <1>5. Before(case).assignments = assignments /\ Before(case).readBack = extractTurnTextsFromContext(lines)
    BY <1>1, <1>3, <1>4 DEF Before
  <1>6. DOMAIN assignments = 1..n /\ DOMAIN lines = 1..n
        /\ assignments = [i \in 1..n |-> assignments[i]] /\ lines = [i \in 1..n |-> lines[i]]
    BY <1>2, <1>3, <1>4 DEF resolveSpeakers, buildCanonicalAnalysisPrompt, CompactContext
  <1>7. IsList(assignments) /\ Len(lines) \in Nat
    BY <1>6, LenIs
  <1>8. DOMAIN extractTurnTextsFromContext(lines) \subseteq Nat
    BY <1>7, ReadIsList
  <1>9. ASSUME NEW i \in DOMAIN assignments
        PROVE  /\ DOMAIN assignments[i] = {"id", "name", "role", "confidence", "eligibleForSentiment",
                                           "eligibleForKeyMoments"}
               /\ assignments[i].eligibleForSentiment <=> assignments[i].role \in case.pack.sentimentRoles
               /\ assignments[i].eligibleForKeyMoments <=> assignments[i].role \in case.pack.keyMomentRoles
    BY <1>2, <1>3, <1>6 DEF resolveSpeakers
  <1>10. QED
    BY <1>5, <1>7, <1>8, <1>9
-----------------------------------------------------------------------------
(* A trigger whose type no other caller defines otherwise is grounded in   *)
(* the phrases of its own caller; a call in flight knows its case.         *)
Grounded(c) == {t \in [type : Range(EventTypes(c)), confidence : {80, 90}, turn : Nat] :
                    DefinedAlike(t.type) => IsGrounded(c, t)}
Guided(c) ==
    /\ DOMAIN call[c] = Fields
    /\ call[c].triggers \in Seq(Grounded(c)) /\ call[c].todo \in Seq(Range(EventTypes(c)))
    /\ IF call[c].pc = "idle" THEN call[c].triggers = << >> ELSE call[c].before = BeforeCase[input[c]]
    /\ call[c].pc \in {"lookup", "fetch"} => call[c].todo # << >>
IsCached(type) ==
    cache[type] # None => \E c \in Calls : type \in Range(EventTypes(c)) /\ cache[type] = Phrases(c, type)
GuideInv ==
    /\ DOMAIN call = Calls /\ input \in [Calls -> DOMAIN Cases] /\ DOMAIN cache = KnownTypes
    /\ \A type \in DOMAIN cache : IsCached(type)
    /\ \A c \in Calls : Guided(c)

LEMMA GuideInit == Init => GuideInv
  <1> SUFFICES ASSUME Init PROVE GuideInv
    OBVIOUS
  <1>1. \A c \in Calls : call[c] = NotBegun
    BY DEF Init
  <1>2. DOMAIN NotBegun = Fields /\ NotBegun.pc = "idle" /\ NotBegun.triggers = << >> /\ NotBegun.todo = << >>
    BY DEF NotBegun, Fields
  <1>3. \A S : << >> \in Seq(S)
    OBVIOUS
  <1>4. \A c \in Calls : Guided(c)
    BY <1>1, <1>2, <1>3 DEF Guided
  <1>5. DOMAIN call = Calls /\ input \in [Calls -> DOMAIN Cases]
    BY DEF Init
  <1>6. DOMAIN cache = KnownTypes /\ \A type \in DOMAIN cache : IsCached(type)
    BY DEF Init, IsCached
  <1>7. QED
    BY <1>4, <1>5, <1>6 DEF GuideInv

LEMMA SameCases ==
  ASSUME input' = input
  PROVE  \A c : /\ Given(c)' = Given(c) /\ EventTypes(c)' = EventTypes(c)
                /\ \A type : Phrases(c, type)' = Phrases(c, type)
                /\ \A type : DefinedAlike(type)' <=> DefinedAlike(type)
  <1>1. \A c : Given(c)' = Given(c)
    BY DEF Given
  <1>2. \A c : Exemplified(c)' = Exemplified(c)
    BY DEF Exemplified, Definitions, Given
  <1>3. \A c : EventTypes(c)' = EventTypes(c)
    BY <1>2 DEF EventTypes
  <1>4. \A c, type : Phrases(c, type)' = Phrases(c, type)
    BY <1>2 DEF Phrases, SelectInSeq
  <1>5. \A type : DefinedAlike(type)' <=> DefinedAlike(type)
    BY <1>3, <1>4 DEF DefinedAlike
  <1>6. QED
    BY <1>1, <1>3, <1>4, <1>5

LEMMA SameGrounded ==
  ASSUME input' = input, NEW c, ReadBack(c)' = ReadBack(c)
  PROVE  Grounded(c)' = Grounded(c)
  <1>1. \A t : IsGrounded(c, t)' <=> IsGrounded(c, t)
    BY SameCases, SMTT(60) DEF IsGrounded, cosineSimilarity, Has
  <1>2. QED
    BY <1>1, SameCases DEF Grounded

LEMMA GuideMove ==
  ASSUME GuideInv, NEW c \in Calls, NEW m, Moves(c, m),
         DOMAIN cache' = DOMAIN cache, \A type \in DOMAIN cache : IsCached(type)',
         DOMAIN m = Fields, m.pc # "idle", m.todo \in Seq(Range(EventTypes(c))),
         m.triggers = << >> \/ (m.triggers \in Seq(Grounded(c)) /\ m.before = call[c].before),
         m.before = BeforeCase[input[c]], m.pc \in {"lookup", "fetch"} => m.todo # << >>
  PROVE  GuideInv'
  <1>1. DOMAIN call' = Calls /\ call'[c] = m /\ input' = input /\ \A d \in Calls \ {c} : call'[d] = call[d]
    BY DEF Moves, GuideInv
  <1>2. ASSUME NEW d \in Calls \ {c} PROVE Guided(d)'
    <2>1. ReadBack(d)' = ReadBack(d)
      BY <1>1 DEF ReadBack
    <2>2. Grounded(d)' = Grounded(d) /\ EventTypes(d)' = EventTypes(d)
      BY <1>1, <2>1, SameGrounded, SameCases
    <2>3. Guided(d)
      BY DEF GuideInv
    <2>4. QED
      BY <1>1, <2>2, <2>3 DEF Guided
  <1>3. Guided(c)'
    <2>1. EventTypes(c)' = EventTypes(c)
      BY <1>1, SameCases
    <2>2. m.triggers \in Seq(Grounded(c)')
      <3>1. CASE m.triggers = << >>
        BY <3>1
      <3>2. CASE m.triggers \in Seq(Grounded(c)) /\ m.before = call[c].before
        <4>1. ReadBack(c)' = ReadBack(c)
          BY <1>1, <3>2 DEF ReadBack
        <4>2. QED
          BY <1>1, <3>2, <4>1, SameGrounded
      <3>3. QED
        BY <3>1, <3>2
    <2>3. QED
      BY <1>1, <2>1, <2>2 DEF Guided
  <1>4. QED
    BY <1>1, <1>2, <1>3 DEF GuideInv

LEMMA SameCache ==
  ASSUME GuideInv, input' = input, cache' = cache
  PROVE  DOMAIN cache' = DOMAIN cache /\ \A type \in DOMAIN cache : IsCached(type)'
  BY SameCases DEF GuideInv, IsCached

LEMMA TriggersGrounded ==
  ASSUME GuideInv, NEW c \in Calls, call[c].pc # "idle", NEW type \in Range(EventTypes(c)), NEW phrases,
         DefinedAlike(type) => phrases = Phrases(c, type)
  PROVE  WithTrigger(c, type, phrases) \in Seq(Grounded(c))
  <1>1. call[c].triggers \in Seq(Grounded(c)) /\ call[c].before = BeforeCase[input[c]] /\ input[c] \in DOMAIN Cases
    BY DEF GuideInv, Guided
  <1>2. DOMAIN ReadBack(c) \subseteq Nat
    <2>1. Cases[input[c]] \in Range(Cases) /\ ReadBack(c) = Before(Cases[input[c]]).readBack
      BY <1>1 DEF Range, ReadBack, BeforeCase
    <2>2. QED
      BY <2>1, BeforeIs
  <1>3. PICK best : best = BestMatch(c, phrases)
    OBVIOUS
  <1>4. CASE best.confidence >= Threshold
    <2>1. PICK t : t = [type |-> type, confidence |-> best.confidence, turn |-> best.turn]
      OBVIOUS
    <2>2. /\ best.turn \in Nat /\ best.confidence \in {80, 90}
          /\ \E p \in Range(phrases) : cosineSimilarity(ReadBack(c)[best.turn].text, p) = best.confidence
          /\ \A i \in DOMAIN ReadBack(c) : \A p \in Range(phrases) :
                 /\ cosineSimilarity(ReadBack(c)[i].text, p) <= best.confidence
                 /\ i < best.turn => cosineSimilarity(ReadBack(c)[i].text, p) < best.confidence
      BY <1>2, <1>3, <1>4, BestIs
    <2>3. t.type = type /\ t.confidence = best.confidence /\ t.turn = best.turn
          /\ t \in [type : Range(EventTypes(c)), confidence : {80, 90}, turn : Nat]
      BY <2>1, <2>2
    <2>4. DefinedAlike(type) => IsGrounded(c, t)
      BY <2>2, <2>3 DEF IsGrounded
    <2>5. t \in Grounded(c)
      BY <2>3, <2>4 DEF Grounded
    <2>6. WithTrigger(c, type, phrases) = Append(call[c].triggers, t)
      BY <1>3, <1>4, <2>1 DEF WithTrigger
    <2>7. QED
      BY <1>1, <2>5, <2>6
  <1>5. CASE ~(best.confidence >= Threshold)
    <2>1. WithTrigger(c, type, phrases) = call[c].triggers
      BY <1>3, <1>5 DEF WithTrigger
    <2>2. QED
      BY <1>1, <2>1
  <1>6. QED
    BY <1>4, <1>5

(* On to the next event type, with more triggers or the same ones.         *)
LEMMA GuideNext ==
  ASSUME GuideInv, NEW c \in Calls, call[c].pc \in {"lookup", "fetch"}, NEW triggers \in Seq(Grounded(c)),
         NextType(c, triggers), input' = input,
         DOMAIN cache' = DOMAIN cache, \A type \in DOMAIN cache : IsCached(type)'
  PROVE  GuideInv'
  <1> DEFINE k == call[c]
             m == [k EXCEPT !.triggers = triggers, !.todo = Tail(k.todo),
                            !.pc = IF Tail(k.todo) = << >> THEN "chat" ELSE "lookup"]
  <1>1. Guided(c) /\ k.pc # "idle"
    BY DEF GuideInv
  <1>2. Moves(c, m)
    BY DEF NextType, Moves
  <1>3. /\ DOMAIN m = Fields /\ m.triggers = triggers /\ m.todo = Tail(k.todo) /\ m.before = k.before
        /\ m.pc = IF Tail(k.todo) = << >> THEN "chat" ELSE "lookup"
    BY <1>1 DEF Guided, Fields
  <1>4. Tail(k.todo) \in Seq(Range(EventTypes(c)))
    BY <1>1 DEF Guided
  <1> HIDE DEF m
  <1>5. k.before = BeforeCase[input[c]]
    BY <1>1 DEF Guided
  <1>6. QED
    BY <1>2, <1>3, <1>4, <1>5, GuideMove

(* Steps that touch neither the triggers nor what is left to look up.      *)
LEMMA GuideAside ==
  ASSUME GuideInv, NEW c \in Calls, call[c].pc # "idle", cache' = cache, NEW m, Moves(c, m),
         DOMAIN m = Fields, m.triggers = call[c].triggers, m.todo = call[c].todo, m.before = call[c].before,
         m.pc # "idle", m.pc \in {"lookup", "fetch"} => call[c].pc \in {"lookup", "fetch"}
  PROVE  GuideInv'
  <1>1. Guided(c) /\ input' = input
    BY DEF GuideInv, Moves
  <1>2. /\ m.triggers \in Seq(Grounded(c)) /\ m.todo \in Seq(Range(EventTypes(c)))
        /\ m.before = BeforeCase[input[c]] /\ (m.pc \in {"lookup", "fetch"} => m.todo # << >>)
    BY <1>1 DEF Guided
  <1>3. DOMAIN cache' = DOMAIN cache /\ \A type \in DOMAIN cache : IsCached(type)'
    BY <1>1, SameCache
  <1>4. QED
    BY <1>2, <1>3, GuideMove

LEMMA GuideStep ==
  ASSUME TimedInv, GuideInv, NEW c \in Calls, Step(c) PROVE GuideInv'
  <1> DEFINE k == call[c]
  <1>0. Guided(c) /\ DOMAIN call = Calls /\ DOMAIN k = Fields
    BY DEF GuideInv, Guided
  <1>1. CASE Begin(c)
    <2> DEFINE local == [k EXCEPT !.before = BeforeCase[input[c]]]
               m == Prepared(c, local)
    <2>1. Moves(c, m) /\ k.pc = "idle" /\ cache' = cache
      BY <1>1 DEF Begin, Moves
    <2>2. DOMAIN local = Fields /\ local.triggers = << >> /\ local.todo = k.todo
          /\ local.before = BeforeCase[input[c]]
      BY <1>0, <2>1 DEF Guided, Fields
    <2> HIDE DEF local
    <2>3. /\ DOMAIN m = Fields /\ m.triggers = << >> /\ m.todo = k.todo /\ m.before = BeforeCase[input[c]]
          /\ m.pc \in {"chat", "embed", "done"}
      <3>1. CASE HasEligibleTurn(local.before.assignments)
        <4>1. m = [local EXCEPT !.pc = IF Given(c).structured THEN "chat" ELSE "embed",
                                !.timer = IF HasTimeout THEN "armed" ELSE "none"]
          BY <3>1 DEF Prepared
        <4>2. QED
          BY <2>2, <4>1 DEF Fields
      <3>2. CASE ~HasEligibleTurn(local.before.assignments)
        <4>1. PICK result : m = [local EXCEPT !.pc = "done", !.timer = Stopped(@), !.result = result]
          BY <3>2 DEF Prepared, Returning
        <4>2. QED
          BY <2>2, <4>1 DEF Fields
      <3>3. QED
        BY <3>1, <3>2
    <2> HIDE DEF m
    <2>4. DOMAIN cache' = DOMAIN cache /\ \A type \in DOMAIN cache : IsCached(type)'
      BY <2>1, SameCache DEF Moves
    <2>5. m.todo \in Seq(Range(EventTypes(c)))
      BY <1>0, <2>3 DEF Guided
    <2>6. QED
      BY <2>1, <2>3, <2>4, <2>5, GuideMove
  <1>2. CASE TimerFires(c)
    <2>1. PICK m : m = [k EXCEPT !.timer = "fired"] /\ Moves(c, m)
      BY <1>2 DEF TimerFires, Moves
    <2>2. cache' = cache /\ k.timer = "armed"
      BY <1>2 DEF TimerFires
    <2>3. /\ DOMAIN m = Fields /\ m.triggers = k.triggers /\ m.todo = k.todo /\ m.before = k.before /\ m.pc = k.pc
      BY <1>0, <2>1 DEF Fields
    <2>4. k.pc # "idle"
      BY <2>2 DEF TimedInv, Timed
    <2>5. QED
      BY <2>1, <2>2, <2>3, <2>4, GuideAside
  <1>3. CASE Abort(c)
    <2>1. PICK m : m = [k EXCEPT !.aborted = TRUE] /\ Moves(c, m)
      BY <1>3 DEF Abort, Moves
    <2>2. /\ DOMAIN m = Fields /\ m.triggers = k.triggers /\ m.todo = k.todo /\ m.before = k.before /\ m.pc = k.pc
      BY <1>0, <2>1 DEF Fields
    <2>3. QED
      BY <1>3, <2>1, <2>2, GuideAside DEF Abort
  <1>4. CASE EmbedTurns(c)
    <2>1. PICK todo : todo = TypesWithPhrases(c)
      OBVIOUS
    <2>2. PICK m : /\ m = [k EXCEPT !.todo = todo, !.pc = IF todo = << >> THEN "chat" ELSE "lookup"]
                   /\ Moves(c, m)
      BY <1>0, <1>4, <2>1 DEF EmbedTurns, Moves
    <2>3. cache' = cache /\ k.pc = "embed"
      BY <1>4 DEF EmbedTurns
    <2>4. /\ DOMAIN m = Fields /\ m.triggers = k.triggers /\ m.todo = todo /\ m.before = k.before
          /\ m.pc = IF todo = << >> THEN "chat" ELSE "lookup"
      BY <1>0, <2>2 DEF Fields
    <2>5. IsList(EventTypes(c))
      BY TypesAreKnown DEF GuideInv
    <2>6. todo \in Seq(Range(EventTypes(c)))
      BY <2>1, <2>5, KeptType DEF TypesWithPhrases, IsList
    <2>7. DOMAIN cache' = DOMAIN cache /\ \A type \in DOMAIN cache : IsCached(type)'
      BY <2>2, <2>3, SameCache DEF Moves
    <2>8. m.triggers \in Seq(Grounded(c)) /\ m.before = BeforeCase[input[c]]
      BY <1>0, <2>3, <2>4 DEF Guided
    <2>9. /\ m.pc # "idle" /\ m.todo \in Seq(Range(EventTypes(c))) /\ m.before = call[c].before
          /\ (m.pc \in {"lookup", "fetch"} => m.todo # << >>)
      BY <2>4, <2>6
    <2>10. QED
      BY <2>2, <2>4, <2>7, <2>8, <2>9, GuideMove
  <1>5. CASE EmbeddingFails(c)
    <2>1. PICK m : m = [k EXCEPT !.pc = "chat"] /\ Moves(c, m)
      BY <1>0, <1>5 DEF EmbeddingFails, Moves
    <2>2. /\ DOMAIN m = Fields /\ m.triggers = k.triggers /\ m.todo = k.todo /\ m.before = k.before /\ m.pc = "chat"
      BY <1>0, <2>1 DEF Fields
    <2>3. QED
      BY <1>5, <2>1, <2>2, GuideAside DEF EmbeddingFails
  <1>6. ASSUME k.pc \in {"lookup", "fetch"} PROVE Head(k.todo) \in Range(EventTypes(c)) /\ Head(k.todo) \in DOMAIN cache
    <2>1. k.todo \in Seq(Range(EventTypes(c))) /\ k.todo # << >>
      BY <1>0, <1>6 DEF Guided
    <2>2. Head(k.todo) \in Range(EventTypes(c))
      BY <2>1
    <2>3. QED
      BY <2>2, TypesAreKnown DEF GuideInv
  <1>7. CASE Lookup(c)
    <2>1. k.pc = "lookup" /\ UNCHANGED <<input, cache>>
      BY <1>7 DEF Lookup
    <2>2. PICK type : type = Head(k.todo)
      OBVIOUS
    <2>3. type \in Range(EventTypes(c)) /\ IsCached(type)
      BY <1>6, <2>1, <2>2 DEF GuideInv
    <2>4. CASE cache[type] # None
      <3>1. NextType(c, WithTrigger(c, type, cache[type]))
        BY <1>7, <2>2, <2>4 DEF Lookup, Cached
      <3>2. PICK d \in Calls : type \in Range(EventTypes(d)) /\ cache[type] = Phrases(d, type)
        BY <2>3, <2>4 DEF IsCached
      <3>3. DefinedAlike(type) => cache[type] = Phrases(c, type)
        BY <2>3, <3>2 DEF DefinedAlike
      <3>4. WithTrigger(c, type, cache[type]) \in Seq(Grounded(c))
        BY <2>1, <2>3, <3>3, TriggersGrounded
      <3>5. DOMAIN cache' = DOMAIN cache /\ \A t \in DOMAIN cache : IsCached(t)'
        BY <2>1, SameCache
      <3>6. QED
        BY <2>1, <3>1, <3>4, <3>5, GuideNext
    <2>5. CASE cache[type] = None
      <3>1. PICK m : m = [k EXCEPT !.pc = "fetch"] /\ Moves(c, m)
        BY <1>7, <2>2, <2>5 DEF Lookup, Cached, Moves
      <3>2. /\ DOMAIN m = Fields /\ m.triggers = k.triggers /\ m.todo = k.todo /\ m.before = k.before
            /\ m.pc = "fetch"
        BY <1>0, <3>1 DEF Fields
      <3>3. QED
        BY <2>1, <3>1, <3>2, GuideAside
    <2>6. QED
      BY <2>4, <2>5
  <1>8. CASE EmbedExamples(c)
    <2>1. PICK type : type = Head(k.todo)
      OBVIOUS
    <2>2. k.pc = "fetch" /\ input' = input /\ cache' = [cache EXCEPT ![type] = Phrases(c, type)]
          /\ NextType(c, WithTrigger(c, type, Phrases(c, type)))
      BY <1>8, <2>1 DEF EmbedExamples
    <2>3. type \in Range(EventTypes(c)) /\ type \in DOMAIN cache
      BY <1>6, <2>1, <2>2
    <2>4. WithTrigger(c, type, Phrases(c, type)) \in Seq(Grounded(c))
      BY <2>2, <2>3, TriggersGrounded
    <2>5. DOMAIN cache' = DOMAIN cache
      BY <2>2
    <2>6. ASSUME NEW t \in DOMAIN cache PROVE IsCached(t)'
      <3>1. EventTypes(c)' = EventTypes(c) /\ Phrases(c, t)' = Phrases(c, t)
        BY <2>2, SameCases
      <3>2. CASE t = type
        BY <2>2, <2>3, <3>1, <3>2 DEF IsCached
      <3>3. CASE t # type
        <4>1. cache'[t] = cache[t] /\ IsCached(t)
          BY <2>2, <3>3 DEF GuideInv
        <4>2. QED
          BY <2>2, <4>1, SameCases DEF IsCached
      <3>4. QED
        BY <3>2, <3>3
    <2>7. QED
      BY <2>2, <2>4, <2>5, <2>6, GuideNext
  <1>9. CASE ExamplesFail(c)
    <2>1. k.pc = "fetch" /\ NextType(c, k.triggers) /\ input' = input /\ cache' = cache
      BY <1>9 DEF ExamplesFail
    <2>2. k.triggers \in Seq(Grounded(c))
      BY <1>0 DEF Guided
    <2>3. DOMAIN cache' = DOMAIN cache /\ \A t \in DOMAIN cache : IsCached(t)'
      BY <2>1, SameCache
    <2>4. QED
      BY <2>1, <2>2, <2>3, GuideNext
  <1>10. ASSUME NEW answer, ChatAnswers(c, answer) PROVE GuideInv'
    <2>1. PICK m, result : /\ m = [k EXCEPT !.pc = "done", !.timer = Stopped(@), !.result = result]
                           /\ Moves(c, m)
      BY <1>0, <1>10 DEF ChatAnswers, Returning, Moves
    <2>2. /\ DOMAIN m = Fields /\ m.triggers = k.triggers /\ m.todo = k.todo /\ m.before = k.before /\ m.pc = "done"
      BY <1>0, <2>1 DEF Fields
    <2>3. QED
      BY <1>10, <2>1, <2>2, GuideAside DEF ChatAnswers
  <1>11. CASE ChatFails(c)
    <2>1. PICK reason : Fail(c, reason) /\ input' = input /\ cache' = cache /\ k.pc = "chat"
      BY <1>11, Zenon DEF ChatFails
    <2>2. PICK m : /\ m = [k EXCEPT !.pc = "failed", !.timer = Stopped(@), !.error = Reason(c, reason)]
                   /\ Moves(c, m)
      BY <2>1 DEF Fail, Moves
    <2>3. /\ DOMAIN m = Fields /\ m.triggers = k.triggers /\ m.todo = k.todo /\ m.before = k.before /\ m.pc = "failed"
      BY <1>0, <2>2 DEF Fields
    <2>4. QED
      BY <2>1, <2>2, <2>3, GuideAside
  <1>12. QED
    BY <1>1, <1>2, <1>3, <1>4, <1>5, <1>7, <1>8, <1>9, <1>10, <1>11 DEF Step

LEMMA GuideSteps == GuideInv /\ TimedInv /\ [Next]_vars => GuideInv'
  <1> SUFFICES ASSUME GuideInv, TimedInv, [Next]_vars PROVE GuideInv'
    OBVIOUS
  <1>1. CASE UNCHANGED vars
    <2>1. /\ \A c : Grounded(c)' = Grounded(c) /\ EventTypes(c)' = EventTypes(c)
          /\ \A type \in DOMAIN cache : IsCached(type)'
      BY <1>1, SameGrounded, SameCases, SameCache DEF vars, ReadBack
    <2>2. QED
      BY <1>1, <2>1 DEF vars, GuideInv, Guided
  <1>2. QED
    BY <1>1, GuideStep DEF Next

(* What the prompt says of an event type rests on phrases of the tenant's  *)
(* own pack and names the turn nearest to one of them, whatever other      *)
(* calls have put in the shared cache, unless they define the type         *)
(* otherwise.                                                              *)
THEOREM GuidanceGrounded == Spec => []GuidanceIsGrounded
  <1>1. GuideInv => GuidanceIsGrounded
    <2> SUFFICES ASSUME GuideInv, NEW c \in Calls, NEW trigger \in formatSemanticTriggerSection(c),
                        DefinedAlike(trigger.type)
                 PROVE  IsGrounded(c, trigger)
      BY DEF GuidanceIsGrounded
    <2>1. trigger \in Range(call[c].triggers)
      BY DEF formatSemanticTriggerSection, Range
    <2>2. call[c].triggers \in Seq(Grounded(c))
      BY DEF GuideInv, Guided
    <2>3. trigger \in Grounded(c)
      BY <2>1, <2>2 DEF Range
    <2>4. QED
      BY <2>3 DEF Grounded
  <1>2. QED
    BY <1>1, GuideInit, GuideSteps, TimedInit, TimedSteps, PTL DEF Spec
-----------------------------------------------------------------------------
(* An analysis that is VERIFIED, its assignments as they were resolved.    *)
Sound(result, assignments, pack) ==
    result.review.state = "VERIFIED" =>
        /\ HasEligibleTurn(assignments)
        /\ \A m \in Range(result.moments) :
              /\ m.evidence # << >> /\ m.confidence >= pack.minMoment
              /\ \A e \in Range(m.evidence) : \E i \in DOMAIN assignments :
                    assignments[i].id = e.id /\ assignments[i].eligibleForKeyMoments
        /\ \A a \in Range(result.aspects) : \A e \in Range(a.evidence) :
              \E i \in DOMAIN assignments :
                  assignments[i].id = e.id /\ assignments[i].eligibleForSentiment
        /\ result.sentiment # None => result.sentiment.confidence >= pack.minSentiment

Confident(sentiment) == sentiment # None => "confidence" \in DOMAIN sentiment /\ sentiment.confidence \in Nat
Supports(found) ==
    \A i \in DOMAIN found : /\ {"evidence", "confidence"} \subseteq DOMAIN found[i]
                              /\ found[i].confidence \in Nat /\ DOMAIN found[i].evidence # {}
ExtractionForm(x) ==
    /\ DOMAIN x = {"sentiment", "aspects", "events", "moments", "summary", "review"}
    /\ DOMAIN x.review = {"state", "reasons"}
    /\ Confident(x.sentiment) /\ Supports(x.moments)
AnalysisFields == {"sentiment", "aspects", "events", "moments", "mapped", "assignments", "confidence",
                   "summary", "review"}

(* Nothing an analyst has to look at was found.                            *)
LEMMA VerifiedMeans ==
  ASSUME NEW a, NEW pack, DOMAIN a = AnalysisFields, DOMAIN a.review = {"state", "reasons"},
         verifyAnalysis(a, pack).review.state = "VERIFIED"
  PROVE  ReasonsFor(a, pack) = {}
  <1> DEFINE r == ReasonsFor(a, pack)
             v == verifyAnalysis(a, pack)
             b == [a EXCEPT !.review = [a.review EXCEPT !.reasons = r]]
             state == IF r # {} THEN "NEEDS_REVIEW" ELSE a.review.state
  <1>1. v = [b EXCEPT !.review = [b.review EXCEPT !.state = state]]
    BY DEF verifyAnalysis
  <1> HIDE DEF r, v, state
  <1>2. DOMAIN b = AnalysisFields /\ b.review = [a.review EXCEPT !.reasons = r]
    BY DEF AnalysisFields
  <1> HIDE DEF b
  <1>3. v.review = [b.review EXCEPT !.state = state] /\ DOMAIN b.review = {"state", "reasons"}
    BY <1>1, <1>2 DEF AnalysisFields
  <1>4. v.review.state = state
    BY <1>3
  <1>5. QED
    BY <1>4 DEF r, v, state

LEMMA VerifiedKeeps ==
  ASSUME NEW a, NEW pack, DOMAIN a = AnalysisFields
  PROVE  LET v == verifyAnalysis(a, pack)
         IN  v.moments = a.moments /\ v.aspects = a.aspects /\ v.sentiment = a.sentiment
  BY DEF verifyAnalysis, AnalysisFields

(* A turn that is known by its id has an assignment.                       *)
LEMMA TurnIsAssigned ==
  ASSUME NEW assignments, IsList(assignments), NEW id, assignmentForTurn(assignments, id) # None
  PROVE  \E i \in DOMAIN assignments :
            assignments[i].id = id /\ assignmentForTurn(assignments, id) = assignments[i]
  <1> DEFINE I == {i \in 1..Len(assignments) : assignments[i].id = id}
             first == IF I # {} THEN Min(I) ELSE 0
  <1>1. assignmentForTurn(assignments, id) = IF first = 0 THEN None ELSE assignments[first]
    BY DEF assignmentForTurn, SelectInSeq
  <1>2. I # {} /\ I \in SUBSET Nat
    BY <1>1
  <1>3. Min(I) \in I
    BY <1>2, MinOf
  <1>4. PICK n : n = Min(I)
    OBVIOUS
  <1>5. n \in 1..Len(assignments) /\ assignments[n].id = id /\ n # 0
    BY <1>3, <1>4
  <1>6. assignmentForTurn(assignments, id) = assignments[n]
    BY <1>1, <1>2, <1>4, <1>5
  <1>7. DOMAIN assignments = 1..Len(assignments)
    BY DEF IsList
  <1>8. QED
    BY <1>5, <1>6, <1>7

LEMMA QuotesAreEligible ==
  ASSUME NEW a, IsList(a.assignments), NEW item, NEW roles, EvidenceReasons(item, a, roles) = {},
         NEW e \in Range(item.evidence)
  PROVE  \E i \in DOMAIN a.assignments : a.assignments[i].id = e.id /\ a.assignments[i].role \in roles
  <1> DEFINE turn == assignmentForTurn(a.assignments, e.id)
  <1>1. turn # None
    BY DEF EvidenceReasons
  <1>2. turn.role \in roles
    BY <1>1 DEF EvidenceReasons
  <1>3. QED
    BY <1>1, <1>2, TurnIsAssigned

LEMMA DecodedForm ==
  ASSUME NEW x, ExtractionForm(x), NEW map
  PROVE  LET d == decodeExtraction(x, map)
         IN  ExtractionForm(d) /\ d.review = x.review
  <1> DEFINE found == DecodeEvidence(x.moments, map)
             d == decodeExtraction(x, map)
  <1>1. /\ DOMAIN d = DOMAIN x /\ d.review = x.review /\ d.sentiment = x.sentiment
        /\ d.moments = found
    BY DEF decodeExtraction, ExtractionForm
  <1>2. DOMAIN found = DOMAIN x.moments
    BY DEF DecodeEvidence
  <1>3. ASSUME NEW i \in DOMAIN x.moments
        PROVE  /\ {"evidence", "confidence"} \subseteq DOMAIN found[i]
               /\ found[i].confidence \in Nat /\ DOMAIN found[i].evidence # {}
    <2>1. PICK m, quotes : m = x.moments[i] /\ quotes = [k \in DOMAIN m.evidence |->
                                    [m.evidence[k] EXCEPT !.quote = decode(m.evidence[k].quote, map)]]
      OBVIOUS
    <2>2. found[i] = [m EXCEPT !.evidence = quotes]
      BY <2>1 DEF DecodeEvidence
    <2>3. {"evidence", "confidence"} \subseteq DOMAIN m /\ m.confidence \in Nat /\ DOMAIN m.evidence # {}
      BY <2>1 DEF ExtractionForm, Supports
    <2>4. DOMAIN quotes # {}
      BY <2>1, <2>3
    <2>5. QED
      BY <2>2, <2>3, <2>4
  <1> HIDE DEF found
  <1>4. Supports(found)
    BY <1>2, <1>3 DEF Supports
  <1>5. QED
    BY <1>1, <1>4 DEF ExtractionForm

LEMMA ScoredIsConfident ==
  ASSUME NEW sentiment, Confident(sentiment), NEW scoring, NEW engagement, NEW cues
  PROVE  Confident(applySupportSentimentCueAdjustments(
                       enrichOverallSentimentScore(sentiment, scoring, engagement), engagement, cues))
  <1>1. PICK s : s = enrichOverallSentimentScore(sentiment, scoring, engagement)
    OBVIOUS
  <1>2. Confident(s)
    <2>1. CASE sentiment = None
      BY <1>1, <2>1 DEF enrichOverallSentimentScore, Confident
    <2>2. CASE sentiment # None
      <3>1. PICK score : s = [sentiment EXCEPT !.score = score]
        BY <1>1, <2>2 DEF enrichOverallSentimentScore
      <3>2. QED
        BY <2>2, <3>1 DEF Confident
    <2>3. QED
      BY <2>1, <2>2
  <1>3. PICK t : t = applySupportSentimentCueAdjustments(s, engagement, cues)
    OBVIOUS
  <1>4. t = s \/ (s # None /\ \E score : t = [s EXCEPT !.score = score])
    BY <1>3 DEF applySupportSentimentCueAdjustments
  <1>5. Confident(t)
    BY <1>2, <1>4 DEF Confident
  <1>6. QED
    BY <1>1, <1>3, <1>5

(* The assignments of a call, as the pack decides what they are good for.  *)
Resolved(assignments, pack) ==
    /\ IsList(assignments)
    /\ \A i \in DOMAIN assignments : LET a == assignments[i] IN
           /\ DOMAIN a = {"id", "name", "role", "confidence", "eligibleForSentiment", "eligibleForKeyMoments"}
           /\ a.eligibleForSentiment <=> a.role \in pack.sentimentRoles
           /\ a.eligibleForKeyMoments <=> a.role \in pack.keyMomentRoles

LEMMA NamesAreAssigned ==
  ASSUME NEW assignments, NEW pack, Resolved(assignments, pack), NEW map
  PROVE  LET names == decodeSpeakerAssignments(assignments, map)
         IN  /\ IsList(names) /\ DOMAIN names = DOMAIN assignments
             /\ \A i \in DOMAIN names : /\ names[i].id = assignments[i].id
                                        /\ names[i].role = assignments[i].role
  <1> DEFINE names == decodeSpeakerAssignments(assignments, map)
  <1>1. PICK n \in Nat : DOMAIN assignments = 1..n
    BY DEF Resolved, IsList
  <1>2. DOMAIN names = 1..n /\ names = [i \in 1..n |-> names[i]]
    BY <1>1 DEF decodeSpeakerAssignments
  <1>3. IsList(names)
    <2> HIDE DEF names
    <2>1. QED
      BY <1>2, LenIs
  <1>4. ASSUME NEW i \in DOMAIN names
        PROVE  names[i].id = assignments[i].id /\ names[i].role = assignments[i].role
    <2>1. i \in DOMAIN assignments
      BY <1>1, <1>2
    <2>2. PICK name : names[i] = [assignments[i] EXCEPT !.name = name]
      BY <2>1 DEF decodeSpeakerAssignments
    <2>3. QED
      BY <2>1, <2>2 DEF Resolved
  <1>5. QED
    BY <1>1, <1>2, <1>3, <1>4

(* What follows the engine's answer: an analysis is VERIFIED only if it    *)
(* rests on turns that the pack scores, with the confidence it asks for.   *)
LEMMA AssembledSound ==
  ASSUME NEW x, ExtractionForm(x), NEW assignments, NEW pack, Resolved(assignments, pack),
         HasEligibleTurn(assignments) \/ x.review.reasons # {},
         pack.minMoment \in Nat, pack.minSentiment \in Nat,
         NEW cues, NEW engagement, NEW scoring, NEW map
  PROVE  Sound(assembleAnalysis(x, assignments, cues, engagement, scoring, map, pack), assignments, pack)
  <1>1. PICK d : d = IF map = << >> THEN x ELSE decodeExtraction(x, map)
    OBVIOUS
  <1>2. ExtractionForm(d) /\ d.review = x.review
    BY <1>1, DecodedForm
  <1>3. PICK names : names = IF map = << >> THEN assignments ELSE decodeSpeakerAssignments(assignments, map)
    OBVIOUS
  <1>4. /\ IsList(names) /\ DOMAIN names = DOMAIN assignments
        /\ \A i \in DOMAIN names : names[i].id = assignments[i].id /\ names[i].role = assignments[i].role
    <2>1. CASE map = << >>
      BY <1>3, <2>1 DEF Resolved
    <2>2. CASE map # << >>
      BY <1>3, <2>2, NamesAreAssigned
    <2>3. QED
      BY <2>1, <2>2
  <1>5. PICK sentiment : sentiment = applySupportSentimentCueAdjustments(
                             enrichOverallSentimentScore(d.sentiment, scoring, engagement), engagement, cues)
    OBVIOUS
  <1>6. Confident(sentiment)
    BY <1>2, <1>5, ScoredIsConfident DEF ExtractionForm
  <1>7. PICK a : a = [sentiment |-> sentiment, aspects |-> d.aspects, events |-> d.events,
                      moments |-> d.moments, mapped |-> mapTenantEvents(d.events, pack),
                      assignments |-> names, confidence |-> averageConfidence(names),
                      summary |-> d.summary, review |-> d.review]
    OBVIOUS
  <1>8. assembleAnalysis(x, assignments, cues, engagement, scoring, map, pack) = verifyAnalysis(a, pack)
    BY <1>1, <1>3, <1>5, <1>7 DEF assembleAnalysis
  <1>9. /\ DOMAIN a = AnalysisFields /\ a.sentiment = sentiment /\ a.moments = d.moments
        /\ a.aspects = d.aspects /\ a.assignments = names /\ a.review = d.review
    BY <1>7 DEF AnalysisFields
  <1>10. DOMAIN a.review = {"state", "reasons"} /\ Supports(a.moments)
    BY <1>2, <1>9 DEF ExtractionForm
  <1>11. PICK v : v = verifyAnalysis(a, pack)
    OBVIOUS
  <1> SUFFICES ASSUME v.review.state = "VERIFIED" PROVE Sound(v, assignments, pack)
    BY <1>8, <1>11 DEF Sound
  <1>12. ReasonsFor(a, pack) = {}
    BY <1>9, <1>10, <1>11, VerifiedMeans
  <1>13. /\ a.review.reasons = {} /\ SentimentReasons(a, pack) = {}
         /\ AspectReasons(a, pack) = {} /\ MomentReasons(a, pack) = {}
    BY <1>12 DEF ReasonsFor
  <1>14. v.moments = a.moments /\ v.aspects = a.aspects /\ v.sentiment = sentiment
    BY <1>9, <1>11, VerifiedKeeps
  <1>15. HasEligibleTurn(assignments)
    BY <1>2, <1>9, <1>13
  <1>16. ASSUME NEW m \in Range(v.moments)
         PROVE  /\ m.evidence # << >> /\ m.confidence >= pack.minMoment
                /\ \A e \in Range(m.evidence) : \E i \in DOMAIN assignments :
                      assignments[i].id = e.id /\ assignments[i].eligibleForKeyMoments
    <2>1. m \in Range(a.moments)
      BY <1>14
    <2>2. m.confidence \in Nat /\ DOMAIN m.evidence # {}
      BY <1>10, <2>1 DEF Range, Supports
    <2>3. m.evidence # << >>
      BY <2>2
    <2>4. /\ {<<"moment confidence", m.type>> : y \in {z \in {m.confidence} : z < pack.minMoment}} = {}
          /\ EvidenceReasons(m, a, pack.keyMomentRoles) = {}
      <3> DEFINE Weak(n) == {<<"moment confidence", n.type>> : y \in {z \in {n.confidence} : z < pack.minMoment}}
                 Rest(n) == {<<"moment actor", n.type>> : y \in {n.actor} \ pack.keyMomentRoles}
                 Thin(n) == {<<"moment evidence", n.type>> :
                                y \in {z \in {n.impact} \cap HighImpact :
                                          Len(n.evidence) < pack.minHighImpactEvidence}}
                 Of(n) == Weak(n) \cup Rest(n) \cup Thin(n) \cup EvidenceReasons(n, a, pack.keyMomentRoles)
      <3>1. MomentReasons(a, pack) = UNION {Of(n) : n \in Range(a.moments)}
        BY DEF MomentReasons
      <3> HIDE DEF Weak, Rest, Thin
      <3>2. Of(m) = {}
        <4> HIDE DEF Of
        <4>1. QED
          BY <1>13, <2>1, <3>1, ZenonT(90)
      <3>3. Weak(m) = {} /\ EvidenceReasons(m, a, pack.keyMomentRoles) = {}
        BY <3>2
      <3>4. QED
        BY <3>3 DEF Weak
    <2>5. ~(m.confidence < pack.minMoment)
      BY <2>4
    <2>6. ASSUME NEW e \in Range(m.evidence)
          PROVE  \E i \in DOMAIN assignments : assignments[i].id = e.id /\ assignments[i].eligibleForKeyMoments
      <3>1. IsList(a.assignments)
        BY <1>4, <1>9
      <3>2. EvidenceReasons(m, a, pack.keyMomentRoles) = {}
        BY <2>4, Zenon
      <3>3. PICK i \in DOMAIN a.assignments :
                a.assignments[i].id = e.id /\ a.assignments[i].role \in pack.keyMomentRoles
        BY <3>1, <3>2, QuotesAreEligible
      <3>4. QED
        BY <1>4, <1>9, <3>3 DEF Resolved
    <2>7. QED
      BY <2>2, <2>3, <2>5, <2>6
  <1>17. ASSUME NEW aspect \in Range(v.aspects), NEW e \in Range(aspect.evidence)
         PROVE  \E i \in DOMAIN assignments :
                    assignments[i].id = e.id /\ assignments[i].eligibleForSentiment
    <2>1. EvidenceReasons(aspect, a, pack.sentimentRoles) = {}
      <3> DEFINE Weak(n) == {<<"aspect confidence", n.target>> : y \in {z \in {n.confidence} : z < pack.minAspect}}
                 Of(n) == Weak(n) \cup EvidenceReasons(n, a, pack.sentimentRoles)
      <3>1. AspectReasons(a, pack) = UNION {Of(n) : n \in Range(a.aspects)}
        BY DEF AspectReasons
      <3> HIDE DEF Weak
      <3>2. Of(aspect) = {}
        <4> HIDE DEF Of
        <4>1. QED
          BY <1>13, <1>14, <3>1, ZenonT(90)
      <3>3. QED
        BY <3>2
    <2>2. IsList(a.assignments)
      BY <1>4, <1>9
    <2>3. PICK i \in DOMAIN a.assignments :
              a.assignments[i].id = e.id /\ a.assignments[i].role \in pack.sentimentRoles
      BY <2>1, <2>2, QuotesAreEligible
    <2>4. QED
      BY <1>4, <1>9, <2>3 DEF Resolved
  <1>18. v.sentiment # None => v.sentiment.confidence >= pack.minSentiment
    <2> SUFFICES ASSUME sentiment # None PROVE sentiment.confidence >= pack.minSentiment
      BY <1>14
    <2>1. {y \in {a.sentiment.confidence} : y < pack.minSentiment} = {}
      BY <1>9, <1>13 DEF SentimentReasons
    <2>2. sentiment.confidence \in Nat
      BY <1>6 DEF Confident
    <2>3. QED
      BY <1>9, <2>1, <2>2
  <1>19. QED
    BY <1>15, <1>16, <1>17, <1>18 DEF Sound

(* The items of an answer once the model has quoted the turns of the       *)
(* prompt.                                                                 *)
Quoted(items) ==
    /\ IsList(items)
    /\ \A item \in Range(items) : /\ {"evidence", "confidence"} \subseteq DOMAIN item
                                  /\ IsList(item.evidence) /\ item.confidence \in Nat \cup {Bad}

LEMMA QuotingKeeps ==
  ASSUME NEW c, NEW items, AnswerItems(items)
  PROVE  LET quoted == Quoting(c, items)
         IN  /\ Quoted(quoted) /\ DOMAIN quoted = DOMAIN items
             /\ \A i \in DOMAIN items : /\ quoted[i].confidence = items[i].confidence
                                        /\ DOMAIN quoted[i].evidence = DOMAIN items[i].evidence
  <1> DEFINE quoted == Quoting(c, items)
  <1>1. DOMAIN items = 1..Len(items) /\ Len(items) \in Nat
    BY DEF AnswerItems, IsList
  <1>2. DOMAIN quoted = 1..Len(items) /\ quoted = [i \in 1..Len(items) |-> quoted[i]]
    BY <1>1 DEF Quoting
  <1>3. ASSUME NEW i \in DOMAIN items
        PROVE  /\ {"evidence", "confidence"} \subseteq DOMAIN quoted[i]
               /\ quoted[i].confidence = items[i].confidence /\ items[i].confidence \in Nat \cup {Bad}
               /\ DOMAIN quoted[i].evidence = DOMAIN items[i].evidence
               /\ IsList(quoted[i].evidence)
    <2>1. PICK item, quotes :
              /\ item = items[i]
              /\ quotes = [k \in DOMAIN item.evidence |-> Evidence(c, item.evidence[k])]
      OBVIOUS
    <2>2. quoted[i] = [item EXCEPT !.evidence = quotes]
      BY <2>1 DEF Quoting
    <2>3. /\ {"evidence", "confidence"} \subseteq DOMAIN item /\ IsList(item.evidence)
          /\ item.confidence \in Nat \cup {Bad}
      BY <2>1 DEF AnswerItems, Range
    <2>4. DOMAIN item.evidence = 1..Len(item.evidence) /\ Len(item.evidence) \in Nat
      BY <2>3 DEF IsList
    <2>5. DOMAIN quotes = 1..Len(item.evidence) /\ quotes = [k \in 1..Len(item.evidence) |-> quotes[k]]
      BY <2>1, <2>4
    <2>6. IsList(quotes)
      BY <2>4, <2>5, LenIs
    <2>7. /\ {"evidence", "confidence"} \subseteq DOMAIN quoted[i]
          /\ quoted[i].evidence = quotes /\ quoted[i].confidence = item.confidence
      BY <2>2, <2>3
    <2>8. QED
      BY <2>1, <2>3, <2>4, <2>5, <2>6, <2>7
  <1> HIDE DEF quoted
  <1>4. IsList(quoted)
    BY <1>1, <1>2, LenIs
  <1>5. Quoted(quoted)
    BY <1>1, <1>2, <1>3, <1>4 DEF Quoted, Range
  <1>6. QED
    BY <1>1, <1>2, <1>3, <1>5 DEF quoted

LEMMA CompletedSupports ==
  ASSUME NEW items, Quoted(items), NEW types, NEW turns
  PROVE  Supports(CompletedItems(Supported(items, types), turns))
  <1>1. PICK some : some = Supported(items, types)
    OBVIOUS
  <1>2. IsList(some) /\ Range(some) \subseteq Range(items)
    BY <1>1, KeptIsList DEF Supported, Quoted
  <1>3. PICK full : full = CompletedItems(some, turns)
    OBVIOUS
  <1>4. DOMAIN full = DOMAIN some /\ \A i \in DOMAIN some : full[i] = Completed(some[i], turns)
    BY <1>3 DEF CompletedItems
  <1>5. ASSUME NEW i \in DOMAIN some
        PROVE  LET m == Completed(some[i], turns)
               IN  /\ {"evidence", "confidence"} \subseteq DOMAIN m
                   /\ m.confidence \in Nat /\ DOMAIN m.evidence # {}
    <2>1. PICK item : item = some[i]
      OBVIOUS
    <2>2. IsList(item.evidence) /\ item.confidence \in Nat \cup {Bad}
      BY <1>2, <2>1 DEF Quoted, Range
    <2>3. PICK actor : actor = Caught(item.actor, "END_USER")
      OBVIOUS
    <2>4. PICK fallback : fallback = buildFallbackEvidence(actor, turns, item.start)
      OBVIOUS
    <2>5. DOMAIN fallback # {}
      <3>1. \E quote : fallback = <<quote>>
        BY <2>4 DEF buildFallbackEvidence
      <3>2. QED
        BY <3>1
    <2>6. PICK evidence : evidence = IF item.evidence # << >> THEN item.evidence ELSE fallback
      OBVIOUS
    <2>7. DOMAIN evidence # {}
      <3>1. CASE item.evidence # << >>
        <4>1. PICK s \in Seq(Range(item.evidence)) : s = item.evidence
          BY <2>2 DEF IsList
        <4>2. Len(s) # 0 /\ DOMAIN s = 1..Len(s) /\ Len(s) \in Nat
          BY <3>1, <4>1
        <4>3. QED
          <5>1. 1 \in DOMAIN s
            BY <4>2
          <5>2. QED
            BY <2>6, <3>1, <4>1, <5>1
      <3>2. CASE item.evidence = << >>
        BY <2>5, <2>6, <3>2
      <3>3. QED
        BY <3>1, <3>2
    <2>8. Caught(item.confidence, 70) \in Nat
      BY <2>2 DEF Caught
    <2>9. Completed(item, turns) = [type |-> item.type, actor |-> actor,
                                    confidence |-> Caught(item.confidence, 70),
                                    impact |-> Caught(item.impact, "MEDIUM"), evidence |-> evidence]
      BY <2>3, <2>4, <2>6 DEF Completed
    <2>10. QED
      BY <2>1, <2>7, <2>8, <2>9
  <1>6. Supports(full)
    BY <1>4, <1>5 DEF Supports
  <1>7. QED
    BY <1>1, <1>3, <1>6

(* Whatever the model answers, in JSON mode or in structured mode: a key   *)
(* moment of the extraction has evidence and a confidence.                 *)
LEMMA ExtractionIs ==
  ASSUME NEW c, Given(c) \in Range(Cases), NEW answer \in Given(c).answers, Usable(c, answer)
  PROVE  ExtractionForm(ExtractionOf(c, answer))
  <1>1. PICK p : p = answer.payload
    OBVIOUS
  <1>2. AnswerForm(p)
    BY <1>1 DEF CaseForm
  <1>3. PICK aspects, events, found :
            /\ aspects = Quoting(c, p.aspects) /\ events = Quoting(c, p.events)
            /\ found = Quoting(c, p.moments)
    OBVIOUS
  <1>4. /\ Quoted(found) /\ DOMAIN found = DOMAIN p.moments
        /\ \A i \in DOMAIN p.moments : /\ found[i].confidence = p.moments[i].confidence
                                       /\ DOMAIN found[i].evidence = DOMAIN p.moments[i].evidence
    BY <1>2, <1>3, QuotingKeeps DEF AnswerForm
  <1>5. PICK q : q = [p EXCEPT !.aspects = aspects, !.events = events, !.moments = found]
    OBVIOUS
  <1>6. q.moments = found /\ q.sentiment = p.sentiment
    BY <1>2, <1>5 DEF AnswerForm
  <1>7. MeetsSchema(p) /\ (p.sentiment # None => p.sentiment.confidence \in Nat)
    <2>1. MeetsSchema(p)
      BY <1>1 DEF Usable, MeetsLlmSchema, AnswerIsUsable
    <2>2. QED
      BY <1>2, <2>1 DEF MeetsSchema, AnswerForm
  <1>8. CASE Given(c).structured
    <2>1. PICK x : x = normalizeLlmExtraction(q)
      OBVIOUS
    <2>2. ExtractionOf(c, answer) = x
      BY <1>1, <1>3, <1>5, <1>8, <2>1 DEF ExtractionOf
    <2>3. /\ DOMAIN x = {"sentiment", "aspects", "events", "moments", "summary", "review"}
          /\ DOMAIN x.review = {"state", "reasons"} /\ x.moments = found
      BY <1>6, <2>1 DEF normalizeLlmExtraction
    <2>4. Confident(x.sentiment)
      <3>1. x.sentiment = None \/ \E polarity, intensity, score :
                x.sentiment = [polarity |-> polarity, intensity |-> intensity,
                               confidence |-> p.sentiment.confidence, score |-> score] /\ p.sentiment # None
        BY <1>6, <2>1 DEF normalizeLlmExtraction
      <3>2. CASE x.sentiment = None
        BY <3>2 DEF Confident
      <3>3. CASE x.sentiment # None
        <4>1. PICK polarity, intensity, score :
                  /\ x.sentiment = [polarity |-> polarity, intensity |-> intensity,
                                    confidence |-> p.sentiment.confidence, score |-> score]
                  /\ p.sentiment # None
          BY <3>1, <3>3
        <4>2. "confidence" \in DOMAIN x.sentiment /\ x.sentiment.confidence = p.sentiment.confidence
          BY <4>1
        <4>3. QED
          BY <1>7, <4>1, <4>2 DEF Confident
      <3>4. QED
        BY <3>2, <3>3
    <2>5. Supports(found)
      <3>1. ASSUME NEW i \in DOMAIN found
            PROVE  /\ {"evidence", "confidence"} \subseteq DOMAIN found[i]
                   /\ found[i].confidence \in Nat /\ DOMAIN found[i].evidence # {}
        <4>1. PICK item : item = p.moments[i]
          OBVIOUS
        <4>2. item \in Range(p.moments) /\ found[i] \in Range(found)
          BY <1>4, <4>1 DEF Range
        <4>3. item.evidence # << >> /\ item.confidence # Bad
          BY <1>1, <1>8, <4>2 DEF Usable, MeetsLlmSchema
        <4>4. IsList(item.evidence) /\ item.confidence \in Nat \cup {Bad}
          BY <1>2, <4>2 DEF AnswerForm, AnswerItems
        <4>5. PICK s \in Seq(Range(item.evidence)) : s = item.evidence
          BY <4>4 DEF IsList
        <4>6. Len(s) # 0 /\ DOMAIN s = 1..Len(s) /\ Len(s) \in Nat
          BY <4>3, <4>5
        <4>7. DOMAIN item.evidence # {}
          <5>1. 1 \in DOMAIN s
            BY <4>6
          <5>2. QED
            BY <4>5, <5>1
        <4>8. QED
          BY <1>4, <4>1, <4>2, <4>3, <4>4, <4>7 DEF Quoted
      <3>2. QED
        BY <3>1 DEF Supports
    <2>6. QED
      BY <2>2, <2>3, <2>4, <2>5 DEF ExtractionForm
  <1>9. CASE ~Given(c).structured
    <2>1. PICK x : x = parseOllamaCompat(q, Lines(c), ValidTypes(c))
      OBVIOUS
    <2>2. ExtractionOf(c, answer) = x
      BY <1>1, <1>3, <1>5, <1>9, <2>1 DEF ExtractionOf
    <2>3. /\ DOMAIN x = {"sentiment", "aspects", "events", "moments", "summary", "review"}
          /\ DOMAIN x.review = {"state", "reasons"} /\ x.sentiment = ExtractedSentiment(p.sentiment)
          /\ \E turns : x.moments = CompletedItems(Supported(found, ValidTypes(c)), turns)
      BY <1>6, <2>1 DEF parseOllamaCompat
    <2>4. Confident(x.sentiment)
      <3>1. x.sentiment = None \/ \E polarity, intensity, score :
                x.sentiment = [polarity |-> polarity, intensity |-> intensity,
                               confidence |-> p.sentiment.confidence, score |-> score] /\ p.sentiment # None
        BY <2>3 DEF ExtractedSentiment
      <3>2. CASE x.sentiment = None
        BY <3>2 DEF Confident
      <3>3. CASE x.sentiment # None
        <4>1. PICK polarity, intensity, score :
                  /\ x.sentiment = [polarity |-> polarity, intensity |-> intensity,
                                    confidence |-> p.sentiment.confidence, score |-> score]
                  /\ p.sentiment # None
          BY <3>1, <3>3
        <4>2. "confidence" \in DOMAIN x.sentiment /\ x.sentiment.confidence = p.sentiment.confidence
          BY <4>1
        <4>3. QED
          BY <1>7, <4>1, <4>2 DEF Confident
      <3>4. QED
        BY <3>2, <3>3
    <2>5. Supports(x.moments)
      BY <1>4, <2>3, CompletedSupports
    <2>6. QED
      BY <2>2, <2>3, <2>4, <2>5 DEF ExtractionForm
  <1>10. QED
    BY <1>8, <1>9

(* Until a call returns it has no analysis, and while it awaits a service  *)
(* it has a turn to score; what it returns is sound.                       *)
OnTheWay == {"embed", "lookup", "fetch", "chat"}
Graded(k, pack) ==
    /\ k.pc \in OnTheWay \cup {"idle"} => k.result = None
    /\ k.pc \in OnTheWay => HasEligibleTurn(k.before.assignments)
    /\ k.result # None => Sound(k.result, k.before.assignments, pack)
GradedInv == \A c \in Calls : Graded(call[c], Given(c).pack)

LEMMA GradedMove ==
  ASSUME GuideInv, GradedInv, NEW c \in Calls, NEW m, Moves(c, m), Graded(m, Given(c).pack)
  PROVE  GradedInv'
  BY DEF GuideInv, GradedInv, Moves, Given

(* A step that leaves the analysis and the assignments alone.              *)
LEMMA GradedAside ==
  ASSUME GuideInv, GradedInv, NEW c \in Calls, NEW m, Moves(c, m),
         m.before = call[c].before, m.result = call[c].result,
         m.pc = call[c].pc \/ (call[c].pc \in OnTheWay /\ m.pc \in OnTheWay \cup Ended)
  PROVE  GradedInv'
  <1>1. Graded(call[c], Given(c).pack)
    BY DEF GradedInv
  <1>2. Graded(m, Given(c).pack)
    BY <1>1 DEF Graded, OnTheWay, Ended
  <1>3. QED
    BY <1>2, GradedMove

LEMMA GradedNext ==
  ASSUME GuideInv, GradedInv, NEW c \in Calls, call[c].pc \in {"lookup", "fetch"}, NEW triggers,
         NextType(c, triggers), input' = input
  PROVE  GradedInv'
  <1>1. DOMAIN call[c] = Fields
    BY DEF GuideInv, Guided
  <1>2. PICK m : /\ m = [call[c] EXCEPT !.triggers = triggers, !.todo = Tail(call[c].todo),
                                        !.pc = IF Tail(call[c].todo) = << >> THEN "chat" ELSE "lookup"]
                 /\ Moves(c, m)
    BY DEF NextType, Moves
  <1>3. m.before = call[c].before /\ m.result = call[c].result /\ m.pc \in OnTheWay
    BY <1>1, <1>2 DEF Fields, OnTheWay
  <1>4. QED
    BY <1>2, <1>3, GradedAside DEF OnTheWay

(* What a call that is about to return returns.                            *)
LEMMA FinishIsSound ==
  ASSUME NEW c \in Calls, input[c] \in DOMAIN Cases, NEW before, before = BeforeCase[input[c]],
         NEW x, ExtractionForm(x), HasEligibleTurn(before.assignments) \/ x.review.reasons # {}
  PROVE  Sound(Finish(c, before, x), before.assignments, Given(c).pack)
  <1>1. PICK case : case = Given(c)
    OBVIOUS
  <1>2. case \in Range(Cases) /\ before = Before(case)
    BY <1>1 DEF Given, Range, BeforeCase
  <1>3. Resolved(before.assignments, case.pack)
    <2>1. PICK assignments : assignments = Before(case).assignments
      OBVIOUS
    <2>2. /\ IsList(assignments)
          /\ \A i \in DOMAIN assignments :
                 /\ DOMAIN assignments[i] = {"id", "name", "role", "confidence", "eligibleForSentiment",
                                             "eligibleForKeyMoments"}
                 /\ assignments[i].eligibleForSentiment <=> assignments[i].role \in case.pack.sentimentRoles
                 /\ assignments[i].eligibleForKeyMoments <=> assignments[i].role \in case.pack.keyMomentRoles
      BY <1>2, <2>1, BeforeIs
    <2>3. Resolved(assignments, case.pack)
      BY <2>2 DEF Resolved
    <2>4. QED
      BY <1>2, <2>1, <2>3
  <1>4. case.pack.minMoment \in Nat /\ case.pack.minSentiment \in Nat
    BY <1>2 DEF CaseForm
  <1>5. Finish(c, before, x) = assembleAnalysis(x, before.assignments, before.cues, case.engagement,
                                                case.scoring, before.map, case.pack)
    BY <1>1 DEF Finish
  <1>6. QED
    BY <1>1, <1>3, <1>4, <1>5, AssembledSound

LEMMA EmptyIsForm == ExtractionForm(buildEmptyExtraction) /\ buildEmptyExtraction.review.reasons # {}
  <1>1. PICK x : x = buildEmptyExtraction
    OBVIOUS
  <1>2. /\ DOMAIN x = {"sentiment", "aspects", "events", "moments", "summary", "review"}
        /\ DOMAIN x.review = {"state", "reasons"} /\ x.sentiment = None /\ x.moments = << >>
        /\ x.review.reasons # {}
    BY <1>1 DEF buildEmptyExtraction
  <1>3. DOMAIN x.moments = {}
    BY <1>2
  <1>4. Confident(x.sentiment) /\ Supports(x.moments)
    BY <1>2, <1>3 DEF Confident, Supports
  <1>5. QED
    BY <1>1, <1>2, <1>4 DEF ExtractionForm

LEMMA GradedStep ==
  ASSUME TimedInv, GuideInv, GradedInv, NEW c \in Calls, Step(c) PROVE GradedInv'
  <1> DEFINE k == call[c]
  <1>0. /\ Guided(c) /\ DOMAIN k = Fields /\ input[c] \in DOMAIN Cases /\ Graded(k, Given(c).pack)
    BY DEF GuideInv, Guided, GradedInv
  <1>1. CASE Begin(c)
    <2>1. PICK local : local = [k EXCEPT !.before = BeforeCase[input[c]]]
      OBVIOUS
    <2>2. PICK m : m = Prepared(c, local) /\ Moves(c, m)
      BY <1>1, <2>1 DEF Begin, Moves
    <2>3. /\ DOMAIN local = Fields /\ local.before = BeforeCase[input[c]] /\ local.result = None
      BY <1>0, <1>1, <2>1 DEF Begin, Fields, Graded
    <2>4. CASE HasEligibleTurn(local.before.assignments)
      <3>1. m = [local EXCEPT !.pc = IF Given(c).structured THEN "chat" ELSE "embed",
                              !.timer = IF HasTimeout THEN "armed" ELSE "none"]
        BY <2>2, <2>4 DEF Prepared
      <3>2. m.result = None /\ m.before = local.before
        BY <2>3, <3>1 DEF Fields
      <3>3. Graded(m, Given(c).pack)
        BY <2>4, <3>2 DEF Graded
      <3>4. QED
        BY <2>2, <3>3, GradedMove
    <2>5. CASE ~HasEligibleTurn(local.before.assignments)
      <3>1. PICK result : result = Finish(c, local.before, buildEmptyExtraction)
        OBVIOUS
      <3>2. m = [local EXCEPT !.pc = "done", !.timer = Stopped(@), !.result = result]
        BY <2>2, <2>5, <3>1 DEF Prepared, Returning
      <3>3. m.pc = "done" /\ m.result = result /\ m.before = local.before
        BY <2>3, <3>2 DEF Fields
      <3>4. Sound(result, local.before.assignments, Given(c).pack)
        BY <1>0, <2>3, <3>1, EmptyIsForm, FinishIsSound
      <3>5. Graded(m, Given(c).pack)
        BY <3>3, <3>4 DEF Graded, OnTheWay
      <3>6. QED
        BY <2>2, <3>5, GradedMove
    <2>6. QED
      BY <2>4, <2>5
  <1>2. CASE TimerFires(c)
    <2>1. PICK m : m = [k EXCEPT !.timer = "fired"] /\ Moves(c, m)
      BY <1>2 DEF TimerFires, Moves
    <2>2. m.before = k.before /\ m.result = k.result /\ m.pc = k.pc
      BY <1>0, <2>1 DEF Fields
    <2>3. QED
      BY <2>1, <2>2, GradedAside
  <1>3. CASE Abort(c)
    <2>1. PICK m : m = [k EXCEPT !.aborted = TRUE] /\ Moves(c, m)
      BY <1>3 DEF Abort, Moves
    <2>2. m.before = k.before /\ m.result = k.result /\ m.pc = k.pc
      BY <1>0, <2>1 DEF Fields
    <2>3. QED
      BY <2>1, <2>2, GradedAside
  <1>4. CASE EmbedTurns(c)
    <2>1. PICK todo : todo = TypesWithPhrases(c)
      OBVIOUS
    <2>2. PICK m : /\ m = [k EXCEPT !.todo = todo, !.pc = IF todo = << >> THEN "chat" ELSE "lookup"]
                   /\ Moves(c, m)
      BY <1>0, <1>4, <2>1 DEF EmbedTurns, Moves
    <2>3. m.before = k.before /\ m.result = k.result /\ m.pc \in OnTheWay /\ k.pc \in OnTheWay
      BY <1>0, <1>4, <2>2 DEF Fields, OnTheWay, EmbedTurns
    <2>4. QED
      BY <2>2, <2>3, GradedAside
  <1>5. CASE EmbeddingFails(c)
    <2>1. PICK m : m = [k EXCEPT !.pc = "chat"] /\ Moves(c, m)
      BY <1>0, <1>5 DEF EmbeddingFails, Moves
    <2>2. m.before = k.before /\ m.result = k.result /\ m.pc \in OnTheWay /\ k.pc \in OnTheWay
      BY <1>0, <1>5, <2>1 DEF Fields, OnTheWay, EmbeddingFails
    <2>3. QED
      BY <2>1, <2>2, GradedAside
  <1>6. CASE Lookup(c)
    <2>1. CASE Cached(Head(k.todo)) # None
      BY <1>6, <2>1, GradedNext DEF Lookup
    <2>2. CASE Cached(Head(k.todo)) = None
      <3>1. PICK m : m = [k EXCEPT !.pc = "fetch"] /\ Moves(c, m)
        BY <1>0, <1>6, <2>2 DEF Lookup, Moves
      <3>2. m.before = k.before /\ m.result = k.result /\ m.pc \in OnTheWay /\ k.pc \in OnTheWay
        BY <1>0, <1>6, <3>1 DEF Fields, OnTheWay, Lookup
      <3>3. QED
        BY <3>1, <3>2, GradedAside
    <2>3. QED
      BY <2>1, <2>2
  <1>7. CASE EmbedExamples(c)
    BY <1>7, GradedNext DEF EmbedExamples
  <1>8. CASE ExamplesFail(c)
    BY <1>8, GradedNext DEF ExamplesFail
  <1>9. ASSUME NEW answer \in Given(c).answers, ChatAnswers(c, answer) PROVE GradedInv'
    <2>1. PICK x : x = ExtractionOf(c, answer)
      OBVIOUS
    <2>2. PICK result : result = Finish(c, k.before, x)
      OBVIOUS
    <2>3. PICK m : m = [k EXCEPT !.pc = "done", !.timer = Stopped(@), !.result = result] /\ Moves(c, m)
      BY <1>0, <1>9, <2>1, <2>2 DEF ChatAnswers, Returning, Moves
    <2>4. m.pc = "done" /\ m.result = result /\ m.before = k.before
      BY <1>0, <2>3 DEF Fields
    <2>5. k.pc = "chat" /\ Usable(c, answer)
      BY <1>9 DEF ChatAnswers
    <2>6. k.before = BeforeCase[input[c]] /\ HasEligibleTurn(k.before.assignments)
      BY <1>0, <2>5 DEF Guided, Graded, OnTheWay
    <2>7. Given(c) \in Range(Cases)
      BY <1>0 DEF Given, Range
    <2>8. ExtractionForm(x)
      BY <2>1, <2>5, <2>7, ExtractionIs
    <2>9. Sound(result, k.before.assignments, Given(c).pack)
      BY <1>0, <2>2, <2>6, <2>8, FinishIsSound
    <2>10. Graded(m, Given(c).pack)
      BY <2>4, <2>9 DEF Graded, OnTheWay
    <2>11. QED
      BY <2>3, <2>10, GradedMove
  <1>10. CASE ChatFails(c)
    <2>1. PICK reason : Fail(c, reason) /\ input' = input /\ k.pc = "chat"
      BY <1>10, Zenon DEF ChatFails
    <2>2. PICK m : /\ m = [k EXCEPT !.pc = "failed", !.timer = Stopped(@), !.error = Reason(c, reason)]
                   /\ Moves(c, m)
      BY <2>1 DEF Fail, Moves
    <2>3. m.before = k.before /\ m.result = k.result /\ m.pc \in Ended /\ k.pc \in OnTheWay
      BY <1>0, <2>1, <2>2 DEF Fields, OnTheWay, Ended
    <2>4. QED
      BY <2>2, <2>3, GradedAside
  <1>11. QED
    BY <1>1, <1>2, <1>3, <1>4, <1>5, <1>6, <1>7, <1>8, <1>9, <1>10 DEF Step

LEMMA GradedInit == Init => GradedInv
  BY DEF Init, GradedInv, Graded, NotBegun, OnTheWay

LEMMA GradedSteps == TimedInv /\ GuideInv /\ GradedInv /\ [Next]_vars => GradedInv'
  <1> SUFFICES ASSUME TimedInv, GuideInv, GradedInv, [Next]_vars PROVE GradedInv'
    OBVIOUS
  <1>1. CASE UNCHANGED vars
    BY <1>1 DEF vars, GradedInv, Given
  <1>2. QED
    BY <1>1, GradedStep DEF Next

(* An analysis no analyst has to look at rests on turns whose speakers the *)
(* pack scores, with the confidence it asks for, whatever the model has    *)
(* answered, in either mode, fallback evidence and defaults included.      *)
THEOREM VerifiedGrounded == Spec => []VerifiedIsGrounded
  <1>1. GradedInv => VerifiedIsGrounded
    <2> SUFFICES ASSUME GradedInv, NEW c \in Calls, call[c].result # None
                 PROVE  Sound(call[c].result, Assignments(c), Given(c).pack)
      BY DEF VerifiedIsGrounded, Sound
    <2>1. QED
      BY DEF GradedInv, Graded, Assignments
  <1>2. QED
    BY <1>1, GradedInit, GradedSteps, GuideSteps, GuideInit, TimedInit, TimedSteps, PTL DEF Spec
-----------------------------------------------------------------------------
(* Lists that grow.                                                        *)
LEMMA ListEmpty == IsList(<< >>) /\ Len(<< >>) = 0
  BY DEF IsList

LEMMA ListIs ==
  ASSUME NEW s
  PROVE  IsList(s) <=> Len(s) \in Nat /\ s = [i \in 1..Len(s) |-> s[i]]
  <1>1. ASSUME IsList(s) PROVE Len(s) \in Nat /\ s = [i \in 1..Len(s) |-> s[i]]
    BY <1>1 DEF IsList
  <1>2. ASSUME Len(s) \in Nat, s = [i \in 1..Len(s) |-> s[i]] PROVE IsList(s)
    <2>1. DOMAIN s = 1..Len(s)
      BY <1>2
    <2>2. QED
      BY <1>2, <2>1, LenIs
  <1>3. QED
    BY <1>1, <1>2

LEMMA LenIsNat ==
  ASSUME NEW s, IsList(s) PROVE Len(s) \in Nat /\ DOMAIN s = 1..Len(s)
  BY DEF IsList

LEMMA ListAppend ==
  ASSUME NEW s, IsList(s), NEW e
  PROVE  LET t == Append(s, e)
         IN  /\ IsList(t) /\ Len(t) = Len(s) + 1 /\ t[Len(s) + 1] = e
             /\ \A i \in 1..Len(s) : t[i] = s[i]
  <1>1. PICK t : t = Append(s, e)
    OBVIOUS
  <1>2. s \in Seq(Range(s) \cup {e})
    BY SeqMonotonic DEF IsList
  <1>3. /\ Len(s) \in Nat /\ t \in Seq(Range(s) \cup {e}) /\ Len(t) = Len(s) + 1 /\ t[Len(s) + 1] = e
        /\ \A i \in 1..Len(s) : t[i] = s[i]
    BY <1>1, <1>2
  <1>4. IsList(t)
    BY <1>3, ListIs
  <1>5. QED
    BY <1>1, <1>3, <1>4

LEMMA ListConcat ==
  ASSUME NEW s, IsList(s), NEW t, IsList(t)
  PROVE  LET u == s \o t
         IN  /\ IsList(u) /\ Len(u) = Len(s) + Len(t)
             /\ \A i \in 1..Len(s) : u[i] = s[i]
             /\ \A i \in 1..Len(t) : u[Len(s) + i] = t[i]
  <1>1. PICK u : u = s \o t
    OBVIOUS
  <1>2. s \in Seq(Range(s) \cup Range(t)) /\ t \in Seq(Range(s) \cup Range(t))
    BY SeqMonotonic DEF IsList
  <1>3. /\ Len(s) \in Nat /\ Len(t) \in Nat /\ u \in Seq(Range(s) \cup Range(t)) /\ Len(u) = Len(s) + Len(t)
        /\ \A i \in 1..Len(s) : u[i] = s[i]
        /\ \A i \in 1..Len(t) : u[Len(s) + i] = t[i]
    BY <1>1, <1>2
  <1>4. IsList(u)
    BY <1>3, ListIs
  <1>5. QED
    BY <1>1, <1>3, <1>4
-----------------------------------------------------------------------------
(* What masking writes is of no kind that a rule matches: what a rule that *)
(* reaches all its matches would match is gone, and every atom was there   *)
(* before or was written by masking.                                       *)
Distinct(rules) == {rule.kind : rule \in Range(rules)} \cap WrittenByMasking(rules) = {}
From(atom, old, rules) ==
    \/ atom \in Range(old)
    \/ atom[1] \in WrittenByMasking(rules) /\ Unspaced(atom)[1] \in WrittenByMasking(rules)
Hidden(text, old, rules) ==
    \A i \in 1..Len(text) : /\ \A rule \in Range(rules) : ReachesAll(rule) => text[i][1] # rule.kind
                            /\ From(text[i], old, rules)

LEMMA RuleApart ==
  ASSUME NEW rules, Distinct(rules), NEW rule \in Range(rules)
  PROVE  rule.kind \notin WrittenByMasking(rules)
  BY DEF Distinct

LEMMA LabelIsWritten ==
  ASSUME NEW rules, NEW rule \in Range(rules), NEW old
  PROVE  From(rule.label, old, rules)
  BY DEF From, WrittenByMasking

LEMMA MaskedHides ==
  ASSUME NEW text, IsList(text), NEW rules, IsList(rules), Distinct(rules)
  PROVE  LET masked == applyMaskers(text, rules)
         IN  IsList(masked) /\ Hidden(masked, text, rules)
  <1> DEFINE n == Len(rules)
  <1>1. PICK f : f = CHOOSE h : IsRun(h, "mask", rules, text, n)
    OBVIOUS
  <1>2. applyMaskers(text, rules) = f[n]
    BY <1>1 DEF applyMaskers, IsRun, StepOf
  <1>3. n \in Nat /\ IsRun(f, "mask", rules, text, n)
    <2>1. n \in Nat
      BY LenIsNat
    <2>2. \E h : IsRun(h, "mask", rules, text, n)
      BY <2>1, RunExists
    <2>3. QED
      BY <1>1, <2>1, <2>2
  <1>4. f[0] = text /\ \A m \in 0..(n - 1) : f[m + 1] = Masked(f[m], rules[m + 1])
    <2>1. \A old, i : StepOf("mask", rules, old, i) = Masked(old, rules[i])
      BY DEF StepOf
    <2>2. \A m \in 0..(n - 1) : m + 1 \in 0..n /\ m + 1 # 0 /\ (m + 1) - 1 = m
      BY <1>3
    <2>3. \A i \in 0..n : f[i] = IF i = 0 THEN text ELSE StepOf("mask", rules, f[i - 1], i)
      BY <1>3 DEF IsRun
    <2>4. 0 \in 0..n
      BY <1>3
    <2> HIDE DEF n
    <2>5. QED
      BY <2>1, <2>2, <2>3, <2>4
  <1>5. DOMAIN rules = 1..n /\ \A k \in 1..n : rules[k] \in Range(rules)
    BY DEF IsList, Range
  <1> HIDE DEF n
  <1> DEFINE Free(atom, m) == \A k \in 1..m : ReachesAll(rules[k]) => atom[1] # rules[k].kind
             P == {m \in 0..n : /\ IsList(f[m]) /\ Len(f[m]) = Len(text)
                                /\ \A i \in 1..Len(text) : Free(f[m][i], m) /\ From(f[m][i], text, rules)}
  <1>6. 0 \in P
    <2>1. \A i \in 1..Len(text) : text[i] \in Range(text)
      BY LenIsNat DEF Range
    <2>2. QED
      BY <1>3, <1>4, <2>1 DEF From
  <1>7. ASSUME NEW m \in 0..(n - 1), m \in P PROVE m + 1 \in P
    <2>1. PICK old, new, rule : old = f[m] /\ new = f[m + 1] /\ rule = rules[m + 1]
      OBVIOUS
    <2>2. /\ IsList(old) /\ Len(old) = Len(text) /\ new = Masked(old, rule)
          /\ \A i \in 1..Len(text) : Free(old[i], m) /\ From(old[i], text, rules)
      BY <1>4, <1>7, <2>1
    <2>3. Len(old) \in Nat /\ DOMAIN old = 1..Len(old)
      BY <2>2 DEF IsList
    <2>4. /\ DOMAIN new = 1..Len(text) /\ new = [i \in 1..Len(text) |-> new[i]]
          /\ \A i \in 1..Len(text) : new[i] = IF i \in Reached(rule, old) THEN rule.label ELSE old[i]
      BY <2>2, <2>3 DEF Masked
    <2>5. IsList(new) /\ Len(new) = Len(text)
      BY <2>2, <2>3, <2>4, LenIs
    <2>6. rule \in Range(rules) /\ \A k \in 1..(m + 1) : k \in 1..n
      BY <1>3, <1>5, <2>1
    <2>7. ASSUME NEW i \in 1..Len(text) PROVE Free(new[i], m + 1) /\ From(new[i], text, rules)
      <3>1. CASE i \in Reached(rule, old)
        <4>1. PICK label : label = rule.label /\ new[i] = label
          BY <2>4, <3>1
        <4>2. label[1] \in WrittenByMasking(rules)
          BY <2>6, <4>1 DEF WrittenByMasking
        <4>3. \A k \in 1..(m + 1) : rules[k].kind \notin WrittenByMasking(rules)
          BY <1>5, <2>6, RuleApart
        <4>4. Free(label, m + 1)
          BY <4>2, <4>3
        <4>5. From(label, text, rules)
          BY <2>6, <4>1, LabelIsWritten
        <4>6. QED
          BY <4>1, <4>4, <4>5
      <3>2. CASE i \notin Reached(rule, old)
        <4>1. PICK atom : atom = old[i] /\ new[i] = atom
          BY <2>4, <3>2
        <4>2. ReachesAll(rule) => atom[1] # rule.kind
          BY <2>2, <2>3, <3>2, <4>1 DEF Reached, ReachesAll
        <4>3. \A k \in 1..(m + 1) : k \in 1..m \/ k = m + 1
          BY <1>3
        <4>4. Free(atom, m) /\ From(atom, text, rules)
          BY <2>2, <4>1
        <4>5. Free(atom, m + 1)
          BY <2>1, <4>2, <4>3, <4>4
        <4>6. QED
          BY <4>1, <4>4, <4>5
      <3>3. QED
        BY <3>1, <3>2
    <2> HIDE DEF Free
    <2>8. QED
      BY <1>3, <2>1, <2>5, <2>7
  <1> HIDE DEF P
  <1>8. n \in P
    <2>1. 0..n \subseteq P
      BY <1>3, <1>6, <1>7, RunInduction
    <2>2. QED
      BY <1>3, <2>1
  <1>9. PICK masked : masked = f[n]
    OBVIOUS
  <1>10. /\ IsList(masked) /\ Len(masked) = Len(text)
         /\ \A i \in 1..Len(text) : Free(masked[i], n) /\ From(masked[i], text, rules)
    BY <1>8, <1>9 DEF P
  <1>11. Hidden(masked, text, rules)
    BY <1>5, <1>10 DEF Hidden, Range
  <1>12. QED
    BY <1>2, <1>9, <1>10, <1>11
-----------------------------------------------------------------------------
(* A text between masking and decoding: each of its atoms is one of S, the *)
(* words of the turn it was, or belongs to a token that stands for some.   *)
Words(t, S) == IsList(t) /\ Range(t) \subseteq S
Opens(text, j) == j \in 1..Len(text) /\ text[j][1] = "open"
TokenAt(text, map, S, j) ==
    /\ j + 2 <= Len(text) /\ text[j + 2][1] = "close"
    /\ \E n \in 0..(Len(map) - 1) : text[j + 1] = <<"number", n>> /\ Words(map[n + 1], S)
PartAt(text, map, S, i) ==
    /\ Opens(text, i) => TokenAt(text, map, S, i)
    /\ text[i] \in S \/ Opens(text, i) \/ Opens(text, i - 1) \/ Opens(text, i - 2)
Parts(text, map, S) == \A i \in 1..Len(text) : PartAt(text, map, S, i)

Grows(map, longer) ==
    IsList(map) /\ IsList(longer) /\ Len(map) <= Len(longer) /\ \A i \in 1..Len(map) : longer[i] = map[i]

LEMMA GrowsOn ==
  ASSUME NEW a, NEW b, NEW c, Grows(a, b), Grows(b, c)
  PROVE  Grows(a, c)
  <1>1. Len(a) \in Nat /\ Len(b) \in Nat /\ Len(c) \in Nat
    BY LenIsNat DEF Grows
  <1>2. QED
    BY <1>1 DEF Grows

LEMMA GrowsBy ==
  ASSUME NEW map, IsList(map), NEW e
  PROVE  Grows(map, map) /\ Grows(map, Append(map, e))
  <1>1. PICK longer : longer = Append(map, e)
    OBVIOUS
  <1>2. IsList(longer) /\ Len(longer) = Len(map) + 1 /\ \A i \in 1..Len(map) : longer[i] = map[i]
    BY <1>1, ListAppend
  <1>3. Len(map) \in Nat
    BY LenIsNat
  <1>4. QED
    BY <1>1, <1>2, <1>3 DEF Grows

(* The map may grow and the words may be more.                             *)
LEMMA PartsOfMore ==
  ASSUME NEW text, IsList(text), NEW map, NEW longer, Grows(map, longer), NEW S, NEW T, S \subseteq T,
         Parts(text, map, S)
  PROVE  Parts(text, longer, T)
  <1>1. Len(text) \in Nat /\ Len(map) \in Nat /\ Len(longer) \in Nat
    BY LenIsNat DEF Grows
  <1> SUFFICES ASSUME NEW i \in 1..Len(text) PROVE PartAt(text, longer, T, i)
    BY DEF Parts
  <1>2. PartAt(text, map, S, i)
    BY DEF Parts
  <1>3. ASSUME TokenAt(text, map, S, i) PROVE TokenAt(text, longer, T, i)
    <2>1. PICK n \in 0..(Len(map) - 1) : text[i + 1] = <<"number", n>> /\ Words(map[n + 1], S)
      BY <1>3 DEF TokenAt
    <2>2. n \in 0..(Len(longer) - 1) /\ longer[n + 1] = map[n + 1]
      BY <1>1 DEF Grows
    <2>3. Words(longer[n + 1], T)
      BY <2>1, <2>2 DEF Words
    <2>4. QED
      BY <1>3, <2>1, <2>2, <2>3 DEF TokenAt
  <1>4. QED
    BY <1>2, <1>3 DEF PartAt

(* A text with no opening atom consists of its own words.                  *)
LEMMA PlainParts ==
  ASSUME NEW text, IsList(text), NEW map, "open" \notin KindsIn(text)
  PROVE  Parts(text, map, Range(text))
  <1>1. DOMAIN text = 1..Len(text)
    BY LenIsNat
  <1>2. \A i \in 1..Len(text) : text[i] \in Range(text) /\ ~Opens(text, i)
    BY <1>1 DEF Range, KindsIn, Opens
  <1>3. QED
    BY <1>2 DEF Parts, PartAt

(* The beginning of a text that has grown.                                 *)
LEMMA PartsStay ==
  ASSUME NEW text, IsList(text), NEW map, NEW S, Parts(text, map, S),
         NEW u, Len(u) \in Nat, Len(text) <= Len(u), \A i \in 1..Len(text) : u[i] = text[i]
  PROVE  \A i \in 1..Len(text) : PartAt(u, map, S, i)
  <1>1. Len(text) \in Nat
    BY LenIsNat
  <1> SUFFICES ASSUME NEW i \in 1..Len(text) PROVE PartAt(u, map, S, i)
    OBVIOUS
  <1>2. PartAt(text, map, S, i) /\ u[i] = text[i]
    BY DEF Parts
  <1>3. \A j \in {i - 2, i - 1, i} : Opens(u, j) <=> Opens(text, j)
    BY <1>1 DEF Opens
  <1>4. ASSUME TokenAt(text, map, S, i) PROVE TokenAt(u, map, S, i)
    <2>1. i + 1 \in 1..Len(text) /\ i + 2 \in 1..Len(text)
      BY <1>1, <1>4 DEF TokenAt
    <2>2. u[i + 1] = text[i + 1] /\ u[i + 2] = text[i + 2] /\ i + 2 <= Len(u)
      BY <1>1, <2>1
    <2>3. QED
      BY <1>4, <2>2 DEF TokenAt
  <1>5. QED
    BY <1>2, <1>3, <1>4 DEF PartAt

LEMMA PartsAtom ==
  ASSUME NEW text, IsList(text), NEW map, NEW S, Parts(text, map, S), NEW atom \in S, atom[1] # "open"
  PROVE  Parts(Append(text, atom), map, S)
  <1>1. PICK u : u = Append(text, atom)
    OBVIOUS
  <1>2. Len(text) \in Nat /\ Len(u) = Len(text) + 1 /\ u[Len(text) + 1] = atom
        /\ \A i \in 1..Len(text) : u[i] = text[i]
    BY <1>1, ListAppend, LenIsNat
  <1>3. \A i \in 1..Len(text) : PartAt(u, map, S, i)
    BY <1>2, PartsStay
  <1>4. PartAt(u, map, S, Len(text) + 1)
    BY <1>2 DEF PartAt, Opens
  <1>5. QED
    BY <1>1, <1>2, <1>3, <1>4 DEF Parts

(* Three atoms more, that are a token.                                     *)
LEMMA PartsToken ==
  ASSUME NEW text, IsList(text), NEW map, NEW S, Parts(text, map, S),
         NEW n \in 0..(Len(map) - 1), Len(map) \in Nat, Words(map[n + 1], S),
         NEW u, Len(u) = Len(text) + 3, \A i \in 1..Len(text) : u[i] = text[i],
         u[Len(text) + 1][1] = "open", u[Len(text) + 2] = <<"number", n>>, u[Len(text) + 3][1] = "close"
  PROVE  Parts(u, map, S)
  <1> DEFINE l == Len(text)
  <1>1. l \in Nat
    BY LenIsNat
  <1>2. \A i \in 1..l : PartAt(u, map, S, i)
    <2>1. Len(u) \in Nat /\ Len(text) <= Len(u)
      BY <1>1
    <2>2. QED
      BY <2>1, PartsStay
  <1>3. Opens(u, l + 1) /\ ~Opens(u, l + 2) /\ ~Opens(u, l + 3)
    <2>1. <<"number", n>>[1] = "number"
      OBVIOUS
    <2>2. u[l + 2][1] # "open" /\ u[l + 3][1] # "open"
      BY <2>1
    <2>3. QED
      BY <1>1, <2>2 DEF Opens
  <1>4. TokenAt(u, map, S, l + 1)
    BY <1>1 DEF TokenAt
  <1>5. PartAt(u, map, S, l + 1) /\ PartAt(u, map, S, l + 2) /\ PartAt(u, map, S, l + 3)
    BY <1>1, <1>3, <1>4 DEF PartAt
  <1>6. \A i \in 1..Len(u) : i \in 1..l \/ i \in {l + 1, l + 2, l + 3}
    BY <1>1
  <1>7. QED
    BY <1>2, <1>5, <1>6 DEF Parts

(* Words more, none of which opens a token.                                *)
Plain(u, S) == Words(u, S) /\ \A i \in 1..Len(u) : u[i][1] # "open"

LEMMA PartsPlain ==
  ASSUME NEW text, IsList(text), NEW map, NEW S, Parts(text, map, S), NEW u, Plain(u, S)
  PROVE  Parts(text \o u, map, S)
  <1>1. PICK w : w = text \o u
    OBVIOUS
  <1>2. IsList(u) /\ Len(u) \in Nat /\ Len(text) \in Nat /\ DOMAIN u = 1..Len(u)
    BY LenIsNat DEF Plain, Words
  <1>3. /\ Len(w) = Len(text) + Len(u) /\ \A i \in 1..Len(text) : w[i] = text[i]
        /\ \A i \in 1..Len(u) : w[Len(text) + i] = u[i]
    BY <1>1, <1>2, ListConcat
  <1>4. \A i \in 1..Len(text) : PartAt(w, map, S, i)
    BY <1>2, <1>3, PartsStay
  <1>5. ASSUME NEW j \in 1..Len(u) PROVE PartAt(w, map, S, Len(text) + j)
    <2>1. u[j] \in S /\ u[j][1] # "open"
      BY <1>2 DEF Plain, Words, Range
    <2>2. w[Len(text) + j] = u[j]
      BY <1>3
    <2>3. QED
      BY <2>1, <2>2 DEF PartAt, Opens
  <1>6. ASSUME NEW i \in 1..Len(w) PROVE PartAt(w, map, S, i)
    <2>1. CASE i \in 1..Len(text)
      BY <1>4, <2>1
    <2>2. CASE i \notin 1..Len(text)
      <3>1. i - Len(text) \in 1..Len(u) /\ Len(text) + (i - Len(text)) = i
        BY <1>2, <1>3, <2>2
      <3>2. PartAt(w, map, S, Len(text) + (i - Len(text)))
        BY <1>5, <3>1
      <3>3. QED
        BY <3>1, <3>2
    <2>3. QED
      BY <2>1, <2>2
  <1>7. QED
    BY <1>1, <1>6 DEF Parts

(* A pass over a text that copies its atoms, writes words for some or none *)
(* and makes tokens of others, but leaves what may belong to a token       *)
(* alone, leaves parts.                                                    *)
InTokens == {"open", "number", "close"}
IsPass(f, g, text, map, S) ==
    /\ f[0] = << >> /\ g[0] = map
    /\ \A i \in 0..Len(text) : IsList(f[i]) /\ IsList(g[i])
    /\ \A i \in 1..Len(text) :
           \/ f[i] = Append(f[i - 1], text[i]) /\ g[i] = g[i - 1]
           \/ /\ text[i][1] \notin InTokens /\ g[i] = g[i - 1]
              /\ \E u : Plain(u, S) /\ f[i] = f[i - 1] \o u
           \/ /\ text[i][1] \notin InTokens
              /\ f[i] = f[i - 1] \o Token(Len(g[i - 1])) /\ g[i] = Append(g[i - 1], << text[i] >>)

LEMMA PassGrows ==
  ASSUME NEW f, NEW g, NEW text, IsList(text), NEW map, NEW S, IsPass(f, g, text, map, S)
  PROVE  \A i \in 0..Len(text) : Grows(map, g[i])
  <1> DEFINE n == Len(text)
             G == {m \in 0..n : Grows(map, g[m])}
  <1>1. n \in Nat
    BY LenIsNat
  <1>2. 0 \in G
    BY <1>1, GrowsBy DEF IsPass
  <1>3. ASSUME NEW m \in 0..(n - 1), m \in G PROVE m + 1 \in G
    <2>1. m + 1 \in 1..n /\ (m + 1) - 1 = m /\ m \in 0..n
      BY <1>1
    <2>2. IsList(g[m]) /\ (g[m + 1] = g[m] \/ \E e : g[m + 1] = Append(g[m], e))
      BY <2>1 DEF IsPass
    <2>3. Grows(g[m], g[m + 1])
      BY <2>2, GrowsBy
    <2>4. QED
      BY <1>3, <2>1, <2>3, GrowsOn
  <1> HIDE DEF G
  <1>4. 0..n \subseteq G
    BY <1>1, <1>2, <1>3, RunInduction
  <1>5. QED
    BY <1>4 DEF G

LEMMA TokenIs ==
  ASSUME NEW n
  PROVE  /\ IsList(Token(n)) /\ Len(Token(n)) = 3 /\ Token(n)[1][1] = "open"
         /\ Token(n)[2] = <<"number", n>> /\ Token(n)[3][1] = "close"
  <1>1. Len(Token(n)) = 3 /\ DOMAIN Token(n) = 1..3 /\ Token(n) = [i \in 1..3 |-> Token(n)[i]]
    BY DEF Token
  <1>2. IsList(Token(n))
    BY <1>1, LenIs
  <1>3. QED
    BY <1>1, <1>2 DEF Token

LEMMA PassParts ==
  ASSUME NEW f, NEW g, NEW text, IsList(text), NEW map, NEW S, IsPass(f, g, text, map, S), Parts(text, map, S)
  PROVE  Parts(f[Len(text)], g[Len(text)], S)
  <1> DEFINE n == Len(text)
             Settled(i) == ~Opens(text, i) /\ ~Opens(text, i - 1)
             P == {m \in 0..n : \A i \in 0..m : Settled(i) => Parts(f[i], g[i], S)}
  <1>1. n \in Nat
    BY LenIsNat
  <1>2. f[0] = << >> /\ g[0] = map /\ \A i \in 0..n : IsList(f[i]) /\ IsList(g[i]) /\ Len(g[i]) \in Nat
    BY LenIsNat DEF IsPass
  <1>4. \A i \in 0..n : Grows(map, g[i])
    BY PassGrows
  <1>5. 0 \in P
    <2>1. Len(f[0]) = 0
      BY <1>2, ListEmpty
    <2>2. Parts(f[0], g[0], S)
      BY <2>1 DEF Parts
    <2>3. QED
      BY <1>1, <2>2
  <1>6. ASSUME NEW m \in 0..(n - 1), m \in P PROVE m + 1 \in P
    <2>1. \A i \in 0..m : Settled(i) => Parts(f[i], g[i], S)
      BY <1>6
    <2> SUFFICES ASSUME Settled(m + 1) PROVE Parts(f[m + 1], g[m + 1], S)
      <3>1. \A i \in 0..(m + 1) : i \in 0..m \/ i = m + 1
        BY <1>1
      <3>2. QED
        BY <1>1, <2>1, <3>1
    <2>2. m + 1 \in 1..n /\ m \in 0..n /\ (m + 1) - 1 = m /\ (m + 1) - 2 = m - 1
      BY <1>1
    <2>3. PartAt(text, map, S, m + 1) /\ ~Opens(text, m + 1) /\ ~Opens(text, m)
      BY <2>2 DEF Parts
    <2>4. CASE Opens(text, m - 1)
      <3>1. m - 1 \in 1..n /\ TokenAt(text, map, S, m - 1)
        BY <2>4 DEF Parts, PartAt, Opens
      <3>2. PICK k \in 0..(Len(map) - 1) : text[m] = <<"number", k>> /\ Words(map[k + 1], S)
        <4>1. (m - 1) + 1 = m
          BY <1>1
        <4>2. QED
          BY <3>1, <4>1 DEF TokenAt
      <3>3. text[m - 1][1] = "open" /\ text[m][1] = "number" /\ text[m + 1][1] = "close"
        BY <2>2, <2>4, <3>1, <3>2 DEF TokenAt, Opens
      <3>4. /\ f[m - 1] = Append(f[m - 2], text[m - 1]) /\ f[m] = Append(f[m - 1], text[m])
            /\ f[m + 1] = Append(f[m], text[m + 1])
            /\ g[m - 1] = g[m - 2] /\ g[m] = g[m - 1] /\ g[m + 1] = g[m]
        <4>1. m - 1 \in 1..n /\ m \in 1..n /\ m + 1 \in 1..n
          BY <1>1, <3>1
        <4>2. /\ f[m - 1] = Append(f[(m - 1) - 1], text[m - 1]) /\ g[m - 1] = g[(m - 1) - 1]
              /\ f[m] = Append(f[m - 1], text[m]) /\ g[m] = g[m - 1]
              /\ f[m + 1] = Append(f[(m + 1) - 1], text[m + 1]) /\ g[m + 1] = g[(m + 1) - 1]
          BY <3>3, <4>1 DEF IsPass, InTokens
        <4>3. (m - 1) - 1 = m - 2 /\ (m + 1) - 1 = m
          BY <1>1
        <4>4. QED
          BY <4>2, <4>3
      <3>5. Parts(f[m - 2], g[m - 2], S)
        <4>1. ~Opens(text, m - 2)
          <5> SUFFICES ASSUME Opens(text, m - 2) PROVE FALSE
            OBVIOUS
          <5>1. m - 2 \in 1..n /\ TokenAt(text, map, S, m - 2)
            BY DEF Parts, PartAt, Opens
          <5>2. PICK j : text[(m - 2) + 1] = <<"number", j>>
            BY <5>1 DEF TokenAt
          <5>3. text[m - 1][1] = "number"
            BY <1>1, <5>2
          <5>4. QED
            BY <3>3, <5>3
        <4>2. ~Opens(text, m - 3)
          <5> SUFFICES ASSUME Opens(text, m - 3) PROVE FALSE
            OBVIOUS
          <5>1. m - 3 \in 1..n /\ TokenAt(text, map, S, m - 3)
            BY DEF Parts, PartAt, Opens
          <5>2. text[(m - 3) + 2][1] = "close"
            BY <5>1 DEF TokenAt
          <5>3. (m - 3) + 2 = m - 1
            BY <1>1
          <5>4. QED
            BY <3>3, <5>2, <5>3
        <4>3. m - 2 \in 0..m /\ (m - 2) - 1 = m - 3
          BY <1>1, <3>1
        <4>4. QED
          BY <2>1, <4>1, <4>2, <4>3
      <3>6. m - 2 \in 0..n /\ m - 1 \in 0..n
        BY <1>1, <3>1
      <3>7. Grows(map, g[m - 2])
        BY <1>4, <3>6
      <3>8. PICK old, new, a, b : old = f[m - 2] /\ new = f[m + 1] /\ a = f[m - 1] /\ b = f[m]
        OBVIOUS
      <3>9. IsList(old) /\ IsList(a) /\ IsList(b)
        BY <1>2, <2>2, <3>6, <3>8
      <3>10. /\ Len(a) = Len(old) + 1 /\ a[Len(old) + 1] = text[m - 1] /\ \A i \in 1..Len(old) : a[i] = old[i]
             /\ Len(b) = Len(a) + 1 /\ b[Len(a) + 1] = text[m] /\ \A i \in 1..Len(a) : b[i] = a[i]
             /\ Len(new) = Len(b) + 1 /\ new[Len(b) + 1] = text[m + 1] /\ \A i \in 1..Len(b) : new[i] = b[i]
        <4>1. a = Append(old, text[m - 1]) /\ b = Append(a, text[m]) /\ new = Append(b, text[m + 1])
          BY <3>4, <3>8
        <4>2. Len(a) = Len(old) + 1 /\ a[Len(old) + 1] = text[m - 1] /\ \A i \in 1..Len(old) : a[i] = old[i]
          BY <3>9, <4>1, ListAppend
        <4>3. Len(b) = Len(a) + 1 /\ b[Len(a) + 1] = text[m] /\ \A i \in 1..Len(a) : b[i] = a[i]
          BY <3>9, <4>1, ListAppend
        <4>4. Len(new) = Len(b) + 1 /\ new[Len(b) + 1] = text[m + 1] /\ \A i \in 1..Len(b) : new[i] = b[i]
          BY <3>9, <4>1, ListAppend
        <4>5. QED
          BY <4>2, <4>3, <4>4
      <3>11. Len(old) \in Nat
        BY <3>9, LenIsNat
      <3>12. /\ Len(new) = Len(old) + 3 /\ \A i \in 1..Len(old) : new[i] = old[i]
             /\ new[Len(old) + 1] = text[m - 1] /\ new[Len(old) + 2] = text[m] /\ new[Len(old) + 3] = text[m + 1]
        BY <3>10, <3>11
      <3>13. PICK held : held = g[m - 2]
        OBVIOUS
      <3>14. k \in 0..(Len(held) - 1) /\ Len(held) \in Nat /\ held[k + 1] = map[k + 1]
        <4>1. Len(map) \in Nat /\ Len(held) \in Nat /\ Len(map) <= Len(held) /\ \A i \in 1..Len(map) : held[i] = map[i]
          BY <3>7, <3>13, LenIsNat DEF Grows
        <4>2. k + 1 \in 1..Len(map)
          BY <4>1
        <4>3. QED
          BY <4>1, <4>2
      <3>15. Parts(new, held, S)
        <4>1. /\ new[Len(old) + 1][1] = "open" /\ new[Len(old) + 2] = <<"number", k>>
              /\ new[Len(old) + 3][1] = "close" /\ Words(held[k + 1], S)
          BY <3>2, <3>3, <3>12, <3>14
        <4>2. Parts(old, held, S)
          BY <3>5, <3>8, <3>13
        <4>3. QED
          BY <3>9, <3>12, <3>14, <4>1, <4>2, PartsToken
      <3>16. QED
        BY <3>4, <3>8, <3>13, <3>15
    <2>5. CASE ~Opens(text, m - 1)
      <3>1. Parts(f[m], g[m], S)
        BY <1>1, <2>1, <2>3, <2>5
      <3>2. text[m + 1] \in S /\ text[m + 1][1] # "open"
        BY <2>2, <2>3, <2>5 DEF PartAt, Opens
      <3>3. PICK old, held, atom : old = f[m] /\ held = g[m] /\ atom = text[m + 1]
        OBVIOUS
      <3>4. IsList(old) /\ IsList(held) /\ Len(held) \in Nat
        BY <1>2, <2>2, <3>3
      <3>5. \/ f[m + 1] = Append(old, atom) /\ g[m + 1] = held
            \/ g[m + 1] = held /\ \E u : Plain(u, S) /\ f[m + 1] = old \o u
            \/ f[m + 1] = old \o Token(Len(held)) /\ g[m + 1] = Append(held, << atom >>)
        BY <2>2, <3>3 DEF IsPass
      <3>6. CASE f[m + 1] = Append(old, atom) /\ g[m + 1] = held
        BY <3>1, <3>2, <3>3, <3>4, <3>6, PartsAtom
      <3>7. CASE g[m + 1] = held /\ \E u : Plain(u, S) /\ f[m + 1] = old \o u
        <4>1. PICK u : Plain(u, S) /\ f[m + 1] = old \o u
          BY <3>7
        <4>2. Parts(old \o u, held, S)
          BY <3>1, <3>3, <3>4, <4>1, PartsPlain
        <4>3. QED
          BY <3>7, <4>1, <4>2
      <3>8. CASE f[m + 1] = old \o Token(Len(held)) /\ g[m + 1] = Append(held, << atom >>)
        <4>1. PICK new, longer, token : new = f[m + 1] /\ longer = g[m + 1] /\ token = Token(Len(held))
          OBVIOUS
        <4>2. /\ IsList(token) /\ Len(token) = 3 /\ token[1][1] = "open"
              /\ token[2] = <<"number", Len(held)>> /\ token[3][1] = "close"
          BY <4>1, TokenIs
        <4>3. /\ Len(new) = Len(old) + Len(token) /\ \A i \in 1..Len(old) : new[i] = old[i]
              /\ \A i \in 1..Len(token) : new[Len(old) + i] = token[i]
          <5>1. new = old \o token
            BY <3>8, <4>1
          <5>2. IsList(old) /\ IsList(token)
            BY <3>4, <4>2
          <5>3. /\ Len(old \o token) = Len(old) + Len(token)
                /\ \A i \in 1..Len(old) : (old \o token)[i] = old[i]
                /\ \A i \in 1..Len(token) : (old \o token)[Len(old) + i] = token[i]
            BY <5>2, ListConcat
          <5>4. QED
            BY <5>1, <5>3, Zenon
        <4>4. /\ Len(new) = Len(old) + 3 /\ new[Len(old) + 1][1] = "open"
              /\ new[Len(old) + 2] = <<"number", Len(held)>> /\ new[Len(old) + 3][1] = "close"
          BY <4>2, <4>3
        <4>5. Grows(held, longer) /\ Len(longer) = Len(held) + 1 /\ longer[Len(held) + 1] = << atom >>
          BY <3>4, <3>8, <4>1, GrowsBy, ListAppend
        <4>6. Parts(old, longer, S)
          BY <3>1, <3>3, <3>4, <4>5, PartsOfMore
        <4>7. Words(longer[Len(held) + 1], S)
          <5>1. PICK single : single = << atom >>
            OBVIOUS
          <5>2. Len(single) = 1 /\ DOMAIN single = 1..1 /\ single = [i \in 1..1 |-> single[i]] /\ single[1] = atom
            BY <5>1
          <5>3. IsList(single)
            BY <5>2, LenIs
          <5>4. Range(single) \subseteq S
            BY <3>2, <3>3, <5>2 DEF Range
          <5>5. QED
            BY <4>5, <5>1, <5>3, <5>4 DEF Words
        <4>8. Len(held) \in 0..(Len(longer) - 1) /\ Len(longer) \in Nat
          BY <3>4, <4>5
        <4>9. Parts(new, longer, S)
          BY <3>4, <4>3, <4>4, <4>6, <4>7, <4>8, PartsToken
        <4>10. QED
          BY <4>1, <4>9
      <3>9. QED
        BY <3>5, <3>6, <3>7, <3>8
    <2>6. QED
      BY <2>4, <2>5
  <1>7. Settled(n)
    <2>1. ~Opens(text, n)
      <3> SUFFICES ASSUME Opens(text, n) PROVE FALSE
        OBVIOUS
      <3>1. n \in 1..n /\ TokenAt(text, map, S, n)
        BY DEF Parts, PartAt, Opens
      <3>2. QED
        BY <1>1, <3>1 DEF TokenAt
    <2>2. ~Opens(text, n - 1)
      <3> SUFFICES ASSUME Opens(text, n - 1) PROVE FALSE
        OBVIOUS
      <3>1. n - 1 \in 1..n /\ TokenAt(text, map, S, n - 1)
        BY DEF Parts, PartAt, Opens
      <3>2. QED
        BY <1>1, <3>1 DEF TokenAt
    <2>3. QED
      BY <2>1, <2>2
  <1>8. 0..n \subseteq P
    <2> HIDE DEF P
    <2>1. QED
      BY <1>1, <1>5, <1>6, RunInduction
  <1>9. n \in 0..n
    BY <1>1
  <1>10. Parts(f[n], g[n], S)
    BY <1>7, <1>8, <1>9
  <1>11. QED
    BY <1>10
-----------------------------------------------------------------------------
(* A text and its map, while rule after rule makes tokens of what it       *)
(* matches.                                                                *)
IsState(s) == s = [text |-> s.text, map |-> s.map] /\ IsList(s.text) /\ IsList(s.map)

IsTokenized(next, s, reached, atom) ==
    /\ ~reached => (next.text = Append(s.text, atom) /\ next.map = s.map)
    /\ reached => /\ next.text = s.text \o Token(Len(s.map))
                  /\ next.map = Append(s.map, << atom >>)

LEMMA AtomTokenized ==
  ASSUME NEW s, IsState(s), NEW reached, NEW atom, NEW next, next = TokenizeAtom(reached, s, atom)
  PROVE  IsState(next) /\ IsTokenized(next, s, reached, atom)
  <1>2. PICK text, map : s = [text |-> text, map |-> map] /\ IsList(text) /\ IsList(map)
    BY DEF IsState
  <1>3. s.text = text /\ s.map = map
    BY <1>2
  <1>4. CASE ~reached
    <2>1. next = [text |-> Append(text, atom), map |-> map]
      BY <1>2, <1>4 DEF TokenizeAtom
    <2>2. next.text = Append(text, atom) /\ next.map = map
      BY <2>1
    <2>3. IsList(Append(text, atom))
      BY <1>2, ListAppend
    <2>4. IsState(next)
      BY <1>2, <2>1, <2>2, <2>3 DEF IsState
    <2>5. QED
      BY <1>3, <1>4, <2>2, <2>4 DEF IsTokenized
  <1>5. CASE reached
    <2>1. PICK token : token = Token(Len(map)) /\ IsList(token)
      BY TokenIs
    <2>2. next = [text |-> text \o token, map |-> Append(map, << atom >>)]
      BY <1>3, <1>5, <2>1 DEF TokenizeAtom
    <2>3. next.text = text \o token /\ next.map = Append(map, << atom >>)
      BY <2>2
    <2>4. IsList(next.text) /\ IsList(next.map)
      <3>1. IsList(text \o token)
        BY <1>2, <2>1, ListConcat
      <3>2. IsList(Append(map, << atom >>))
        BY <1>2, ListAppend
      <3>3. QED
        BY <2>3, <3>1, <3>2
    <2>5. IsState(next)
      BY <2>2, <2>3, <2>4 DEF IsState
    <2>6. QED
      BY <1>3, <1>5, <2>1, <2>3, <2>5 DEF IsTokenized
  <1>6. QED
    BY <1>4, <1>5

Follows(next, state) ==
    /\ IsState(next) /\ Grows(state.map, next.map)
    /\ \A S : Parts(state.text, state.map, S) => Parts(next.text, next.map, S)

(* One rule.                                                               *)
Without(text, old, rule) ==
    \A i \in 1..Len(text) : (ReachesAll(rule) => text[i][1] # rule.kind) /\ (text[i] \in Range(old) \/ text[i][1] \in InTokens)

LEMMA KindTokenized ==
  ASSUME NEW state, IsState(state), NEW rule, rule.kind \notin InTokens
  PROVE  LET next == TokenizeRule(rule, state)
         IN  Follows(next, state) /\ Without(next.text, state.text, rule)
  <1>1. PICK text, map : text = state.text /\ map = state.map
    OBVIOUS
  <1>2. IsList(text) /\ IsList(map) /\ Len(text) \in Nat /\ DOMAIN text = 1..Len(text)
    BY <1>1, LenIsNat DEF IsState
  <1>3. PICK arg, base, n : /\ arg = [rule |-> rule, text |-> text]
                            /\ base = [text |-> << >>, map |-> map] /\ n = Len(text)
    OBVIOUS
  <1>4. PICK h : h = CHOOSE x : IsRun(x, "atoms", arg, base, n)
    OBVIOUS
  <1>5. TokenizeRule(rule, state) = h[n]
    BY <1>1, <1>3, <1>4 DEF TokenizeRule, IsRun, StepOf
  <1>6. n \in Nat /\ IsRun(h, "atoms", arg, base, n)
    BY <1>2, <1>3, <1>4, RunExists
  <1>7. h[0] = base /\ \A m \in 0..(n - 1) : h[m + 1] = TokenizeAtom(m + 1 \in Reached(rule, text), h[m], text[m + 1])
    <2>1. \A old, i : StepOf("atoms", arg, old, i) = TokenizeAtom(i \in Reached(rule, text), old, text[i])
      <3>1. arg.rule = rule /\ arg.text = text
        BY <1>3
      <3>2. \A old, i : StepOf("atoms", arg, old, i) = TokenizeAtom(i \in Reached(arg.rule, arg.text), old, arg.text[i])
        BY DEF StepOf
      <3>3. QED
        BY <3>1, <3>2, Zenon
    <2>2. \A m \in 0..(n - 1) : m + 1 \in 0..n /\ m + 1 # 0 /\ (m + 1) - 1 = m
      BY <1>6
    <2>3. \A i \in 0..n : h[i] = IF i = 0 THEN base ELSE StepOf("atoms", arg, h[i - 1], i)
      BY <1>6 DEF IsRun
    <2>4. 0 \in 0..n
      BY <1>6
    <2>5. ASSUME NEW m \in 0..(n - 1) PROVE h[m + 1] = StepOf("atoms", arg, h[m], m + 1)
      BY <2>2, <2>3
    <2>6. \A m \in 0..(n - 1) : StepOf("atoms", arg, h[m], m + 1) = TokenizeAtom(m + 1 \in Reached(rule, text), h[m], text[m + 1])
      BY <2>1, Zenon
    <2>7. QED
      BY <2>3, <2>4, <2>5, <2>6
  <1> DEFINE Fine(t) == \A i \in 1..Len(t) : /\ ReachesAll(rule) => t[i][1] # rule.kind
                                           /\ (t[i] \in Range(text) \/ t[i][1] \in InTokens)
             P == {m \in 0..n : IsState(h[m]) /\ Fine(h[m].text)}
  <1>8. 0 \in P
    <2>1. base.text = << >> /\ base.map = map /\ IsState(base)
      BY <1>2, <1>3, ListEmpty DEF IsState
    <2>2. Fine(<< >>)
      BY ListEmpty
    <2> HIDE DEF Fine
    <2>3. QED
      BY <1>6, <1>7, <2>1, <2>2
  <1>9. ASSUME NEW m \in 0..(n - 1), m \in P PROVE m + 1 \in P
    <2>1. PICK s, atom, next, reached : /\ s = h[m] /\ atom = text[m + 1] /\ next = h[m + 1]
                                        /\ reached = (m + 1 \in Reached(rule, text))
      OBVIOUS
    <2>2. IsState(s) /\ Fine(s.text) /\ next = TokenizeAtom(reached, s, atom)
      BY <1>7, <1>9, <2>1
    <2>3. m + 1 \in DOMAIN text
      BY <1>2, <1>3, <1>6
    <2>4. atom \in Range(text)
      BY <2>1, <2>3 DEF Range
    <2>5. IsState(next) /\ IsTokenized(next, s, reached, atom)
      BY <2>2, AtomTokenized
    <2>6. PICK old, new : old = s.text /\ new = next.text
      OBVIOUS
    <2>7. IsList(old) /\ Len(old) \in Nat
      BY <2>2, <2>6, LenIsNat DEF IsState
    <2>8. Fine(new)
      <3> SUFFICES ASSUME NEW i \in 1..Len(new)
                   PROVE  /\ ReachesAll(rule) => new[i][1] # rule.kind
                          /\ new[i] \in Range(text) \/ new[i][1] \in InTokens
        OBVIOUS
      <3>1. CASE ~reached
        <4>0. ReachesAll(rule) => atom[1] # rule.kind
          BY <2>1, <2>3, <3>1 DEF Reached, ReachesAll
        <4>1. new = Append(old, atom)
          BY <2>5, <2>6, <3>1 DEF IsTokenized
        <4>2. Len(new) = Len(old) + 1 /\ new[Len(old) + 1] = atom /\ \A j \in 1..Len(old) : new[j] = old[j]
          BY <2>7, <4>1, ListAppend
        <4>3. i \in 1..Len(old) \/ i = Len(old) + 1
          BY <2>7, <4>2
        <4>4. CASE i = Len(old) + 1
          BY <2>4, <4>0, <4>2, <4>4
        <4>5. CASE i \in 1..Len(old)
          BY <2>2, <2>6, <4>2, <4>5
        <4>6. QED
          BY <4>3, <4>4, <4>5
      <3>2. CASE reached
        <4>1. PICK token : token = Token(Len(s.map))
          OBVIOUS
        <4>2. new = old \o token
          BY <2>5, <2>6, <3>2, <4>1 DEF IsTokenized
        <4>3. IsList(token) /\ Len(token) = 3 /\ \A j \in 1..3 : token[j][1] \in InTokens
          <5>1. /\ IsList(token) /\ Len(token) = 3 /\ token[1][1] = "open"
                /\ token[2] = <<"number", Len(s.map)>> /\ token[3][1] = "close"
            BY <4>1, TokenIs
          <5>2. token[2][1] = "number"
            BY <5>1
          <5>3. \A j \in 1..3 : j = 1 \/ j = 2 \/ j = 3
            OBVIOUS
          <5>4. QED
            BY <5>1, <5>2, <5>3 DEF InTokens
        <4>4. /\ Len(old \o token) = Len(old) + Len(token)
              /\ \A j \in 1..Len(old) : (old \o token)[j] = old[j]
              /\ \A j \in 1..Len(token) : (old \o token)[Len(old) + j] = token[j]
          <5>1. IsList(old) /\ IsList(token)
            BY <2>7, <4>3
          <5>2. QED
            BY <5>1, ListConcat
        <4>5. CASE i \in 1..Len(old)
          <5>1. new[i] = old[i]
            BY <4>2, <4>4, <4>5
          <5>2. QED
            BY <2>2, <2>6, <4>5, <5>1
        <4>6. CASE i \notin 1..Len(old)
          <5>1. PICK j : j = i - Len(old)
            OBVIOUS
          <5>2. j \in 1..3 /\ i = Len(old) + j
            BY <2>7, <4>2, <4>3, <4>4, <4>6, <5>1
          <5>3. new[i] = token[j]
            BY <4>2, <4>3, <4>4, <5>2
          <5>4. QED
            BY <4>3, <5>2, <5>3
        <4>7. QED
          BY <4>5, <4>6
      <3>3. QED
        BY <3>1, <3>2
    <2> HIDE DEF Fine
    <2>9. QED
      BY <1>6, <2>1, <2>5, <2>6, <2>8
  <1>10. 0..n \subseteq P
    <2> HIDE DEF P
    <2>1. QED
      BY <1>6, <1>8, <1>9, RunInduction
  <1> HIDE DEF Fine
  <1>11. PICK f, g : f = [i \in 0..n |-> h[i].text] /\ g = [i \in 0..n |-> h[i].map]
    OBVIOUS
  <1>12. ASSUME NEW S PROVE IsPass(f, g, text, map, S)
    <2>1. f[0] = << >> /\ g[0] = map
      BY <1>3, <1>6, <1>7, <1>11
    <2>2. \A i \in 0..n : IsList(f[i]) /\ IsList(g[i])
      BY <1>10, <1>11 DEF IsState
    <2>3. ASSUME NEW i \in 1..n
          PROVE  \/ f[i] = Append(f[i - 1], text[i]) /\ g[i] = g[i - 1]
                 \/ /\ text[i][1] \notin InTokens
                    /\ f[i] = f[i - 1] \o Token(Len(g[i - 1])) /\ g[i] = Append(g[i - 1], << text[i] >>)
      <3>1. PICK s, next, atom, reached : /\ s = h[i - 1] /\ next = h[i] /\ atom = text[i]
                                          /\ reached = (i \in Reached(rule, text))
        OBVIOUS
      <3>2. i - 1 \in 0..(n - 1) /\ i - 1 \in 0..n /\ i \in 0..n /\ (i - 1) + 1 = i
        BY <1>6
      <3>3. IsState(s) /\ next = TokenizeAtom(reached, s, atom)
        BY <1>7, <1>10, <3>1, <3>2
      <3>4. IsTokenized(next, s, reached, atom)
        BY <3>3, AtomTokenized
      <3>5. f[i] = next.text /\ g[i] = next.map /\ f[i - 1] = s.text /\ g[i - 1] = s.map
        BY <1>11, <3>1, <3>2
      <3>6. reached => text[i][1] \notin InTokens
        BY <3>1 DEF Reached
      <3>7. QED
        BY <3>1, <3>4, <3>5, <3>6 DEF IsTokenized
    <2>4. QED
      BY <1>3, <2>1, <2>2, <2>3 DEF IsPass
  <1>13. PICK next : next = h[n]
    OBVIOUS
  <1>14. IsState(next) /\ Fine(next.text) /\ f[n] = next.text /\ g[n] = next.map
    BY <1>6, <1>10, <1>11, <1>13
  <1>15. ASSUME NEW S, Parts(text, map, S) PROVE Parts(next.text, next.map, S)
    BY <1>2, <1>3, <1>12, <1>14, <1>15, PassParts
  <1>16. Grows(map, next.map)
    <2>1. n \in 0..n
      BY <1>6
    <2>2. QED
      BY <1>2, <1>3, <1>12, <1>14, <2>1, PassGrows
  <1>17. QED
    BY <1>1, <1>5, <1>13, <1>14, <1>15, <1>16 DEF Fine, Follows, Without

LEMMA FollowsOn ==
  ASSUME NEW a, NEW b, NEW d
  PROVE  /\ IsState(a) => Follows(a, a)
         /\ Follows(a, b) /\ Follows(b, d) => Follows(a, d)
  <1>1. ASSUME IsState(a) PROVE Follows(a, a)
    BY <1>1, GrowsBy DEF Follows, IsState
  <1>2. ASSUME Follows(a, b), Follows(b, d) PROVE Follows(a, d)
    <2>1. Grows(d.map, a.map)
      BY <1>2, GrowsOn DEF Follows
    <2>2. QED
      BY <1>2, <2>1 DEF Follows
  <1>3. QED
    BY <1>1, <1>2

(* All the rules.                                                          *)
LEMMA TextTokenized ==
  ASSUME NEW text, IsList(text), NEW map, IsList(map), NEW rules, IsList(rules), Distinct(rules)
  PROVE  LET out == tokenizeText(text, rules, map)
         IN  Follows(out, [text |-> text, map |-> map]) /\ Hidden(out.text, text, rules)
  <1>1. PICK base, n : base = [text |-> text, map |-> map] /\ n = Len(rules)
    OBVIOUS
  <1>2. PICK h : h = CHOOSE x : IsRun(x, "rules", rules, base, n)
    OBVIOUS
  <1>3. tokenizeText(text, rules, map) = h[n]
    BY <1>1, <1>2 DEF tokenizeText, IsRun, StepOf
  <1>4. n \in Nat /\ IsRun(h, "rules", rules, base, n) /\ DOMAIN rules = 1..n
    BY <1>1, <1>2, RunExists, LenIsNat
  <1>5. h[0] = base /\ \A m \in 0..(n - 1) : h[m + 1] = TokenizeRule(rules[m + 1], h[m])
    BY <1>4 DEF IsRun, StepOf
  <1>6. InTokens \subseteq WrittenByMasking(rules)
    BY DEF InTokens, WrittenByMasking
  <1>7. ASSUME NEW k \in 1..n PROVE rules[k] \in Range(rules) /\ rules[k].kind \notin InTokens
    <2>1. rules[k] \in Range(rules)
      BY <1>4 DEF Range
    <2>2. QED
      BY <1>6, <2>1, RuleApart
  <1> DEFINE Free(t, m) == \A i \in 1..Len(t) :
                               /\ \A k \in 1..m : ReachesAll(rules[k]) => t[i][1] # rules[k].kind
                               /\ t[i] \in Range(text) \/ t[i][1] \in InTokens
             P == {m \in 0..n : Follows(h[m], base) /\ Free(h[m].text, m)}
  <1>8. 0 \in P
    <2>1. base.text = text /\ base.map = map
      BY <1>1
    <2>2. IsState(base)
      BY <1>1, <2>1 DEF IsState
    <2>3. Follows(base, base)
      BY <2>2, FollowsOn
    <2>4. \A i \in 1..Len(text) : text[i] \in Range(text)
      BY LenIsNat DEF Range
    <2>5. QED
      BY <1>4, <1>5, <2>1, <2>3, <2>4
  <1>9. ASSUME NEW m \in 0..(n - 1), m \in P PROVE m + 1 \in P
    <2>1. PICK state, next, rule : state = h[m] /\ next = h[m + 1] /\ rule = rules[m + 1]
      OBVIOUS
    <2>2. Follows(state, base) /\ Free(state.text, m) /\ next = TokenizeRule(rule, state)
      BY <1>5, <1>9, <2>1
    <2>3. IsState(state) /\ rule.kind \notin InTokens /\ m + 1 \in 1..n
      BY <1>4, <1>7, <2>1, <2>2 DEF Follows
    <2>4. Follows(next, state) /\ Without(next.text, state.text, rule)
      BY <2>2, <2>3, KindTokenized
    <2>5. Follows(next, base)
      BY <2>2, <2>4, FollowsOn
    <2>6. ASSUME NEW i \in 1..Len(next.text)
          PROVE  /\ \A k \in 1..(m + 1) : ReachesAll(rules[k]) => next.text[i][1] # rules[k].kind
                 /\ next.text[i] \in Range(text) \/ next.text[i][1] \in InTokens
      <3>1. PICK atom : atom = next.text[i]
        OBVIOUS
      <3>2. (ReachesAll(rule) => atom[1] # rule.kind) /\ (atom \in Range(state.text) \/ atom[1] \in InTokens)
        BY <2>4, <3>1 DEF Without
      <3>3. CASE atom[1] \in InTokens
        <4>1. \A k \in 1..(m + 1) : k \in 1..n
          BY <1>4
        <4>2. QED
          BY <1>7, <3>1, <3>3, <4>1
      <3>4. CASE atom \in Range(state.text)
        <4>1. DOMAIN state.text = 1..Len(state.text)
          BY <2>3, LenIsNat DEF IsState
        <4>2. PICK j \in 1..Len(state.text) : atom = state.text[j]
          BY <3>4, <4>1 DEF Range
        <4>3. /\ \A k \in 1..m : ReachesAll(rules[k]) => atom[1] # rules[k].kind
              /\ atom \in Range(text) \/ atom[1] \in InTokens
          BY <2>2, <4>2
        <4>4. \A k \in 1..(m + 1) : k \in 1..m \/ k = m + 1
          BY <1>4
        <4>5. QED
          BY <2>1, <3>1, <3>2, <4>3, <4>4
      <3>5. QED
        BY <3>2, <3>3, <3>4
    <2>7. QED
      BY <1>4, <2>1, <2>5, <2>6
  <1> HIDE DEF P
  <1>10. 0..n \subseteq P
    BY <1>4, <1>8, <1>9, RunInduction
  <1>11. n \in P
    BY <1>4, <1>10
  <1>12. PICK out : out = h[n]
    OBVIOUS
  <1>13. Follows(out, base) /\ Free(out.text, n)
    BY <1>11, <1>12 DEF P
  <1>14. ASSUME NEW i \in 1..Len(out.text)
         PROVE  /\ \A rule \in Range(rules) : ReachesAll(rule) => out.text[i][1] # rule.kind
                /\ From(out.text[i], text, rules)
    <2>1. PICK atom : atom = out.text[i]
      OBVIOUS
    <2>2. /\ \A k \in 1..n : ReachesAll(rules[k]) => atom[1] # rules[k].kind
          /\ atom \in Range(text) \/ atom[1] \in InTokens
      BY <1>13, <2>1
    <2>3. atom[1] \in InTokens => Unspaced(atom) = atom
      BY DEF InTokens, Unspaced
    <2>4. From(atom, text, rules)
      BY <1>6, <2>2, <2>3 DEF From
    <2>5. \A rule \in Range(rules) : \E k \in 1..n : rule = rules[k]
      BY <1>4 DEF Range
    <2>6. QED
      BY <2>1, <2>2, <2>4, <2>5
  <1>15. Hidden(out.text, text, rules)
    BY <1>14 DEF Hidden
  <1>16. QED
    BY <1>1, <1>3, <1>12, <1>13, <1>15
-----------------------------------------------------------------------------
(* What goes on from masking, turn by turn.                                *)
Hides(pii) == pii.enabled /\ Distinct(RulesOf(pii))

LEMMA RulesAre ==
  ASSUME NEW pii, IsList(pii.customRules)
  PROVE  IsList(RulesOf(pii))
  <1>1. PICK custom, default : custom = pii.customRules /\ default = DEFAULT_REGEX_RULES
    OBVIOUS
  <1>2. DOMAIN default = 1..4 /\ default = [i \in 1..4 |-> default[i]]
    BY <1>1 DEF DEFAULT_REGEX_RULES, PiiKinds
  <1>3. IsList(default) /\ IsList(custom)
    BY <1>1, <1>2, LenIs
  <1>4. IsList(default \o custom)
    BY <1>3, ListConcat
  <1>5. QED
    BY <1>1, <1>4 DEF RulesOf

(* A turn of the prepared transcript; its words are those of the turn it   *)
(* was, in tokens or not, if that one had no tokens.                       *)
TurnIs(new, old, pii, map) ==
    /\ new.id = old.id /\ IsList(new.text) /\ Hidden(new.text, old.text, RulesOf(pii))
    /\ pii.reversible /\ "open" \notin KindsIn(old.text) => Parts(new.text, map, Range(old.text))
TurnsAre(new, old, pii, map) ==
    IsList(new) /\ Len(new) = Len(old) /\ \A i \in 1..Len(old) : TurnIs(new[i], old[i], pii, map)

LEMMA MaskedTurns ==
  ASSUME NEW case \in Range(Cases), NEW pii, pii = case.pii, Hides(pii), ~pii.reversible
  PROVE  LET prepared == prepareRequest(case.transcript, pii)
         IN  IsList(prepared.map) /\ TurnsAre(prepared.transcript.turns, case.transcript.turns, pii, prepared.map)
  <1>1. PICK old, rules : old = case.transcript.turns /\ rules = RulesOf(pii)
    OBVIOUS
  <1>2. PICK prepared : prepared = prepareRequest(case.transcript, pii)
    OBVIOUS
  <1>3. prepared.map = << >> /\ prepared.transcript = maskAnalysisRequest(case.transcript, pii)
    BY <1>2 DEF prepareRequest
  <1>4. PICK new : new = prepared.transcript.turns
    OBVIOUS
  <1>5. new = [i \in DOMAIN old |-> [old[i] EXCEPT !.text = applyMaskers(old[i].text, rules)]]
    BY <1>1, <1>3, <1>4 DEF maskAnalysisRequest, Hides
  <1>6. /\ IsList(old) /\ \A i \in DOMAIN old : {"id", "text"} \subseteq DOMAIN old[i] /\ IsList(old[i].text)
        /\ IsList(pii.customRules)
    BY <1>1 DEF CaseForm, Range
  <1>7. IsList(rules) /\ Distinct(rules)
    BY <1>1, <1>6, RulesAre DEF Hides
  <1>8. Len(old) \in Nat /\ DOMAIN old = 1..Len(old)
    BY <1>6, LenIsNat
  <1>9. DOMAIN new = 1..Len(old) /\ new = [i \in 1..Len(old) |-> new[i]]
    BY <1>5, <1>8
  <1>10. IsList(new) /\ Len(new) = Len(old)
    BY <1>8, <1>9, LenIs
  <1>11. ASSUME NEW i \in 1..Len(old) PROVE TurnIs(new[i], old[i], pii, prepared.map)
    <2>1. PICK a, b, text : a = old[i] /\ b = new[i] /\ text = applyMaskers(a.text, rules)
      OBVIOUS
    <2>2. {"id", "text"} \subseteq DOMAIN a /\ IsList(a.text) /\ b = [a EXCEPT !.text = text]
      BY <1>5, <1>6, <1>8, <2>1
    <2>3. b.id = a.id /\ b.text = text
      BY <2>2
    <2>4. IsList(text) /\ Hidden(text, a.text, rules)
      BY <1>7, <2>1, <2>2, MaskedHides
    <2>5. QED
      BY <1>1, <2>1, <2>3, <2>4 DEF TurnIs
  <1>12. QED
    BY <1>1, <1>2, <1>3, <1>4, <1>10, <1>11, ListEmpty DEF TurnsAre

LEMMA TokenizedTurns ==
  ASSUME NEW case \in Range(Cases), NEW pii, pii = case.pii, Hides(pii), pii.reversible
  PROVE  LET prepared == prepareRequest(case.transcript, pii)
         IN  IsList(prepared.map) /\ TurnsAre(prepared.transcript.turns, case.transcript.turns, pii, prepared.map)
  <1>1. PICK old, rules, n : old = case.transcript.turns /\ rules = RulesOf(pii) /\ n = Len(old)
    OBVIOUS
  <1>2. PICK prepared : prepared = prepareRequest(case.transcript, pii)
    OBVIOUS
  <1>3. prepared = reversibleMaskAnalysisRequest(case.transcript, pii)
    BY <1>2 DEF prepareRequest, Hides
  <1>4. PICK names : names = TokenizeNames(case.transcript.participants, pii).map
    OBVIOUS
  <1>5. PICK arg : arg = [turns |-> old, rules |-> rules]
    OBVIOUS
  <1>6. PICK h : h = TokenMaps(old, rules, names)
    OBVIOUS
  <1>7. PICK new, map : new = prepared.transcript.turns /\ map = prepared.map
    OBVIOUS
  <1>8. /\ map = h[n]
        /\ new = [i \in DOMAIN old |-> [old[i] EXCEPT !.text = tokenizeText(old[i].text, rules, h[i - 1]).text]]
    BY <1>1, <1>3, <1>4, <1>6, <1>7 DEF reversibleMaskAnalysisRequest
  <1>9. /\ IsList(old) /\ \A i \in DOMAIN old : {"id", "text"} \subseteq DOMAIN old[i] /\ IsList(old[i].text)
        /\ IsList(pii.customRules) /\ IsList(case.transcript.participants)
    BY <1>1 DEF CaseForm, Range
  <1>10. IsList(rules) /\ Distinct(rules)
    BY <1>1, <1>9, RulesAre DEF Hides
  <1>11. n \in Nat /\ DOMAIN old = 1..n
    BY <1>1, <1>9, LenIsNat
  <1>12. IsRun(h, "turns", arg, names, n)
    <2>1. PICK x : x = CHOOSE g : IsRun(g, "turns", arg, names, n)
      OBVIOUS
    <2>2. h = x
      BY <1>1, <1>5, <1>6, <2>1, ZenonT(60) DEF TokenMaps, IsRun, StepOf
    <2>3. QED
      BY <1>11, <2>1, <2>2, RunExists
  <1>13. h[0] = names /\ \A m \in 0..(n - 1) : h[m + 1] = tokenizeText(old[m + 1].text, rules, h[m]).map
    BY <1>5, <1>11, <1>12 DEF IsRun, StepOf
  <1>14. IsList(names)
    <2>1. PICK people : people = case.transcript.participants
      OBVIOUS
    <2>2. names = << >> \/ names = [i \in DOMAIN people |-> people[i].name]
      BY <1>4, <2>1 DEF TokenizeNames
    <2>3. Len(people) \in Nat /\ DOMAIN people = 1..Len(people)
      BY <1>9, <2>1, LenIsNat
    <2>4. CASE names = [i \in DOMAIN people |-> people[i].name]
      <3>1. DOMAIN names = 1..Len(people) /\ names = [i \in 1..Len(people) |-> names[i]]
        BY <2>3, <2>4
      <3>2. QED
        BY <2>3, <3>1, LenIs
    <2>5. QED
      BY <2>2, <2>4, ListEmpty
  <1>15. ASSUME NEW i \in 1..n, NEW m, IsList(m)
         PROVE  LET out == tokenizeText(old[i].text, rules, m)
                IN  Follows(out, [text |-> old[i].text, map |-> m]) /\ Hidden(out.text, old[i].text, rules)
    <2>1. IsList(old[i].text)
      BY <1>9, <1>11
    <2>2. QED
      BY <1>10, <1>15, <2>1, TextTokenized
  <1> DEFINE P == {m \in 0..n : IsList(h[m]) /\ \A k \in 0..m : Grows(h[k], h[m])}
  <1>16. 0 \in P
    <2>1. \A k \in 0..0 : k = 0
      OBVIOUS
    <2>2. QED
      BY <1>11, <1>13, <1>14, <2>1, GrowsBy
  <1>17. ASSUME NEW m \in 0..(n - 1), m \in P PROVE m + 1 \in P
    <2>1. PICK out, held, text : /\ held = h[m] /\ text = old[m + 1].text
                                 /\ out = tokenizeText(text, rules, held)
      OBVIOUS
    <2>2. m + 1 \in 1..n /\ IsList(held) /\ h[m + 1] = out.map
      BY <1>11, <1>13, <1>17, <2>1
    <2>3. Follows(out, [text |-> text, map |-> held])
      BY <1>15, <2>1, <2>2
    <2>4. IsList(out.map) /\ Grows(held, out.map)
      BY <2>3 DEF Follows, IsState
    <2>5. ASSUME NEW k \in 0..(m + 1) PROVE Grows(h[k], h[m + 1])
      <3>1. CASE k = m + 1
        BY <2>2, <2>4, <3>1, GrowsBy
      <3>2. CASE k # m + 1
        <4>1. k \in 0..m
          BY <1>11, <3>2
        <4>2. Grows(h[k], held)
          BY <1>17, <2>1, <4>1
        <4>3. QED
          BY <2>2, <2>4, <4>2, GrowsOn
      <3>3. QED
        BY <3>1, <3>2
    <2>6. QED
      BY <1>11, <2>2, <2>4, <2>5
  <1> HIDE DEF P
  <1>18. 0..n \subseteq P
    BY <1>11, <1>16, <1>17, RunInduction
  <1>19. n \in P /\ \A i \in 0..n : IsList(h[i]) /\ Grows(h[i], map)
    <2>1. n \in P /\ n \in 0..n
      BY <1>11, <1>18
    <2>2. QED
      BY <1>8, <1>18, <2>1 DEF P
  <1>20. DOMAIN new = 1..n /\ new = [i \in 1..n |-> new[i]]
    BY <1>8, <1>11
  <1>21. IsList(new) /\ Len(new) = n
    BY <1>11, <1>20, LenIs
  <1>22. ASSUME NEW i \in 1..n PROVE TurnIs(new[i], old[i], pii, map)
    <2>1. PICK a, b, out : a = old[i] /\ b = new[i] /\ out = tokenizeText(a.text, rules, h[i - 1])
      OBVIOUS
    <2>2. {"id", "text"} \subseteq DOMAIN a /\ IsList(a.text) /\ b = [a EXCEPT !.text = out.text]
      BY <1>8, <1>9, <1>11, <2>1
    <2>3. b.id = a.id /\ b.text = out.text
      BY <2>2
    <2>4. i - 1 \in 0..(n - 1) /\ i - 1 \in 0..n /\ (i - 1) + 1 = i /\ i \in 0..n
      BY <1>11
    <2>5. Follows(out, [text |-> a.text, map |-> h[i - 1]]) /\ Hidden(out.text, a.text, rules)
      BY <1>15, <1>19, <2>1, <2>4
    <2>6. out.map = h[i]
      BY <1>13, <2>1, <2>4
    <2>7. IsList(out.text) /\ Grows(out.map, map)
      BY <1>19, <2>4, <2>5, <2>6 DEF Follows, IsState
    <2>8. ASSUME "open" \notin KindsIn(a.text) PROVE Parts(out.text, map, Range(a.text))
      <3>1. Parts(a.text, h[i - 1], Range(a.text))
        BY <2>2, <2>8, PlainParts
      <3>2. Parts(out.text, out.map, Range(a.text))
        BY <2>5, <3>1 DEF Follows
      <3>3. QED
        BY <2>7, <3>2, PartsOfMore
    <2>9. QED
      BY <1>1, <2>1, <2>3, <2>5, <2>7, <2>8 DEF TurnIs
  <1>23. IsList(map)
    BY <1>8, <1>11, <1>19
  <1>24. QED
    BY <1>1, <1>2, <1>7, <1>21, <1>22, <1>23 DEF TurnsAre
-----------------------------------------------------------------------------
(* Lists of lists, flattened.                                              *)
LEMMA SeqIsWords ==
  ASSUME NEW S, NEW t \in Seq(S)
  PROVE  Words(t, S)
  <1>1. Len(t) \in Nat /\ DOMAIN t = 1..Len(t) /\ \A i \in 1..Len(t) : t[i] \in S
    OBVIOUS
  <1>2. IsList(t)
    BY ListIs
  <1>3. QED
    BY <1>1, <1>2 DEF Words, Range

LEMMA SingleIs ==
  ASSUME NEW S, NEW x \in S
  PROVE  Words(<< x >>, S) /\ Range(<< x >>) = {x} /\ Words(<< >>, S)
  <1>1. PICK single : single = << x >>
    OBVIOUS
  <1>2. Len(single) = 1 /\ DOMAIN single = 1..1 /\ single = [i \in 1..1 |-> single[i]] /\ single[1] = x
    BY <1>1
  <1>3. IsList(single)
    BY <1>2, LenIs
  <1>6. Range(single) = {x}
    BY <1>2 DEF Range
  <1>4. Range(<< >>) = {}
    BY DEF Range
  <1>5. QED
    BY <1>1, <1>3, <1>4, <1>6, ListEmpty DEF Words

LEMMA PairIs ==
  ASSUME NEW S, NEW x \in S, NEW y \in S
  PROVE  Words(<< x, y >>, S) /\ Len(<< x, y >>) = 2 /\ << x, y >>[1] = x /\ << x, y >>[2] = y
  <1>1. << x, y >> \in Seq(S)
    OBVIOUS
  <1>2. QED
    BY <1>1, SeqIsWords

(* Piece after piece is put behind what is there.                          *)
IsFlattening(h, s) ==
    /\ h[0] = << >> /\ h[Len(s)] = FlattenSeq(s)
    /\ \A m \in 0..(Len(s) - 1) : h[m + 1] = h[m] \o s[m + 1]

LEMMA FlattenRun ==
  ASSUME NEW s, IsList(s), \A i \in 1..Len(s) : IsList(s[i])
  PROVE  \E h : IsFlattening(h, s)
  <1>1. PICK n : n = Len(s)
    OBVIOUS
  <1>2. n \in Nat /\ DOMAIN s = 1..n
    BY <1>1, LenIsNat
  <1>3. CASE n = 0
    <2>1. FlattenSeq(s) = s /\ s = << >>
      <3>1. FlattenSeq(s) = s
        <4>1. Len(s) = 0
          BY <1>1, <1>3
        <4>2. QED
          BY <4>1, Zenon DEF FlattenSeq
      <3>2. s = << >>
        <4>1. PICK T : s \in Seq(T)
          BY DEF IsList
        <4>2. Len(s) = 0
          BY <1>1, <1>3
        <4>3. QED
          BY <4>1, <4>2, EmptySeq
      <3>3. QED
        BY <3>1, <3>2
    <2>2. PICK h : h = [i \in 0..0 |-> << >>]
      OBVIOUS
    <2>3. h[0] = << >>
      BY <2>2
    <2>4. \A m \in 0..(0 - 1) : FALSE
      OBVIOUS
    <2>5. h[0] = FlattenSeq(s) /\ Len(s) = 0
      BY <1>1, <1>3, <2>1, <2>3
    <2>6. QED
      BY <2>3, <2>4, <2>5, Zenon DEF IsFlattening
  <1>4. CASE n # 0
    <2> DEFINE Flat(f) == f = [i \in 1..n |-> IF i = 1 THEN s[i] ELSE f[i - 1] \o s[i]]
    <2>1. PICK h : IsRun(h, "flatten", s, << >>, n)
      BY <1>2, RunExists
    <2>2. h[0] = << >> /\ \A m \in 0..(n - 1) : h[m + 1] = h[m] \o s[m + 1]
      <3>1. \A old, i : StepOf("flatten", s, old, i) = old \o s[i]
        BY DEF StepOf
      <3>2. \A m \in 0..(n - 1) : m + 1 \in 0..n /\ m + 1 # 0 /\ (m + 1) - 1 = m
        BY <1>2
      <3>3. \A i \in 0..n : h[i] = IF i = 0 THEN << >> ELSE StepOf("flatten", s, h[i - 1], i)
        BY <2>1 DEF IsRun
      <3>4. 0 \in 0..n
        BY <1>2
      <3>5. QED
        BY <3>1, <3>2, <3>3, <3>4
    <2>3. PICK g : g = [i \in 1..n |-> h[i]]
      OBVIOUS
    <2>a. IsList(s[1]) /\ << >> \o s[1] = s[1]
      <3>1. IsList(s[1])
        BY <1>1, <1>2, <1>4
      <3>2. QED
        BY <3>1 DEF IsList
    <2>4. Flat(g)
      <3>1. ASSUME NEW i \in 1..n PROVE g[i] = IF i = 1 THEN s[i] ELSE g[i - 1] \o s[i]
        <4>1. i - 1 \in 0..(n - 1) /\ (i - 1) + 1 = i
          BY <1>2
        <4>2. g[i] = h[i - 1] \o s[i]
          BY <2>2, <2>3, <4>1
        <4>3. CASE i = 1
          <5>1. h[i - 1] = << >>
            BY <2>2, <4>3
          <5>2. QED
            BY <2>a, <4>2, <4>3, <5>1
        <4>4. CASE i # 1
          <5>1. g[i - 1] = h[i - 1]
            BY <1>2, <2>3, <4>4
          <5>2. QED
            BY <4>2, <4>4, <5>1
        <4>5. QED
          BY <4>3, <4>4
      <3>2. DOMAIN g = 1..n /\ g = [i \in 1..n |-> g[i]]
        BY <2>3
      <3>3. QED
        BY <3>1, <3>2
    <2>5. PICK f : f = CHOOSE x : Flat(x)
      OBVIOUS
    <2>6. Flat(f)
      <3> HIDE DEF Flat
      <3>1. QED
        BY <2>4, <2>5
    <2>7. FlattenSeq(s) = f[n]
      BY <1>1, <1>4, <2>5 DEF FlattenSeq
    <2>8. f[1] = s[1] /\ \A m \in 1..(n - 1) : f[m + 1] = f[m] \o s[m + 1]
      <3>1. 1 \in 1..n /\ \A m \in 1..(n - 1) : m + 1 \in 1..n /\ m + 1 # 1 /\ (m + 1) - 1 = m
        BY <1>2, <1>4
      <3>2. QED
        BY <2>6, <3>1
    <2> HIDE DEF Flat
    <2>9. PICK t : t = [i \in 0..n |-> IF i = 0 THEN << >> ELSE f[i]]
      OBVIOUS
    <2>10. t[0] = << >> /\ t[n] = f[n]
      BY <1>2, <1>4, <2>9
    <2>11. ASSUME NEW m \in 0..(n - 1) PROVE t[m + 1] = t[m] \o s[m + 1]
      <3>1. t[m + 1] = f[m + 1]
        BY <1>2, <2>9
      <3>2. CASE m = 0
        <4>1. m + 1 = 1 /\ t[m] = << >>
          BY <2>10, <3>2
        <4>2. t[1] = s[1]
          BY <2>8, <3>1, <4>1
        <4>3. t[m + 1] = << >> \o s[m + 1]
          BY <2>a, <4>1, <4>2
        <4>4. QED
          BY <4>1, <4>3
      <3>3. CASE m # 0
        <4>1. m \in 1..(n - 1) /\ t[m] = f[m]
          BY <1>2, <2>9, <3>3
        <4>2. QED
          BY <2>8, <3>1, <4>1
      <3>4. QED
        BY <3>2, <3>3
    <2>12. QED
      BY <1>1, <2>7, <2>10, <2>11 DEF IsFlattening
  <1>5. QED
    BY <1>3, <1>4

LEMMA FlattenIs ==
  ASSUME NEW s, IsList(s), NEW S, \A i \in 1..Len(s) : Words(s[i], S)
  PROVE  Words(FlattenSeq(s), S)
  <1>1. PICK n : n = Len(s) /\ n \in Nat
    BY LenIsNat
  <1>2. PICK h : IsFlattening(h, s)
    BY FlattenRun DEF Words
  <1>3. /\ h[0] = << >> /\ h[n] = FlattenSeq(s)
        /\ \A m \in 0..(n - 1) : h[m + 1] = h[m] \o s[m + 1]
    BY <1>1, <1>2 DEF IsFlattening
  <1> DEFINE P == {m \in 0..n : Words(h[m], S)}
  <1>4. 0 \in P
    <2>1. Words(<< >>, S)
      BY ListEmpty DEF Words, Range
    <2>2. QED
      BY <1>1, <1>3, <2>1
  <1>5. ASSUME NEW m \in 0..(n - 1), m \in P PROVE m + 1 \in P
    <2>1. PICK old, piece : old = h[m] /\ piece = s[m + 1]
      OBVIOUS
    <2>2. m + 1 \in 1..n /\ m + 1 \in 0..n
      BY <1>1
    <2>3. Words(old, S) /\ Words(piece, S) /\ h[m + 1] = old \o piece
      BY <1>1, <1>3, <1>5, <2>1, <2>2
    <2>4. old \in Seq(S) /\ piece \in Seq(S)
      BY <2>3, SeqMonotonic DEF Words, IsList
    <2>5. old \o piece \in Seq(S)
      BY <2>4
    <2>6. Words(old \o piece, S)
      BY <2>5, SeqIsWords
    <2>7. QED
      BY <2>2, <2>3, <2>6
  <1> HIDE DEF P
  <1>6. n \in P
    <2>1. 0..n \subseteq P
      BY <1>1, <1>4, <1>5, RunInduction
    <2>2. QED
      BY <1>1, <2>1
  <1>7. QED
    BY <1>3, <1>6 DEF P

LEMMA AppendIs ==
  ASSUME NEW s, IsList(s), NEW e
  PROVE  s \o << e >> = Append(s, e)
  <1>1. PICK T : T = Range(s) \cup {e}
    OBVIOUS
  <1>2. s \in Seq(T) /\ e \in T
    BY <1>1, SeqMonotonic DEF IsList
  <1>3. QED
    BY <1>2, AppendIsConcat

(* Each atom is copied, or other words take its place if it cannot belong  *)
(* to a token.                                                             *)
LEMMA FlattenParts ==
  ASSUME NEW text, IsList(text), NEW map, IsList(map), NEW S, Parts(text, map, S),
         NEW pieces, IsList(pieces), Len(pieces) = Len(text),
         \A i \in 1..Len(text) : \/ pieces[i] = << text[i] >>
                                 \/ text[i][1] \notin InTokens /\ Plain(pieces[i], S)
  PROVE  Parts(FlattenSeq(pieces), map, S)
  <1>1. PICK n : n = Len(text) /\ n \in Nat
    BY LenIsNat
  <1>2. ASSUME NEW i \in 1..n PROVE IsList(pieces[i])
    <2>1. CASE pieces[i] = << text[i] >>
      <3>1. PICK x : x = text[i]
        OBVIOUS
      <3>2. Words(<< x >>, {x})
        BY SingleIs
      <3>3. QED
        BY <2>1, <3>1, <3>2 DEF Words
    <2>2. CASE Plain(pieces[i], S)
      BY <2>2 DEF Plain, Words
    <2>3. QED
      BY <1>1, <2>1, <2>2
  <1>3. PICK h : IsFlattening(h, pieces)
    BY <1>1, <1>2, FlattenRun
  <1>4. /\ h[0] = << >> /\ h[n] = FlattenSeq(pieces)
        /\ \A m \in 0..(n - 1) : h[m + 1] = h[m] \o pieces[m + 1]
    BY <1>1, <1>3 DEF IsFlattening
  <1> DEFINE P == {m \in 0..n : IsList(h[m])}
  <1>5. 0 \in P
    BY <1>1, <1>4, ListEmpty
  <1>6. ASSUME NEW m \in 0..(n - 1), m \in P PROVE m + 1 \in P
    <2>1. m + 1 \in 1..n /\ m + 1 \in 0..n
      BY <1>1
    <2>2. PICK old, piece : old = h[m] /\ piece = pieces[m + 1]
      OBVIOUS
    <2>3. IsList(old) /\ IsList(piece) /\ h[m + 1] = old \o piece
      BY <1>2, <1>4, <1>6, <2>1, <2>2
    <2>4. IsList(old \o piece)
      BY <2>3, ListConcat
    <2>5. QED
      BY <2>1, <2>3, <2>4
  <1> HIDE DEF P
  <1>7. \A m \in 0..n : IsList(h[m])
    <2>1. 0..n \subseteq P
      BY <1>1, <1>5, <1>6, RunInduction
    <2>2. QED
      BY <2>1 DEF P
  <1>8. PICK g : g = [i \in 0..n |-> map]
    OBVIOUS
  <1>9. ASSUME NEW i \in 1..n
        PROVE  /\ g[i] = g[i - 1]
               /\ \/ h[i] = Append(h[i - 1], text[i])
                  \/ text[i][1] \notin InTokens /\ \E u : Plain(u, S) /\ h[i] = h[i - 1] \o u
    <2>1. i \in 0..n /\ i - 1 \in 0..n /\ i - 1 \in 0..(n - 1) /\ (i - 1) + 1 = i
      BY <1>1
    <2>2. PICK old, piece : old = h[i - 1] /\ piece = pieces[i]
      OBVIOUS
    <2>3. IsList(old) /\ h[i] = old \o piece
      BY <1>4, <1>7, <2>1, <2>2
    <2>4. g[i] = g[i - 1]
      BY <1>8, <2>1
    <2>5. CASE piece = << text[i] >>
      BY <2>2, <2>3, <2>4, <2>5, AppendIs
    <2>6. CASE text[i][1] \notin InTokens /\ Plain(piece, S)
      BY <2>2, <2>3, <2>4, <2>6
    <2>7. QED
      BY <1>1, <2>2, <2>5, <2>6
  <1>10. IsPass(h, g, text, map, S)
    <2>1. g[0] = map /\ \A i \in 0..n : IsList(g[i])
      BY <1>1, <1>8
    <2>2. QED
      BY <1>1, <1>4, <1>7, <1>9, <2>1 DEF IsPass
  <1>11. g[n] = map
    BY <1>1, <1>8
  <1>12. QED
    BY <1>1, <1>4, <1>10, <1>11, PassParts

(* What is of none of the kinds in tokens is a word of its own.            *)
LEMMA NotInToken ==
  ASSUME NEW text, IsList(text), NEW map, NEW S, Parts(text, map, S),
         NEW i \in 1..Len(text), text[i][1] \notin InTokens
  PROVE  text[i] \in S
  <1>1. Len(text) \in Nat
    BY LenIsNat
  <1>2. PartAt(text, map, S, i) /\ ~Opens(text, i)
    BY DEF Parts, Opens, InTokens
  <1>3. ~Opens(text, i - 1)
    <2> SUFFICES ASSUME Opens(text, i - 1) PROVE FALSE
      OBVIOUS
    <2>1. PartAt(text, map, S, i - 1)
      BY DEF Parts, Opens
    <2>2. PICK n : text[(i - 1) + 1] = <<"number", n>>
      BY <2>1 DEF PartAt, TokenAt
    <2>3. (i - 1) + 1 = i
      BY <1>1
    <2>4. QED
      BY <2>2, <2>3 DEF InTokens
  <1>4. ~Opens(text, i - 2)
    <2> SUFFICES ASSUME Opens(text, i - 2) PROVE FALSE
      OBVIOUS
    <2>1. PartAt(text, map, S, i - 2)
      BY DEF Parts, Opens
    <2>2. text[(i - 2) + 2][1] = "close"
      BY <2>1 DEF PartAt, TokenAt
    <2>3. (i - 2) + 2 = i
      BY <1>1
    <2>4. QED
      BY <2>2, <2>3 DEF InTokens
  <1>5. QED
    BY <1>2, <1>3, <1>4 DEF PartAt
-----------------------------------------------------------------------------
(* What goes into the prompt, turn by turn: the words of the turn, their   *)
(* blanks collapsed, and how often one was repeated.                       *)
LEMMA CollapsedIs ==
  ASSUME NEW text, IsList(text)
  PROVE  LET out == collapseWhitespace(text)
         IN  /\ Words(out, {Unspaced(atom) : atom \in Range(text)})
             /\ \A map, S, T : /\ IsList(map) /\ Parts(text, map, S) /\ S \subseteq T
                               /\ \A atom \in S : Unspaced(atom) \in T
                               /\ \A atom \in T : atom[1] # "open"
                               => Parts(out, map, T)
  <1> DEFINE Piece(i) == IF text[i][1] = "blank" THEN << >> ELSE << Unspaced(text[i]) >>
             All == {Unspaced(atom) : atom \in Range(text)}
  <1>1. PICK n : n = Len(text) /\ n \in Nat /\ DOMAIN text = 1..n
    BY LenIsNat
  <1>2. PICK pieces : pieces = [i \in 1..n |-> Piece(i)]
    OBVIOUS
  <1>3. collapseWhitespace(text) = FlattenSeq(pieces)
    BY <1>1, <1>2 DEF collapseWhitespace
  <1>4. IsList(pieces) /\ Len(pieces) = n
    <2>1. DOMAIN pieces = 1..n /\ pieces = [i \in 1..n |-> pieces[i]]
      BY <1>2
    <2>2. QED
      BY <1>1, <2>1, LenIs
  <1>5. ASSUME NEW i \in 1..n PROVE Words(pieces[i], All)
    <2>1. PICK x : x = Unspaced(text[i]) /\ x \in All
      BY <1>1 DEF Range
    <2>2. pieces[i] = << >> \/ pieces[i] = << x >>
      BY <1>2, <2>1
    <2> HIDE DEF All
    <2>3. QED
      BY <2>1, <2>2, SingleIs
  <1>6. Words(FlattenSeq(pieces), All)
    <2> HIDE DEF All, Piece
    <2>1. QED
      BY <1>4, <1>5, FlattenIs
  <1>7. ASSUME NEW map, NEW S, NEW T, IsList(map), Parts(text, map, S), S \subseteq T,
               \A atom \in S : Unspaced(atom) \in T, \A atom \in T : atom[1] # "open"
        PROVE  Parts(FlattenSeq(pieces), map, T)
    <2>1. Parts(text, map, T)
      BY <1>7, GrowsBy, PartsOfMore
    <2>2. ASSUME NEW i \in 1..n
          PROVE  \/ pieces[i] = << text[i] >>
                 \/ text[i][1] \notin InTokens /\ Plain(pieces[i], T)
      <3>1. PICK atom : atom = text[i]
        OBVIOUS
      <3>2. pieces[i] = IF atom[1] = "blank" THEN << >> ELSE << Unspaced(atom) >>
        BY <1>2, <3>1
      <3>3. CASE atom[1] \in InTokens
        <4>1. atom[1] # "blank" /\ Unspaced(atom) = atom
          BY <3>3 DEF InTokens, Unspaced
        <4>2. QED
          BY <3>1, <3>2, <4>1
      <3>4. CASE atom[1] \notin InTokens
        <4>1. atom \in S
          BY <1>1, <1>7, <3>1, <3>4, NotInToken
        <4>2. PICK x : x = Unspaced(atom)
          OBVIOUS
        <4>3. x \in T /\ x[1] # "open"
          BY <1>7, <4>1, <4>2
        <4>4. pieces[i] = << >> \/ pieces[i] = << x >>
          BY <3>2, <4>2
        <4>5. Words(<< >>, T) /\ Words(<< x >>, T) /\ Range(<< x >>) = {x}
          BY <4>3, SingleIs
        <4>6. Plain(<< >>, T)
          BY <4>5, ListEmpty DEF Plain
        <4>7. Plain(<< x >>, T)
          <5>1. PICK u : u = << x >>
            OBVIOUS
          <5>2. \A j \in 1..Len(u) : u[j] \in {x}
            BY <4>5, <5>1, LenIsNat DEF Words, Range
          <5>3. QED
            BY <4>3, <4>5, <5>1, <5>2 DEF Plain
        <4>8. QED
          BY <3>1, <3>4, <4>4, <4>6, <4>7
      <3>5. QED
        BY <3>3, <3>4
    <2> HIDE DEF Piece
    <2>3. QED
      BY <1>1, <1>4, <1>7, <2>1, <2>2, FlattenParts
  <1> HIDE DEF Piece
  <1>8. QED
    BY <1>3, <1>6, <1>7

Tally(text) == {<<"repeated", Cardinality(I)>> : I \in SUBSET DOMAIN text}

LEMMA CompactedIs ==
  ASSUME NEW text, IsList(text)
  PROVE  LET out == compactRepeatedTokenRuns(text)
         IN  /\ Words(out, Range(text) \cup Tally(text))
             /\ \A map, S : IsList(map) /\ Parts(text, map, S) => Parts(out, map, S \cup Tally(text))
  <1> DEFINE Run(i) == {j \in DOMAIN text : \A k \in (i..j) \cup (j..i) : text[k] = text[i]}
             Piece(i) == IF text[i][1] \notin OneWord \/ Cardinality(Run(i)) < 5 THEN << text[i] >>
                         ELSE IF \A j \in Run(i) : i <= j
                              THEN << text[i], <<"repeated", Cardinality(Run(i))>> >>
                         ELSE << >>
             All == Range(text) \cup Tally(text)
  <1>1. PICK n : n = Len(text) /\ n \in Nat /\ DOMAIN text = 1..n
    BY LenIsNat
  <1>2. PICK pieces : pieces = [i \in 1..n |-> Piece(i)]
    OBVIOUS
  <1>3. compactRepeatedTokenRuns(text) = FlattenSeq(pieces)
    BY <1>1, <1>2 DEF compactRepeatedTokenRuns
  <1>4. IsList(pieces) /\ Len(pieces) = n
    <2>1. DOMAIN pieces = 1..n /\ pieces = [i \in 1..n |-> pieces[i]]
      BY <1>2
    <2>2. QED
      BY <1>1, <2>1, LenIs
  <1>5. ASSUME NEW i \in 1..n
        PROVE  \E atom, times : /\ atom = text[i] /\ times \in Tally(text) /\ times[1] = "repeated"
                                /\ \/ pieces[i] = << atom >>
                                   \/ atom[1] \in OneWord /\ pieces[i] \in {<< >>, << atom, times >>}
    <2>1. Run(i) \in SUBSET DOMAIN text
      OBVIOUS
    <2>2. PICK same : same = Run(i) /\ same \in SUBSET DOMAIN text
      BY <2>1
    <2>3. PICK atom, times : atom = text[i] /\ times = <<"repeated", Cardinality(same)>>
      OBVIOUS
    <2>4. times \in Tally(text) /\ times[1] = "repeated"
      BY <2>2, <2>3 DEF Tally
    <2>5. pieces[i] = Piece(i)
      BY <1>2
    <2>6. \/ pieces[i] = << atom >>
          \/ atom[1] \in OneWord /\ pieces[i] \in {<< >>, << atom, times >>}
      BY <2>2, <2>3, <2>5
    <2>7. QED
      BY <2>3, <2>4, <2>6
  <1> HIDE DEF Run, Piece
  <1>6. ASSUME NEW i \in 1..n PROVE Words(pieces[i], All)
    <2>1. PICK atom, times : /\ atom = text[i] /\ times \in Tally(text)
                             /\ \/ pieces[i] = << atom >>
                                \/ pieces[i] \in {<< >>, << atom, times >>}
      BY <1>5
    <2>2. atom \in All /\ times \in All
      BY <1>1, <2>1 DEF Range
    <2> HIDE DEF All
    <2>3. Words(<< >>, All) /\ Words(<< atom >>, All) /\ Words(<< atom, times >>, All)
      BY <2>2, SingleIs, PairIs
    <2>4. QED
      BY <2>1, <2>3
  <1>7. Words(FlattenSeq(pieces), All)
    <2> HIDE DEF All
    <2>1. QED
      BY <1>4, <1>6, FlattenIs
  <1>8. ASSUME NEW map, NEW S, IsList(map), Parts(text, map, S)
        PROVE  Parts(FlattenSeq(pieces), map, S \cup Tally(text))
    <2>1. PICK T : T = S \cup Tally(text)
      OBVIOUS
    <2>2. Parts(text, map, T)
      BY <1>8, <2>1, GrowsBy, PartsOfMore
    <2>3. ASSUME NEW i \in 1..n
          PROVE  \/ pieces[i] = << text[i] >>
                 \/ text[i][1] \notin InTokens /\ Plain(pieces[i], T)
      <3>1. PICK atom, times : /\ atom = text[i] /\ times \in Tally(text) /\ times[1] = "repeated"
                               /\ \/ pieces[i] = << atom >>
                                  \/ atom[1] \in OneWord /\ pieces[i] \in {<< >>, << atom, times >>}
        BY <1>5
      <3>2. CASE atom[1] \in OneWord /\ pieces[i] \in {<< >>, << atom, times >>}
        <4>1. atom[1] \notin InTokens /\ atom[1] # "open"
          BY <3>2 DEF OneWord, InTokens
        <4>2. atom \in T /\ times \in T
          <5>1. i \in 1..Len(text) /\ text[i][1] \notin InTokens
            BY <1>1, <3>1, <4>1
          <5>2. text[i] \in S
            BY <1>8, <5>1, NotInToken
          <5>3. atom = text[i] /\ times \in Tally(text)
            BY <3>1, Zenon
          <5>4. QED
            BY <2>1, <5>2, <5>3, Zenon
        <4>3. Plain(<< >>, T)
          <5>1. Words(<< >>, T) /\ Len(<< >>) = 0
            BY <4>2, SingleIs, ListEmpty
          <5>2. QED
            BY <5>1 DEF Plain
        <4>4. Plain(<< atom, times >>, T)
          <5>1. PICK u : u = << atom, times >>
            OBVIOUS
          <5>2. Words(u, T) /\ Len(u) = 2 /\ u[1] = atom /\ u[2] = times
            BY <4>2, <5>1, PairIs
          <5>3. \A j \in 1..2 : j = 1 \/ j = 2
            OBVIOUS
          <5>4. ASSUME NEW j \in 1..Len(u) PROVE u[j][1] # "open"
            <6>1. j = 1 \/ j = 2
              BY <5>2, <5>3
            <6>2. u[j] = atom \/ u[j] = times
              BY <5>2, <6>1
            <6>3. times[1] # "open"
              BY <3>1
            <6>4. QED
              BY <4>1, <6>2, <6>3
          <5>5. QED
            BY <5>1, <5>2, <5>4 DEF Plain
        <4>5. QED
          BY <3>1, <3>2, <4>1, <4>3, <4>4
      <3>3. QED
        BY <3>1, <3>2
    <2>4. Parts(FlattenSeq(pieces), map, T)
      BY <1>1, <1>4, <1>8, <2>2, <2>3, FlattenParts
    <2>5. QED
      BY <2>1, <2>4
  <1>9. QED
    BY <1>3, <1>7, <1>8

(* A line of the prompt: what a rule that reaches all its matches would    *)
(* match is there only if collapsing the blanks of the turn made it; and   *)
(* its words are those of the turn, in tokens or not.                      *)
Shown(text, old, rules) ==
    \A i \in 1..Len(text) : \A rule \in Range(rules) :
        ReachesAll(rule) /\ text[i][1] = rule.kind => MatchesCollapsed(old, rule.kind)
Sayable(S, text) == \A atom \in S : atom[1] # "open" /\ (atom[1] = "repeated" \/ atom \in Spoken(text))
LineIs(new, old, pii, map) ==
    /\ new.id = old.id /\ IsList(new.text) /\ Shown(new.text, old.text, RulesOf(pii))
    /\ pii.reversible /\ (\A atom \in Spoken(old.text) : atom[1] # "open")
         => \E S : Sayable(S, old.text) /\ Parts(new.text, map, S)
PromptIs(lines, old, pii, map) ==
    IsList(lines) /\ Len(lines) = Len(old) /\ \A i \in 1..Len(old) : LineIs(lines[i], old[i], pii, map)

LEMMA CollapsedLine ==
  ASSUME NEW pii, Hides(pii), NEW map, IsList(map), NEW old, NEW turn, TurnIs(turn, old, pii, map),
         NEW line, line.id = turn.id, line.text = collapseWhitespace(turn.text)
  PROVE  LineIs(line, old, pii, map)
  <1>1. PICK rules, text, out : rules = RulesOf(pii) /\ text = turn.text /\ out = line.text
    OBVIOUS
  <1>2. Distinct(rules) /\ IsList(text) /\ Hidden(text, old.text, rules) /\ line.id = old.id
    BY <1>1 DEF Hides, TurnIs
  <1>3. /\ Words(out, {Unspaced(atom) : atom \in Range(text)})
        /\ \A S, T : /\ Parts(text, map, S) /\ S \subseteq T
                     /\ \A atom \in S : Unspaced(atom) \in T
                     /\ \A atom \in T : atom[1] # "open"
                     => Parts(out, map, T)
    BY <1>1, <1>2, CollapsedIs
  <1>4. IsList(out) /\ DOMAIN out = 1..Len(out) /\ DOMAIN text = 1..Len(text)
    BY <1>2, <1>3, LenIsNat DEF Words
  <1>5. ASSUME NEW i \in 1..Len(out), NEW rule \in Range(rules), ReachesAll(rule), out[i][1] = rule.kind
        PROVE  MatchesCollapsed(old.text, rule.kind)
    <2>1. PICK atom \in Range(text) : out[i] = Unspaced(atom)
      BY <1>3, <1>4 DEF Words, Range
    <2>2. PICK j \in 1..Len(text) : atom = text[j]
      BY <1>4 DEF Range
    <2>3. atom[1] # rule.kind /\ From(atom, old.text, rules)
      BY <1>2, <1>5, <2>2 DEF Hidden
    <2>4. atom[1] = "spaced" /\ atom[2][1] = rule.kind /\ Unspaced(atom)[1] = rule.kind
      BY <1>5, <2>1, <2>3 DEF Unspaced
    <2>5. rule.kind \notin WrittenByMasking(rules)
      BY <1>2, RuleApart
    <2>6. atom \in Range(old.text)
      BY <2>3, <2>4, <2>5 DEF From
    <2>7. QED
      BY <2>4, <2>6 DEF MatchesCollapsed
  <1>6. ASSUME pii.reversible, \A atom \in Spoken(old.text) : atom[1] # "open"
        PROVE  \E S : Sayable(S, old.text) /\ Parts(out, map, S)
    <2>1. Range(old.text) \subseteq Spoken(old.text) /\ \A atom \in Range(old.text) : Unspaced(atom) \in Spoken(old.text)
      BY DEF Spoken
    <2>2. "open" \notin KindsIn(old.text)
      BY <1>6, <2>1 DEF KindsIn
    <2>3. Parts(text, map, Range(old.text))
      BY <1>1, <1>6, <2>2 DEF TurnIs
    <2>4. Parts(out, map, Spoken(old.text))
      BY <1>3, <1>6, <2>1, <2>3
    <2>5. Sayable(Spoken(old.text), old.text)
      BY <1>6 DEF Sayable
    <2>6. QED
      BY <2>4, <2>5
  <1>7. QED
    BY <1>1, <1>2, <1>4, <1>5, <1>6 DEF LineIs, Shown

LEMMA CompactedLine ==
  ASSUME NEW pii, Hides(pii), NEW map, IsList(map), NEW old, NEW line, LineIs(line, old, pii, map),
         NEW new, new.id = line.id, new.text = compactRepeatedTokenRuns(line.text)
  PROVE  LineIs(new, old, pii, map)
  <1>1. PICK rules, text, out : rules = RulesOf(pii) /\ text = line.text /\ out = new.text
    OBVIOUS
  <1>2. Distinct(rules) /\ IsList(text) /\ Shown(text, old.text, rules) /\ new.id = old.id
    BY <1>1 DEF Hides, LineIs
  <1>3. /\ Words(out, Range(text) \cup Tally(text))
        /\ \A S : Parts(text, map, S) => Parts(out, map, S \cup Tally(text))
    BY <1>1, <1>2, CompactedIs
  <1>4. IsList(out) /\ DOMAIN out = 1..Len(out) /\ DOMAIN text = 1..Len(text)
    BY <1>2, <1>3, LenIsNat DEF Words
  <1>5. \A atom \in Tally(text) : atom[1] = "repeated"
    BY DEF Tally
  <1>6. ASSUME NEW i \in 1..Len(out), NEW rule \in Range(rules), ReachesAll(rule), out[i][1] = rule.kind
        PROVE  MatchesCollapsed(old.text, rule.kind)
    <2>1. out[i] \in Range(text) \cup Tally(text)
      BY <1>3, <1>4 DEF Words, Range
    <2>2. rule.kind \notin WrittenByMasking(rules) /\ "repeated" \in WrittenByMasking(rules)
      BY <1>2, RuleApart DEF WrittenByMasking
    <2>3. out[i] \in Range(text)
      BY <1>5, <1>6, <2>1, <2>2
    <2>4. PICK j \in 1..Len(text) : out[i] = text[j]
      BY <1>4, <2>3 DEF Range
    <2>5. QED
      BY <1>2, <1>6, <2>4 DEF Shown
  <1>7. ASSUME NEW S, Sayable(S, old.text), Parts(text, map, S)
        PROVE  \E T : Sayable(T, old.text) /\ Parts(out, map, T)
    <2>1. Parts(out, map, S \cup Tally(text))
      BY <1>3, <1>7
    <2>2. Sayable(S \cup Tally(text), old.text)
      BY <1>5, <1>7 DEF Sayable
    <2>3. QED
      BY <2>1, <2>2
  <1>8. QED
    BY <1>1, <1>2, <1>4, <1>6, <1>7 DEF LineIs, Shown

LEMMA LinesAre ==
  ASSUME NEW case \in Range(Cases), NEW pii, pii = case.pii, Hides(pii)
  PROVE  LET map == prepareRequest(case.transcript, pii).map
         IN  IsList(map) /\ PromptIs(Before(case).lines, case.transcript.turns, pii, map)
  <1>1. PICK prepared : prepared = prepareRequest(case.transcript, pii)
    OBVIOUS
  <1>2. PICK old, ready, map : old = case.transcript.turns /\ ready = prepared.transcript.turns /\ map = prepared.map
    OBVIOUS
  <1>3. IsList(map) /\ TurnsAre(ready, old, pii, map)
    BY <1>1, <1>2, MaskedTurns, TokenizedTurns
  <1>4. PICK turns : turns = normalizeTranscript(prepared.transcript)
    OBVIOUS
  <1>5. PICK assignments, prompt, lines :
            /\ assignments = resolveSpeakers(turns, case.pack)
            /\ prompt = buildCanonicalAnalysisPrompt(turns, assignments)
            /\ lines = IF case.structured THEN prompt ELSE CompactContext(prompt)
    OBVIOUS
  <1>6. Before(case).lines = lines
    BY <1>1, <1>4, <1>5 DEF Before
  <1>7. Len(old) \in Nat /\ DOMAIN ready = 1..Len(old)
    <2>1. IsList(old)
      BY <1>2 DEF CaseForm
    <2>2. QED
      BY <1>3, <2>1, LenIsNat DEF TurnsAre
  <1>8. /\ DOMAIN turns = 1..Len(old)
        /\ \A i \in 1..Len(old) : turns[i].id = ready[i].id /\ turns[i].text = collapseWhitespace(ready[i].text)
    BY <1>2, <1>4, <1>7 DEF normalizeTranscript
  <1>9. /\ DOMAIN prompt = 1..Len(old) /\ prompt = [i \in 1..Len(old) |-> prompt[i]]
        /\ \A i \in 1..Len(old) : /\ {"id", "name", "text"} \subseteq DOMAIN prompt[i]
                                  /\ prompt[i].id = turns[i].id /\ prompt[i].text = turns[i].text
    BY <1>5, <1>8 DEF buildCanonicalAnalysisPrompt
  <1>10. ASSUME NEW i \in 1..Len(old) PROVE LineIs(prompt[i], old[i], pii, map)
    <2>1. PICK a, b, before : a = old[i] /\ b = prompt[i] /\ before = ready[i]
      OBVIOUS
    <2>2. TurnIs(before, a, pii, map)
      BY <1>3, <2>1 DEF TurnsAre
    <2>3. b.id = before.id /\ b.text = collapseWhitespace(before.text)
      BY <1>8, <1>9, <2>1
    <2>4. LineIs(b, a, pii, map)
      BY <1>3, <2>2, <2>3, CollapsedLine
    <2>5. QED
      BY <2>1, <2>4
  <1>11. CASE case.structured
    <2>1. IsList(prompt) /\ Len(prompt) = Len(old)
      BY <1>7, <1>9, LenIs
    <2>2. QED
      BY <1>1, <1>2, <1>3, <1>5, <1>6, <1>10, <1>11, <2>1 DEF PromptIs
  <1>12. CASE ~case.structured
    <2>1. /\ DOMAIN lines = 1..Len(old)
          /\ \A i \in 1..Len(old) :
                lines[i] = [prompt[i] EXCEPT !.name = compactRepeatedTokenRuns(prompt[i].name),
                                             !.text = compactRepeatedTokenRuns(prompt[i].text)]
      BY <1>5, <1>9, <1>12 DEF CompactContext
    <2>2. lines = [i \in 1..Len(old) |-> lines[i]]
      BY <1>5, <1>9, <1>12 DEF CompactContext
    <2>3. IsList(lines) /\ Len(lines) = Len(old)
      BY <1>7, <2>1, <2>2, LenIs
    <2>4. ASSUME NEW i \in 1..Len(old) PROVE LineIs(lines[i], old[i], pii, map)
      <3>1. PICK a, b, before, name, text :
                /\ a = old[i] /\ b = lines[i] /\ before = prompt[i]
                /\ name = compactRepeatedTokenRuns(before.name)
                /\ text = compactRepeatedTokenRuns(before.text)
        OBVIOUS
      <3>2. b = [before EXCEPT !.name = name, !.text = text] /\ {"id", "name", "text"} \subseteq DOMAIN before
        BY <1>9, <2>1, <3>1
      <3>3. b.id = before.id /\ b.text = text
        BY <3>2
      <3>4. LineIs(before, a, pii, map)
        BY <1>10, <3>1
      <3>5. LineIs(b, a, pii, map)
        BY <1>3, <3>1, <3>3, <3>4, CompactedLine
      <3>6. QED
        BY <3>1, <3>5
    <2>5. QED
      BY <1>1, <1>2, <1>3, <1>6, <2>3, <2>4 DEF PromptIs
  <1>13. QED
    BY <1>11, <1>12
-----------------------------------------------------------------------------
(* Decoding puts the words back.                                           *)
LEMMA DecodeIs ==
  ASSUME NEW text, IsList(text), NEW map, IsList(map), NEW S, Parts(text, map, S)
  PROVE  Words(decode(text, map), S)
  <1> DEFINE IsToken(i) == /\ i \in 1..(Len(text) - 2)
                           /\ text[i][1] = "open" /\ text[i + 2][1] = "close"
                           /\ text[i + 1][1] = "number" /\ text[i + 1][2] \in 0..(Len(map) - 1)
             Piece(i) == IF IsToken(i) THEN map[text[i + 1][2] + 1]
                         ELSE IF IsToken(i - 1) \/ IsToken(i - 2) THEN << >>
                         ELSE << text[i] >>
  <1>1. PICK n : n = Len(text)
    OBVIOUS
  <1>2. n \in Nat /\ DOMAIN text = 1..n
    BY <1>1, LenIsNat
  <1>3. PICK pieces : pieces = [i \in 1..n |-> Piece(i)]
    OBVIOUS
  <1>4. decode(text, map) = FlattenSeq(pieces)
    BY <1>2, <1>3 DEF decode
  <1>5. ASSUME NEW j, Opens(text, j)
        PROVE  IsToken(j) /\ Words(map[text[j + 1][2] + 1], S)
    <2>1. j \in 1..n /\ text[j][1] = "open" /\ TokenAt(text, map, S, j)
      BY <1>1, <1>5 DEF Opens, Parts, PartAt
    <2>2. PICK k \in 0..(Len(map) - 1) : text[j + 1] = <<"number", k>> /\ Words(map[k + 1], S)
      BY <2>1 DEF TokenAt
    <2>3. text[j + 1][1] = "number" /\ text[j + 1][2] = k
      BY <2>2
    <2>4. j \in 1..(Len(text) - 2) /\ text[j + 2][1] = "close"
      BY <1>1, <1>2, <2>1 DEF TokenAt
    <2>5. QED
      BY <2>1, <2>2, <2>3, <2>4
  <1>6. ASSUME NEW i \in 1..n PROVE Words(Piece(i), S)
    <2>1. PartAt(text, map, S, i)
      BY <1>1 DEF Parts
    <2>2. CASE IsToken(i)
      <3>1. Opens(text, i)
        BY <1>1, <2>2 DEF Opens
      <3>2. QED
        BY <1>5, <2>2, <3>1
    <2>3. CASE ~IsToken(i) /\ (IsToken(i - 1) \/ IsToken(i - 2))
      <3>1. Piece(i) = << >>
        BY <2>3
      <3>2. Words(<< >>, S)
        BY ListEmpty DEF Words, Range
      <3>3. QED
        BY <3>1, <3>2
    <2>4. CASE ~IsToken(i) /\ ~IsToken(i - 1) /\ ~IsToken(i - 2)
      <3>1. ~Opens(text, i) /\ ~Opens(text, i - 1) /\ ~Opens(text, i - 2)
        <4> HIDE DEF IsToken
        <4>1. QED
          BY <1>5, <2>4
      <3>2. text[i] \in S
        BY <2>1, <3>1 DEF PartAt
      <3>3. Piece(i) = << text[i] >>
        BY <2>4
      <3>4. QED
        BY <3>2, <3>3, SingleIs
    <2>5. QED
      BY <2>2, <2>3, <2>4
  <1> HIDE DEF Piece
  <1>7. DOMAIN pieces = 1..n /\ pieces = [i \in 1..n |-> pieces[i]] /\ \A i \in 1..n : Words(pieces[i], S)
    BY <1>3, <1>6
  <1>8. IsList(pieces) /\ Len(pieces) = n
    BY <1>2, <1>7, LenIs
  <1>9. QED
    BY <1>4, <1>7, <1>8, FlattenIs

(* The first sentences of a text end outside its tokens.                   *)
LEMMA CutParts ==
  ASSUME NEW text, IsList(text), NEW map, NEW S, Parts(text, map, S)
  PROVE  LET cut == extractLeadingSentences(text) IN IsList(cut) /\ Parts(cut, map, S)
  <1>1. PICK n, places, stops : /\ n = Len(text) /\ places = [i \in DOMAIN text |-> i]
                                /\ stops = {i \in DOMAIN text : text[i][1] = "stop"}
    OBVIOUS
  <1>2. PICK ends : ends = Kept(places, stops)
    OBVIOUS
  <1>3. PICK cut : cut = extractLeadingSentences(text)
    OBVIOUS
  <1>4. n \in Nat /\ DOMAIN text = 1..n
    BY <1>1, LenIsNat
  <1>5. cut = IF ends = << >> THEN text
              ELSE SubSeq(text, 1, ends[IF Len(ends) < 3 THEN Len(ends) ELSE 3])
    BY <1>1, <1>2, <1>3 DEF extractLeadingSentences
  <1>6. IsList(places) /\ Len(places) = n /\ Range(places) = 1..n
    <2>1. DOMAIN places = 1..n /\ places = [i \in 1..n |-> places[i]] /\ \A i \in 1..n : places[i] = i
      BY <1>1, <1>4
    <2>2. QED
      BY <1>4, <2>1, LenIs DEF Range
  <1>7. CASE ends = << >>
    BY <1>3, <1>5, <1>7
  <1>8. CASE ends # << >>
    <2>1. PICK g : ComesFrom(g, ends, places, stops, n)
      BY <1>2, <1>6, KeptComesFrom DEF IsList
    <2>2. IsList(ends)
      BY <1>2, <1>6, KeptIsList
    <2>3. Len(ends) \in Nat /\ Len(ends) # 0
      BY <1>8, <2>2 DEF IsList
    <2>4. PICK k : k = IF Len(ends) < 3 THEN Len(ends) ELSE 3
      OBVIOUS
    <2>5. k \in 1..Len(ends)
      BY <2>3, <2>4
    <2>6. PICK m : m = ends[k]
      OBVIOUS
    <2>7. m \in stops
      BY <2>1, <2>5, <2>6 DEF ComesFrom
    <2>8. m \in 1..n /\ text[m][1] = "stop" /\ cut = SubSeq(text, 1, m)
      BY <1>1, <1>4, <1>5, <1>8, <2>4, <2>6, <2>7
    <2>9. /\ cut \in Seq(Range(text)) /\ Len(cut) = m /\ \A i \in 1..m : cut[i] = text[i]
      <3>1. PICK T : T = Range(text)
        OBVIOUS
      <3>2. \A i \in 1..m : text[i] \in T
        BY <1>4, <2>8, <3>1 DEF Range
      <3>3. /\ SubSeq(text, 1, m) \in Seq(T) /\ Len(SubSeq(text, 1, m)) = IF 1 <= m THEN m - 1 + 1 ELSE 0
            /\ \A i \in 1..(m - 1 + 1) : SubSeq(text, 1, m)[i] = text[1 + i - 1]
        BY <2>8, <3>2, SubSeqProperties
      <3>4. \A i \in 1..m : i \in 1..(m - 1 + 1) /\ 1 + i - 1 = i
        BY <2>8
      <3>5. QED
        BY <2>8, <3>1, <3>3, <3>4
    <2>10. IsList(cut)
      <3>1. PICK T : cut \in Seq(T)
        BY <2>9
      <3>2. QED
        BY <3>1, ListIs
    <2>11. ASSUME NEW i \in 1..m PROVE PartAt(cut, map, S, i)
      <3>1. i \in 1..n /\ PartAt(text, map, S, i)
        BY <1>1, <1>4, <2>8 DEF Parts
      <3>2. \A j \in {i - 2, i - 1, i} : Opens(cut, j) <=> Opens(text, j)
        BY <1>1, <1>4, <2>8, <2>9 DEF Opens
      <3>3. ASSUME Opens(text, i) PROVE TokenAt(cut, map, S, i)
        <4>1. TokenAt(text, map, S, i) /\ text[i][1] = "open"
          BY <3>1, <3>3 DEF PartAt, Opens
        <4>2. PICK k2 \in 0..(Len(map) - 1) : text[i + 1] = <<"number", k2>> /\ Words(map[k2 + 1], S)
          BY <4>1 DEF TokenAt
        <4>3. text[i + 1][1] = "number" /\ text[i + 2][1] = "close"
          BY <4>1, <4>2 DEF TokenAt
        <4>4. m # i /\ m # i + 1 /\ m # i + 2
          BY <2>8, <4>1, <4>3
        <4>5. i + 2 <= m /\ i + 1 \in 1..m /\ i + 2 \in 1..m
          BY <2>8, <4>4
        <4>6. cut[i + 1] = text[i + 1] /\ cut[i + 2] = text[i + 2]
          BY <2>9, <4>5
        <4>7. QED
          BY <2>9, <4>2, <4>3, <4>5, <4>6 DEF TokenAt
      <3>4. cut[i] = text[i]
        BY <2>9
      <3>5. QED
        BY <3>1, <3>2, <3>3, <3>4 DEF PartAt
    <2>12. Parts(cut, map, S)
      BY <2>9, <2>11 DEF Parts
    <2>13. QED
      BY <1>3, <2>10, <2>12
  <1>9. QED
    BY <1>7, <1>8
-----------------------------------------------------------------------------
(* A text that is made of what was said in the turn it is said to be from, *)
(* but for how often a word was repeated, or stands for the line of a turn *)
(* without text, or for a turn that is not there.                          *)
MadeUp == {"line", "unresolved"}
Allowed(S, transcript, id) ==
    \/ \A atom \in S : atom[1] = "repeated" \/ atom \in SaidIn(transcript, id)
    \/ \A atom \in S : atom[1] \in MadeUp
Faithful(text, map, transcript, id) ==
    IsList(text) /\ \E S : Allowed(S, transcript, id) /\ Parts(text, map, S)
IsSaid(text, transcript, id) ==
    \/ \A atom \in Range(text) : atom[1] = "repeated" \/ atom \in SaidIn(transcript, id)
    \/ KindsIn(text) \subseteq MadeUp
Restored(e, transcript) == e.by = "model" \/ IsSaid(e.quote, transcript, e.id)

LEMMA AllowedIs ==
  ASSUME NEW text, NEW S, Range(text) \subseteq S, NEW transcript, NEW id, Allowed(S, transcript, id)
  PROVE  IsSaid(text, transcript, id)
  BY DEF Allowed, IsSaid, KindsIn

LEMMA DecodedIsSaid ==
  ASSUME NEW text, NEW map, IsList(map), NEW transcript, NEW id, Faithful(text, map, transcript, id)
  PROVE  IsSaid(decode(text, map), transcript, id)
  <1>1. PICK S : Allowed(S, transcript, id) /\ Parts(text, map, S)
    BY DEF Faithful
  <1>2. PICK out : out = decode(text, map)
    OBVIOUS
  <1>3. Range(out) \subseteq S
    BY <1>1, <1>2, DecodeIs DEF Faithful, Words
  <1>4. QED
    BY <1>1, <1>2, <1>3, AllowedIs

(* Without a map there are no tokens.                                      *)
LEMMA PlainIsSaid ==
  ASSUME NEW text, NEW transcript, NEW id, Faithful(text, << >>, transcript, id)
  PROVE  IsSaid(text, transcript, id)
  <1>1. PICK S : Allowed(S, transcript, id) /\ Parts(text, << >>, S)
    BY DEF Faithful
  <1>2. ASSUME NEW j PROVE ~Opens(text, j)
    <2> SUFFICES ASSUME Opens(text, j) PROVE FALSE
      OBVIOUS
    <2>1. TokenAt(text, << >>, S, j)
      BY <1>1 DEF Parts, PartAt, Opens
    <2>2. PICK n \in 0..(Len(<< >>) - 1) : TRUE
      BY <2>1 DEF TokenAt
    <2>3. QED
      BY <2>2, ListEmpty
  <1>3. DOMAIN text = 1..Len(text)
    BY LenIsNat DEF Faithful
  <1>4. Range(text) \subseteq S
    BY <1>1, <1>2, <1>3 DEF Parts, PartAt, Range
  <1>5. QED
    BY <1>1, <1>4, AllowedIs

LEMMA MadeUpIsFaithful ==
  ASSUME NEW atom, atom[1] \in MadeUp, NEW map, NEW transcript, NEW id
  PROVE  Faithful(<< atom >>, map, transcript, id)
  <1>1. PICK text : text = << atom >>
    OBVIOUS
  <1>2. IsList(text) /\ Range(text) = {atom}
    BY <1>1, SingleIs DEF Words
  <1>3. KindsIn(text) = {atom[1]}
    BY <1>2 DEF KindsIn
  <1>4. Parts(text, map, Range(text))
    BY <1>2, <1>3, PlainParts DEF MadeUp
  <1>5. Allowed(Range(text), transcript, id)
    BY <1>2 DEF Allowed
  <1>6. QED
    BY <1>1, <1>2, <1>4, <1>5 DEF Faithful

LEMMA CutIsFaithful ==
  ASSUME NEW text, NEW map, NEW transcript, NEW id, Faithful(text, map, transcript, id)
  PROVE  Faithful(extractLeadingSentences(text), map, transcript, id)
  <1>1. PICK S : Allowed(S, transcript, id) /\ Parts(text, map, S)
    BY DEF Faithful
  <1>2. PICK cut : cut = extractLeadingSentences(text)
    OBVIOUS
  <1>3. IsList(cut) /\ Parts(cut, map, S)
    BY <1>1, <1>2, CutParts DEF Faithful
  <1>4. QED
    BY <1>1, <1>2, <1>3 DEF Faithful
-----------------------------------------------------------------------------
(* The lines of the prompt, and the turns that are read back from it.      *)
AreFaithful(turns, map, transcript) ==
    /\ IsList(turns)
    /\ \A i \in 1..Len(turns) : Faithful(turns[i].text, map, transcript, turns[i].id)

LEMMA LinesAreFaithful ==
  ASSUME NEW case \in Range(Cases), NEW pii, pii = case.pii, pii.reversible,
         NEW lines, NEW map, PromptIs(lines, case.transcript.turns, pii, map), ~HasTokens(case.transcript)
  PROVE  AreFaithful(lines, map, case.transcript)
  <1>1. PICK transcript, old : transcript = case.transcript /\ old = transcript.turns
    OBVIOUS
  <1>2. IsList(old)
    BY <1>1 DEF CaseForm
  <1>3. DOMAIN old = 1..Len(old) /\ IsList(lines) /\ Len(lines) = Len(old)
    BY <1>1, <1>2, LenIsNat DEF PromptIs
  <1>4. ASSUME NEW i \in 1..Len(lines)
        PROVE  Faithful(lines[i].text, map, transcript, lines[i].id)
    <2>1. PICK a, b : a = old[i] /\ b = lines[i]
      OBVIOUS
    <2>2. LineIs(b, a, pii, map) /\ a \in Range(old)
      BY <1>1, <1>3, <2>1 DEF PromptIs, Range
    <2>3. \A atom \in Spoken(a.text) : atom[1] # "open"
      BY <1>1, <2>2 DEF HasTokens
    <2>4. PICK S : Sayable(S, a.text) /\ Parts(b.text, map, S)
      BY <2>2, <2>3 DEF LineIs
    <2>5. b.id = a.id /\ IsList(b.text)
      BY <2>2 DEF LineIs
    <2>6. Spoken(a.text) \subseteq SaidIn(transcript, b.id)
      BY <1>1, <2>2, <2>5 DEF SaidIn, TurnsNamed
    <2>7. Allowed(S, transcript, b.id)
      BY <2>4, <2>6 DEF Sayable, Allowed
    <2>8. QED
      BY <2>1, <2>4, <2>5, <2>7 DEF Faithful
  <1>5. QED
    BY <1>1, <1>3, <1>4 DEF AreFaithful

(* The first element of a list that fits.                                  *)
LEMMA FirstOf ==
  ASSUME NEW n \in Nat, NEW I, I \subseteq 1..n, NEW at, at = IF I # {} THEN Min(I) ELSE 0, at # 0
  PROVE  at \in I
  <1>1. I \in SUBSET Nat /\ I # {}
    OBVIOUS
  <1>2. Min(I) \in I
    BY <1>1, MinOf
  <1>3. QED
    BY <1>1, <1>2

LEMMA PutIsFaithful ==
  ASSUME NEW turns, NEW map, NEW transcript, AreFaithful(turns, map, transcript),
         NEW turn, Faithful(turn.text, map, transcript, turn.id)
  PROVE  AreFaithful(PutTurn(turns, turn), map, transcript)
  <1>1. PICK n, I : n = Len(turns) /\ I = {i \in 1..Len(turns) : turns[i].id = turn.id}
    OBVIOUS
  <1>2. PICK at : at = IF I # {} THEN Min(I) ELSE 0
    OBVIOUS
  <1>3. n \in Nat /\ IsList(turns) /\ DOMAIN turns = 1..n
    BY <1>1, LenIsNat DEF AreFaithful
  <1>4. PICK new : new = PutTurn(turns, turn)
    OBVIOUS
  <1>5. new = IF at = 0 THEN Append(turns, turn) ELSE [turns EXCEPT ![at] = turn]
    BY <1>1, <1>2, <1>4 DEF PutTurn, SelectInSeq
  <1>6. CASE at = 0
    <2>1. new = Append(turns, turn)
      BY <1>5, <1>6
    <2>2. /\ IsList(new) /\ Len(new) = n + 1 /\ new[n + 1] = turn
          /\ \A i \in 1..n : new[i] = turns[i]
      BY <1>1, <1>3, <2>1, ListAppend
    <2>3. \A i \in 1..Len(new) : i \in 1..n \/ i = n + 1
      BY <1>3, <2>2
    <2>4. QED
      BY <1>1, <1>4, <2>2, <2>3 DEF AreFaithful
  <1>7. CASE at # 0
    <2>1. new = [turns EXCEPT ![at] = turn]
      BY <1>5, <1>7
    <2>2. /\ DOMAIN new = 1..n /\ new = [i \in 1..n |-> new[i]]
          /\ \A i \in 1..n : new[i] = IF i = at THEN turn ELSE turns[i]
      BY <1>3, <2>1
    <2>3. IsList(new) /\ Len(new) = n
      BY <1>3, <2>2, LenIs
    <2>4. \A i \in 1..Len(new) : Faithful(new[i].text, map, transcript, new[i].id)
      BY <1>1, <2>2, <2>3 DEF AreFaithful
    <2>5. QED
      BY <1>4, <2>3, <2>4 DEF AreFaithful
  <1>8. QED
    BY <1>6, <1>7

LEMMA ReadIsFaithful ==
  ASSUME NEW lines, NEW map, NEW transcript, AreFaithful(lines, map, transcript)
  PROVE  AreFaithful(extractTurnTextsFromContext(lines), map, transcript)
  <1>1. PICK n : n = Len(lines)
    OBVIOUS
  <1>2. n \in Nat
    BY <1>1, LenIsNat DEF AreFaithful
  <1>3. PICK f : f = CHOOSE h : IsRead(h, lines, n)
    OBVIOUS
  <1>4. IsRead(f, lines, n)
    BY <1>2, <1>3, ReadExists
  <1>5. extractTurnTextsFromContext(lines) = f[n].turns
    BY <1>1, <1>3 DEF extractTurnTextsFromContext, IsRead
  <1>6. f[0] = [turns |-> << >>, taken |-> 0] /\ \A m \in 0..(n - 1) : f[m + 1] = ReadLine(f[m], lines, m + 1)
    BY <1>2, <1>4 DEF IsRead
  <1> DEFINE P == {m \in 0..n : AreFaithful(f[m].turns, map, transcript)}
  <1>7. 0 \in P
    <2>1. f[0].turns = << >>
      BY <1>6
    <2>2. AreFaithful(<< >>, map, transcript)
      BY ListEmpty DEF AreFaithful
    <2>3. QED
      BY <1>2, <2>1, <2>2
  <1>8. ASSUME NEW m \in 0..(n - 1), m \in P PROVE m + 1 \in P
    <2>1. PICK old, new, turn : old = f[m] /\ new = f[m + 1] /\ turn = TurnOfLine(lines, m + 1)
      OBVIOUS
    <2>2. AreFaithful(old.turns, map, transcript) /\ new = ReadLine(old, lines, m + 1)
      BY <1>6, <1>8, <2>1
    <2>3. m + 1 \in 1..n /\ m + 1 \in 0..n
      BY <1>2
    <2>4. Faithful(turn.text, map, transcript, turn.id)
      <3>1. PICK line : line = lines[m + 1]
        OBVIOUS
      <3>2. Faithful(line.text, map, transcript, line.id)
        BY <1>1, <2>3, <3>1 DEF AreFaithful
      <3>3. /\ turn.id = line.id
            /\ turn.text = IF line.text # << >> THEN line.text ELSE << <<"line", (m + 1) + 1>> >>
        BY <2>1, <3>1 DEF TurnOfLine
      <3>4. PICK atom : atom = <<"line", (m + 1) + 1>>
        OBVIOUS
      <3>5. atom[1] \in MadeUp
        BY <3>4 DEF MadeUp
      <3>6. Faithful(<< atom >>, map, transcript, line.id)
        BY <3>5, MadeUpIsFaithful
      <3>7. QED
        BY <3>2, <3>3, <3>4, <3>6
    <2>5. new = old \/ new.turns = PutTurn(old.turns, turn)
      BY <2>1, <2>2 DEF ReadLine
    <2>6. AreFaithful(PutTurn(old.turns, turn), map, transcript)
      BY <2>2, <2>4, PutIsFaithful
    <2>7. AreFaithful(new.turns, map, transcript)
      BY <2>2, <2>5, <2>6
    <2>8. QED
      BY <2>1, <2>3, <2>7
  <1> HIDE DEF P
  <1>9. 0..n \subseteq P
    BY <1>2, <1>7, <1>8, RunInduction
  <1>10. AreFaithful(f[n].turns, map, transcript)
    BY <1>2, <1>9 DEF P
  <1>11. QED
    BY <1>5, <1>10
-----------------------------------------------------------------------------
(* What is quoted from the prompt, by the model or as fallback evidence.   *)
FaithfulQuote(e, map, transcript) ==
    /\ {"id", "quote", "by"} \subseteq DOMAIN e
    /\ e.by = "model" \/ Faithful(e.quote, map, transcript, e.id)
QuotesAreFaithful(evidence, map, transcript) ==
    \A k \in DOMAIN evidence : FaithfulQuote(evidence[k], map, transcript)
Traced(items, map, transcript) ==
    \A i \in DOMAIN items : "evidence" \in DOMAIN items[i]
                              /\ QuotesAreFaithful(items[i].evidence, map, transcript)

LEMMA FallbackIsFaithful ==
  ASSUME NEW turns, NEW map, NEW transcript, AreFaithful(turns, map, transcript), NEW actor, NEW preferred
  PROVE  QuotesAreFaithful(buildFallbackEvidence(actor, turns, preferred), map, transcript)
  <1> DEFINE Quote(i) == << [id |-> turns[i].id, role |-> actor, by |-> "engine",
                             quote |-> extractLeadingSentences(turns[i].text)] >>
             Nobody == << [id |-> "t1", role |-> actor, by |-> "engine",
                           quote |-> << <<"unresolved", 0>> >>] >>
  <1>1. PICK n : n = Len(turns)
    OBVIOUS
  <1>2. n \in Nat /\ DOMAIN turns = 1..n /\ IsList(turns)
    BY <1>1, LenIsNat DEF AreFaithful
  <1>3. PICK out : out = buildFallbackEvidence(actor, turns, preferred)
    OBVIOUS
  <1>4. PICK I, J : I = {i \in 1..n : turns[i].id = preferred} /\ J = {i \in 1..n : turns[i].role = actor}
    OBVIOUS
  <1>5. PICK wanted, byActor : /\ wanted = IF I # {} THEN Min(I) ELSE 0
                               /\ byActor = IF J # {} THEN Min(J) ELSE 0
    OBVIOUS
  <1>6. out = IF wanted # 0 THEN Quote(wanted)
              ELSE IF byActor # 0 THEN Quote(byActor)
              ELSE IF turns # << >> THEN Quote(1) ELSE Nobody
    BY <1>1, <1>3, <1>4, <1>5 DEF buildFallbackEvidence, SelectInSeq
  <1>7. ASSUME NEW i \in 1..n PROVE QuotesAreFaithful(Quote(i), map, transcript)
    <2>1. PICK turn, cut : turn = turns[i] /\ cut = extractLeadingSentences(turn.text)
      OBVIOUS
    <2>2. Faithful(turn.text, map, transcript, turn.id)
      BY <1>1, <2>1 DEF AreFaithful
    <2>3. Faithful(cut, map, transcript, turn.id)
      BY <2>1, <2>2, CutIsFaithful
    <2>4. PICK e : e = [id |-> turn.id, role |-> actor, by |-> "engine", quote |-> cut]
      OBVIOUS
    <2>5. FaithfulQuote(e, map, transcript)
      BY <2>3, <2>4 DEF FaithfulQuote
    <2>6. Quote(i) = << e >>
      BY <2>1, <2>4
    <2>7. QED
      BY <2>5, <2>6 DEF QuotesAreFaithful
  <1>8. QuotesAreFaithful(Nobody, map, transcript)
    <2>1. PICK atom : atom = <<"unresolved", 0>>
      OBVIOUS
    <2>2. atom[1] \in MadeUp
      BY <2>1 DEF MadeUp
    <2>3. Faithful(<< atom >>, map, transcript, "t1")
      BY <2>2, MadeUpIsFaithful
    <2>4. PICK e : e = [id |-> "t1", role |-> actor, by |-> "engine", quote |-> << atom >>]
      OBVIOUS
    <2>5. FaithfulQuote(e, map, transcript)
      BY <2>3, <2>4 DEF FaithfulQuote
    <2>6. Nobody = << e >>
      BY <2>1, <2>4
    <2>7. QED
      BY <2>5, <2>6 DEF QuotesAreFaithful
  <1> HIDE DEF Quote, Nobody
  <1>9. CASE wanted # 0
    <2>1. wanted \in I
      BY <1>2, <1>4, <1>5, <1>9, FirstOf
    <2>2. QED
      BY <1>3, <1>4, <1>6, <1>7, <1>9, <2>1
  <1>10. CASE wanted = 0 /\ byActor # 0
    <2>1. byActor \in J
      BY <1>2, <1>4, <1>5, <1>10, FirstOf
    <2>2. QED
      BY <1>3, <1>4, <1>6, <1>7, <1>10, <2>1
  <1>11. CASE wanted = 0 /\ byActor = 0 /\ turns # << >>
    <2>1. n # 0
      BY <1>1, <1>2, <1>11 DEF IsList
    <2>2. 1 \in 1..n
      BY <1>2, <2>1
    <2>3. QED
      BY <1>3, <1>6, <1>7, <1>11, <2>2
  <1>12. CASE wanted = 0 /\ byActor = 0 /\ turns = << >>
    BY <1>3, <1>6, <1>8, <1>12
  <1>13. QED
    BY <1>9, <1>10, <1>11, <1>12
-----------------------------------------------------------------------------
(* What the model copies is the text of the line it names.                 *)
LEMMA LineTextIsFaithful ==
  ASSUME NEW c, NEW map, NEW transcript, AreFaithful(Lines(c), map, transcript), NEW id,
         TextOfLine(c, id) # << >>
  PROVE  Faithful(TextOfLine(c, id), map, transcript, id)
  <1>1. PICK lines, n : lines = Lines(c) /\ n = Len(lines)
    OBVIOUS
  <1>2. n \in Nat /\ AreFaithful(lines, map, transcript)
    BY <1>1, LenIsNat DEF AreFaithful
  <1>3. PICK I, at : I = {i \in 1..n : lines[i].id = id} /\ at = IF I # {} THEN Min(I) ELSE 0
    OBVIOUS
  <1>4. TextOfLine(c, id) = IF at = 0 THEN << >> ELSE lines[at].text
    BY <1>1, <1>3 DEF TextOfLine, SelectInSeq
  <1>5. at # 0 /\ TextOfLine(c, id) = lines[at].text
    BY <1>4
  <1>6. at \in I
    BY <1>2, <1>3, <1>5, FirstOf
  <1>7. Faithful(lines[at].text, map, transcript, lines[at].id) /\ lines[at].id = id
    BY <1>1, <1>2, <1>3, <1>6 DEF AreFaithful
  <1>8. QED
    BY <1>5, <1>7

LEMMA QuotingIsTraced ==
  ASSUME NEW c, NEW map, NEW transcript, AreFaithful(Lines(c), map, transcript),
         NEW items, AnswerItems(items)
  PROVE  Traced(Quoting(c, items), map, transcript)
  <1>1. PICK found : found = Quoting(c, items)
    OBVIOUS
  <1>2. DOMAIN found = DOMAIN items
    BY <1>1 DEF Quoting
  <1>3. ASSUME NEW i \in DOMAIN items
        PROVE  "evidence" \in DOMAIN found[i] /\ QuotesAreFaithful(found[i].evidence, map, transcript)
    <2>1. PICK item, quotes :
              /\ item = items[i]
              /\ quotes = [k \in DOMAIN item.evidence |-> Evidence(c, item.evidence[k])]
      OBVIOUS
    <2>2. found[i] = [item EXCEPT !.evidence = quotes]
      BY <1>1, <2>1 DEF Quoting
    <2>3. "evidence" \in DOMAIN item
      BY <2>1 DEF AnswerItems, Range
    <2>4. "evidence" \in DOMAIN found[i] /\ found[i].evidence = quotes
      BY <2>2, <2>3
    <2>5. ASSUME NEW k \in DOMAIN quotes PROVE FaithfulQuote(quotes[k], map, transcript)
      <3>1. PICK said, copied : /\ said = item.evidence[k]
                                /\ copied = IF said.quote = None THEN TextOfLine(c, said.id) ELSE << >>
        OBVIOUS
      <3>2. PICK by, text : /\ by = IF copied # << >> THEN "copy" ELSE "model"
                            /\ text = IF copied # << >> THEN copied
                                      ELSE IF said.quote = None THEN << <<"unresolved", 0>> >> ELSE said.quote
        OBVIOUS
      <3>3. quotes[k] = [id |-> said.id, role |-> "END_USER", by |-> by, quote |-> text]
        BY <2>1, <3>1, <3>2 DEF Evidence
      <3>4. ASSUME copied # << >> PROVE Faithful(text, map, transcript, said.id)
        <4>1. copied = TextOfLine(c, said.id) /\ text = copied
          BY <3>1, <3>2, <3>4
        <4>2. QED
          BY <3>4, <4>1, LineTextIsFaithful
      <3>5. by = "model" \/ Faithful(text, map, transcript, said.id)
        BY <3>2, <3>4
      <3>6. QED
        BY <3>3, <3>5 DEF FaithfulQuote
    <2>6. QED
      BY <2>4, <2>5 DEF QuotesAreFaithful
  <1>4. QED
    BY <1>1, <1>2, <1>3 DEF Traced

LEMMA CompletedIsTraced ==
  ASSUME NEW turns, NEW map, NEW transcript, AreFaithful(turns, map, transcript),
         NEW items, IsList(items), Traced(items, map, transcript), NEW types
  PROVE  Traced(CompletedItems(Supported(items, types), turns), map, transcript)
  <1>1. PICK some : some = Supported(items, types)
    OBVIOUS
  <1>2. IsList(some) /\ Range(some) \subseteq Range(items)
    BY <1>1, KeptIsList DEF Supported
  <1>3. PICK full : full = CompletedItems(some, turns)
    OBVIOUS
  <1>4. DOMAIN full = DOMAIN some /\ \A i \in DOMAIN some : full[i] = Completed(some[i], turns)
    BY <1>3 DEF CompletedItems
  <1>5. ASSUME NEW i \in DOMAIN some
        PROVE  "evidence" \in DOMAIN full[i] /\ QuotesAreFaithful(full[i].evidence, map, transcript)
    <2>1. PICK item : item = some[i]
      OBVIOUS
    <2>2. QuotesAreFaithful(item.evidence, map, transcript)
      <3>1. item \in Range(items)
        BY <1>2, <2>1 DEF Range
      <3>2. QED
        BY <3>1 DEF Range, Traced
    <2>3. PICK actor : actor = Caught(item.actor, "END_USER")
      OBVIOUS
    <2>4. PICK fallback : fallback = buildFallbackEvidence(actor, turns, item.start)
      OBVIOUS
    <2>5. QuotesAreFaithful(fallback, map, transcript)
      BY <2>4, FallbackIsFaithful
    <2>6. PICK evidence : evidence = IF item.evidence # << >> THEN item.evidence ELSE fallback
      OBVIOUS
    <2>7. QuotesAreFaithful(evidence, map, transcript)
      BY <2>2, <2>5, <2>6
    <2>8. Completed(item, turns) = [type |-> item.type, actor |-> actor,
                                    confidence |-> Caught(item.confidence, 70),
                                    impact |-> Caught(item.impact, "MEDIUM"), evidence |-> evidence]
      BY <2>3, <2>4, <2>6 DEF Completed
    <2>9. full[i] = [type |-> item.type, actor |-> actor, confidence |-> Caught(item.confidence, 70),
                     impact |-> Caught(item.impact, "MEDIUM"), evidence |-> evidence]
      BY <1>4, <2>1, <2>8
    <2>10. "evidence" \in DOMAIN full[i] /\ full[i].evidence = evidence
      BY <2>9
    <2>11. QED
      BY <2>7, <2>10
  <1>6. QED
    BY <1>1, <1>3, <1>4, <1>5 DEF Traced

(* Whatever the model answers, what the extraction quotes is faithful.     *)
BothTraced(x, map, transcript) ==
    /\ DOMAIN x = {"sentiment", "aspects", "events", "moments", "summary", "review"}
    /\ Traced(x.events, map, transcript) /\ Traced(x.moments, map, transcript)

LEMMA ExtractionIsTraced ==
  ASSUME NEW c, Given(c) \in Range(Cases), NEW answer \in Given(c).answers,
         NEW map, NEW transcript, AreFaithful(Lines(c), map, transcript)
  PROVE  BothTraced(ExtractionOf(c, answer), map, transcript)
  <1>1. PICK p : p = answer.payload
    OBVIOUS
  <1>2. AnswerForm(p)
    BY <1>1 DEF CaseForm
  <1>3. PICK aspects, events, found :
            /\ aspects = Quoting(c, p.aspects) /\ events = Quoting(c, p.events)
            /\ found = Quoting(c, p.moments)
    OBVIOUS
  <1>4. IsList(events) /\ IsList(found)
    BY <1>2, <1>3, QuotingKeeps DEF AnswerForm, Quoted
  <1>5. Traced(events, map, transcript) /\ Traced(found, map, transcript)
    BY <1>2, <1>3, QuotingIsTraced DEF AnswerForm
  <1>6. PICK q : q = [p EXCEPT !.aspects = aspects, !.events = events, !.moments = found]
    OBVIOUS
  <1>7. q.moments = found /\ q.events = events
    BY <1>2, <1>6 DEF AnswerForm
  <1>8. CASE Given(c).structured
    <2>1. PICK x : x = normalizeLlmExtraction(q)
      OBVIOUS
    <2>2. ExtractionOf(c, answer) = x
      BY <1>1, <1>3, <1>6, <1>8, <2>1 DEF ExtractionOf
    <2>3. /\ DOMAIN x = {"sentiment", "aspects", "events", "moments", "summary", "review"}
          /\ x.moments = found /\ x.events = events
      BY <1>7, <2>1 DEF normalizeLlmExtraction
    <2>4. QED
      BY <1>5, <2>2, <2>3 DEF BothTraced
  <1>9. CASE ~Given(c).structured
    <2>1. PICK x : x = parseOllamaCompat(q, Lines(c), ValidTypes(c))
      OBVIOUS
    <2>2. ExtractionOf(c, answer) = x
      BY <1>1, <1>3, <1>6, <1>9, <2>1 DEF ExtractionOf
    <2>3. PICK turns : turns = extractTurnTextsFromContext(Lines(c))
      OBVIOUS
    <2>4. /\ DOMAIN x = {"sentiment", "aspects", "events", "moments", "summary", "review"}
          /\ x.moments = CompletedItems(Supported(found, ValidTypes(c)), turns)
          /\ x.events = CompletedItems(Supported(events, ValidTypes(c)), turns)
      BY <1>7, <2>1, <2>3 DEF parseOllamaCompat
    <2>5. AreFaithful(turns, map, transcript)
      BY <2>3, ReadIsFaithful
    <2>6. Traced(x.moments, map, transcript)
      BY <1>4, <1>5, <2>4, <2>5, CompletedIsTraced
    <2>7. Traced(x.events, map, transcript)
      BY <1>4, <1>5, <2>4, <2>5, CompletedIsTraced
    <2>8. QED
      BY <2>2, <2>4, <2>6, <2>7 DEF BothTraced
  <1>10. QED
    BY <1>8, <1>9

LEMMA EmptyIsTraced ==
  ASSUME NEW map, NEW transcript
  PROVE  BothTraced(buildEmptyExtraction, map, transcript)
  <1>1. PICK x : x = buildEmptyExtraction
    OBVIOUS
  <1>2. /\ DOMAIN x = {"sentiment", "aspects", "events", "moments", "summary", "review"}
        /\ x.events = << >> /\ x.moments = << >>
    BY <1>1 DEF buildEmptyExtraction
  <1>3. DOMAIN << >> = {}
    OBVIOUS
  <1>4. QED
    BY <1>1, <1>2, <1>3 DEF BothTraced, Traced

(* In the analysis the words are back.                                     *)
AllRestored(items, transcript) ==
    \A i \in DOMAIN items : \A k \in DOMAIN items[i].evidence : Restored(items[i].evidence[k], transcript)

LEMMA DecodedIsRestored ==
  ASSUME NEW items, NEW map, IsList(map), NEW transcript, Traced(items, map, transcript)
  PROVE  AllRestored(DecodeEvidence(items, map), transcript)
  <1>1. PICK out : out = DecodeEvidence(items, map)
    OBVIOUS
  <1>2. DOMAIN out = DOMAIN items
    BY <1>1 DEF DecodeEvidence
  <1>3. ASSUME NEW i \in DOMAIN items, NEW k \in DOMAIN out[i].evidence
        PROVE  Restored(out[i].evidence[k], transcript)
    <2>1. PICK item, quotes : item = items[i] /\ quotes = [j \in DOMAIN item.evidence |->
                                  [item.evidence[j] EXCEPT !.quote = decode(item.evidence[j].quote, map)]]
      OBVIOUS
    <2>2. out[i] = [item EXCEPT !.evidence = quotes]
      BY <1>1, <2>1 DEF DecodeEvidence
    <2>3. "evidence" \in DOMAIN item /\ QuotesAreFaithful(item.evidence, map, transcript)
      BY <2>1 DEF Traced
    <2>4. out[i].evidence = quotes
      BY <2>2, <2>3
    <2>5. PICK e, text : e = item.evidence[k] /\ text = decode(e.quote, map)
      OBVIOUS
    <2>6. k \in DOMAIN item.evidence /\ quotes[k] = [e EXCEPT !.quote = text]
      BY <2>1, <2>4, <2>5
    <2>7. /\ {"id", "quote", "by"} \subseteq DOMAIN e
          /\ e.by = "model" \/ Faithful(e.quote, map, transcript, e.id)
      BY <2>3, <2>5, <2>6 DEF QuotesAreFaithful, FaithfulQuote
    <2>8. quotes[k].id = e.id /\ quotes[k].quote = text /\ quotes[k].by = e.by
      BY <2>6, <2>7
    <2>9. e.by = "model" \/ IsSaid(text, transcript, e.id)
      BY <2>5, <2>7, DecodedIsSaid
    <2>10. QED
      BY <2>4, <2>8, <2>9 DEF Restored
  <1>4. QED
    BY <1>1, <1>2, <1>3 DEF AllRestored

LEMMA PlainIsRestored ==
  ASSUME NEW items, NEW transcript, Traced(items, << >>, transcript)
  PROVE  AllRestored(items, transcript)
  <1> SUFFICES ASSUME NEW i \in DOMAIN items, NEW k \in DOMAIN items[i].evidence
               PROVE  Restored(items[i].evidence[k], transcript)
    BY DEF AllRestored
  <1>1. PICK e : e = items[i].evidence[k]
    OBVIOUS
  <1>2. e.by = "model" \/ Faithful(e.quote, << >>, transcript, e.id)
    BY <1>1 DEF Traced, QuotesAreFaithful, FaithfulQuote
  <1>3. QED
    BY <1>1, <1>2, PlainIsSaid DEF Restored

LEMMA VerifiedKeepsBoth ==
  ASSUME NEW a, NEW pack, DOMAIN a = AnalysisFields
  PROVE  LET v == verifyAnalysis(a, pack) IN v.moments = a.moments /\ v.events = a.events
  BY DEF verifyAnalysis, AnalysisFields

LEMMA AssembledIsRestored ==
  ASSUME NEW map, IsList(map), NEW transcript, NEW x, BothTraced(x, map, transcript),
         NEW assignments, NEW cues, NEW engagement, NEW scoring, NEW pack
  PROVE  LET result == assembleAnalysis(x, assignments, cues, engagement, scoring, map, pack)
         IN  AllRestored(result.events, transcript) /\ AllRestored(result.moments, transcript)
  <1>1. PICK d : d = IF map = << >> THEN x ELSE decodeExtraction(x, map)
    OBVIOUS
  <1>2. AllRestored(d.events, transcript) /\ AllRestored(d.moments, transcript)
    <2>1. CASE map = << >>
      BY <1>1, <2>1, PlainIsRestored DEF BothTraced
    <2>2. CASE map # << >>
      <3>1. d.events = DecodeEvidence(x.events, map) /\ d.moments = DecodeEvidence(x.moments, map)
        BY <1>1, <2>2 DEF decodeExtraction, BothTraced
      <3>2. QED
        BY <3>1, DecodedIsRestored DEF BothTraced
    <2>3. QED
      BY <2>1, <2>2
  <1>3. PICK names, sentiment :
            /\ names = IF map = << >> THEN assignments ELSE decodeSpeakerAssignments(assignments, map)
            /\ sentiment = applySupportSentimentCueAdjustments(
                             enrichOverallSentimentScore(d.sentiment, scoring, engagement), engagement, cues)
    OBVIOUS
  <1>4. PICK a : a = [sentiment |-> sentiment, aspects |-> d.aspects, events |-> d.events,
                      moments |-> d.moments, mapped |-> mapTenantEvents(d.events, pack),
                      assignments |-> names, confidence |-> averageConfidence(names),
                      summary |-> d.summary, review |-> d.review]
    OBVIOUS
  <1>5. assembleAnalysis(x, assignments, cues, engagement, scoring, map, pack) = verifyAnalysis(a, pack)
    BY <1>1, <1>3, <1>4 DEF assembleAnalysis
  <1>6. DOMAIN a = AnalysisFields /\ a.moments = d.moments /\ a.events = d.events
    BY <1>4 DEF AnalysisFields
  <1>7. PICK v : v = verifyAnalysis(a, pack)
    OBVIOUS
  <1>8. v.moments = d.moments /\ v.events = d.events
    BY <1>6, <1>7, VerifiedKeepsBoth
  <1>9. QED
    BY <1>2, <1>5, <1>7, <1>8
-----------------------------------------------------------------------------
(* A call that has not begun has no lines; what a call returns is restored *)
(* if masking can be undone.                                               *)
Undoable(case) ==
    Hides(case.pii) /\ case.pii.reversible /\ ~case.queued /\ ~HasTokens(case.transcript)
Returns(k, case) ==
    /\ k.pc = "idle" => k.before.lines = << >>
    /\ k.result # None /\ Undoable(case) => /\ AllRestored(k.result.events, case.transcript)
                                            /\ AllRestored(k.result.moments, case.transcript)
RestoredInv == \A c \in Calls : Returns(call[c], Given(c))

LEMMA RestoredMove ==
  ASSUME GuideInv, RestoredInv, NEW c \in Calls, NEW m, Moves(c, m), Returns(m, Given(c))
  PROVE  RestoredInv'
  BY DEF GuideInv, RestoredInv, Moves, Given

LEMMA RestoredAside ==
  ASSUME GuideInv, RestoredInv, NEW c \in Calls, NEW m, Moves(c, m),
         m.before = call[c].before, m.result = call[c].result, m.pc = call[c].pc \/ m.pc # "idle"
  PROVE  RestoredInv'
  <1>1. Returns(call[c], Given(c))
    BY DEF RestoredInv
  <1>2. Returns(m, Given(c))
    BY <1>1 DEF Returns
  <1>3. QED
    BY <1>2, RestoredMove

LEMMA RestoredNext ==
  ASSUME GuideInv, RestoredInv, NEW c \in Calls, NEW triggers, NextType(c, triggers), input' = input
  PROVE  RestoredInv'
  <1>1. DOMAIN call[c] = Fields
    BY DEF GuideInv, Guided
  <1>2. PICK m : /\ m = [call[c] EXCEPT !.triggers = triggers, !.todo = Tail(call[c].todo),
                                        !.pc = IF Tail(call[c].todo) = << >> THEN "chat" ELSE "lookup"]
                 /\ Moves(c, m)
    BY DEF NextType, Moves
  <1>3. m.before = call[c].before /\ m.result = call[c].result /\ m.pc # "idle"
    BY <1>1, <1>2 DEF Fields
  <1>4. QED
    BY <1>2, <1>3, RestoredAside

(* The lines and the map of a call whose masking can be undone.            *)
LEMMA BeforeIsFaithful ==
  ASSUME NEW case \in Range(Cases), Undoable(case)
  PROVE  LET before == Before(case)
         IN  IsList(before.map) /\ AreFaithful(before.lines, before.map, case.transcript)
  <1>1. PICK pii, map, lines : /\ pii = case.pii /\ map = prepareRequest(case.transcript, pii).map
                               /\ lines = Before(case).lines
    OBVIOUS
  <1>2. Hides(pii) /\ pii.reversible /\ ~case.queued
    BY <1>1 DEF Undoable
  <1>3. IsList(map) /\ PromptIs(lines, case.transcript.turns, pii, map)
    BY <1>1, <1>2, LinesAre
  <1>4. Before(case).map = map
    BY <1>1, <1>2 DEF Before
  <1>5. AreFaithful(lines, map, case.transcript)
    BY <1>1, <1>2, <1>3, LinesAreFaithful DEF Undoable
  <1>6. QED
    BY <1>1, <1>3, <1>4, <1>5

LEMMA FinishIsRestored ==
  ASSUME NEW c \in Calls, NEW case, case = Given(c), NEW before, IsList(before.map),
         NEW x, BothTraced(x, before.map, case.transcript)
  PROVE  LET result == Finish(c, before, x)
         IN  AllRestored(result.events, case.transcript) /\ AllRestored(result.moments, case.transcript)
  <1>1. Finish(c, before, x) = assembleAnalysis(x, before.assignments, before.cues, case.engagement,
                                                case.scoring, before.map, case.pack)
    BY DEF Finish
  <1>2. QED
    BY <1>1, AssembledIsRestored

LEMMA RestoredStep ==
  ASSUME GuideInv, GradedInv, RestoredInv, NEW c \in Calls, Step(c) PROVE RestoredInv'
  <1> DEFINE k == call[c]
  <1>0. /\ Guided(c) /\ DOMAIN k = Fields /\ input[c] \in DOMAIN Cases
        /\ Graded(k, Given(c).pack) /\ Returns(k, Given(c))
    BY DEF GuideInv, Guided, GradedInv, RestoredInv
  <1>a. PICK case : case = Given(c)
    OBVIOUS
  <1>b. case \in Range(Cases) /\ BeforeCase[input[c]] = Before(case)
    BY <1>0, <1>a DEF Given, Range, BeforeCase
  <1>1. CASE Begin(c)
    <2>1. PICK local : local = [k EXCEPT !.before = BeforeCase[input[c]]]
      OBVIOUS
    <2>2. PICK m : m = Prepared(c, local) /\ Moves(c, m)
      BY <1>1, <2>1 DEF Begin, Moves
    <2>3. DOMAIN local = Fields /\ local.before = Before(case) /\ local.result = None
      BY <1>0, <1>1, <1>b, <2>1 DEF Begin, Fields, Graded
    <2>4. CASE HasEligibleTurn(local.before.assignments)
      <3>1. m = [local EXCEPT !.pc = IF case.structured THEN "chat" ELSE "embed",
                              !.timer = IF HasTimeout THEN "armed" ELSE "none"]
        BY <1>a, <2>2, <2>4 DEF Prepared
      <3>2. m.result = None /\ m.pc # "idle"
        BY <2>3, <3>1 DEF Fields
      <3>3. QED
        BY <2>2, <3>2, RestoredMove DEF Returns
    <2>5. CASE ~HasEligibleTurn(local.before.assignments)
      <3>1. PICK before, result : before = local.before /\ result = Finish(c, before, buildEmptyExtraction)
        OBVIOUS
      <3>2. m = [local EXCEPT !.pc = "done", !.timer = Stopped(@), !.result = result]
        BY <2>2, <2>5, <3>1 DEF Prepared, Returning
      <3>3. m.pc = "done" /\ m.result = result
        BY <2>3, <3>2 DEF Fields
      <3>4. ASSUME Undoable(case)
            PROVE  AllRestored(result.events, case.transcript) /\ AllRestored(result.moments, case.transcript)
        <4>1. IsList(before.map)
          BY <1>b, <2>3, <3>1, <3>4, BeforeIsFaithful
        <4>2. QED
          BY <1>a, <3>1, <4>1, EmptyIsTraced, FinishIsRestored
      <3>5. Returns(m, case)
        BY <3>3, <3>4 DEF Returns
      <3>6. QED
        BY <1>a, <2>2, <3>5, RestoredMove
    <2>6. QED
      BY <2>4, <2>5
  <1>2. CASE TimerFires(c)
    <2>1. PICK m : m = [k EXCEPT !.timer = "fired"] /\ Moves(c, m)
      BY <1>2 DEF TimerFires, Moves
    <2>2. m.before = k.before /\ m.result = k.result /\ m.pc = k.pc
      BY <1>0, <2>1 DEF Fields
    <2>3. QED
      BY <2>1, <2>2, RestoredAside
  <1>3. CASE Abort(c)
    <2>1. PICK m : m = [k EXCEPT !.aborted = TRUE] /\ Moves(c, m)
      BY <1>3 DEF Abort, Moves
    <2>2. m.before = k.before /\ m.result = k.result /\ m.pc = k.pc
      BY <1>0, <2>1 DEF Fields
    <2>3. QED
      BY <2>1, <2>2, RestoredAside
  <1>4. CASE EmbedTurns(c)
    <2>1. PICK todo : todo = TypesWithPhrases(c)
      OBVIOUS
    <2>2. PICK m : /\ m = [k EXCEPT !.todo = todo, !.pc = IF todo = << >> THEN "chat" ELSE "lookup"]
                   /\ Moves(c, m)
      BY <1>0, <1>4, <2>1 DEF EmbedTurns, Moves
    <2>3. m.before = k.before /\ m.result = k.result /\ m.pc # "idle"
      BY <1>0, <2>2 DEF Fields
    <2>4. QED
      BY <2>2, <2>3, RestoredAside
  <1>5. CASE EmbeddingFails(c)
    <2>1. PICK m : m = [k EXCEPT !.pc = "chat"] /\ Moves(c, m)
      BY <1>0, <1>5 DEF EmbeddingFails, Moves
    <2>2. m.before = k.before /\ m.result = k.result /\ m.pc # "idle"
      BY <1>0, <2>1 DEF Fields
    <2>3. QED
      BY <2>1, <2>2, RestoredAside
  <1>6. CASE Lookup(c)
    <2>1. CASE Cached(Head(k.todo)) # None
      BY <1>6, <2>1, RestoredNext DEF Lookup
    <2>2. CASE Cached(Head(k.todo)) = None
      <3>1. PICK m : m = [k EXCEPT !.pc = "fetch"] /\ Moves(c, m)
        BY <1>0, <1>6, <2>2 DEF Lookup, Moves
      <3>2. m.before = k.before /\ m.result = k.result /\ m.pc # "idle"
        BY <1>0, <3>1 DEF Fields
      <3>3. QED
        BY <3>1, <3>2, RestoredAside
    <2>3. QED
      BY <2>1, <2>2
  <1>7. CASE EmbedExamples(c)
    BY <1>7, RestoredNext DEF EmbedExamples
  <1>8. CASE ExamplesFail(c)
    BY <1>8, RestoredNext DEF ExamplesFail
  <1>9. ASSUME NEW answer \in Given(c).answers, ChatAnswers(c, answer) PROVE RestoredInv'
    <2>1. PICK x : x = ExtractionOf(c, answer)
      OBVIOUS
    <2>2. PICK before, result : before = k.before /\ result = Finish(c, before, x)
      OBVIOUS
    <2>3. PICK m : m = [k EXCEPT !.pc = "done", !.timer = Stopped(@), !.result = result] /\ Moves(c, m)
      BY <1>0, <1>9, <2>1, <2>2 DEF ChatAnswers, Returning, Moves
    <2>4. m.pc = "done" /\ m.result = result
      BY <1>0, <2>3 DEF Fields
    <2>5. before = Before(case) /\ Lines(c) = before.lines
      BY <1>0, <1>9, <1>b, <2>2 DEF Guided, ChatAnswers, Lines
    <2>6. ASSUME Undoable(case)
          PROVE  AllRestored(result.events, case.transcript) /\ AllRestored(result.moments, case.transcript)
      <3>1. IsList(before.map) /\ AreFaithful(Lines(c), before.map, case.transcript)
        BY <1>b, <2>5, <2>6, BeforeIsFaithful
      <3>2. BothTraced(x, before.map, case.transcript)
        BY <1>a, <1>b, <1>9, <2>1, <3>1, ExtractionIsTraced
      <3>3. QED
        BY <1>a, <2>2, <3>1, <3>2, FinishIsRestored
    <2>7. Returns(m, case)
      BY <2>4, <2>6 DEF Returns
    <2>8. QED
      BY <1>a, <2>3, <2>7, RestoredMove
  <1>10. CASE ChatFails(c)
    <2>1. PICK reason : Fail(c, reason) /\ input' = input
      BY <1>10, Zenon DEF ChatFails
    <2>2. PICK m : /\ m = [k EXCEPT !.pc = "failed", !.timer = Stopped(@), !.error = Reason(c, reason)]
                   /\ Moves(c, m)
      BY <2>1 DEF Fail, Moves
    <2>3. m.before = k.before /\ m.result = k.result /\ m.pc # "idle"
      BY <1>0, <2>2 DEF Fields
    <2>4. QED
      BY <2>2, <2>3, RestoredAside
  <1>11. QED
    BY <1>1, <1>2, <1>3, <1>4, <1>5, <1>6, <1>7, <1>8, <1>9, <1>10 DEF Step

LineShown(line, case) ==
    \A rule \in Range(RulesOf(case.pii)) :
        ReachesAll(rule) /\ rule.kind \in KindsIn(line.text) =>
            \E turn \in TurnsNamed(case.transcript, line.id) : MatchesCollapsed(turn.text, rule.kind)

LEMMA RestoredMeans == GuideInv /\ RestoredInv => HiddenThenRestored
  <1> SUFFICES ASSUME GuideInv, RestoredInv PROVE HiddenThenRestored
    OBVIOUS
  <1> SUFFICES ASSUME NEW c \in Calls, NEW case, case = Given(c), Hides(case.pii)
               PROVE  /\ \A line \in Range(Lines(c)) : LineShown(line, case)
                      /\ call[c].result # None /\ case.pii.reversible /\ ~case.queued =>
                            \A e \in Quotes(call[c].result) :
                               Restored(e, case.transcript) \/ HasTokens(case.transcript)
    BY Zenon DEF HiddenThenRestored, Hides, Distinct, LineShown, Restored, IsSaid, MadeUp
  <1>1. case \in Range(Cases) /\ BeforeCase[input[c]] = Before(case)
    BY DEF GuideInv, Given, Range, BeforeCase
  <1>2. Guided(c) /\ Returns(call[c], case)
    BY DEF GuideInv, RestoredInv
  <1>3. ASSUME NEW line \in Range(Lines(c)) PROVE LineShown(line, case)
    <2>1. CASE call[c].pc = "idle"
      <3>1. Lines(c) = << >>
        BY <1>2, <2>1 DEF Returns, Lines
      <3>2. Range(<< >>) = {}
        BY DEF Range
      <3>3. QED
        BY <3>1, <3>2
    <2>2. CASE call[c].pc # "idle"
      <3>1. Lines(c) = Before(case).lines
        BY <1>1, <1>2, <2>2 DEF Guided, Lines
      <3>2. PICK lines, old, map, rules : /\ lines = Before(case).lines /\ old = case.transcript.turns
                                          /\ map = prepareRequest(case.transcript, case.pii).map
                                          /\ rules = RulesOf(case.pii)
        OBVIOUS
      <3>3. PromptIs(lines, old, case.pii, map)
        BY <1>1, <3>2, LinesAre
      <3>4. IsList(old) /\ DOMAIN old = 1..Len(old)
        BY <1>1, <3>2, LenIsNat DEF CaseForm
      <3>5. DOMAIN lines = 1..Len(old)
        BY <3>3, LenIsNat DEF PromptIs
      <3>6. PICK i \in 1..Len(old) : line = lines[i]
        BY <3>1, <3>2, <3>5 DEF Range
      <3>7. PICK turn : turn = old[i] /\ turn \in Range(old)
        BY <3>4 DEF Range
      <3>8. LineIs(line, turn, case.pii, map)
        BY <3>3, <3>6, <3>7 DEF PromptIs
      <3>9. line.id = turn.id /\ Shown(line.text, turn.text, rules) /\ DOMAIN line.text = 1..Len(line.text)
        BY <3>2, <3>8, LenIsNat DEF LineIs
      <3>10. turn \in TurnsNamed(case.transcript, line.id)
        BY <3>2, <3>7, <3>9 DEF TurnsNamed
      <3>11. ASSUME NEW rule \in Range(rules), ReachesAll(rule), rule.kind \in KindsIn(line.text)
             PROVE  MatchesCollapsed(turn.text, rule.kind)
        <4>1. PICK j \in 1..Len(line.text) : line.text[j][1] = rule.kind
          BY <3>9, <3>11 DEF KindsIn, Range
        <4>2. QED
          BY <3>9, <3>11, <4>1 DEF Shown
      <3>12. QED
        BY <3>2, <3>10, <3>11 DEF LineShown
    <2>3. QED
      BY <2>1, <2>2
  <1>4. ASSUME call[c].result # None, Undoable(case), NEW e \in Quotes(call[c].result)
        PROVE  Restored(e, case.transcript)
    <2>1. PICK result : result = call[c].result
      OBVIOUS
    <2>2. AllRestored(result.events, case.transcript) /\ AllRestored(result.moments, case.transcript)
      BY <1>2, <1>4, <2>1 DEF Returns
    <2>3. PICK item \in Range(result.moments) \cup Range(result.events) : e \in Range(item.evidence)
      BY <1>4, <2>1 DEF Quotes
    <2>4. QED
      BY <2>2, <2>3 DEF AllRestored, Range
  <1>5. QED
    BY <1>3, <1>4 DEF Undoable

(* What a rule with the flag g matches is in the text of no line the model *)
(* is shown unless collapsing blanks made it, and what the model copies    *)
(* from a line or the engine quotes comes back in the words of the turn:   *)
(* for any cases, rules and flags, any number of calls, whatever the model *)
(* answers and whichever turn the engine falls back on.                    *)
THEOREM HiddenRestored == Spec => []HiddenThenRestored
  <1>1. Init => RestoredInv
    BY DEF Init, RestoredInv, Returns, NotBegun
  <1>2. GuideInv /\ GradedInv /\ RestoredInv /\ [Next]_vars => RestoredInv'
    <2> SUFFICES ASSUME GuideInv, GradedInv, RestoredInv, [Next]_vars PROVE RestoredInv'
      OBVIOUS
    <2>1. CASE UNCHANGED vars
      BY <2>1 DEF vars, RestoredInv, Given
    <2>2. QED
      BY <2>1, RestoredStep DEF Next
  <1>3. QED
    BY <1>1, <1>2, RestoredMeans, GradedInit, GradedSteps, GuideSteps, GuideInit, TimedInit, TimedSteps, PTL
       DEF Spec
-----------------------------------------------------------------------------
HIDE CallsAssumption
USE ReportsAssumption, SpanAssumption

(* The sentiment tables.  What is stored of a run follows from where the   *)
(* persisting of it is: the rows before the next one, and nothing of a     *)
(* later table.                                                            *)
Written(j) == {i \in 1..Turns : <<j, i>> \in segments}
Told(j) == {i \in 1..Moments : <<j, i>> \in moments}
HasRow(j) == \E a \in analyses : a.job = j
InOrder(j) ==
    /\ Written(j) # {} /\ Analysed[j] # Nothing => HasRow(j)
    /\ Told(j) # {} => Written(j) = 1..Turns
    /\ kind = "sqlite" => Written(j) \in {{}, 1..Turns} /\ Told(j) \in {{}, 1..Moments}
StoredOf(j) ==
    CASE run[j].pc \in {"running", "analysis"} -> Written(j) = {} /\ Told(j) = {}
      [] run[j].pc = "segments" ->
             /\ Written(j) = 1..(run[j].row - 1) /\ Told(j) = {} /\ run[j].row \in 1..Turns
             /\ Analysed[j] # Nothing => HasRow(j)
             /\ kind = "sqlite" => run[j].row = 1
      [] run[j].pc = "moments" ->
             /\ Written(j) = 1..Turns /\ Told(j) = 1..(run[j].row - 1) /\ run[j].row \in 1..Moments
             /\ Analysed[j] # Nothing => HasRow(j)
             /\ kind = "sqlite" => run[j].row = 1
      [] OTHER -> InOrder(j)
StoredInv == \A j \in Jobs : StoredOf(j)

(* What the reports read: finitely many rows, and deltas that are the      *)
(* analyst's score minus the model's.                                      *)
RowsInv ==
    /\ IsFiniteSet(analyses) /\ IsFiniteSet(samples)
    /\ \A s \in samples : s.delta = s.analyst - s.model

LEMMA Crossed ==
  ASSUME NEW j, NEW B
  PROVE  \A k, i : <<k, i>> \in {j} \X B <=> k = j /\ i \in B
  OBVIOUS

RunRow == [pc : {"running", "analysis", "segments", "moments", "done"}, at : 0..MaxTime, row : Nat]

(* Of the tables a step is about one run: the rest of them is as it was.   *)
Apart(j) ==
    /\ kind' = kind
    /\ \A k \in Jobs \ {j} : run'[k] = run[k] /\ Written(k)' = Written(k) /\ Told(k)' = Told(k)
    /\ \A k \in Jobs : HasRow(k) => HasRow(k)'

LEMMA StoredApart ==
  ASSUME StoredInv, NEW j \in Jobs, Apart(j), StoredOf(j)'
  PROVE  StoredInv'
  <1>1. ASSUME NEW k \in Jobs \ {j} PROVE StoredOf(k)'
    <2>1. StoredOf(k) /\ run'[k] = run[k] /\ Written(k)' = Written(k) /\ Told(k)' = Told(k)
          /\ (HasRow(k) => HasRow(k)') /\ kind' = kind
      BY DEF StoredInv, Apart
    <2>2. QED
      BY <2>1 DEF StoredOf, InOrder
  <1>2. QED
    BY <1>1 DEF StoredInv

LEMMA StoredAside ==
  ASSUME StoredInv, UNCHANGED <<kind, run, segments, moments, analyses>>
  PROVE  StoredInv'
  BY DEF StoredInv, StoredOf, InOrder, HasRow, Written, Told

LEMMA RunGoes ==
  ASSUME TypeOK, NEW j \in Jobs, NEW pc, Goto(j, pc)
  PROVE  /\ run'[j].pc = pc /\ run'[j].row = 1
         /\ \A k \in Jobs \ {j} : run'[k] = run[k]
         /\ pc \in {"running", "analysis", "segments", "moments", "done"} => run' \in [Jobs -> RunRow]
  <1>1. run \in [Jobs -> RunRow]
    BY DEF TypeOK, RunRow
  <1>2. PICK r \in RunRow : r = run[j]
    BY <1>1
  <1> DEFINE r1 == [r EXCEPT !.pc = pc]
             r2 == [r1 EXCEPT !.row = 1]
  <1>3. run' = [run EXCEPT ![j] = r2]
    BY <1>1, <1>2 DEF Goto
  <1>4. r2.pc = pc /\ r2.row = 1
    BY DEF RunRow
  <1>5. pc \in {"running", "analysis", "segments", "moments", "done"} => r2 \in RunRow
    BY DEF RunRow
  <1> HIDE DEF r1, r2
  <1>6. QED
    BY <1>1, <1>3, <1>4, <1>5

(* A step of a run that goes on with the next table, or ends.              *)
LEMMA StoredSave ==
  ASSUME StoredInv, TypeOK, NEW j \in Jobs, SaveAnalysis(j)
  PROVE  StoredInv'
  <1>1. PICK pc : Goto(j, pc) /\ pc \in {"segments", "done"}
                  /\ (pc = "segments" => \E a \in analyses' : a.job = j)
    <2> DEFINE new == [job |-> j, score |-> Scores(j), at |-> run[j].at]
    <2>1. CASE analyses' = analyses \cup {new} /\ Goto(j, "segments")
      <3>1. new \in analyses' /\ new.job = j
        BY <2>1
      <3>2. QED
        BY <2>1, <3>1
    <2>2. CASE Goto(j, "done")
      BY <2>2
    <2>3. QED
      BY <2>1, <2>2 DEF SaveAnalysis
  <1>2. run[j].pc = "analysis" /\ StoredOf(j)
    BY DEF SaveAnalysis, StoredInv
  <1>3. run'[j].pc = pc /\ run'[j].row = 1 /\ \A k \in Jobs \ {j} : run'[k] = run[k]
    BY <1>1, RunGoes
  <1>4. kind' = kind /\ segments' = segments /\ moments' = moments /\ analyses \subseteq analyses'
    BY DEF SaveAnalysis
  <1>5. \A k \in Jobs : /\ Written(k)' = Written(k) /\ Told(k)' = Told(k)
                        /\ HasRow(k) => HasRow(k)'
    BY <1>4 DEF Written, Told, HasRow
  <1>6. Written(j) = {} /\ Told(j) = {}
    BY <1>2 DEF StoredOf
  <1>7. Turns \in Nat \ {0}
    OBVIOUS
  <1>8. StoredOf(j)'
    <2>1. CASE pc = "segments"
      <3>1. HasRow(j)'
        BY <1>1, <2>1 DEF HasRow
      <3>2. 1..(run'[j].row - 1) = {} /\ run'[j].row \in 1..Turns /\ run'[j].pc = "segments" /\ run'[j].row = 1
        BY <1>3, <1>7, <2>1
      <3>3. QED
        BY <1>5, <1>6, <3>1, <3>2 DEF StoredOf
    <2>2. CASE pc = "done"
      BY <1>3, <1>5, <1>6, <2>2 DEF StoredOf, InOrder
    <2>3. QED
      BY <1>1, <2>1, <2>2
  <1>9. QED
    BY <1>3, <1>4, <1>5, <1>8, StoredApart DEF Apart

LEMMA StoredComplete ==
  ASSUME StoredInv, TypeOK, NEW j \in Jobs, Complete(j)
  PROVE  StoredInv'
  <1> DEFINE pc == IF Analysed[j] = Nothing THEN "segments" ELSE "analysis"
  <1>1. /\ run[j].pc = "running" /\ StoredOf(j)
        /\ run' = [run EXCEPT ![j] = [pc |-> pc, at |-> now, row |-> 1]]
        /\ UNCHANGED <<kind, segments, moments, analyses>>
    BY DEF Complete, StoredInv
  <1>2. run'[j] = [pc |-> pc, at |-> now, row |-> 1] /\ \A k \in Jobs \ {j} : run'[k] = run[k]
    BY <1>1 DEF TypeOK
  <1>3. \A k \in Jobs : /\ Written(k)' = Written(k) /\ Told(k)' = Told(k)
                        /\ HasRow(k) => HasRow(k)'
    BY <1>1 DEF Written, Told, HasRow
  <1>4. Written(j) = {} /\ Told(j) = {}
    BY <1>1 DEF StoredOf
  <1>5. 1..(run'[j].row - 1) = {} /\ run'[j].row \in 1..Turns /\ run'[j].row = 1
    BY <1>2
  <1>6. StoredOf(j)'
    BY <1>2, <1>3, <1>4, <1>5 DEF StoredOf
  <1>7. QED
    BY <1>1, <1>2, <1>3, <1>6, StoredApart DEF Apart

(* What a batch adds of n rows to those before the next one.               *)
LEMMA BatchOfRows ==
  ASSUME NEW j \in Jobs, NEW n \in Nat, run[j].row \in 1..n, kind = "sqlite" => run[j].row = 1
  PROVE  /\ kind = "sqlite" => (1..(run[j].row - 1)) \cup (Batch(j, n) \cap 1..n) = 1..n
         /\ ~LastBatch(j, n) => /\ run[j].row + 1 \in 1..n /\ kind # "sqlite"
                                /\ (1..(run[j].row - 1)) \cup (Batch(j, n) \cap 1..n) = 1..((run[j].row + 1) - 1)
         /\ LastBatch(j, n) => (1..(run[j].row - 1)) \cup (Batch(j, n) \cap 1..n) = 1..n
  BY DEF Batch, LastBatch

LEMMA StoredSegments ==
  ASSUME StoredInv, TypeOK, NEW j \in Jobs, SaveSegments(j)
  PROVE  StoredInv'
  <1> DEFINE rows == segments \cup ({j} \X Batch(j, Turns))
             next == IF Moments = 0 THEN "done" ELSE "moments"
  <1>1. /\ run[j].pc = "segments" /\ UNCHANGED <<kind, analyses, moments>>
        /\ \/ segments' = rows /\ Advance(j, Turns, next)
           \/ segments' \in {segments, rows} /\ Goto(j, "done")
    BY DEF SaveSegments
  <1>2. /\ Written(j) = 1..(run[j].row - 1) /\ Told(j) = {} /\ run[j].row \in 1..Turns
        /\ Analysed[j] # Nothing => HasRow(j)
        /\ kind = "sqlite" => run[j].row = 1
    BY <1>1 DEF StoredInv, StoredOf
  <1>3. \A k \in Jobs : /\ Told(k)' = Told(k) /\ (HasRow(k) => HasRow(k)')
    BY <1>1 DEF Told, HasRow
  <1>4. ASSUME segments' = rows
        PROVE  Written(j)' = Written(j) \cup (Batch(j, Turns) \cap 1..Turns)
    BY <1>4, Crossed DEF Written
  <1>5. \A k \in Jobs \ {j} : Written(k)' = Written(k)
    <2>1. segments' \in {segments, rows}
      BY <1>1
    <2>2. QED
      BY <2>1, Crossed DEF Written
  <1>6. Turns \in Nat \ {0} /\ Moments \in Nat
    OBVIOUS
  <1>7. run \in [Jobs -> RunRow]
    BY DEF TypeOK, RunRow
  <1>8. StoredOf(j)' /\ \A k \in Jobs \ {j} : run'[k] = run[k]
    <2>1. CASE segments' = rows /\ ~LastBatch(j, Turns) /\ Advance(j, Turns, next)
      <3>1. run' = [run EXCEPT ![j].row = run[j].row + 1]
        BY <2>1 DEF Advance
      <3>2. run'[j].pc = "segments" /\ run'[j].row = run[j].row + 1 /\ \A k \in Jobs \ {j} : run'[k] = run[k]
        BY <1>1, <1>7, <3>1 DEF RunRow
      <3>3. Written(j)' = 1..(run'[j].row - 1) /\ run'[j].row \in 1..Turns /\ kind # "sqlite"
        <4>1. /\ run[j].row + 1 \in 1..Turns /\ kind # "sqlite"
              /\ (1..(run[j].row - 1)) \cup (Batch(j, Turns) \cap 1..Turns) = 1..((run[j].row + 1) - 1)
          BY <1>2, <1>6, <2>1, BatchOfRows
        <4>2. Written(j)' = (1..(run[j].row - 1)) \cup (Batch(j, Turns) \cap 1..Turns)
          BY <1>2, <1>4, <2>1
        <4>3. QED
          BY <3>2, <4>1, <4>2
      <3>4. QED
        BY <1>1, <1>2, <1>3, <3>2, <3>3 DEF StoredOf
    <2>2. CASE segments' = rows /\ LastBatch(j, Turns) /\ Advance(j, Turns, next)
      <3>1. Goto(j, next)
        BY <2>2 DEF Advance
      <3>2. run'[j].pc = next /\ run'[j].row = 1 /\ \A k \in Jobs \ {j} : run'[k] = run[k]
        BY <3>1, RunGoes
      <3>3. Written(j)' = 1..Turns
        BY <1>2, <1>4, <1>6, <2>2, BatchOfRows
      <3>4. CASE Moments = 0
        BY <1>1, <1>2, <1>3, <3>2, <3>3, <3>4 DEF StoredOf, InOrder
      <3>5. CASE Moments # 0
        <4>1. 1..(run'[j].row - 1) = {} /\ run'[j].row \in 1..Moments
          BY <1>6, <3>2, <3>5
        <4>2. QED
          BY <1>1, <1>2, <1>3, <3>2, <3>3, <3>5, <4>1 DEF StoredOf
      <3>6. QED
        BY <3>2, <3>4, <3>5
    <2>3. CASE segments' \in {segments, rows} /\ Goto(j, "done")
      <3>1. run'[j].pc = "done" /\ \A k \in Jobs \ {j} : run'[k] = run[k]
        BY <2>3, RunGoes
      <3>2. kind = "sqlite" => Written(j) = {}
        BY <1>2, SMTT(60)
      <3>3. kind = "sqlite" => Written(j)' \in {{}, 1..Turns}
        <4>1. CASE segments' = segments
          BY <3>2, <4>1 DEF Written
        <4>2. CASE segments' = rows
          BY <1>2, <1>4, <1>6, <4>2, BatchOfRows
        <4>3. QED
          BY <2>3, <4>1, <4>2
      <3>4. QED
        BY <1>1, <1>2, <1>3, <3>1, <3>3 DEF StoredOf, InOrder
    <2>4. QED
      BY <1>1, <2>1, <2>2, <2>3
  <1>9. QED
    BY <1>1, <1>3, <1>5, <1>8, StoredApart DEF Apart

LEMMA StoredMoments ==
  ASSUME StoredInv, TypeOK, NEW j \in Jobs, SaveMoments(j)
  PROVE  StoredInv'
  <1> DEFINE rows == moments \cup ({j} \X Batch(j, Moments))
  <1>1. /\ run[j].pc = "moments" /\ UNCHANGED <<kind, analyses, segments>>
        /\ \/ moments' = rows /\ Advance(j, Moments, "done")
           \/ moments' \in {moments, rows} /\ Goto(j, "done")
    BY DEF SaveMoments
  <1>2. /\ Written(j) = 1..Turns /\ Told(j) = 1..(run[j].row - 1) /\ run[j].row \in 1..Moments
        /\ Analysed[j] # Nothing => HasRow(j)
        /\ kind = "sqlite" => run[j].row = 1
    BY <1>1 DEF StoredInv, StoredOf
  <1>3. \A k \in Jobs : /\ Written(k)' = Written(k) /\ (HasRow(k) => HasRow(k)')
    BY <1>1 DEF Written, HasRow
  <1>4. ASSUME moments' = rows
        PROVE  Told(j)' = Told(j) \cup (Batch(j, Moments) \cap 1..Moments)
    BY <1>4, Crossed DEF Told
  <1>5. \A k \in Jobs \ {j} : Told(k)' = Told(k)
    <2>1. moments' \in {moments, rows}
      BY <1>1
    <2>2. QED
      BY <2>1, Crossed DEF Told
  <1>6. Moments \in Nat
    OBVIOUS
  <1>7. run \in [Jobs -> RunRow]
    BY DEF TypeOK, RunRow
  <1>8. StoredOf(j)' /\ \A k \in Jobs \ {j} : run'[k] = run[k]
    <2>1. CASE moments' = rows /\ ~LastBatch(j, Moments) /\ Advance(j, Moments, "done")
      <3>1. run' = [run EXCEPT ![j].row = run[j].row + 1]
        BY <2>1 DEF Advance
      <3>2. run'[j].pc = "moments" /\ run'[j].row = run[j].row + 1 /\ \A k \in Jobs \ {j} : run'[k] = run[k]
        BY <1>1, <1>7, <3>1 DEF RunRow
      <3>3. Told(j)' = 1..(run'[j].row - 1) /\ run'[j].row \in 1..Moments /\ kind # "sqlite"
        <4>1. /\ run[j].row + 1 \in 1..Moments /\ kind # "sqlite"
              /\ (1..(run[j].row - 1)) \cup (Batch(j, Moments) \cap 1..Moments) = 1..((run[j].row + 1) - 1)
          BY <1>2, <1>6, <2>1, BatchOfRows
        <4>2. Told(j)' = (1..(run[j].row - 1)) \cup (Batch(j, Moments) \cap 1..Moments)
          BY <1>2, <1>4, <2>1
        <4>3. QED
          BY <3>2, <4>1, <4>2
      <3>4. QED
        BY <1>1, <1>2, <1>3, <3>2, <3>3 DEF StoredOf
    <2>2. CASE moments' = rows /\ LastBatch(j, Moments) /\ Advance(j, Moments, "done")
      <3>1. Goto(j, "done")
        BY <2>2 DEF Advance
      <3>2. run'[j].pc = "done" /\ \A k \in Jobs \ {j} : run'[k] = run[k]
        BY <3>1, RunGoes
      <3>3. Told(j)' = 1..Moments
        BY <1>2, <1>4, <1>6, <2>2, BatchOfRows
      <3>4. QED
        BY <1>1, <1>2, <1>3, <3>2, <3>3 DEF StoredOf, InOrder
    <2>3. CASE moments' \in {moments, rows} /\ Goto(j, "done")
      <3>1. run'[j].pc = "done" /\ \A k \in Jobs \ {j} : run'[k] = run[k]
        BY <2>3, RunGoes
      <3>2. kind = "sqlite" => Told(j) = {}
        BY <1>2, SMTT(60)
      <3>3. kind = "sqlite" => Told(j)' \in {{}, 1..Moments}
        <4>1. CASE moments' = moments
          BY <3>2, <4>1 DEF Told
        <4>2. CASE moments' = rows
          BY <1>2, <1>4, <1>6, <4>2, BatchOfRows
        <4>3. QED
          BY <2>3, <4>1, <4>2
      <3>4. QED
        BY <1>1, <1>2, <1>3, <3>1, <3>3 DEF StoredOf, InOrder
    <2>4. QED
      BY <1>1, <2>1, <2>2, <2>3
  <1>9. QED
    BY <1>1, <1>3, <1>5, <1>8, StoredApart DEF Apart

(* Only a run that was analysed is on its way to the analyses.             *)
OnlyAnalysed == \A j \in Jobs : run[j].pc = "analysis" => Analysed[j] # Nothing

LEMMA TablesTypedSteps ==
  /\ TablesInit => TypeOK
  /\ TypeOK /\ OnlyAnalysed /\ [TablesNext]_tables => TypeOK'
  <1>1. TablesInit => TypeOK
    BY DEF TablesInit, TypeOK
  <1>2. TypeOK /\ OnlyAnalysed /\ [TablesNext]_tables => TypeOK'
    <2> SUFFICES ASSUME TypeOK, OnlyAnalysed, [TablesNext]_tables PROVE TypeOK'
      OBVIOUS
    <2>1. run \in [Jobs -> RunRow] /\ now \in 0..MaxTime /\ faults \in 0..MaxFaults
      BY DEF TypeOK, RunRow
    <2>2. ASSUME NEW j \in Jobs, Analysed[j] # Nothing PROVE Scores(j) \in 0..100
      BY <2>2 DEF Scores
    <2>3. CASE UNCHANGED tables
      BY <2>3 DEF tables, TypeOK
    <2>4. ASSUME NEW j \in Jobs, Complete(j) PROVE TypeOK'
      <3>1. run' \in [Jobs -> RunRow]
        BY <2>1, <2>4 DEF Complete, RunRow
      <3>2. QED
        BY <2>4, <3>1 DEF Complete, TypeOK, RunRow
    <2>5. ASSUME NEW j \in Jobs, NEW n, NEW pc, Advance(j, n, pc),
                 pc \in {"running", "analysis", "segments", "moments", "done"}
          PROVE  run' \in [Jobs -> RunRow]
      <3>1. CASE LastBatch(j, n)
        BY <2>5, <3>1, RunGoes DEF Advance
      <3>2. CASE ~LastBatch(j, n)
        BY <2>1, <2>5, <3>2 DEF Advance, RunRow
      <3>3. QED
        BY <3>1, <3>2
    <2>6. ASSUME NEW j \in Jobs, SaveAnalysis(j) PROVE TypeOK'
      <3>1. run' \in [Jobs -> RunRow]
        BY <2>6, RunGoes DEF SaveAnalysis
      <3>2. faults' \in 0..MaxFaults
        BY <2>1, <2>6 DEF SaveAnalysis, Fault
      <3>3. UNCHANGED <<sparkline, kind, now, segments, moments, samples, fullText>>
        BY <2>6 DEF SaveAnalysis
      <3>4. analyses' \subseteq AnalysisRow
        <4>1. Analysed[j] # Nothing
          BY <2>6 DEF SaveAnalysis, OnlyAnalysed
        <4>2. [job |-> j, score |-> Scores(j), at |-> run[j].at] \in AnalysisRow
          BY <2>1, <2>2, <4>1 DEF AnalysisRow, RunRow
        <4>3. analyses' \subseteq analyses \cup {[job |-> j, score |-> Scores(j), at |-> run[j].at]}
          BY <2>6 DEF SaveAnalysis
        <4>4. QED
          BY <4>2, <4>3 DEF TypeOK
      <3>5. QED
        BY <3>1, <3>2, <3>3, <3>4 DEF TypeOK, RunRow
    <2>7. ASSUME NEW j \in Jobs, SaveSegments(j) PROVE TypeOK'
      <3>1. run' \in [Jobs -> RunRow]
        BY <2>5, <2>7, RunGoes DEF SaveSegments
      <3>2. faults' \in 0..MaxFaults
        BY <2>1, <2>7 DEF SaveSegments, Fault
      <3>3. UNCHANGED <<sparkline, kind, now, analyses, moments, samples, fullText>>
        BY <2>7 DEF SaveSegments
      <3>4. segments' \subseteq segments \cup ({j} \X Batch(j, Turns)) /\ Batch(j, Turns) \subseteq 1..Turns
        BY <2>7 DEF SaveSegments, Batch
      <3>5. segments' \subseteq Jobs \X (1..Turns)
        BY <3>4 DEF TypeOK
      <3>6. QED
        BY <3>1, <3>2, <3>3, <3>5 DEF TypeOK, RunRow
    <2>8. ASSUME NEW j \in Jobs, SaveMoments(j) PROVE TypeOK'
      <3>1. run' \in [Jobs -> RunRow]
        BY <2>5, <2>8, RunGoes DEF SaveMoments
      <3>2. faults' \in 0..MaxFaults
        BY <2>1, <2>8 DEF SaveMoments, Fault
      <3>3. UNCHANGED <<sparkline, kind, now, analyses, segments, samples, fullText>>
        BY <2>8 DEF SaveMoments
      <3>4. moments' \subseteq moments \cup ({j} \X Batch(j, Moments)) /\ Batch(j, Moments) \subseteq 1..Moments
        BY <2>8 DEF SaveMoments, Batch
      <3>5. moments' \subseteq Jobs \X (1..Moments)
        BY <3>4 DEF TypeOK
      <3>6. QED
        BY <3>1, <3>2, <3>3, <3>5 DEF TypeOK, RunRow
    <2>9. ASSUME NEW j \in Jobs, NEW label \in Labels, Label(j, label) PROVE TypeOK'
      <3> DEFINE new == Sample(j, label)
      <3>1. /\ Analysed[j] # Nothing /\ samples' \subseteq samples \cup {new}
            /\ UNCHANGED <<sparkline, kind, now, run, analyses, segments, moments, fullText>>
        BY <2>9 DEF Label
      <3>2. new \in SampleRow
        <4>1. Analysed[j].useCase \in UseCases
          BY <3>1 DEF UseCases
        <4>2. Analysed[j].polarity \in ToSet(Polarities) /\ Scores(j) \in 0..100 /\ label \in 0..100
          BY <2>2, <3>1
        <4>3. label - Scores(j) \in -100..100
          BY <4>2
        <4>4. QED
          BY <2>1, <4>1, <4>2, <4>3 DEF Sample, SampleRow
      <3>3. faults' \in 0..MaxFaults
        BY <2>1, <2>9 DEF Label, Fault
      <3> HIDE DEF new
      <3>4. QED
        BY <3>1, <3>2, <3>3 DEF TypeOK
    <2>10. CASE Search
      <3>1. faults' \in 0..MaxFaults
        BY <2>1, <2>10 DEF Search, Fault
      <3>2. QED
        BY <2>10, <3>1 DEF Search, TypeOK
    <2>11. CASE Tick
      <3>1. now' \in 0..MaxTime
        BY <2>1, <2>11 DEF Tick
      <3>2. QED
        BY <2>11, <3>1 DEF Tick, TypeOK
    <2>12. CASE ReadSparkline
      <3>1. \A a \in analyses : a.at \in 0..MaxTime
        BY DEF TypeOK, AnalysisRow
      <3>2. DOMAIN sparkline' \subseteq 0..MaxTime
        BY <2>12, <3>1 DEF ReadSparkline, getSentimentTrend
      <3>3. QED
        BY <2>12, <3>2 DEF ReadSparkline, TypeOK
    <2>13. CASE EndReport
      BY <2>13 DEF EndReport, TypeOK
    <2>14. QED
      BY <2>3, <2>4, <2>6, <2>7, <2>8, <2>9, <2>10, <2>11, <2>12, <2>13 DEF TablesNext
  <1>3. QED
    BY <1>1, <1>2

LEMMA OnlyAnalysedSteps ==
  /\ TablesInit => OnlyAnalysed
  /\ TypeOK /\ OnlyAnalysed /\ [TablesNext]_tables => OnlyAnalysed'
  <1>1. TablesInit => OnlyAnalysed
    BY DEF TablesInit, OnlyAnalysed
  <1>2. TypeOK /\ OnlyAnalysed /\ [TablesNext]_tables => OnlyAnalysed'
    <2> SUFFICES ASSUME TypeOK, OnlyAnalysed, [TablesNext]_tables PROVE OnlyAnalysed'
      OBVIOUS
    <2>1. run \in [Jobs -> RunRow]
      BY DEF TypeOK, RunRow
    <2>2. ASSUME NEW j \in Jobs, NEW pc, Goto(j, pc), pc # "analysis" PROVE OnlyAnalysed'
      BY <2>2, RunGoes DEF OnlyAnalysed
    <2>3. ASSUME UNCHANGED run PROVE OnlyAnalysed'
      BY <2>3 DEF OnlyAnalysed
    <2>4. ASSUME NEW j \in Jobs, Complete(j) PROVE OnlyAnalysed'
      BY <2>1, <2>4 DEF Complete, OnlyAnalysed
    <2>5. ASSUME NEW j \in Jobs, NEW n, NEW pc, Advance(j, n, pc), pc # "analysis" PROVE OnlyAnalysed'
      <3>1. CASE LastBatch(j, n)
        BY <2>2, <2>5, <3>1 DEF Advance
      <3>2. CASE ~LastBatch(j, n)
        <4>1. run' = [run EXCEPT ![j].row = run[j].row + 1]
          BY <2>5, <3>2 DEF Advance
        <4>2. \A k \in Jobs : run'[k].pc = run[k].pc
          BY <2>1, <4>1 DEF RunRow
        <4>3. QED
          BY <4>2 DEF OnlyAnalysed
      <3>3. QED
        BY <3>1, <3>2
    <2>6. ASSUME NEW j \in Jobs, SaveAnalysis(j) PROVE OnlyAnalysed'
      BY <2>2, <2>6 DEF SaveAnalysis
    <2>7. ASSUME NEW j \in Jobs, SaveSegments(j) PROVE OnlyAnalysed'
      BY <2>2, <2>5, <2>7 DEF SaveSegments
    <2>8. ASSUME NEW j \in Jobs, SaveMoments(j) PROVE OnlyAnalysed'
      BY <2>2, <2>5, <2>8 DEF SaveMoments
    <2>9. QED
      BY <2>3, <2>4, <2>6, <2>7, <2>8
         DEF TablesNext, tables, Label, Search, Tick, ReadSparkline, EndReport
  <1>3. QED
    BY <1>1, <1>2

LEMMA StoredSteps ==
  /\ TablesInit => StoredInv
  /\ TypeOK /\ StoredInv /\ [TablesNext]_tables => StoredInv'
  <1>1. TablesInit => StoredInv
    BY DEF TablesInit, StoredInv, StoredOf, Written, Told
  <1>2. TypeOK /\ StoredInv /\ [TablesNext]_tables => StoredInv'
    <2> SUFFICES ASSUME TypeOK, StoredInv, [TablesNext]_tables PROVE StoredInv'
      OBVIOUS
    <2>1. ASSUME NEW j \in Jobs, NEW label \in Labels, Label(j, label) PROVE StoredInv'
      BY <2>1, StoredAside DEF Label
    <2>2. CASE Search
      BY <2>2, StoredAside DEF Search
    <2>3. CASE Tick
      BY <2>3, StoredAside DEF Tick
    <2>4. CASE UNCHANGED tables
      BY <2>4, StoredAside DEF tables
    <2>5. CASE ReadSparkline \/ EndReport
      BY <2>5, StoredAside DEF ReadSparkline, EndReport
    <2>6. QED
      BY <2>1, <2>2, <2>3, <2>4, <2>5, StoredComplete, StoredSave, StoredSegments, StoredMoments DEF TablesNext
  <1>3. QED
    BY <1>1, <1>2

LEMMA TablesInvariant == TablesSpec => [](TypeOK /\ OnlyAnalysed /\ StoredInv)
  BY TablesTypedSteps, OnlyAnalysedSteps, StoredSteps, PTL DEF TablesSpec

(* The rows of the tables are of the types the store's schemas give them,  *)
(* and a run is on its way to one table at a time.                         *)
THEOREM TablesTypeCorrect == TablesSpec => []TypeOK
  BY TablesInvariant, PTL

(* Whatever call of persistSentimentData throws, in either store, what is  *)
(* found of a run in a later table is found in the earlier ones, complete; *)
(* of a table SQLite shows all the rows of a run or none.                  *)
THEOREM PartsInOrder == TablesSpec => []PartsFollowTheAnalysis
  <1>1. StoredInv => PartsFollowTheAnalysis
    <2> SUFFICES ASSUME StoredInv, NEW j \in Jobs PROVE InOrder(j)
      BY DEF PartsFollowTheAnalysis, InOrder, Written, Told, HasRow
    <2>1. CASE run[j].pc = "segments"
      <3>1. /\ Written(j) = 1..(run[j].row - 1) /\ Told(j) = {}
            /\ Analysed[j] # Nothing => HasRow(j)
            /\ kind = "sqlite" => run[j].row = 1
        BY <2>1 DEF StoredInv, StoredOf
      <3>2. QED
        BY <3>1, SMTT(60) DEF InOrder
    <2>2. CASE run[j].pc = "moments"
      <3>1. /\ Written(j) = 1..Turns /\ Told(j) = 1..(run[j].row - 1)
            /\ Analysed[j] # Nothing => HasRow(j)
            /\ kind = "sqlite" => run[j].row = 1
        BY <2>2 DEF StoredInv, StoredOf
      <3>2. QED
        BY <3>1, SMTT(60) DEF InOrder
    <2>3. CASE run[j].pc \notin {"segments", "moments"}
      BY <2>3 DEF StoredInv, StoredOf, InOrder
    <2>4. QED
      BY <2>1, <2>2, <2>3
  <1>2. QED
    BY <1>1, TablesInvariant, PTL
-----------------------------------------------------------------------------
(* The reports on the tables.                                              *)
LEMMA RowsSteps ==
  /\ TablesInit => RowsInv
  /\ RowsInv /\ [TablesNext]_tables => RowsInv'
  <1>1. TablesInit => RowsInv
    BY FS_EmptySet DEF TablesInit, RowsInv
  <1>2. RowsInv /\ [TablesNext]_tables => RowsInv'
    <2> SUFFICES ASSUME RowsInv, [TablesNext]_tables PROVE RowsInv'
      OBVIOUS
    <2>1. ASSUME NEW j \in Jobs, SaveAnalysis(j) PROVE RowsInv'
      <3> DEFINE new == [job |-> j, score |-> Scores(j), at |-> run[j].at]
      <3>1. samples' = samples /\ analyses' \in {analyses, analyses \cup {new}}
        BY <2>1 DEF SaveAnalysis
      <3> HIDE DEF new
      <3>2. QED
        BY <3>1, FS_AddElement DEF RowsInv
    <2>2. ASSUME NEW j \in Jobs, NEW label \in Labels, Label(j, label) PROVE RowsInv'
      <3> DEFINE new == Sample(j, label)
      <3>1. analyses' = analyses /\ samples' \in {samples, samples \cup {new}}
        BY <2>2 DEF Label
      <3>2. new.delta = new.analyst - new.model
        BY DEF Sample
      <3> HIDE DEF new
      <3>3. QED
        BY <3>1, <3>2, FS_AddElement DEF RowsInv
    <2>3. CASE UNCHANGED <<analyses, samples>>
      BY <2>3 DEF RowsInv
    <2>4. QED
      BY <2>1, <2>2, <2>3 DEF TablesNext, tables, Complete, SaveSegments, SaveMoments, Search, Tick,
                              ReadSparkline, EndReport
  <1>3. QED
    BY <1>1, <1>2

LEMMA ReportsInvariant == TablesSpec => [](TypeOK /\ RowsInv)
  <1>1. TablesSpec => []RowsInv
    BY RowsSteps, PTL DEF TablesSpec
  <1>2. QED
    BY <1>1, TablesInvariant, PTL

LEMMA ListedRows ==
  ASSUME NEW rows, IsFiniteSet(rows), NEW limit, NEW list \in Listed(rows, limit)
  PROVE  /\ list \subseteq rows /\ IsFiniteSet(list)
         /\ \A in \in list, out \in rows \ list : in.at >= out.at
  BY FS_Subset DEF Listed

(* The sums the reports make are of numbers.                               *)
LEMMA DriftNumbers ==
  ASSUME NEW list, IsFiniteSet(list), list \subseteq AnalysisRow, NEW now1 \in Int
  PROVE  LET drift == detectDrift(list, now1)
         IN  drift.driftSignificant => /\ drift.trendDirection # "stable"
                                       /\ drift.baseline # {} /\ drift.recent # {}
  <1> DEFINE baseline == Baseline(list, now1)
             recent == Recent(list, now1)
             SumOf(rows) == IF rows = {} THEN 50 ELSE ScoreSum(rows)
             CountOf(rows) == IF rows = {} THEN 1 ELSE Cardinality(rows)
             scale == CountOf(recent) * CountOf(baseline)
             moved == SumOf(recent) * CountOf(baseline) - SumOf(baseline) * CountOf(recent)
             drift == detectDrift(list, now1)
  <1>1. IsFiniteSet(baseline) /\ IsFiniteSet(recent) /\ baseline \subseteq list /\ recent \subseteq list
    BY FS_Subset DEF Baseline, Recent
  <1>2. ASSUME NEW rows, IsFiniteSet(rows), rows \subseteq list
        PROVE  SumOf(rows) \in Int /\ CountOf(rows) \in Nat \ {0}
    <2>1. Numbers([a \in rows |-> a.score], rows)
      BY <1>2 DEF Numbers, AnalysisRow
    <2>2. ScoreSum(rows) \in Int
      BY <1>2, <2>1, TotalIsInt DEF ScoreSum
    <2>3. rows # {} => Cardinality(rows) \in Nat \ {0}
      BY <1>2, FS_CardinalityType, FS_EmptySet
    <2>4. QED
      BY <2>2, <2>3
  <1>3. /\ drift.driftSignificant <=> /\ Magnitude(moved) >= 5 * scale
                                      /\ Cardinality(baseline) >= MinBaseline
                                      /\ Cardinality(recent) >= MinRecent
        /\ drift.trendDirection = IF moved > 3 * scale THEN "improving"
                                  ELSE IF moved < -3 * scale THEN "declining" ELSE "stable"
        /\ drift.baseline = baseline /\ drift.recent = recent
    BY DEF detectDrift
  <1> HIDE DEF baseline, recent, SumOf, CountOf
  <1>4. PICK sr \in Int, sb \in Int : sr = SumOf(recent) /\ sb = SumOf(baseline)
    BY <1>1, <1>2
  <1>5. PICK cr \in Nat \ {0}, cb \in Nat \ {0} : cr = CountOf(recent) /\ cb = CountOf(baseline)
    BY <1>1, <1>2
  <1>6. moved \in Int /\ scale \in Nat \ {0}
    <2>1. moved = sr * cb - sb * cr /\ scale = cr * cb
      BY <1>4, <1>5
    <2>2. cr * cb > 0 /\ cr * cb \in Int /\ sr * cb \in Int /\ sb * cr \in Int
      OBVIOUS
    <2>3. QED
      BY <2>1, <2>2
  <1> HIDE DEF moved, scale, drift
  <1>7. SUFFICES ASSUME drift.driftSignificant
                 PROVE  drift.trendDirection # "stable" /\ baseline # {} /\ recent # {}
    BY <1>3 DEF drift
  <1>8. baseline # {} /\ recent # {}
    <2>1. MinBaseline \in Nat \ {0} /\ MinRecent \in Nat \ {0}
      OBVIOUS
    <2>2. Cardinality(baseline) >= MinBaseline /\ Cardinality(recent) >= MinRecent
      BY <1>3, <1>7
    <2>3. Cardinality({}) = 0
      BY FS_EmptySet
    <2>4. ~(Cardinality({}) >= MinBaseline) /\ ~(Cardinality({}) >= MinRecent)
      BY <2>1, <2>3
    <2>5. QED
      BY <2>2, <2>4, Zenon
  <1>9. drift.trendDirection # "stable"
    BY <1>3, <1>6, <1>7 DEF Magnitude
  <1>10. QED
    BY <1>8, <1>9

(* A drift is called significant only on complete evidence: of the recent  *)
(* span no analysis that is stored when they are listed is missing from    *)
(* the newest ones, however late the clock is read, and the average of 50  *)
(* of an empty span makes no drift.                                        *)
THEOREM DriftOnEvidence == TablesSpec => []SignificantDriftIsComplete
  <1>1. TypeOK /\ RowsInv => SignificantDriftIsComplete
    <2> SUFFICES ASSUME TypeOK, RowsInv, NEW list \in listSentimentAnalyses,
                        NEW later \in now..MaxTime, detectDrift(list, later).driftSignificant
                 PROVE  LET drift == detectDrift(list, later)
                        IN  /\ drift.recent = {a \in analyses : a.at >= later - RecentSpan}
                            /\ drift.trendDirection # "stable"
                            /\ drift.baseline # {}
      BY DEF SignificantDriftIsComplete
    <2>1. /\ list \subseteq analyses /\ IsFiniteSet(list)
          /\ \A in \in list, out \in analyses \ list : in.at >= out.at
      BY ListedRows DEF RowsInv, listSentimentAnalyses
    <2>2. list \subseteq AnalysisRow /\ later \in Int /\ \A a \in analyses : a.at \in Int
      BY <2>1 DEF TypeOK, AnalysisRow
    <2>3. /\ detectDrift(list, later).trendDirection # "stable"
          /\ detectDrift(list, later).baseline # {}
      BY <2>1, <2>2, DriftNumbers
    <2>4. /\ detectDrift(list, later).baseline = Baseline(list, later)
          /\ detectDrift(list, later).recent = Recent(list, later)
      BY DEF detectDrift
    <2>5. PICK b \in list : b.at < later - RecentSpan
      BY <2>3, <2>4 DEF Baseline
    <2>6. ASSUME NEW a \in analyses, a.at >= later - RecentSpan PROVE a \in list
      <3>1. RecentSpan \in Int
        OBVIOUS
      <3>2. QED
        BY <2>1, <2>2, <2>5, <2>6, <3>1
    <2>7. Recent(list, later) = {a \in analyses : a.at >= later - RecentSpan}
      BY <2>1, <2>6 DEF Recent
    <2>8. QED
      BY <2>3, <2>4, <2>7
  <1>2. QED
    BY <1>1, ReportsInvariant, PTL
-----------------------------------------------------------------------------
(* The recommended offset: of n deltas with the sum d, the mean within 20  *)
(* points, rounded.                                                        *)
OffsetFor(d, n) == (2 * Max({-20 * n, Min({20 * n, d})}) + n) \div (2 * n)

LEMMA OffsetBounded ==
  ASSUME NEW d \in Int, NEW n \in Nat \ {0}
  PROVE  /\ OffsetFor(d, n) \in -20..20
         /\ d > 20 * n => OffsetFor(d, n) = 20
         /\ d < -20 * n => OffsetFor(d, n) = -20
         /\ d \in (-20 * n)..(20 * n) =>
               2 * (n * OffsetFor(d, n)) <= 2 * d + n /\ 2 * d < 2 * (n * OffsetFor(d, n)) + n
  <1> DEFINE s == Max({-20 * n, Min({20 * n, d})})
             o == OffsetFor(d, n)
  <1>1. s \in Int /\ s = IF d > 20 * n THEN 20 * n ELSE IF d < -20 * n THEN -20 * n ELSE d
    <2>1. Min({20 * n, d}) = IF 20 * n <= d THEN 20 * n ELSE d
      <3>1. PICK high \in Int : high = 20 * n
        OBVIOUS
      <3>2. Min({high, d}) = IF high <= d THEN high ELSE d
        BY Two
      <3>3. QED
        BY <3>1, <3>2
    <2>2. PICK m \in Int : m = Min({20 * n, d})
      BY <2>1
    <2>3. PICK low \in Int : low = -20 * n
      OBVIOUS
    <2>4. Max({low, m}) = IF low <= m THEN m ELSE low
      BY Two
    <2>5. QED
      BY <2>1, <2>2, <2>3, <2>4
  <1>2. o \in Int /\ 2 * (n * o) <= 2 * s + n /\ 2 * s < 2 * (n * o) + n
    BY <1>1, RoundedQuotient DEF OffsetFor
  <1> HIDE DEF s, o
  <1>3. s <= 20 * n /\ -20 * n <= s
    BY <1>1
  <1>4. o <= 20
    <2> SUFFICES ASSUME o >= 21 PROVE FALSE
      BY <1>2
    <2>1. n * o >= n * 21
      BY <1>2
    <2>2. QED
      BY <1>1, <1>2, <1>3, <2>1
  <1>5. o >= -20
    <2> SUFFICES ASSUME o <= -21 PROVE FALSE
      BY <1>2
    <2>1. n * o <= n * (-21)
      BY <1>2
    <2>2. QED
      BY <1>1, <1>2, <1>3, <2>1
  <1>6. ASSUME d > 20 * n PROVE o = 20
    <2>1. s = 20 * n
      BY <1>1, <1>6
    <2> SUFFICES ASSUME o <= 19 PROVE FALSE
      BY <1>2, <1>4
    <2>2. n * o <= n * 19
      BY <1>2
    <2>3. QED
      BY <1>2, <2>1, <2>2
  <1>7. ASSUME d < -20 * n PROVE o = -20
    <2>1. s = -20 * n
      BY <1>1, <1>7
    <2> SUFFICES ASSUME o >= -19 PROVE FALSE
      BY <1>2, <1>5
    <2>2. n * o >= n * (-19)
      BY <1>2
    <2>3. QED
      BY <1>2, <2>1, <2>2
  <1>8. d \in (-20 * n)..(20 * n) => s = d
    BY <1>1
  <1>9. o \in -20..20
    BY <1>2, <1>4, <1>5
  <1>10. d \in (-20 * n)..(20 * n) => 2 * (n * o) <= 2 * d + n /\ 2 * d < 2 * (n * o) + n
    BY <1>2, <1>8
  <1>11. QED
    BY <1>6, <1>7, <1>9, <1>10 DEF o

(* Moving n scores by the offset takes from the sum of squares as long as  *)
(* the offset has the sign of the sum of the deltas and is at most twice   *)
(* their mean.                                                             *)
LEMMA OffsetHelps ==
  ASSUME NEW d \in Int, NEW n \in Nat \ {0}
  PROVE  n * (OffsetFor(d, n) * OffsetFor(d, n)) <= 2 * (OffsetFor(d, n) * d)
  <1> DEFINE o == OffsetFor(d, n)
  <1>1. o \in -20..20 /\ o \in Int
    <2>1. o \in -20..20
      BY OffsetBounded
    <2> HIDE DEF o
    <2>2. QED
      BY <2>1
  <1>2. CASE d > 20 * n
    <2>1. o = 20
      BY <1>2, OffsetBounded
    <2> HIDE DEF o
    <2>2. n * (o * o) = 400 * n /\ 2 * (o * d) = 40 * d
      BY <2>1
    <2>3. QED
      BY <1>2, <2>2 DEF o
  <1>3. CASE d < -20 * n
    <2>1. o = -20
      BY <1>3, OffsetBounded
    <2> HIDE DEF o
    <2>2. n * (o * o) = 400 * n /\ 2 * (o * d) = -40 * d
      BY <2>1
    <2>3. QED
      BY <1>3, <2>2 DEF o
  <1>4. CASE d \in (-20 * n)..(20 * n)
    <2>1. 2 * (n * o) <= 2 * d + n /\ 2 * d < 2 * (n * o) + n
      BY <1>4, OffsetBounded
    <2> HIDE DEF o
    <2>2. PICK p \in Int : p = n * o
      BY <1>1
    <2>3. n * (o * o) = o * p
      BY <1>1, <2>2
    <2>4. PICK e \in Int : e = 2 * d - p
      BY <2>2
    <2>5. 2 * (o * d) - o * p = o * e
      BY <1>1, <2>2, <2>4
    <2>6. o * e >= 0
      <3>1. CASE o >= 1
        <4>1. p >= n
          BY <1>1, <2>2, <3>1
        <4>2. e >= 0
          BY <2>1, <2>2, <2>4, <4>1
        <4>3. QED
          BY <1>1, <3>1, <4>2
      <3>2. CASE o <= -1
        <4>1. p <= -n
          BY <1>1, <2>2, <3>2
        <4>2. e <= 0
          BY <2>1, <2>2, <2>4, <4>1
        <4>3. QED
          BY <1>1, <3>2, <4>2
      <3>3. CASE o = 0
        BY <3>3
      <3>4. QED
        BY <1>1, <3>1, <3>2, <3>3
    <2>7. o * p \in Int /\ o * d \in Int
      BY <1>1
    <2>8. QED
      BY <2>3, <2>5, <2>6, <2>7 DEF o
  <1>5. QED
    BY <1>2, <1>3, <1>4

(* The mean of the deltas in hundredths is within half a point of it.      *)
LEMMA OffsetIsMean ==
  ASSUME NEW d \in Int, NEW n \in Nat \ {0}, NEW avg \in Int,
         (2 * n) * avg <= 200 * d + n, 200 * d + n < (2 * n) * avg + 2 * n
  PROVE  \/ avg - 100 * OffsetFor(d, n) \in -50..50
         \/ OffsetFor(d, n) \in {20, -20}
  <1> DEFINE o == OffsetFor(d, n)
  <1>1. o \in Int
    <2>1. o \in -20..20
      BY OffsetBounded
    <2> HIDE DEF o
    <2>2. QED
      BY <2>1
  <1>2. CASE d > 20 * n \/ d < -20 * n
    BY <1>2, OffsetBounded, SMTT(60)
  <1>3. CASE d \in (-20 * n)..(20 * n)
    <2>1. 2 * (n * o) <= 2 * d + n /\ 2 * d < 2 * (n * o) + n
      BY <1>3, OffsetBounded
    <2> HIDE DEF o
    <2>2. PICK p \in Int : p = n * o
      BY <1>1
    <2>3. PICK x \in Int : x = avg - 100 * o
      BY <1>1
    <2>4. PICK q \in Int : q = n * x
      BY <2>3
    <2>5. (2 * n) * avg = 2 * q + 200 * p
      BY <1>1, <2>2, <2>3, <2>4
    <2>6. 2 * q < 101 * n
      BY <2>1, <2>2, <2>5
    <2>7. 2 * q > (-101) * n
      BY <2>1, <2>2, <2>5
    <2>8. x <= 50
      <3> SUFFICES ASSUME x >= 51 PROVE FALSE
        BY <2>3
      <3>1. q >= n * 51
        BY <2>3, <2>4
      <3>2. QED
        BY <2>6, <3>1
    <2>9. x >= -50
      <3> SUFFICES ASSUME x <= -51 PROVE FALSE
        BY <2>3
      <3>1. q <= n * (-51)
        BY <2>3, <2>4
      <3>2. QED
        BY <2>7, <3>1
    <2>10. QED
      BY <2>3, <2>8, <2>9 DEF o
  <1>4. QED
    BY <1>2, <1>3

(* What is left of the errors when scores are moved by an offset: the sum  *)
(* of squares is linear in the sum of the deltas.                          *)
ErrorSum(list, by) ==
    SumOver([s \in list |-> (s.model + by - s.analyst) * (s.model + by - s.analyst)], list)

LEMMA ErrorSumIs ==
  ASSUME NEW list, IsFiniteSet(list), list \subseteq SampleRow,
         \A s \in list : s.delta = s.analyst - s.model, NEW by \in Int
  PROVE  /\ ErrorSum(list, 0) \in Int /\ Signed(list) \in Int
         /\ ErrorSum(list, by) = ErrorSum(list, 0) + (-2 * by) * Signed(list) + (by * by) * Cardinality(list)
  <1> DEFINE Square(s, b) == (s.model + b - s.analyst) * (s.model + b - s.analyst)
             F == [s \in list |-> Square(s, 0)]
             G == [s \in list |-> s.delta]
             H == [s \in list |-> Square(s, by)]
  <1>1. ASSUME NEW s \in list
        PROVE  /\ Square(s, 0) \in Int /\ s.delta \in Int
               /\ Square(s, by) = 1 * Square(s, 0) + (-2 * by) * s.delta + by * by
    <2>1. PICK m \in Int, a \in Int : m = s.model /\ a = s.analyst /\ s.delta = a - m
      <3>1. s \in SampleRow /\ s.delta = s.analyst - s.model
        OBVIOUS
      <3>2. s.model \in Int /\ s.analyst \in Int
        BY <3>1 DEF SampleRow
      <3>3. QED
        BY <3>1, <3>2
    <2>2. /\ (m + 0 - a) * (m + 0 - a) \in Int
          /\ (m + by - a) * (m + by - a) = 1 * ((m + 0 - a) * (m + 0 - a)) + (-2 * by) * (a - m) + by * by
      OBVIOUS
    <2>3. QED
      BY <2>1, <2>2
  <1> HIDE DEF Square
  <1>2. /\ Numbers(F, list) /\ Numbers(G, list)
        /\ \A s \in list : H[s] = 1 * F[s] + (-2 * by) * G[s] + by * by
    BY <1>1 DEF Numbers
  <1>3. by * by \in Int /\ -2 * by \in Int
    OBVIOUS
  <1>4. ErrorSum(list, 0) = SumOver(F, list) /\ Signed(list) = SumOver(G, list) /\ ErrorSum(list, by) = SumOver(H, list)
    BY DEF ErrorSum, Signed, Square
  <1> HIDE DEF F, G, H
  <1>5. SumOver(F, list) \in Int /\ SumOver(G, list) \in Int
    BY <1>2, TotalIsInt
  <1>6. SumOver(H, list) = 1 * SumOver(F, list) + (-2 * by) * SumOver(G, list) + (by * by) * Cardinality(list)
    BY <1>2, <1>3, TotalLinear
  <1>7. QED
    BY <1>4, <1>5, <1>6

(* Following a recommendation never hurts: over the samples it was made    *)
(* from, scores moved by the recommended offset are in the mean square no  *)
(* farther from the analysts' than they were, whatever the labels, the     *)
(* limit and the use case; and the calibration analysis of the same        *)
(* samples has the error within half a point of the offset.                *)
THEOREM OffsetNeverHurts == TablesSpec => []RecommendationNeverHurts
  <1>1. TypeOK /\ RowsInv => RecommendationNeverHurts
    <2> SUFFICES ASSUME TypeOK, RowsInv, NEW useCase \in UseCases \cup {AnyUseCase},
                        NEW list \in listCalibrationSamples(useCase, 0)
                 PROVE  LET offset == recommendCalibrationOffset(list).recommendedScore100Offset
                        IN  /\ offset \in -20..20
                            /\ ErrorSum(list, offset) <= ErrorSum(list, 0)
                            /\ list = {} => offset = 0
                            /\ Magnitude(analyzeCalibration(list).avgSignedDelta - 100 * offset) <= 50
                               \/ Magnitude(offset) = 20
      BY DEF RecommendationNeverHurts, ErrorSum
    <2> DEFINE offset == recommendCalibrationOffset(list).recommendedScore100Offset
               n == Cardinality(list)
               d == Signed(list)
    <2>1. /\ list \subseteq samples /\ IsFiniteSet(list)
      <3> DEFINE rows == {s \in samples : s.useCase \in {useCase} \cup {u \in UseCases : useCase = AnyUseCase}
                                                /\ s.at >= 0}
      <3>1. IsFiniteSet(rows) /\ rows \subseteq samples /\ list \in Listed(rows, SampleLimit)
        BY FS_Subset DEF RowsInv, listCalibrationSamples
      <3> HIDE DEF rows
      <3>2. QED
        BY <3>1, ListedRows
    <2>2. list \subseteq SampleRow /\ \A s \in list : s.delta = s.analyst - s.model
      BY <2>1 DEF TypeOK, RowsInv
    <2>3. /\ ErrorSum(list, 0) \in Int /\ d \in Int
          /\ \A by \in Int : ErrorSum(list, by) = ErrorSum(list, 0) + (-2 * by) * d + (by * by) * n
      BY <2>1, <2>2, ErrorSumIs
    <2>4. n \in Nat /\ (n = 0 <=> list = {})
      BY <2>1, FS_CardinalityType, FS_EmptySet
    <2>5. offset = IF n = 0 THEN 0 ELSE OffsetFor(d, n)
      BY DEF recommendCalibrationOffset, recommendedOffset, OffsetFor
    <2>6. analyzeCalibration(list).avgSignedDelta = IF n = 0 THEN 0 ELSE (200 * d + n) \div (2 * n)
      BY DEF analyzeCalibration, Average
    <2> HIDE DEF offset, n, d
    <2>7. CASE n = 0
      <3>1. offset = 0 /\ analyzeCalibration(list).avgSignedDelta = 0
        BY <2>5, <2>6, <2>7
      <3>2. Magnitude(0 - 100 * 0) <= 50
        BY DEF Magnitude
      <3>3. QED
        BY <2>3, <3>1, <3>2 DEF offset
    <2>8. CASE n # 0
      <3>1. n \in Nat \ {0} /\ offset = OffsetFor(d, n)
        BY <2>4, <2>5, <2>8
      <3>2. offset \in -20..20
        <4>1. OffsetFor(d, n) \in -20..20
          BY <2>3, <3>1, OffsetBounded
        <4>2. QED
          BY <3>1, <4>1
      <3>3. n * (offset * offset) <= 2 * (offset * d)
        BY <2>3, <3>1, OffsetHelps
      <3>4. PICK o \in Int : o = offset
        BY <3>2
      <3>5. ErrorSum(list, o) <= ErrorSum(list, 0)
        <4>1. ErrorSum(list, o) = ErrorSum(list, 0) + (-2 * o) * d + (o * o) * n
          BY <2>3
        <4>2. PICK od \in Int, on \in Int : od = o * d /\ on = n * (o * o)
          BY <2>3, <2>4
        <4>3. (-2 * o) * d = -2 * od /\ (o * o) * n = on
          BY <2>3, <2>4, <4>2
        <4>4. QED
          BY <2>3, <3>3, <3>4, <4>1, <4>2, <4>3
      <3>6. PICK avg \in Int : /\ avg = analyzeCalibration(list).avgSignedDelta
                               /\ (2 * n) * avg <= 200 * d + n /\ 200 * d + n < (2 * n) * avg + 2 * n
        <4>1. 2 * n \in Nat \ {0} /\ 200 * d + n \in Int
          BY <2>3, <3>1, SMTT(60)
        <4>2. QED
          BY <2>6, <3>1, <4>1, Quotient
      <3>7. avg - 100 * o \in -50..50 \/ o \in {20, -20}
        BY <2>3, <3>1, <3>4, <3>6, OffsetIsMean
      <3>8. Magnitude(avg - 100 * o) <= 50 \/ Magnitude(o) = 20
        BY <3>7 DEF Magnitude
      <3>9. QED
        BY <2>4, <2>8, <3>2, <3>4, <3>5, <3>6, <3>8 DEF offset
    <2>9. QED
      BY <2>7, <2>8
  <1>2. QED
    BY <1>1, ReportsInvariant, PTL
-----------------------------------------------------------------------------
(* The books of the reports.                                               *)
(* The sparkline a report has read is made of analyses that are stored:    *)
(* rows are added, and none is changed or deleted.                         *)
BarsOf(rows) ==
    [t \in {a.at : a \in rows} |-> [count |-> Cardinality({a \in rows : a.at = t}),
                                    sum |-> ScoreSum({a \in rows : a.at = t})]]
SparklineInv == sparkline # Nothing => \E rows \in SUBSET analyses : sparkline = BarsOf(rows)

LEMMA SparklineSteps ==
  /\ TablesInit => SparklineInv
  /\ SparklineInv /\ [TablesNext]_tables => SparklineInv'
  <1>1. TablesInit => SparklineInv
    BY DEF TablesInit, SparklineInv
  <1>2. SparklineInv /\ [TablesNext]_tables => SparklineInv'
    <2> SUFFICES ASSUME SparklineInv, [TablesNext]_tables PROVE SparklineInv'
      OBVIOUS
    <2>1. ASSUME sparkline' = sparkline, analyses \subseteq analyses' PROVE SparklineInv'
      BY <2>1 DEF SparklineInv, BarsOf
    <2>2. ASSUME NEW j \in Jobs, SaveAnalysis(j) PROVE SparklineInv'
      BY <2>1, <2>2 DEF SaveAnalysis
    <2>3. CASE ReadSparkline
      <3>1. getSentimentTrend(BaselineSpan) = BarsOf({a \in analyses : a.at >= now - BaselineSpan})
        BY DEF getSentimentTrend, BarsOf
      <3>2. analyses' = analyses /\ sparkline' = getSentimentTrend(BaselineSpan)
        BY <2>3 DEF ReadSparkline
      <3>3. {a \in analyses : a.at >= now - BaselineSpan} \in SUBSET analyses'
        BY <3>2
      <3>4. \E rows \in SUBSET analyses' : sparkline' = BarsOf(rows)
        BY <3>1, <3>2, <3>3
      <3>5. QED
        BY <3>4 DEF SparklineInv, BarsOf
    <2>4. CASE EndReport
      BY <2>4 DEF EndReport, SparklineInv
    <2>5. QED
      BY <2>1, <2>2, <2>3, <2>4
         DEF TablesNext, tables, Complete, SaveSegments, SaveMoments, Label, Search, Tick
  <1>3. QED
    BY <1>1, <1>2

LEMMA SparklineInvariant == TablesSpec => []SparklineInv
  BY SparklineSteps, PTL DEF TablesSpec

(* A moment within the spans of a drift is in one of them: what they count *)
(* there are its analyses, once each.                                      *)
LEMMA SpansPart ==
  ASSUME TypeOK, RowsInv, RecentSpan <= BaselineSpan, NEW later \in Int, NEW t \in Int,
         t >= later - BaselineSpan
  PROVE  LET Dated(part) == {a \in part : a.at = t}
             baseline == Baseline(analyses, later)
             recent == Recent(analyses, later)
         IN  /\ Cardinality(Dated(baseline)) + Cardinality(Dated(recent)) = Cardinality(Dated(analyses))
             /\ Dated(baseline \cup recent) = Dated(analyses)
  <1> DEFINE Dated(part) == {a \in part : a.at = t}
             baseline == Baseline(analyses, later)
             recent == Recent(analyses, later)
  <1>1. RecentSpan \in Int /\ BaselineSpan \in Int
    OBVIOUS
  <1>2. CASE t >= later - RecentSpan
    <2>1. Dated(baseline) = {} /\ Dated(recent) = Dated(analyses) /\ Dated(baseline \cup recent) = Dated(analyses)
      BY <1>1, <1>2 DEF Baseline, Recent
    <2>2. IsFiniteSet(Dated(analyses)) /\ Dated(analyses) \subseteq analyses
      BY FS_Subset DEF RowsInv
    <2> HIDE DEF Dated, baseline, recent
    <2>3. Cardinality(Dated(baseline)) = 0 /\ Cardinality(Dated(analyses)) \in Nat
      BY <2>1, <2>2, FS_EmptySet, FS_CardinalityType
    <2>4. /\ Cardinality(Dated(baseline)) + Cardinality(Dated(recent)) = Cardinality(Dated(analyses))
          /\ Dated(baseline \cup recent) = Dated(analyses)
      BY <2>1, <2>3
    <2>5. QED
      BY <2>4 DEF Dated, baseline, recent
  <1>3. CASE t < later - RecentSpan
    <2>1. Dated(recent) = {} /\ Dated(baseline) = Dated(analyses) /\ Dated(baseline \cup recent) = Dated(analyses)
      BY <1>1, <1>3 DEF Baseline, Recent
    <2>2. IsFiniteSet(Dated(analyses)) /\ Dated(analyses) \subseteq analyses
      BY FS_Subset DEF RowsInv
    <2> HIDE DEF Dated, baseline, recent
    <2>3. Cardinality(Dated(recent)) = 0 /\ Cardinality(Dated(analyses)) \in Nat
      BY <2>1, <2>2, FS_EmptySet, FS_CardinalityType
    <2>4. /\ Cardinality(Dated(baseline)) + Cardinality(Dated(recent)) = Cardinality(Dated(analyses))
          /\ Dated(baseline \cup recent) = Dated(analyses)
      BY <2>1, <2>3
    <2>5. QED
      BY <2>4 DEF Dated, baseline, recent
  <1>4. QED
    BY <1>1, <1>2, <1>3

LEMMA BarsAreTold ==
  ASSUME TypeOK, RowsInv, NEW rows \in SUBSET analyses, NEW t \in DOMAIN BarsOf(rows)
  PROVE  LET there == {a \in analyses : a.at = t}
         IN  /\ BarsOf(rows)[t].count <= Cardinality(there)
             /\ BarsOf(rows)[t].count = Cardinality(there) => BarsOf(rows)[t].sum = ScoreSum(there)
  <1> DEFINE there == {a \in analyses : a.at = t}
             mine == {a \in rows : a.at = t}
  <1>1. BarsOf(rows)[t].count = Cardinality(mine) /\ BarsOf(rows)[t].sum = ScoreSum(mine)
    BY DEF BarsOf
  <1>2. mine \subseteq there
    OBVIOUS
  <1>3. IsFiniteSet(there)
    BY FS_Subset DEF RowsInv
  <1>4. Cardinality(mine) <= Cardinality(there) /\ (Cardinality(mine) = Cardinality(there) => mine = there)
    BY <1>2, <1>3, FS_Subset
  <1> HIDE DEF mine, there
  <1>5. QED
    BY <1>1, <1>4 DEF there

LEMMA ConfusionAdds ==
  ASSUME NEW list, IsFiniteSet(list)
  PROVE  LET pairs == analyzeCalibration(list).confusionPairs
         IN  SumOver([k \in pairs |-> k.count], pairs) = Cardinality(Misclassified(list))
  <1> DEFINE wrong == Misclassified(list)
             Pair(s) == <<s.polarity, polarityFromScore(s.analyst)>>
             Entry(k) == [predicted |-> k[1], actual |-> k[2],
                          count |-> Cardinality({s \in wrong : Pair(s) = k}),
                          percentage |-> Average(100 * Cardinality({s \in wrong : Pair(s) = k}),
                                                 Cardinality(wrong))]
             pairs == buildConfusionPairs(list)
             K == [s \in wrong |-> Entry(Pair(s))]
             One == [s \in wrong |-> 1]
             Counts == [k \in pairs |-> k.count]
  <1>1. IsFiniteSet(wrong)
    BY FS_Subset DEF Misclassified
  <1>2. pairs = {Entry(k) : k \in {Pair(s) : s \in wrong}}
    BY DEF buildConfusionPairs
  <1>3. pairs = {K[s] : s \in wrong}
    <2> HIDE DEF Entry, Pair, wrong, pairs
    <2>1. QED
      BY <1>2
  <1>4. ASSUME NEW s \in wrong, NEW r \in wrong PROVE K[r] = K[s] <=> Pair(r) = Pair(s)
    <2>1. K[r] = K[s] => K[r].predicted = K[s].predicted /\ K[r].actual = K[s].actual
      OBVIOUS
    <2>2. /\ K[r].predicted = r.polarity /\ K[r].actual = polarityFromScore(r.analyst)
          /\ K[s].predicted = s.polarity /\ K[s].actual = polarityFromScore(s.analyst)
      OBVIOUS
    <2>3. Pair(r) = Pair(s) => K[r] = K[s]
      <3> HIDE DEF Entry, Pair
      <3>1. QED
        OBVIOUS
    <2> HIDE DEF K
    <2>4. QED
      BY <2>1, <2>2, <2>3
  <1>5. ASSUME NEW s \in wrong PROVE K[s].count = Cardinality({r \in wrong : Pair(r) = Pair(s)})
    OBVIOUS
  <1>6. \A s \in wrong : One[s] = 1
    OBVIOUS
  <1>7. \A k \in pairs : Counts[k] = k.count
    OBVIOUS
  <1> HIDE DEF wrong, Pair, Entry, pairs, K, One, Counts
  <1>8. IsFiniteSet(pairs) /\ \A s \in wrong : K[s] \in pairs
    BY <1>1, <1>3, ImageFinite
  <1>9. Numbers(One, wrong)
    BY <1>6 DEF Numbers
  <1>10. ASSUME NEW k \in pairs PROVE Counts[k] = SumOver(One, AtKey(wrong, K, k))
    <2>1. PICK s \in wrong : k = K[s]
      BY <1>3
    <2> DEFINE Same == AtKey(wrong, K, k)
    <2>2. Same = {r \in wrong : Pair(r) = Pair(s)}
      BY <1>4, <2>1 DEF AtKey
    <2>3. IsFiniteSet(Same) /\ \A r \in Same : One[r] = 1
      BY <1>1, <1>6, FS_Subset DEF AtKey
    <2> HIDE DEF Same
    <2>4. SumOver(One, Same) = Cardinality(Same) /\ Cardinality(Same) \in Nat
      BY <2>3, TotalOfOnes
    <2>5. Counts[k] = Cardinality(Same)
      BY <1>5, <1>7, <2>1, <2>2
    <2>6. QED
      BY <2>4, <2>5 DEF Same
  <1>11. SumOver(Counts, pairs) = SumOver(One, wrong)
    BY <1>1, <1>8, <1>9, <1>10, TotalByKey
  <1>12. SumOver(One, wrong) = Cardinality(wrong) /\ Cardinality(wrong) \in Nat
    BY <1>1, <1>6, TotalOfOnes
  <1>13. SumOver(Counts, pairs) = Cardinality(wrong)
    BY <1>11, <1>12
  <1>14. CASE Cardinality(list) # 0
    <2>1. analyzeCalibration(list).confusionPairs = pairs
      BY <1>14 DEF analyzeCalibration, pairs
    <2>2. QED
      BY <1>13, <2>1 DEF Counts, wrong
  <1>15. CASE Cardinality(list) = 0
    <2>1. list = {}
      BY <1>15, FS_EmptySet
    <2>2. wrong = {} /\ analyzeCalibration(list).confusionPairs = {}
      BY <1>15, <2>1 DEF analyzeCalibration, wrong, Misclassified
    <2>3. QED
      BY <2>2, TotalOfNothing, FS_EmptySet DEF wrong
  <1>16. QED
    BY <1>14, <1>15
-----------------------------------------------------------------------------
(* The windows of the convergence: every moment of the span is in one.     *)
LEMMA QuotientIsUnique ==
  ASSUME NEW x \in Int, NEW b \in Nat \ {0}, NEW i \in Int, i * b <= x, x < (i + 1) * b
  PROVE  i = x \div b
  <1>1. PICK q \in Int : q = x \div b /\ b * q <= x /\ x < b * q + b
    BY Quotient
  <1>2. ~(i < q)
    <2> SUFFICES ASSUME i + 1 <= q PROVE FALSE
      BY <1>1
    <2>1. (i + 1) * b <= q * b
      BY <1>1
    <2>2. QED
      BY <1>1, <2>1
  <1>3. ~(q < i)
    <2> SUFFICES ASSUME q + 1 <= i PROVE FALSE
      BY <1>1
    <2>1. (q + 1) * b <= i * b
      BY <1>1
    <2>2. QED
      BY <1>1, <2>1
  <1>4. QED
    BY <1>1, <1>2, <1>3

LEMMA WindowCounted == WindowCount \in Nat \ {0} /\ WindowCount * WindowSpan >= TotalSpan
  <1>1. WindowSpan \in Nat \ {0} /\ TotalSpan \in Nat \ {0}
    OBVIOUS
  <1>2. PICK a \in Nat : a = TotalSpan + WindowSpan - 1
    BY <1>1
  <1>3. WindowCount = a \div WindowSpan
    BY <1>2 DEF WindowCount
  <1>4. WindowCount \in Int /\ a < WindowSpan * WindowCount + WindowSpan
    BY <1>1, <1>3, Quotient
  <1>5. WindowCount * WindowSpan >= TotalSpan
    BY <1>1, <1>2, <1>4
  <1>6. WindowCount > 0
    <2> SUFFICES ASSUME WindowCount <= 0 PROVE FALSE
      BY <1>4
    <2>1. PICK p \in Int : p = WindowCount * WindowSpan
      BY <1>1, <1>4
    <2>2. p <= 0
      BY <1>1, <1>4, <2>1
    <2>3. QED
      BY <1>1, <1>5, <2>1, <2>2
  <1>7. QED
    BY <1>4, <1>5, <1>6

WindowKey(t, at) == (t - at - 1) \div WindowSpan

LEMMA WindowOfKey ==
  ASSUME NEW list, NEW t \in Int, NEW s \in list, s.at \in Int
  PROVE  /\ \A i \in Int : s \in Window(list, t, i) <=> i = WindowKey(t, s.at)
         /\ WindowKey(t, s.at) \in Int
         /\ s.at < t /\ s.at >= t - WindowCount * WindowSpan
               <=> WindowKey(t, s.at) \in 0..(WindowCount - 1)
  <1>0. WindowSpan \in Nat \ {0} /\ TotalSpan \in Nat \ {0} /\ WindowCount \in Nat \ {0}
    BY WindowCounted
  <1>1. PICK x \in Int : x = t - s.at - 1
    OBVIOUS
  <1>2. PICK q \in Int : q = x \div WindowSpan /\ WindowSpan * q <= x /\ x < WindowSpan * q + WindowSpan
    BY <1>0, Quotient
  <1>3. WindowKey(t, s.at) = q
    BY <1>1, <1>2 DEF WindowKey
  <1>4. ASSUME NEW i \in Int PROVE s \in Window(list, t, i) <=> i * WindowSpan <= x /\ x < (i + 1) * WindowSpan
    <2>1. PICK low \in Int, high \in Int : low = i * WindowSpan /\ high = (i + 1) * WindowSpan
      BY <1>0
    <2>2. s \in Window(list, t, i) <=> s.at >= t - high /\ s.at < t - low
      BY <2>1 DEF Window
    <2>3. QED
      BY <1>1, <2>1, <2>2
  <1>5. q * WindowSpan <= x /\ x < (q + 1) * WindowSpan
    BY <1>0, <1>2
  <1>6. ASSUME NEW i \in Int PROVE s \in Window(list, t, i) <=> i = q
    BY <1>0, <1>2, <1>4, <1>5, QuotientIsUnique
  <1>7. PICK p \in Int : p = WindowCount * WindowSpan
    BY <1>0
  <1>8. ASSUME s.at < t, s.at >= t - p PROVE q \in 0..(WindowCount - 1)
    <2>1. x >= 0 /\ x < p
      BY <1>1, <1>7, <1>8
    <2>2. q >= 0
      <3> SUFFICES ASSUME q + 1 <= 0 PROVE FALSE
        OBVIOUS
      <3>1. (q + 1) * WindowSpan <= 0
        BY <1>0
      <3>2. QED
        BY <1>5, <2>1, <3>1
    <2>3. q < WindowCount
      <3> SUFFICES ASSUME WindowCount <= q PROVE FALSE
        BY <1>0
      <3>1. WindowCount * WindowSpan <= q * WindowSpan
        BY <1>0
      <3>2. QED
        BY <1>0, <1>5, <1>7, <2>1, <3>1
    <2>4. QED
      BY <1>0, <2>2, <2>3
  <1>9. ASSUME q >= 0, q + 1 <= WindowCount PROVE s.at < t /\ s.at >= t - p
    <2>1. q * WindowSpan >= 0 /\ (q + 1) * WindowSpan <= WindowCount * WindowSpan
      BY <1>0, <1>9
    <2>2. q * WindowSpan \in Int /\ (q + 1) * WindowSpan \in Int
      BY <1>0
    <2>3. QED
      BY <1>1, <1>5, <1>7, <2>1, <2>2
  <1>10. s.at < t /\ s.at >= t - p <=> q \in 0..(WindowCount - 1)
    BY <1>0, <1>8, <1>9
  <1>11. QED
    BY <1>3, <1>6, <1>7, <1>10

LEMMA WindowsPart ==
  ASSUME NEW list, NEW t \in Int, \A s \in list : s.at \in Int
  PROVE  LET windows == {Window(list, t, i) : i \in 0..(WindowCount - 1)}
         IN  /\ UNION windows = {s \in list : s.at < t /\ s.at >= t - WindowCount * WindowSpan}
             /\ \A w1, w2 \in windows : w1 = w2 \/ w1 \cap w2 = {}
  <1> DEFINE windows == {Window(list, t, i) : i \in 0..(WindowCount - 1)}
  <1>0. WindowCount \in Nat
    BY WindowCounted
  <1>1. ASSUME NEW i \in 0..(WindowCount - 1), NEW s \in Window(list, t, i)
        PROVE  /\ s \in list /\ i = WindowKey(t, s.at)
               /\ s.at < t /\ s.at >= t - WindowCount * WindowSpan
    <2>1. s \in list
      BY <1>1 DEF Window
    <2>2. i \in Int /\ i >= 0
      BY <1>0
    <2>3. i = WindowKey(t, s.at)
      BY <1>1, <2>1, <2>2, WindowOfKey
    <2>4. QED
      BY <2>1, <2>2, <2>3, WindowOfKey
  <1>2. ASSUME NEW s \in list, s.at < t, s.at >= t - WindowCount * WindowSpan
        PROVE  \E i \in 0..(WindowCount - 1) : s \in Window(list, t, i)
    <2>1. WindowKey(t, s.at) \in 0..(WindowCount - 1) /\ WindowKey(t, s.at) \in Int
      BY <1>2, WindowOfKey
    <2>2. s \in Window(list, t, WindowKey(t, s.at))
      BY <2>1, WindowOfKey
    <2>3. QED
      BY <2>1, <2>2
  <1>3. UNION windows = {s \in list : s.at < t /\ s.at >= t - WindowCount * WindowSpan}
    BY <1>1, <1>2
  <1>4. ASSUME NEW i \in 0..(WindowCount - 1), NEW j \in 0..(WindowCount - 1),
               NEW s \in Window(list, t, i), s \in Window(list, t, j)
        PROVE  i = j
    BY <1>1, <1>4
  <1>5. \A w1, w2 \in windows : w1 = w2 \/ w1 \cap w2 = {}
    BY <1>4
  <1>6. QED
    BY <1>3, <1>5

(* An error in hundredths: its rounded quotient is at most, or at least, a *)
(* number if the sum is within the like multiple of the count.             *)
LEMMA FixedCompared ==
  ASSUME NEW sum \in Nat, NEW n \in Nat \ {0}, NEW m \in Int
  PROVE  /\ Fixed(100 * sum, n) \in Int
         /\ Fixed(100 * sum, n) <= m <=> 200 * sum - (2 * m + 1) * n < 0
         /\ m <= Fixed(100 * sum, n) <=> 200 * sum - (2 * m - 1) * n >= 0
  <1>1. PICK a \in Int : a = 200 * sum + n
    OBVIOUS
  <1>2. PICK b \in Nat \ {0} : b = 2 * n
    OBVIOUS
  <1>3. Fixed(100 * sum, n) = a \div b
    BY <1>1, <1>2 DEF Fixed
  <1>4. PICK q \in Int : q = a \div b /\ b * q <= a /\ a < b * q + b
    BY Quotient
  <1>5. PICK p \in Int, r \in Int : p = n * q /\ r = n * m
    OBVIOUS
  <1>6. b * q = 2 * p /\ (2 * m + 1) * n = 2 * r + n /\ (2 * m - 1) * n = 2 * r - n
    BY <1>2, <1>5
  <1>7. 2 * p <= 200 * sum + n /\ 200 * sum < 2 * p + n
    BY <1>1, <1>2, <1>4, <1>6
  <1>8. q <= m <=> p <= r
    <2>1. q <= m => p <= r
      BY <1>5
    <2>2. m + 1 <= q => r + n <= p
      <3> SUFFICES ASSUME m + 1 <= q PROVE r + n <= p
        OBVIOUS
      <3>1. n * (m + 1) <= n * q
        OBVIOUS
      <3>2. QED
        BY <1>5, <3>1
    <2>3. QED
      BY <2>1, <2>2
  <1>9. m <= q => r <= p
    BY <1>5
  <1>10. q + 1 <= m => p + n <= r
    <2> SUFFICES ASSUME q + 1 <= m PROVE p + n <= r
      OBVIOUS
    <2>1. n * (q + 1) <= n * m
      OBVIOUS
    <2>2. QED
      BY <1>5, <2>1
  <1>11. m + 1 <= q => r + n <= p
    <2> SUFFICES ASSUME m + 1 <= q PROVE r + n <= p
      OBVIOUS
    <2>1. n * (m + 1) <= n * q
      OBVIOUS
    <2>2. QED
      BY <1>5, <2>1
  <1>12. q <= m <=> 200 * sum - (2 * m + 1) * n < 0
    BY <1>6, <1>7, <1>8, <1>11
  <1>13. m <= q <=> 200 * sum - (2 * m - 1) * n >= 0
    BY <1>6, <1>7, <1>9, <1>10
  <1>14. QED
    BY <1>3, <1>4, <1>12, <1>13

(* A sum that is below zero in every window with a sample, or in none, is  *)
(* so over all of them.                                                    *)
LEMMA SumOfWindows ==
  ASSUME NEW list, IsFiniteSet(list), NEW F, Numbers(F, list), NEW I, IsFiniteSet(I),
         NEW K, \A s \in list : K[s] \in I
  PROVE  /\ (\A i \in I : SumOver(F, AtKey(list, K, i)) >= 0) => SumOver(F, list) >= 0
         /\ (\A i \in I : SumOver(F, AtKey(list, K, i)) < 0 \/ AtKey(list, K, i) = {}) /\ list # {}
               => SumOver(F, list) < 0
  <1> DEFINE G == [i \in I |-> SumOver(F, AtKey(list, K, i))]
             Zero == [i \in I |-> 0]
  <1>1. \A i \in I : G[i] = SumOver(F, AtKey(list, K, i)) /\ Zero[i] = 0
    OBVIOUS
  <1>2. \A i \in I : AtKey(list, K, i) \subseteq list
    BY DEF AtKey
  <1>3. Numbers(G, I) /\ Numbers(Zero, I)
    <2>1. ASSUME NEW i \in I PROVE SumOver(F, AtKey(list, K, i)) \in Int
      <3>1. IsFiniteSet(AtKey(list, K, i)) /\ Numbers(F, AtKey(list, K, i))
        BY <1>2, FS_Subset DEF Numbers
      <3>2. QED
        BY <3>1, TotalIsInt
    <2>2. QED
      BY <1>1, <2>1 DEF Numbers
  <1> HIDE DEF G, Zero
  <1>4. SumOver(G, I) = SumOver(F, list)
    BY <1>1, TotalByKey
  <1>5. ASSUME NEW J \in SUBSET I PROVE SumOver(Zero, J) = 0 /\ IsFiniteSet(J)
    <2>1. IsFiniteSet(J)
      BY FS_Subset
    <2>2. PICK c \in Int : c = 0
      OBVIOUS
    <2>3. SumOver(Zero, J) = c * Cardinality(J)
      BY <1>1, <2>1, <2>2, TotalConstant
    <2>4. Cardinality(J) \in Nat
      BY <2>1, FS_CardinalityType
    <2>5. QED
      BY <2>1, <2>2, <2>3, <2>4
  <1>6. ASSUME \A i \in I : SumOver(F, AtKey(list, K, i)) >= 0 PROVE SumOver(F, list) >= 0
    <2>1. \A i \in I : Zero[i] <= G[i]
      BY <1>1, <1>3, <1>6 DEF Numbers
    <2>2. SumOver(Zero, I) <= SumOver(G, I) /\ SumOver(G, I) \in Int
      BY <1>3, <2>1, TotalMonotone, TotalIsInt
    <2>3. QED
      BY <1>4, <1>5, <2>2
  <1>7. ASSUME \A i \in I : SumOver(F, AtKey(list, K, i)) < 0 \/ AtKey(list, K, i) = {}, list # {}
        PROVE  SumOver(F, list) < 0
    <2>1. PICK s \in list : TRUE
      BY <1>7
    <2>2. PICK i \in I : i = K[s]
      OBVIOUS
    <2>3. s \in AtKey(list, K, i)
      BY <2>2 DEF AtKey
    <2>4. G[i] < 0
      BY <1>1, <1>7, <2>3
    <2>5. \A j \in I : G[j] <= Zero[j]
      <3>1. ASSUME NEW j \in I, AtKey(list, K, j) = {} PROVE G[j] = 0
        BY <1>1, <3>1, TotalOfNothing
      <3>2. QED
        BY <1>1, <1>3, <1>7, <3>1 DEF Numbers
    <2>6. /\ IsFiniteSet(I \ {i}) /\ Numbers(G, I \ {i}) /\ Numbers(Zero, I \ {i})
          /\ SumOver(Zero, I \ {i}) = 0
      BY <1>3, <1>5 DEF Numbers
    <2>7. SumOver(G, I \ {i}) <= 0 /\ SumOver(G, I \ {i}) \in Int
      BY <2>5, <2>6, TotalMonotone, TotalIsInt
    <2>8. SumOver(G, I) = G[i] + SumOver(G, I \ {i})
      BY <1>3, TotalRest
    <2>9. G[i] \in Int
      BY <1>3 DEF Numbers
    <2>10. QED
      BY <1>4, <2>4, <2>7, <2>8, <2>9
  <1>8. QED
    BY <1>6, <1>7

Mae(rows) == Fixed(100 * Absolute(rows), Cardinality(rows))

LEMMA AbsoluteIsNat ==
  ASSUME NEW rows, IsFiniteSet(rows), rows \subseteq SampleRow
  PROVE  Absolute(rows) \in Nat /\ Numbers([s \in rows |-> Magnitude(s.delta)], rows)
  <1> DEFINE F == [s \in rows |-> Magnitude(s.delta)]
             Zero == [s \in rows |-> 0]
  <1>1. \A s \in rows : F[s] \in Nat
    BY DEF SampleRow, Magnitude
  <1>2. Numbers(F, rows) /\ Numbers(Zero, rows) /\ \A s \in rows : Zero[s] <= F[s]
    BY <1>1 DEF Numbers
  <1>3. \A s \in rows : Zero[s] = 0
    OBVIOUS
  <1>4. Absolute(rows) = SumOver(F, rows)
    BY DEF Absolute
  <1> HIDE DEF F, Zero
  <1>5. SumOver(F, rows) \in Int /\ SumOver(Zero, rows) <= SumOver(F, rows)
    BY <1>2, TotalIsInt, TotalMonotone
  <1>6. PICK c \in Int : c = 0
    OBVIOUS
  <1>7. SumOver(Zero, rows) = c * Cardinality(rows) /\ Cardinality(rows) \in Nat
    BY <1>3, <1>6, TotalConstant, FS_CardinalityType
  <1>8. Absolute(rows) \in Nat
    BY <1>4, <1>5, <1>6, <1>7
  <1>9. QED
    BY <1>2, <1>8 DEF F

(* The errors reported are those of the windows with a sample.             *)
LEMMA ErrorsOfWindows ==
  ASSUME NEW list, IsFiniteSet(list), NEW t \in Int, MinPerWindow = 1
  PROVE  ToSet(WindowErrors(list, t))
         = {Mae(Window(list, t, i)) : i \in {k \in 0..(WindowCount - 1) : Window(list, t, k) # {}}}
  <1> DEFINE w == [k \in 1..WindowCount |-> Window(list, t, WindowCount - k)]
             keep == {x \in ToSet(w) : Cardinality(x) >= MinPerWindow}
             kept == Kept(w, keep)
             J == {k \in 0..(WindowCount - 1) : Window(list, t, k) # {}}
  <1>0. WindowCount \in Nat
    BY WindowCounted
  <1>1. w \in Seq(SUBSET list) /\ Len(w) = WindowCount
    <2>1. \A k \in 1..WindowCount : Window(list, t, WindowCount - k) \in SUBSET list
      BY DEF Window
    <2>2. QED
      BY <1>0, <2>1
  <1>2. WindowErrors(list, t) = [k \in DOMAIN kept |-> Mae(kept[k])]
    BY DEF WindowErrors, Mae
  <1>3. kept \in Seq(SUBSET list)
    BY <1>1, KeptType
  <1>4. PICK g : ComesFrom(g, kept, w, keep, WindowCount)
    BY <1>1, KeptComesFrom
  <1>5. \A i \in 0..(WindowCount - 1) : /\ WindowCount - i \in 1..WindowCount
                                        /\ w[WindowCount - i] = Window(list, t, i)
    <2> TAKE i \in 0..(WindowCount - 1)
    <2> DEFINE k == WindowCount - i
    <2>1. k \in 1..WindowCount /\ WindowCount - k = i
      BY <1>0
    <2>2. w[k] = Window(list, t, WindowCount - k)
      BY <2>1
    <2>3. QED
      BY <2>1, <2>2
  <1>6. \A k \in 1..WindowCount : /\ WindowCount - k \in 0..(WindowCount - 1)
                                  /\ w[k] = Window(list, t, WindowCount - k)
    BY <1>0
  <1>7. \A i \in 0..(WindowCount - 1) : IsFiniteSet(Window(list, t, i))
    BY FS_Subset DEF Window
  <1>8. ASSUME NEW i \in 0..(WindowCount - 1)
        PROVE  Window(list, t, i) \in keep <=> Window(list, t, i) # {}
    <2>1. Window(list, t, i) \in ToSet(w)
      BY <1>5 DEF ToSet
    <2>2. Cardinality(Window(list, t, i)) >= 1 <=> Window(list, t, i) # {}
      <3> HIDE DEF w, keep, kept
      <3>1. PICK W : W = Window(list, t, i) /\ IsFiniteSet(W)
        BY <1>7
      <3>2. Cardinality(W) \in Nat /\ (Cardinality(W) = 0 <=> W = {})
        BY <3>1, FS_EmptySet, FS_CardinalityType
      <3>3. QED
        BY <3>1, <3>2
    <2>3. QED
      BY <2>1, <2>2
  <1>9. DOMAIN kept = 1..Len(kept) /\ ToSet(WindowErrors(list, t)) = {Mae(kept[k]) : k \in DOMAIN kept}
    <2> HIDE DEF w, keep, kept, J
    <2>1. DOMAIN kept = 1..Len(kept)
      BY <1>3
    <2>2. ToSet([k \in DOMAIN kept |-> Mae(kept[k])]) = {Mae(kept[k]) : k \in DOMAIN kept}
      BY DEF ToSet
    <2>3. QED
      BY <1>2, <2>1, <2>2
  <1> HIDE DEF w, keep, kept
  <1>10. ASSUME NEW k \in DOMAIN kept PROVE \E i \in J : kept[k] = Window(list, t, i)
    <2>1. g[k] \in 1..WindowCount /\ kept[k] = w[g[k]] /\ kept[k] \in keep
      BY <1>4, <1>9 DEF ComesFrom
    <2>2. PICK i \in 0..(WindowCount - 1) : w[g[k]] = Window(list, t, i)
      <3>1. PICK m \in 1..WindowCount : m = g[k]
        BY <2>1
      <3>2. QED
        BY <1>6, <3>1
    <2>3. i \in J
      BY <1>8, <2>1, <2>2
    <2>4. QED
      BY <2>1, <2>2, <2>3
  <1>11. ASSUME NEW i \in J PROVE \E k \in DOMAIN kept : kept[k] = Window(list, t, i)
    <2>1. WindowCount - i \in 1..WindowCount /\ w[WindowCount - i] = Window(list, t, i) /\ w[WindowCount - i] \in keep
      BY <1>5, <1>8
    <2>2. PICK k \in 1..Len(kept) : g[k] = WindowCount - i
      BY <1>4, <2>1 DEF ComesFrom
    <2>3. kept[k] = w[WindowCount - i]
      BY <1>4, <2>2 DEF ComesFrom
    <2>4. QED
      BY <1>9, <2>1, <2>2, <2>3
  <1> HIDE DEF J
  <1>12. {Mae(kept[k]) : k \in DOMAIN kept} = {Mae(Window(list, t, i)) : i \in J}
    BY <1>10, <1>11
  <1>13. QED
    BY <1>9, <1>12 DEF J

LEMMA ErrorsBetween ==
  ASSUME NEW list, IsFiniteSet(list), list \subseteq SampleRow, NEW t \in Int, MinPerWindow = 1,
         \A s \in list : s.at >= t - WindowCount * WindowSpan /\ s.at < t, list # {}
  PROVE  LET errors == ToSet(WindowErrors(list, t))
         IN  Min(errors) <= Mae(list) /\ Mae(list) <= Max(errors)
  <1> DEFINE I == 0..(WindowCount - 1)
             J == {k \in I : Window(list, t, k) # {}}
             K == [s \in list |-> WindowKey(t, s.at)]
             E == [i \in J |-> Mae(Window(list, t, i))]
             errors == ToSet(WindowErrors(list, t))
  <1>0. IsFiniteSet(I) /\ IsFiniteSet(J) /\ J \subseteq I /\ I \subseteq Int
    <2>1. WindowCount \in Nat /\ 0 \in Int /\ WindowCount - 1 \in Int
      BY WindowCounted
    <2>2. IsFiniteSet(I)
      BY <2>1, FS_Interval
    <2>3. QED
      BY <2>1, <2>2, FS_Subset, SMTT(60)
  <1>1. \A s \in list : s.at \in Int
    <2>1. \A s \in list : s \in SampleRow
      OBVIOUS
    <2>2. QED
      BY <2>1 DEF SampleRow
  <1>2. \A s \in list : K[s] \in I
    BY <1>1, WindowOfKey
  <1>3. ASSUME NEW i \in I PROVE AtKey(list, K, i) = Window(list, t, i)
    <2>1. i \in Int
      BY <1>0
    <2>2. \A s \in list : s \in Window(list, t, i) <=> i = K[s]
      BY <1>1, <2>1, WindowOfKey
    <2>3. Window(list, t, i) \subseteq list
      BY DEF Window
    <2> HIDE DEF K
    <2>4. QED
      BY <2>2, <2>3 DEF AtKey
  <1>4. errors = {E[i] : i \in J}
    <2>1. errors = {Mae(Window(list, t, i)) : i \in J}
      BY ErrorsOfWindows
    <2> HIDE DEF errors, J
    <2>2. QED
      BY <2>1
  <1>5. ASSUME NEW i \in I
        PROVE  /\ Window(list, t, i) \subseteq list /\ IsFiniteSet(Window(list, t, i))
               /\ Absolute(Window(list, t, i)) \in Nat
               /\ Cardinality(Window(list, t, i)) \in Nat
               /\ Window(list, t, i) # {} => Cardinality(Window(list, t, i)) \in Nat \ {0}
    <2>1. Window(list, t, i) \subseteq list
      BY DEF Window
    <2>2. IsFiniteSet(Window(list, t, i)) /\ Window(list, t, i) \subseteq SampleRow
      BY <2>1, FS_Subset
    <2>3. QED
      BY <2>1, <2>2, AbsoluteIsNat, FS_CardinalityType, FS_EmptySet
  <1>6. errors \subseteq Int /\ errors # {} /\ IsFiniteSet(errors)
    <2>1. ASSUME NEW i \in J PROVE E[i] \in Int
      <3>1. Absolute(Window(list, t, i)) \in Nat /\ Cardinality(Window(list, t, i)) \in Nat \ {0}
        BY <1>5
      <3>2. QED
        BY <3>1, FixedCompared DEF Mae
    <2>2. PICK s \in list : TRUE
      OBVIOUS
    <2>3. s \in AtKey(list, K, K[s]) /\ K[s] \in I
      BY <1>2 DEF AtKey
    <2>4. K[s] \in J
      BY <1>3, <2>3
    <2> HIDE DEF E, J, K, errors
    <2>5. IsFiniteSet(errors)
      BY <1>0, <1>4, ImageFinite
    <2>6. QED
      BY <1>4, <2>1, <2>4, <2>5
  <1>7. PICK high \in Int, low \in Int : high = Max(errors) /\ low = Min(errors)
    BY <1>6, Extremes
  <1>8. \A i \in J : low <= Mae(Window(list, t, i)) /\ Mae(Window(list, t, i)) <= high
    <2>1. \A y \in errors : low <= y /\ y <= high
      BY <1>6, <1>7, Extremes
    <2>2. \A i \in J : E[i] \in errors /\ E[i] = Mae(Window(list, t, i))
      BY <1>4
    <2> HIDE DEF E, errors
    <2>3. QED
      BY <2>1, <2>2
  \* the sum of 200 times an error less a constant, of a window or of all
  <1> DEFINE Less(c) == [s \in list |-> 200 * Magnitude(s.delta) + 0 * Magnitude(s.delta) + c]
  <1>9. ASSUME NEW W \in SUBSET list, NEW c \in Int
        PROVE  /\ IsFiniteSet(W) /\ Numbers(Less(c), W)
               /\ SumOver(Less(c), W) = 200 * Absolute(W) + c * Cardinality(W)
    <2> DEFINE F == [s \in W |-> Magnitude(s.delta)]
    <2>1. IsFiniteSet(W) /\ W \subseteq SampleRow
      BY FS_Subset
    <2>2. Numbers(F, W) /\ Absolute(W) \in Nat /\ Absolute(W) = SumOver(F, W)
      BY <2>1, AbsoluteIsNat DEF Absolute
    <2>3. \A s \in W : Less(c)[s] = 200 * F[s] + 0 * F[s] + c
      OBVIOUS
    <2>4. \A s \in W : F[s] \in Int
      BY <2>2 DEF Numbers
    <2> HIDE DEF F, Less
    <2>5. Numbers(Less(c), W)
      BY <2>3, <2>4 DEF Numbers
    <2>6. PICK a \in Int, b \in Int : a = 200 /\ b = 0
      OBVIOUS
    <2>7. SumOver(Less(c), W) = a * SumOver(F, W) + b * SumOver(F, W) + c * Cardinality(W)
      BY <2>1, <2>2, <2>3, <2>6, TotalLinear
    <2>8. PICK n \in Nat : n = Cardinality(W)
      BY <2>1, FS_CardinalityType
    <2>9. PICK abs \in Int, cn \in Int : abs = Absolute(W) /\ cn = c * n
      BY <2>2
    <2>10. QED
      BY <2>1, <2>2, <2>5, <2>6, <2>7, <2>8, <2>9
  <1> HIDE DEF Less, K, E, errors
  <1>10. Absolute(list) \in Nat /\ Cardinality(list) \in Nat \ {0}
    BY AbsoluteIsNat, FS_CardinalityType, FS_EmptySet
  <1>11. Mae(list) <= high
    <2>1. PICK c \in Int : c = -(2 * high + 1)
      OBVIOUS
    <2>2. ASSUME NEW i \in I, Window(list, t, i) # {} PROVE SumOver(Less(c), AtKey(list, K, i)) < 0
      <3>1. PICK a \in Nat, n \in Nat \ {0} : a = Absolute(Window(list, t, i)) /\ n = Cardinality(Window(list, t, i))
        BY <1>5, <2>2
      <3>2. Fixed(100 * a, n) <= high
        BY <1>8, <2>2, <3>1 DEF Mae
      <3>3. 200 * a - (2 * high + 1) * n < 0
        BY <3>2, FixedCompared
      <3>4. SumOver(Less(c), Window(list, t, i)) = 200 * a + c * n
        BY <1>5, <1>9, <3>1
      <3>5. 200 * a + c * n = 200 * a - (2 * high + 1) * n
        BY <2>1
      <3>6. QED
        BY <1>3, <3>3, <3>4, <3>5
    <2>3. \A i \in I : SumOver(Less(c), AtKey(list, K, i)) < 0 \/ AtKey(list, K, i) = {}
      BY <1>3, <2>2
    <2>4. SumOver(Less(c), list) < 0
      <3>1. Numbers(Less(c), list)
        BY <1>9
      <3> HIDE DEF I
      <3>2. QED
        BY <1>0, <1>2, <2>3, <3>1, SumOfWindows
    <2>5. PICK a \in Nat, n \in Nat \ {0} : a = Absolute(list) /\ n = Cardinality(list)
      BY <1>10
    <2>6. SumOver(Less(c), list) = 200 * a + c * n
      BY <1>9, <2>5
    <2>7. 200 * a + c * n = 200 * a - (2 * high + 1) * n
      BY <2>1
    <2>8. 200 * a - (2 * high + 1) * n < 0
      BY <2>4, <2>6, <2>7
    <2>9. Fixed(100 * a, n) <= high
      BY <2>8, FixedCompared
    <2>10. QED
      BY <2>5, <2>9 DEF Mae
  <1>12. low <= Mae(list)
    <2>1. PICK c \in Int : c = -(2 * low - 1)
      OBVIOUS
    <2>2. ASSUME NEW i \in I PROVE SumOver(Less(c), AtKey(list, K, i)) >= 0
      <3>1. CASE Window(list, t, i) = {}
        <4>1. AtKey(list, K, i) = {}
          BY <1>3, <3>1
        <4>2. QED
          BY <4>1, TotalOfNothing
      <3>2. CASE Window(list, t, i) # {}
        <4>1. PICK a \in Nat, n \in Nat \ {0} : a = Absolute(Window(list, t, i)) /\ n = Cardinality(Window(list, t, i))
          BY <1>5, <3>2
        <4>2. low <= Fixed(100 * a, n)
          BY <1>8, <3>2, <4>1 DEF Mae
        <4>3. 200 * a - (2 * low - 1) * n >= 0
          BY <4>2, FixedCompared
        <4>4. SumOver(Less(c), Window(list, t, i)) = 200 * a + c * n
          BY <1>5, <1>9, <4>1
        <4>5. 200 * a + c * n = 200 * a - (2 * low - 1) * n
          BY <2>1
        <4>6. QED
          BY <1>3, <4>3, <4>4, <4>5
      <3>3. QED
        BY <3>1, <3>2
    <2>4. SumOver(Less(c), list) >= 0
      <3>1. Numbers(Less(c), list)
        BY <1>9
      <3> HIDE DEF I
      <3>2. QED
        BY <1>0, <1>2, <2>2, <3>1, SumOfWindows
    <2>5. PICK a \in Nat, n \in Nat \ {0} : a = Absolute(list) /\ n = Cardinality(list)
      BY <1>10
    <2>6. SumOver(Less(c), list) = 200 * a + c * n
      BY <1>9, <2>5
    <2>7. 200 * a + c * n = 200 * a - (2 * low - 1) * n
      BY <2>1
    <2>8. 200 * a - (2 * low - 1) * n >= 0
      BY <2>4, <2>6, <2>7
    <2>9. low <= Fixed(100 * a, n)
      BY <2>8, FixedCompared
    <2>10. QED
      BY <2>5, <2>9 DEF Mae
  <1>13. QED
    BY <1>7, <1>11, <1>12 DEF errors

(* The books of the reports balance, whatever rows the tables hold, and    *)
(* whatever is saved and however late the clock is read between the reads  *)
(* of one report: a bar of the sparkline is made of analyses the spans of  *)
(* the drift count, the windows of the convergence part the samples of     *)
(* their span, the overall error lies between theirs however they are      *)
(* rounded, and the confusion pairs count every misclassified sample once. *)
THEOREM BooksBalance == TablesSpec => []ReportsBalance
  <1>1. TypeOK /\ RowsInv /\ SparklineInv => ReportsBalance
    <2> SUFFICES ASSUME TypeOK, RowsInv, SparklineInv PROVE ReportsBalance
      OBVIOUS
    <2>0. now \in Int /\ MaxTime \in Int /\ \A s \in samples : s.at \in Int
      BY DEF TypeOK, SampleRow
    <2>1. ASSUME sparkline # Nothing, NEW list \in listSentimentAnalyses, NEW later \in now..MaxTime,
                 RecentSpan <= BaselineSpan, list = analyses,
                 NEW t \in DOMAIN sparkline, t >= later - BaselineSpan
          PROVE  LET drift == detectDrift(list, later)
                     Dated(part) == {a \in part : a.at = t}
                     told == Cardinality(Dated(drift.baseline)) + Cardinality(Dated(drift.recent))
                 IN  /\ sparkline[t].count <= told
                     /\ told <= Cardinality(Dated(analyses))
                     /\ sparkline[t].count = told =>
                          sparkline[t].sum = ScoreSum(Dated(drift.baseline \cup drift.recent))
      <3>1. /\ detectDrift(list, later).baseline = Baseline(analyses, later)
            /\ detectDrift(list, later).recent = Recent(analyses, later)
        BY <2>1 DEF detectDrift
      <3>2. later \in Int /\ t \in Int
        BY <2>0, <2>1 DEF TypeOK
      <3>3. PICK rows \in SUBSET analyses : sparkline = BarsOf(rows)
        BY <2>1 DEF SparklineInv
      <3> DEFINE there == {a \in analyses : a.at = t}
                 Dated(part) == {a \in part : a.at = t}
                 baseline == Baseline(analyses, later)
                 recent == Recent(analyses, later)
      <3>4. /\ sparkline[t].count <= Cardinality(there)
            /\ sparkline[t].count = Cardinality(there) => sparkline[t].sum = ScoreSum(there)
        BY <2>1, <3>3, BarsAreTold
      <3>5. /\ Cardinality(Dated(baseline)) + Cardinality(Dated(recent)) = Cardinality(there)
            /\ Dated(baseline \cup recent) = there
        BY <2>1, <3>2, SpansPart
      <3>6. Cardinality(there) \in Nat
        BY FS_Subset, FS_CardinalityType DEF RowsInv
      <3>7. there = Dated(analyses)
        OBVIOUS
      <3> HIDE DEF there, Dated, baseline, recent
      <3>8. /\ sparkline[t].count <= Cardinality(Dated(baseline)) + Cardinality(Dated(recent))
            /\ Cardinality(Dated(baseline)) + Cardinality(Dated(recent)) <= Cardinality(Dated(analyses))
            /\ sparkline[t].count = Cardinality(Dated(baseline)) + Cardinality(Dated(recent)) =>
                 sparkline[t].sum = ScoreSum(Dated(baseline \cup recent))
        BY <3>4, <3>5, <3>6, <3>7
      <3>9. QED
        BY <3>1, <3>8 DEF Dated, baseline, recent
    <2>2. ASSUME NEW asked \in 0..now, NEW later \in now..MaxTime,
                 NEW list \in listCalibrationSamples(AnyUseCase, asked - TotalSpan)
          PROVE  LET windows == {Window(list, later, i) : i \in 0..(WindowCount - 1)}
                     errors == ToSet(WindowErrors(list, later))
                     overall == trackCalibrationConvergence(list, later).overallMae
                 IN  /\ UNION windows = {s \in list : /\ s.at < later
                                                      /\ s.at >= later - WindowCount * WindowSpan}
                     /\ \A w1, w2 \in windows : w1 = w2 \/ w1 \cap w2 = {}
                     /\ MinPerWindow = 1 /\ UNION windows = list /\ list # {} =>
                           Min(errors) <= overall /\ overall <= Max(errors)
      <3>1. IsFiniteSet(list) /\ list \subseteq samples
        <4> DEFINE rows == {s \in samples : s.useCase \in {AnyUseCase} \cup {u \in UseCases : AnyUseCase = AnyUseCase}
                                                  /\ s.at >= asked - TotalSpan}
        <4>1. IsFiniteSet(rows) /\ rows \subseteq samples /\ list \in Listed(rows, SampleLimit)
          BY FS_Subset DEF RowsInv, listCalibrationSamples
        <4> HIDE DEF rows
        <4>2. QED
          BY <4>1, ListedRows
      <3>2. list \subseteq SampleRow /\ later \in Int /\ \A s \in list : s.at \in Int
        BY <2>0, <3>1 DEF TypeOK
      <3> DEFINE windows == {Window(list, later, i) : i \in 0..(WindowCount - 1)}
      <3>3. /\ UNION windows = {s \in list : s.at < later /\ s.at >= later - WindowCount * WindowSpan}
            /\ \A w1, w2 \in windows : w1 = w2 \/ w1 \cap w2 = {}
        BY <3>2, WindowsPart
      <3>4. ASSUME MinPerWindow = 1, UNION windows = list, list # {}
            PROVE  /\ Min(ToSet(WindowErrors(list, later))) <= trackCalibrationConvergence(list, later).overallMae
                   /\ trackCalibrationConvergence(list, later).overallMae <= Max(ToSet(WindowErrors(list, later)))
        <4>1. \A s \in list : s.at < later /\ s.at >= later - WindowCount * WindowSpan
          <5> HIDE DEF windows
          <5>1. QED
            BY <3>3, <3>4
        <4>2. trackCalibrationConvergence(list, later).overallMae = Mae(list)
          BY <3>4 DEF trackCalibrationConvergence, Mae
        <4> HIDE DEF windows
        <4>3. QED
          BY <3>1, <3>2, <3>4, <4>1, <4>2, ErrorsBetween
      <3>5. QED
        BY <3>3, <3>4
    <2>3. ASSUME NEW asked \in 0..now,
                 NEW list \in listCalibrationSamples(AnyUseCase, asked - AnalysisSpan)
          PROVE  LET report == analyzeCalibration(list)
                 IN  SumOver([k \in report.confusionPairs |-> k.count], report.confusionPairs)
                        = Cardinality(Misclassified(list))
      <3> DEFINE rows == {s \in samples : s.useCase \in {AnyUseCase} \cup {u \in UseCases : AnyUseCase = AnyUseCase}
                                                /\ s.at >= asked - AnalysisSpan}
      <3>1. IsFiniteSet(rows) /\ list \in Listed(rows, SampleLimit)
        BY FS_Subset DEF RowsInv, listCalibrationSamples
      <3> HIDE DEF rows
      <3>2. IsFiniteSet(list)
        BY <3>1, ListedRows
      <3>3. QED
        BY <3>2, ConfusionAdds
    <2>4. QED
      <3>1. sparkline # Nothing =>
            \A list \in listSentimentAnalyses, later \in now..MaxTime :
              RecentSpan <= BaselineSpan /\ list = analyses =>
                \A t \in {u \in DOMAIN sparkline : u >= later - BaselineSpan} :
                  LET drift == detectDrift(list, later)
                      Dated(part) == {a \in part : a.at = t}
                      told == Cardinality(Dated(drift.baseline)) + Cardinality(Dated(drift.recent))
                  IN  /\ sparkline[t].count <= told
                      /\ told <= Cardinality(Dated(analyses))
                      /\ sparkline[t].count = told =>
                           sparkline[t].sum = ScoreSum(Dated(drift.baseline \cup drift.recent))
        BY <2>1
      <3>2. QED
        BY <2>2, <2>3, <3>1, Zenon DEF ReportsBalance
  <1>2. QED
    BY <1>1, ReportsInvariant, SparklineInvariant, PTL
=============================================================================
