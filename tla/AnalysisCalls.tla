--------------------------- MODULE AnalysisCalls ---------------------------
(***************************************************************************)
(* analyzeConversation and the engine it awaits, several calls at once in  *)
(* one process: masking, normalization, speakers and prompt, the semantic  *)
(* triggers with the cache all calls share, the chat completion under a    *)
(* request timeout and an abort from outside, and what is made of the      *)
(* answer.  A call is analyzeNow, or the call for a run that was queued,   *)
(* which has no token map.  The embedding and the chat service are         *)
(* external: they answer anything, fail, or never answer.                  *)
(***************************************************************************)
EXTENDS CanonicalExtraction

CONSTANTS Calls, Abortable,   \* the calls; those whose caller passes a signal
          Cases,              \* in a sequence: what a call may be given and the model may answer
          CasesOf(_),         \* the numbers of those that a call may be given
          BuiltIn(_),         \* EVENT_TYPE_EXAMPLES: the phrases of an event type
          BuiltInTypes,       \* its keys, in order
          Threshold,          \* DEFAULT_SEMANTIC_THRESHOLD
          MaxTriggers,        \* how many triggers the prompt names
          HasTimeout          \* whether requestTimeoutMs is set

(* Lists are lists, confidences and the limits they are compared with are  *)
(* numbers, unless the schema of the answer refuses them; the threshold is *)
(* above zero.                                                             *)
IsList(s) == s \in Seq(Range(s))
AnswerItems(items) ==
    /\ IsList(items)
    /\ \A item \in Range(items) : /\ {"evidence", "confidence"} \subseteq DOMAIN item
                                  /\ IsList(item.evidence) /\ item.confidence \in Nat \cup {Bad}
AnswerForm(payload) ==
    /\ {"aspects", "events", "moments"} \subseteq DOMAIN payload
    /\ payload.sentiment \in {None, Bad} \/ payload.sentiment.confidence \in Nat
    /\ IsList(payload.aspects) /\ \A aspect \in Range(payload.aspects) : "evidence" \in DOMAIN aspect
    /\ AnswerItems(payload.events) /\ AnswerItems(payload.moments)
CaseForm(case) ==
    /\ IsList(case.transcript.participants) /\ IsList(case.transcript.turns)
    /\ IsList(case.pack.definitions) /\ IsList(case.pii.customRules)
    /\ \A turn \in Range(case.transcript.turns) : {"id", "text"} \subseteq DOMAIN turn /\ IsList(turn.text)
    /\ case.pack.minMoment \in Nat /\ case.pack.minSentiment \in Nat
    /\ \A answer \in case.answers : AnswerForm(answer.payload)

ASSUME CallsAssumption ==
    /\ Threshold \in 1..100 /\ IsList(BuiltInTypes) /\ None \notin Nat /\ Bad \notin Nat
    /\ \A case \in Range(Cases) : CaseForm(case)

VARIABLES input,   \* input[c]: which of the cases call c is given
          cache,   \* exampleEmbeddingCache: by event type, absent or the phrases embedded
          call     \* call[c]: where the call is, its timer and its locals

vars == <<input, cache, call>>

Ended == {"done", "failed"}
NotBegun == [pc |-> "idle", timer |-> "none", aborted |-> FALSE, todo |-> << >>,
             triggers |-> << >>, error |-> None, result |-> None,
             before |-> [map |-> << >>, assignments |-> << >>, lines |-> << >>,
                         cues |-> {}, readBack |-> << >>]]

KnownTypes == Range(BuiltInTypes)
                \cup {d.type : d \in UNION {Range(case.pack.definitions) : case \in Range(Cases)}}

Init == /\ input \in {f \in [Calls -> DOMAIN Cases] : \A c \in Calls : f[c] \in CasesOf(c)}
        /\ cache = [t \in KnownTypes |-> None]
        /\ call = [c \in Calls |-> NotBegun]
-----------------------------------------------------------------------------
(* The arguments of a call, and what analyzeConversation computes of them  *)
(* before it awaits the engine.                                            *)
Given(c) == Cases[input[c]]

Before(case) ==
    LET prepared    == prepareRequest(case.transcript, case.pii)
        turns       == normalizeTranscript(prepared.transcript)
        assignments == resolveSpeakers(turns, case.pack)
        prompt      == buildCanonicalAnalysisPrompt(turns, assignments)
        lines       == IF case.structured THEN prompt ELSE CompactContext(prompt)
    IN  [map |-> IF case.queued THEN << >> ELSE prepared.map,
         assignments |-> assignments, lines |-> lines,
         cues |-> buildSupportSentimentCueProfile(turns, assignments),
         readBack |-> extractTurnTextsFromContext(lines)]
BeforeCase == [n \in DOMAIN Cases |-> Before(Cases[n])]   \* evaluated once

Assignments(c) == call[c].before.assignments
Lines(c) == call[c].before.lines
ReadBack(c) == call[c].before.readBack
HasEligibleTurn(assignments) == \E a \in Range(assignments) : a.eligibleForSentiment

(* The pack's definitions replace the built-in types when one of them has  *)
(* example phrases, and only then limit the types of an answer.            *)
Definitions(c) == Given(c).pack.definitions
Exemplified(c) == Kept(Definitions(c), {d \in Range(Definitions(c)) : d.phrases # << >>})
EventTypes(c) == IF Exemplified(c) = << >> THEN BuiltInTypes
                 ELSE [i \in DOMAIN Exemplified(c) |-> Exemplified(c)[i].type]
Phrases(c, type) ==
    LET own == SelectInSeq(Exemplified(c), LAMBDA d : d.type = type)
    IN  IF own # 0 THEN Exemplified(c)[own].phrases ELSE BuiltIn(type)
ValidTypes(c) == IF Definitions(c) = << >> THEN Range(BuiltInTypes)
                 ELSE Given(c).pack.supportedTypes

Finish(c, before, extraction) ==
    assembleAnalysis(extraction, before.assignments, before.cues, Given(c).engagement,
                     Given(c).scoring, before.map, Given(c).pack)
-----------------------------------------------------------------------------
(* createOperationSignal: the signal of every request is aborted by the    *)
(* caller or by the timer, whichever comes first.                          *)
Aborted(c) == call[c].aborted \/ call[c].timer = "fired"

TimerFires(c) ==
    /\ call[c].timer = "armed"
    /\ call' = [call EXCEPT ![c].timer = "fired"]
    /\ UNCHANGED <<input, cache>>

Abort(c) ==
    /\ c \in Abortable /\ ~call[c].aborted /\ call[c].pc \notin Ended \cup {"idle"}
    /\ call' = [call EXCEPT ![c].aborted = TRUE]
    /\ UNCHANGED <<input, cache>>

(* finally: cleanup() stops a timer that has not fired.                    *)
Stopped(timer) == IF timer = "armed" THEN "cleared" ELSE timer

Reason(c, reason) == IF call[c].timer = "fired" THEN "timed out" ELSE reason

Returning(c, local, extraction) ==
    [local EXCEPT !.pc = "done", !.timer = Stopped(@),
                  !.result = Finish(c, local.before, extraction)]
Fail(c, reason) ==
    call' = [call EXCEPT ![c].pc = "failed", ![c].timer = Stopped(@),
                         ![c].error = Reason(c, reason)]

(* analyzeConversation up to its first await; without a turn to score the  *)
(* engine is not called.                                                   *)
Prepared(c, local) ==
    IF HasEligibleTurn(local.before.assignments)
    THEN [local EXCEPT !.pc = IF Given(c).structured THEN "chat" ELSE "embed",
                       !.timer = IF HasTimeout THEN "armed" ELSE "none"]
    ELSE Returning(c, local, buildEmptyExtraction)

Begin(c) ==
    /\ call[c].pc = "idle"
    /\ call' = [call EXCEPT ![c] = Prepared(c, [@ EXCEPT !.before = BeforeCase[input[c]]])]
    /\ UNCHANGED <<input, cache>>
-----------------------------------------------------------------------------
(* computeSemanticTriggers.  An embedding is of its text: the model        *)
(* compares the texts.                                                     *)
cosineSimilarity(text, phrase) == IF Has(text, "like", phrase) THEN 90
                                  ELSE IF Has(text, "near", phrase) THEN 80 ELSE 0

(* The best pair of a turn and a phrase; the first turn of equals.         *)
BestMatch(c, phrases) ==
    LET turns == ReadBack(c)
        sim(i) == Max({0} \cup {cosineSimilarity(turns[i].text, p) : p \in Range(phrases)})
        best  == Max({0} \cup {sim(i) : i \in DOMAIN turns})
    IN  [confidence |-> best,
         turn |-> IF best = 0 THEN 1 ELSE Min({i \in DOMAIN turns : sim(i) = best})]

WithTrigger(c, type, phrases) ==
    LET best == BestMatch(c, phrases)
    IN  IF best.confidence >= Threshold
        THEN Append(call[c].triggers, [type |-> type, confidence |-> best.confidence,
                                       turn |-> best.turn])
        ELSE call[c].triggers

(* The next event type that has phrases, or the chat request.              *)
NextType(c, triggers) ==
    LET todo == Tail(call[c].todo)
    IN  call' = [call EXCEPT ![c] = [@ EXCEPT !.triggers = triggers, !.todo = todo,
                                              !.pc = IF todo = << >> THEN "chat" ELSE "lookup"]]

TypesWithPhrases(c) == Kept(EventTypes(c), {t \in Range(EventTypes(c)) : Phrases(c, t) # << >>})

(* Without turns nothing is asked of the service.                          *)
EmbedTurns(c) ==
    /\ call[c].pc = "embed" /\ (Aborted(c) => ReadBack(c) = << >>)
    /\ call' = [call EXCEPT ![c].todo = TypesWithPhrases(c),
                            ![c].pc = IF TypesWithPhrases(c) = << >> THEN "chat" ELSE "lookup"]
    /\ UNCHANGED <<input, cache>>

(* Mutant: the embedding requests are sent without the signal.             *)
EmbeddingFailsUnsignalled(c) ==
    /\ call[c].pc = "embed" /\ ReadBack(c) # << >> /\ ~Aborted(c)
    /\ call' = [call EXCEPT ![c].pc = "chat"]
    /\ UNCHANGED <<input, cache>>

(* Any embedding that fails means no triggers.  An abort makes it fail.    *)
EmbeddingFails(c) ==
    /\ call[c].pc = "embed" /\ ReadBack(c) # << >>
    /\ call' = [call EXCEPT ![c].pc = "chat"]
    /\ UNCHANGED <<input, cache>>

(* Mutant: the cache is filled by one type for all.                        *)
CachedForAny(type) ==
    IF \E t \in DOMAIN cache : cache[t] # None
    THEN cache[CHOOSE t \in DOMAIN cache : cache[t] # None] ELSE None

Cached(type) == cache[type]

(* getExampleEmbeddings: the phrases that were embedded first under this   *)
(* type, whoever asked.                                                    *)
Lookup(c) ==
    /\ call[c].pc = "lookup"
    /\ LET type == Head(call[c].todo)
       IN  IF Cached(type) # None THEN NextType(c, WithTrigger(c, type, Cached(type)))
           ELSE call' = [call EXCEPT ![c].pc = "fetch"]
    /\ UNCHANGED <<input, cache>>

EmbedExamples(c) ==
    /\ call[c].pc = "fetch" /\ ~Aborted(c)
    /\ LET type == Head(call[c].todo)
       IN  /\ cache' = [cache EXCEPT ![type] = Phrases(c, type)]
           /\ NextType(c, WithTrigger(c, type, Phrases(c, type)))
    /\ UNCHANGED input

ExamplesFail(c) ==
    /\ call[c].pc = "fetch"
    /\ NextType(c, call[c].triggers)
    /\ UNCHANGED <<input, cache>>

(* The triggers the prompt speaks of: the strongest ones; of equals, those *)
(* that were found first.                                                  *)
formatSemanticTriggerSection(c) ==
    LET triggers == call[c].triggers
        Ahead(j, i) == \/ triggers[j].confidence > triggers[i].confidence
                       \/ triggers[j].confidence = triggers[i].confidence /\ j < i
        Place(i) == Cardinality({j \in DOMAIN triggers : Ahead(j, i)})
    IN  {triggers[i] : i \in {k \in DOMAIN triggers : Place(k) < MaxTriggers}}
-----------------------------------------------------------------------------
(* The chat request.  What the model says it quotes is not compared with   *)
(* the turn it names: it may copy the text of a line, or write any words,  *)
(* those it names no line with text for among them.                        *)
TextOfLine(c, id) ==
    LET at == SelectInSeq(Lines(c), LAMBDA line : line.id = id)
    IN  IF at = 0 THEN << >> ELSE Lines(c)[at].text
Evidence(c, said) ==
    LET copied == IF said.quote = None THEN TextOfLine(c, said.id) ELSE << >>
    IN  [id |-> said.id, role |-> "END_USER",
         by |-> IF copied # << >> THEN "copy" ELSE "model",
         quote |-> IF copied # << >> THEN copied
                   ELSE IF said.quote = None THEN << <<"unresolved", 0>> >> ELSE said.quote]
Quoting(c, items) ==
    [i \in DOMAIN items |->
        [items[i] EXCEPT !.evidence =
            [k \in DOMAIN items[i].evidence |-> Evidence(c, items[i].evidence[k])]]]

ExtractionOf(c, answer) ==
    LET payload == [answer.payload EXCEPT !.aspects = Quoting(c, @), !.events = Quoting(c, @),
                                          !.moments = Quoting(c, @)]
    IN  IF Given(c).structured THEN normalizeLlmExtraction(payload)
        ELSE parseOllamaCompat(payload, Lines(c), ValidTypes(c))

Usable(c, answer) == IF Given(c).structured THEN answer.ok /\ MeetsLlmSchema(answer.payload)
                     ELSE AnswerIsUsable(answer)

(* Mutant: the request is sent without the signal.                         *)
ChatAnswersAnyway(c, answer) ==
    /\ call[c].pc = "chat"
    /\ answer \in Given(c).answers /\ Usable(c, answer)
    /\ call' = [call EXCEPT ![c] = Returning(c, @, ExtractionOf(c, answer))]
    /\ UNCHANGED <<input, cache>>

(* fetch honours the signal; whether the library behind structured mode    *)
(* does is its own affair.                                                 *)
ChatAnswers(c, answer) ==
    /\ call[c].pc = "chat" /\ (Aborted(c) => Given(c).structured)
    /\ answer \in Given(c).answers /\ Usable(c, answer)
    /\ call' = [call EXCEPT ![c] = Returning(c, @, ExtractionOf(c, answer))]
    /\ UNCHANGED <<input, cache>>

ChatFails(c) ==
    /\ call[c].pc = "chat"
    /\ Fail(c, IF Aborted(c) THEN "aborted" ELSE "refused")
    /\ UNCHANGED <<input, cache>>

Step(c) == \/ Begin(c) \/ TimerFires(c) \/ Abort(c)
           \/ EmbedTurns(c) \/ EmbeddingFails(c)
           \/ Lookup(c) \/ EmbedExamples(c) \/ ExamplesFail(c)
           \/ \E answer \in Given(c).answers : ChatAnswers(c, answer)
           \/ ChatFails(c)

Next == \E c \in Calls : Step(c)
Spec == Init /\ [][Next]_vars

(* Node runs what is ready: the call begins, the timer fires, a lookup and *)
(* no turns to embed need no service, and a request whose signal is        *)
(* aborted is rejected (in structured mode this is up to the library).     *)
(* The services need not answer.                                           *)
NeedsNoService(c) == Lookup(c) \/ (ReadBack(c) = << >> /\ EmbedTurns(c))
Rejected(c) == Aborted(c) /\ ~Given(c).structured
                 /\ (EmbeddingFails(c) \/ ExamplesFail(c) \/ ChatFails(c))
FairSpec == Spec /\ \A c \in Calls : /\ WF_vars(Begin(c)) /\ WF_vars(TimerFires(c))
                                     /\ WF_vars(NeedsNoService(c)) /\ WF_vars(Rejected(c))
-----------------------------------------------------------------------------
(* In JSON mode a call whose timer has fired, or whose caller has aborted, *)
(* never returns an answer; "timed out" is said of exactly the calls the   *)
(* timer has ended; and no timer outlives its call.                        *)
LateAnswersAreDropped ==
    \A c \in Calls :
        /\ call[c].pc = "done" /\ ~Given(c).structured => ~Aborted(c)
        /\ call[c].pc = "failed" => (call[c].error = "timed out" <=> call[c].timer = "fired")
        /\ call[c].pc \in Ended => call[c].timer # "armed"

(* With a request timeout every call in JSON mode ends, whatever service   *)
(* never answers: each of its requests carries the signal.                 *)
EveryCallEnds ==
    HasTimeout => \A c \in Calls : ~Given(c).structured ~> call[c].pc \in Ended

(* What the prompt says of an event type is about phrases of the tenant's  *)
(* own pack and names a turn that resembles one of them as much as any     *)
(* does, provided no other caller defines the type otherwise.              *)
IsGrounded(c, trigger) ==
    LET Resembles(i, p) == cosineSimilarity(ReadBack(c)[i].text, p)
        own == Range(Phrases(c, trigger.type))
    IN  /\ \E p \in own : Resembles(trigger.turn, p) = trigger.confidence
        /\ \A i \in DOMAIN ReadBack(c) : \A p \in own :
               /\ Resembles(i, p) <= trigger.confidence
               /\ i < trigger.turn => Resembles(i, p) < trigger.confidence
DefinedAlike(type) ==
    \A c, d \in Calls : type \in Range(EventTypes(c)) \cap Range(EventTypes(d))
                          => Phrases(c, type) = Phrases(d, type)
GuidanceIsGrounded ==
    \A c \in Calls : \A trigger \in formatSemanticTriggerSection(c) :
        DefinedAlike(trigger.type) => IsGrounded(c, trigger)

(* An analysis that no analyst has to look at: every key moment and aspect *)
(* rests on a turn whose speaker, resolved from the transcript as it was   *)
(* prepared, is one the pack scores, with as much confidence as the pack   *)
(* asks for; fallback evidence, defaults for bad members and a verdict of  *)
(* the model included.                                                     *)
VerifiedIsGrounded ==
    \A c \in Calls : call[c].result # None => LET result == call[c].result
                                                pack == Given(c).pack IN
        result.review.state = "VERIFIED" =>
            /\ HasEligibleTurn(Assignments(c))
            /\ \A m \in Range(result.moments) :
                  /\ m.evidence # << >> /\ m.confidence >= pack.minMoment
                  /\ \A e \in Range(m.evidence) : \E i \in DOMAIN Assignments(c) :
                        Assignments(c)[i].id = e.id /\ Assignments(c)[i].eligibleForKeyMoments
            /\ \A a \in Range(result.aspects) : \A e \in Range(a.evidence) :
                  \E i \in DOMAIN Assignments(c) :
                      Assignments(c)[i].id = e.id /\ Assignments(c)[i].eligibleForSentiment
            /\ result.sentiment # None => result.sentiment.confidence >= pack.minSentiment

(* What a rule with the flag g matches is in the text of no line the model *)
(* sees, unless the turn had words there that match only once their blanks *)
(* are collapsed, which is done after masking; and with reversible masking *)
(* a quote that was copied from a line, by the model or as the fallback of *)
(* the engine, is made in the result of analyzeNow of the words of the     *)
(* turn it names, as they were before masking, but for how often one was   *)
(* repeated.  Left out: a rule of the tenant that matches what masking     *)
(* itself writes, alone or with the words around it; a transcript that     *)
(* contains tokens; the line an empty turn takes for its own, and the      *)
(* quote of a turn that is not there; names, which are masked on demand.   *)
WrittenByMasking(rules) == {"label", "open", "number", "close", "repeated"}
                              \cup {rule.label[1] : rule \in Range(rules)}
                              \cup {Unspaced(rule.label)[1] : rule \in Range(rules)}
ReachesAll(rule) == "g" \in rule.flags /\ "y" \notin rule.flags
MatchesCollapsed(text, kind) ==
    \E atom \in Range(text) : atom[1] = "spaced" /\ atom[2][1] = kind
Quotes(result) == UNION {Range(m.evidence) : m \in Range(result.moments) \cup Range(result.events)}
TurnsNamed(transcript, id) == {turn \in Range(transcript.turns) : turn.id = id}
Spoken(text) == Range(text) \cup {Unspaced(atom) : atom \in Range(text)}
SaidIn(transcript, id) == UNION {Spoken(turn.text) : turn \in TurnsNamed(transcript, id)}
HasTokens(transcript) ==
    \E turn \in Range(transcript.turns) : \E atom \in Spoken(turn.text) : atom[1] = "open"
HiddenThenRestored ==
    \A c \in Calls : LET pii == Given(c).pii
                         rules == RulesOf(pii)
                         transcript == Given(c).transcript IN
        pii.enabled /\ {rule.kind : rule \in Range(rules)} \cap WrittenByMasking(rules) = {} =>
            /\ \A line \in Range(Lines(c)) : \A rule \in Range(rules) :
                  ReachesAll(rule) /\ rule.kind \in KindsIn(line.text) =>
                     \E turn \in TurnsNamed(transcript, line.id) : MatchesCollapsed(turn.text, rule.kind)
            /\ call[c].result # None /\ pii.reversible /\ ~Given(c).queued =>
                  \A e \in Quotes(call[c].result) :
                     \/ e.by = "model"
                     \/ \A atom \in Range(e.quote) : atom[1] = "repeated" \/ atom \in SaidIn(transcript, e.id)
                     \/ KindsIn(e.quote) \subseteq {"line", "unresolved"}
                     \/ HasTokens(transcript)
=============================================================================
