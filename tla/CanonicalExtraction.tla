------------------------ MODULE CanonicalExtraction ------------------------
(***************************************************************************)
(* What an analysis is made of: the answer of the model and how the JSON   *)
(* compatibility mode of the engine turns it into an extraction, with the  *)
(* evidence it makes up for events that come without any; the decoding of  *)
(* masked text in it; the analysis and its verification against the        *)
(* tenant's pack.                                                          *)
(***************************************************************************)
EXTENDS TranscriptText

CONSTANT Bad   \* a value in the answer that its schema refuses

ReviewState == {"VERIFIED", "UNCERTAIN", "NEEDS_REVIEW"}
-----------------------------------------------------------------------------
(* The chat completion.  `content` is how the JSON object sits in it: as   *)
(* it is or in a code fence, inside other text, or not at all; `defects`   *)
(* are what makes it unparsable, and a defect may be in an answer that is  *)
(* laid out on several lines.                                              *)

extractJsonObject(answer) == answer.content \in {"clean", "embedded"}

(* The repair drops trailing commas and escapes every newline, those       *)
(* between the members of the object too: it only helps on one line.       *)
ParsesAsJson(answer) == answer.defects = {} \/ ~answer.multiline

Caught(value, default) == IF value = Bad THEN default ELSE value

(* ollamaCompatResponseSchema refuses a sentiment, a summary, an event     *)
(* without a type or an empty quote; other bad members get defaults.       *)
QuotesWords(item) == \A e \in Range(item.evidence) : e.quote # << >>
MeetsSchema(payload) ==
    /\ payload.sentiment # Bad /\ payload.summary # Bad
    /\ \A item \in Range(payload.events) \cup Range(payload.moments) :
          item.type # Bad /\ QuotesWords(item)

(* In structured mode the schema of the answer has no defaults.            *)
MeetsLlmSchema(payload) ==
    /\ MeetsSchema(payload)
    /\ \A item \in Range(payload.aspects) : item.evidence # << >> /\ QuotesWords(item)
    /\ \A item \in Range(payload.events) \cup Range(payload.moments) :
          item.evidence # << >> /\ Bad \notin {item.actor, item.confidence, item.impact}

AnswerIsUsable(answer) ==
    /\ answer.ok /\ answer.content # "empty"
    /\ extractJsonObject(answer) /\ ParsesAsJson(answer) /\ MeetsSchema(answer.payload)

isScore100ConsistentWithPolarity(score100, polarity) ==
    CASE polarity = "VERY_NEGATIVE" -> score100 <= 20
      [] polarity = "NEGATIVE"      -> score100 <= 40
      [] polarity = "NEUTRAL"       -> score100 \in 45..55
      [] polarity = "POSITIVE"      -> score100 \in 60..85
      [] polarity = "VERY_POSITIVE" -> score100 >= 86

resolveOllamaCompatScore100(sentiment) ==
    IF sentiment.score100 = None \/
       ~isScore100ConsistentWithPolarity(sentiment.score100, sentiment.polarity)
    THEN deriveSentimentScore(sentiment.polarity, sentiment.intensity, 0, None).score100
    ELSE sentiment.score100

ExtractedSentiment(sentiment) ==
    IF sentiment = None THEN None
    ELSE LET score100 == resolveOllamaCompatScore100(sentiment)
         IN  [polarity |-> sentiment.polarity, intensity |-> sentiment.intensity,
              confidence |-> sentiment.confidence,
              score |-> [method |-> "model_v1", score100 |-> score100,
                         score5 |-> deriveScore5FromScore100(score100), calibration |-> None]]
-----------------------------------------------------------------------------
(* compactRepeatedTokenRuns: in JSON mode a word that is said five times   *)
(* in a row or more becomes one and how often it was said.  Of the kinds   *)
(* of atoms these may be a single word.                                    *)
OneWord == {"word", "keyword", "phone", "ssn", "card"}

compactRepeatedTokenRuns(text) ==
    LET Run(i) == {j \in DOMAIN text : \A k \in (i..j) \cup (j..i) : text[k] = text[i]}
        Piece(i) == IF text[i][1] \notin OneWord \/ Cardinality(Run(i)) < 5 THEN << text[i] >>
                    ELSE IF \A j \in Run(i) : i <= j
                         THEN << text[i], <<"repeated", Cardinality(Run(i))>> >>
                    ELSE << >>
    IN  FlattenSeq([i \in DOMAIN text |-> Piece(i)])

CompactContext(lines) ==
    [i \in DOMAIN lines |-> [lines[i] EXCEPT !.name = compactRepeatedTokenRuns(@),
                                             !.text = compactRepeatedTokenRuns(@)]]
-----------------------------------------------------------------------------
(* The turns as the engine reads them back from the lines of the prompt.   *)
(* The expression for a line needs text after the name and takes newlines  *)
(* for the space before it: a turn without text takes the next line as its *)
(* own, and that turn is not found.  A turn id that occurs again replaces  *)
(* the text but keeps the place of the first.                              *)
PutTurn(turns, turn) ==
    LET at == SelectInSeq(turns, LAMBDA t : t.id = turn.id)
    IN  IF at = 0 THEN Append(turns, turn) ELSE [turns EXCEPT ![at] = turn]

TurnOfLine(lines, i) ==
    [id |-> lines[i].id, role |-> lines[i].role,
     text |-> IF lines[i].text # << >> THEN lines[i].text ELSE << <<"line", i + 1>> >>]
ReadLine(state, lines, i) ==
    IF state.taken = i \/ (lines[i].text = << >> /\ i = Len(lines)) THEN state
    ELSE [turns |-> PutTurn(state.turns, TurnOfLine(lines, i)),
          taken |-> IF lines[i].text = << >> THEN i + 1 ELSE state.taken]

extractTurnTextsFromContext(lines) ==
    LET read[i \in 0..Len(lines)] ==
            IF i = 0 THEN [turns |-> << >>, taken |-> 0] ELSE ReadLine(read[i - 1], lines, i)
    IN  read[Len(lines)].turns

(* Up to three sentences; all of a text without an end of sentence.        *)
extractLeadingSentences(text) ==
    LET ends == Kept([i \in DOMAIN text |-> i], {i \in DOMAIN text : text[i][1] = "stop"})
    IN  IF ends = << >> THEN text
        ELSE SubSeq(text, 1, ends[IF Len(ends) < 3 THEN Len(ends) ELSE 3])

(* `by` keeps the account of who wrote a quote: the model its own words,   *)
(* the model by copying a line, or the engine.                             *)
buildFallbackEvidence(actor, turns, preferred) ==
    LET Quote(i) == << [id |-> turns[i].id, role |-> actor, by |-> "engine",
                        quote |-> extractLeadingSentences(turns[i].text)] >>
        wanted  == SelectInSeq(turns, LAMBDA t : t.id = preferred)
        byActor == SelectInSeq(turns, LAMBDA t : t.role = actor)
    IN  IF wanted # 0 THEN Quote(wanted)
        ELSE IF byActor # 0 THEN Quote(byActor)
        ELSE IF turns # << >> THEN Quote(1)
        ELSE << [id |-> "t1", role |-> actor, by |-> "engine",
                 quote |-> << <<"unresolved", 0>> >>] >>

Supported(items, types) == Kept(items, {item \in Range(items) : item.type \in types})

(* An event or a key moment; `start` is the turn a key moment starts at    *)
(* and None for an event.                                                  *)
Completed(item, turns) ==
    LET actor == Caught(item.actor, "END_USER")
    IN  [type |-> item.type, actor |-> actor, confidence |-> Caught(item.confidence, 70),
         impact |-> Caught(item.impact, "MEDIUM"),
         evidence |-> IF item.evidence # << >> THEN item.evidence
                      ELSE buildFallbackEvidence(actor, turns, item.start)]
CompletedItems(items, turns) == [i \in DOMAIN items |-> Completed(items[i], turns)]

parseOllamaCompat(payload, lines, types) ==
    LET turns == extractTurnTextsFromContext(lines)
    IN  [sentiment |-> ExtractedSentiment(payload.sentiment), aspects |-> << >>,
         events |-> CompletedItems(Supported(payload.events, types), turns),
         moments |-> CompletedItems(Supported(payload.moments, types), turns),
         summary |-> payload.summary,
         review |-> [state |-> payload.reviewState, reasons |-> payload.reviewReasons]]

(* normalizeLlmExtraction: in structured mode the answer has the form of   *)
(* an extraction already, its sentiment may come with a score or not.      *)
normalizeLlmExtraction(payload) ==
    [sentiment |-> IF payload.sentiment = None THEN None
                   ELSE [polarity |-> payload.sentiment.polarity,
                         intensity |-> payload.sentiment.intensity,
                         confidence |-> payload.sentiment.confidence,
                         score |-> IF payload.sentiment.score100 = None THEN None
                                   ELSE [method |-> "model_v1",
                                         score100 |-> payload.sentiment.score100,
                                         score5 |-> deriveScore5FromScore100(payload.sentiment.score100),
                                         calibration |-> None]],
     aspects |-> payload.aspects, events |-> payload.events, moments |-> payload.moments,
     summary |-> payload.summary,
     review |-> [state |-> payload.reviewState, reasons |-> payload.reviewReasons]]

buildEmptyExtraction ==
    [sentiment |-> None, aspects |-> << >>, events |-> << >>, moments |-> << >>, summary |-> << >>,
     review |-> [state |-> "NEEDS_REVIEW", reasons |-> {<<"no eligible turns">>}]]
-----------------------------------------------------------------------------
(* decodeExtraction: every text of the extraction; the ids are kept.       *)
DecodeEvidence(items, map) ==
    [i \in DOMAIN items |->
        [items[i] EXCEPT !.evidence =
            [k \in DOMAIN items[i].evidence |->
                [items[i].evidence[k] EXCEPT !.quote = decode(@, map)]]]]

decodeExtraction(extraction, map) ==
    [extraction EXCEPT !.summary = decode(@, map),
                       !.aspects = DecodeEvidence(@, map),
                       !.events = DecodeEvidence(@, map),
                       !.moments = DecodeEvidence(@, map)]

decodeSpeakerAssignments(assignments, map) ==
    [i \in DOMAIN assignments |-> [assignments[i] EXCEPT !.name = decode(@, map)]]

mapTenantEvents(events, pack) ==
    [i \in DOMAIN events |->
        [type |-> events[i].type,
         label |-> IF events[i].type \in DOMAIN pack.canonicalToTenant
                   THEN pack.canonicalToTenant[events[i].type] ELSE events[i].type,
         severity |-> IF events[i].type \in DOMAIN pack.defaultSeverity
                      THEN pack.defaultSeverity[events[i].type] ELSE events[i].impact]]
-----------------------------------------------------------------------------
(* verifyAnalysis: what has to be looked at by an analyst.                 *)
HighImpact == {"HIGH", "CRITICAL"}

SpeakerReasons(analysis, pack) ==
    {<<"speaker summary">> : x \in {y \in {analysis.confidence} : y < pack.minSpeakerSummary}}
      \cup {<<"assignment", a.id>> :
               a \in {b \in Range(analysis.assignments) :
                         /\ b.eligibleForSentiment \/ b.eligibleForKeyMoments
                         /\ b.confidence < pack.speakerConfidenceReview}}

SentimentReasons(analysis, pack) ==
    IF analysis.sentiment = None THEN {}
    ELSE {<<"sentiment">> : x \in {y \in {analysis.sentiment.confidence} : y < pack.minSentiment}}

(* What an aspect or a key moment quotes: the roles it may quote are the   *)
(* ones it is about.                                                       *)
EvidenceReasons(item, analysis, roles) ==
    LET Turn(e) == assignmentForTurn(analysis.assignments, e.id)
    IN  {<<"unknown turn", e.id>> : e \in {x \in Range(item.evidence) : Turn(x) = None}}
          \cup {<<"ineligible turn", e.id>> :
                   e \in {x \in Range(item.evidence) :
                             Turn(x) # None /\ Turn(x).role \notin roles}}

AspectReasons(analysis, pack) ==
    UNION {{<<"aspect confidence", a.target>> : x \in {y \in {a.confidence} : y < pack.minAspect}}
             \cup EvidenceReasons(a, analysis, pack.sentimentRoles) : a \in Range(analysis.aspects)}

EventReasons(analysis, pack) ==
    {<<"event confidence", e.type>> :
        e \in {x \in Range(analysis.events) : x.confidence < pack.minEvent}}
      \cup {<<"event evidence", e.type>> :
               e \in {x \in Range(analysis.events) :
                         x.impact \in HighImpact /\ Len(x.evidence) < pack.minHighImpactEvidence}}

MomentReasons(analysis, pack) ==
    UNION {{<<"moment confidence", m.type>> : x \in {y \in {m.confidence} : y < pack.minMoment}}
             \cup {<<"moment actor", m.type>> : x \in {m.actor} \ pack.keyMomentRoles}
             \cup {<<"moment evidence", m.type>> :
                      x \in {y \in {m.impact} \cap HighImpact :
                                Len(m.evidence) < pack.minHighImpactEvidence}}
             \cup EvidenceReasons(m, analysis, pack.keyMomentRoles) : m \in Range(analysis.moments)}

ReasonsFor(analysis, pack) ==
    analysis.review.reasons \cup SpeakerReasons(analysis, pack) \cup SentimentReasons(analysis, pack)
      \cup AspectReasons(analysis, pack) \cup EventReasons(analysis, pack)
      \cup MomentReasons(analysis, pack)

(* Mutant: an extraction that the model has verified stays verified.       *)
verifyTrusting(analysis, pack) ==
    [analysis EXCEPT !.review.reasons = ReasonsFor(analysis, pack)]

verifyAnalysis(analysis, pack) ==
    LET reasons == ReasonsFor(analysis, pack)
    IN  [analysis EXCEPT !.review.reasons = reasons,
                         !.review.state = IF reasons # {} THEN "NEEDS_REVIEW" ELSE @]

(* The mean, rounded down: it is below an integer if the mean is.          *)
averageConfidence(assignments) ==
    IF assignments = << >> THEN 0
    ELSE FoldLeft(LAMBDA sum, a : sum + a.confidence, 0, assignments) \div Len(assignments)

(* The analysis: everything that follows the engine's answer.              *)
assembleAnalysis(extraction, assignments, cues, engagement, scoring, map, pack) ==
    LET decoded == IF map = << >> THEN extraction ELSE decodeExtraction(extraction, map)
        names   == IF map = << >> THEN assignments ELSE decodeSpeakerAssignments(assignments, map)
        scored  == enrichOverallSentimentScore(decoded.sentiment, scoring, engagement)
    IN  verifyAnalysis(
            [sentiment |-> applySupportSentimentCueAdjustments(scored, engagement, cues),
             aspects |-> decoded.aspects, events |-> decoded.events, moments |-> decoded.moments,
             mapped |-> mapTenantEvents(decoded.events, pack),
             assignments |-> names, confidence |-> averageConfidence(names),
             summary |-> decoded.summary, review |-> decoded.review], pack)
=============================================================================
