-------------------------- MODULE SentimentScoring --------------------------
(***************************************************************************)
(* The arithmetic of an overall sentiment: a score from polarity and       *)
(* intensity, the calibration offset a tenant has configured, and the      *)
(* adjustment for support cues.  Intensity and confidence are              *)
(* percentages; JavaScript's Math.round rounds halves up.                  *)
(***************************************************************************)
EXTENDS Integers, Sequences, FiniteSets, SequencesExt, FiniteSetsExt

CONSTANT None   \* an absent value

Polarity == {"VERY_NEGATIVE", "NEGATIVE", "NEUTRAL", "POSITIVE", "VERY_POSITIVE"}
Engagement == {"CALL", "EMAIL", "TICKET", "CHAT"}
Negative == {"VERY_NEGATIVE", "NEGATIVE"}
Positive == {"POSITIVE", "VERY_POSITIVE"}
Percent == 0..100
Offset == -20..20
Method == {"derived_v1", "derived_v1_calibrated", "model_v1", "model_v1_calibrated"}

(* A score; its calibration is absent or says by how much and for whom.    *)
Score == [method : Method, score100 : Percent, score5 : 1..5,
          calibration : {None} \cup
              [score100Offset : Offset, engagementType : Engagement \cup {None}]]
Sentiment == [polarity : Polarity, intensity : Percent, confidence : Percent,
              score : Score \cup {None}]

(* The tenant's setting: an offset by engagement type and polarity, by     *)
(* either, or for all; the three maps are partial.                         *)
ScoringOff == [enabled |-> FALSE, default |-> 0, byEngagement |-> << >>,
               byPolarity |-> << >>, byBoth |-> << >>]

Clamp(x, low, high) == IF x < low THEN low ELSE IF x > high THEN high ELSE x
-----------------------------------------------------------------------------

deriveScore5FromScore100(score100) ==
    Clamp(Clamp(Clamp(score100, 0, 100) - 1, 0, 100) \div 20 + 1, 1, 5)

resolveSentimentScore100Offset(config, engagement, polarity) ==
    IF ~config.enabled THEN 0
    ELSE IF <<engagement, polarity>> \in DOMAIN config.byBoth
         THEN config.byBoth[<<engagement, polarity>>]
    ELSE IF engagement \in DOMAIN config.byEngagement THEN config.byEngagement[engagement]
    ELSE IF polarity \in DOMAIN config.byPolarity THEN config.byPolarity[polarity]
    ELSE config.default

Calibration(offset, engagement) ==
    IF offset = 0 THEN None ELSE [score100Offset |-> offset, engagementType |-> engagement]

(* Math.round(50 -+ intensity * 50), the intensity a percentage.           *)
UncalibratedScore(polarity, intensity) ==
    IF polarity \in Negative THEN (101 - intensity) \div 2
    ELSE IF polarity \in Positive THEN (101 + intensity) \div 2
    ELSE 50

deriveSentimentScore(polarity, intensity, offset, engagement) ==
    LET bounded  == Clamp(offset, -20, 20)
        score100 == Clamp(UncalibratedScore(polarity, intensity) + bounded, 0, 100)
    IN  [method |-> IF bounded = 0 THEN "derived_v1" ELSE "derived_v1_calibrated",
         score100 |-> score100, score5 |-> deriveScore5FromScore100(score100),
         calibration |-> Calibration(bounded, engagement)]

resolveCalibratedMethod(method, offset) ==
    IF method \in {"model_v1", "model_v1_calibrated"}
    THEN IF offset = 0 THEN "model_v1" ELSE "model_v1_calibrated"
    ELSE IF offset = 0 THEN "derived_v1" ELSE "derived_v1_calibrated"

(* The total that is recorded is limited again: it may be less than what   *)
(* the score was moved by.                                                 *)
applyAdditionalSentimentScoreOffset(score, additional, engagement) ==
    LET bounded  == Clamp(additional, -20, 20)
        before   == IF score.calibration = None THEN 0 ELSE score.calibration.score100Offset
        score100 == Clamp(score.score100 + bounded, 0, 100)
        total    == Clamp(before + bounded, -20, 20)
    IN  [method |-> resolveCalibratedMethod(score.method, total),
         score100 |-> score100, score5 |-> deriveScore5FromScore100(score100),
         calibration |-> Calibration(total, engagement)]

(* A score that came with the sentiment is moved by the offset; what it    *)
(* said of an earlier calibration is dropped.                              *)
calibrateExistingSentimentScore(score, offset, engagement) ==
    LET bounded == Clamp(offset, -20, 20)
        moved   == Clamp(Clamp(score.score100, 0, 100) + bounded, 0, 100)
    IN  applyAdditionalSentimentScoreOffset(
            [score EXCEPT !.score100 = moved, !.score5 = deriveScore5FromScore100(moved),
                          !.calibration = Calibration(bounded, engagement)],
            0, engagement)

enrichOverallSentimentScore(sentiment, config, engagement) ==
    IF sentiment = None THEN None
    ELSE LET offset == resolveSentimentScore100Offset(config, engagement, sentiment.polarity)
         IN  [sentiment EXCEPT !.score =
                 IF @ # None THEN calibrateExistingSentimentScore(@, offset, engagement)
                 ELSE deriveSentimentScore(sentiment.polarity, sentiment.intensity,
                                           offset, engagement)]
-----------------------------------------------------------------------------
(* What the text of a conversation says that moves its score.              *)
Cue == {"repeatContact", "brokenPromise", "severeOutage", "documentationMismatch",
        "policyConflict", "escalationDemand", "gratitude", "resolutionConfirmation",
        "businessDeadline", "shipmentOrRefundIssue", "hardshipOrPaymentPlan",
        "feeDispute", "repeatedReplacementFailure"}

clampToMaximum(score100, maximum) == Clamp(maximum - score100, -100, 0)
clampToRange(score100, low, high) == Clamp(score100, low, high) - score100

(* The first rule whose cues are all present gives the range the score     *)
(* should be in; rules for complaints, then rules for thanks.              *)
ComplaintRules == <<
    <<{"repeatContact", "escalationDemand", "brokenPromise"}, 0, 18>>,
    <<{"severeOutage", "businessDeadline"}, 0, 18>>,
    <<{"severeOutage", "brokenPromise"}, 0, 18>>,
    <<{"policyConflict", "documentationMismatch"}, 0, 28>>,
    <<{"brokenPromise", "repeatContact", "businessDeadline"}, 0, 20>>,
    <<{"brokenPromise", "repeatContact", "repeatedReplacementFailure"}, 0, 20>>,
    <<{"brokenPromise", "repeatContact"}, 0, 22>>,
    <<{"feeDispute", "hardshipOrPaymentPlan"}, 0, 28>>,
    <<{"brokenPromise", "shipmentOrRefundIssue"}, 0, 28>>,
    <<{"documentationMismatch", "repeatContact"}, 0, 36>>,
    <<{"hardshipOrPaymentPlan"}, 28, 38>> >>
ThanksRules(engagement) ==
    CASE engagement = "CALL"  -> << <<{"gratitude", "resolutionConfirmation"}, 78, 85>> >>
      [] engagement = "EMAIL" -> << <<{"gratitude", "resolutionConfirmation"}, 72, 78>> >>
      [] OTHER -> << >>
RulesFor(polarity, engagement) ==
    IF polarity \in Negative THEN ComplaintRules
    ELSE IF polarity \in Positive THEN ThanksRules(engagement)
    ELSE << >>

resolveSupportCueScoreAdjustment(sentiment, profile, engagement) ==
    LET rules   == RulesFor(sentiment.polarity, engagement)
        first   == SelectInSeq(rules, LAMBDA rule : rule[1] \subseteq profile)
        current == sentiment.score.score100
    IN  IF first = 0 THEN 0
        ELSE IF rules[first][2] = 0 THEN clampToMaximum(current, rules[first][3])
        ELSE clampToRange(current, rules[first][2], rules[first][3])

applySupportSentimentCueAdjustments(sentiment, engagement, profile) ==
    IF sentiment = None \/ engagement = None THEN sentiment
    ELSE IF sentiment.score = None THEN sentiment
    ELSE LET delta == resolveSupportCueScoreAdjustment(sentiment, profile, engagement)
         IN  IF delta = 0 THEN sentiment
             ELSE [sentiment EXCEPT !.score =
                      applyAdditionalSentimentScoreOffset(@, delta, engagement)]
=============================================================================
