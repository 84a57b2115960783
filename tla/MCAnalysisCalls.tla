-------------------------- MODULE MCAnalysisCalls --------------------------
(* Instances of AnalysisCalls for TLC: two event types with built-in       *)
(* phrases, three packs, and one case for each of the turns a conversation *)
(* or an answer may take.                                                  *)
EXTENDS AnalysisCalls

CONSTANTS a, b

Types == <<"FRUSTRATION_ONSET", "REFUND_DELAY">>
Examples(type) == IF type = "FRUSTRATION_ONSET" THEN <<1>> ELSE IF type = "REFUND_DELAY" THEN <<2, 3>>
                  ELSE << >>

Pack == [speakerIdRoleMap |-> << >>, roleAliases |-> << >>, sentimentRoles |-> {"END_USER"},
         keyMomentRoles |-> {"END_USER"}, definitions |-> << >>, supportedTypes |-> Range(Types),
         canonicalToTenant |-> [t \in {"FRUSTRATION_ONSET"} |-> "GRIEVANCE"],
         defaultSeverity |-> [t \in {"FRUSTRATION_ONSET"} |-> "HIGH"],
         minSpeakerSummary |-> 85, speakerConfidenceReview |-> 80, minSentiment |-> 65,
         minAspect |-> 65, minEvent |-> 70, minMoment |-> 75, minHighImpactEvidence |-> 1]
PackWithPhrases == [Pack EXCEPT !.definitions = << [type |-> "FRUSTRATION_ONSET", phrases |-> <<1>>],
                                                   [type |-> "CHURN", phrases |-> <<4>>],
                                                   [type |-> "REFUND_DELAY", phrases |-> << >>] >>,
                                !.supportedTypes = {"FRUSTRATION_ONSET"}]
PackWithOtherPhrases == [PackWithPhrases EXCEPT !.definitions[1].phrases = <<5>>]
PackByName == [Pack EXCEPT !.speakerIdRoleMap = [s \in {"bot"} |-> "BOT"],
                           !.roleAliases = [n \in {<< <<"word", 9>> >>} |-> "END_USER"]]

Said(id, speaker, text) == [id |-> id, speaker |-> speaker, text |-> text]
Person(speaker, name, kind) == [speaker |-> speaker, name |-> name, label |-> << >>, kind |-> kind]
Customer == Person("c", << <<"word", 9>> >>, "END_USER")
Agent == Person("g", << <<"word", 8>> >>, "AGENT")

Complaint == << <<"like", 1>>, <<"near", 5>>, <<"stop", 0>>, <<"email", 1>>, <<"account", 7>>,
                <<"cue", "severeOutage">>, <<"cue", "businessDeadline">> >>
Answered == << <<"blank", 0>>, <<"near", 2>>, <<"like", 4>>, <<"phone", 3>> >>
(* Two accounts, a number in groups two spaces apart, a word six times.    *)
Rambling == << <<"account", 1>>, <<"account", 2>>, <<"spaced", <<"phone", 4>>>>, <<"email", 2>> >>
              \o [i \in 1..6 |-> <<"word", 1>>] \o << <<"stop", 0>>, <<"like", 1>> >>
Dialogue == [participants |-> <<Customer, Agent>>,
             turns |-> <<Said("t1", "g", Answered), Said("t2", "c", Complaint)>>]
(* A turn of spaces, whose line takes the next one for its text.           *)
Spaced == [participants |-> <<Customer, Agent>>,
           turns |-> <<Said("t1", "c", << <<"blank", 0>> >>), Said("t2", "c", Complaint),
                       Said("t3", "g", Answered)>>]
Repeating == [participants |-> <<Customer, Agent>>,
              turns |-> <<Said("t1", "g", Answered), Said("t2", "c", Rambling)>>]
Silent == [participants |-> <<Customer>>, turns |-> <<Said("t1", "c", << <<"blank", 0>> >>)>>]
(* Speakers known by an alias, an id, a marker, a word of theirs, or not.  *)
Unknowns == [participants |-> <<Person("x", << <<"word", 9>> >>, None), Person("bot", << >>, None)>>,
             turns |-> <<Said("t1", "x", Complaint), Said("t2", "bot", Answered),
                         Said("t3", "y", << <<"keyword", "AGENT">> >>),
                         Said("t4", "z", << <<"marker", "ADMIN_MARKER">> >>)>>]
Automatic == [participants |-> <<Person("bot", << >>, None)>>, turns |-> <<Said("t1", "bot", Answered)>>]

PiiOff == [enabled |-> FALSE, maskDisplayNames |-> FALSE, reversible |-> FALSE, customRules |-> << >>]
Rule(kind, flags) == [kind |-> kind, flags |-> flags, label |-> <<"word", 5>>]
PiiOn == [PiiOff EXCEPT !.enabled = TRUE, !.customRules = <<Rule("account", {"g"})>>]
PiiTokens == [PiiOn EXCEPT !.reversible = TRUE, !.maskDisplayNames = TRUE]
PiiFirst == [PiiTokens EXCEPT !.customRules = <<Rule("account", {}), Rule("like", {"g", "y"})>>]

Item(type, actor, confidence, impact, evidence, start) ==
    [type |-> type, actor |-> actor, confidence |-> confidence, impact |-> impact,
     evidence |-> evidence, start |-> start]
Mood(confidence, score100) == [polarity |-> "NEGATIVE", intensity |-> 60,
                               confidence |-> confidence, score100 |-> score100]
Payload == [sentiment |-> Mood(80, 30), summary |-> << >>, aspects |-> << >>,
            events |-> <<Item("FRUSTRATION_ONSET", "END_USER", 90, "HIGH", << >>, None),
                         Item("REFUND_DELAY", "AGENT", Bad, Bad, << >>, None)>>,
            moments |-> <<Item("FRUSTRATION_ONSET", "END_USER", 90, "HIGH", << >>, "t2"),
                          Item("FRUSTRATION_ONSET", Bad, 90, "LOW", << >>, "t9")>>,
            reviewState |-> "VERIFIED", reviewReasons |-> {}]
Answer(payload) == [ok |-> TRUE, content |-> "clean", defects |-> {}, multiline |-> FALSE,
                    payload |-> payload]
Good == Answer(Payload)
Unsure == Answer([Payload EXCEPT !.sentiment = Mood(60, 90), !.reviewState = "UNCERTAIN"])
OfTheAgent == Answer([Payload EXCEPT !.moments = <<Item("FRUSTRATION_ONSET", "END_USER", 90, "LOW", << >>, "t1")>>])
Unparsable == [Good EXCEPT !.content = "embedded", !.defects = {"newline_in_string"}, !.multiline = TRUE]
Repaired == [Good EXCEPT !.defects = {"trailing_comma"}]
NoMood == Answer([Payload EXCEPT !.sentiment = Bad])
Copies(id) == [id |-> id, quote |-> None]
OwnWords == [id |-> "t1", quote |-> << <<"word", 7>> >> \o Token(0)]
Quoted == Answer([Payload EXCEPT
    !.events = <<Item("FRUSTRATION_ONSET", "END_USER", 90, "HIGH", <<Copies("t2"), OwnWords>>, None)>>])
NoWords == Answer([Payload EXCEPT
    !.events = <<Item("REFUND_DELAY", "AGENT", 90, "LOW", <<[OwnWords EXCEPT !.quote = << >>]>>, None)>>])
Structured(evidence, sentiment) ==
    Answer([Payload EXCEPT !.sentiment = sentiment, !.events = << >>,
               !.aspects = <<[target |-> "price", confidence |-> 70, evidence |-> <<evidence>>]>>,
               !.moments = <<Item("FRUSTRATION_ONSET", "END_USER", 75, "LOW", <<evidence>>, "t2")>>])

Scoring == [ScoringOff EXCEPT !.enabled = TRUE, !.default = 5,
                              !.byPolarity = [p \in {"NEGATIVE"} |-> -10]]
Case == [queued |-> FALSE, structured |-> FALSE, transcript |-> Dialogue, engagement |-> "CALL",
         pii |-> PiiOn, pack |-> Pack, scoring |-> Scoring, answers |-> {Good, Unsure, OfTheAgent}]

SmallCases == <<
    Case,
    [Case EXCEPT !.pack = PackWithPhrases, !.pii = PiiTokens, !.answers = {Good, Unparsable, Repaired}],
    [Case EXCEPT !.pack = PackWithOtherPhrases, !.answers = {Good}],
    [Case EXCEPT !.transcript = Spaced, !.pii = PiiTokens, !.answers = {Good, NoMood}],
    [Case EXCEPT !.transcript = Spaced, !.pii = PiiTokens, !.queued = TRUE, !.answers = {Good}],
    [Case EXCEPT !.transcript = Repeating, !.pii = PiiTokens, !.answers = {Good, Quoted, NoWords}],
    [Case EXCEPT !.transcript = Repeating, !.pii = PiiFirst, !.answers = {Quoted}],
    [Case EXCEPT !.transcript = Silent, !.answers = {Good}],
    [Case EXCEPT !.transcript = Unknowns, !.pack = PackByName, !.pii = PiiOff],
    [Case EXCEPT !.transcript = Unknowns, !.pack = PackByName, !.pii = PiiTokens, !.engagement = None,
                 !.answers = {Good}],
    [Case EXCEPT !.transcript = Automatic],
    [Case EXCEPT !.structured = TRUE, !.scoring = ScoringOff,
                 !.answers = {Structured(Copies(id), mood) : id \in {"t1", "t2", "t9"},
                                                     mood \in {None, Mood(70, None), Mood(70, 30)}}] >>
(* One call is given any of the cases; the other one of those that differ  *)
(* in their pack, for the two meet in the cache only.                      *)
SmallCasesOf(c) == IF c = b THEN 1..2 ELSE DOMAIN SmallCases
=============================================================================
