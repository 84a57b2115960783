--------------------------- MODULE TranscriptText ---------------------------
(***************************************************************************)
(* Transcripts, their masking and their speakers.  A text is a sequence of *)
(* atoms <<kind, value>>, each standing for the words the code looks for   *)
(* with a regular expression: a piece of personal data, a digit group, a   *)
(* role keyword, a marker such as "[internal]", a support cue, the end of  *)
(* a sentence, blank space.  A masking token "__PII_n__" is three atoms,   *)
(* because a later rule may match what is inside it; <<"spaced", atom>>    *)
(* are words that are the atom once their blanks have been collapsed, as   *)
(* a number is whose groups are two spaces apart.                          *)
(***************************************************************************)
EXTENDS SentimentScoring, SequenceFilters

PiiKinds == <<"email", "phone", "ssn", "card">>   \* DEFAULT_REGEX_RULES, in their order

Has(text, kind, value) == <<kind, value>> \in Range(text)
KindsIn(text) == {atom[1] : atom \in Range(text)}
-----------------------------------------------------------------------------
(* Masking.  A rule has the kind of atom its expression matches, the flags *)
(* of the expression, any the tenant writes, and the label it puts there.  *)
(* The default rules come first; all of them are global.                   *)
DEFAULT_REGEX_RULES ==
    [i \in DOMAIN PiiKinds |->
        [kind |-> PiiKinds[i], flags |-> {"g"}, label |-> <<"label", PiiKinds[i]>>]]
RulesOf(config) == DEFAULT_REGEX_RULES \o config.customRules

(* What `replace` reaches: only the first match without the flag g, only   *)
(* a match at the beginning with the flag y.                               *)
Reached(rule, text) ==
    LET found == {i \in DOMAIN text : text[i][1] = rule.kind}
    IN  {i \in found : /\ "g" \in rule.flags \/ \A j \in found : i <= j
                       /\ "y" \notin rule.flags \/ i = 1}

Masked(text, rule) ==
    [i \in DOMAIN text |-> IF i \in Reached(rule, text) THEN rule.label ELSE text[i]]

(* maskAnalysisRequest: each rule in turn replaces what it matches by its  *)
(* label.                                                                  *)
applyMaskers(text, rules) ==
    LET after[n \in 0..Len(rules)] ==   \* the text after the first n rules
            IF n = 0 THEN text ELSE Masked(after[n - 1], rules[n])
    IN  after[Len(rules)]

(* Mutant: the tokens are numbered from one.                               *)
TokenFromOne(n) == << <<"open", 0>>, <<"number", n + 1>>, <<"close", 0>> >>

Token(n) == << <<"open", 0>>, <<"number", n>>, <<"close", 0>> >>

(* reversibleMaskAnalysisRequest: each match becomes a fresh token, and    *)
(* the map keeps what it stood for.  `state` is the text so far, and the   *)
(* originals by token number (the numbers start at zero).                  *)
TokenizeAtom(reached, state, atom) ==
    IF ~reached THEN [state EXCEPT !.text = Append(@, atom)]
    ELSE [text |-> state.text \o Token(Len(state.map)), map |-> Append(state.map, << atom >>)]

TokenizeRule(rule, state) ==
    LET pass[i \in 0..Len(state.text)] ==   \* after the first i atoms
            IF i = 0 THEN [text |-> << >>, map |-> state.map]
            ELSE TokenizeAtom(i \in Reached(rule, state.text), pass[i - 1], state.text[i])
    IN  pass[Len(state.text)]

tokenizeText(text, rules, map) ==
    LET after[n \in 0..Len(rules)] ==   \* after the first n rules
            IF n = 0 THEN [text |-> text, map |-> map] ELSE TokenizeRule(rules[n], after[n - 1])
    IN  after[Len(rules)]

(* Every display name becomes a token, whatever is in it.                  *)
TokenizeNames(participants, config) ==
    IF ~config.maskDisplayNames THEN [participants |-> participants, map |-> << >>]
    ELSE [participants |-> [i \in DOMAIN participants |->
                               [participants[i] EXCEPT !.name = Token(i - 1)]],
          map |-> [i \in DOMAIN participants |-> participants[i].name]]

maskAnalysisRequest(transcript, config) ==
    LET rules == RulesOf(config)
    IN  IF ~config.enabled THEN transcript
        ELSE [participants |->
                 [i \in DOMAIN transcript.participants |->
                     IF config.maskDisplayNames
                     THEN [transcript.participants[i] EXCEPT !.name = applyMaskers(@, rules)]
                     ELSE transcript.participants[i]],
              turns |-> [i \in DOMAIN transcript.turns |->
                            [transcript.turns[i] EXCEPT !.text = applyMaskers(@, rules)]]]

(* The map after the first i turns.                                        *)
TokenMaps(turns, rules, map) ==
    LET upTo[i \in 0..Len(turns)] ==
            IF i = 0 THEN map ELSE tokenizeText(turns[i].text, rules, upTo[i - 1]).map
    IN  upTo

reversibleMaskAnalysisRequest(transcript, config) ==
    LET turns == transcript.turns
        rules == RulesOf(config)
        named == TokenizeNames(transcript.participants, config)
        upTo  == TokenMaps(turns, rules, named.map)
    IN  [transcript |-> [participants |-> named.participants,
                         turns |-> [i \in DOMAIN turns |->
                            [turns[i] EXCEPT !.text = tokenizeText(@, rules, upTo[i - 1]).text]]],
         map |-> upTo[Len(turns)]]

(* prepareRequest: the transcript that goes on, and the token map.         *)
prepareRequest(transcript, config) ==
    IF config.enabled /\ config.reversible THEN reversibleMaskAnalysisRequest(transcript, config)
    ELSE [transcript |-> maskAnalysisRequest(transcript, config), map |-> << >>]

(* One pass over a text: what was restored is not looked at again.         *)
decode(text, map) ==
    LET IsToken(i) == /\ i \in 1..(Len(text) - 2)
                      /\ text[i][1] = "open" /\ text[i + 2][1] = "close"
                      /\ text[i + 1][1] = "number" /\ text[i + 1][2] \in 0..(Len(map) - 1)
        Piece(i) == IF IsToken(i) THEN map[text[i + 1][2] + 1]
                    ELSE IF IsToken(i - 1) \/ IsToken(i - 2) THEN << >>
                    ELSE << text[i] >>
    IN  FlattenSeq([i \in DOMAIN text |-> Piece(i)])
-----------------------------------------------------------------------------
(* Normalization: space is collapsed, a speaker id that occurs twice in    *)
(* the participants is the last one, an unknown one is its own name.       *)
Unspaced(atom) == IF atom[1] = "spaced" THEN atom[2] ELSE atom
collapseWhitespace(text) ==
    FlattenSeq([i \in DOMAIN text |-> IF text[i][1] = "blank" THEN << >> ELSE << Unspaced(text[i]) >>])

Markers == {"ADMIN_MARKER", "SYSTEM_MARKER", "BOT_MARKER"}
inferMarkers(text, name, label) ==
    {m \in Markers : \E part \in {text, name, label} : Has(part, "marker", m)}

Normalized(participant) ==
    [participant EXCEPT !.name = collapseWhitespace(@), !.label = collapseWhitespace(@)]

participantOf(participants, speaker) ==
    LET last == SelectLastInSeq(participants, LAMBDA p : p.speaker = speaker)
    IN  IF last # 0 THEN Normalized(participants[last])
        ELSE [speaker |-> speaker, name |-> << <<"id", speaker>> >>, label |-> << >>, kind |-> None]

normalizeTranscript(transcript) ==
    [i \in DOMAIN transcript.turns |->
        LET turn == transcript.turns[i]
            who  == participantOf(transcript.participants, turn.speaker)
            text == collapseWhitespace(turn.text)
        IN  [id |-> turn.id, speaker |-> turn.speaker, name |-> who.name, label |-> who.label,
             kind |-> who.kind, text |-> text, markers |-> inferMarkers(text, who.name, who.label)]]
-----------------------------------------------------------------------------
(* Speakers.  The first of six sources that says something gives the role, *)
(* each with its own confidence.                                           *)
RoleKeywords == <<"END_USER", "AGENT", "SUPERVISOR", "ADMIN", "SYSTEM", "BOT">>
Scored == {"END_USER", "AGENT"}

Inference(role, confidence) == [role |-> role, confidence |-> confidence]

KeywordRole(text, certain, otherwise) ==
    LET first == SelectInSeq(RoleKeywords, LAMBDA role : Has(text, "keyword", role))
    IN  IF first = 0 THEN None
        ELSE Inference(RoleKeywords[first],
                       IF RoleKeywords[first] \in Scored THEN certain ELSE otherwise)

inferRoleFromSpeakerId(turn, pack) ==
    IF turn.speaker \in DOMAIN pack.speakerIdRoleMap
    THEN Inference(pack.speakerIdRoleMap[turn.speaker], 98) ELSE None

inferRoleFromMarkers(turn) ==
    IF "ADMIN_MARKER" \in turn.markers THEN Inference("ADMIN", 97)
    ELSE IF "SYSTEM_MARKER" \in turn.markers THEN Inference("SYSTEM", 97)
    ELSE IF "BOT_MARKER" \in turn.markers THEN Inference("BOT", 97)
    ELSE None

inferRoleFromMetadata(kind) == IF kind = None THEN None ELSE Inference(kind, 99)

inferRoleFromRawRoleLabel(turn) == KeywordRole(turn.label, 96, 93)

inferRoleFromAliases(turn, pack) ==
    LET aliases == SelectSeq(<<turn.name, turn.label>>,
                             LAMBDA a : a # << >> /\ a \in DOMAIN pack.roleAliases)
    IN  IF aliases = << >> THEN None ELSE Inference(pack.roleAliases[Head(aliases)], 95)

inferRoleFromName(turn) == KeywordRole(turn.name \o turn.text, 72, 66)

inferRole(turn, pack) ==
    LET inferences == << inferRoleFromSpeakerId(turn, pack), inferRoleFromMarkers(turn),
                         inferRoleFromMetadata(turn.kind), inferRoleFromRawRoleLabel(turn),
                         inferRoleFromAliases(turn, pack), inferRoleFromName(turn) >>
        said == SelectSeq(inferences, LAMBDA x : x # None)
    IN  IF said = << >> THEN Inference("UNKNOWN", 35) ELSE Head(said)

resolveSpeakers(turns, pack) ==
    [i \in DOMAIN turns |->
        LET inference == inferRole(turns[i], pack)
        IN  [id |-> turns[i].id, name |-> turns[i].name,
             role |-> inference.role, confidence |-> inference.confidence,
             eligibleForSentiment |-> inference.role \in pack.sentimentRoles,
             eligibleForKeyMoments |-> inference.role \in pack.keyMomentRoles]]

(* A map from turn ids to assignments has the last one of an id, find()    *)
(* the first one.                                                          *)
AssignmentById(assignments, id) ==
    assignments[SelectLastInSeq(assignments, LAMBDA a : a.id = id)]
assignmentForTurn(assignments, id) ==
    LET first == SelectInSeq(assignments, LAMBDA a : a.id = id)
    IN  IF first = 0 THEN None ELSE assignments[first]

(* The cues: some are looked for in what END_USERs said, some in all but   *)
(* the automatic turns.                                                    *)
FullTextCues == {"severeOutage", "escalationDemand", "gratitude", "resolutionConfirmation"}

buildSupportSentimentCueProfile(turns, assignments) ==
    LET nonSystem(a) == a.role \notin {"ADMIN", "SYSTEM", "BOT"}
        endUser(a)   == a.role = "END_USER" /\ a.eligibleForSentiment
        Heard(c, a)  == IF c \in FullTextCues THEN nonSystem(a) ELSE endUser(a)
    IN  {c \in Cue : \E i \in DOMAIN turns :
                         /\ Has(turns[i].text, "cue", c)
                         /\ Heard(c, AssignmentById(assignments, turns[i].id))}

(* The prompt: one line per turn, with its role.                           *)
buildCanonicalAnalysisPrompt(turns, assignments) ==
    [i \in DOMAIN turns |->
        [id |-> turns[i].id, role |-> AssignmentById(assignments, turns[i].id).role,
         name |-> turns[i].name, text |-> turns[i].text]]
=============================================================================
