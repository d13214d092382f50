----------------------------- MODULE Screening -----------------------------
(***************************************************************************)
(* The three scorers of a text: run_patterns of aigis/filters/scorer.py,   *)
(* which Guard asks, the layered one of aigis/scanner.py, which scan asks, *)
(* and that of the backend's proxy.  A text is what they find in it, and   *)
(* it grows hit by hit.  The matches of a text are all of one category,    *)
(* its topic: the scores of two categories never touch.                    *)
(***************************************************************************)
EXTENDS Integers, Sequences, FiniteSets

Seqs == INSTANCE SequencesExt
ScoreSets == INSTANCE FiniteSetsExt

CONSTANTS
    Lists,        \* Lists[l]: the patterns of list l, in their order
    RuleScores,   \* score_delta of each custom rule that compiles, in their order
    BlockAt,      \* auto_block_threshold
    MaxHits       \* bound: the hits in a text, of each topic

VARIABLES
    asked,        \* the list that the text is searched with
    topic,
    text

screening == <<asked, topic, text>>

Scanned == {"scan_input", "scan_output"}
Guarded == {"guard_input", "guard_output"}

CategoriesOf(list) == {Lists[list][i].category : i \in DOMAIN Lists[list]}
Topics == UNION {CategoriesOf(list) : list \in DOMAIN Lists}
Categories == Topics \cup {"custom", "token_exhaustion"}

\* The patterns of a list that the topic has.
PatternsOf(list, category) ==
    {i \in DOMAIN Lists[list] : Lists[list][i].category = category}

\* similarity.py: the scores that the phrases of a category have.
ATTACK_CORPUS ==
    [prompt_injection |-> {40, 45, 50}, data_exfiltration |-> {50, 60},
     sandbox_escape |-> {60, 65, 70}, autonomous_exploit |-> {60, 65, 70},
     self_privilege_escalation |-> {75, 80}, audit_tampering |-> {65, 70, 75},
     evaluation_gaming |-> {55, 60}, cot_deception |-> {70}]

\* _TOKEN_EXHAUSTION_HEURISTIC_SCORE
FloodScore == 45

ASSUME ScreeningAssumption ==
    /\ \A list \in DOMAIN Lists : Lists[list] \in Seq([category : STRING, base : 1..100])
    /\ RuleScores \in Seq(1..100) /\ BlockAt \in 0..100 /\ MaxHits \in [Topics -> Nat]

RuleIds == DOMAIN RuleScores

\* plain: the patterns that match it, in the order of the list; hidden: those that match
\* what a decoder makes of it, in the order of the decoders; rules: those that match it, in
\* their order; alike: the score of the phrase it resembles most, if any; flood: long and
\* repetitive.
Text(list, category) ==
    [plain : Seq(PatternsOf(list, category)), hidden : Seq(PatternsOf(list, category)),
     rules : Seq(RuleIds), alike : SUBSET (0..100), flood : BOOLEAN]

Hits(t) ==
    Len(t.plain) + Len(t.hidden) + Len(t.rules) + Cardinality(t.alike)
    + (IF t.flood THEN 1 ELSE 0)

ScreeningTypeOK ==
    /\ asked \in DOMAIN Lists /\ topic \in CategoriesOf(asked)
    /\ text \in Text(asked, topic)
    /\ \A order \in {text.plain, text.rules} : \A n \in 2..Len(order) : order[n - 1] < order[n]
    /\ Cardinality(text.alike) <= 1 /\ Hits(text) <= MaxHits[topic]

ScreeningInit ==
    /\ asked \in DOMAIN Lists /\ topic \in CategoriesOf(asked)
    /\ text = [plain |-> << >>, hidden |-> << >>, rules |-> << >>, alike |-> {}, flood |-> FALSE]

Extend(longer) ==
    /\ Hits(text) < MaxHits[topic]
    /\ Hits(longer) = Hits(text) + 1
    /\ text' = longer
    /\ UNCHANGED <<asked, topic>>

\* check_similarity keeps the best phrase of a category, and is asked for inputs only.
Resemble ==
    /\ asked = "scan_input" /\ topic \in DOMAIN ATTACK_CORPUS
    /\ \E score \in ATTACK_CORPUS[topic] : Extend([text EXCEPT !.alike = {score}])

\* decode_all: what one decoder shows may match a pattern before those of the text.
Hide ==
    /\ asked \in Scanned
    /\ \E i \in PatternsOf(asked, topic) : Extend([text EXCEPT !.hidden = Append(@, i)])

Flood == asked \in Guarded /\ Extend([text EXCEPT !.flood = TRUE])

\* i comes after what was found before.
Follows(i, found) == \A n \in DOMAIN found : found[n] < i

ScreeningNext ==
    \/ \E i \in PatternsOf(asked, topic) :
        Follows(i, text.plain) /\ Extend([text EXCEPT !.plain = Append(@, i)])
    \/ \E i \in RuleIds :
        Follows(i, text.rules) /\ Extend([text EXCEPT !.rules = Append(@, i)])
    \/ Resemble
    \/ Hide
    \/ Flood

ScreeningSpec == ScreeningInit /\ [][ScreeningNext]_screening

----------------------------------------------------------------------------
NoScores == [c \in Categories |-> 0]

\* Mutant: nothing limits a category.
Sum(scores, category, base) == [scores EXCEPT ![category] = @ + base]

\* min(prev + base, base * 2): the base of the latest match sets the cap.
Add(scores, category, base) == [scores EXCEPT ![category] = ScoreSets!Min({@ + base, 2 * base})]

\* The matches that count, one after the other.
AddAll(scores, matches, counted) ==
    LET acc[n \in 0..Len(matches)] ==
            IF n = 0 THEN scores
            ELSE IF n \in counted THEN Add(acc[n - 1], matches[n].category, matches[n].base)
            ELSE acc[n - 1]
    IN acc[Len(matches)]

Patterns(found) == [n \in DOMAIN found |-> Lists[asked][found[n]]]
CustomRules(found) ==
    [n \in DOMAIN found |-> [category |-> "custom", base |-> RuleScores[found[n]]]]

\* run_patterns of the backend: the patterns, then the custom rules.
ProxyScores(t) ==
    AddAll(AddAll(NoScores, Patterns(t.plain), DOMAIN t.plain),
           CustomRules(t.rules), DOMAIN t.rules)

\* run_patterns of the library: the length heuristic also.
GuardScores(t) ==
    IF t.flood THEN Add(ProxyScores(t), "token_exhaustion", FloodScore) ELSE ProxyScores(t)

\* Of what was decoded, the patterns that have not matched yet.
NewMatches(t) ==
    {n \in DOMAIN t.hidden :
        /\ \A k \in DOMAIN t.plain : t.plain[k] # t.hidden[n]
        /\ \A k \in 1..(n - 1) : t.hidden[k] # t.hidden[n]}

\* _run_patterns: a resemblance counts where no pattern did, and what was decoded only
\* where no layer before it found it.
ScanScores(t) ==
    LET scores == ProxyScores(t)
        similar == IF t.alike # {} /\ scores[topic] = 0
                   THEN Add(scores, topic, ScoreSets!Max(t.alike)) ELSE scores
    IN AddAll(similar, Patterns(t.hidden), NewMatches(t))

Scores(t) ==
    CASE asked \in Scanned -> ScanScores(t)
      [] asked \in Guarded -> GuardScores(t)
      [] OTHER -> ProxyScores(t)

Total(scores) ==
    ScoreSets!Min({100, Seqs!FoldFunction(LAMBDA s, acc : s + acc, 0, scores)})

Blocks(score) == score >= BlockAt

----------------------------------------------------------------------------
\* What counts toward a category.
BasesIn(found, category) ==
    {Lists[asked][found[n]].base :
        n \in {n \in DOMAIN found : Lists[asked][found[n]].category = category}}

Bases(t, category) ==
    BasesIn(t.plain, category) \cup BasesIn(t.hidden, category)
    \cup (IF category = topic THEN t.alike ELSE {})
    \cup (IF category = "custom" THEN {RuleScores[t.rules[n]] : n \in DOMAIN t.rules} ELSE {})
    \cup (IF category = "token_exhaustion" /\ t.flood THEN {FloodScore} ELSE {})

\* In every list, whatever the layers and their order, a category that a text has hits in
\* counts for at least its weakest match and at most twice its strongest: a pile of matches
\* of one kind, however large, blocks only if the strongest reaches half of the threshold.
\* Two that would not block alone may block together: 50 and 45 count 90.
CategoryIsCapped ==
    LET scores == Scores(text) IN
    \A c \in {topic, "custom", "token_exhaustion"} :
        LET bases == Bases(text, c) IN
        /\ \E b \in bases \cup {0} : scores[c] <= 2 * b
        /\ bases # {} => \E b \in bases : scores[c] >= b

\* "Each matching pattern contributes its base_score" (scorer.py): a text that one
\* more pattern matches does not get below the threshold for it.
EachMatchContributes ==
    \A i \in Seqs!ToSet(text.plain) :
        LET without == [text EXCEPT !.plain = SelectSeq(@, LAMBDA k : k # i)] IN
        Blocks(Total(Scores(without))) => Blocks(Total(Scores(text)))
=============================================================================
