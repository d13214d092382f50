---------------------------- MODULE Conversation ----------------------------
(***************************************************************************)
(* AgentMessageScanner (aigis/multi_agent/message_scanner.py): the messages*)
(* between two agents, scanned each alone and then as a conversation.  A   *)
(* message is what the three layers find in it, and it grows hit by hit.   *)
(***************************************************************************)
EXTENDS Integers, Sequences, FiniteSets

Sums == INSTANCE FiniteSetsExt

CONSTANTS
    GuardFinds,    \* the scores that Guard may give a content, apart from 0
    MaxMessages,   \* bound: the messages of a conversation
    MaxFinds        \* bound: the hits in all of them

VARIABLE conversation

ASSUME ConversationAssumption ==
    GuardFinds \subseteq 1..100 /\ MaxMessages \in Nat /\ MaxFinds \in Nat

\* A list of patterns: their category, and how many.
Listed(category, size) == [category |-> category, size |-> size]

DELEGATION_PATTERNS == Listed("injection_relay", 4)
PRIVILEGE_ESCALATION_PATTERNS == Listed("privilege_escalation", 5)
AGENT_EXFIL_PATTERNS == Listed("data_exfil", 5)
HIDDEN_INSTRUCTION_PATTERNS == Listed("injection_relay", 6)
SELF_REPLICATION_PATTERNS == Listed("injection_relay", 3)
COLLUSION_PATTERNS == Listed("injection_relay", 3)
AGENT_CARD_POISONING_PATTERNS == Listed("injection_relay", 3)
SESSION_FABRICATION_PATTERNS == Listed("injection_relay", 3)
CHAT_TEMPLATE_INJECTION_PATTERNS == Listed("injection_relay", 2)
SAFETY_SPOOF_PATTERNS == Listed("injection_relay", 2)

ALL_CROSS_AGENT_PATTERNS ==
    <<DELEGATION_PATTERNS, PRIVILEGE_ESCALATION_PATTERNS, AGENT_EXFIL_PATTERNS,
      HIDDEN_INSTRUCTION_PATTERNS, SELF_REPLICATION_PATTERNS, COLLUSION_PATTERNS,
      AGENT_CARD_POISONING_PATTERNS, SESSION_FABRICATION_PATTERNS,
      CHAT_TEMPLATE_INJECTION_PATTERNS, SAFETY_SPOOF_PATTERNS>>

PatternLists == DOMAIN ALL_CROSS_AGENT_PATTERNS
RiskTypes == {ALL_CROSS_AGENT_PATTERNS[l].category : l \in PatternLists}

\* RunningSum(terms)[n]: the sum of the first n.
RunningSum(terms) ==
    LET sum[n \in 0..Len(terms)] == IF n = 0 THEN 0 ELSE sum[n - 1] + terms[n]
    IN sum

SumOf(terms) == RunningSum(terms)[Len(terms)]

SizeIn(list, category) == IF list.category = category THEN list.size ELSE 0

\* The patterns that there are of a category.
PatternsIn(category) ==
    SumOf([l \in PatternLists |-> SizeIn(ALL_CROSS_AGENT_PATTERNS[l], category)])

\* The checks of _check_message_type; a text or a status has none.
TypeChecks ==
    [delegation |-> {"hidden tag", "override"}, tool_result |-> {"orders", "orders (JA)"},
     text |-> {}, status |-> {}]

\* matched: how many patterns of each category match it.
Message == [type : DOMAIN TypeChecks, guard : {0} \cup GuardFinds,
            checks : SUBSET UNION {TypeChecks[t] : t \in DOMAIN TypeChecks},
            matched : [RiskTypes -> Nat]]
IsMessage(m) ==
    /\ m \in Message /\ m.checks \subseteq TypeChecks[m.type]
    /\ \A c \in RiskTypes : m.matched[c] <= PatternsIn(c)

OverKinds(f) == f["injection_relay"] + f["privilege_escalation"] + f["data_exfil"]
Matches(m) == OverKinds(m.matched)
Kinds(m) == {c \in RiskTypes : m.matched[c] > 0}
HitsIn(m) == Matches(m) + Cardinality(m.checks) + (IF m.guard = 0 THEN 0 ELSE 1)
HitsOf(messages) == SumOf([i \in DOMAIN messages |-> HitsIn(messages[i])])

ConversationTypeOK ==
    /\ \A i \in DOMAIN conversation : IsMessage(conversation[i])
    /\ Len(conversation) <= MaxMessages /\ HitsOf(conversation) <= MaxFinds

ConversationInit == conversation = << >>

Send(type) ==
    /\ Len(conversation) < MaxMessages
    /\ conversation' = Append(conversation,
                              [type |-> type, guard |-> 0, checks |-> {},
                               matched |-> [c \in RiskTypes |-> 0]])

Find(i, longer) ==
    /\ HitsOf(conversation) < MaxFinds
    /\ HitsIn(longer) = HitsIn(conversation[i]) + 1
    /\ conversation' = [conversation EXCEPT ![i] = longer]

ConversationNext ==
    \/ \E type \in DOMAIN TypeChecks : Send(type)
    \/ \E i \in DOMAIN conversation :
        \/ \E found \in GuardFinds : Find(i, [conversation[i] EXCEPT !.guard = found])
        \/ \E c \in RiskTypes :
            /\ conversation[i].matched[c] < PatternsIn(c)
            /\ Find(i, [conversation[i] EXCEPT !.matched[c] = @ + 1])
        \/ \E c \in TypeChecks[conversation[i].type] :
            Find(i, [conversation[i] EXCEPT !.checks = @ \cup {c}])

ConversationSpec == ConversationInit /\ [][ConversationNext]_conversation
----------------------------------------------------------------------------
\* 35 for each match of a category, up to 60.
CategoryScore(size) == Sums!Min({35 * size, 60})

CrossAgentScore(m) == OverKinds([c \in RiskTypes |-> CategoryScore(m.matched[c])])

Capped(score) == Sums!Min({score, 100})

\* scan_message: Guard, the patterns, the checks of its type.
Score(m) ==
    Capped(Capped(m.guard + CrossAgentScore(m)) + 35 * Cardinality(m.checks))

\* Mutant: the message after the first two thirds counts as an early one.
SplitBehind(messages) == Sums!Max({1, (Len(messages) * 2) \div 3}) + 1

\* _check_escalation: the late messages, when the early ones averaged at most 15.
Split(messages) == Sums!Max({1, (Len(messages) * 2) \div 3})

\* ScoreOf(messages)[n]: the sum of the first n.
ScoreOf(messages) == RunningSum([i \in DOMAIN messages |-> Score(messages[i])])

Escalates(messages) ==
    Len(messages) >= 3 /\ ScoreOf(messages)[Split(messages)] <= 15 * Split(messages)

Boosted(messages, i) ==
    Escalates(messages) /\ i > Split(messages) /\ Score(messages[i]) > 20

ConversationScore(messages, i) ==
    Capped(Score(messages[i]) + (IF Boosted(messages, i) THEN 15 ELSE 0))

Recommendation(score) ==
    IF score <= 30 THEN "allow" ELSE IF score <= 60 THEN "sanitize" ELSE "block"

Verdict(i) == Recommendation(ConversationScore(conversation, i))
----------------------------------------------------------------------------
\* One of the last third of three messages or more.
Late(i) == Len(conversation) >= 3 /\ 3 * i > 2 * Len(conversation)

\* Two kinds of cross-agent content block a message wherever it stands; one kind, however
\* often it matches and if no other layer finds anything, asks for sanitizing, and blocks
\* only in the last third of a conversation that was mostly harmless before, where fewer
\* than half of the messages matched and at most a quarter matched twice; there it does
\* block if it matches twice and nothing was found before; a message in which nothing is
\* found passes, whatever the others hold.
KindsDecide ==
    \A i \in DOMAIN conversation :
        LET m == conversation[i]
            kinds == Kinds(m)
            alone == Cardinality(kinds) = 1 /\ m.guard = 0 /\ m.checks = {}
            early == {j \in DOMAIN conversation : ~Late(j)}
            Often(n) == Cardinality({j \in early : Matches(conversation[j]) >= n})
        IN /\ Cardinality(kinds) >= 2 => Verdict(i) = "block"
           /\ Cardinality(kinds) = 1 => Verdict(i) # "allow"
           /\ alone /\ Verdict(i) = "block" =>
                /\ Matches(m) >= 2 /\ Late(i)
                /\ 7 * Often(1) <= 3 * Cardinality(early) /\ 4 * Often(2) <= Cardinality(early)
           /\ alone /\ Matches(m) >= 2 /\ Late(i)
                    /\ (\A j \in early : HitsIn(conversation[j]) = 0) => Verdict(i) = "block"
           /\ HitsIn(m) = 0 => Verdict(i) = "allow"
=============================================================================
