----------------------------- MODULE ScanProofs -----------------------------
(***************************************************************************)
(* Theorems about Conversation, Screening and Sessions, for any values of  *)
(* their constants and inputs of any length: what the kinds of a           *)
(* conversation say of its verdict, what a category of a text may score,   *)
(* and which trend the sessions of a window have.                          *)
(***************************************************************************)
EXTENDS Conversation, Screening, Sessions, Induction, SequenceTheorems, FiniteSetTheorems,
        TLAPS

----------------------------------------------------------------------------
(* The message scanner.                                                    *)

LEMMA TheSmaller ==
    ASSUME NEW a \in Nat, NEW b \in Nat
    PROVE  Sums!Min({a, b}) = IF a <= b THEN a ELSE b
<1>1. Sums!Min({a, b}) = CHOOSE x \in {a, b} : \A y \in {a, b} : x <= y
  BY DEF Sums!Min
<1> QED
  BY <1>1

LEMMA TheLarger ==
    ASSUME NEW a \in Nat, NEW b \in Nat
    PROVE  Sums!Max({a, b}) = IF a >= b THEN a ELSE b
<1>1. Sums!Max({a, b}) = CHOOSE x \in {a, b} : \A y \in {a, b} : x >= y
  BY DEF Sums!Max
<1> QED
  BY <1>1

\* The three categories.
Injections == "injection_relay"
Privileges == "privilege_escalation"
Exfiltrations == "data_exfil"

LEMMA ThreeKinds ==
    RiskTypes = {Injections, Privileges, Exfiltrations}
<1>1. PICK lists : lists = ALL_CROSS_AGENT_PATTERNS
  OBVIOUS
<1>2. /\ DOMAIN lists = 1..10
      /\ \A l \in 1..10 : lists[l].category \in {Injections, Privileges, Exfiltrations}
      /\ lists[1].category = Injections /\ lists[2].category = Privileges
      /\ lists[3].category = Exfiltrations
  BY <1>1 DEF ALL_CROSS_AGENT_PATTERNS, Listed, DELEGATION_PATTERNS,
     PRIVILEGE_ESCALATION_PATTERNS, AGENT_EXFIL_PATTERNS, HIDDEN_INSTRUCTION_PATTERNS,
     SELF_REPLICATION_PATTERNS, COLLUSION_PATTERNS, AGENT_CARD_POISONING_PATTERNS,
     SESSION_FABRICATION_PATTERNS, CHAT_TEMPLATE_INJECTION_PATTERNS, SAFETY_SPOOF_PATTERNS,
     Injections, Privileges, Exfiltrations
<1> QED
  BY <1>1, <1>2 DEF RiskTypes, PatternLists

ConversationInv == conversation \in Seq(Message)

LEMMA ConversationFirst ==
    ASSUME ConversationInit
    PROVE  conversation \in Seq(Message)
BY DEF ConversationInit

LEMMA ConversationSteps ==
    ASSUME conversation \in Seq(Message), [ConversationNext]_conversation
    PROVE  conversation' \in Seq(Message)
<1>1. ASSUME NEW type \in DOMAIN TypeChecks, Send(type)
      PROVE  conversation' \in Seq(Message)
  <2>1. PICK m : m = [type |-> type, guard |-> 0, checks |-> {},
                      matched |-> [c \in RiskTypes |-> 0]]
    OBVIOUS
  <2>2. m \in Message
    BY <2>1 DEF Message
  <2> QED
    BY <1>1, <2>1, <2>2 DEF Send
<1>2. ASSUME NEW i \in DOMAIN conversation, NEW longer \in Message, Find(i, longer)
      PROVE  conversation' \in Seq(Message)
  BY <1>2 DEF Find
<1>3. \A i \in DOMAIN conversation : conversation[i] \in Message
  OBVIOUS
<1>4. ASSUME NEW i \in DOMAIN conversation, NEW found \in GuardFinds,
             Find(i, [conversation[i] EXCEPT !.guard = found])
      PROVE  conversation' \in Seq(Message)
  <2>1. [conversation[i] EXCEPT !.guard = found] \in Message
    BY <1>3 DEF Message
  <2> QED
    BY <1>2, <1>4, <2>1
<1>5. ASSUME NEW i \in DOMAIN conversation, NEW c \in RiskTypes,
             Find(i, [conversation[i] EXCEPT !.matched[c] = @ + 1])
      PROVE  conversation' \in Seq(Message)
  <2>1. PICK m \in Message : m = conversation[i]
    BY <1>3
  <2>2. m.matched \in [RiskTypes -> Nat]
    BY DEF Message
  <2>3. [m.matched EXCEPT ![c] = @ + 1] \in [RiskTypes -> Nat]
    BY <2>2
  <2>4. [m EXCEPT !.matched[c] = @ + 1] = [m EXCEPT !.matched = [m.matched EXCEPT ![c] = @ + 1]]
    OBVIOUS
  <2>5. [m EXCEPT !.matched = [m.matched EXCEPT ![c] = @ + 1]] \in Message
    BY <2>3 DEF Message
  <2> QED
    BY <1>2, <1>5, <2>1, <2>4, <2>5
<1>6. ASSUME NEW i \in DOMAIN conversation, NEW c \in TypeChecks[conversation[i].type],
             Find(i, [conversation[i] EXCEPT !.checks = @ \cup {c}])
      PROVE  conversation' \in Seq(Message)
  <2>1. PICK m \in Message : m = conversation[i]
    BY <1>3
  <2>2. PICK all : all = UNION {TypeChecks[t] : t \in DOMAIN TypeChecks}
    OBVIOUS
  <2>3. m.type \in DOMAIN TypeChecks /\ m.checks \subseteq all
    BY <2>2 DEF Message
  <2>4. m.checks \cup {c} \subseteq all
    BY <1>6, <2>1, <2>2, <2>3
  <2>5. [m EXCEPT !.checks = m.checks \cup {c}] \in Message
    BY <2>2, <2>4 DEF Message
  <2> QED
    BY <1>2, <1>6, <2>1, <2>5
<1> QED
  BY <1>1, <1>4, <1>5, <1>6 DEF ConversationNext

----------------------------------------------------------------------------
\* What a message is scored.

LEMMA MessageFacts ==
    ASSUME NEW m \in Message
    PROVE  /\ m.guard \in 0..100 /\ IsFiniteSet(m.checks) /\ Cardinality(m.checks) \in Nat
           /\ m.matched[Injections] \in Nat /\ m.matched[Privileges] \in Nat
           /\ m.matched[Exfiltrations] \in Nat
           /\ Matches(m) = m.matched[Injections] + m.matched[Privileges]
                           + m.matched[Exfiltrations]
<1>1. m.guard \in 0..100
  <2>1. m.guard \in {0} \cup GuardFinds
    BY DEF Message
  <2>2. GuardFinds \subseteq 1..100
    BY ConversationAssumption
  <2>3. \A g \in {0} \cup GuardFinds : g \in 0..100
    BY <2>2
  <2> QED
    BY <2>1, <2>3
<1>2. m.checks \subseteq {"hidden tag", "override", "orders", "orders (JA)"}
  <2>1. \A t \in DOMAIN TypeChecks :
           TypeChecks[t] \subseteq {"hidden tag", "override", "orders", "orders (JA)"}
    <3>1. DOMAIN TypeChecks = {"delegation", "tool_result", "text", "status"}
      BY DEF TypeChecks
    <3>2. /\ TypeChecks["delegation"] = {"hidden tag", "override"}
          /\ TypeChecks["tool_result"] = {"orders", "orders (JA)"}
          /\ TypeChecks["text"] = {} /\ TypeChecks["status"] = {}
      BY DEF TypeChecks
    <3> QED
      BY <3>1, <3>2
  <2>2. m.checks \subseteq UNION {TypeChecks[t] : t \in DOMAIN TypeChecks}
    BY DEF Message
  <2> QED
    BY <2>1, <2>2
<1>3. IsFiniteSet({"hidden tag", "override", "orders", "orders (JA)"})
  <2>1. IsFiniteSet({"hidden tag"})
    BY FS_Singleton
  <2>2. IsFiniteSet({"hidden tag"} \cup {"override"})
    BY <2>1, FS_AddElement
  <2>3. IsFiniteSet({"hidden tag"} \cup {"override"} \cup {"orders"})
    BY <2>2, FS_AddElement
  <2>4. IsFiniteSet({"hidden tag"} \cup {"override"} \cup {"orders"} \cup {"orders (JA)"})
    BY <2>3, FS_AddElement
  <2>5. {"hidden tag", "override", "orders", "orders (JA)"}
        = {"hidden tag"} \cup {"override"} \cup {"orders"} \cup {"orders (JA)"}
    OBVIOUS
  <2> QED
    BY <2>4, <2>5, Zenon
<1>4. IsFiniteSet(m.checks)
  BY <1>2, <1>3, FS_Subset
<1>5. Cardinality(m.checks) \in Nat
  BY <1>4, FS_CardinalityType
<1>6. m.matched \in [RiskTypes -> Nat]
  BY DEF Message
<1>7. /\ m.matched[Injections] \in Nat /\ m.matched[Privileges] \in Nat
      /\ m.matched[Exfiltrations] \in Nat
  BY <1>6, ThreeKinds
<1> QED
  BY <1>1, <1>4, <1>5, <1>7 DEF Matches, OverKinds, Injections, Privileges, Exfiltrations

LEMMA MatchesAreCounted ==
    ASSUME NEW m \in Message
    PROVE  Matches(m) \in Nat
<1>1. PICK a \in Nat, b \in Nat, c \in Nat : Matches(m) = a + b + c
  BY MessageFacts
<1> QED
  BY <1>1

\* 35 once, 60 from the second match on.
Worth(n) == IF n = 0 THEN 0 ELSE IF n = 1 THEN 35 ELSE 60

LEMMA CategoriesAreWorth ==
    ASSUME NEW n \in Nat
    PROVE  CategoryScore(n) = Worth(n)
<1>1. 35 * n \in Nat /\ 60 \in Nat
  OBVIOUS
<1>2. CategoryScore(n) = IF 35 * n <= 60 THEN 35 * n ELSE 60
  BY <1>1, TheSmaller DEF CategoryScore
<1> QED
  BY <1>2 DEF Worth

LEMMA CrossScore ==
    ASSUME NEW m \in Message
    PROVE  CrossAgentScore(m) = Worth(m.matched[Injections]) + Worth(m.matched[Privileges])
                                + Worth(m.matched[Exfiltrations])
<1>1. PICK f : f = [c \in RiskTypes |-> CategoryScore(m.matched[c])]
  OBVIOUS
<1>2. /\ f[Injections] = Worth(m.matched[Injections])
      /\ f[Privileges] = Worth(m.matched[Privileges])
      /\ f[Exfiltrations] = Worth(m.matched[Exfiltrations])
  BY <1>1, ThreeKinds, MessageFacts, CategoriesAreWorth
<1>3. CrossAgentScore(m) = OverKinds(f)
  BY <1>1 DEF CrossAgentScore
<1> QED
  BY <1>2, <1>3 DEF OverKinds, Injections, Privileges, Exfiltrations

Least(a, b) == IF a <= b THEN a ELSE b

LEMMA CappedAt ==
    ASSUME NEW score \in Nat
    PROVE  Capped(score) = Least(score, 100)
BY TheSmaller DEF Capped, Least

LEMMA ScoreForm ==
    ASSUME NEW m \in Message
    PROVE  /\ CrossAgentScore(m) \in Nat
           /\ Score(m) = Least(Least(m.guard + CrossAgentScore(m), 100)
                               + 35 * Cardinality(m.checks), 100)
           /\ Score(m) \in 0..100
<1>1. PICK cross : cross = CrossAgentScore(m)
  OBVIOUS
<1>2. PICK checks \in Nat : checks = Cardinality(m.checks)
  BY MessageFacts
<1>3. cross \in Nat
  BY <1>1, MessageFacts, CrossScore DEF Worth
<1>4. PICK guard \in Nat : guard = m.guard
  BY MessageFacts
<1>5. Capped(guard + cross) = Least(guard + cross, 100) /\ Least(guard + cross, 100) \in Nat
  BY <1>3, <1>4, CappedAt DEF Least
<1>6. Least(guard + cross, 100) + 35 * checks \in Nat
  BY <1>5
<1>7. Score(m) = Least(Least(guard + cross, 100) + 35 * checks, 100)
  BY <1>1, <1>2, <1>4, <1>5, <1>6, CappedAt DEF Score
<1>8. \A n \in Nat : Least(n, 100) \in 0..100
  BY DEF Least
<1>9. Score(m) \in 0..100
  BY <1>6, <1>7, <1>8, Zenon
<1> QED
  BY <1>1, <1>2, <1>3, <1>4, <1>7, <1>9

\* The categories that match, and how much they are worth.
LEMMA KindsOfMessage ==
    ASSUME NEW m \in Message
    PROVE  /\ Cardinality(Kinds(m)) >= 2 => CrossAgentScore(m) >= 70
           /\ Cardinality(Kinds(m)) = 1 => CrossAgentScore(m) = Worth(Matches(m)) /\ Matches(m) >= 1
           /\ Matches(m) = 0 => CrossAgentScore(m) = 0
           /\ Matches(m) >= 1 => CrossAgentScore(m) >= 35
           /\ Matches(m) >= 2 => CrossAgentScore(m) >= 60
<1>1. PICK a \in Nat, b \in Nat, c \in Nat :
         a = m.matched[Injections] /\ b = m.matched[Privileges] /\ c = m.matched[Exfiltrations]
  BY MessageFacts
<1>2. CrossAgentScore(m) = Worth(a) + Worth(b) + Worth(c) /\ Matches(m) = a + b + c
  BY <1>1, CrossScore, MessageFacts
<1>3. /\ Matches(m) = 0 => CrossAgentScore(m) = 0
      /\ Matches(m) >= 1 => CrossAgentScore(m) >= 35
      /\ Matches(m) >= 2 => CrossAgentScore(m) >= 60
  BY <1>2 DEF Worth
<1>4. PICK kinds : kinds = Kinds(m)
  OBVIOUS
<1>5. /\ kinds \subseteq {Injections, Privileges, Exfiltrations}
      /\ Injections \in kinds <=> a > 0
      /\ Privileges \in kinds <=> b > 0
      /\ Exfiltrations \in kinds <=> c > 0
  BY <1>1, <1>4, ThreeKinds DEF Kinds
<1>6. Injections # Privileges /\ Injections # Exfiltrations /\ Privileges # Exfiltrations
  BY DEF Injections, Privileges, Exfiltrations
<1>7. ASSUME Cardinality(kinds) >= 2
      PROVE  CrossAgentScore(m) >= 70
  <2>1. \A k : kinds # {k}
    <3>1. \A k : Cardinality({k}) = 1
      BY FS_Singleton
    <3> QED
      BY <1>7, <3>1
  <2>2. kinds # {}
    BY <1>7, FS_EmptySet
  <2>3. (a > 0 /\ b > 0) \/ (a > 0 /\ c > 0) \/ (b > 0 /\ c > 0)
    BY <1>5, <2>1, <2>2
  <2> QED
    BY <1>2, <2>3 DEF Worth
<1>8. ASSUME Cardinality(kinds) = 1
      PROVE  CrossAgentScore(m) = Worth(Matches(m)) /\ Matches(m) >= 1
  <2>1. IsFiniteSet(kinds)
    <3>1. IsFiniteSet({Injections} \cup {Privileges} \cup {Exfiltrations})
      BY FS_Singleton, FS_AddElement
    <3>2. kinds \subseteq {Injections} \cup {Privileges} \cup {Exfiltrations}
      BY <1>5
    <3> QED
      BY <3>1, <3>2, FS_Subset
  <2>2. PICK k : kinds = {k}
    BY <1>8, <2>1, FS_Singleton
  <2>3. (a > 0 /\ b = 0 /\ c = 0) \/ (a = 0 /\ b > 0 /\ c = 0) \/ (a = 0 /\ b = 0 /\ c > 0)
    BY <1>5, <1>6, <2>2
  <2> QED
    BY <1>2, <2>3 DEF Worth
<1> QED
  BY <1>3, <1>4, <1>7, <1>8

----------------------------------------------------------------------------
\* The early part of a conversation.

\* What RunningSum is to be, as far as end.
Summing(sum, terms, end) ==
    sum = [n \in 0..end |-> IF n = 0 THEN 0 ELSE sum[n - 1] + terms[n]]

LEMMA SummingExists ==
    ASSUME NEW terms, NEW last \in Nat
    PROVE  \E sum : Summing(sum, terms, last)
<1> DEFINE T == {end \in Nat : ~ \E sum : Summing(sum, terms, end)}
<1>1. SUFFICES ASSUME T # {}
               PROVE  FALSE
  OBVIOUS
<1>2. T \subseteq Nat
  OBVIOUS
<1>3. PICK end \in T : \A n \in T : end <= n
  BY <1>1, <1>2, LeastNumber
<1>4. end \in Nat /\ ~ \E sum : Summing(sum, terms, end)
  BY <1>3
<1>5. end # 0
  <2> DEFINE sum == [n \in 0..0 |-> 0]
  <2>1. Summing(sum, terms, 0)
    BY DEF Summing
  <2> QED
    BY <1>4, <2>1
<1>6. end - 1 \in Nat /\ end - 1 \notin T
  BY <1>3, <1>4, <1>5
<1>7. PICK sum : Summing(sum, terms, end - 1)
  BY <1>6
<1> DEFINE longer ==
       [n \in 0..end |-> IF n = end THEN sum[end - 1] + terms[end] ELSE sum[n]]
<1>8. \A n \in 0..(end - 1) : longer[n] = sum[n]
  BY <1>4
<1>9. \A n \in 0..end : longer[n] = IF n = 0 THEN 0 ELSE longer[n - 1] + terms[n]
  <2>1. TAKE n \in 0..end
  <2>2. CASE n = end
    <3>1. end - 1 \in 0..(end - 1)
      BY <1>4, <1>5
    <3>2. longer[n - 1] = sum[end - 1]
      BY <1>8, <2>2, <3>1
    <3> QED
      BY <1>5, <2>2, <3>2
  <2>3. CASE n # end
    <3>1. n \in 0..(end - 1) /\ (n # 0 => n - 1 \in 0..(end - 1))
      BY <1>4, <2>1, <2>3
    <3>2. sum[n] = IF n = 0 THEN 0 ELSE sum[n - 1] + terms[n]
      BY <1>7, <3>1 DEF Summing
    <3> QED
      BY <1>8, <3>1, <3>2
  <2> QED
    BY <2>2, <2>3
<1>10. Summing(longer, terms, end)
  <2>1. longer = [n \in 0..end |-> longer[n]]
    OBVIOUS
  <2> HIDE DEF longer
  <2> QED
    BY <1>9, <2>1 DEF Summing
<1> QED
  BY <1>4, <1>10

LEMMA SumsRun ==
    ASSUME NEW terms, Len(terms) \in Nat
    PROVE  /\ RunningSum(terms)[0] = 0
           /\ \A n \in 1..Len(terms) :
                 RunningSum(terms)[n] = RunningSum(terms)[n - 1] + terms[n]
<1>1. PICK sum : Summing(sum, terms, Len(terms))
  BY SummingExists
<1>2. Summing(RunningSum(terms), terms, Len(terms))
  BY <1>1 DEF RunningSum, Summing
<1>3. PICK s : s = RunningSum(terms)
  OBVIOUS
<1>4. \A n \in 0..Len(terms) : s[n] = IF n = 0 THEN 0 ELSE s[n - 1] + terms[n]
  BY <1>2, <1>3 DEF Summing
<1>5. 0 \in 0..Len(terms) /\ \A n \in 1..Len(terms) : n \in 0..Len(terms) /\ n # 0
  OBVIOUS
<1> QED
  BY <1>3, <1>4, <1>5

LEMMA ScoresAdd ==
    ASSUME NEW messages \in Seq(Message)
    PROVE  /\ ScoreOf(messages)[0] = 0
           /\ \A n \in 1..Len(messages) :
                 ScoreOf(messages)[n] = ScoreOf(messages)[n - 1] + Score(messages[n])
<1>1. PICK terms : terms = [i \in DOMAIN messages |-> Score(messages[i])]
  OBVIOUS
<1>2. DOMAIN messages = 1..Len(messages) /\ Len(messages) \in Nat
  OBVIOUS
<1>3. Len(terms) = Len(messages)
  BY <1>1, <1>2
<1>4. \A n \in 1..Len(messages) : terms[n] = Score(messages[n])
  BY <1>1, <1>2
<1> QED
  BY <1>1, <1>2, <1>3, <1>4, SumsRun DEF ScoreOf

\* The first k messages with n matches or more.
Often(messages, k, n) == {j \in 1..k : Matches(messages[j]) >= n}

LEMMA OftenGrows ==
    ASSUME NEW messages, NEW k \in Nat, NEW n \in Nat
    PROVE  /\ IsFiniteSet(Often(messages, k, n)) /\ Cardinality(Often(messages, k, n)) \in Nat
           /\ Cardinality(Often(messages, 0, n)) = 0
           /\ Cardinality(Often(messages, k + 1, n)) =
                 Cardinality(Often(messages, k, n))
                 + (IF Matches(messages[k + 1]) >= n THEN 1 ELSE 0)
<1>1. IsFiniteSet(1..k)
  BY FS_Interval
<1>2. Often(messages, k, n) \subseteq 1..k
  BY DEF Often
<1>3. IsFiniteSet(Often(messages, k, n))
  BY <1>1, <1>2, FS_Subset
<1>4. Cardinality(Often(messages, k, n)) \in Nat
  BY <1>3, FS_CardinalityType
<1>5. Cardinality(Often(messages, 0, n)) = 0
  <2>1. Often(messages, 0, n) = {}
    BY DEF Often
  <2> QED
    BY <2>1, FS_EmptySet
<1>6. CASE Matches(messages[k + 1]) >= n
  <2>1. Often(messages, k + 1, n) = Often(messages, k, n) \cup {k + 1}
    BY <1>6 DEF Often
  <2>2. k + 1 \notin Often(messages, k, n)
    BY DEF Often
  <2> QED
    BY <1>3, <1>4, <1>5, <1>6, <2>1, <2>2, FS_AddElement
<1>7. CASE ~(Matches(messages[k + 1]) >= n)
  <2>1. Often(messages, k + 1, n) = Often(messages, k, n)
    BY <1>7 DEF Often
  <2> QED
    BY <1>3, <1>4, <1>5, <1>7, <2>1
<1> QED
  BY <1>6, <1>7

\* Each message that matches adds 35, and 25 more if it matches twice.
LEMMA EarlyScores ==
    ASSUME NEW messages \in Seq(Message), NEW k \in 0..Len(messages)
    PROVE  /\ ScoreOf(messages)[k] \in Nat
           /\ ScoreOf(messages)[k] >= 35 * Cardinality(Often(messages, k, 1))
                                      + 25 * Cardinality(Often(messages, k, 2))
<1> DEFINE Fits(n) ==
       /\ ScoreOf(messages)[n] \in Nat
       /\ ScoreOf(messages)[n] >= 35 * Cardinality(Often(messages, n, 1))
                                  + 25 * Cardinality(Often(messages, n, 2))
       T == {n \in 0..Len(messages) : ~Fits(n)}
<1>1. SUFFICES ASSUME T # {}
               PROVE  FALSE
  OBVIOUS
<1>2. T \subseteq Nat
  OBVIOUS
<1>3. PICK n \in T : \A j \in T : n <= j
  BY <1>1, <1>2, LeastNumber
<1>4. n \in 0..Len(messages) /\ ~Fits(n)
  BY <1>3
<1>5. Fits(0)
  <2>1. Cardinality(Often(messages, 0, 1)) = 0 /\ Cardinality(Often(messages, 0, 2)) = 0
    BY OftenGrows
  <2> QED
    BY <2>1, ScoresAdd
<1>6. PICK j \in Nat : j + 1 = n /\ j \in 0..Len(messages) /\ n \in 1..Len(messages)
  <2>1. n # 0
    BY <1>4, <1>5
  <2>2. n - 1 \in Nat /\ (n - 1) + 1 = n /\ n - 1 \in 0..Len(messages) /\ n \in 1..Len(messages)
    BY <1>4, <2>1
  <2> QED
    BY <2>2
<1>7. Fits(j)
  BY <1>3, <1>6
<1>8. PICK m \in Message : m = messages[n]
  BY <1>6
<1>9. PICK once \in Nat, twice \in Nat, before \in Nat :
         /\ once = Cardinality(Often(messages, j, 1))
         /\ twice = Cardinality(Often(messages, j, 2))
         /\ before = ScoreOf(messages)[j]
  BY <1>7, OftenGrows
<1>10. before >= 35 * once + 25 * twice
  BY <1>7, <1>9
<1>11. ScoreOf(messages)[n] = before + Score(m)
  <2>1. ScoreOf(messages)[n] = ScoreOf(messages)[n - 1] + Score(messages[n])
    BY <1>6, ScoresAdd
  <2>2. n - 1 = j
    BY <1>6
  <2> QED
    BY <1>8, <1>9, <2>1, <2>2
<1>12. /\ Cardinality(Often(messages, n, 1)) = once + (IF Matches(m) >= 1 THEN 1 ELSE 0)
       /\ Cardinality(Often(messages, n, 2)) = twice + (IF Matches(m) >= 2 THEN 1 ELSE 0)
  <2>1. \A c \in Nat :
           Cardinality(Often(messages, j + 1, c)) =
              Cardinality(Often(messages, j, c)) + (IF Matches(messages[j + 1]) >= c THEN 1 ELSE 0)
    BY OftenGrows
  <2>2. j + 1 = n
    BY <1>6
  <2> QED
    BY <1>8, <1>9, <2>1, <2>2
<1>13. /\ Score(m) \in Nat /\ Matches(m) \in Nat
       /\ Matches(m) >= 1 => Score(m) >= 35
       /\ Matches(m) >= 2 => Score(m) >= 60
  <2>1. Score(m) \in Nat /\ Matches(m) \in Nat
    <3>1. Score(m) \in 0..100
      BY ScoreForm
    <3>2. Matches(m) \in Nat
      BY MatchesAreCounted
    <3>3. \A score \in 0..100 : score \in Nat
      OBVIOUS
    <3> QED
      BY <3>1, <3>2, <3>3, Zenon
  <2>2. PICK guard \in Nat, cross \in Nat, checks \in Nat :
           /\ guard = m.guard /\ cross = CrossAgentScore(m) /\ checks = Cardinality(m.checks)
    <3>1. m.guard \in 0..100 /\ Cardinality(m.checks) \in Nat
      BY MessageFacts
    <3>2. CrossAgentScore(m) \in Nat
      BY ScoreForm
    <3>3. \A score \in 0..100 : score \in Nat
      OBVIOUS
    <3> QED
      BY <3>1, <3>2, <3>3, Zenon
  <2>3. Score(m) = Least(Least(guard + cross, 100) + 35 * checks, 100)
    BY <2>2, ScoreForm
  <2>4. (cross >= 35 => Score(m) >= 35) /\ (cross >= 60 => Score(m) >= 60)
    BY <2>3 DEF Least
  <2>5. /\ Matches(m) >= 1 => cross >= 35
        /\ Matches(m) >= 2 => cross >= 60
    BY <2>2, KindsOfMessage
  <2> QED
    BY <2>1, <2>4, <2>5
<1> QED
  BY <1>4, <1>10, <1>11, <1>12, <1>13

\* A message in which nothing is found has no score, and a run of such messages none.
LEMMA NothingScores ==
    ASSUME NEW m \in Message, HitsIn(m) = 0
    PROVE  Score(m) = 0
<1>1. PICK guard \in Nat, cross \in Nat, checks \in Nat, matches \in Nat :
         /\ guard = m.guard /\ cross = CrossAgentScore(m)
         /\ checks = Cardinality(m.checks) /\ matches = Matches(m)
  <2>1. m.guard \in 0..100 /\ Cardinality(m.checks) \in Nat /\ Matches(m) \in Nat
    BY MessageFacts, MatchesAreCounted, Zenon
  <2>2. CrossAgentScore(m) \in Nat
    BY ScoreForm
  <2>3. \A n \in 0..100 : n \in Nat
    OBVIOUS
  <2> QED
    BY <2>1, <2>2, <2>3, Zenon
<1>2. Score(m) = Least(Least(guard + cross, 100) + 35 * checks, 100)
  BY <1>1, ScoreForm
<1>3. matches + checks + (IF guard = 0 THEN 0 ELSE 1) = 0
  BY <1>1 DEF HitsIn
<1>4. matches = 0 /\ checks = 0 /\ guard = 0
  BY <1>3
<1>5. cross = 0
  BY <1>1, <1>4, KindsOfMessage
<1> QED
  BY <1>2, <1>4, <1>5 DEF Least

LEMMA SilenceScores ==
    ASSUME NEW messages \in Seq(Message), NEW k \in 0..Len(messages),
           \A j \in 1..k : HitsIn(messages[j]) = 0
    PROVE  ScoreOf(messages)[k] = 0
<1> DEFINE T == {n \in 0..k : ScoreOf(messages)[n] # 0}
<1>1. SUFFICES ASSUME T # {}
               PROVE  FALSE
  OBVIOUS
<1>2. T \subseteq Nat
  OBVIOUS
<1>3. PICK n \in T : \A j \in T : n <= j
  BY <1>1, <1>2, LeastNumber
<1>4. n # 0
  BY <1>3, ScoresAdd
<1>5. n \in 1..k /\ n \in 1..Len(messages) /\ n - 1 \in 0..k /\ n - 1 \notin T
  BY <1>3, <1>4
<1>6. ScoreOf(messages)[n] = ScoreOf(messages)[n - 1] + Score(messages[n])
  BY <1>5, ScoresAdd
<1>7. ScoreOf(messages)[n - 1] = 0
  BY <1>5
<1>8. messages[n] \in Message /\ HitsIn(messages[n]) = 0
  BY <1>5
<1>9. Score(messages[n]) = 0
  BY <1>8, NothingScores
<1> QED
  BY <1>3, <1>6, <1>7, <1>9

\* Where the conversation is split: after the first two thirds.
LEMMA SplitIsInside ==
    ASSUME NEW messages \in Seq(Message), Len(messages) >= 3
    PROVE  /\ Split(messages) \in 1..Len(messages)
           /\ 3 * Split(messages) <= 2 * Len(messages)
           /\ 2 * Len(messages) < 3 * (Split(messages) + 1)
<1>1. PICK n \in Nat : n = Len(messages) /\ n >= 3
  OBVIOUS
<1>2. PICK third : third = (n * 2) \div 3
  OBVIOUS
<1>3. third \in Nat /\ third <= n /\ third >= 1 /\ 3 * third <= 2 * n /\ 2 * n < 3 * (third + 1)
  BY <1>1, <1>2
<1>4. Split(messages) = IF 1 >= third THEN 1 ELSE third
  BY <1>1, <1>2, <1>3, TheLarger DEF Split
<1>5. Split(messages) = third
  BY <1>3, <1>4
<1> QED
  BY <1>1, <1>3, <1>5

\* The early messages are those before it.
LEMMA LateIsBehind ==
    ASSUME conversation \in Seq(Message), Len(conversation) >= 3
    PROVE  /\ \A i \in DOMAIN conversation : Late(i) <=> i > Split(conversation)
           /\ {j \in DOMAIN conversation : ~Late(j)} = 1..Split(conversation)
<1>1. PICK n \in Nat : n = Len(conversation) /\ n >= 3 /\ DOMAIN conversation = 1..n
  OBVIOUS
<1>2. PICK split \in 1..n :
         split = Split(conversation) /\ 3 * split <= 2 * n /\ 2 * n < 3 * (split + 1)
  BY <1>1, SplitIsInside
<1>3. \A i \in 1..n : 3 * i > 2 * n <=> i > split
  BY <1>2
<1>4. \A i \in 1..n : Late(i) <=> i > split
  BY <1>1, <1>3 DEF Late
<1>5. {j \in 1..n : ~Late(j)} = 1..split
  BY <1>2, <1>4
<1> QED
  BY <1>1, <1>2, <1>4, <1>5

\* The three numbers of a message that its verdict rests on.
LEMMA VerdictForm ==
    ASSUME conversation \in Seq(Message), NEW i \in DOMAIN conversation
    PROVE  LET m == conversation[i]
               total == Least(Score(m) + (IF Boosted(conversation, i) THEN 15 ELSE 0), 100)
           IN /\ m \in Message /\ Score(m) \in 0..100
              /\ Verdict(i) = "allow" <=> total <= 30
              /\ Verdict(i) = "block" <=> total > 60
<1>1. PICK m \in Message : m = conversation[i]
  OBVIOUS
<1>2. PICK score : score = Score(m)
  OBVIOUS
<1>3. score \in 0..100
  BY <1>2, ScoreForm
<1>4. PICK more : more = score + (IF Boosted(conversation, i) THEN 15 ELSE 0)
  OBVIOUS
<1>5. more \in Nat
  BY <1>3, <1>4
<1>6. PICK total \in Nat : total = Least(more, 100)
  BY <1>5 DEF Least
<1>7. ConversationScore(conversation, i) = total
  BY <1>1, <1>2, <1>4, <1>5, <1>6, CappedAt DEF ConversationScore
<1>8. Verdict(i) = Recommendation(total)
  BY <1>7 DEF Verdict
<1>9. /\ Recommendation(total) = "allow" <=> total <= 30
      /\ Recommendation(total) = "block" <=> total > 60
  BY <1>6 DEF Recommendation
<1> QED
  BY <1>1, <1>2, <1>3, <1>4, <1>6, <1>8, <1>9

\* A conversation that escalates was mostly harmless.
LEMMA MostlyHarmless ==
    ASSUME NEW messages \in Seq(Message), Escalates(messages)
    PROVE  /\ Split(messages) \in Nat
           /\ 7 * Cardinality(Often(messages, Split(messages), 1)) <= 3 * Split(messages)
           /\ 4 * Cardinality(Often(messages, Split(messages), 2)) <= Split(messages)
<1>1. PICK split : split = Split(messages)
  OBVIOUS
<1>2. split \in 1..Len(messages)
  BY <1>1, SplitIsInside DEF Escalates
<1>3. PICK once \in Nat, twice \in Nat :
         /\ once = Cardinality(Often(messages, split, 1))
         /\ twice = Cardinality(Often(messages, split, 2))
  <2>1. \A n \in Nat : Cardinality(Often(messages, split, n)) \in Nat
    <3>1. split \in Nat
      BY <1>2
    <3> QED
      BY <3>1, OftenGrows
  <2> QED
    BY <2>1
<1>4. twice <= once
  <2>1. Often(messages, split, 2) \subseteq Often(messages, split, 1)
    <3>1. \A j \in 1..split : messages[j] \in Message
      BY <1>2
    <3>2. \A j \in 1..split : Matches(messages[j]) \in Nat
      BY <3>1, MatchesAreCounted
    <3> QED
      BY <3>2 DEF Often
  <2>2. IsFiniteSet(Often(messages, split, 1))
    BY <1>2, OftenGrows
  <2> QED
    BY <1>3, <2>1, <2>2, FS_Subset
<1>5. PICK sum \in Nat : sum = ScoreOf(messages)[split] /\ sum >= 35 * once + 25 * twice
  <2>1. split \in 0..Len(messages)
    BY <1>2
  <2> QED
    BY <1>3, <2>1, EarlyScores
<1>6. sum <= 15 * split
  BY <1>1, <1>5 DEF Escalates
<1>7. 7 * once <= 3 * split /\ 4 * twice <= split
  BY <1>2, <1>4, <1>5, <1>6
<1> QED
  BY <1>1, <1>2, <1>3, <1>7

LEMMA KindsAreDecided ==
    ASSUME conversation \in Seq(Message)
    PROVE  KindsDecide
<1> DEFINE early == {j \in DOMAIN conversation : ~Late(j)}
           OftenEarly(n) == Cardinality({j \in early : Matches(conversation[j]) >= n})
<1> SUFFICES ASSUME NEW i \in DOMAIN conversation, NEW m, m = conversation[i],
                    NEW split, split = Split(conversation)
             PROVE  /\ Cardinality(Kinds(m)) >= 2 => Verdict(i) = "block"
                    /\ Cardinality(Kinds(m)) = 1 => Verdict(i) # "allow"
                    /\ Cardinality(Kinds(m)) = 1 /\ m.guard = 0 /\ m.checks = {}
                          /\ Verdict(i) = "block" =>
                         /\ Matches(m) >= 2 /\ Late(i)
                         /\ 7 * OftenEarly(1) <= 3 * Cardinality(early)
                         /\ 4 * OftenEarly(2) <= Cardinality(early)
                    /\ Cardinality(Kinds(m)) = 1 /\ m.guard = 0 /\ m.checks = {}
                          /\ Matches(m) >= 2 /\ Late(i)
                          /\ (\A j \in early : HitsIn(conversation[j]) = 0) => Verdict(i) = "block"
                    /\ HitsIn(m) = 0 => Verdict(i) = "allow"
  BY Zenon DEF KindsDecide
<1>1. m \in Message /\ Score(m) \in 0..100
  BY VerdictForm
<1>2. PICK guard \in Nat, cross \in Nat, checks \in Nat, matches \in Nat :
         /\ guard = m.guard /\ cross = CrossAgentScore(m)
         /\ checks = Cardinality(m.checks) /\ matches = Matches(m)
  <2>1. m.guard \in 0..100 /\ Cardinality(m.checks) \in Nat /\ Matches(m) \in Nat
    BY <1>1, MessageFacts, MatchesAreCounted, Zenon
  <2>2. CrossAgentScore(m) \in Nat
    BY <1>1, ScoreForm
  <2>3. \A n \in 0..100 : n \in Nat
    OBVIOUS
  <2> QED
    BY <2>1, <2>2, <2>3, Zenon
<1>3. PICK score \in Nat : score = Score(m)
          /\ score = Least(Least(guard + cross, 100) + 35 * checks, 100)
  <2>1. Score(m) = Least(Least(guard + cross, 100) + 35 * checks, 100)
    BY <1>1, <1>2, ScoreForm
  <2>2. Least(Least(guard + cross, 100) + 35 * checks, 100) \in Nat
    BY DEF Least
  <2> QED
    BY <2>1, <2>2
<1>4. PICK boost \in {0, 15} :
         boost = IF Boosted(conversation, i) THEN 15 ELSE 0
  OBVIOUS
<1>5. /\ Verdict(i) = "allow" <=> Least(score + boost, 100) <= 30
      /\ Verdict(i) = "block" <=> Least(score + boost, 100) > 60
  BY <1>3, <1>4, VerdictForm
<1>6. boost = 15 => Escalates(conversation) /\ i > split /\ score > 20
  BY <1>3, <1>4 DEF Boosted
<1>7. /\ Cardinality(Kinds(m)) >= 2 => cross >= 70
      /\ Cardinality(Kinds(m)) = 1 => cross = Worth(matches) /\ matches >= 1
      /\ matches = 0 => cross = 0
  BY <1>1, <1>2, KindsOfMessage
<1>8. /\ cross >= 70 => score >= 70
      /\ cross >= 35 => score >= 35
      /\ guard = 0 /\ checks = 0 => score = Least(cross, 100)
  BY <1>3 DEF Least
<1>9. Cardinality(Kinds(m)) >= 2 => Verdict(i) = "block"
  BY <1>5, <1>7, <1>8 DEF Least
<1>10. Cardinality(Kinds(m)) = 1 => Verdict(i) # "allow"
  BY <1>5, <1>7, <1>8 DEF Least, Worth
<1>11. ASSUME Cardinality(Kinds(m)) = 1, m.guard = 0, m.checks = {}, Verdict(i) = "block"
       PROVE  /\ Matches(m) >= 2 /\ Late(i)
              /\ 7 * OftenEarly(1) <= 3 * Cardinality(early)
              /\ 4 * OftenEarly(2) <= Cardinality(early)
  <2>1. guard = 0 /\ checks = 0
    BY <1>2, <1>11, FS_EmptySet
  <2>2. score = Least(Worth(matches), 100) /\ matches >= 1
    BY <1>7, <1>8, <1>11, <2>1
  <2>3. Least(score + boost, 100) > 60
    BY <1>5, <1>11
  <2>4. matches >= 2 /\ boost = 15
    BY <2>2, <2>3 DEF Least, Worth
  <2>5. Escalates(conversation) /\ i > split
    BY <1>6, <2>4
  <2>6. Late(i) /\ early = 1..split /\ split \in Nat
    BY <2>5, LateIsBehind, SplitIsInside DEF Escalates
  <2>7. Cardinality(1..split) = split
    BY <2>6, FS_Interval
  <2>8. \A n \in Nat : OftenEarly(n) = Cardinality(Often(conversation, split, n))
    BY <2>6 DEF Often
  <2> QED
    BY <1>2, <2>4, <2>5, <2>6, <2>7, <2>8, MostlyHarmless
\* Nothing before: the average is 0, and 15 more than 60 blocks.
<1>13. ASSUME Cardinality(Kinds(m)) = 1, m.guard = 0, m.checks = {}, Matches(m) >= 2, Late(i),
              \A j \in early : HitsIn(conversation[j]) = 0
       PROVE  Verdict(i) = "block"
  <2>1. guard = 0 /\ checks = 0
    BY <1>2, <1>13, FS_EmptySet
  <2>2. score = 60
    BY <1>2, <1>7, <1>8, <1>13, <2>1 DEF Least, Worth
  <2>3. Len(conversation) >= 3
    BY <1>13 DEF Late
  <2>4. i > split /\ early = 1..split /\ split \in 1..Len(conversation)
    BY <1>13, <2>3, LateIsBehind, SplitIsInside
  <2>5. ScoreOf(conversation)[split] = 0
    BY <1>13, <2>4, SilenceScores
  <2>6. Boosted(conversation, i)
    BY <1>3, <2>2, <2>3, <2>4, <2>5 DEF Boosted, Escalates
  <2> QED
    BY <1>4, <1>5, <2>2, <2>6 DEF Least
<1>12. ASSUME HitsIn(m) = 0
       PROVE  Verdict(i) = "allow"
  <2>1. matches + checks + (IF guard = 0 THEN 0 ELSE 1) = 0
    BY <1>2, <1>12 DEF HitsIn
  <2>2. matches = 0 /\ checks = 0 /\ guard = 0
    BY <2>1
  <2>3. score = 0
    BY <1>7, <1>8, <2>2 DEF Least
  <2>4. boost = 0
    BY <1>6, <2>3
  <2> QED
    BY <1>5, <2>3, <2>4 DEF Least
<1> QED
  BY <1>9, <1>10, <1>11, <1>12, <1>13

\* The verdicts of the message scanner, in a conversation of any length and whatever scores
\* Guard gives: two kinds of cross-agent content block, one asks for sanitizing, and blocks
\* by itself only late in a conversation that was mostly harmless; and what holds nothing
\* passes.
THEOREM VerdictsFollowKinds == ConversationSpec => []KindsDecide
<1>1. ConversationInit => ConversationInv
  BY ConversationFirst DEF ConversationInv
<1>2. ConversationInv /\ [ConversationNext]_conversation => ConversationInv'
  BY ConversationSteps DEF ConversationInv
<1>3. ConversationInv => KindsDecide
  BY KindsAreDecided DEF ConversationInv
<1> QED
  BY <1>1, <1>2, <1>3, PTL DEF ConversationSpec

----------------------------------------------------------------------------
(* The types of a conversation.                                             *)

LEMMA SumsAreNumbers ==
    ASSUME NEW terms \in Seq(Nat)
    PROVE  \A n \in 0..Len(terms) : RunningSum(terms)[n] \in Nat
<1> DEFINE T == {n \in 0..Len(terms) : RunningSum(terms)[n] \notin Nat}
<1>1. SUFFICES ASSUME T # {}
               PROVE  FALSE
  OBVIOUS
<1>2. PICK n \in T : \A k \in T : n <= k
  BY <1>1, T \subseteq Nat, LeastNumber
<1>3. n # 0
  BY <1>2, SumsRun
<1>4. n \in 1..Len(terms) /\ n - 1 \in 0..Len(terms) /\ n - 1 \notin T
  BY <1>2, <1>3
<1>5. RunningSum(terms)[n - 1] \in Nat /\ terms[n] \in Nat
  BY <1>4
<1>6. RunningSum(terms)[n] = RunningSum(terms)[n - 1] + terms[n]
  BY <1>4, SumsRun
<1>7. RunningSum(terms)[n] \in Nat
  BY <1>5, <1>6
<1> QED
  BY <1>2, <1>7

\* One more in one of the terms is one more from there on.
LEMMA SumsStep ==
    ASSUME NEW terms \in Seq(Nat), NEW more \in Seq(Nat), Len(more) = Len(terms),
           NEW i \in 1..Len(terms), more[i] = terms[i] + 1,
           \A k \in 1..Len(terms) : k # i => more[k] = terms[k]
    PROVE  SumOf(more) = SumOf(terms) + 1
<1> DEFINE Wanted(n) == RunningSum(terms)[n] + (IF n < i THEN 0 ELSE 1)
           T == {n \in 0..Len(terms) : RunningSum(more)[n] # Wanted(n)}
<1>1. T = {}
  <2>1. SUFFICES ASSUME T # {}
                 PROVE  FALSE
    OBVIOUS
  <2>2. PICK n \in T : \A k \in T : n <= k
    BY <2>1, T \subseteq Nat, LeastNumber
  <2>3. n # 0
    BY <2>2, SumsRun
  <2>4. n \in 1..Len(terms) /\ n - 1 \in 0..Len(terms) /\ n - 1 \notin T
    BY <2>2, <2>3
  <2>5. PICK before \in Nat, term \in Nat :
           /\ before = RunningSum(terms)[n - 1] /\ term = terms[n]
           /\ RunningSum(terms)[n] = before + term
    <3>1. RunningSum(terms)[n - 1] \in Nat
      BY <2>4, SumsAreNumbers
    <3>2. RunningSum(terms)[n] = RunningSum(terms)[n - 1] + terms[n]
      <4>1. Len(terms) \in Nat
        OBVIOUS
      <4> QED
        BY <2>4, <4>1, SumsRun
    <3>3. terms[n] \in Nat
      BY <2>4
    <3> QED
      BY <3>1, <3>2, <3>3
  <2>6. RunningSum(more)[n - 1] = before + (IF n - 1 < i THEN 0 ELSE 1)
    BY <2>4, <2>5
  <2>7. RunningSum(more)[n] = RunningSum(more)[n - 1] + more[n]
    BY <2>4, SumsRun
  <2>8. more[n] = IF n = i THEN term + 1 ELSE term
    BY <2>4, <2>5
  <2>9. RunningSum(more)[n] = before + term + (IF n < i THEN 0 ELSE 1)
    BY <2>4, <2>6, <2>7, <2>8
  <2> QED
    BY <2>2, <2>5, <2>9
<1>2. Len(terms) \in 0..Len(terms)
  OBVIOUS
<1>3. RunningSum(more)[Len(terms)] = RunningSum(terms)[Len(terms)] + 1
  <2>1. RunningSum(more)[Len(terms)] = Wanted(Len(terms))
    BY <1>1, <1>2
  <2>2. ~(Len(terms) < i)
    OBVIOUS
  <2> QED
    BY <2>1, <2>2
<1>4. SumOf(more) = RunningSum(more)[Len(terms)]
  BY Zenon DEF SumOf
<1>5. SumOf(terms) = RunningSum(terms)[Len(terms)]
  BY Zenon DEF SumOf
<1> QED
  BY <1>3, <1>4, <1>5, Zenon

\* A term of 0 at the end adds nothing.
LEMMA SumsEnd ==
    ASSUME NEW terms \in Seq(Nat)
    PROVE  SumOf(Append(terms, 0)) = SumOf(terms)
<1> DEFINE more == Append(terms, 0)
           T == {n \in 0..Len(terms) : RunningSum(more)[n] # RunningSum(terms)[n]}
<1>0. /\ more \in Seq(Nat) /\ Len(more) = Len(terms) + 1 /\ more[Len(terms) + 1] = 0
      /\ \A n \in 1..Len(terms) : more[n] = terms[n]
  OBVIOUS
<1> HIDE DEF more
<1>1. T = {}
  <2>1. SUFFICES ASSUME T # {}
                 PROVE  FALSE
    OBVIOUS
  <2>2. PICK n \in T : \A k \in T : n <= k
    BY <2>1, T \subseteq Nat, LeastNumber
  <2>3. n # 0
    BY <1>0, <2>2, SumsRun
  <2>4. n \in 1..Len(terms) /\ n \in 1..Len(more) /\ n - 1 \in 0..Len(terms) /\ n - 1 \notin T
    BY <1>0, <2>2, <2>3
  <2>5. RunningSum(more)[n] = RunningSum(more)[n - 1] + more[n]
    <3>1. Len(more) \in Nat
      BY <1>0
    <3> QED
      BY <2>4, <3>1, SumsRun
  <2>6. RunningSum(terms)[n] = RunningSum(terms)[n - 1] + terms[n]
    <3>1. Len(terms) \in Nat
      OBVIOUS
    <3> QED
      BY <2>4, <3>1, SumsRun
  <2> QED
    BY <1>0, <2>2, <2>4, <2>5, <2>6
<1>2. RunningSum(more)[Len(terms)] = RunningSum(terms)[Len(terms)]
      /\ RunningSum(terms)[Len(terms)] \in Nat
  BY <1>1, SumsAreNumbers
<1>3. RunningSum(more)[Len(terms) + 1] = RunningSum(more)[Len(terms)] + 0
  <2>1. Len(terms) + 1 \in 1..Len(more) /\ (Len(terms) + 1) - 1 = Len(terms)
    BY <1>0
  <2>2. RunningSum(more)[Len(terms) + 1]
          = RunningSum(more)[(Len(terms) + 1) - 1] + more[Len(terms) + 1]
    BY <1>0, <2>1, SumsRun
  <2> QED
    BY <1>0, <2>1, <2>2
<1>4. RunningSum(more)[Len(terms) + 1] = RunningSum(terms)[Len(terms)]
  BY <1>2, <1>3
<1> QED
  BY <1>0, <1>4 DEF SumOf, more

LEMMA PatternsAreNumbered ==
    ASSUME NEW category
    PROVE  PatternsIn(category) \in Nat
<1>1. PICK lists : lists = ALL_CROSS_AGENT_PATTERNS
  OBVIOUS
<1>2. /\ DOMAIN lists = 1..10
      /\ \A l \in 1..10 : lists[l].size \in Nat
  BY <1>1 DEF ALL_CROSS_AGENT_PATTERNS, Listed, DELEGATION_PATTERNS,
     PRIVILEGE_ESCALATION_PATTERNS, AGENT_EXFIL_PATTERNS, HIDDEN_INSTRUCTION_PATTERNS,
     SELF_REPLICATION_PATTERNS, COLLUSION_PATTERNS, AGENT_CARD_POISONING_PATTERNS,
     SESSION_FABRICATION_PATTERNS, CHAT_TEMPLATE_INJECTION_PATTERNS, SAFETY_SPOOF_PATTERNS
<1>3. PICK terms : terms = [l \in PatternLists |-> SizeIn(ALL_CROSS_AGENT_PATTERNS[l], category)]
  OBVIOUS
<1>4. terms = [l \in 1..10 |-> SizeIn(lists[l], category)]
  BY <1>1, <1>2, <1>3 DEF PatternLists
<1>5. \A l \in 1..10 : SizeIn(lists[l], category) \in Nat
  BY <1>2 DEF SizeIn
<1>6. terms \in Seq(Nat) /\ Len(terms) = 10
  BY <1>4, <1>5
<1>7. Len(terms) \in 0..Len(terms)
  BY <1>6
<1> QED
  BY <1>3, <1>6, <1>7, SumsAreNumbers DEF PatternsIn, SumOf

LEMMA HitsAreNumbers ==
    ASSUME NEW m \in Message
    PROVE  HitsIn(m) \in Nat
<1>1. Matches(m) \in Nat /\ Cardinality(m.checks) \in Nat
  BY MatchesAreCounted, MessageFacts, Zenon
<1> QED
  BY <1>1 DEF HitsIn

HitsList(messages) == [i \in DOMAIN messages |-> HitsIn(messages[i])]

LEMMA HitsListed ==
    ASSUME NEW messages \in Seq(Message)
    PROVE  /\ HitsList(messages) \in Seq(Nat) /\ Len(HitsList(messages)) = Len(messages)
           /\ \A i \in 1..Len(messages) : HitsList(messages)[i] = HitsIn(messages[i])
           /\ HitsOf(messages) = SumOf(HitsList(messages)) /\ HitsOf(messages) \in Nat
<1>1. DOMAIN messages = 1..Len(messages) /\ Len(messages) \in Nat
      /\ \A i \in 1..Len(messages) : messages[i] \in Message
  OBVIOUS
<1>2. \A i \in 1..Len(messages) : HitsIn(messages[i]) \in Nat
  BY <1>1, HitsAreNumbers
<1>3. HitsList(messages) = [i \in 1..Len(messages) |-> HitsIn(messages[i])]
  BY <1>1 DEF HitsList
<1>4. /\ HitsList(messages) \in Seq(Nat) /\ Len(HitsList(messages)) = Len(messages)
      /\ \A i \in 1..Len(messages) : HitsList(messages)[i] = HitsIn(messages[i])
  BY <1>1, <1>2, <1>3
<1>5. HitsOf(messages) = SumOf(HitsList(messages))
  BY DEF HitsOf, HitsList
<1>6. Len(HitsList(messages)) \in 0..Len(HitsList(messages))
  BY <1>1, <1>4
<1>7. SumOf(HitsList(messages)) \in Nat
  BY <1>4, <1>6, SumsAreNumbers DEF SumOf
<1> QED
  BY <1>4, <1>5, <1>7

ConversationTypes == conversation \in Seq(Message) /\ ConversationTypeOK

LEMMA ConversationTypedFirst ==
    ASSUME ConversationInit
    PROVE  ConversationTypes
<1>1. conversation \in Seq(Message) /\ conversation = << >>
  BY DEF ConversationInit
<1>2. HitsOf(conversation) = 0
  <2>1. HitsOf(conversation) = RunningSum(HitsList(conversation))[0]
    BY <1>1, HitsListed DEF SumOf
  <2> QED
    BY <1>1, <2>1, HitsListed, SumsRun
<1> QED
  BY <1>1, <1>2, ConversationAssumption DEF ConversationTypes, ConversationTypeOK

LEMMA FindTyped ==
    ASSUME ConversationTypes, NEW i \in DOMAIN conversation, NEW longer, IsMessage(longer),
           Find(i, longer)
    PROVE  ConversationTypes'
<1>1. PICK before \in Seq(Message) : before = conversation
  BY DEF ConversationTypes
<1>2. i \in 1..Len(before) /\ longer \in Message
  BY <1>1 DEF IsMessage
<1>3. PICK after : after = [before EXCEPT ![i] = longer]
  OBVIOUS
<1>4. /\ after \in Seq(Message) /\ Len(after) = Len(before) /\ after[i] = longer
      /\ \A k \in 1..Len(before) : k # i => after[k] = before[k]
  BY <1>2, <1>3
<1>5. conversation' = after
  BY <1>1, <1>3 DEF Find
<1>6. HitsOf(after) = HitsOf(before) + 1
  <2>1. HitsIn(longer) = HitsIn(before[i]) + 1
    BY <1>1 DEF Find
  <2>2. PICK terms \in Seq(Nat), more \in Seq(Nat) :
           terms = HitsList(before) /\ more = HitsList(after)
    BY <1>4, HitsListed
  <2>3. /\ Len(terms) = Len(before) /\ Len(more) = Len(before)
        /\ \A k \in 1..Len(before) : terms[k] = HitsIn(before[k]) /\ more[k] = HitsIn(after[k])
    BY <1>4, <2>2, HitsListed
  <2>4. more[i] = terms[i] + 1 /\ \A k \in 1..Len(terms) : k # i => more[k] = terms[k]
    BY <1>2, <1>4, <2>1, <2>3
  <2>5. SumOf(more) = SumOf(terms) + 1
    BY <1>2, <2>3, <2>4, SumsStep
  <2> QED
    BY <1>4, <2>2, <2>5, HitsListed
<1>7. HitsOf(after) <= MaxFinds
  <2>1. HitsOf(before) \in Nat /\ HitsOf(before) < MaxFinds /\ MaxFinds \in Nat
    BY <1>1, HitsListed, ConversationAssumption DEF Find
  <2> QED
    BY <1>6, <2>1
<1>8. \A k \in DOMAIN after : IsMessage(after[k])
  BY <1>1, <1>4 DEF ConversationTypes, ConversationTypeOK
<1>9. Len(after) <= MaxMessages
  BY <1>1, <1>4 DEF ConversationTypes, ConversationTypeOK
<1> QED
  BY <1>4, <1>5, <1>7, <1>8, <1>9 DEF ConversationTypes, ConversationTypeOK

LEMMA SendTyped ==
    ASSUME ConversationTypes, NEW type \in DOMAIN TypeChecks, Send(type)
    PROVE  ConversationTypes'
<1>1. PICK before \in Seq(Message) : before = conversation
  BY DEF ConversationTypes
<1>2. PICK m : m = [type |-> type, guard |-> 0, checks |-> {},
                    matched |-> [c \in RiskTypes |-> 0]]
  OBVIOUS
<1>3. m \in Message /\ m.checks = {} /\ m.guard = 0
      /\ \A c \in RiskTypes : m.matched[c] = 0
  BY <1>2 DEF Message
<1>4. IsMessage(m)
  BY <1>3, PatternsAreNumbered DEF IsMessage
<1>5. HitsIn(m) = 0
  <2>1. Matches(m) = 0
    BY <1>3, MessageFacts, ThreeKinds
  <2> QED
    BY <1>3, <2>1, FS_EmptySet DEF HitsIn
<1>6. PICK after : after = Append(before, m)
  OBVIOUS
<1>7. /\ after \in Seq(Message) /\ Len(after) = Len(before) + 1 /\ after[Len(before) + 1] = m
      /\ \A k \in 1..Len(before) : after[k] = before[k]
  BY <1>3, <1>6
<1>8. conversation' = after
  BY <1>1, <1>2, <1>6 DEF Send
<1>9. HitsOf(after) = HitsOf(before)
  <2>1. PICK terms \in Seq(Nat), more \in Seq(Nat) :
           terms = HitsList(before) /\ more = HitsList(after)
    BY <1>7, HitsListed
  <2>2. /\ Len(terms) = Len(before) /\ Len(more) = Len(before) + 1
        /\ \A k \in 1..Len(before) : terms[k] = HitsIn(before[k])
        /\ \A k \in 1..Len(after) : more[k] = HitsIn(after[k])
    BY <1>7, <2>1, HitsListed
  <2>3. more[Len(before) + 1] = 0 /\ \A k \in 1..Len(before) : more[k] = terms[k]
    BY <1>5, <1>7, <2>2
  <2>4. more = Append(terms, 0)
    BY <2>2, <2>3
  <2> QED
    BY <1>7, <2>1, <2>4, HitsListed, SumsEnd
<1>10. \A k \in DOMAIN after : IsMessage(after[k])
  BY <1>1, <1>4, <1>7 DEF ConversationTypes, ConversationTypeOK
<1>11. Len(after) <= MaxMessages
  <2>1. Len(before) < MaxMessages /\ Len(before) \in Nat /\ MaxMessages \in Nat
    BY <1>1, ConversationAssumption DEF Send
  <2> QED
    BY <1>7, <2>1
<1>12. HitsOf(after) <= MaxFinds
  BY <1>1, <1>9 DEF ConversationTypes, ConversationTypeOK
<1> QED
  BY <1>7, <1>8, <1>10, <1>11, <1>12 DEF ConversationTypes, ConversationTypeOK

LEMMA ConversationTyped ==
    ASSUME ConversationTypes, [ConversationNext]_conversation
    PROVE  ConversationTypes'
<1>0. \A i \in DOMAIN conversation : IsMessage(conversation[i])
  BY DEF ConversationTypes, ConversationTypeOK
<1>1. ASSUME NEW i \in DOMAIN conversation, NEW found \in GuardFinds,
             Find(i, [conversation[i] EXCEPT !.guard = found])
      PROVE  ConversationTypes'
  <2>1. PICK m : m = conversation[i] /\ IsMessage(m)
    BY <1>0
  <2>2. IsMessage([m EXCEPT !.guard = found])
    BY <2>1 DEF IsMessage, Message
  <2> QED
    BY <1>1, <2>1, <2>2, FindTyped
<1>2. ASSUME NEW i \in DOMAIN conversation, NEW c \in RiskTypes,
             conversation[i].matched[c] < PatternsIn(c),
             Find(i, [conversation[i] EXCEPT !.matched[c] = @ + 1])
      PROVE  ConversationTypes'
  <2>1. PICK m : m = conversation[i] /\ IsMessage(m)
    BY <1>0
  <2>2. PICK more : more = [m.matched EXCEPT ![c] = @ + 1]
    OBVIOUS
  <2>3. m \in Message /\ m.checks \subseteq TypeChecks[m.type]
        /\ \A k \in RiskTypes : m.matched[k] <= PatternsIn(k)
    BY <2>1 DEF IsMessage
  <2>4. m.matched \in [RiskTypes -> Nat]
    BY <2>3 DEF Message
  <2>5. more \in [RiskTypes -> Nat] /\ \A k \in RiskTypes : more[k] <= PatternsIn(k)
    BY <1>2, <2>1, <2>2, <2>3, <2>4, PatternsAreNumbered
  <2>6. PICK longer : longer = [m EXCEPT !.matched = more]
    OBVIOUS
  <2>7. longer \in Message /\ longer.checks = m.checks /\ longer.type = m.type
        /\ longer.matched = more
    BY <2>3, <2>5, <2>6 DEF Message
  <2>8. IsMessage(longer)
    BY <2>3, <2>5, <2>7 DEF IsMessage
  <2>9. [m EXCEPT !.matched[c] = @ + 1] = longer
    BY <2>2, <2>6
  <2> QED
    BY <1>2, <2>1, <2>8, <2>9, FindTyped
<1>3. ASSUME NEW i \in DOMAIN conversation, NEW c \in TypeChecks[conversation[i].type],
             Find(i, [conversation[i] EXCEPT !.checks = @ \cup {c}])
      PROVE  ConversationTypes'
  <2>1. PICK m : m = conversation[i] /\ IsMessage(m)
    BY <1>0
  <2>2. PICK all : all = UNION {TypeChecks[t] : t \in DOMAIN TypeChecks}
    OBVIOUS
  <2>3. m \in Message /\ m.type \in DOMAIN TypeChecks /\ m.checks \subseteq TypeChecks[m.type]
        /\ \A k \in RiskTypes : m.matched[k] <= PatternsIn(k)
    BY <2>1 DEF IsMessage, Message
  <2>4. m.checks \cup {c} \subseteq TypeChecks[m.type] /\ TypeChecks[m.type] \subseteq all
    BY <1>3, <2>1, <2>2, <2>3
  <2>5. PICK longer : longer = [m EXCEPT !.checks = @ \cup {c}]
    OBVIOUS
  <2>6. longer \in Message /\ longer.checks = m.checks \cup {c} /\ longer.type = m.type
        /\ longer.matched = m.matched
    BY <2>2, <2>3, <2>4, <2>5 DEF Message
  <2>7. IsMessage(longer)
    BY <2>3, <2>4, <2>6 DEF IsMessage
  <2> QED
    BY <1>3, <2>1, <2>5, <2>7, FindTyped
<1>4. CASE UNCHANGED conversation
  BY <1>4 DEF ConversationTypes, ConversationTypeOK
<1> QED
  BY <1>1, <1>2, <1>3, <1>4, SendTyped DEF ConversationNext

LEMMA ConversationHolds == ConversationSpec => []ConversationTypes
<1>1. ConversationTypes /\ [ConversationNext]_conversation => ConversationTypes'
  BY ConversationTyped
<1> QED
  BY ConversationTypedFirst, <1>1, PTL DEF ConversationSpec

----------------------------------------------------------------------------
(* The scorers of a text.                                                   *)

\* What a layer finds is where it looks: the length heuristic in Guard, the decoders and
\* the corpus in scan.
ScreeningInv ==
    /\ asked \in DOMAIN Lists /\ topic \in CategoriesOf(asked)
    /\ text \in Text(asked, topic)
    /\ text.flood => asked \in Guarded
    /\ text.hidden # << >> => asked \in Scanned
    /\ text.alike # {} => asked \in Scanned /\ \E score \in 1..100 : text.alike = {score}

LEMMA ScreeningFirst ==
    ASSUME ScreeningInit
    PROVE  ScreeningInv
<1>1. text = [plain |-> << >>, hidden |-> << >>, rules |-> << >>, alike |-> {}, flood |-> FALSE]
  BY DEF ScreeningInit
<1>2. text \in Text(asked, topic)
  BY <1>1 DEF Text
<1> QED
  BY <1>1, <1>2 DEF ScreeningInit, ScreeningInv

LEMMA Extending ==
    ASSUME ScreeningInv, NEW longer, Extend(longer), longer \in Text(asked, topic),
           longer.flood => asked \in Guarded,
           longer.hidden # << >> => asked \in Scanned,
           longer.alike # {} => asked \in Scanned /\ \E score \in 1..100 : longer.alike = {score}
    PROVE  ScreeningInv'
<1>1. text' = longer /\ asked' = asked /\ topic' = topic
  BY DEF Extend
<1>2. Text(asked, topic)' = Text(asked, topic)
  BY <1>1 DEF Text, PatternsOf
<1>3. CategoriesOf(asked)' = CategoriesOf(asked)
  BY <1>1 DEF CategoriesOf
<1> QED
  BY <1>1, <1>2, <1>3 DEF ScreeningInv, Guarded, Scanned

LEMMA ScreeningSteps ==
    ASSUME ScreeningInv, [ScreeningNext]_screening
    PROVE  ScreeningInv'
<1>0. PICK t \in Text(asked, topic) : t = text
  BY DEF ScreeningInv
<1>1. /\ t.plain \in Seq(PatternsOf(asked, topic)) /\ t.hidden \in Seq(PatternsOf(asked, topic))
      /\ t.rules \in Seq(RuleIds) /\ t.alike \in SUBSET (0..100) /\ t.flood \in BOOLEAN
  BY DEF Text
<1>2. ASSUME NEW i \in PatternsOf(asked, topic), Extend([text EXCEPT !.plain = Append(@, i)])
      PROVE  ScreeningInv'
  <2>1. Append(t.plain, i) \in Seq(PatternsOf(asked, topic))
    BY <1>1
  <2>2. PICK u : u = [t EXCEPT !.plain = Append(t.plain, i)]
    OBVIOUS
  <2>3. u \in Text(asked, topic) /\ u.hidden = t.hidden /\ u.alike = t.alike /\ u.flood = t.flood
    BY <2>1, <2>2 DEF Text
  <2>4. Extend(u)
    BY <1>0, <1>2, <2>2
  <2> QED
    BY <1>0, <2>3, <2>4, Extending DEF ScreeningInv
<1>3. ASSUME NEW i \in RuleIds, Extend([text EXCEPT !.rules = Append(@, i)])
      PROVE  ScreeningInv'
  <2>1. Append(t.rules, i) \in Seq(RuleIds)
    BY <1>1
  <2>2. PICK u : u = [t EXCEPT !.rules = Append(t.rules, i)]
    OBVIOUS
  <2>3. u \in Text(asked, topic) /\ u.hidden = t.hidden /\ u.alike = t.alike /\ u.flood = t.flood
    BY <2>1, <2>2 DEF Text
  <2>4. Extend(u)
    BY <1>0, <1>3, <2>2
  <2> QED
    BY <1>0, <2>3, <2>4, Extending DEF ScreeningInv
<1>4. CASE Resemble
  <2>1. PICK score \in ATTACK_CORPUS[topic] : Extend([text EXCEPT !.alike = {score}])
    BY <1>4 DEF Resemble
  <2>2. asked \in Scanned /\ topic \in DOMAIN ATTACK_CORPUS
    BY <1>4 DEF Resemble, Scanned
  <2>3. score \in 1..100
    <3>1. \A c \in DOMAIN ATTACK_CORPUS : ATTACK_CORPUS[c] \subseteq 1..100
      BY DEF ATTACK_CORPUS
    <3> QED
      BY <2>2, <3>1
  <2>4. PICK u : u = [t EXCEPT !.alike = {score}]
    OBVIOUS
  <2>5. u \in Text(asked, topic) /\ u.hidden = t.hidden /\ u.alike = {score} /\ u.flood = t.flood
    <3>1. {score} \in SUBSET (0..100)
      BY <2>3
    <3> QED
      BY <2>4, <3>1 DEF Text
  <2>6. Extend(u)
    BY <1>0, <2>1, <2>4
  <2> QED
    BY <1>0, <2>2, <2>3, <2>5, <2>6, Extending DEF ScreeningInv
<1>5. CASE Hide
  <2>1. PICK i \in PatternsOf(asked, topic) : Extend([text EXCEPT !.hidden = Append(@, i)])
    BY <1>5 DEF Hide
  <2>2. Append(t.hidden, i) \in Seq(PatternsOf(asked, topic))
    BY <1>1
  <2>3. PICK u : u = [t EXCEPT !.hidden = Append(t.hidden, i)]
    OBVIOUS
  <2>4. u \in Text(asked, topic) /\ u.alike = t.alike /\ u.flood = t.flood
    BY <2>2, <2>3 DEF Text
  <2>5. Extend(u) /\ asked \in Scanned
    BY <1>0, <1>5, <2>1, <2>3 DEF Hide
  <2> QED
    BY <1>0, <2>4, <2>5, Extending DEF ScreeningInv
<1>6. CASE Flood
  <2>1. PICK u : u = [t EXCEPT !.flood = TRUE]
    OBVIOUS
  <2>2. u \in Text(asked, topic) /\ u.hidden = t.hidden /\ u.alike = t.alike
    BY <2>1 DEF Text
  <2>3. Extend(u) /\ asked \in Guarded
    BY <1>0, <1>6, <2>1 DEF Flood
  <2> QED
    BY <1>0, <2>2, <2>3, Extending DEF ScreeningInv
<1>7. CASE UNCHANGED screening
  BY <1>7 DEF screening, ScreeningInv, Text, PatternsOf, CategoriesOf, Guarded, Scanned
<1> QED
  BY <1>2, <1>3, <1>4, <1>5, <1>6, <1>7 DEF ScreeningNext

----------------------------------------------------------------------------
\* What the loop adds.

AScore == [Categories -> Nat]
IsMatch(m) == m.category \in Categories /\ m.base \in 1..100

\* A score has one of the bases behind it, and is at most twice it; or there is none.
Within(score, bases) ==
    (bases = {} /\ score = 0) \/ \E b \in bases : b <= score /\ score <= 2 * b

LEMMA AddIsWithin ==
    ASSUME NEW scores \in AScore, NEW c \in Categories, NEW b \in 1..100
    PROVE  /\ Add(scores, c, b) \in AScore
           /\ b <= Add(scores, c, b)[c] /\ Add(scores, c, b)[c] <= 2 * b
           /\ \A d \in Categories \ {c} : Add(scores, c, b)[d] = scores[d]
<1>1. PICK n \in Nat : n = scores[c]
  BY DEF AScore
<1>2. PICK x : x = ScoreSets!Min({n + b, 2 * b})
  OBVIOUS
<1>3. x \in {n + b, 2 * b} /\ x <= n + b /\ x <= 2 * b
  <2>1. x = CHOOSE y \in {n + b, 2 * b} : \A z \in {n + b, 2 * b} : y <= z
    BY <1>2 DEF ScoreSets!Min
  <2>2. \E y \in {n + b, 2 * b} : \A z \in {n + b, 2 * b} : y <= z
    OBVIOUS
  <2> QED
    BY <2>1, <2>2
<1>4. x \in Nat /\ b <= x /\ x <= 2 * b
  BY <1>3
<1>5. Add(scores, c, b) = [scores EXCEPT ![c] = x]
  BY <1>1, <1>2 DEF Add
<1> QED
  BY <1>4, <1>5 DEF AScore

\* What AddAll counts up to, after the matches up to end.
Adding(acc, scores, matches, counted, end) ==
    acc = [n \in 0..end |->
              IF n = 0 THEN scores
              ELSE IF n \in counted THEN Add(acc[n - 1], matches[n].category, matches[n].base)
              ELSE acc[n - 1]]

LEMMA AddingExists ==
    ASSUME NEW scores, NEW matches, NEW counted, NEW len \in Nat
    PROVE  \E acc : Adding(acc, scores, matches, counted, len)
<1> DEFINE T == {end \in 0..len : ~ \E acc : Adding(acc, scores, matches, counted, end)}
<1>1. SUFFICES ASSUME T # {}
               PROVE  FALSE
  <2>1. len \in 0..len
    OBVIOUS
  <2> QED
    BY <2>1
<1>2. T \subseteq Nat
  OBVIOUS
<1>3. PICK end \in T : \A n \in T : end <= n
  BY <1>1, <1>2, LeastNumber
<1>4. end \in 0..len /\ ~ \E acc : Adding(acc, scores, matches, counted, end)
  BY <1>3
<1>5. end # 0
  <2> DEFINE acc == [n \in 0..0 |-> scores]
  <2>1. Adding(acc, scores, matches, counted, 0)
    BY DEF Adding
  <2> QED
    BY <1>4, <2>1
<1>6. end - 1 \in 0..len /\ end - 1 \notin T
  BY <1>3, <1>4, <1>5
<1>7. PICK acc : Adding(acc, scores, matches, counted, end - 1)
  BY <1>6
<1>8. PICK last : last = IF end \in counted
                         THEN Add(acc[end - 1], matches[end].category, matches[end].base)
                         ELSE acc[end - 1]
  OBVIOUS
<1> DEFINE longer == [n \in 0..end |-> IF n = end THEN last ELSE acc[n]]
<1>9. \A n \in 0..(end - 1) : longer[n] = acc[n]
  BY <1>4
<1>10. \A n \in 0..end :
         longer[n] = IF n = 0 THEN scores
                     ELSE IF n \in counted
                     THEN Add(longer[n - 1], matches[n].category, matches[n].base)
                     ELSE longer[n - 1]
  <2>1. TAKE n \in 0..end
  <2>2. CASE n = end
    <3>1. end - 1 \in 0..(end - 1)
      BY <1>4, <1>5
    <3>2. longer[n - 1] = acc[end - 1] /\ longer[n] = last
      BY <1>9, <2>1, <2>2, <3>1
    <3> HIDE DEF longer
    <3> QED
      BY <1>5, <1>8, <2>2, <3>2
  <2>3. CASE n # end
    <3>1. n \in 0..(end - 1) /\ (n # 0 => n - 1 \in 0..(end - 1))
      BY <1>4, <2>1, <2>3
    <3>2. acc[n] = IF n = 0 THEN scores
                   ELSE IF n \in counted
                   THEN Add(acc[n - 1], matches[n].category, matches[n].base)
                   ELSE acc[n - 1]
      BY <1>7, <3>1 DEF Adding
    <3>3. longer[n] = acc[n] /\ (n # 0 => longer[n - 1] = acc[n - 1])
      BY <1>9, <3>1
    <3> HIDE DEF longer
    <3> QED
      BY <3>2, <3>3
  <2> QED
    BY <2>2, <2>3
<1>11. Adding(longer, scores, matches, counted, end)
  <2>1. longer = [n \in 0..end |-> longer[n]]
    OBVIOUS
  <2> HIDE DEF longer
  <2> QED
    BY <1>10, <2>1 DEF Adding
<1> QED
  BY <1>4, <1>11
\* The bases of those that count among the first n matches, of a category.
Counted(matches, counted, n, c) ==
    {matches[k].base : k \in {k \in 1..n : k \in counted /\ matches[k].category = c}}

LEMMA AddAllForm ==
    ASSUME NEW scores, NEW matches, NEW counted, Len(matches) \in Nat
    PROVE  \E acc : /\ AddAll(scores, matches, counted) = acc[Len(matches)]
                    /\ Adding(acc, scores, matches, counted, Len(matches))
<1>1. PICK some : Adding(some, scores, matches, counted, Len(matches))
  BY AddingExists
<1> DEFINE acc == CHOOSE acc : Adding(acc, scores, matches, counted, Len(matches))
<1>2. Adding(acc, scores, matches, counted, Len(matches))
  BY <1>1
<1>3. AddAll(scores, matches, counted) = acc[Len(matches)]
  BY DEF AddAll, Adding
<1> QED
  BY <1>2, <1>3

LEMMA CountedNone ==
    ASSUME NEW matches, NEW counted, NEW c
    PROVE  Counted(matches, counted, 0, c) = {}
BY DEF Counted

\* The base of the n-th match, if it counts.
Latest(matches, counted, n, c) ==
    IF n \in counted /\ matches[n].category = c THEN {matches[n].base} ELSE {}

LEMMA CountedNext ==
    ASSUME NEW matches, NEW counted, NEW n \in Nat, NEW c
    PROVE  Counted(matches, counted, n + 1, c) =
              Counted(matches, counted, n, c) \cup Latest(matches, counted, n + 1, c)
<1>1. 1..(n + 1) = (1..n) \cup {n + 1}
  OBVIOUS
<1> QED
  BY <1>1 DEF Counted, Latest

\* One match more.
LEMMA WithinStep ==
    ASSUME NEW scores \in AScore, NEW before, NEW c \in Categories, NEW b \in 1..100,
           \A d \in Categories : Within(scores[d], before[d])
    PROVE  \A d \in Categories :
              Within(Add(scores, c, b)[d], before[d] \cup (IF c = d THEN {b} ELSE {}))
<1>1. TAKE d \in Categories
<1>2. CASE d = c
  <2>1. b <= Add(scores, c, b)[d] /\ Add(scores, c, b)[d] <= 2 * b
    BY <1>2, AddIsWithin
  <2> QED
    BY <1>2, <2>1 DEF Within
<1>3. CASE d # c
  <2>1. Add(scores, c, b)[d] = scores[d]
    BY <1>1, <1>3, AddIsWithin
  <2>2. before[d] \cup (IF c = d THEN {b} ELSE {}) = before[d]
    BY <1>3
  <2> QED
    BY <2>1, <2>2
<1> QED
  BY <1>2, <1>3

LEMMA AddAllIsWithin ==
    ASSUME NEW scores \in AScore, NEW matches, NEW counted, Len(matches) \in Nat,
           \A n \in 1..Len(matches) : IsMatch(matches[n]),
           NEW before, \A c \in Categories : Within(scores[c], before[c])
    PROVE  /\ AddAll(scores, matches, counted) \in AScore
           /\ \A c \in Categories :
                 Within(AddAll(scores, matches, counted)[c],
                        before[c] \cup Counted(matches, counted, Len(matches), c))
<1>1. PICK acc : /\ AddAll(scores, matches, counted) = acc[Len(matches)]
                 /\ Adding(acc, scores, matches, counted, Len(matches))
  BY AddAllForm
<1>2. \A n \in 0..Len(matches) :
         acc[n] = IF n = 0 THEN scores
                  ELSE IF n \in counted
                  THEN Add(acc[n - 1], matches[n].category, matches[n].base)
                  ELSE acc[n - 1]
  BY <1>1 DEF Adding
<1> DEFINE Good(n) ==
              /\ acc[n] \in AScore
              /\ \A c \in Categories :
                    Within(acc[n][c], before[c] \cup Counted(matches, counted, n, c))
           T == {n \in 0..Len(matches) : ~Good(n)}
<1>3. T = {}
  <2>1. SUFFICES ASSUME T # {}
                 PROVE  FALSE
    OBVIOUS
  <2>2. T \subseteq Nat
    OBVIOUS
  <2>3. PICK n \in T : \A k \in T : n <= k
    BY <2>1, <2>2, LeastNumber
  <2>4. n \in 0..Len(matches) /\ ~Good(n)
    BY <2>3
  <2>5. Good(0)
    <3>1. acc[0] = scores
      BY <1>2
    <3>2. \A c \in Categories : before[c] \cup Counted(matches, counted, 0, c) = before[c]
      BY CountedNone
    <3> QED
      BY <3>1, <3>2
  <2>6. PICK k \in Nat : k + 1 = n /\ k \in 0..Len(matches) /\ n \in 1..Len(matches) /\ n # 0
    <3>1. n # 0
      BY <2>4, <2>5
    <3>2. n - 1 \in Nat /\ (n - 1) + 1 = n /\ n - 1 \in 0..Len(matches) /\ n \in 1..Len(matches)
      BY <2>4, <3>1
    <3> QED
      BY <3>1, <3>2
  <2>7. Good(k)
    <3>1. k \notin T
      <4> HIDE DEF Good
      <4> QED
        BY <2>3, <2>6
    <3> HIDE DEF Good
    <3> QED
      BY <2>6, <3>1
  <2>8. PICK prev \in AScore : prev = acc[k]
    BY <2>7
  <2>9. PICK now : \A c \in Categories :
                      now[c] = before[c] \cup Counted(matches, counted, k, c)
    <3>1. PICK f : f = [c \in Categories |-> before[c] \cup Counted(matches, counted, k, c)]
      OBVIOUS
    <3> QED
      BY <3>1
  <2>10. \A c \in Categories : Within(prev[c], now[c])
    BY <2>7, <2>8, <2>9
  <2>11. acc[n] = IF n \in counted
                  THEN Add(prev, matches[n].category, matches[n].base) ELSE prev
    <3>1. n - 1 = k
      BY <2>6
    <3> QED
      BY <1>2, <2>4, <2>6, <2>8, <3>1
  <2>12. \A c \in Categories :
            before[c] \cup Counted(matches, counted, n, c) =
               now[c] \cup Latest(matches, counted, n, c)
    <3> HIDE DEF Good, T
    <3>1. TAKE c \in Categories
    <3>2. Counted(matches, counted, k + 1, c) =
             Counted(matches, counted, k, c) \cup Latest(matches, counted, k + 1, c)
      BY <2>6, CountedNext
    <3>3. now[c] = before[c] \cup Counted(matches, counted, k, c)
      BY <2>9, <3>1
    <3> QED
      BY <2>6, <3>2, <3>3
  <2>13. CASE n \in counted
    <3>1. matches[n].category \in Categories /\ matches[n].base \in 1..100
      BY <2>6 DEF IsMatch
    <3>2. acc[n] = Add(prev, matches[n].category, matches[n].base)
      BY <2>11, <2>13
    <3>3. acc[n] \in AScore
      BY <3>1, <3>2, AddIsWithin
    <3>4. \A c \in Categories :
             Within(acc[n][c], now[c] \cup (IF matches[n].category = c
                                            THEN {matches[n].base} ELSE {}))
      BY <2>10, <3>1, <3>2, WithinStep
    <3>5. \A c \in Categories :
             before[c] \cup Counted(matches, counted, n, c) =
                now[c] \cup (IF matches[n].category = c THEN {matches[n].base} ELSE {})
      BY <2>12, <2>13 DEF Latest
    <3> QED
      BY <2>4, <3>3, <3>4, <3>5
  <2>14. CASE n \notin counted
    <3>1. acc[n] = prev
      BY <2>11, <2>14
    <3>2. \A c \in Categories : before[c] \cup Counted(matches, counted, n, c) = now[c]
      BY <2>12, <2>14 DEF Latest
    <3> QED
      BY <2>4, <2>10, <3>1, <3>2
  <2> QED
    BY <2>13, <2>14
<1>4. Good(Len(matches))
  <2>1. Len(matches) \in 0..Len(matches)
    OBVIOUS
  <2> HIDE DEF Good
  <2> QED
    BY <1>3, <2>1
<1> QED
  BY <1>1, <1>4

----------------------------------------------------------------------------
\* The layers of a text.

LEMMA TopicIsACategory ==
    ASSUME ScreeningInv
    PROVE  topic \in Categories /\ {"custom", "token_exhaustion"} \subseteq Categories
BY DEF ScreeningInv, Categories, Topics

LEMMA PatternsAreMatches ==
    ASSUME ScreeningInv, NEW found \in Seq(PatternsOf(asked, topic))
    PROVE  /\ Len(Patterns(found)) = Len(found) /\ DOMAIN found = 1..Len(found)
           /\ \A n \in 1..Len(found) :
                 /\ IsMatch(Patterns(found)[n])
                 /\ Patterns(found)[n] = Lists[asked][found[n]]
<1>1. Len(found) \in Nat /\ DOMAIN found = 1..Len(found)
  OBVIOUS
<1>2. \A n \in 1..Len(found) : found[n] \in PatternsOf(asked, topic)
  OBVIOUS
<1>3. \A n \in 1..Len(found) : IsMatch(Lists[asked][found[n]])
  <2>1. TAKE n \in 1..Len(found)
  <2>2. found[n] \in DOMAIN Lists[asked] /\ Lists[asked][found[n]].category = topic
    BY <1>2, <2>1 DEF PatternsOf
  <2>3. PICK list \in Seq([category : STRING, base : 1..100]) : list = Lists[asked]
    BY ScreeningAssumption DEF ScreeningInv
  <2>4. list[found[n]].base \in 1..100
    <3>1. PICK S : S = [category : STRING, base : 1..100]
      OBVIOUS
    <3>2. list \in Seq(S) /\ found[n] \in DOMAIN list
      BY <2>2, <2>3, <3>1
    <3>3. list[found[n]] \in S
      BY <3>2
    <3> QED
      BY <3>1, <3>3
  <2> QED
    BY <2>2, <2>3, <2>4, TopicIsACategory DEF IsMatch
<1>4. Patterns(found) = [n \in 1..Len(found) |-> Lists[asked][found[n]]]
  BY <1>1 DEF Patterns
<1>5. Len(Patterns(found)) = Len(found)
  BY <1>1, <1>4
<1> QED
  BY <1>1, <1>3, <1>4, <1>5

LEMMA CountedPatterns ==
    ASSUME ScreeningInv, NEW found \in Seq(PatternsOf(asked, topic)), NEW c
    PROVE  Counted(Patterns(found), DOMAIN found, Len(Patterns(found)), c) = BasesIn(found, c)
BY PatternsAreMatches DEF Counted, BasesIn

LEMMA RulesAreMatches ==
    ASSUME ScreeningInv
    PROVE  /\ Len(CustomRules(text.rules)) = Len(text.rules)
           /\ Len(text.rules) \in Nat /\ DOMAIN text.rules = 1..Len(text.rules)
           /\ \A n \in 1..Len(text.rules) :
                 /\ IsMatch(CustomRules(text.rules)[n])
                 /\ CustomRules(text.rules)[n] =
                       [category |-> "custom", base |-> RuleScores[text.rules[n]]]
<1>1. PICK found \in Seq(RuleIds) : found = text.rules
  BY DEF ScreeningInv, Text
<1>2. Len(found) \in Nat /\ DOMAIN found = 1..Len(found)
  OBVIOUS
<1>3. \A n \in 1..Len(found) : RuleScores[found[n]] \in 1..100
  <2>1. TAKE n \in 1..Len(found)
  <2>2. found[n] \in RuleIds
    BY <2>1
  <2>3. RuleScores \in Seq(1..100) /\ found[n] \in DOMAIN RuleScores
    BY <2>2, ScreeningAssumption DEF RuleIds
  <2> QED
    BY <2>3
<1>4. CustomRules(found) =
         [n \in 1..Len(found) |-> [category |-> "custom", base |-> RuleScores[found[n]]]]
  BY <1>2 DEF CustomRules
<1>5. Len(CustomRules(found)) = Len(found)
  BY <1>2, <1>4
<1>6. \A n \in 1..Len(found) :
         IsMatch([category |-> "custom", base |-> RuleScores[found[n]]])
  BY <1>3, TopicIsACategory DEF IsMatch
<1> QED
  BY <1>1, <1>2, <1>4, <1>5, <1>6

LEMMA CountedRules ==
    ASSUME ScreeningInv, NEW c
    PROVE  Counted(CustomRules(text.rules), DOMAIN text.rules, Len(CustomRules(text.rules)), c) =
              IF c = "custom" THEN {RuleScores[text.rules[n]] : n \in DOMAIN text.rules} ELSE {}
<1> DEFINE Custom == {RuleScores[text.rules[n]] : n \in DOMAIN text.rules}
<1>1. PICK rules : rules = CustomRules(text.rules)
  OBVIOUS
<1>2. PICK len \in Nat : len = Len(rules) /\ DOMAIN text.rules = 1..len
  BY <1>1, RulesAreMatches
<1>3. \A n \in 1..len :
         rules[n].category = "custom" /\ rules[n].base = RuleScores[text.rules[n]]
  <2>1. \A n \in 1..len :
           rules[n] = [category |-> "custom", base |-> RuleScores[text.rules[n]]]
    BY <1>1, <1>2, RulesAreMatches
  <2>2. ASSUME NEW rule, NEW base, rule = [category |-> "custom", base |-> base]
        PROVE  rule.category = "custom" /\ rule.base = base
    BY <2>2
  <2> HIDE DEF Custom
  <2> QED
    BY <2>1, <2>2
<1>4. Counted(rules, 1..len, len, c) = IF c = "custom" THEN Custom ELSE {}
  <2>1. CASE c = "custom"
    <3>1. {k \in 1..len : k \in 1..len /\ rules[k].category = c} = 1..len
      BY <1>3, <2>1
    <3> QED
      BY <1>2, <1>3, <2>1, <3>1 DEF Counted
  <2>2. CASE c # "custom"
    <3>1. {k \in 1..len : k \in 1..len /\ rules[k].category = c} = {}
      BY <1>3, <2>2
    <3> QED
      BY <2>2, <3>1 DEF Counted
  <2> QED
    BY <2>1, <2>2
<1> QED
  BY <1>1, <1>2, <1>4

\* The bases of the patterns and of the custom rules.
Shown(t, c) ==
    BasesIn(t.plain, c)
    \cup (IF c = "custom" THEN {RuleScores[t.rules[n]] : n \in DOMAIN t.rules} ELSE {})

LEMMA ProxyIsWithin ==
    ASSUME ScreeningInv
    PROVE  /\ ProxyScores(text) \in AScore
           /\ \A c \in Categories : Within(ProxyScores(text)[c], Shown(text, c))
<1>1. NoScores \in AScore /\ \A c \in Categories : NoScores[c] = 0
  BY DEF NoScores, AScore
<1>2. PICK none : \A c \in Categories : none[c] = {}
  <2>1. \A c \in Categories : [d \in Categories |-> {}][c] = {}
    OBVIOUS
  <2> QED
    BY <2>1
<1>3. \A c \in Categories : Within(NoScores[c], none[c])
  BY <1>1, <1>2 DEF Within
<1>4. PICK found \in Seq(PatternsOf(asked, topic)) : found = text.plain
  BY DEF ScreeningInv, Text
<1>5. PICK first : first = AddAll(NoScores, Patterns(text.plain), DOMAIN text.plain)
  OBVIOUS
<1>6. PICK some : \A c \in Categories : some[c] = BasesIn(text.plain, c)
  <2>1. PICK f : f = [c \in Categories |-> BasesIn(text.plain, c)]
    OBVIOUS
  <2> QED
    BY <2>1
<1>7. first \in AScore /\ \A c \in Categories : Within(first[c], some[c])
  <2>1. \A n \in 1..Len(Patterns(found)) : IsMatch(Patterns(found)[n])
    BY PatternsAreMatches
  <2>2. Len(Patterns(found)) \in Nat
    BY PatternsAreMatches
  <2>3. /\ first \in AScore
        /\ \A c \in Categories :
              Within(first[c], none[c] \cup Counted(Patterns(found), DOMAIN found,
                                                    Len(Patterns(found)), c))
    BY <1>1, <1>3, <1>4, <1>5, <2>1, <2>2, AddAllIsWithin
  <2>4. \A c \in Categories :
           none[c] \cup Counted(Patterns(found), DOMAIN found, Len(Patterns(found)), c) = some[c]
    BY <1>2, <1>4, <1>6, CountedPatterns
  <2> QED
    BY <2>3, <2>4
<1>8. ProxyScores(text) = AddAll(first, CustomRules(text.rules), DOMAIN text.rules)
  BY <1>5 DEF ProxyScores
<1>9. /\ ProxyScores(text) \in AScore
      /\ \A c \in Categories :
            Within(ProxyScores(text)[c],
                   some[c] \cup Counted(CustomRules(text.rules), DOMAIN text.rules,
                                        Len(CustomRules(text.rules)), c))
  <2>1. \A n \in 1..Len(CustomRules(text.rules)) : IsMatch(CustomRules(text.rules)[n])
    BY RulesAreMatches
  <2>2. Len(CustomRules(text.rules)) \in Nat
    BY RulesAreMatches
  <2> QED
    BY <1>7, <1>8, <2>1, <2>2, AddAllIsWithin
<1>10. \A c \in Categories :
          some[c] \cup Counted(CustomRules(text.rules), DOMAIN text.rules,
                               Len(CustomRules(text.rules)), c) = Shown(text, c)
  BY <1>6, CountedRules DEF Shown
<1> QED
  BY <1>9, <1>10

\* More of the same, where something was already found.
LEMMA WithinMore ==
    ASSUME NEW score \in Nat, NEW bases, NEW more, Within(score, bases), score # 0
    PROVE  Within(score, bases \cup more)
BY DEF Within

LEMMA GuardIsWithin ==
    ASSUME ScreeningInv
    PROVE  \A c \in Categories :
              Within(GuardScores(text)[c],
                     Shown(text, c)
                     \cup (IF c = "token_exhaustion" /\ text.flood THEN {FloodScore} ELSE {}))
<1>1. PICK scores \in AScore : scores = ProxyScores(text)
  BY ProxyIsWithin
<1>2. \A c \in Categories : Within(scores[c], Shown(text, c))
  BY <1>1, ProxyIsWithin
<1>3. CASE text.flood
  <2>1. PICK before : \A c \in Categories : before[c] = Shown(text, c)
    <3>1. PICK f : f = [c \in Categories |-> Shown(text, c)]
      OBVIOUS
    <3> QED
      BY <3>1
  <2>2. GuardScores(text) = Add(scores, "token_exhaustion", FloodScore)
    BY <1>1, <1>3 DEF GuardScores
  <2>3. PICK kind \in Categories : kind = "token_exhaustion"
    BY TopicIsACategory
  <2>4. PICK base \in 1..100 : base = FloodScore
    BY DEF FloodScore
  <2>5. \A c \in Categories :
           Within(Add(scores, kind, base)[c], before[c] \cup (IF kind = c THEN {base} ELSE {}))
    BY <1>2, <2>1, WithinStep
  <2> QED
    BY <1>3, <2>1, <2>2, <2>3, <2>4, <2>5
<1>4. CASE ~text.flood
  <2>1. GuardScores(text) = scores
    BY <1>1, <1>4 DEF GuardScores
  <2> QED
    BY <1>2, <1>4, <2>1
<1> QED
  BY <1>3, <1>4

\* What was decoded brings the bases of all its patterns: of a pattern that matched before,
\* the base is there.
LEMMA DecodedBases ==
    ASSUME ScreeningInv, NEW c
    PROVE  BasesIn(text.plain, c)
           \cup Counted(Patterns(text.hidden), NewMatches(text), Len(Patterns(text.hidden)), c)
              = BasesIn(text.plain, c) \cup BasesIn(text.hidden, c)
<1>1. PICK plain \in Seq(PatternsOf(asked, topic)) : plain = text.plain
  BY DEF ScreeningInv, Text
<1>2. PICK hidden \in Seq(PatternsOf(asked, topic)) : hidden = text.hidden
  BY DEF ScreeningInv, Text
<1>3. PICK len \in Nat : len = Len(hidden) /\ DOMAIN hidden = 1..len
  BY <1>2
<1>4. PICK list : list = Lists[asked]
  OBVIOUS
<1>5. Len(Patterns(hidden)) = len /\ \A n \in 1..len : Patterns(hidden)[n] = list[hidden[n]]
  BY <1>3, <1>4, PatternsAreMatches
<1>6. PICK new : new = NewMatches(text)
  OBVIOUS
<1>7. \A n \in 1..len : n \in new <=> /\ \A k \in DOMAIN plain : plain[k] # hidden[n]
                                      /\ \A k \in 1..(n - 1) : hidden[k] # hidden[n]
  BY <1>1, <1>2, <1>3, <1>6 DEF NewMatches
<1>8. PICK counted : counted = Counted(Patterns(hidden), new, len, c)
  OBVIOUS
<1>9. \A b : b \in counted <=>
          \E n \in 1..len : n \in new /\ list[hidden[n]].category = c /\ b = list[hidden[n]].base
  BY <1>5, <1>8 DEF Counted
<1>10. \A b : b \in BasesIn(hidden, c) <=>
          \E n \in 1..len : list[hidden[n]].category = c /\ b = list[hidden[n]].base
  BY <1>3, <1>4 DEF BasesIn
<1>11. \A b : b \in BasesIn(plain, c) <=>
          \E n \in DOMAIN plain : list[plain[n]].category = c /\ b = list[plain[n]].base
  BY <1>4 DEF BasesIn
<1>12. ASSUME NEW n \in 1..len, list[hidden[n]].category = c
       PROVE  list[hidden[n]].base \in BasesIn(plain, c) \cup counted
  <2> DEFINE Same == {k \in 1..len : hidden[k] = hidden[n]}
  <2>1. Same \subseteq Nat /\ Same # {}
    BY <1>12
  <2>2. PICK k \in Same : \A j \in Same : k <= j
    BY <2>1, LeastNumber
  <2>3. k \in 1..len /\ hidden[k] = hidden[n] /\ \A j \in 1..(k - 1) : hidden[j] # hidden[k]
    BY <2>2
  <2>4. CASE k \in new
    BY <1>9, <1>12, <2>3, <2>4
  <2>5. CASE k \notin new
    <3>1. PICK j \in DOMAIN plain : plain[j] = hidden[k]
      BY <1>7, <2>3, <2>5
    <3> QED
      BY <1>11, <1>12, <2>3, <3>1
  <2> QED
    BY <2>4, <2>5
<1>13. BasesIn(plain, c) \cup counted = BasesIn(plain, c) \cup BasesIn(hidden, c)
  BY <1>9, <1>10, <1>12
<1> QED
  BY <1>1, <1>2, <1>5, <1>6, <1>8, <1>13

LEMMA ScanIsWithin ==
    ASSUME ScreeningInv, ~text.flood
    PROVE  \A c \in Categories : Within(ScanScores(text)[c], Bases(text, c))
<1>1. PICK scores \in AScore : scores = ProxyScores(text)
  BY ProxyIsWithin
<1>2. \A c \in Categories : Within(scores[c], Shown(text, c))
  BY <1>1, ProxyIsWithin
<1>3. PICK similar : similar = IF text.alike # {} /\ scores[topic] = 0
                               THEN Add(scores, topic, ScoreSets!Max(text.alike)) ELSE scores
  OBVIOUS
<1>4. PICK before : \A c \in Categories :
                       before[c] = Shown(text, c) \cup (IF c = topic THEN text.alike ELSE {})
  <2>1. PICK f : f = [c \in Categories |->
                         Shown(text, c) \cup (IF c = topic THEN text.alike ELSE {})]
    OBVIOUS
  <2> QED
    BY <2>1
<1>5. similar \in AScore /\ \A c \in Categories : Within(similar[c], before[c])
  <2>1. CASE text.alike = {}
    <3>1. similar = scores
      BY <1>3, <2>1
    <3>2. \A c \in Categories : before[c] = Shown(text, c)
      BY <1>4, <2>1
    <3> QED
      BY <1>2, <3>1, <3>2
  <2>2. CASE text.alike # {} /\ scores[topic] # 0
    <3>1. similar = scores
      BY <1>3, <2>2
    <3>2. ASSUME NEW c \in Categories
          PROVE  Within(scores[c], before[c])
      <4>1. CASE c = topic
        <5>1. scores[c] \in Nat /\ Within(scores[c], Shown(text, c)) /\ scores[c] # 0
          BY <1>2, <2>2, <4>1 DEF AScore
        <5>2. before[c] = Shown(text, c) \cup text.alike
          BY <1>4, <4>1
        <5> QED
          BY <5>1, <5>2, WithinMore
      <4>2. CASE c # topic
        <5>1. before[c] = Shown(text, c)
          BY <1>4, <4>2
        <5> QED
          BY <1>2, <5>1
      <4> QED
        BY <4>1, <4>2
    <3> QED
      BY <3>1, <3>2
  <2>3. CASE text.alike # {} /\ scores[topic] = 0
    <3>1. PICK score \in 1..100 : text.alike = {score}
      BY <2>3 DEF ScreeningInv
    <3>2. PICK kind \in Categories : kind = topic
      BY TopicIsACategory
    <3>3. ScoreSets!Max(text.alike) = score
      <4>1. ScoreSets!Max({score}) = CHOOSE x \in {score} : \A y \in {score} : x >= y
        BY DEF ScoreSets!Max
      <4>2. \E x \in {score} : \A y \in {score} : x >= y
        OBVIOUS
      <4>3. ScoreSets!Max({score}) \in {score}
        BY <4>1, <4>2
      <4> QED
        BY <3>1, <4>3
    <3>4. similar = Add(scores, kind, score)
      BY <1>3, <2>3, <3>2, <3>3
    <3>5. PICK shown : \A c \in Categories : shown[c] = Shown(text, c)
      <4>1. PICK f : f = [c \in Categories |-> Shown(text, c)]
        OBVIOUS
      <4> QED
        BY <4>1
    <3>6. \A c \in Categories :
             Within(Add(scores, kind, score)[c], shown[c] \cup (IF kind = c THEN {score} ELSE {}))
      BY <1>2, <3>5, WithinStep
    <3>7. \A c \in Categories : before[c] = shown[c] \cup (IF kind = c THEN {score} ELSE {})
      BY <1>4, <3>1, <3>2, <3>5
    <3>8. similar \in AScore
      BY <3>4, AddIsWithin
    <3> QED
      BY <3>4, <3>6, <3>7, <3>8
  <2> QED
    BY <2>1, <2>2, <2>3
<1>6. PICK found \in Seq(PatternsOf(asked, topic)) : found = text.hidden
  BY DEF ScreeningInv, Text
<1>7. PICK matches : matches = Patterns(text.hidden)
  OBVIOUS
<1>8. Len(matches) \in Nat /\ \A n \in 1..Len(matches) : IsMatch(matches[n])
  BY <1>6, <1>7, PatternsAreMatches
<1>9. PICK new : new = NewMatches(text)
  OBVIOUS
<1>10. ScanScores(text) = AddAll(similar, matches, new)
  BY <1>1, <1>3, <1>7, <1>9 DEF ScanScores
<1>11. \A c \in Categories :
          Within(AddAll(similar, matches, new)[c],
                 before[c] \cup Counted(matches, new, Len(matches), c))
  BY <1>5, <1>8, AddAllIsWithin
<1>12. \A c \in Categories :
          before[c] \cup Counted(matches, new, Len(matches), c) = Bases(text, c)
  <2>1. TAKE c \in Categories
  <2>2. PICK all : all = BasesIn(text.plain, c) \cup BasesIn(text.hidden, c)
    OBVIOUS
  <2>3. PICK counted : counted = Counted(matches, new, Len(matches), c)
    OBVIOUS
  <2>4. BasesIn(text.plain, c) \cup counted = all
    BY <1>7, <1>9, <2>2, <2>3, DecodedBases
  <2>5. Bases(text, c) =
           all \cup (IF c = topic THEN text.alike ELSE {})
           \cup (IF c = "custom" THEN {RuleScores[text.rules[n]] : n \in DOMAIN text.rules} ELSE {})
    BY <2>2 DEF Bases
  <2>6. before[c] =
           BasesIn(text.plain, c)
           \cup (IF c = "custom" THEN {RuleScores[text.rules[n]] : n \in DOMAIN text.rules} ELSE {})
           \cup (IF c = topic THEN text.alike ELSE {})
    BY <1>4 DEF Shown
  <2>7. PICK rules : rules = IF c = "custom"
                             THEN {RuleScores[text.rules[n]] : n \in DOMAIN text.rules} ELSE {}
    OBVIOUS
  <2> QED
    BY <2>3, <2>4, <2>5, <2>6, <2>7
<1> QED
  BY <1>10, <1>11, <1>12

LEMMA ScoresAreWithin ==
    ASSUME ScreeningInv
    PROVE  \A c \in Categories : Within(Scores(text)[c], Bases(text, c))
<1>1. CASE asked \in Scanned
  <2>1. ~text.flood
    BY <1>1 DEF ScreeningInv, Scanned, Guarded
  <2>2. Scores(text) = ScanScores(text)
    BY <1>1 DEF Scores, Scanned, Guarded
  <2> QED
    BY <2>1, <2>2, ScanIsWithin
<1>2. CASE asked \notin Scanned
  <2>1. text.alike = {} /\ text.hidden = << >>
    BY <1>2 DEF ScreeningInv
  <2>2. \A c \in Categories :
           Bases(text, c) = Shown(text, c)
              \cup (IF c = "token_exhaustion" /\ text.flood THEN {FloodScore} ELSE {})
    <3>1. \A c \in Categories : BasesIn(text.hidden, c) = {}
      BY <2>1 DEF BasesIn
    <3> QED
      BY <2>1, <3>1 DEF Bases, Shown
  <2>3. CASE asked \in Guarded
    <3>1. Scores(text) = GuardScores(text)
      BY <1>2, <2>3 DEF Scores
    <3> QED
      BY <2>2, <3>1, GuardIsWithin
  <2>4. CASE asked \notin Guarded
    <3>1. Scores(text) = ProxyScores(text)
      BY <1>2, <2>4 DEF Scores
    <3>2. ~text.flood
      BY <2>4 DEF ScreeningInv
    <3> QED
      BY <2>2, <3>1, <3>2, ProxyIsWithin
  <2> QED
    BY <2>3, <2>4
<1> QED
  BY <1>1, <1>2

LEMMA ScreeningAlways == ScreeningSpec => []ScreeningInv
<1>1. ScreeningInit => ScreeningInv
  BY ScreeningFirst
<1>2. ScreeningInv /\ [ScreeningNext]_screening => ScreeningInv'
  BY ScreeningSteps
<1> QED
  BY <1>1, <1>2, PTL DEF ScreeningSpec

\* In every list of patterns, with any bases and any custom rules, whatever the layers of
\* a scorer find and in whatever order, a category scores at least its weakest match and at
\* most twice its strongest (run_patterns of scorer.py, _run_patterns of scanner.py).
THEOREM CategoriesAreCapped == ScreeningSpec => []CategoryIsCapped
<1>1. ASSUME ScreeningInv
      PROVE  CategoryIsCapped
  <2>1. PICK scores : scores = Scores(text)
    OBVIOUS
  <2>2. ASSUME NEW c \in {topic, "custom", "token_exhaustion"}
        PROVE  /\ \E b \in Bases(text, c) \cup {0} : scores[c] <= 2 * b
               /\ Bases(text, c) # {} => \E b \in Bases(text, c) : scores[c] >= b
    <3>1. PICK bases : bases = Bases(text, c)
      OBVIOUS
    <3>5. c \in Categories
      BY <1>1 DEF ScreeningInv, Categories, Topics
    <3>2. Within(scores[c], bases)
      BY <1>1, <2>1, <3>1, <3>5, ScoresAreWithin
    <3>3. CASE bases = {}
      <4>1. scores[c] = 0
        BY <3>2, <3>3 DEF Within
      <4> QED
        BY <3>1, <3>3, <4>1
    <3>4. CASE bases # {}
      <4>1. PICK b \in bases : b <= scores[c] /\ scores[c] <= 2 * b
        BY <3>2, <3>4 DEF Within
      <4> QED
        BY <3>1, <4>1
    <3> QED
      BY <3>3, <3>4
  <2> QED
    BY <2>1, <2>2 DEF CategoryIsCapped
<1> QED
  BY <1>1, ScreeningAlways, PTL

----------------------------------------------------------------------------
\* The types of a text.

\* The patterns and the rules that match come in the order of their lists.
InOrder(order) == \A n \in 2..Len(order) : order[n - 1] < order[n]

WithinBounds(t) ==
    /\ InOrder(t.plain) /\ InOrder(t.rules)
    /\ Hits(t) <= MaxHits[topic]

ScreeningTypes == ScreeningInv /\ WithinBounds(text)

LEMMA ScreeningTypesImply ==
    ASSUME ScreeningTypes
    PROVE  ScreeningTypeOK
<1>1. Cardinality(text.alike) <= 1
  <2>1. CASE text.alike = {}
    BY <2>1, FS_EmptySet
  <2>2. CASE text.alike # {}
    <3>1. PICK score : text.alike = {score}
      BY <2>2 DEF ScreeningTypes, ScreeningInv
    <3>2. Cardinality({score}) = 1
      BY FS_Singleton, Zenon
    <3> QED
      BY <3>1, <3>2
  <2> QED
    BY <2>1, <2>2
<1> QED
  BY <1>1 DEF ScreeningTypes, ScreeningInv, WithinBounds, InOrder, ScreeningTypeOK

LEMMA ScreeningTypedFirst ==
    ASSUME ScreeningInit
    PROVE  ScreeningTypes
<1>1. text = [plain |-> << >>, hidden |-> << >>, rules |-> << >>, alike |-> {}, flood |-> FALSE]
      /\ asked \in DOMAIN Lists /\ topic \in CategoriesOf(asked)
  BY DEF ScreeningInit
<1>2. Hits(text) = 0
  BY <1>1, FS_EmptySet DEF Hits
<1>3. MaxHits[topic] \in Nat
  BY <1>1, ScreeningAssumption DEF Topics
<1> QED
  BY <1>1, <1>2, <1>3, ScreeningFirst DEF ScreeningTypes, WithinBounds, InOrder

LEMMA HitsAreCounted ==
    ASSUME ScreeningInv
    PROVE  Hits(text) \in Nat
<1>1. PICK t \in Text(asked, topic) : t = text
  BY DEF ScreeningInv
<1>2. Len(t.plain) \in Nat /\ Len(t.hidden) \in Nat /\ Len(t.rules) \in Nat
  BY DEF Text
<1>3. Cardinality(t.alike) \in Nat
  <2>1. CASE t.alike = {}
    BY <2>1, FS_EmptySet
  <2>2. CASE t.alike # {}
    <3>1. PICK score : t.alike = {score}
      BY <1>1, <2>2 DEF ScreeningInv
    <3>2. Cardinality({score}) = 1
      BY FS_Singleton, Zenon
    <3> QED
      BY <3>1, <3>2
  <2> QED
    BY <2>1, <2>2
<1>4. PICK a \in Nat, b \in Nat, c \in Nat, d \in Nat :
         a = Len(t.plain) /\ b = Len(t.hidden) /\ c = Len(t.rules) /\ d = Cardinality(t.alike)
  BY <1>2, <1>3
<1>5. Hits(t) = a + b + c + d + (IF t.flood THEN 1 ELSE 0)
  BY <1>4 DEF Hits
<1>6. Hits(t) \in Nat
  BY <1>5
<1> QED
  BY <1>1, <1>6

LEMMA AppendedInOrder ==
    ASSUME NEW order \in Seq(Nat), InOrder(order), NEW i \in Nat, Follows(i, order)
    PROVE  InOrder(Append(order, i))
<1>1. PICK longer : longer = Append(order, i)
  OBVIOUS
<1>2. /\ Len(longer) = Len(order) + 1 /\ longer[Len(order) + 1] = i
      /\ \A n \in 1..Len(order) : longer[n] = order[n]
  BY <1>1
<1>3. ASSUME NEW n \in 2..Len(longer)
      PROVE  longer[n - 1] < longer[n]
  <2>1. CASE n = Len(order) + 1
    <3>1. n - 1 \in 1..Len(order) /\ n - 1 \in DOMAIN order
      BY <1>2, <2>1
    <3> QED
      BY <1>2, <2>1, <3>1 DEF Follows
  <2>2. CASE n # Len(order) + 1
    <3>1. n \in 2..Len(order) /\ n \in 1..Len(order) /\ n - 1 \in 1..Len(order)
      BY <1>2, <2>2
    <3> QED
      BY <1>2, <3>1 DEF InOrder
  <2> QED
    BY <2>1, <2>2
<1> QED
  BY <1>1, <1>3 DEF InOrder

\* A hit more, in order.
LEMMA ExtendTyped ==
    ASSUME ScreeningTypes, NEW longer, Extend(longer), InOrder(longer.plain), InOrder(longer.rules),
           ScreeningInv'
    PROVE  ScreeningTypes'
<1>1. text' = longer /\ asked' = asked /\ topic' = topic
      /\ Hits(text) < MaxHits[topic] /\ Hits(longer) = Hits(text) + 1
  BY DEF Extend
<1>2. MaxHits[topic] \in Nat
  <2>1. topic \in Topics
    BY DEF ScreeningTypes, ScreeningInv, Topics
  <2> QED
    BY <2>1, ScreeningAssumption
<1>3. Hits(longer) <= MaxHits[topic]
  <2>1. Hits(text) \in Nat
    BY HitsAreCounted DEF ScreeningTypes
  <2> QED
    BY <1>1, <1>2, <2>1
<1>4. WithinBounds(longer)
  BY <1>3 DEF WithinBounds
<1>5. WithinBounds(text)'
  <2>1. Hits(text)' = Hits(longer)
    BY <1>1
  <2> QED
    BY <1>1, <1>4, <2>1 DEF WithinBounds
<1> QED
  BY <1>5 DEF ScreeningTypes

LEMMA ScreeningTyped ==
    ASSUME ScreeningTypes, [ScreeningNext]_screening
    PROVE  ScreeningTypes'
<1>0. ScreeningInv /\ ScreeningInv' /\ InOrder(text.plain) /\ InOrder(text.rules)
  BY ScreeningSteps DEF ScreeningTypes, WithinBounds
<1>1. PICK t \in Text(asked, topic) : t = text
  BY <1>0 DEF ScreeningInv
<1>2. t.plain \in Seq(Nat) /\ PatternsOf(asked, topic) \subseteq Nat
  <2>1. Lists[asked] \in Seq([category : STRING, base : 1..100])
    BY <1>0, ScreeningAssumption DEF ScreeningInv
  <2>2. PatternsOf(asked, topic) \subseteq Nat
    BY <2>1 DEF PatternsOf
  <2>3. t.plain \in Seq(PatternsOf(asked, topic))
    BY DEF Text
  <2>4. PICK found : found = t.plain
    OBVIOUS
  <2>5. Len(found) \in Nat /\ found \in [1..Len(found) -> PatternsOf(asked, topic)]
    BY <2>3, <2>4
  <2>6. found \in [1..Len(found) -> Nat]
    BY <2>2, <2>5
  <2>7. found \in Seq(Nat)
    BY <2>5, <2>6
  <2> QED
    BY <2>2, <2>4, <2>7
<1>3. t.rules \in Seq(Nat) /\ RuleIds \subseteq Nat
  <2>1. RuleScores \in Seq(1..100)
    BY ScreeningAssumption
  <2>2. RuleIds \subseteq Nat
    BY <2>1 DEF RuleIds
  <2>3. t.rules \in Seq(RuleIds)
    BY DEF Text
  <2>4. PICK found : found = t.rules
    OBVIOUS
  <2>5. Len(found) \in Nat /\ found \in [1..Len(found) -> RuleIds]
    BY <2>3, <2>4
  <2>6. found \in [1..Len(found) -> Nat]
    BY <2>2, <2>5
  <2>7. found \in Seq(Nat)
    BY <2>5, <2>6
  <2> QED
    BY <2>2, <2>4, <2>7
<1>4. ASSUME NEW i \in PatternsOf(asked, topic), Follows(i, text.plain),
             Extend([text EXCEPT !.plain = Append(@, i)])
      PROVE  ScreeningTypes'
  <2>1. PICK u : u = [t EXCEPT !.plain = Append(@, i)]
    OBVIOUS
  <2>2. u.plain = Append(t.plain, i) /\ u.rules = t.rules
    BY <2>1 DEF Text
  <2>3. InOrder(u.plain) /\ InOrder(u.rules)
    BY <1>0, <1>1, <1>2, <1>4, <2>2, AppendedInOrder
  <2> QED
    BY <1>0, <1>1, <1>4, <2>1, <2>3, ExtendTyped
<1>5. ASSUME NEW i \in RuleIds, Follows(i, text.rules),
             Extend([text EXCEPT !.rules = Append(@, i)])
      PROVE  ScreeningTypes'
  <2>1. PICK u : u = [t EXCEPT !.rules = Append(@, i)]
    OBVIOUS
  <2>2. u.rules = Append(t.rules, i) /\ u.plain = t.plain
    BY <2>1 DEF Text
  <2>3. InOrder(u.plain) /\ InOrder(u.rules)
    BY <1>0, <1>1, <1>3, <1>5, <2>2, AppendedInOrder
  <2> QED
    BY <1>0, <1>1, <1>5, <2>1, <2>3, ExtendTyped
<1>6. ASSUME NEW u, Extend(u), u.plain = t.plain, u.rules = t.rules
      PROVE  ScreeningTypes'
  BY <1>0, <1>1, <1>6, ExtendTyped
<1>7. CASE Resemble
  <2>1. PICK score : Extend([t EXCEPT !.alike = {score}])
    BY <1>1, <1>7 DEF Resemble
  <2> QED
    BY <1>6, <2>1 DEF Text
<1>8. CASE Hide
  <2>1. PICK i : Extend([t EXCEPT !.hidden = Append(@, i)])
    BY <1>1, <1>8 DEF Hide
  <2> QED
    BY <1>6, <2>1 DEF Text
<1>9. CASE Flood
  <2>1. Extend([t EXCEPT !.flood = TRUE])
    BY <1>1, <1>9 DEF Flood
  <2> QED
    BY <1>6, <2>1 DEF Text
<1>10. CASE UNCHANGED screening
  <2>1. UNCHANGED <<text, topic>>
    BY <1>10 DEF screening
  <2>2. WithinBounds(text)' = WithinBounds(text)
    BY <2>1 DEF WithinBounds, Hits, InOrder
  <2> QED
    BY <1>0, <2>2 DEF ScreeningTypes
<1> QED
  BY <1>4, <1>5, <1>7, <1>8, <1>9, <1>10 DEF ScreeningNext

LEMMA ScreeningHolds == ScreeningSpec => []ScreeningTypes
<1>1. ScreeningTypes /\ [ScreeningNext]_screening => ScreeningTypes'
  BY ScreeningTyped
<1> QED
  BY ScreeningTypedFirst, <1>1, PTL DEF ScreeningSpec

----------------------------------------------------------------------------
(* The trends over the sessions.                                           *)

\* What Analyzed lists, after each day up to end.
Listing(until, end) ==
    until = [d \in 0..end |->
                IF d = 0 THEN << >>
                ELSE IF d \in InWindow THEN Append(until[d - 1], d) ELSE until[d - 1]]

LEMMA ListingExists ==
    ASSUME NEW len \in Nat
    PROVE  \E until : Listing(until, len)
<1> DEFINE T == {end \in 0..len : ~ \E until : Listing(until, end)}
<1>1. SUFFICES ASSUME T # {}
               PROVE  FALSE
  <2>1. len \in 0..len
    OBVIOUS
  <2> QED
    BY <2>1
<1>2. T \subseteq Nat
  OBVIOUS
<1>3. PICK end \in T : \A n \in T : end <= n
  BY <1>1, <1>2, LeastNumber
<1>4. end \in 0..len /\ ~ \E until : Listing(until, end)
  BY <1>3
<1>5. end # 0
  <2> DEFINE until == [d \in 0..0 |-> << >>]
  <2>1. Listing(until, 0)
    BY DEF Listing
  <2> QED
    BY <1>4, <2>1
<1>6. end - 1 \in 0..len /\ end - 1 \notin T
  BY <1>3, <1>4, <1>5
<1>7. PICK until : Listing(until, end - 1)
  BY <1>6
<1>8. PICK last : last = IF end \in InWindow THEN Append(until[end - 1], end) ELSE until[end - 1]
  OBVIOUS
<1> DEFINE longer == [d \in 0..end |-> IF d = end THEN last ELSE until[d]]
<1>9. \A d \in 0..(end - 1) : longer[d] = until[d]
  BY <1>4
<1>10. \A d \in 0..end :
         longer[d] = IF d = 0 THEN << >>
                     ELSE IF d \in InWindow THEN Append(longer[d - 1], d) ELSE longer[d - 1]
  <2>1. TAKE d \in 0..end
  <2>2. CASE d = end
    <3>1. end - 1 \in 0..(end - 1)
      BY <1>4, <1>5
    <3>2. longer[d - 1] = until[end - 1] /\ longer[d] = last
      BY <1>9, <2>1, <2>2, <3>1
    <3> HIDE DEF longer
    <3> QED
      BY <1>5, <1>8, <2>2, <3>2
  <2>3. CASE d # end
    <3>1. d \in 0..(end - 1) /\ (d # 0 => d - 1 \in 0..(end - 1))
      BY <1>4, <2>1, <2>3
    <3>2. until[d] = IF d = 0 THEN << >>
                     ELSE IF d \in InWindow THEN Append(until[d - 1], d) ELSE until[d - 1]
      BY <1>7, <3>1 DEF Listing
    <3>3. longer[d] = until[d] /\ (d # 0 => longer[d - 1] = until[d - 1])
      BY <1>9, <3>1
    <3> HIDE DEF longer
    <3> QED
      BY <3>2, <3>3
  <2> QED
    BY <2>2, <2>3
<1>11. Listing(longer, end)
  <2>1. longer = [d \in 0..end |-> longer[d]]
    OBVIOUS
  <2> HIDE DEF longer
  <2> QED
    BY <1>10, <2>1 DEF Listing
<1> QED
  BY <1>4, <1>11

\* A day that is listed has a file that can be read.
LEMMA AnalyzedAreListed == Analyzed \in Seq(InWindow)
<1>1. FinalDay \in Nat
  BY SessionsAssumption
<1>2. PICK some : Listing(some, FinalDay)
  BY <1>1, ListingExists
<1> DEFINE until == CHOOSE until : Listing(until, FinalDay)
<1>3. Listing(until, FinalDay)
  BY <1>2
<1>4. Analyzed = until[FinalDay]
  BY DEF Analyzed, Listing
<1> HIDE DEF until
<1>5. \A d \in 0..FinalDay :
         until[d] = IF d = 0 THEN << >>
                    ELSE IF d \in InWindow THEN Append(until[d - 1], d) ELSE until[d - 1]
  BY <1>3 DEF Listing
<1> DEFINE T == {d \in 0..FinalDay : until[d] \notin Seq(InWindow)}
<1>6. T = {}
  <2>1. SUFFICES ASSUME T # {}
                 PROVE  FALSE
    OBVIOUS
  <2>2. T \subseteq Nat
    BY <1>1
  <2>3. PICK d \in T : \A n \in T : d <= n
    BY <2>1, <2>2, LeastNumber
  <2>4. d \in 0..FinalDay /\ until[d] \notin Seq(InWindow)
    BY <2>3
  <2>5. d # 0
    <3>1. 0 \in 0..FinalDay /\ << >> \in Seq(InWindow)
      BY <1>1
    <3>2. until[0] = << >>
      BY <1>5, <3>1
    <3> QED
      BY <2>4, <3>1, <3>2
  <2>6. d - 1 \in 0..FinalDay
    BY <1>1, <2>4, <2>5
  <2>7. until[d - 1] \in Seq(InWindow)
    BY <2>3, <2>4, <2>6
  <2>8. d \in InWindow => Append(until[d - 1], d) \in Seq(InWindow)
    BY <2>7
  <2> QED
    BY <1>5, <2>4, <2>5, <2>7, <2>8
<1> QED
  BY <1>1, <1>4, <1>6

----------------------------------------------------------------------------
\* The runs of a sequence of numbers, of any length.

\* What Runs holds, after each value up to end.
One == [best |-> [start |-> 1, length |-> 1], run |-> [start |-> 1, length |-> 1]]
Running(acc, values, end) ==
    acc = [i \in 1..end |-> IF i = 1 THEN One ELSE Grow(values, acc[i - 1], i)]

LEMMA RunningExists ==
    ASSUME NEW values, NEW len \in Nat \ {0}
    PROVE  \E acc : Running(acc, values, len)
<1> DEFINE T == {end \in 1..len : ~ \E acc : Running(acc, values, end)}
<1>1. SUFFICES ASSUME T # {}
               PROVE  FALSE
  <2>1. len \in 1..len
    OBVIOUS
  <2> QED
    BY <2>1
<1>2. T \subseteq Nat
  OBVIOUS
<1>3. PICK end \in T : \A n \in T : end <= n
  BY <1>1, <1>2, LeastNumber
<1>4. end \in 1..len /\ ~ \E acc : Running(acc, values, end)
  BY <1>3
<1>5. end # 1
  <2> DEFINE acc == [i \in 1..1 |-> One]
  <2>1. Running(acc, values, 1)
    BY DEF Running
  <2> QED
    BY <1>4, <2>1
<1>6. end - 1 \in 1..len /\ end - 1 \notin T
  BY <1>3, <1>4, <1>5
<1>7. PICK acc : Running(acc, values, end - 1)
  BY <1>6
<1>8. PICK last : last = Grow(values, acc[end - 1], end)
  OBVIOUS
<1> DEFINE longer == [i \in 1..end |-> IF i = end THEN last ELSE acc[i]]
<1>9. \A i \in 1..(end - 1) : longer[i] = acc[i]
  BY <1>4
<1>10. \A i \in 1..end : longer[i] = IF i = 1 THEN One ELSE Grow(values, longer[i - 1], i)
  <2>1. TAKE i \in 1..end
  <2>2. CASE i = end
    <3>1. end - 1 \in 1..(end - 1)
      BY <1>4, <1>5
    <3>2. longer[i - 1] = acc[end - 1] /\ longer[i] = last
      BY <1>9, <2>1, <2>2, <3>1
    <3> HIDE DEF longer
    <3> QED
      BY <1>5, <1>8, <2>2, <3>2
  <2>3. CASE i # end
    <3>1. i \in 1..(end - 1) /\ (i # 1 => i - 1 \in 1..(end - 1))
      BY <1>4, <2>1, <2>3
    <3>2. acc[i] = IF i = 1 THEN One ELSE Grow(values, acc[i - 1], i)
      BY <1>7, <3>1 DEF Running
    <3>3. longer[i] = acc[i] /\ (i # 1 => longer[i - 1] = acc[i - 1])
      BY <1>9, <3>1
    <3> HIDE DEF longer
    <3> QED
      BY <3>2, <3>3
  <2> QED
    BY <2>2, <2>3
<1>11. Running(longer, values, end)
  <2>1. longer = [i \in 1..end |-> longer[i]]
    OBVIOUS
  <2> HIDE DEF longer
  <2> QED
    BY <1>10, <2>1 DEF Running
<1> QED
  BY <1>4, <1>11

\* A row of n values from s on.
Row(values, s, n) == s + n - 1 <= Len(values) /\ Rising(values, s, n)

\* After i values: run is the row that ends there and cannot start earlier, best is a row,
\* and no row so far is longer than both.
RunAt(acc, values, i) ==
    /\ acc.run.start \in 1..i /\ acc.run.length = i - acc.run.start + 1
    /\ Rising(values, acc.run.start, acc.run.length)
    /\ acc.run.start > 1 => ~(values[acc.run.start - 1] < values[acc.run.start])
    /\ acc.best.start \in 1..i /\ acc.best.length \in 1..i
    /\ acc.best.start + acc.best.length - 1 <= i
    /\ Rising(values, acc.best.start, acc.best.length)
    /\ \A s \in 1..i, n \in 1..i :
          s + n - 1 <= i /\ Rising(values, s, n) => n <= acc.best.length \/ n <= acc.run.length

RunRecord == [best : [start : Nat, length : Nat], run : [start : Nat, length : Nat]]

LEMMA GrowKeepsTheRun ==
    ASSUME NEW values, NEW i \in Nat \ {0}, \A j \in 1..(i + 1) : values[j] \in Int,
           NEW acc \in RunRecord, RunAt(acc, values, i)
    PROVE  Grow(values, acc, i + 1) \in RunRecord /\ RunAt(Grow(values, acc, i + 1), values, i + 1)
<1>0. PICK start \in Nat, length \in Nat, from \in Nat, best \in Nat :
          acc = [best |-> [start |-> from, length |-> best],
                 run |-> [start |-> start, length |-> length]]
  BY DEF RunRecord
<1>1. /\ start \in 1..i /\ length = i - start + 1
      /\ Rising(values, start, length)
      /\ start > 1 => ~(values[start - 1] < values[start])
      /\ from \in 1..i /\ best \in 1..i
      /\ from + best - 1 <= i
      /\ Rising(values, from, best)
      /\ \A s \in 1..i, n \in 1..i :
            s + n - 1 <= i /\ Rising(values, s, n) => n <= best \/ n <= length
  BY <1>0 DEF RunAt
<1>2. CASE values[i + 1] > values[i]
  <2>1. PICK g : g = [best |-> [start |-> from, length |-> best],
                      run |-> [start |-> start, length |-> length + 1]]
    OBVIOUS
  <2>2. Grow(values, acc, i + 1) = g
    BY <1>0, <1>2, <2>1 DEF Grow
  <2>3. g \in RunRecord
    BY <2>1 DEF RunRecord
  <2>4. Rising(values, start, length + 1)
    BY <1>1, <1>2 DEF Rising
  <2>5. ASSUME NEW s \in 1..(i + 1), NEW n \in 1..(i + 1), s + n - 1 <= i + 1, Rising(values, s, n)
        PROVE  n <= best \/ n <= length + 1
    <3>1. CASE s + n - 1 <= i
      <4>1. s \in 1..i /\ n \in 1..i
        BY <3>1
      <4> QED
        BY <1>1, <2>5, <3>1, <4>1
    <3>2. CASE s + n - 1 = i + 1
      <4>1. CASE s >= start
        BY <1>1, <3>2, <4>1
      <4>2. CASE s < start
        <5>1. start - 1 \in s..(s + n - 2)
          BY <1>1, <3>2, <4>2
        <5>2. values[start - 1] < values[start - 1 + 1]
          BY <2>5, <5>1 DEF Rising
        <5>3. start - 1 + 1 = start /\ start > 1
          BY <1>1, <4>2
        <5> QED
          BY <1>1, <5>2, <5>3
      <4> QED
        BY <1>1, <4>1, <4>2
    <3> QED
      BY <2>5, <3>1, <3>2
  <2>6. /\ start \in 1..(i + 1) /\ length + 1 = (i + 1) - start + 1
        /\ from \in 1..(i + 1) /\ best \in 1..(i + 1) /\ from + best - 1 <= i + 1
    BY <1>1
  <2>7. RunAt(g, values, i + 1)
    BY <1>1, <2>1, <2>4, <2>5, <2>6 DEF RunAt
  <2> QED
    BY <2>2, <2>3, <2>7
<1>3. CASE ~(values[i + 1] > values[i])
  <2>1. PICK f \in Nat, b \in Nat : /\ length > best => f = start /\ b = length
                                    /\ ~(length > best) => f = from /\ b = best
    OBVIOUS
  <2>2. PICK g : g = [best |-> [start |-> f, length |-> b],
                      run |-> [start |-> i + 1, length |-> 1]]
    OBVIOUS
  <2>3. Grow(values, acc, i + 1) = g
    <3>1. Grow(values, acc, i + 1) =
             [best |-> IF length > best THEN [start |-> start, length |-> length]
                       ELSE [start |-> from, length |-> best],
              run |-> [start |-> i + 1, length |-> 1]]
      BY <1>0, <1>3 DEF Grow
    <3> QED
      BY <2>1, <2>2, <3>1
  <2>4. g \in RunRecord
    BY <2>2 DEF RunRecord
  <2>5. /\ f \in 1..i /\ b \in 1..i /\ f + b - 1 <= i
        /\ Rising(values, f, b) /\ best <= b /\ length <= b
    BY <1>1, <2>1
  <2>6. ASSUME NEW s \in 1..(i + 1), NEW n \in 1..(i + 1), s + n - 1 <= i + 1, Rising(values, s, n)
        PROVE  n <= b \/ n <= 1
    <3>1. CASE s + n - 1 <= i
      <4>1. s \in 1..i /\ n \in 1..i
        BY <3>1
      <4> QED
        BY <1>1, <2>5, <2>6, <3>1, <4>1
    <3>2. CASE s + n - 1 = i + 1 /\ n > 1
      <4>1. i \in s..(s + n - 2)
        BY <3>2
      <4>2. values[i] < values[i + 1]
        BY <2>6, <4>1 DEF Rising
      <4>3. values[i] \in Int /\ values[i + 1] \in Int
        <5>1. i \in 1..(i + 1) /\ i + 1 \in 1..(i + 1)
          OBVIOUS
        <5> QED
          BY <5>1
      <4> QED
        BY <1>3, <4>2, <4>3
    <3> QED
      BY <2>6, <3>1, <3>2
  <2>7. Rising(values, i + 1, 1)
    BY DEF Rising
  <2>8. ~(values[i + 1 - 1] < values[i + 1])
    <3>1. values[i] \in Int /\ values[i + 1] \in Int
      <4>1. i \in 1..(i + 1) /\ i + 1 \in 1..(i + 1)
        OBVIOUS
      <4> QED
        BY <4>1
    <3>2. i + 1 - 1 = i
      OBVIOUS
    <3>3. ~(values[i] < values[i + 1])
      BY <1>3, <3>1
    <3> QED
      BY <3>2, <3>3
  <2>9. /\ i + 1 \in 1..(i + 1) /\ 1 = (i + 1) - (i + 1) + 1
        /\ f \in 1..(i + 1) /\ b \in 1..(i + 1) /\ f + b - 1 <= i + 1
    BY <2>5
  <2>10. RunAt(g, values, i + 1)
    BY <2>2, <2>5, <2>6, <2>7, <2>8, <2>9 DEF RunAt
  <2> QED
    BY <2>3, <2>4, <2>10
<1> QED
  BY <1>2, <1>3

LEMMA RunsEnd ==
    ASSUME NEW values, Len(values) \in Nat \ {0}, \A j \in 1..Len(values) : values[j] \in Int
    PROVE  Runs(values) \in RunRecord /\ RunAt(Runs(values), values, Len(values))
<1>1. PICK len \in Nat \ {0} : len = Len(values)
  OBVIOUS
<1>2. PICK some : Running(some, values, len)
  BY RunningExists
<1> DEFINE acc == CHOOSE acc : Running(acc, values, len)
<1>3. Running(acc, values, len)
  BY <1>2
<1>4. Runs(values) = acc[len]
  BY <1>1 DEF Runs, Running, One
<1> HIDE DEF acc
<1>5. \A i \in 1..len : acc[i] = IF i = 1 THEN One ELSE Grow(values, acc[i - 1], i)
  BY <1>3 DEF Running
<1> DEFINE Good(i) == acc[i] \in RunRecord /\ RunAt(acc[i], values, i)
           T == {i \in 1..len : ~Good(i)}
<1>6. T = {}
  <2>1. SUFFICES ASSUME T # {}
                 PROVE  FALSE
    OBVIOUS
  <2>2. T \subseteq Nat
    OBVIOUS
  <2>3. PICK i \in T : \A n \in T : i <= n
    BY <2>1, <2>2, LeastNumber
  <2>4. i \in 1..len /\ ~Good(i)
    BY <2>3
  <2>5. Good(1)
    <3>1. 1 \in 1..len
      OBVIOUS
    <3>2. acc[1] = One
      BY <1>5, <3>1
    <3>3. One \in RunRecord
      BY DEF One, RunRecord
    <3>4. Rising(values, 1, 1)
      BY DEF Rising
    <3>5. RunAt(One, values, 1)
      BY <3>4 DEF RunAt, One
    <3> QED
      BY <3>2, <3>3, <3>5
  <2>6. PICK k \in Nat \ {0} : k + 1 = i /\ k \in 1..len /\ i # 1
    <3>1. i # 1
      <4> HIDE DEF Good
      <4> QED
        BY <2>4, <2>5
    <3>2. i - 1 \in Nat \ {0} /\ (i - 1) + 1 = i /\ i - 1 \in 1..len
      BY <2>4, <3>1
    <3> QED
      BY <3>1, <3>2
  <2>7. Good(k)
    <3>1. k \notin T
      <4> HIDE DEF Good
      <4> QED
        BY <2>3, <2>6
    <3> HIDE DEF Good
    <3> QED
      BY <2>6, <3>1
  <2>8. PICK prev \in RunRecord : prev = acc[k]
    BY <2>7
  <2>9. acc[i] = Grow(values, prev, k + 1)
    <3>1. i - 1 = k
      BY <2>6
    <3> QED
      BY <1>5, <2>4, <2>6, <2>8, <3>1
  <2>10. \A j \in 1..(k + 1) : values[j] \in Int
    BY <1>1, <2>4, <2>6
  <2>11. /\ Grow(values, prev, k + 1) \in RunRecord
         /\ RunAt(Grow(values, prev, k + 1), values, k + 1)
    BY <2>7, <2>8, <2>10, GrowKeepsTheRun
  <2> QED
    BY <2>4, <2>6, <2>9, <2>11
<1>7. Good(len)
  BY <1>6
<1> QED
  BY <1>1, <1>4, <1>7

\* The longest run is a row, and no row is longer.
LEMMA LongestRunIsLongest ==
    ASSUME NEW values, Len(values) \in Nat \ {0}, \A j \in 1..Len(values) : values[j] \in Int
    PROVE  \E s, n \in Nat \ {0} :
              /\ LongestRun(values) = [start |-> s, length |-> n]
              /\ Row(values, s, n)
              /\ \A i, k \in Nat \ {0} : Row(values, i, k) => k <= n
<1>1. PICK len \in Nat \ {0} : len = Len(values)
  OBVIOUS
<1>2. PICK acc \in RunRecord : acc = Runs(values)
  BY RunsEnd
<1>3. RunAt(acc, values, len)
  BY <1>1, <1>2, RunsEnd
<1>4. PICK start \in Nat, length \in Nat, from \in Nat, best \in Nat :
          acc = [best |-> [start |-> from, length |-> best],
                 run |-> [start |-> start, length |-> length]]
  BY DEF RunRecord
<1>5. /\ start \in 1..len /\ length = len - start + 1 /\ Rising(values, start, length)
      /\ from \in 1..len /\ best \in 1..len /\ from + best - 1 <= len
      /\ Rising(values, from, best)
      /\ \A s \in 1..len, n \in 1..len :
            s + n - 1 <= len /\ Rising(values, s, n) => n <= best \/ n <= length
  BY <1>3, <1>4 DEF RunAt
<1>6. LongestRun(values) = IF length > best THEN [start |-> start, length |-> length]
                           ELSE [start |-> from, length |-> best]
  BY <1>2, <1>4 DEF LongestRun
<1>7. PICK s \in Nat, n \in Nat : /\ length > best => s = start /\ n = length
                                  /\ ~(length > best) => s = from /\ n = best
  OBVIOUS
<1>8. LongestRun(values) = [start |-> s, length |-> n]
  BY <1>6, <1>7
<1>9. /\ s \in 1..len /\ n \in 1..len /\ s + n - 1 <= len
      /\ Rising(values, s, n) /\ best <= n /\ length <= n
  BY <1>5, <1>7
<1>10. ASSUME NEW i \in Nat \ {0}, NEW k \in Nat \ {0}, Row(values, i, k)
       PROVE  k <= n
  <2>1. i \in 1..len /\ k \in 1..len /\ i + k - 1 <= len /\ Rising(values, i, k)
    BY <1>1, <1>10 DEF Row
  <2>2. k <= best \/ k <= length
    BY <1>5, <2>1
  <2> QED
    BY <1>5, <1>9, <2>1, <2>2
<1> QED
  BY <1>1, <1>8, <1>9, <1>10 DEF Row

\* Of a list of days and their values, in any numbers.
LEMMA TrendIsTheLongestRow ==
    ASSUME NEW S, NEW days \in Seq(S), NEW values, Len(values) = Len(days),
           DOMAIN values = 1..Len(days),
           \A j \in 1..Len(days) : values[j] \in Int,
           NEW rows,
           rows = {n \in 3..Len(values) :
                      \E i \in 1..(Len(values) - n + 1) : Rising(values, i, n)}
    PROVE  LET named == Trend(days, values)
           IN IF rows = {} THEN named = << >>
              ELSE /\ Len(named) \in rows /\ \A n \in rows : n <= Len(named)
                   /\ \E i \in DOMAIN values :
                         /\ i + Len(named) - 1 <= Len(values)
                         /\ named = SubSeq(days, i, i + Len(named) - 1)
                         /\ Rising(values, i, Len(named))
<1>1. PICK len \in Nat : len = Len(days)
  <2>1. Len(days) \in Nat
    BY LenProperties
  <2> QED
    BY <2>1
<1>2. \A n \in rows : n \in 3..len /\ \E i \in 1..(len - n + 1) : Rising(values, i, n)
  BY <1>1
<1>3. CASE len < 3
  <2>1. rows = {}
    BY <1>2, <1>3
  <2>2. Trend(days, values) = << >>
    BY <1>1, <1>3 DEF Trend
  <2> QED
    BY <2>1, <2>2
<1>4. CASE ~(len < 3)
  <2>1. PICK s \in Nat \ {0}, n \in Nat \ {0} :
            /\ LongestRun(values) = [start |-> s, length |-> n]
            /\ Row(values, s, n)
            /\ \A i, k \in Nat \ {0} : Row(values, i, k) => k <= n
    <3>1. Len(values) \in Nat \ {0}
      BY <1>1, <1>4
    <3> QED
      BY <1>1, <3>1, LongestRunIsLongest
  <2>2. s + n - 1 <= len /\ Rising(values, s, n)
    BY <1>1, <2>1 DEF Row
  <2>3. \A k \in rows : k <= n
    <3>1. TAKE k \in rows
    <3>2. k \in 3..len
      BY <1>2, <3>1
    <3>3. PICK i \in 1..(len - k + 1) : Rising(values, i, k)
      BY <1>2, <3>1
    <3>4. i \in Nat \ {0} /\ k \in Nat \ {0} /\ i + k - 1 <= len
      BY <3>2, <3>3
    <3>5. Row(values, i, k)
      BY <1>1, <3>3, <3>4 DEF Row
    <3> QED
      BY <2>1, <3>4, <3>5
  <2>4. CASE n < 3
    <3>1. rows = {}
      BY <1>2, <2>3, <2>4
    <3>2. Trend(days, values) = << >>
      BY <2>1, <2>4 DEF Trend
    <3> QED
      BY <3>1, <3>2
  <2>5. CASE ~(n < 3)
    <3>1. PICK named : named = Trend(days, values)
      OBVIOUS
    <3>2. named = SubSeq(days, s, s + n - 1)
      BY <1>1, <1>4, <2>1, <2>5, <3>1 DEF Trend
    <3>3. Len(named) = n
      <4>1. \A i \in s..(s + n - 1) : days[i] \in S
        BY <1>1, <2>2
      <4>2. s <= s + n - 1 /\ (s + n - 1) - s + 1 = n
        OBVIOUS
      <4> QED
        BY <3>2, <4>1, <4>2, SubSeqProperties
    <3>4. n \in 3..len /\ s \in 1..(len - n + 1)
      BY <2>2, <2>5
    <3>5. n \in rows
      BY <1>1, <2>2, <3>4
    <3>6. s \in DOMAIN values
      BY <1>1, <3>4
    <3>7. s + n - 1 <= Len(values)
      BY <1>1, <2>2
    <3> QED
      BY <2>2, <2>3, <3>1, <3>2, <3>3, <3>5, <3>6, <3>7
  <2> QED
    BY <2>4, <2>5
<1> QED
  BY <1>3, <1>4

----------------------------------------------------------------------------
\* The files.

LEMMA FilesHold ==
    ASSUME NEW d \in SessionDays, SessionsTypeOK, sessions[d].file = "whole"
    PROVE  sessions[d].risk \in Int /\ sessions[d].level \in Int
<1>1. PICK f : f = sessions[d]
  OBVIOUS
<1>2. f \in SessionRecord \cup {Missing, TornFile}
  BY <1>1 DEF SessionsTypeOK
<1>3. f.file = "whole"
  BY <1>1
<1>4. f \in SessionRecord
  BY <1>2, <1>3 DEF Missing, TornFile
<1>5. f.risk \in RiskScores /\ f.level \in Containment
  BY <1>4 DEF SessionRecord
<1>6. RiskScores \subseteq 0..100 /\ Containment \subseteq 0..5
  BY SessionsAssumption
<1>7. f.risk \in 0..100 /\ f.level \in 0..5
  BY <1>5, <1>6
<1> QED
  BY <1>1, <1>7

LEMMA ValuesAreNumbers ==
    ASSUME SessionsTypeOK, NEW values \in {Risk(Analyzed), Level(Analyzed)}
    PROVE  /\ Len(values) = Len(Analyzed) /\ DOMAIN values = 1..Len(Analyzed)
           /\ \A n \in 1..Len(Analyzed) : values[n] \in Int
<1>1. PICK days \in Seq(InWindow) : days = Analyzed
  BY AnalyzedAreListed
<1>2. PICK len \in Nat : len = Len(days) /\ DOMAIN days = 1..len
  BY <1>1
<1>3. \A n \in 1..len : sessions[days[n]].risk \in Int /\ sessions[days[n]].level \in Int
  <2>1. TAKE n \in 1..len
  <2>2. days[n] \in SessionDays /\ sessions[days[n]].file = "whole"
    BY <1>2, <2>1 DEF InWindow
  <2> QED
    BY <2>2, FilesHold
<1>4. CASE values = Risk(Analyzed)
  <2>1. values = [n \in 1..len |-> sessions[days[n]].risk]
    BY <1>1, <1>2, <1>4 DEF Risk
  <2>2. Len(values) = len
    BY <2>1
  <2> QED
    BY <1>1, <1>2, <1>3, <2>1, <2>2
<1>5. CASE values = Level(Analyzed)
  <2>1. values = [n \in 1..len |-> sessions[days[n]].level]
    BY <1>1, <1>2, <1>5 DEF Level
  <2>2. Len(values) = len
    BY <2>1
  <2> QED
    BY <1>1, <1>2, <1>3, <2>1, <2>2
<1> QED
  BY <1>4, <1>5

LEMMA SessionsStart ==
    ASSUME SessionsInit
    PROVE  SessionsTypeOK
BY SessionsAssumption DEF SessionsInit, SessionsTypeOK, SessionDays

LEMMA SessionsSteps ==
    ASSUME SessionsTypeOK, [SessionsNext]_sessionStore
    PROVE  SessionsTypeOK'
<1> DEFINE File == SessionRecord \cup {Missing, TornFile}
           Fits == /\ sessionDay' \in SessionDays /\ sessions' \in [SessionDays -> File]
                   /\ \A d \in SessionDays : d > sessionDay' => sessions'[d] = Missing
<1>1. PICK f \in [SessionDays -> File] : f = sessions
  BY DEF SessionsTypeOK
<1>2. sessionDay \in SessionDays /\ SessionDays \subseteq Nat
  BY DEF SessionsTypeOK, SessionDays
<1>3. Missing \in File /\ TornFile \in File
  OBVIOUS
<1>4. \A risk \in RiskScores, held \in Containment :
         [file |-> "whole", risk |-> risk, level |-> held] \in File
  BY DEF SessionRecord
<1>5. SUFFICES Fits
  BY DEF SessionsTypeOK, SessionRecord, Missing, TornFile
<1>6. \A d \in SessionDays : d > sessionDay => f[d] = Missing
  BY <1>1 DEF SessionsTypeOK
<1> HIDE DEF File
<1>7. ASSUME NEW d \in SessionDays, NEW file \in File, d <= sessionDay,
             sessions' = [sessions EXCEPT ![d] = file], UNCHANGED sessionDay
      PROVE  Fits
  BY <1>1, <1>2, <1>6, <1>7
<1>8. ASSUME NEW d \in SessionDays, NEW risk \in RiskScores, NEW held \in Containment,
             SaveSession(d, risk, held)
      PROVE  Fits
  BY <1>4, <1>7, <1>8 DEF SaveSession
<1>9. ASSUME NEW d \in SessionDays, TearSession(d)
      PROVE  Fits
  BY <1>3, <1>7, <1>9 DEF TearSession
<1>10. ASSUME NEW d \in SessionDays, DeleteSession(d)
       PROVE  Fits
  BY <1>1, <1>2, <1>3, <1>6, <1>10 DEF DeleteSession
<1>11. CASE PruneOld
  <2>1. sessions' = [d \in SessionDays |->
           IF sessions[d].file = "whole" /\ d < sessionDay - MaxAge THEN Missing ELSE f[d]]
    BY <1>1, <1>11 DEF PruneOld
  <2> QED
    BY <1>1, <1>2, <1>3, <1>6, <1>11, <2>1 DEF PruneOld
<1>12. CASE NextSessionDay
  <2>1. sessionDay + 1 \in SessionDays
    BY <1>2, <1>12, SessionsAssumption DEF NextSessionDay, SessionDays
  <2> QED
    BY <1>1, <1>2, <1>6, <1>12, <2>1 DEF NextSessionDay
<1>13. CASE UNCHANGED sessionStore
  BY <1>1, <1>2, <1>6, <1>13 DEF sessionStore
<1> QED
  BY <1>8, <1>9, <1>10, <1>11, <1>12, <1>13 DEF SessionsNext

LEMMA SessionsAlways == SessionsSpec => []SessionsTypeOK
<1>1. SessionsInit => SessionsTypeOK
  BY SessionsStart
<1>2. SessionsTypeOK /\ [SessionsNext]_sessionStore => SessionsTypeOK'
  BY SessionsSteps
<1> QED
  BY <1>1, <1>2, PTL DEF SessionsSpec

\* Of any number of sessions, with any scores and levels, and whatever was saved again, torn,
\* deleted or pruned before the analysis: the trend that _check_escalation_trend reports is a
\* row of sessions each above the one before, none is longer, and three in a row are reported
\* (correlator.py).
THEOREM TrendsAreReal == SessionsSpec => []TrendIsReal
<1>1. ASSUME SessionsTypeOK
      PROVE  TrendIsReal
  <2>1. PICK days \in Seq(InWindow) : days = Analyzed
    BY AnalyzedAreListed
  <2>2. ASSUME NEW values \in {Risk(Analyzed), Level(Analyzed)}
        PROVE  LET named == Trend(Analyzed, values)
                   rows == {n \in 3..Len(values) :
                               \E i \in 1..(Len(values) - n + 1) : Rising(values, i, n)}
               IN IF rows = {} THEN named = << >>
                  ELSE /\ Len(named) \in rows /\ \A n \in rows : n <= Len(named)
                       /\ \E i \in DOMAIN values :
                             /\ i + Len(named) - 1 <= Len(values)
                             /\ named = SubSeq(Analyzed, i, i + Len(named) - 1)
                             /\ Rising(values, i, Len(named))
    <3>1. /\ Len(values) = Len(days) /\ DOMAIN values = 1..Len(days)
          /\ \A n \in 1..Len(days) : values[n] \in Int
      BY <1>1, <2>1, <2>2, ValuesAreNumbers
    <3> QED
      BY <2>1, <3>1, TrendIsTheLongestRow
  <2> QED
    BY <2>2 DEF TrendIsReal
<1> QED
  BY <1>1, SessionsAlways, PTL
=============================================================================
