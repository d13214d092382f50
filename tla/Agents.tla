------------------------------- MODULE Agents -------------------------------
(***************************************************************************)
(* AgentTopology (aigis/multi_agent/topology.py): the agents, who may talk *)
(* to whom, who did, and how risky it was.  Every method takes one lock    *)
(* that a thread cannot take twice.                                        *)
(***************************************************************************)
EXTENDS Integers, FiniteSets

CONSTANTS
    AgentIds,
    Callers,      \* the threads that call the topology
    MaxRecorded   \* bound: the messages of an edge

VARIABLES
    agents,    \* agents[a]: the trust of a, or "none" while it is not registered
    allowed,   \* _allowed_edges
    edges,     \* edges[e]: how many messages, and the sum of their risks
    holder,    \* holder of _lock: a set of at most one caller
    calling,   \* calling[c]: the method that c is in
    seen       \* seen[c]: the last summary that c got

topology == <<agents, allowed, edges, holder, calling, seen>>

Pairs == AgentIds \X AgentIds
Trusts == {"untrusted", "low", "medium", "high"}
Methods == {"register", "allow", "record", "summary"}

\* The risk of a message, out of 100.
Risks == {0, 25, 70}

NoSummary == [unexpected |-> 0, risky |-> 0, violations |-> {}]

AgentsTypeOK ==
    /\ agents \in [AgentIds -> Trusts \cup {"none"}]
    /\ allowed \subseteq Pairs
    /\ edges \in [Pairs -> [messages : 0..MaxRecorded, total : 0..(MaxRecorded * 100)]]
    /\ holder \subseteq Callers /\ Cardinality(holder) <= 1
    /\ calling \in [Callers -> Methods \cup {"nothing", "unexpected_edges"}]
    /\ seen \in [Callers -> [unexpected : 0..Cardinality(Pairs), risky : 0..Cardinality(Pairs),
                             violations : SUBSET Pairs]]

AgentsInit ==
    /\ agents = [a \in AgentIds |-> "none"]
    /\ allowed = {}
    /\ edges = [e \in Pairs |-> [messages |-> 0, total |-> 0]]
    /\ holder = {}
    /\ calling = [c \in Callers |-> "nothing"]
    /\ seen = [c \in Callers |-> NoSummary]
----------------------------------------------------------------------------
Rank(trust) ==
    CASE trust = "low" -> 1 [] trust = "medium" -> 2 [] trust = "high" -> 3 [] OTHER -> 0

Used == {e \in Pairs : edges[e].messages > 0}

\* avg_risk_score of an edge is above limit.
Riskier(e, limit) == edges[e].total > limit * edges[e].messages

UnexpectedEdges ==
    {e \in Used : \/ agents[e[1]] = "none" \/ agents[e[2]] = "none"
                  \/ allowed # {} /\ e \notin allowed}

TrustViolations ==
    {e \in Used : /\ agents[e[1]] # "none" /\ agents[e[2]] # "none"
                  /\ Rank(agents[e[2]]) > Rank(agents[e[1]])
                  /\ Riskier(e, 20)}

Call(c, method) ==
    /\ calling[c] = "nothing"
    /\ calling' = [calling EXCEPT ![c] = method]
    /\ UNCHANGED <<agents, allowed, edges, holder, seen>>

\* Under the lock from first to last.
Locked(c, method) ==
    /\ calling[c] = method
    /\ holder = {}
    /\ calling' = [calling EXCEPT ![c] = "nothing"]
    /\ UNCHANGED <<holder, seen>>

\* Again for a known agent too: its trust is what the last call says.
RegisterAgent(c, a, trust) ==
    /\ Locked(c, "register")
    /\ agents' = [agents EXCEPT ![a] = trust]
    /\ UNCHANGED <<allowed, edges>>

AllowCommunication(c, e) ==
    /\ Locked(c, "allow")
    /\ allowed' = allowed \cup {e}
    /\ UNCHANGED <<agents, edges>>

RecordCommunication(c, e, risk) ==
    /\ Locked(c, "record")
    /\ edges[e].messages < MaxRecorded
    /\ edges' = [edges EXCEPT ![e] = [messages |-> @.messages + 1, total |-> @.total + risk]]
    /\ UNCHANGED <<agents, allowed>>

\* summary calls unexpected_edges, a method that takes the lock, while it holds it.
StartSummary(c) ==
    /\ calling[c] = "summary"
    /\ holder = {}
    /\ holder' = {c}
    /\ calling' = [calling EXCEPT ![c] = "unexpected_edges"]
    /\ UNCHANGED <<agents, allowed, edges, seen>>

\* With no allowed edge the call is left out; else it waits for the lock.
EndSummary(c) ==
    /\ calling[c] = "unexpected_edges"
    /\ allowed = {} \/ holder = {}
    /\ holder' = holder \ {c}
    /\ seen' = [seen EXCEPT ![c] =
                  [unexpected |-> IF allowed = {} THEN 0 ELSE Cardinality(UnexpectedEdges),
                   risky |-> Cardinality({e \in Used : Riskier(e, 30)}),
                   violations |-> TrustViolations]]
    /\ calling' = [calling EXCEPT ![c] = "nothing"]
    /\ UNCHANGED <<agents, allowed, edges>>

AgentsNext ==
    \/ \E c \in Callers, m \in Methods : Call(c, m)
    \/ \E c \in Callers, a \in AgentIds, trust \in {"low", "high"} : RegisterAgent(c, a, trust)
    \/ \E c \in Callers, e \in Pairs : AllowCommunication(c, e)
    \/ \E c \in Callers, e \in Pairs, risk \in Risks : RecordCommunication(c, e, risk)
    \/ \E c \in Callers : StartSummary(c)
    \/ \E c \in Callers : EndSummary(c)

AgentsSpec ==
    /\ AgentsInit /\ [][AgentsNext]_topology
    /\ \A c \in Callers : WF_topology(StartSummary(c)) /\ WF_topology(EndSummary(c))
----------------------------------------------------------------------------
\* "All public methods are thread-safe" (topology.py): a call of summary returns.
SummaryReturns ==
    \A c \in Callers : calling[c] = "summary" ~> calling[c] = "nothing"
=============================================================================
