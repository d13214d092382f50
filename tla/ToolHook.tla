------------------------------ MODULE ToolHook ------------------------------
(***************************************************************************)
(* The hook that an agent runs before each tool call (HOOK_SCRIPT of       *)
(* aigis/adapters/claude_code.py) and the policy it reads (aigis/policy.py)*)
(* from a file that the command line and the operator rewrite.  Each hook  *)
(* is a process of its own: one stands for all.  It answers with exit code *)
(* 0 or 2; one that dies of an exception (exit code 1) or is stopped at    *)
(* its timeout has not answered, and what becomes of the call is the       *)
(* agent's to say.                                                         *)
(***************************************************************************)
EXTENDS Integers, Sequences, FiniteSets

Sets == INSTANCE FiniteSetsExt

CONSTANTS
    HookScores,   \* what scan may give
    MaxRewrites   \* bound: how often the file is rewritten

VARIABLES
    policyFile,   \* "missing", "torn" or "whole", the default policy's rules that it
                  \* has, the default decision
    rewrites,     \* how often it was rewritten
    hookStep,     \* where the hook is
    toolCall,     \* the call that it judges
    answer,       \* what the policy says of it
    judgedBy      \* history: the file that it was judged by

hooking == <<policyFile, rewrites, hookStep, toolCall, answer, judgedBy>>

ASSUME HookAssumption == HookScores \subseteq 0..100 /\ MaxRewrites \in Nat

\* _map_action
TOOL_ACTION_MAP ==
    [Bash |-> "shell:exec", Read |-> "file:read", Write |-> "file:write",
     Edit |-> "file:write", Glob |-> "file:search", Grep |-> "file:search", WebFetch |-> "network:fetch",
     WebSearch |-> "network:search", Agent |-> "agent:spawn", NotebookEdit |-> "file:write",
     mcp |-> "mcp:tool_call"]
AgentTools == DOMAIN TOOL_ACTION_MAP
Actions == {TOOL_ACTION_MAP[t] : t \in AgentTools}

\* _get_scannable_text: the tools whose input is scanned.
Scannable == {"Bash", "Write", "Edit", "WebSearch"}

\* named: the target of a rule is a name, and not "*".
Rule(id, actions, decision, named, above) ==
    [id |-> id, actions |-> actions, decision |-> decision, named |-> named, above |-> above]

FileActions == {"file:read", "file:write", "file:search"}
Shell(id, decision) == Rule(id, {"shell:exec"}, decision, TRUE, 0)
File(id, actions, decision) == Rule(id, actions, decision, TRUE, 0)
Threshold(id, decision, above) == Rule(id, Actions, decision, FALSE, above)

default_rules ==
    <<Shell("dangerous_commands", "deny"), Shell("dangerous_format", "deny"),
      Shell("dangerous_dd", "deny"), Shell("sudo_commands", "review"),
      File("env_file_protection", {"file:write"}, "deny"),
      File("secrets_dir_protection", FileActions, "review"),
      File("ssh_key_protection", FileActions, "deny"),
      File("credentials_protection", {"file:write"}, "deny"),
      Shell("pipe_to_shell", "deny"), Shell("pipe_to_sh", "deny"),
      Shell("git_force_push", "deny"), Shell("git_push_review", "review"),
      Rule("agent_spawn_review", {"agent:spawn"}, "review", FALSE, 0),
      Rule("llm_prompt_scan", {"llm:prompt"}, "allow", FALSE, 0)>>

\* Mutant: the two thresholds in the other order.
MediumFirst ==
    default_rules \o <<Threshold("risk_threshold_medium", "review", 40),
                       Threshold("risk_threshold_critical", "deny", 80)>>

default_policy ==
    default_rules \o <<Threshold("risk_threshold_critical", "deny", 80),
                       Threshold("risk_threshold_medium", "review", 40)>>

PolicyRuleIds == {default_policy[i].id : i \in DOMAIN default_policy}
Decisions == {"allow", "deny", "review"}

\* hits: the named rules whose target the call matches.
NamedFor(tool) ==
    {default_policy[i].id : i \in {i \in DOMAIN default_policy :
        default_policy[i].named /\ TOOL_ACTION_MAP[tool] \in default_policy[i].actions}}

ToolCalls == [tool : AgentTools, risk : HookScores \cup {0}, hits : SUBSET PolicyRuleIds]

\* rules: those of the default policy that are left, in its order.
PolicyFiles == [state : {"missing", "torn", "whole"}, rules : SUBSET DOMAIN default_policy,
                default : Decisions]

HookTypeOK ==
    /\ policyFile \in PolicyFiles /\ judgedBy \in PolicyFiles /\ rewrites \in 0..MaxRewrites
    /\ hookStep \in {"idle", "called", "scanned", "judged", "ran", "blocked", "unanswered"}
    /\ toolCall \in ToolCalls /\ toolCall.hits \subseteq NamedFor(toolCall.tool)
    /\ answer \in Decisions

NoCall == [tool |-> "Read", risk |-> 0, hits |-> {}]
NoPolicyFile == [state |-> "missing", rules |-> DOMAIN default_policy, default |-> "allow"]

HookInit ==
    /\ policyFile = NoPolicyFile /\ rewrites = 0 /\ judgedBy = NoPolicyFile
    /\ hookStep = "idle" /\ answer = "allow"
    /\ toolCall = NoCall
----------------------------------------------------------------------------
\* save_policy, or an editor: the file is truncated, then written.
OpenPolicy(rules, default) ==
    /\ rewrites < MaxRewrites /\ rewrites' = rewrites + 1
    /\ policyFile' = [state |-> "torn", rules |-> rules, default |-> default]
    /\ UNCHANGED <<hookStep, toolCall, answer, judgedBy>>

WritePolicy ==
    /\ policyFile.state = "torn"
    /\ policyFile' = [policyFile EXCEPT !.state = "whole"]
    /\ UNCHANGED <<rewrites, hookStep, toolCall, answer, judgedBy>>

ResetPolicy == OpenPolicy(DOMAIN default_policy, "allow")
Edit(id) == OpenPolicy({i \in policyFile.rules : default_policy[i].id # id}, "allow")
DenyByDefault == OpenPolicy(policyFile.rules, "deny")

\* The agent is about to call a tool.  Input that is no JSON is blocked; input that is no
\* UTF-8, no object, or has a command or a path that is no string is an exception that
\* nothing catches.
Ask(tool, hits) ==
    /\ hookStep = "idle"
    /\ toolCall' = [tool |-> tool, risk |-> 0, hits |-> hits]
    /\ hookStep' \in {"called", "blocked", "unanswered"}
    /\ UNCHANGED <<policyFile, rewrites, answer, judgedBy>>

\* The timeout of the hook's configuration.
HookTimesOut ==
    /\ hookStep \in {"called", "scanned", "judged"}
    /\ hookStep' = "unanswered"
    /\ UNCHANGED <<policyFile, rewrites, toolCall, answer, judgedBy>>

Scan(risk) ==
    /\ hookStep = "called" /\ toolCall.tool \in Scannable
    /\ toolCall' = [toolCall EXCEPT !.risk = risk]
    /\ hookStep' = "scanned"
    /\ UNCHANGED <<policyFile, rewrites, answer, judgedBy>>

ScanFails ==
    /\ hookStep = "called" /\ toolCall.tool \in Scannable
    /\ hookStep' = "blocked"
    /\ UNCHANGED <<policyFile, rewrites, toolCall, answer, judgedBy>>

\* Another tool, or an empty text.
NothingToScan ==
    /\ hookStep = "called"
    /\ hookStep' = "scanned"
    /\ UNCHANGED <<policyFile, rewrites, toolCall, answer, judgedBy>>

Applies(rule, c) ==
    /\ TOOL_ACTION_MAP[c.tool] \in rule.actions
    /\ rule.named => rule.id \in c.hits
    /\ c.risk >= rule.above

\* evaluate: the first rule that applies.
Evaluate(c, rules, default) ==
    LET matching == {i \in rules : Applies(default_policy[i], c)}
    IN IF matching = {} THEN default ELSE default_policy[Sets!Min(matching)].decision

\* load_policy: of a torn file it gets some of the rules, and "allow" for what is not
\* there any more; one that cannot be read or parsed denies.
Judge ==
    /\ hookStep = "scanned"
    /\ hookStep' = "judged" /\ judgedBy' = policyFile
    /\ IF policyFile.state = "torn"
       THEN \E k \in 0..Len(default_policy), default \in {"allow", policyFile.default} :
                answer' \in {"deny", Evaluate(toolCall, {i \in policyFile.rules : i <= k}, default)}
       ELSE answer' = Evaluate(toolCall, policyFile.rules, policyFile.default)
    /\ UNCHANGED <<policyFile, rewrites, toolCall>>

\* The exit code, after the event was logged; a review is logged and runs.
Exit ==
    /\ hookStep = "judged"
    /\ hookStep' = IF answer = "deny" THEN "blocked" ELSE "ran"
    /\ UNCHANGED <<policyFile, rewrites, toolCall, answer, judgedBy>>

\* The process is gone: the next one starts from nothing.
NextHook ==
    /\ hookStep \in {"ran", "blocked", "unanswered"}
    /\ hookStep' = "idle" /\ answer' = "allow" /\ judgedBy' = NoPolicyFile
    /\ toolCall' = NoCall
    /\ UNCHANGED <<policyFile, rewrites>>

HookNext ==
    \/ ResetPolicy
    \/ \E id \in PolicyRuleIds : Edit(id)
    \/ DenyByDefault
    \/ WritePolicy
    \/ \E tool \in AgentTools : \E hits \in SUBSET NamedFor(tool) :
        Cardinality(hits) <= 2 /\ Ask(tool, hits)
    \/ HookTimesOut
    \/ \E risk \in HookScores : Scan(risk)
    \/ ScanFails
    \/ NothingToScan
    \/ Judge
    \/ Exit
    \/ NextHook

HookSpec == HookInit /\ [][HookNext]_hooking
----------------------------------------------------------------------------
\* The hook lets a call that scored 80 or more run only if a rule by name let it, or if
\* the file was being rewritten when it was judged, or had lost its critical threshold;
\* and one that only denying rules name never, but for those two reasons.
CriticalIsStopped ==
    hookStep = "ran" /\ judgedBy.state # "torn" =>
        LET has == {default_policy[i].id : i \in judgedBy.rules}
            named == {i \in judgedBy.rules : default_policy[i].id \in toolCall.hits}
        IN /\ toolCall.risk >= 80 /\ "risk_threshold_critical" \in has => named # {}
           /\ named # {} => \E i \in named : default_policy[i].decision # "deny"
=============================================================================
