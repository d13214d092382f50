--------------------------- MODULE PatternTables ---------------------------
(***************************************************************************)
(* The pattern lists that texts are searched with, each in its order: the  *)
(* category and the base score of a pattern, all that the scorers use of   *)
(* one that matched.  What it matches is left open.                        *)
(***************************************************************************)
EXTENDS Integers, Sequences

Scored(category, scores) ==
    [i \in DOMAIN scores |-> [category |-> category, base |-> scores[i]]]

----------------------------------------------------------------------------
\* aigis/filters/patterns.py, the lists of Guard.
PROMPT_INJECTION_PATTERNS == Scored("prompt_injection", <<40, 50, 45, 35, 45, 55>>)
SQL_INJECTION_PATTERNS == Scored("sql_injection", <<70, 80, 65, 55, 70, 75, 80, 65>>)
DATA_EXFIL_PATTERNS == Scored("data_exfiltration", <<50, 60, 65, 70, 70, 65, 65>>)
COMMAND_INJECTION_PATTERNS == Scored("command_injection", <<70, 60>>)
PII_INPUT_PATTERNS == Scored("pii_input", <<40, 70, 35, 25, 40, 65, 35, 70, 65, 80, 60>>)
JAPANESE_INJECTION_PATTERNS == Scored("prompt_injection", <<40, 45, 35, 45>>)
CONFIDENTIAL_DATA_PATTERNS == Scored("confidential", <<50, 60, 75>>)
TOKEN_EXHAUSTION_PATTERNS == Scored("token_exhaustion", <<60, 60, 55, 45, 50, 70>>)
PROMPT_LEAK_PATTERNS == Scored("prompt_leak", <<50, 60, 45, 55, 65, 55, 50, 45>>)
JailbreakPersonas == Scored("jailbreak", <<60, 55, 65, 45, 55, 60, 65, 55>>)
JailbreakFramings == Scored("jailbreak", <<65, 60, 60>>)
JailbreakExtractions == Scored("jailbreak", <<65, 65>>)
KOREAN_INJECTION_PATTERNS ==
    Scored("prompt_injection", <<40, 45, 35, 45, 50, 45, 55, 50, 50, 50, 45>>)
KOREAN_PII_PATTERNS == Scored("pii_input", <<75, 40, 45, 75, 55, 60, 70, 50, 65, 40>>)
CHINESE_INJECTION_PATTERNS == Scored("prompt_injection", <<40, 45, 35, 45>>)
CHINESE_PII_PATTERNS == Scored("pii_input", <<75, 40, 45>>)
IndirectContent == Scored("indirect_injection", <<55, 50, 60, 50, 55, 55, 60>>)
IndirectEnrollment == Scored("indirect_injection", <<65, 50, 65>>)
IndirectPayment == Scored("indirect_injection", <<75>>)
HALLUCINATION_ACTION_PATTERNS == Scored("hallucination_action", <<55, 80, 55>>)
SYNTHETIC_CONTENT_PATTERNS == Scored("synthetic_content", <<60, 65, 60, 65, 75>>)
EMOTIONAL_MANIPULATION_PATTERNS == Scored("emotional_manipulation", <<60, 50, 55>>)
OVER_RELIANCE_PATTERNS == Scored("over_reliance", <<40, 45, 40>>)
McpDirectives == Scored("mcp_poisoning", <<70, 75, 65, 70, 60, 80, 65, 55, 45, 65>>)
McpEscalations == Scored("mcp_poisoning", <<60, 50, 65, 65, 75>>)
McpForwarding == Scored("mcp_poisoning", <<75, 65, 70>>)
McpPrecedence == Scored("mcp_poisoning", <<65, 65, 70>>)
EncodedPayloads == Scored("encoding_bypass", <<60, 50, 35, 40, 45, 55>>)
DisguisedKeywords == Scored("encoding_bypass", <<30, 50, 55, 40, 35, 70>>)
RespelledKeywords == Scored("encoding_bypass", <<40, 45, 50, 35>>)
SplitKeywords == Scored("encoding_bypass", <<40, 55, 35>>)
PersistentMemory == Scored("memory_poisoning", <<50, 45, 55, 50, 50, 40, 55, 50, 50>>)
SteeringMemory == Scored("memory_poisoning", <<45, 45, 50, 45, 50, 65>>)
DormantMemory == Scored("memory_poisoning", <<50, 55, 60, 65>>)
SmuggledData == Scored("data_exfiltration", <<80, 65>>)
SECOND_ORDER_INJECTION_PATTERNS ==
    Scored("second_order_injection", <<55, 50, 50, 55, 50, 55, 50, 55, 55>>)
SANDBOX_ESCAPE_PATTERNS == Scored("sandbox_escape", <<60, 70, 85, 75, 80, 70>>)
AUTONOMOUS_EXPLOIT_PATTERNS == Scored("autonomous_exploit", <<65, 70, 55, 65, 55>>)
SELF_PRIVILEGE_ESCALATION_PATTERNS ==
    Scored("self_privilege_escalation", <<80, 75, 80, 70, 70>>)
AUDIT_TAMPERING_PATTERNS == Scored("audit_tampering", <<80, 70, 65, 65>>)
EVALUATION_GAMING_PATTERNS == Scored("evaluation_gaming", <<45, 60, 65>>)
COT_DECEPTION_PATTERNS == Scored("cot_deception", <<70, 60, 65>>)
JUDGE_MANIPULATION_PATTERNS ==
    Scored("judge_manipulation", <<55, 45, 50, 40, 55, 40, 45, 30, 35, 45, 40, 35, 35, 45, 45>>)
SUPPLY_CHAIN_PATTERNS == Scored("supply_chain", <<75, 55, 80, 70, 70, 75, 75>>)
COMPLIANCE_TRANSPARENCY_PATTERNS == Scored("compliance_violation", <<60, 70, 65, 65>>)
OutputLeaks ==
    Scored("pii_leak", <<70, 80, 55>>) \o Scored("secret_leak", <<90>>)
    \o Scored("harmful_content", <<95>>) \o Scored("pii_leak", <<75, 45>>)
OutputGuidelines == Scored("emotional_manipulation", <<50>>) \o Scored("synthetic_content", <<35>>)
OutputRelays == Scored("data_exfiltration", <<65, 75, 70, 70, 80, 65, 80>>)

JAILBREAK_ROLEPLAY_PATTERNS == JailbreakPersonas \o JailbreakFramings \o JailbreakExtractions
INDIRECT_INJECTION_PATTERNS == IndirectContent \o IndirectEnrollment \o IndirectPayment
MCP_SECURITY_PATTERNS == McpDirectives \o McpEscalations \o McpForwarding \o McpPrecedence
ENCODING_BYPASS_PATTERNS ==
    EncodedPayloads \o DisguisedKeywords \o RespelledKeywords \o SplitKeywords
MEMORY_POISONING_PATTERNS ==
    PersistentMemory \o SteeringMemory \o DormantMemory \o SmuggledData

\* From indirect injection on the two lists of inputs are the same.
AgentPatterns ==
    INDIRECT_INJECTION_PATTERNS \o MCP_SECURITY_PATTERNS \o ENCODING_BYPASS_PATTERNS
    \o MEMORY_POISONING_PATTERNS \o SECOND_ORDER_INJECTION_PATTERNS
    \o HALLUCINATION_ACTION_PATTERNS \o SYNTHETIC_CONTENT_PATTERNS
    \o EMOTIONAL_MANIPULATION_PATTERNS \o OVER_RELIANCE_PATTERNS \o SANDBOX_ESCAPE_PATTERNS
    \o AUTONOMOUS_EXPLOIT_PATTERNS \o SELF_PRIVILEGE_ESCALATION_PATTERNS
    \o AUDIT_TAMPERING_PATTERNS \o EVALUATION_GAMING_PATTERNS \o COT_DECEPTION_PATTERNS
    \o JUDGE_MANIPULATION_PATTERNS \o SUPPLY_CHAIN_PATTERNS \o COMPLIANCE_TRANSPARENCY_PATTERNS

GuardInput ==
    PROMPT_INJECTION_PATTERNS \o JAPANESE_INJECTION_PATTERNS \o KOREAN_INJECTION_PATTERNS
    \o CHINESE_INJECTION_PATTERNS \o SQL_INJECTION_PATTERNS \o DATA_EXFIL_PATTERNS
    \o COMMAND_INJECTION_PATTERNS \o PII_INPUT_PATTERNS \o KOREAN_PII_PATTERNS
    \o CHINESE_PII_PATTERNS \o CONFIDENTIAL_DATA_PATTERNS \o TOKEN_EXHAUSTION_PATTERNS
    \o PROMPT_LEAK_PATTERNS \o JAILBREAK_ROLEPLAY_PATTERNS \o AgentPatterns

GuardOutput == OutputLeaks \o OutputGuidelines \o OutputRelays
----------------------------------------------------------------------------
\* aigis/patterns.py, the lists of scan: its own, and those it imports.
ScanPromptInjection == Scored("prompt_injection", <<40, 50, 45, 35, 45, 40, 55>>)
ScanJapaneseInjection == Scored("prompt_injection", <<40, 45, 35, 50, 45, 45>>)
ScanSqlInjection == Scored("sql_injection", <<70, 80, 65, 55, 70, 75, 80, 65>>)
ScanCommandInjection == Scored("command_injection", <<70, 60>>)
ScanPiiInput == Scored("pii_input", <<40, 70, 25, 40, 65, 70, 65, 80, 60>>)
ScanConfidentialData == Scored("confidential", <<50, 60, 75>>)
LEGAL_RISK_PATTERNS == Scored("legal_risk", <<55, 35>>)
ScanPromptLeak == Scored("prompt_leak", <<50, 60, 45, 55, 55, 65, 50, 45>>)
ScanOutput ==
    Scored("pii_leak", <<70, 80, 55>>) \o Scored("secret_leak", <<90>>)
    \o Scored("harmful_content", <<95>>) \o Scored("pii_leak", <<75, 45>>)

\* The personal data that its own list lacks.
ExtraPii == Scored("pii_input", <<35, 35>>)

ScanInput ==
    ScanPromptInjection \o ScanJapaneseInjection \o KOREAN_INJECTION_PATTERNS
    \o CHINESE_INJECTION_PATTERNS \o ScanSqlInjection \o DATA_EXFIL_PATTERNS
    \o ScanCommandInjection \o ScanPiiInput \o ExtraPii \o KOREAN_PII_PATTERNS
    \o CHINESE_PII_PATTERNS \o ScanConfidentialData \o LEGAL_RISK_PATTERNS
    \o ScanPromptLeak \o TOKEN_EXHAUSTION_PATTERNS \o JAILBREAK_ROLEPLAY_PATTERNS \o AgentPatterns
----------------------------------------------------------------------------
\* backend/app/filters/patterns.py, the lists of the proxy.
ProxyPromptInjection == Scored("prompt_injection", <<40, 50, 45, 35, 45, 55>>)
ProxySqlInjection == Scored("sql_injection", <<70, 80, 65, 55, 70, 75>>)
ProxyDataExfil == Scored("data_exfiltration", <<50, 60>>)
ProxyCommandInjection == Scored("command_injection", <<70, 60>>)
ProxyPiiInput == Scored("pii_input", <<40, 70, 35, 25, 40, 65, 35, 70, 65, 80>>)
ProxyJapaneseInjection == Scored("prompt_injection", <<40, 45, 35, 45>>)
ProxyConfidentialData == Scored("confidential", <<50, 60, 75>>)
ProxyOutput ==
    Scored("pii_leak", <<70, 80, 55>>) \o Scored("secret_leak", <<90>>)
    \o Scored("harmful_content", <<95>>) \o Scored("pii_leak", <<75, 45>>)

ProxyInput ==
    ProxyPromptInjection \o ProxyJapaneseInjection \o ProxySqlInjection \o ProxyDataExfil
    \o ProxyCommandInjection \o ProxyPiiInput \o ProxyConfidentialData

----------------------------------------------------------------------------
\* The lists that a text may be searched with.
SearchedLists ==
    [guard_input |-> GuardInput, guard_output |-> GuardOutput,
     scan_input |-> ScanInput, scan_output |-> ScanOutput,
     proxy_input |-> ProxyInput, proxy_output |-> ProxyOutput]
=============================================================================
