----------------------------- MODULE MCLibrary -----------------------------
(***************************************************************************)
(* The parts of the library for TLC.  They share no state: a behaviour is  *)
(* one of one part, and the others stay where they start.                  *)
(***************************************************************************)
EXTENDS Enforcer, SignedLog, ActivityLog, Recall, Monitor, ContainmentManager, Screening,
        PatternTables, AutoFix, AtomicPipeline, Sessions, ToolPins, McpScan, Conversation,
        ToolHook, TLC

VARIABLE part

logs == <<signed, activity, recall>>
watchers == <<monitor, containment, sessionStore, pipeline, autofix>>
scanners == <<screening, conversation>>
tools == <<authorizing, pinning, scanning, hooking>>

\* A part that has several initial states has one of them while another part runs.
Init ==
    /\ part \in {"signed", "activity", "recall", "monitor", "containment", "sessions",
                 "pipeline", "autofix", "screening", "conversation", "enforcer", "pins",
                 "scan", "hook"}
    /\ SignedInit /\ ActivityInit /\ RecallInit
    /\ MonitorInit /\ ContainmentInit /\ SessionsInit /\ PipelineInit /\ AutoFixInit
    /\ ScreeningInit /\ ConversationInit
    /\ EnforcerInit /\ PinsInit /\ ScanInit /\ HookInit
    /\ part # "screening" => asked = "guard_input" /\ topic = "prompt_injection"
    /\ part # "enforcer" => /\ token = [n \in Nonces |-> CHOOSE g \in Grants : TRUE]
                            /\ ask = [c \in Calls |-> CHOOSE a \in Asks : TRUE]
    /\ part # "pins" => verdict.definition = CHOOSE d \in Definitions : TRUE
    /\ part # "scan" => server = [t \in Offered |-> CHOOSE v \in Versions : TRUE]

LogNext ==
    /\ \/ part = "signed" /\ SignedNext /\ UNCHANGED <<activity, recall>>
       \/ part = "activity" /\ ActivityNext /\ UNCHANGED <<signed, recall>>
       \/ part = "recall" /\ RecallNext /\ UNCHANGED <<signed, activity>>
    /\ UNCHANGED <<watchers, scanners, tools>>

WatcherNext ==
    /\ \/ part = "monitor" /\ MonitorNext /\ UNCHANGED <<containment, sessionStore, pipeline, autofix>>
       \/ part = "containment" /\ ContainmentNext /\ UNCHANGED <<monitor, sessionStore, pipeline, autofix>>
       \/ part = "sessions" /\ SessionsNext /\ UNCHANGED <<monitor, containment, pipeline, autofix>>
       \/ part = "pipeline" /\ PipelineNext /\ UNCHANGED <<monitor, containment, sessionStore, autofix>>
       \/ part = "autofix" /\ AutoFixNext /\ UNCHANGED <<monitor, containment, sessionStore, pipeline>>
    /\ UNCHANGED <<logs, scanners, tools>>

ScannerNext ==
    /\ \/ part = "screening" /\ ScreeningNext /\ UNCHANGED conversation
       \/ part = "conversation" /\ ConversationNext /\ UNCHANGED screening
    /\ UNCHANGED <<logs, watchers, tools>>

ToolNext ==
    /\ \/ part = "enforcer" /\ EnforcerNext /\ UNCHANGED <<pinning, scanning, hooking>>
       \/ part = "pins" /\ PinsNext /\ UNCHANGED <<authorizing, scanning, hooking>>
       \/ part = "scan" /\ ScanNext /\ UNCHANGED <<authorizing, pinning, hooking>>
       \/ part = "hook" /\ HookNext /\ UNCHANGED <<authorizing, pinning, scanning>>
    /\ UNCHANGED <<logs, watchers, scanners>>

Next == UNCHANGED part /\ (LogNext \/ WatcherNext \/ ScannerNext \/ ToolNext)

Spec == Init /\ [][Next]_<<part, logs, watchers, scanners, tools>>

TypeOK ==
    CASE part = "signed" -> SignedTypeOK
      [] part = "activity" -> ActivityTypeOK
      [] part = "recall" -> RecallTypeOK
      [] part = "monitor" -> MonitorTypeOK
      [] part = "containment" -> ContainmentTypeOK
      [] part = "sessions" -> SessionsTypeOK
      [] part = "pipeline" -> PipelineTypeOK
      [] part = "autofix" -> AutoFixTypeOK
      [] part = "screening" -> ScreeningTypeOK
      [] part = "conversation" -> ConversationTypeOK
      [] part = "enforcer" -> EnforcerTypeOK
      [] part = "pins" -> PinsTypeOK
      [] part = "scan" -> ScanTypeOK
      [] part = "hook" -> HookTypeOK

For(resource, expires, review) ==
    [resource |-> resource, scope |-> Targets, expires |-> expires, review |-> review]

\* A grant that expires, one that needs review, and one of a control-flow resource.
SomeGrants == {For("file:read", 0, FALSE), For("file:read", Never, TRUE),
               For("shell:exec", Never, FALSE)}

Wants(resource, provenance) ==
    [resource |-> resource, target |-> "x", provenance |-> provenance]

SomeAsks == {Wants("file:read", "untrusted"), Wants("shell:exec", "untrusted"),
             Wants("shell:exec", "trusted")}

TheRules == <<20, 5>>

\* Three hits where every list has few patterns of the topic.
TheHits == [t \in Topics |->
    IF \A list \in DOMAIN Lists : Cardinality(PatternsOf(list, t)) <= 6 THEN 3 ELSE 2]

TheThresholds == <<1, 2, 2, 2, 2>>
TheRisks == [plain |-> 0, hidden |-> 40]
ThePowers == [plain |-> {"network"}, hidden |-> {"code_execution", "sensitive_data"}]

\* Nothing is claimed of what follows the load of an edited log.
Unmisled == ~misled

\* The same two values are the processes or threads of every part, and the nonces: each
\* part starts alike in both and treats them alike.
Symmetry == Permutations(Processes)
=============================================================================
