------------------------------ MODULE McpScan ------------------------------
(***************************************************************************)
(* scan_mcp_server (aigis/mcp_scanner.py): processes that scan the tools a *)
(* server offers, compare them with the snapshots that the last scan left  *)
(* in a file, and replace the file before the report is given.             *)
(***************************************************************************)
EXTENDS Integers, FiniteSets

LOCAL INSTANCE FiniteSetsExt

CONSTANTS
    Scanners,
    Offered,      \* names of tools
    Versions,     \* what a tool's description and schema may be
    RiskOf,       \* the score that scan_mcp_tool gives each
    PowersOf      \* what analyze_permissions finds that each may do

VARIABLES
    server,       \* the version of each tool that the server offers
    snapshots,    \* the file
    scans,        \* what each process is in the middle of
    report,       \* the latest report
    shown,        \* history: every <<tool, version>> that a report showed
    lost,         \* history: those saved by a scan that died before its report
    missed        \* history: those shown without an alert though nobody had seen them

scanning == <<server, snapshots, scans, report, shown, lost, missed>>

Powers == {"code_execution", "sensitive_data", "file_system", "network"}

ASSUME ScanAssumption ==
    /\ RiskOf \in [Versions -> 0..100] /\ PowersOf \in [Versions -> SUBSET Powers]

ToolLists == UNION {[S -> Versions] : S \in SUBSET Offered}
NoTools == [t \in {} |-> t]
SnapshotFiles == [state : {"missing", "torn", "whole"}, tools : ToolLists]

\* tools: what list_tools returned; known: those that the file had; alerts:
\* rug_pull_alerts.
Scans == [step : {"idle", "listed", "compared", "opened", "saved"},
          tools : ToolLists, known : SUBSET Offered, alerts : SUBSET Offered]
NoScan == [step |-> "idle", tools |-> NoTools, known |-> {}, alerts |-> {}]
TrustLevels == {"trusted", "suspicious", "dangerous"}
Reports == [tools : ToolLists, alerts : SUBSET Offered, trust : TrustLevels]

ScanTypeOK ==
    /\ server \in ToolLists /\ snapshots \in SnapshotFiles
    /\ scans \in [Scanners -> Scans] /\ report \in Reports
    /\ \A history \in {shown, lost, missed} : history \subseteq Offered \X Versions

ScanInit ==
    /\ server \in [Offered -> Versions]
    /\ snapshots = [state |-> "missing", tools |-> NoTools]
    /\ scans = [s \in Scanners |-> NoScan]
    /\ report = [tools |-> NoTools, alerts |-> {}, trust |-> "trusted"]
    /\ shown = {} /\ lost = {} /\ missed = {}
----------------------------------------------------------------------------
Pairs(tools) == {<<t, tools[t]>> : t \in DOMAIN tools}

\* The server changes, withdraws or offers a tool.
Offer(tool, version) ==
    /\ server' = [t \in DOMAIN server \cup {tool} |-> IF t = tool THEN version ELSE server[t]]
    /\ UNCHANGED <<snapshots, scans, report, shown, lost, missed>>

Withdraw(tool) ==
    /\ tool \in DOMAIN server
    /\ server' = [t \in DOMAIN server \ {tool} |-> server[t]]
    /\ UNCHANGED <<snapshots, scans, report, shown, lost, missed>>

ListTools(s) ==
    /\ scans[s].step = "idle"
    /\ scans' = [scans EXCEPT ![s].step = "listed", ![s].tools = server]
    /\ UNCHANGED <<server, snapshots, report, shown, lost, missed>>

\* Mutant: a change counts when it scores higher.
Worse(previous, current) == RiskOf[current] > RiskOf[previous]

\* detect_rug_pull: whatever the change.
Differs(previous, current) == previous # current

Changed(tools) ==
    {t \in DOMAIN tools \cap DOMAIN snapshots.tools : Differs(snapshots.tools[t], tools[t])}

\* load_snapshots and the comparison; a torn file raises.
Compare(s) ==
    /\ scans[s].step = "listed"
    /\ scans' = [scans EXCEPT ![s] =
            IF snapshots.state = "torn" THEN NoScan
            ELSE [@ EXCEPT !.step = "compared",
                           !.known = DOMAIN scans[s].tools \cap DOMAIN snapshots.tools,
                           !.alerts = Changed(scans[s].tools)]]
    /\ UNCHANGED <<server, snapshots, report, shown, lost, missed>>

\* save_snapshots truncates, then writes.
OpenSnapshots(s) ==
    /\ scans[s].step = "compared"
    /\ snapshots' = [state |-> "torn", tools |-> NoTools]
    /\ scans' = [scans EXCEPT ![s].step = "opened"]
    /\ UNCHANGED <<server, report, shown, lost, missed>>

SaveSnapshots(s) ==
    /\ scans[s].step = "opened"
    /\ snapshots' = [state |-> "whole", tools |-> scans[s].tools]
    /\ scans' = [scans EXCEPT ![s].step = "saved"]
    /\ UNCHANGED <<server, report, shown, lost, missed>>

\* score_server_trust: the mean of the scores, and what the tools may do.
Cost(power) ==
    CASE power = "code_execution" -> 10 [] power = "sensitive_data" -> 5
      [] power = "file_system" -> 3 [] OTHER -> 2

Penalty(version) == MapThenSumSet(Cost, PowersOf[version])

TrustScore(tools) ==
    LET names == DOMAIN tools
        risk == MapThenSumSet(LAMBDA t : RiskOf[tools[t]], names) \div Cardinality(names)
        penalty == MapThenSumSet(LAMBDA t : Penalty(tools[t]), names)
    IN IF names = {} THEN 100 ELSE Max({0, 100 - risk - penalty})

TrustLevel(score) ==
    CASE score >= 70 -> "trusted" [] score \in 40..69 -> "suspicious" [] OTHER -> "dangerous"

\* A scan that saved shows its tools when it returns.
SavedBy(others) ==
    UNION {Pairs(scans[o].tools) : o \in {o \in others : scans[o].step = "saved"}}

Give(s) ==
    /\ scans[s].step = "saved"
    /\ LET tools == scans[s].tools
           quiet == {p \in Pairs(tools) : p[1] \in scans[s].known \ scans[s].alerts}
       IN /\ report' = [tools |-> tools, alerts |-> scans[s].alerts,
                        trust |-> TrustLevel(TrustScore(tools))]
          /\ shown' = shown \cup Pairs(tools)
          /\ missed' = missed \cup (quiet \ (shown \cup lost \cup SavedBy(Scanners \ {s})))
    /\ scans' = [scans EXCEPT ![s] = NoScan]
    /\ UNCHANGED <<server, snapshots, lost>>

DieScanning(s) ==
    /\ scans[s].step # "idle"
    /\ lost' = lost \cup (IF scans[s].step = "saved" THEN Pairs(scans[s].tools) ELSE {})
    /\ scans' = [scans EXCEPT ![s] = NoScan]
    /\ UNCHANGED <<server, snapshots, report, shown, missed>>

\* Somebody deletes the file that makes every scan raise.
DiscardSnapshots ==
    /\ snapshots.state = "torn"
    /\ snapshots' = [state |-> "missing", tools |-> NoTools]
    /\ UNCHANGED <<server, scans, report, shown, lost, missed>>

ScanNext ==
    \/ \E tool \in Offered, version \in Versions : Offer(tool, version)
    \/ \E tool \in Offered : Withdraw(tool)
    \/ \E s \in Scanners :
        \/ ListTools(s) \/ Compare(s) \/ OpenSnapshots(s) \/ SaveSnapshots(s)
        \/ Give(s) \/ DieScanning(s)
    \/ DiscardSnapshots

ScanSpec == ScanInit /\ [][ScanNext]_scanning
----------------------------------------------------------------------------
\* With scans that overlap or die, a tool that a scan compared is reported without an
\* alert only in a version that a report showed before, or that a scan saved whose own
\* report is still to come or died with it: a change is never taken over in silence.
ChangesAreReported == missed = {}
=============================================================================
