------------------------------ MODULE ToolPins ------------------------------
(***************************************************************************)
(* ToolPinManager (supply_chain/hash_pin.py): the hash that each tool was  *)
(* approved with, a file of them, threads that pin, verify, save and load, *)
(* and a process that may die while it writes the file.                    *)
(***************************************************************************)
EXTENDS Integers, FiniteSets

CONSTANTS
    PinThreads,
    PinnedTools,
    Texts       \* what a field of a definition may hold

VARIABLES
    pins,       \* _pins: the hash of each pinned tool
    pinFile,    \* "missing", "torn" or the pins that were saved
    up,         \* the manager exists
    doing,      \* what each thread is in the middle of
    verdict,    \* the latest verdict
    approvals   \* history: every definition that was pinned

pinning == <<pins, pinFile, up, doing, verdict, approvals>>

\* The name is a field of the definition; extra is any other field.
Definitions == [name : PinnedTools, text : Texts, extra : Texts]

\* Mutant: the hash of the description only.
TextHash(definition) == definition.text

\* compute_hash: every field, whatever their order.
ContentHash(definition) == definition

Hashes == {ContentHash(d) : d \in Definitions}
Pins == UNION {[S -> Hashes] : S \in SUBSET PinnedTools}
NoPins == [t \in {} |-> t]
PinFiles == [state : {"missing", "torn", "whole"}, pins : Pins]

\* pins: the copy that a save or a load holds; seen: the names that a list had so far.
Doing == [step : {"idle", "save", "write", "load", "verify"}, pins : Pins,
          seen : SUBSET PinnedTools]
Idle == [step |-> "idle", pins |-> NoPins, seen |-> {}]

PinStatuses == {"none", "new", "verified", "modified", "removed"}

PinsTypeOK ==
    /\ pins \in Pins /\ pinFile \in PinFiles /\ up \in BOOLEAN
    /\ doing \in [PinThreads -> Doing]
    /\ verdict.definition \in Definitions /\ verdict.status \in PinStatuses
    /\ approvals \subseteq Definitions

PinsInit ==
    /\ pins = NoPins /\ up = TRUE
    /\ pinFile = [state |-> "missing", pins |-> NoPins]
    /\ doing = [t \in PinThreads |-> Idle]
    /\ verdict \in [definition : Definitions, status : {"none"}]
    /\ approvals = {}
----------------------------------------------------------------------------
At(thread, where) == up /\ doing[thread].step = where
Free(thread) == At(thread, "idle")
Becomes(thread, what) == doing' = [doing EXCEPT ![thread] = what]

\* pin_tool: whatever was pinned before.
Pin(thread, definition) ==
    /\ Free(thread)
    /\ pins' = [t \in DOMAIN pins \cup {definition.name} |->
                    IF t = definition.name THEN ContentHash(definition) ELSE pins[t]]
    /\ approvals' = approvals \cup {definition}
    /\ UNCHANGED <<pinFile, up, doing, verdict>>

Unpin(thread, tool) ==
    /\ Free(thread) /\ tool \in DOMAIN pins
    /\ pins' = [t \in DOMAIN pins \ {tool} |-> pins[t]]
    /\ UNCHANGED <<pinFile, up, doing, verdict, approvals>>

Status(definition) ==
    IF definition.name \notin DOMAIN pins THEN "new"
    ELSE IF pins[definition.name] = ContentHash(definition) THEN "verified" ELSE "modified"

\* verify_tools: the tools of the list one after another, each under the lock.
StartVerify(thread) ==
    /\ Free(thread)
    /\ Becomes(thread, [Idle EXCEPT !.step = "verify"])
    /\ UNCHANGED <<pins, pinFile, up, verdict, approvals>>

VerifyTool(thread, definition) ==
    /\ At(thread, "verify")
    /\ definition.name \notin doing[thread].seen
    /\ verdict' = [definition |-> definition, status |-> Status(definition)]
    /\ Becomes(thread, [doing[thread] EXCEPT !.seen = @ \cup {definition.name}])
    /\ UNCHANGED <<pins, pinFile, up, approvals>>

\* Then the pinned tools that were not in the list.
EndVerify(thread) ==
    /\ At(thread, "verify")
    /\ LET gone == {d \in Definitions : d.name \in DOMAIN pins \ doing[thread].seen} IN
       IF gone = {} THEN UNCHANGED verdict
       ELSE \E d \in gone : verdict' = [definition |-> d, status |-> "removed"]
    /\ Becomes(thread, Idle)
    /\ UNCHANGED <<pins, pinFile, up, approvals>>

\* save: a copy under the lock; the file is truncated, then written, outside it.
CopyPins(thread) ==
    /\ Free(thread)
    /\ Becomes(thread, [step |-> "save", pins |-> pins, seen |-> {}])
    /\ UNCHANGED <<pins, pinFile, up, verdict, approvals>>

OpenPins(thread) ==
    /\ At(thread, "save")
    /\ pinFile' = [state |-> "torn", pins |-> NoPins]
    /\ Becomes(thread, [doing[thread] EXCEPT !.step = "write"])
    /\ UNCHANGED <<pins, up, verdict, approvals>>

WritePins(thread) ==
    /\ At(thread, "write")
    /\ pinFile' = [state |-> "whole", pins |-> doing[thread].pins]
    /\ Becomes(thread, Idle)
    /\ UNCHANGED <<pins, up, verdict, approvals>>

\* load: read outside the lock, replaced under it; a torn file raises.
ReadPins(thread) ==
    /\ Free(thread)
    /\ pinFile.state = "whole"
    /\ Becomes(thread, [step |-> "load", pins |-> pinFile.pins, seen |-> {}])
    /\ UNCHANGED <<pins, pinFile, up, verdict, approvals>>

ReplacePins(thread) ==
    /\ At(thread, "load")
    /\ pins' = doing[thread].pins
    /\ Becomes(thread, Idle)
    /\ UNCHANGED <<pinFile, up, verdict, approvals>>

\* The process dies; a new manager loads the file, and cannot be made if it is torn.
DieWithPins ==
    /\ up
    /\ up' = FALSE
    /\ pins' = NoPins /\ doing' = [t \in PinThreads |-> Idle]
    /\ UNCHANGED <<pinFile, verdict, approvals>>

RestartPins ==
    /\ ~up
    /\ pinFile.state # "torn"
    /\ up' = TRUE
    /\ pins' = pinFile.pins
    /\ UNCHANGED <<pinFile, doing, verdict, approvals>>

\* Somebody deletes the file that no manager opens.
DiscardPins ==
    /\ ~up /\ pinFile.state = "torn"
    /\ pinFile' = [state |-> "missing", pins |-> NoPins]
    /\ UNCHANGED <<pins, up, doing, verdict, approvals>>

PinsNext ==
    \/ \E thread \in PinThreads :
        \/ \E definition \in Definitions :
            Pin(thread, definition) \/ VerifyTool(thread, definition)
        \/ \E tool \in PinnedTools : Unpin(thread, tool)
        \/ StartVerify(thread) \/ EndVerify(thread)
        \/ CopyPins(thread) \/ OpenPins(thread) \/ WritePins(thread)
        \/ ReadPins(thread) \/ ReplacePins(thread)
    \/ DieWithPins
    \/ RestartPins
    \/ DiscardPins

PinsSpec == PinsInit /\ [][PinsNext]_pinning
----------------------------------------------------------------------------
\* Across threads, saves of old copies, loads and restarts, a verdict rests on an
\* approval: "verified" is said only of a definition that was itself pinned, to the last
\* field; "modified" only of a tool that was pinned with another; "removed" only of one
\* that was pinned.
VerdictsAreEarned ==
    LET approved == {d \in approvals : d.name = verdict.definition.name} IN
    CASE verdict.status = "verified" -> verdict.definition \in approved
      [] verdict.status = "modified" -> approved \ {verdict.definition} # {}
      [] verdict.status = "removed" -> approved # {}
      [] OTHER -> TRUE
=============================================================================
