------------------------------ MODULE AutoFix ------------------------------
(***************************************************************************)
(* The auto-fix cycle (aigis/auto_fix.py) after runs of the adversarial    *)
(* loop: what gets past the scanner becomes proposals, these are added to  *)
(* two files of learnt defences, tried on safe inputs, and taken back if   *)
(* one is flagged.  The process may end at any point.                      *)
(***************************************************************************)
EXTENDS Integers, Sequences, FiniteSets

LOCAL INSTANCE SequencesExt

CONSTANTS
    Regexes,       \* what _find_structural_patterns proposes
    Broad,         \* those that match a safe input
    Phrases,       \* what _extract_common_ngrams proposes
    MaxProposals,  \* bound: the proposals of a run
    MaxCycles      \* bound: the runs

VARIABLES
    patterns,    \* learned_patterns.json: entries [id, fix, cycle]
    similarity,  \* learned_similarity.json
    torn,        \* the files that a write left unreadable
    fixStage,       \* where run_auto_fix is
    applied,     \* the fixes of this run, as entries
    cycle,       \* history: the number of this run
    died,        \* history: the runs that did not end
    earned       \* history: the defences of runs that ended with no false positive

autofix == <<patterns, similarity, torn, fixStage, applied, cycle, died, earned>>

ASSUME AutoFixAssumption ==
    Broad \subseteq Regexes /\ MaxProposals \in Nat /\ MaxCycles \in Nat

Fixes == Regexes \cup Phrases \cup {"note"}

\* Proposals are numbered from 1 in every run of the loop.
Proposals ==
    {list \in UNION {[1..n -> Fixes] : n \in 1..MaxProposals} :
        \A i \in DOMAIN list, j \in DOMAIN list : list[i] = list[j] => i = j}

LearnedEntry == [id : 1..MaxProposals, fix : Fixes, cycle : 0..MaxCycles]
Stages == {"idle", "patterns", "similarity", "verify", "undo_patterns", "undo_similarity"}

AutoFixTypeOK ==
    /\ patterns \subseteq LearnedEntry
    /\ similarity \subseteq LearnedEntry /\ applied \subseteq LearnedEntry
    /\ torn \subseteq {"patterns", "similarity"}
    /\ fixStage \in Stages
    /\ cycle \in 0..MaxCycles /\ died \subseteq 1..MaxCycles
    /\ earned \subseteq Regexes \cup Phrases

AutoFixInit ==
    /\ patterns = {} /\ similarity = {} /\ torn = {}
    /\ fixStage = "idle" /\ applied = {}
    /\ cycle = 0 /\ died = {} /\ earned = {}
----------------------------------------------------------------------------
Of(entries, fixes) == {e \in entries : e.fix \in fixes}
IdsOf(entries) == {e.id : e \in entries}
FixesOf(entries) == {e.fix : e \in entries}

\* apply_proposals: a pattern whose number is taken is left out, as is a known phrase.
Applicable(list) ==
    {[id |-> i, fix |-> list[i], cycle |-> cycle + 1] : i \in
        {j \in DOMAIN list :
            CASE list[j] \in Regexes -> j \notin IdsOf(patterns)
              [] list[j] \in Phrases -> list[j] \notin FixesOf(similarity)
              [] OTHER -> TRUE}}

\* Both files are read, or json raises; with nothing applied there is nothing to verify.
Run(list) ==
    /\ fixStage = "idle" /\ cycle < MaxCycles
    /\ cycle' = cycle + 1
    /\ IF torn = {} /\ Applicable(list) # {}
       THEN fixStage' = "patterns" /\ applied' = Applicable(list)
       ELSE UNCHANGED <<fixStage, applied>>
    /\ UNCHANGED <<patterns, similarity, torn, died, earned>>

SavePatterns ==
    /\ fixStage = "patterns"
    /\ fixStage' = "similarity"
    /\ patterns' = patterns \cup Of(applied, Regexes)
    /\ UNCHANGED <<similarity, torn, applied, cycle, died, earned>>

SaveSimilarity ==
    /\ fixStage = "similarity"
    /\ fixStage' = "verify"
    /\ similarity' = similarity \cup Of(applied, Phrases)
    /\ UNCHANGED <<patterns, torn, applied, cycle, died, earned>>

\* A safe input matches none of the patterns that come with the scanner; a learnt one
\* adds 35, more than the 30 of what is safe.
Flagged(entries) == \E e \in entries : e.fix \in Broad

\* verify_no_regressions, with every learnt pattern and no learnt phrase.
Verify ==
    /\ fixStage = "verify"
    /\ IF Flagged(patterns)
       THEN fixStage' = "undo_patterns" /\ UNCHANGED <<applied, earned>>
       ELSE fixStage' = "idle" /\ applied' = {}
            /\ earned' = earned \cup (FixesOf(applied) \ {"note"})
    /\ UNCHANGED <<patterns, similarity, torn, cycle, died>>

\* Mutant: the numbers of the similarity fixes are used for both files.
RemainingMixed(entries, fixes) == {e \in entries : e.id \notin IdsOf(Of(applied, Phrases))}

\* rollback_proposals: by the number of the proposal.
Remaining(entries, fixes) == {e \in entries : e.id \notin IdsOf(Of(applied, fixes))}

UndoPatterns ==
    /\ fixStage = "undo_patterns"
    /\ fixStage' = "undo_similarity"
    /\ patterns' = Remaining(patterns, Regexes)
    /\ UNCHANGED <<similarity, torn, applied, cycle, died, earned>>

UndoSimilarity ==
    /\ fixStage = "undo_similarity"
    /\ fixStage' = "idle" /\ applied' = {}
    /\ similarity' = Remaining(similarity, Phrases)
    /\ UNCHANGED <<patterns, torn, cycle, died, earned>>

\* The file that this stage writes, if any.
Writing ==
    CASE fixStage \in {"patterns", "undo_patterns"} /\ Of(applied, Regexes) # {} -> {"patterns"}
      [] fixStage \in {"similarity", "undo_similarity"} /\ Of(applied, Phrases) # {} -> {"similarity"}
      [] OTHER -> {}

\* write_text empties the file before it writes.
Die ==
    /\ fixStage # "idle"
    /\ fixStage' = "idle" /\ applied' = {}
    /\ died' = died \cup {cycle}
    /\ torn' \in {torn, torn \cup Writing}
    /\ UNCHANGED <<patterns, similarity, cycle, earned>>

\* Somebody deletes what cannot be read.
Clean ==
    /\ fixStage = "idle" /\ torn # {}
    /\ torn' = {}
    /\ patterns' = IF "patterns" \in torn THEN {} ELSE patterns
    /\ similarity' = IF "similarity" \in torn THEN {} ELSE similarity
    /\ UNCHANGED <<fixStage, applied, cycle, died, earned>>

Cycle ==
    \/ \E list \in Proposals : Run(list)
    \/ SavePatterns \/ SaveSimilarity \/ Verify \/ UndoPatterns \/ UndoSimilarity

AutoFixNext == Cycle \/ Die \/ Clean

AutoFixSpec == AutoFixInit /\ [][AutoFixNext]_autofix

\* No process ends in the middle.
CycleSpec == AutoFixInit /\ [][Cycle]_autofix
----------------------------------------------------------------------------
\* Between runs, a learnt pattern that flags a safe input was left by a run that died:
\* whatever the numbers of earlier proposals, a run that ends leaves none.
NoFalsePositives ==
    fixStage = "idle" => \A e \in patterns : e.fix \in Broad => e.cycle \in died

\* "Rollback applied fixes by removing them" (auto_fix.py): what a run does not
\* apply it does not take back, so a defence that passed stays.
EarnedStays ==
    fixStage = "idle" => earned \subseteq FixesOf(patterns \cup similarity)
=============================================================================
