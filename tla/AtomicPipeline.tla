--------------------------- MODULE AtomicPipeline ---------------------------
(***************************************************************************)
(* AtomicPipeline (aigis/aep): scan code, run it in a subprocess with a    *)
(* directory of its own, destroy the files it left except those declared.  *)
(* One execution at a time, under the lock; what it started may live on.   *)
(***************************************************************************)
EXTENDS Integers, FiniteSets

CONSTANTS
    Files,      \* names under work_dir
    MaxWrites   \* bound: the writes of an execution

VARIABLES
    step,       \* where _execute_atomic is
    files,      \* what is in work_dir
    access,     \* access[p]: what a listing makes of p, by the mode of p's directory
    stuck,      \* the files that no unlink removes: PermissionError, again after every retry
    declared,   \* declared_outputs
    running,    \* the processes of this execution that run
    todo,       \* the listed files that vaporize has not tried
    failed,     \* files_failed
    result,     \* what the caller gets
    writes,     \* history: how many writes so far
    unseen      \* history: the files hidden when work_dir was verified, or written since

pipeline == <<step, files, access, stuck, declared, running, todo, failed, result, writes, unseen>>

ASSUME PipelineAssumption == MaxWrites \in Nat

\* The shell of the code; a process that it started in its group; one in a session of
\* its own, with or without the pipe of stdout.
Programs == {"shell", "child", "daemon", "piped_daemon"}
Steps == {"idle", "running", "artifacts", "list", "delete", "listforced", "forced", "done"}
Outcomes == {"none", "blocked", "destroyed", "not_destroyed", "kept_all", "raised"}

\* rglob skips in silence a directory that it may not read; a file whose directory may be
\* read but not searched makes is_symlink and is_file raise.
Access == {"seen", "hidden", "refused"}

PipelineTypeOK ==
    /\ step \in Steps
    /\ files \subseteq Files /\ access \in [Files -> Access]
    /\ stuck \subseteq Files /\ declared \subseteq Files
    /\ running \subseteq Programs
    /\ todo \subseteq Files /\ failed \subseteq Files
    /\ result \in Outcomes
    /\ writes \in 0..MaxWrites /\ unseen \subseteq Files

PipelineInit ==
    /\ step = "idle" /\ result = "none"
    /\ files = {} /\ access = [path \in Files |-> "seen"] /\ stuck = {}
    /\ declared = {} /\ running = {}
    /\ todo = {} /\ failed = {}
    /\ writes = 0 /\ unseen = {}
----------------------------------------------------------------------------
\* A fresh temporary directory; blocked code never runs in it, and rmtree removes it.
Begin(outputs, blocked) ==
    /\ step \in {"idle", "done"}
    /\ declared' = outputs
    /\ files' = {} /\ access' = [path \in Files |-> "seen"] /\ stuck' = {}
    /\ todo' = {} /\ failed' = {} /\ unseen' = {}
    /\ writes' = 0
    /\ IF blocked
       THEN step' = "done" /\ result' = "blocked" /\ running' = {}
       ELSE step' = "running" /\ result' = "none" /\ running' = {"shell"}

\* Any process of the code, at any time.
WriteFile(path, locked) ==
    /\ running # {} /\ writes < MaxWrites
    /\ writes' = writes + 1
    /\ files' = files \cup {path}
    /\ stuck' = IF locked THEN stuck \cup {path} ELSE stuck
    /\ unseen' = IF step = "done" THEN unseen \cup {path} ELSE unseen
    /\ UNCHANGED <<step, access, declared, running, todo, failed, result>>

ChangeMode(path, mode) ==
    /\ running # {}
    /\ access' = [access EXCEPT ![path] = mode]
    /\ UNCHANGED <<step, files, stuck, declared, running, todo, failed, result, writes, unseen>>

Start(process) ==
    /\ "shell" \in running
    /\ process \notin running
    /\ running' = running \cup {process}
    /\ UNCHANGED <<step, files, access, stuck, declared, todo, failed, result, writes, unseen>>

End(process) ==
    /\ process \in running
    /\ running' = running \ {process}
    /\ UNCHANGED <<step, files, access, stuck, declared, todo, failed, result, writes, unseen>>

\* communicate returns once the shell is gone and nothing holds its pipe.
Finish ==
    /\ step = "running"
    /\ running \cap {"shell", "piped_daemon"} = {}
    /\ step' = "artifacts"
    /\ UNCHANGED <<files, access, stuck, declared, running, todo, failed, result, writes, unseen>>

\* The process group is killed; a pipe still held makes the second communicate raise.
TimeOut ==
    /\ step = "running"
    /\ running' = running \ {"shell", "child"}
    /\ step' = IF "piped_daemon" \in running THEN "listforced" ELSE "artifacts"
    /\ UNCHANGED <<files, access, stuck, declared, todo, failed, result, writes, unseen>>

\* What _list_files returns, where it returns.
Refused == \E path \in files : access[path] = "refused"
Visible == {path \in files : access[path] = "seen"}

\* The sandbox lists what was left; what it raises has everything vaporized.
ListArtifacts ==
    /\ step = "artifacts"
    /\ step' = IF Refused THEN "listforced" ELSE "list"
    /\ UNCHANGED <<files, access, stuck, declared, running, todo, failed, result, writes, unseen>>

\* vaporize, or the audit warning of a pipeline that opted out.
List ==
    /\ step = "list" /\ ~Refused
    /\ todo' = Visible \ declared
    /\ step' = "delete"
    /\ UNCHANGED <<files, access, stuck, declared, running, failed, result, writes, unseen>>

OptOut ==
    /\ step = "list"
    /\ step' = "done" /\ result' = "kept_all"
    /\ UNCHANGED <<files, access, stuck, declared, running, todo, failed, writes, unseen>>

\* _force_vaporize keeps nothing.
ListForced ==
    /\ step = "listforced" /\ ~Refused
    /\ todo' = Visible
    /\ step' = "forced"
    /\ UNCHANGED <<files, access, stuck, declared, running, failed, result, writes, unseen>>

\* _secure_delete and its retries.
Delete(path) ==
    /\ step \in {"delete", "forced"}
    /\ path \in todo
    /\ todo' = todo \ {path}
    /\ IF path \in stuck
       THEN failed' = failed \cup {path} /\ UNCHANGED files
       ELSE files' = files \ {path} /\ UNCHANGED failed
    /\ UNCHANGED <<step, access, stuck, declared, running, result, writes, unseen>>

\* Mutant: verified when nothing failed.
NothingFailed == failed = {}

\* verify_destruction lists the directory again.
Verified == Visible \subseteq declared

VerifyDestruction ==
    /\ step = "delete" /\ todo = {} /\ ~Refused
    /\ step' = "done"
    /\ result' = IF Verified THEN "destroyed" ELSE "not_destroyed"
    /\ unseen' = files \ Visible
    /\ UNCHANGED <<files, access, stuck, declared, running, todo, failed, writes>>

\* The sandbox's exception once everything was vaporized, or that of a listing.
Raise ==
    /\ \/ step = "forced" /\ todo = {}
       \/ step \in {"list", "listforced"} /\ Refused
       \/ step = "delete" /\ todo = {} /\ Refused
    /\ step' = "done" /\ result' = "raised"
    /\ UNCHANGED <<files, access, stuck, declared, running, todo, failed, writes, unseen>>

PipelineNext ==
    \/ \E outputs \in SUBSET Files, blocked \in BOOLEAN : Begin(outputs, blocked)
    \/ \E path \in Files, locked \in BOOLEAN : WriteFile(path, locked)
    \/ \E path \in Files, mode \in Access : ChangeMode(path, mode)
    \/ \E process \in Programs \ {"shell"} : Start(process)
    \/ \E process \in Programs : End(process)
    \/ Finish
    \/ TimeOut
    \/ ListArtifacts
    \/ List
    \/ OptOut
    \/ ListForced
    \/ \E path \in Files : Delete(path)
    \/ VerifyDestruction
    \/ Raise

PipelineSpec == PipelineInit /\ [][PipelineNext]_pipeline
----------------------------------------------------------------------------
\* Once artifacts_destroyed is said, what is in the directory was declared, was in a
\* directory that the check could not read, or was written after the check by a process
\* that outlived the execution: nothing that could be listed was there before, nor came
\* while files were being deleted, nor withstood unlink.
DestroyedMeansGone ==
    result \in {"destroyed", "blocked"} => files \subseteq declared \cup unseen
=============================================================================
