---------------------------- MODULE IncidentDesk ----------------------------
(***************************************************************************)
(* The incident routes (backend/app/routers/incidents.py).  Each call      *)
(* loads the row without a lock, checks it, edits it in its session and    *)
(* commits: a flush updates the columns that changed, whatever was         *)
(* committed in between.  assigned_to, responded_at and sla_met are left   *)
(* out: nothing here reads them.                                           *)
(***************************************************************************)
EXTENDS HitlStore

VARIABLE desk   \* desk[u]: the transaction of an incident call

Edits == {"investigating", "mitigated", "closed", "resolve", "assign", "note"}

DeskRecord == [pc : {"idle", "editing", "saved", "refused"},
               req : Requests \cup {NoRequest},
               seen : IncidentRow, new : IncidentRow]

IdleDesk == [pc |-> "idle", req |-> NoRequest, seen |-> NoIncident, new |-> NoIncident]

DeskTypeOK == desk \in [Responders -> DeskRecord]
DeskInit == desk = [u \in Responders |-> IdleDesk]

\* valid_transitions of update_status.
ValidTransitions(status) ==
    CASE status = "open" -> {"investigating", "mitigated", "closed"}
      [] status = "investigating" -> {"mitigated", "closed"}
      [] status = "mitigated" -> {"closed"}
      [] OTHER -> {}

\* resolve refuses a closed incident only; assign and note take any.
Accepts(row, edit) ==
    CASE edit \in IncidentStatus -> edit \in ValidTransitions(row.status)
      [] edit = "resolve" -> row.status # "closed"
      [] OTHER -> TRUE

Journal(row, entry, u) == [row EXCEPT !.timeline = Append(@, <<entry, u>>)]

\* update_status: a mitigated or closed incident has its resolved_at.
StatusUpdated(row, status) ==
    [row EXCEPT !.status = status,
                !.resolved = @ \/ status \in {"mitigated", "closed"},
                !.closed = @ \/ status = "closed"]

\* The rows an accepted edit may leave in the session; resolve names a resolution.
Edited(row, edit, u) ==
    CASE edit \in IncidentStatus -> {Journal(StatusUpdated(row, edit), "status_change", u)}
      [] edit = "resolve" ->
            {Journal([row EXCEPT !.resolution = x, !.status = "mitigated",
                                 !.resolved = TRUE], "resolved", u) :
                x \in Resolutions \ {"none"}}
      [] edit = "assign" -> {Journal(row, "assigned", u)}
      [] OTHER -> {Journal(row, "note", u)}

LoadIncident(u, r, edit) ==
    /\ desk[u].pc = "idle"
    /\ incident[r].status # "absent"
    /\ Accepts(incident[r], edit)
    /\ \E new \in Edited(incident[r], edit, u) :
          desk' = [desk EXCEPT ![u] = [pc |-> "editing", req |-> r,
                                       seen |-> incident[r], new |-> new]]
    /\ UNCHANGED rows
    /\ UNCHANGED locks

\* A transition the loaded status does not allow: a 400, nothing is written.
RefuseEdit(u, r, edit) ==
    /\ desk[u].pc = "idle"
    /\ incident[r].status # "absent"
    /\ ~Accepts(incident[r], edit)
    /\ desk' = [desk EXCEPT ![u] = [IdleDesk EXCEPT !.pc = "refused", !.req = r]]
    /\ UNCHANGED rows
    /\ UNCHANGED locks

SaveIncident(u) ==
    LET r == desk[u].req IN
    /\ desk[u].pc = "editing"
    /\ incident' = [incident EXCEPT ![r] = Flushed(@, desk[u].seen, desk[u].new)]
    /\ desk' = [desk EXCEPT ![u] = [IdleDesk EXCEPT !.pc = "saved", !.req = r]]
    /\ UNCHANGED <<score, request, item, reviewer, audit, forwarded, overdue>>
    /\ UNCHANGED locks

DeskNext ==
    \E u \in Responders :
        \/ \E r \in Requests, edit \in Edits : LoadIncident(u, r, edit)
        \/ \E r \in Requests, edit \in Edits : RefuseEdit(u, r, edit)
        \/ SaveIncident(u)
============================================================================
