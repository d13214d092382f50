------------------------------ MODULE Enforcer ------------------------------
(***************************************************************************)
(* CapabilityEnforcer.authorize_tool_call (aigis/capabilities/enforcer.py) *)
(* in threads that share one CapabilityStore with others who grant, revoke *)
(* and list.  The check of the grant, the scan of the tool's input and the *)
(* answer are steps of their own: only the check holds the store's lock.   *)
(***************************************************************************)
EXTENDS CapabilityStore

CONSTANTS
    Calls,          \* calls of authorize_tool_call
    Listings,       \* calls of list_active
    ControlFlow,    \* _CONTROL_FLOW_RESOURCES
    Provenances,    \* the taint labels
    Asks            \* what calls ask for

VARIABLES
    ask,        \* ask[c]: what call c wants, with the label of its data
    call,       \* call[c]: where it stands
    listing     \* listing[l]: the same of a call of list_active

authorizing == <<store, ask, call, listing>>

Wanted == [resource : ResourceTypes, target : Targets, provenance : Provenances]

ASSUME EnforcerAssumption == Asks \subseteq Wanted /\ ControlFlow \subseteq ResourceTypes

\* now: the time read before the lock.  since: the length of the audit list when
\* the call began, a history variable.  cap: capability_used.
CallRecord == [pc : {"idle", "checking", "checked", "allowed", "denied"},
               now : Times, since : Nat, cap : Nonces \cup {NoNonce}]

ListingRecord == [pc : {"idle", "listing", "listed"},
                  now : Times, since : Nat, result : SUBSET Nonces]

EnforcerTypeOK ==
    /\ StoreTypeOK
    /\ ask \in [Calls -> Asks]
    /\ call \in [Calls -> CallRecord]
    /\ listing \in [Listings -> ListingRecord]

EnforcerInit ==
    /\ StoreInit
    /\ ask \in [Calls -> Asks]
    /\ call = [c \in Calls |-> [pc |-> "idle", now |-> 0, since |-> 0, cap |-> NoNonce]]
    /\ listing = [l \in Listings |-> [pc |-> "idle", now |-> 0, since |-> 0, result |-> {}]]

\* Mutant: the separation of control and data flow is not enforced.
NeverBarred(c) == FALSE

Barred(c) == ask[c].provenance = "untrusted" /\ ask[c].resource \in ControlFlow

\* Untrusted data does not drive a control-flow tool, whatever was granted.
DenyUntrusted(c) ==
    /\ call[c].pc = "idle"
    /\ Barred(c)
    /\ call' = [call EXCEPT ![c].pc = "denied"]
    /\ UNCHANGED <<store, ask, listing>>

EnterCheck(c) ==
    /\ call[c].pc = "idle"
    /\ ~Barred(c)
    /\ call' = [call EXCEPT ![c].pc = "checking", ![c].now = clock, ![c].since = Len(audit)]
    /\ UNCHANGED <<store, ask, listing>>

\* Mutant: a miss is not answered as a denial.
MissUnanswered(hit) == IF hit = NoNonce THEN "missed" ELSE "checked"

\* Without a hit the call is denied.
Outcome(hit) == IF hit = NoNonce THEN "denied" ELSE "checked"

CheckGrant(c) ==
    /\ call[c].pc = "checking"
    /\ \E hit \in Nonces \cup {NoNonce} :
          /\ CheckHeld(ask[c].resource, ask[c].target, call[c].now, hit)
          /\ call' = [call EXCEPT ![c].pc = Outcome(hit), ![c].cap = hit]
    /\ UNCHANGED <<ask, listing>>

\* A capability that requires review denies; a guard, if there is one, may.
Deny(c) ==
    /\ call[c].pc = "checked"
    /\ call' = [call EXCEPT ![c].pc = "denied"]
    /\ UNCHANGED <<store, ask, listing>>

ReviewDone(c) == ~token[call[c].cap].review

Allow(c) ==
    /\ call[c].pc = "checked"
    /\ ReviewDone(c)
    /\ call' = [call EXCEPT ![c].pc = "allowed"]
    /\ UNCHANGED <<store, ask, listing>>

EnterListing(l) ==
    /\ listing[l].pc = "idle"
    /\ listing' = [listing EXCEPT ![l].pc = "listing", ![l].now = clock, ![l].since = Len(audit)]
    /\ UNCHANGED <<store, ask, call>>

AnswerListing(l) ==
    /\ listing[l].pc = "listing"
    /\ ListActive(listing[l].now)
    /\ listing' = [listing EXCEPT ![l].pc = "listed", ![l].result = held']
    /\ UNCHANGED <<ask, call>>

Others == UNCHANGED <<ask, call, listing>>

EnforcerNext ==
    \/ Tick /\ Others
    \/ \E n \in Nonces : Grant(n) /\ Others
    \/ \E n \in Nonces : Revoke(n) /\ Others
    \/ \E c \in Calls : DenyUntrusted(c)
    \/ \E c \in Calls : EnterCheck(c)
    \/ \E c \in Calls : CheckGrant(c)
    \/ \E c \in Calls : Deny(c)
    \/ \E c \in Calls : Allow(c)
    \/ \E l \in Listings : EnterListing(l)
    \/ \E l \in Listings : AnswerListing(l)

EnforcerSpec == EnforcerInit /\ [][EnforcerNext]_authorizing

----------------------------------------------------------------------------
\* An entry that ends a capability.
Ends(entry, n) == n \in entry.expired \/ (entry.action = "revoke" /\ entry.nonce = n)

EndedBy(n, k) == \E i \in 1..k : i <= Len(audit) /\ Ends(audit[i], n)

Ended(n) == EndedBy(n, Len(audit))

\* The audit list tells what the store holds: exactly what was granted and neither
\* revoked nor pruned, though a check prunes only up to its hit.
AuditTellsHeld ==
    \A n \in Nonces : n \in held <=> inserted[n] > 0 /\ ~Ended(n)

\* A capability's life in the audit list: one grant, then hits, then one end and
\* nothing more, with threads whose clocks were read in another order.
NothingAfterTheEnd ==
    \A i, j \in 1..Len(audit), n \in Nonces :
        i < j /\ Ends(audit[i], n) => audit[j].nonce # n /\ ~Ends(audit[j], n)

\* A revocation that returned, or an expiry that was noticed, before a call began
\* stops it, and so does an expiry date that had passed when it began.
StaleGrantsStop ==
    \A c \in Calls : LET n == call[c].cap IN
        n # NoNonce => /\ ~EndedBy(n, call[c].since)
                       /\ token[n].expires # Never => token[n].expires >= call[c].now

\* list_active returns what was in force when it ran: nothing that had ended or
\* expired before it began, and all that was granted before and did not end since.
ListingsAreActive ==
    \A l \in Listings : listing[l].pc = "listed" =>
        /\ \A n \in listing[l].result :
              /\ ~EndedBy(n, listing[l].since)
              /\ token[n].expires # Never => token[n].expires >= listing[l].now
        /\ \A n \in Nonces : inserted[n] \in 1..listing[l].since /\ ~Ended(n)
                                => n \in listing[l].result

----------------------------------------------------------------------------
(* The enforcer implements the book of grants: the instant of a call is    *)
(* its check.                                                              *)

\* The grants that may let call c through.
Fits == [c \in Calls |-> {n \in Nonces : /\ Permits(n, ask[c].resource, ask[c].target)
                                         /\ ~token[n].review
                                         /\ ~(/\ ask[c].provenance = "untrusted"
                                              /\ ask[c].resource \in ControlFlow)}]

Struck == {n \in Nonces : inserted[n] > 0} \ held

Right == [c \in Calls |-> IF call[c].cap # NoNonce /\ ~token[call[c].cap].review
                          THEN call[c].cap ELSE NoNonce]

Verdicts == [c \in Calls |-> CASE call[c].pc = "allowed" -> "permitted"
                              [] call[c].pc = "denied" -> "refused"
                              [] OTHER -> "none"]

Book == INSTANCE GrantBook WITH
    fits <- Fits, book <- held, struck <- Struck, right <- Right, verdict <- Verdicts

\* The enforcer keeps the promise of GrantBook: a call passes only on a grant that
\* fits it, needs no review and was in force at its check, and never on untrusted
\* data for a control-flow tool.
KeepsTheBook == Book!Spec
============================================================================
