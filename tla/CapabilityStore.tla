-------------------------- MODULE CapabilityStore --------------------------
(***************************************************************************)
(* CapabilityStore (aigis/capabilities/store.py): the capability tokens    *)
(* that are active, by nonce, and the audit list of what was done to them. *)
(* Every method runs under one lock, so each is one step here, except that *)
(* check and list_active read the time before they wait for the lock.      *)
(***************************************************************************)
EXTENDS Integers, Sequences, FiniteSets

CONSTANTS
    Nonces,     \* the nonces secrets.token_hex draws, each once
    NoNonce,    \* no capability
    ResourceTypes,  \* resource types, like file:read
    Targets,    \* files, commands and so on that tools are called on
    Never,      \* expires_at of a capability without one
    MaxTime,    \* bound: the clock stops here
    Grants      \* what capabilities are granted for

VARIABLES
    clock,      \* time.time()
    token,      \* token[n]: what the capability of nonce n grants
    held,       \* the nonces in _capabilities
    inserted,   \* inserted[n]: n's place in the dict's order, 0 before its grant
    audit       \* _audit, with one entry for all that one call appends

store == <<clock, token, held, inserted, audit>>

Times == 0..MaxTime

\* The glob of the scope stands for the targets it matches.
Token == [resource : ResourceTypes, scope : SUBSET Targets,
          expires : Times \cup {Never}, review : BOOLEAN]

ASSUME StoreAssumption ==
    /\ NoNonce \notin Nonces
    /\ MaxTime \in Nat
    /\ Never \notin Int
    /\ Grants \subseteq Token

\* What a call appends: its own entry, and one for each token it found expired.
\* A check without a hit has no nonce.
AuditEntry == [action : {"grant", "revoke", "check", "list"},
          nonce : Nonces \cup {NoNonce}, expired : SUBSET Nonces]

StoreTypeOK ==
    /\ clock \in Times
    /\ token \in [Nonces -> Grants]
    /\ held \subseteq Nonces
    /\ inserted \in [Nonces -> Nat]
    /\ audit \in Seq(AuditEntry)

\* Capability is frozen: what a nonce will grant does not change.
StoreInit ==
    /\ clock = 0
    /\ token \in [Nonces -> Grants]
    /\ held = {}
    /\ inserted = [n \in Nonces |-> 0]
    /\ audit = << >>

\* Mutant: an expiry date is compared the other way round.
OutdatedEarly(n, now) == token[n].expires # Never /\ token[n].expires > now

\* Expired for a caller who read the time "now".
Outdated(n, now) == token[n].expires # Never /\ token[n].expires < now

Logs(action, nonce, expired) ==
    audit' = Append(audit, [action |-> action, nonce |-> nonce, expired |-> expired])

Permits(n, resource, target) == token[n].resource = resource /\ target \in token[n].scope

Tick ==
    /\ clock < MaxTime
    /\ clock' = clock + 1
    /\ UNCHANGED <<token, held, inserted, audit>>

Grant(n) ==
    /\ inserted[n] = 0
    /\ held' = held \cup {n}
    /\ inserted' = [inserted EXCEPT ![n] = Len(audit) + 1]
    /\ Logs("grant", n, {})
    /\ UNCHANGED <<clock, token>>

\* Mutant: the token stays in the dict.
StillHeld(n) == held

Removed(n) == held \ {n}

\* Revoking what is not held returns False and changes nothing.
Revoke(n) ==
    /\ n \in held
    /\ held' = Removed(n)
    /\ Logs("revoke", n, {})
    /\ UNCHANGED <<clock, token, inserted>>

\* Mutant: the loop stops at the first token that matches, expired or not.
FindsExpired(resource, target, now) ==
    {n \in held : Permits(n, resource, target)}

\* The tokens check may return.
Candidates(resource, target, now) ==
    {n \in held : Permits(n, resource, target) /\ ~Outdated(n, now)}

\* "hit" is the first of them in the dict's order, NoNonce if there is none.
Finds(hit, resource, target, now) ==
    LET candidates == Candidates(resource, target, now) IN
    \/ candidates = {} /\ hit = NoNonce
    \/ hit \in candidates /\ \A n \in candidates : inserted[hit] <= inserted[n]

\* The loop breaks at the hit: the expired tokens behind it stay.
Pruned(hit, now) ==
    {n \in held : /\ Outdated(n, now)
                  /\ hit # NoNonce => inserted[n] < inserted[hit]}

\* Mutant: tokens found expired are dropped without an entry.
PrunedInSilence(hit, expired) == Logs("check", hit, {})

LogCheck(hit, expired) == Logs("check", hit, expired)

\* check, by a caller who read the time "now", finds "hit".
CheckHeld(resource, target, now, hit) ==
    LET expired == Pruned(hit, now) IN
    /\ Finds(hit, resource, target, now)
    /\ held' = held \ expired
    /\ LogCheck(hit, expired)
    /\ UNCHANGED <<clock, token, inserted>>

\* list_active, by a caller who read the time "now".
ListActive(now) ==
    LET expired == {n \in held : Outdated(n, now)} IN
    /\ held' = held \ expired
    /\ IF expired = {} THEN UNCHANGED audit ELSE Logs("list", NoNonce, expired)
    /\ UNCHANGED <<clock, token, inserted>>
============================================================================
