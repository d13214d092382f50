--------------------------- MODULE EnforcerProofs ---------------------------
(***************************************************************************)
(* Theorems about Enforcer, for any number of capabilities, authorizations *)
(* and listings: the audit list tells the truth, ends are final, and the   *)
(* enforcer implements GrantBook.                                          *)
(***************************************************************************)
EXTENDS Enforcer, TLAPS

-----------------------------------------------------------------------------
(* What a step does to the store.                                          *)

\* The audit list gets an entry; the tokens it ends leave, and it is about tokens
\* that are held, or it grants a token that never was.
Records(e) ==
    /\ e \in AuditEntry
    /\ audit' = Append(audit, e)
    /\ \/ /\ e.action = "grant"
          /\ e.expired = {}
          /\ e.nonce \in Nonces
          /\ inserted[e.nonce] = 0
          /\ held' = held \cup {e.nonce}
          /\ inserted' = [inserted EXCEPT ![e.nonce] = Len(audit) + 1]
       \/ /\ e.action # "grant"
          /\ e.nonce \in held \cup {NoNonce}
          /\ e.expired \subseteq held
          /\ held' = {n \in held : ~Ends(e, n)}
          /\ UNCHANGED inserted

StoreMoves ==
    \/ UNCHANGED <<held, inserted, audit>>
    \/ \E e \in AuditEntry : Records(e)

\* A grant enters a token that never was.
LEMMA GrantMoves ==
    ASSUME EnforcerTypeOK, NEW n \in Nonces, Grant(n)
    PROVE  StoreMoves
<1> DEFINE e == [action |-> "grant", nonce |-> n, expired |-> {}]
<1>1. e \in AuditEntry
  BY DEF AuditEntry
<1> QED
  BY <1>1 DEF StoreMoves, Records, Grant, Logs

\* A revocation ends a token that is held.
LEMMA RevokeMoves ==
    ASSUME EnforcerTypeOK, NEW n \in Nonces, Revoke(n)
    PROVE  StoreMoves
<1> DEFINE e == [action |-> "revoke", nonce |-> n, expired |-> {}]
<1>1. e \in AuditEntry
  BY DEF AuditEntry
<1>2. held' = {m \in held : ~Ends(e, m)}
  BY DEF Revoke, Removed, Ends
<1>3. Records(e)
  BY <1>1, <1>2 DEF Records, Revoke, Logs
<1> QED
  BY <1>1, <1>3 DEF StoreMoves

\* A check ends the tokens it prunes and hits one that is held.
LEMMA CheckMoves ==
    ASSUME EnforcerTypeOK, NEW resource, NEW target, NEW now, NEW hit \in Nonces \cup {NoNonce},
           CheckHeld(resource, target, now, hit)
    PROVE  /\ StoreMoves
           /\ hit # NoNonce => /\ hit \in held /\ hit \in held'
                               /\ Permits(hit, resource, target)
                               /\ ~Outdated(hit, now)
<1> DEFINE e == [action |-> "check", nonce |-> hit, expired |-> Pruned(hit, now)]
<1>1. Pruned(hit, now) \subseteq held /\ held \subseteq Nonces
  BY DEF Pruned, EnforcerTypeOK, StoreTypeOK
<1>2. e \in AuditEntry
  BY <1>1 DEF AuditEntry
<1>3. hit # NoNonce => hit \in Candidates(resource, target, now)
  BY DEF CheckHeld, Finds
<1>4. hit # NoNonce => /\ hit \in held
                       /\ Permits(hit, resource, target)
                       /\ ~Outdated(hit, now)
  BY <1>3 DEF Candidates
<1>5. held' = {m \in held : ~Ends(e, m)}
  BY DEF CheckHeld, Ends
<1>6. audit' = Append(audit, e) /\ UNCHANGED inserted
  BY DEF CheckHeld, LogCheck, Logs
<1>7. Records(e)
  BY <1>1, <1>2, <1>4, <1>5, <1>6 DEF Records
<1>8. hit # NoNonce => hit \in held'
  BY <1>4 DEF CheckHeld, Pruned
<1> QED
  BY <1>2, <1>4, <1>7, <1>8 DEF StoreMoves

\* A listing ends the tokens it prunes, and leaves those in force.
LEMMA ListMoves ==
    ASSUME EnforcerTypeOK, NEW now, ListActive(now)
    PROVE  /\ StoreMoves
           /\ held' \subseteq Nonces
           /\ \A n \in held' : n \in held /\ ~Outdated(n, now)
<1> DEFINE expired == {n \in held : Outdated(n, now)}
           e == [action |-> "list", nonce |-> NoNonce, expired |-> expired]
<1>1. held' = held \ expired /\ UNCHANGED inserted /\ held \subseteq Nonces
  BY DEF ListActive, EnforcerTypeOK, StoreTypeOK
<1>2. ASSUME expired = {}
      PROVE  StoreMoves
  <2>1. UNCHANGED audit
    BY <1>2 DEF ListActive
  <2>2. held' = held
    BY <1>1, <1>2
  <2> QED
    BY <1>1, <2>1, <2>2 DEF StoreMoves
<1>3. ASSUME expired # {}
      PROVE  StoreMoves
  <2>1. e \in AuditEntry
    BY <1>1 DEF AuditEntry
  <2>2. held' = {m \in held : ~Ends(e, m)}
    BY <1>1 DEF Ends
  <2>3. audit' = Append(audit, e)
    BY <1>3 DEF ListActive, Logs
  <2>4. Records(e)
    BY <1>1, <2>1, <2>2, <2>3 DEF Records
  <2> QED
    BY <2>1, <2>4 DEF StoreMoves
<1>4. \A n \in held' : n \in held /\ ~Outdated(n, now)
  BY <1>1
<1> QED
  BY <1>1, <1>2, <1>3, <1>4

\* Every step of the enforcer and of those around it does that to the store.
LEMMA StepMoves ==
    ASSUME EnforcerTypeOK, [EnforcerNext]_authorizing
    PROVE  StoreMoves /\ UNCHANGED <<token, ask>>
<1>1. CASE UNCHANGED authorizing
  BY <1>1 DEF authorizing, store, StoreMoves
<1>2. CASE Tick /\ Others
  BY <1>2 DEF Tick, Others, StoreMoves
<1>3. ASSUME NEW n \in Nonces, Grant(n) \/ Revoke(n), Others
      PROVE  StoreMoves /\ UNCHANGED <<token, ask>>
  BY <1>3, GrantMoves, RevokeMoves DEF Grant, Revoke, Others
<1>4. ASSUME NEW c \in Calls, CheckGrant(c)
      PROVE  StoreMoves /\ UNCHANGED <<token, ask>>
  BY <1>4, CheckMoves DEF CheckGrant, CheckHeld
<1>5. ASSUME NEW c \in Calls, DenyUntrusted(c) \/ EnterCheck(c) \/ Deny(c) \/ Allow(c)
      PROVE  StoreMoves /\ UNCHANGED <<token, ask>>
  BY <1>5 DEF DenyUntrusted, EnterCheck, Deny, Allow, store, StoreMoves
<1>6. ASSUME NEW l \in Listings, EnterListing(l) \/ AnswerListing(l)
      PROVE  StoreMoves /\ UNCHANGED <<token, ask>>
  BY <1>6, ListMoves DEF EnterListing, AnswerListing, ListActive, store, StoreMoves
<1> QED
  BY <1>1, <1>2, <1>3, <1>4, <1>5, <1>6 DEF EnforcerNext

-----------------------------------------------------------------------------
(* The audit list.                                                         *)

\* The audit list only grows, by what was recorded.
LEMMA RecordsAppend ==
    ASSUME EnforcerTypeOK, NEW e, Records(e)
    PROVE  /\ audit' \in Seq(AuditEntry)
           /\ Len(audit') = Len(audit) + 1
           /\ \A i \in 1..Len(audit) : audit'[i] = audit[i]
           /\ audit'[Len(audit) + 1] = e
  BY DEF Records, EnforcerTypeOK, StoreTypeOK

\* A move of the store keeps its types.
LEMMA MovesKeepTypes ==
    ASSUME EnforcerTypeOK, StoreMoves
    PROVE  /\ held' \subseteq Nonces
           /\ inserted' \in [Nonces -> Nat]
           /\ audit' \in Seq(AuditEntry)
           /\ Len(audit') \in Nat
<1>1. CASE UNCHANGED <<held, inserted, audit>>
  BY <1>1 DEF EnforcerTypeOK, StoreTypeOK
<1>2. ASSUME NEW e \in AuditEntry, Records(e)
      PROVE  /\ held' \subseteq Nonces
             /\ inserted' \in [Nonces -> Nat]
             /\ audit' \in Seq(AuditEntry)
  <2>1. audit' \in Seq(AuditEntry) /\ Len(audit) \in Nat
    BY <1>2, RecordsAppend DEF EnforcerTypeOK, StoreTypeOK
  <2>2. CASE e.action = "grant"
    <3>1. /\ e.nonce \in Nonces
          /\ held' = held \cup {e.nonce}
          /\ inserted' = [inserted EXCEPT ![e.nonce] = Len(audit) + 1]
      BY <1>2, <2>2 DEF Records
    <3> QED
      BY <2>1, <3>1 DEF EnforcerTypeOK, StoreTypeOK
  <2>3. CASE e.action # "grant"
    <3>1. held' \subseteq held /\ UNCHANGED inserted
      BY <1>2, <2>3 DEF Records
    <3> QED
      BY <2>1, <3>1 DEF EnforcerTypeOK, StoreTypeOK
  <2> QED
    BY <2>2, <2>3
<1> QED
  BY <1>1, <1>2 DEF StoreMoves

\* Before anything runs, every variable is of its type.
LEMMA InitTypes == EnforcerInit => EnforcerTypeOK
  BY StoreAssumption, EnforcerAssumption
  DEF EnforcerInit, StoreInit, EnforcerTypeOK, StoreTypeOK, CallRecord, ListingRecord, Times

\* No step breaks the types.
LEMMA TypesStep ==
    ASSUME EnforcerTypeOK, [EnforcerNext]_authorizing
    PROVE  EnforcerTypeOK'
<1> USE StoreAssumption DEF Times
<1>1. /\ held' \subseteq Nonces
      /\ inserted' \in [Nonces -> Nat]
      /\ audit' \in Seq(AuditEntry)
      /\ UNCHANGED <<token, ask>>
  BY StepMoves, MovesKeepTypes
<1>2. clock \in Times /\ Len(audit) \in Nat
  BY DEF EnforcerTypeOK, StoreTypeOK
<1>3. clock' \in Times
  <2>1. CASE Tick
    BY <1>2, <2>1 DEF Tick
  <2>2. CASE UNCHANGED clock
    BY <1>2, <2>2
  <2> QED
    BY <2>1, <2>2
    DEF EnforcerNext, authorizing, store, Grant, Revoke, DenyUntrusted, EnterCheck, CheckGrant, CheckHeld, Deny,
        Allow, EnterListing, AnswerListing, ListActive
<1>4. call' \in [Calls -> CallRecord]
  <2>1. CASE UNCHANGED call
    BY <2>1 DEF EnforcerTypeOK
  <2>2. ASSUME NEW c \in Calls, DenyUntrusted(c) \/ EnterCheck(c) \/ Deny(c) \/ Allow(c)
        PROVE  call' \in [Calls -> CallRecord]
    <3>1. CASE EnterCheck(c)
      BY <1>2, <3>1 DEF EnterCheck, EnforcerTypeOK, CallRecord
    <3>2. CASE DenyUntrusted(c) \/ Deny(c) \/ Allow(c)
      <4>1. PICK pc \in {"allowed", "denied"} : call' = [call EXCEPT ![c].pc = pc]
        BY <3>2 DEF DenyUntrusted, Deny, Allow
      <4> QED
        BY <4>1 DEF EnforcerTypeOK, CallRecord
    <3> QED
      BY <2>2, <3>1, <3>2
  <2>3. ASSUME NEW c \in Calls, CheckGrant(c)
        PROVE  call' \in [Calls -> CallRecord]
    <3>1. PICK hit \in Nonces \cup {NoNonce} :
              call' = [call EXCEPT ![c].pc = Outcome(hit), ![c].cap = hit]
      BY <2>3 DEF CheckGrant
    <3>2. Outcome(hit) \in {"denied", "checked"}
      BY DEF Outcome
    <3> QED
      BY <3>1, <3>2 DEF EnforcerTypeOK, CallRecord
  <2>4. \/ UNCHANGED call
        \/ \E c \in Calls : DenyUntrusted(c) \/ EnterCheck(c) \/ Deny(c) \/ Allow(c)
        \/ \E c \in Calls : CheckGrant(c)
    BY DEF EnforcerNext, authorizing, Others, EnterListing, AnswerListing
  <2> QED
    BY <2>1, <2>2, <2>3, <2>4
<1>5. listing' \in [Listings -> ListingRecord]
  <2>1. CASE UNCHANGED listing
    BY <2>1 DEF EnforcerTypeOK
  <2>2. ASSUME NEW l \in Listings, EnterListing(l) \/ AnswerListing(l)
        PROVE  listing' \in [Listings -> ListingRecord]
    <3>1. CASE EnterListing(l)
      BY <1>2, <3>1 DEF EnterListing, EnforcerTypeOK, ListingRecord
    <3>2. CASE AnswerListing(l)
      BY <1>1, <3>2 DEF AnswerListing, EnforcerTypeOK, ListingRecord
    <3> QED
      BY <2>2, <3>1, <3>2
  <2>3. UNCHANGED listing \/ \E l \in Listings : EnterListing(l) \/ AnswerListing(l)
    BY DEF EnforcerNext, authorizing, Others, DenyUntrusted, EnterCheck, CheckGrant, Deny, Allow
  <2> QED
    BY <2>1, <2>2, <2>3
<1> QED
  BY <1>1, <1>3, <1>4, <1>5 DEF EnforcerTypeOK, StoreTypeOK

\* Every variable holds what its declaration says.
THEOREM TypeCorrect == EnforcerSpec => []EnforcerTypeOK
<1> QED
  BY InitTypes, TypesStep, PTL DEF EnforcerSpec

\* A recorded entry ends what it ends, and leaves the past as it was.
LEMMA EndsStep ==
    ASSUME EnforcerTypeOK, NEW e, Records(e), NEW n
    PROVE  /\ Ended(n)' <=> Ended(n) \/ Ends(e, n)
           /\ \A k \in 0..Len(audit) : EndedBy(n, k)' <=> EndedBy(n, k)
<1>1. /\ Len(audit) \in Nat
      /\ Len(audit') = Len(audit) + 1
      /\ \A i \in 1..Len(audit) : audit'[i] = audit[i]
      /\ audit'[Len(audit) + 1] = e
  BY RecordsAppend DEF EnforcerTypeOK, StoreTypeOK
<1>2. \A i \in 1..Len(audit) : Ends(audit[i], n)' <=> Ends(audit[i], n)
  BY <1>1 DEF Ends
<1>3. Ended(n)' <=> \E i \in 1..(Len(audit) + 1) : Ends(audit'[i], n)
  BY <1>1 DEF Ended, EndedBy, Ends
<1>4. Ended(n) <=> \E i \in 1..Len(audit) : Ends(audit[i], n)
  BY <1>1 DEF Ended, EndedBy
<1>5. Ended(n)' <=> Ended(n) \/ Ends(e, n)
  BY <1>1, <1>3, <1>4
<1>6. \A k \in 0..Len(audit) : EndedBy(n, k)' <=> EndedBy(n, k)
  BY <1>1 DEF EndedBy, Ends
<1> QED
  BY <1>5, <1>6

\* A token is mentioned only after its grant.
Placed ==
    \A n \in Nonces :
        /\ inserted[n] \in 0..Len(audit)
        /\ \A i \in 1..Len(audit) : Ends(audit[i], n) \/ audit[i].nonce = n => inserted[n] > 0

AuditInv == EnforcerTypeOK /\ AuditTellsHeld /\ NothingAfterTheEnd /\ Placed

\* The empty audit list tells that nothing is held.
LEMMA AuditInit == EnforcerInit => AuditInv
<1> SUFFICES ASSUME EnforcerInit PROVE AuditTellsHeld /\ NothingAfterTheEnd /\ Placed
  BY InitTypes DEF AuditInv
<1>1. Len(audit) = 0 /\ held = {} /\ inserted = [n \in Nonces |-> 0]
  BY DEF EnforcerInit, StoreInit
<1> QED
  BY <1>1 DEF AuditTellsHeld, NothingAfterTheEnd, Placed, Ended, EndedBy

\* A recorded entry about a token that is held, or new, keeps the list truthful.
LEMMA AuditStep ==
    ASSUME AuditInv, [EnforcerNext]_authorizing
    PROVE  AuditInv'
<1> USE DEF AuditInv
<1>1. EnforcerTypeOK' /\ Len(audit) \in Nat
  BY TypesStep DEF EnforcerTypeOK, StoreTypeOK
<1>2. CASE UNCHANGED <<held, inserted, audit>>
  BY <1>1, <1>2 DEF AuditTellsHeld, NothingAfterTheEnd, Placed, Ended, EndedBy, Ends
<1>3. ASSUME NEW e \in AuditEntry, Records(e)
      PROVE  AuditTellsHeld' /\ NothingAfterTheEnd' /\ Placed'
  <2>1. /\ Len(audit') = Len(audit) + 1
        /\ \A i \in 1..Len(audit) : audit'[i] = audit[i]
        /\ audit'[Len(audit) + 1] = e
    BY <1>3, RecordsAppend
  <2>2. \A n \in Nonces : Ended(n)' <=> Ended(n) \/ Ends(e, n)
    BY <1>3, EndsStep
  <2>3. \A n \in Nonces : Ended(n) => inserted[n] > 0 /\ n \notin held
    BY DEF AuditTellsHeld, Placed, Ended, EndedBy
  <2>4. \A n \in Nonces : Ends(e, n) => n \in held
    BY <1>3, StoreAssumption DEF Records, Ends
  <2>5. \A n \in Nonces : /\ inserted'[n] \in 0..Len(audit')
                          /\ inserted[n] > 0 => inserted'[n] > 0
    <3>1. \/ UNCHANGED inserted
          \/ inserted' = [inserted EXCEPT ![e.nonce] = Len(audit) + 1]
      BY <1>3 DEF Records
    <3>2. inserted \in [Nonces -> Nat] /\ \A n \in Nonces : inserted[n] <= Len(audit)
      BY <1>1 DEF Placed, EnforcerTypeOK, StoreTypeOK
    <3> QED
      BY <1>1, <2>1, <3>1, <3>2
  <2>6. \A n \in Nonces : e.nonce = n => inserted'[n] > 0
    <3> SUFFICES ASSUME e.nonce \in Nonces PROVE inserted'[e.nonce] > 0
      OBVIOUS
    <3>1. CASE e.action = "grant"
      <4>1. inserted' = [inserted EXCEPT ![e.nonce] = Len(audit) + 1]
        BY <1>3, <3>1 DEF Records
      <4> QED
        BY <1>1, <4>1 DEF EnforcerTypeOK, StoreTypeOK
    <3>2. CASE e.action # "grant"
      <4>1. e.nonce \in held /\ UNCHANGED inserted
        BY <1>3, <3>2, StoreAssumption DEF Records
      <4> QED
        BY <4>1 DEF AuditTellsHeld
    <3> QED
      BY <3>1, <3>2
  <2>7. AuditTellsHeld'
    <3>1. CASE e.action = "grant"
      <4>1. /\ e.expired = {}
            /\ e.nonce \in Nonces /\ inserted[e.nonce] = 0
            /\ held' = held \cup {e.nonce}
            /\ inserted' = [inserted EXCEPT ![e.nonce] = Len(audit) + 1]
        BY <1>3, <3>1 DEF Records
      <4>2. \A n \in Nonces : ~Ends(e, n)
        BY <3>1, <4>1 DEF Ends
      <4>3. ~Ended(e.nonce)
        BY <2>3, <4>1
      <4>4. \A n \in Nonces : inserted'[n] = IF n = e.nonce THEN Len(audit) + 1 ELSE inserted[n]
        BY <4>1 DEF EnforcerTypeOK, StoreTypeOK
      <4>5. \A n \in Nonces : n \in held' <=> inserted'[n] > 0 /\ ~Ended(n)
        BY <1>1, <4>1, <4>3, <4>4 DEF AuditTellsHeld
      <4> QED
        BY <2>2, <4>2, <4>5 DEF AuditTellsHeld
    <3>2. CASE e.action # "grant"
      BY <1>3, <2>2, <3>2 DEF Records, AuditTellsHeld, EnforcerTypeOK, StoreTypeOK
    <3> QED
      BY <3>1, <3>2
  <2>8. NothingAfterTheEnd'
    <3> SUFFICES ASSUME NEW i \in 1..Len(audit'), NEW j \in 1..Len(audit'), NEW n \in Nonces,
                        i < j, Ends(audit'[i], n)
                 PROVE  audit'[j].nonce # n /\ ~Ends(audit'[j], n)
      BY DEF NothingAfterTheEnd, Ends
    <3>1. i \in 1..Len(audit) /\ Ends(audit[i], n)
      BY <1>1, <2>1
    <3>2. CASE j \in 1..Len(audit)
      BY <2>1, <3>1, <3>2 DEF NothingAfterTheEnd
    <3>3. CASE j = Len(audit) + 1
      <4>1. Ended(n)
        BY <3>1 DEF Ended, EndedBy
      <4>2. inserted[n] > 0 /\ n \notin held
        BY <2>3, <4>1
      <4>3. e.nonce # n
        BY <1>3, <4>2, StoreAssumption DEF Records, EnforcerTypeOK, StoreTypeOK
      <4> QED
        BY <2>1, <2>4, <3>3, <4>2, <4>3
    <3> QED
      BY <1>1, <2>1, <3>2, <3>3
  <2>9. Placed'
    <3> SUFFICES ASSUME NEW n \in Nonces, NEW i \in 1..Len(audit'),
                        Ends(audit'[i], n) \/ audit'[i].nonce = n
                 PROVE  inserted'[n] > 0
      BY <2>5 DEF Placed, Ends
    <3>1. CASE i \in 1..Len(audit)
      BY <2>1, <2>5, <3>1 DEF Placed
    <3>2. CASE i = Len(audit) + 1
      BY <2>1, <2>4, <2>5, <2>6, <3>2 DEF AuditTellsHeld
    <3> QED
      BY <1>1, <2>1, <3>1, <3>2
  <2> QED
    BY <2>7, <2>8, <2>9
<1> QED
  BY <1>1, <1>2, <1>3, StepMoves DEF StoreMoves

\* However checks, listings and revocations interleave, the audit list says what
\* is held: granted and not ended.
THEOREM AuditIsTrue == EnforcerSpec => []AuditTellsHeld
<1> QED
  BY AuditInit, AuditStep, PTL DEF EnforcerSpec, AuditInv

\* No entry follows the end of a capability: it is never hit, revoked or found
\* expired after it.
THEOREM EndsAreFinal == EnforcerSpec => []NothingAfterTheEnd
<1> QED
  BY AuditInit, AuditStep, PTL DEF EnforcerSpec, AuditInv

-----------------------------------------------------------------------------
(* Authorizations and listings.                                            *)

\* What the place of a call tells of it.
CallsFit ==
    \A c \in Calls :
        /\ call[c].since <= Len(audit)
        /\ call[c].pc \in {"idle", "checking"} => call[c].cap = NoNonce
        /\ call[c].pc \in {"checking", "checked", "allowed"} => ~Barred(c)
        /\ call[c].pc \in {"checked", "allowed"} => call[c].cap \in Nonces

\* A listing began in the past.
ListingsPlaced == \A l \in Listings : listing[l].since <= Len(audit)

SessionInv == AuditInv /\ CallsFit /\ ListingsPlaced /\ StaleGrantsStop /\ ListingsAreActive

\* What had ended had ended, and what was granted was granted.
LEMMA PastStays ==
    ASSUME AuditInv, [EnforcerNext]_authorizing
    PROVE  /\ Len(audit) \in Nat /\ Len(audit') \in Nat /\ Len(audit) <= Len(audit')
           /\ \A n \in Nonces :
                 /\ Ended(n) => Ended(n)'
                 /\ \A k \in 0..Len(audit) : EndedBy(n, k)' <=> EndedBy(n, k)
                 /\ inserted'[n] <= Len(audit) => inserted'[n] = inserted[n]
<1>1. Len(audit) \in Nat /\ inserted \in [Nonces -> Nat]
  BY DEF AuditInv, EnforcerTypeOK, StoreTypeOK
<1>2. CASE UNCHANGED <<held, inserted, audit>>
  BY <1>1, <1>2 DEF Ended, EndedBy, Ends
<1>3. ASSUME NEW e \in AuditEntry, Records(e)
      PROVE  /\ Len(audit') = Len(audit) + 1
             /\ \A n \in Nonces :
                   /\ Ended(n) => Ended(n)'
                   /\ \A k \in 0..Len(audit) : EndedBy(n, k)' <=> EndedBy(n, k)
                   /\ inserted'[n] <= Len(audit) => inserted'[n] = inserted[n]
  <2>1. \A n \in Nonces : /\ Ended(n) => Ended(n)'
                          /\ \A k \in 0..Len(audit) : EndedBy(n, k)' <=> EndedBy(n, k)
    BY <1>3, EndsStep DEF AuditInv
  <2>2. \/ UNCHANGED inserted
        \/ inserted' = [inserted EXCEPT ![e.nonce] = Len(audit) + 1]
    BY <1>3 DEF Records
  <2>3. \A n \in Nonces : inserted'[n] <= Len(audit) => inserted'[n] = inserted[n]
    BY <1>1, <2>2
  <2>4. Len(audit') = Len(audit) + 1
    BY <1>3, RecordsAppend DEF AuditInv
  <2> QED
    BY <2>1, <2>3, <2>4
<1>4. UNCHANGED <<held, inserted, audit>> \/ \E e \in AuditEntry : Records(e)
  BY StepMoves DEF AuditInv, StoreMoves
<1> QED
  BY <1>1, <1>2, <1>3, <1>4

\* A step moves a call at most one place on.
CallStays(c) == call'[c] = call[c]

CallEnters(c) ==
    /\ call[c].pc = "idle" /\ ~Barred(c)
    /\ call'[c] = [call[c] EXCEPT !.pc = "checking", !.now = clock, !.since = Len(audit)]

CallFinds(c, hit) ==
    /\ call[c].pc = "checking"
    /\ CheckHeld(ask[c].resource, ask[c].target, call[c].now, hit)
    /\ call'[c] = [call[c] EXCEPT !.pc = Outcome(hit), !.cap = hit]

CallEnds(c) ==
    \/ call[c].pc \in {"idle", "checked"} /\ call'[c] = [call[c] EXCEPT !.pc = "denied"]
    \/ call[c].pc = "checked" /\ call'[c] = [call[c] EXCEPT !.pc = "allowed"]

\* A call stays, or takes one of its own steps.
LEMMA CallMoves ==
    ASSUME EnforcerTypeOK, [EnforcerNext]_authorizing, NEW c \in Calls
    PROVE  \/ CallStays(c) \/ CallEnters(c) \/ CallEnds(c)
           \/ \E hit \in Nonces \cup {NoNonce} : CallFinds(c, hit)
<1>0. call \in [Calls -> CallRecord]
  BY DEF EnforcerTypeOK
<1>1. CASE UNCHANGED call
  BY <1>1 DEF CallStays
<1>2. ASSUME NEW d \in Calls, DenyUntrusted(d) \/ Deny(d) \/ Allow(d)
      PROVE  CallStays(c) \/ CallEnds(c)
  BY <1>0, <1>2 DEF DenyUntrusted, Deny, Allow, CallStays, CallEnds
<1>3. ASSUME NEW d \in Calls, EnterCheck(d)
      PROVE  CallStays(c) \/ CallEnters(c)
  BY <1>0, <1>3 DEF EnterCheck, CallStays, CallEnters
<1>4. ASSUME NEW d \in Calls, CheckGrant(d)
      PROVE  CallStays(c) \/ \E hit \in Nonces \cup {NoNonce} : CallFinds(c, hit)
  BY <1>0, <1>4 DEF CheckGrant, CallStays, CallFinds
<1>5. \/ UNCHANGED call
      \/ \E d \in Calls : \/ DenyUntrusted(d) \/ Deny(d) \/ Allow(d)
                          \/ EnterCheck(d) \/ CheckGrant(d)
  BY DEF EnforcerNext, authorizing, Others, EnterListing, AnswerListing
<1> QED
  BY <1>1, <1>2, <1>3, <1>4, <1>5

\* What the place of a call tells stays true.
LEMMA CallsFitStep ==
    ASSUME AuditInv, CallsFit, [EnforcerNext]_authorizing
    PROVE  CallsFit'
<1> SUFFICES ASSUME NEW c \in Calls
             PROVE  /\ call'[c].since <= Len(audit')
                    /\ call'[c].pc \in {"idle", "checking"} => call'[c].cap = NoNonce
                    /\ call'[c].pc \in {"checking", "checked", "allowed"} => ~Barred(c)'
                    /\ call'[c].pc \in {"checked", "allowed"} => call'[c].cap \in Nonces
  BY DEF CallsFit
<1>1. call[c] \in CallRecord
  BY DEF AuditInv, EnforcerTypeOK
<1>2. Barred(c)' <=> Barred(c)
  BY StepMoves DEF AuditInv, Barred
<1>3. Len(audit) \in Nat /\ Len(audit') \in Nat /\ Len(audit) <= Len(audit')
  BY PastStays
<1>4. /\ call[c].since <= Len(audit) /\ call[c].since \in Nat
      /\ call[c].pc \in {"idle", "checking"} => call[c].cap = NoNonce
      /\ call[c].pc \in {"checking", "checked", "allowed"} => ~Barred(c)
      /\ call[c].pc \in {"checked", "allowed"} => call[c].cap \in Nonces
  BY <1>1 DEF CallsFit, CallRecord
<1>5. CASE CallStays(c)
  BY <1>2, <1>3, <1>4, <1>5 DEF CallStays
<1>6. CASE CallEnters(c)
  BY <1>1, <1>2, <1>3, <1>4, <1>6 DEF CallEnters, CallRecord
<1>7. CASE CallEnds(c)
  BY <1>1, <1>2, <1>3, <1>4, <1>7 DEF CallEnds, CallRecord
<1>8. ASSUME NEW hit \in Nonces \cup {NoNonce}, CallFinds(c, hit)
      PROVE  /\ call'[c].since <= Len(audit')
             /\ call'[c].pc \notin {"idle", "checking"}
             /\ ~Barred(c)'
             /\ call'[c].pc \in {"checked", "allowed"} => call'[c].cap \in Nonces
  BY <1>1, <1>2, <1>3, <1>4, <1>8, StoreAssumption DEF CallFinds, CallRecord, Outcome
<1>9. \/ CallStays(c) \/ CallEnters(c) \/ CallEnds(c)
      \/ \E hit \in Nonces \cup {NoNonce} : CallFinds(c, hit)
  BY CallMoves DEF AuditInv
<1> QED
  BY <1>5, <1>6, <1>7, <1>8, <1>9

\* Nothing had ended a token, nor had it expired, when someone looked.
Live(n, since, now) ==
    /\ ~EndedBy(n, since)
    /\ token[n].expires # Never => token[n].expires >= now

\* What was in force at some time stays so said.
LEMMA LiveStays ==
    ASSUME AuditInv, [EnforcerNext]_authorizing, NEW n \in Nonces, NEW since \in 0..Len(audit), NEW now,
           Live(n, since, now)
    PROVE  Live(n, since, now)'
<1>1. EndedBy(n, since)' <=> EndedBy(n, since)
  BY PastStays
<1>2. UNCHANGED token
  BY StepMoves DEF AuditInv
<1> QED
  BY <1>1, <1>2 DEF Live

\* What the store still holds and the caller does not see as expired is in force.
LEMMA HeldIsLive ==
    ASSUME AuditInv, NEW n \in held, NEW since \in 0..Len(audit), NEW now \in Times,
           ~Outdated(n, now)
    PROVE  Live(n, since, now)
<1>1. n \in Nonces /\ Len(audit) \in Nat
  BY DEF AuditInv, EnforcerTypeOK, StoreTypeOK
<1>2. ~Ended(n)
  BY <1>1 DEF AuditInv, AuditTellsHeld
<1>3. ~EndedBy(n, since)
  BY <1>1, <1>2 DEF Ended, EndedBy
<1>4. token[n].expires \in Times \cup {Never}
  BY <1>1, StoreAssumption DEF AuditInv, EnforcerTypeOK, StoreTypeOK, Token
<1> QED
  BY <1>3, <1>4, StoreAssumption DEF Live, Outdated, Times

\* A hit is held, so nothing has ended it, and it had not expired when the call
\* read the time; and the past does not change.
LEMMA StaleStep ==
    ASSUME AuditInv, CallsFit, StaleGrantsStop, [EnforcerNext]_authorizing
    PROVE  StaleGrantsStop'
<1> SUFFICES ASSUME NEW c \in Calls, call'[c].cap # NoNonce
             PROVE  Live(call[c].cap, call[c].since, call[c].now)'
  BY DEF StaleGrantsStop, Live
<1>1. EnforcerTypeOK /\ call[c] \in CallRecord
  BY DEF AuditInv, EnforcerTypeOK
<1>2. PICK n \in Nonces \cup {NoNonce}, since \in 0..Len(audit), now \in Times :
          n = call[c].cap /\ since = call[c].since /\ now = call[c].now
  BY <1>1, PastStays DEF CallsFit, CallRecord
<1>3. n # NoNonce => Live(n, since, now)
  BY <1>2 DEF StaleGrantsStop, Live
<1>4. call[c].pc \in {"idle", "checking"} => n = NoNonce
  BY <1>2 DEF CallsFit
<1>5. ASSUME call'[c].cap = n, call'[c].since = since, call'[c].now = now
      PROVE  Live(call[c].cap, call[c].since, call[c].now)'
  <2>1. Live(n, since, now)'
    BY <1>3, <1>5, LiveStays
  <2> QED
    BY <1>5, <2>1 DEF Live
<1>6. CASE CallStays(c) \/ CallEnds(c)
  <2>1. call'[c].cap = n /\ call'[c].since = since /\ call'[c].now = now
    BY <1>1, <1>2, <1>6 DEF CallStays, CallEnds, CallRecord
  <2> QED
    BY <1>5, <2>1
<1>7. CASE CallEnters(c)
  BY <1>1, <1>2, <1>4, <1>7 DEF CallEnters, CallRecord
<1>8. ASSUME NEW hit \in Nonces \cup {NoNonce}, CallFinds(c, hit)
      PROVE  Live(call[c].cap, call[c].since, call[c].now)'
  <2>1. call'[c].cap = hit /\ call'[c].since = since /\ call'[c].now = now
    BY <1>1, <1>2, <1>8 DEF CallFinds, CallRecord
  <2>2. hit \in Nonces /\ hit \in held /\ ~Outdated(hit, now)
    BY <1>1, <1>2, <1>8, <2>1, CheckMoves DEF CallFinds
  <2>3. Live(hit, since, now)'
    BY <2>2, HeldIsLive, LiveStays
  <2> QED
    BY <2>1, <2>3 DEF Live
<1>9. \/ CallStays(c) \/ CallEnters(c) \/ CallEnds(c)
      \/ \E hit \in Nonces \cup {NoNonce} : CallFinds(c, hit)
  BY <1>1, CallMoves
<1> QED
  BY <1>6, <1>7, <1>8, <1>9

\* A listing stays where it is, enters, or returns what the store then holds.
LEMMA ListingMoves ==
    ASSUME EnforcerTypeOK, [EnforcerNext]_authorizing, NEW l \in Listings
    PROVE  \/ listing'[l] = listing[l]
           \/ listing'[l] = [listing[l] EXCEPT !.pc = "listing", !.now = clock,
                                               !.since = Len(audit)]
           \/ /\ ListActive(listing[l].now)
              /\ listing'[l] = [listing[l] EXCEPT !.pc = "listed", !.result = held']
<1>0. listing \in [Listings -> ListingRecord]
  BY DEF EnforcerTypeOK
<1>1. CASE UNCHANGED listing
  BY <1>1
<1>2. ASSUME NEW k \in Listings, EnterListing(k)
      PROVE  \/ listing'[l] = listing[l]
             \/ listing'[l] = [listing[l] EXCEPT !.pc = "listing", !.now = clock,
                                                 !.since = Len(audit)]
  BY <1>0, <1>2 DEF EnterListing
<1>3. ASSUME NEW k \in Listings, AnswerListing(k)
      PROVE  \/ listing'[l] = listing[l]
             \/ /\ ListActive(listing[l].now)
                /\ listing'[l] = [listing[l] EXCEPT !.pc = "listed", !.result = held']
  BY <1>0, <1>3 DEF AnswerListing
<1>4. \/ UNCHANGED listing
      \/ \E k \in Listings : EnterListing(k) \/ AnswerListing(k)
  BY DEF EnforcerNext, authorizing, Others, DenyUntrusted, EnterCheck, CheckGrant, Deny, Allow
<1> QED
  BY <1>1, <1>2, <1>3, <1>4

\* What a listing returned was in force when it ran.
OnlyLive(l) ==
    \A n \in listing[l].result : Live(n, listing[l].since, listing[l].now)

\* What was granted before a listing and is not ended was returned.
AllLive(l) ==
    \A n \in Nonces :
        inserted[n] \in 1..listing[l].since /\ ~Ended(n) => n \in listing[l].result

\* A listing returns what is held, which is what is in force; and the past does
\* not change.
LEMMA ListingsStep ==
    ASSUME AuditInv, ListingsPlaced, ListingsAreActive, [EnforcerNext]_authorizing
    PROVE  ListingsPlaced' /\ ListingsAreActive'
<1> SUFFICES ASSUME NEW l \in Listings
             PROVE  /\ listing'[l].since <= Len(audit')
                    /\ listing'[l].pc = "listed" => OnlyLive(l)' /\ AllLive(l)'
  BY DEF ListingsPlaced, ListingsAreActive, OnlyLive, AllLive, Live
<1>1. EnforcerTypeOK /\ listing[l] \in ListingRecord
  BY DEF AuditInv, EnforcerTypeOK
<1>2. Len(audit) \in Nat /\ Len(audit') \in Nat /\ Len(audit) <= Len(audit')
  BY PastStays
<1>3. PICK since \in 0..Len(audit), now \in Times :
          since = listing[l].since /\ now = listing[l].now
  BY <1>1, <1>2 DEF ListingsPlaced, ListingRecord
<1>4. CASE listing'[l] = listing[l]
  <2>1. ASSUME listing[l].pc = "listed", NEW n \in listing[l].result
        PROVE  Live(n, listing[l].since, listing[l].now)'
    <3>1. n \in Nonces /\ Live(n, since, now)
      BY <1>1, <1>3, <2>1 DEF ListingRecord, ListingsAreActive, Live
    <3>2. Live(n, since, now)'
      BY <3>1, LiveStays
    <3> QED
      BY <1>3, <1>4, <3>2 DEF Live
  <2>2. ASSUME listing[l].pc = "listed", NEW n \in Nonces, inserted'[n] \in 1..since, ~Ended(n)'
        PROVE  n \in listing[l].result
    <3>1. inserted'[n] = inserted[n] /\ ~Ended(n)
      BY <1>2, <2>2, PastStays
    <3> QED
      BY <1>3, <2>2, <3>1 DEF ListingsAreActive
  <2>3. listing'[l].since <= Len(audit')
    BY <1>2, <1>3, <1>4
  <2>4. listing'[l].pc = "listed" => OnlyLive(l)'
    BY <1>4, <2>1 DEF OnlyLive, Live
  <2>5. listing'[l].pc = "listed" => AllLive(l)'
    BY <1>3, <1>4, <2>2 DEF AllLive, Ended, EndedBy
  <2> QED
    BY <2>3, <2>4, <2>5
<1>5. CASE listing'[l] = [listing[l] EXCEPT !.pc = "listing", !.now = clock,
                                            !.since = Len(audit)]
  BY <1>1, <1>2, <1>5 DEF ListingRecord
<1>6. CASE /\ ListActive(listing[l].now)
           /\ listing'[l] = [listing[l] EXCEPT !.pc = "listed", !.result = held']
  <2>1. /\ listing'[l].since = since /\ listing'[l].now = now
        /\ listing'[l].result = held' /\ ListActive(now)
    BY <1>1, <1>3, <1>6 DEF ListingRecord
  <2>2. held' \subseteq Nonces /\ \A n \in held' : n \in held /\ ~Outdated(n, now)
    BY <1>1, <2>1, ListMoves
  <2>3. ASSUME NEW n \in held'
        PROVE  Live(n, listing[l].since, listing[l].now)'
    <3>1. n \in Nonces /\ Live(n, since, now)
      BY <2>2, HeldIsLive
    <3>2. Live(n, since, now)'
      BY <3>1, LiveStays
    <3> QED
      BY <2>1, <3>2 DEF Live
  <2>4. \A n \in Nonces : inserted'[n] > 0 /\ ~Ended(n)' => n \in held'
    BY AuditStep DEF AuditInv, AuditTellsHeld
  <2>5. \A n \in Nonces : inserted'[n] \in 1..since => inserted'[n] > 0
    OBVIOUS
  <2>6. listing'[l].since <= Len(audit')
    BY <1>2, <2>1
  <2>7. OnlyLive(l)'
    BY <2>1, <2>3 DEF OnlyLive, Live
  <2>8. AllLive(l)'
    BY <2>1, <2>4, <2>5 DEF AllLive
  <2> QED
    BY <2>6, <2>7, <2>8
<1> QED
  BY <1>1, <1>4, <1>5, <1>6, ListingMoves

\* Nobody has called.
LEMMA SessionInit == EnforcerInit => SessionInv
<1> SUFFICES ASSUME EnforcerInit
             PROVE  CallsFit /\ ListingsPlaced /\ StaleGrantsStop /\ ListingsAreActive
  BY AuditInit DEF SessionInv
<1>1. Len(audit) = 0
  BY DEF EnforcerInit, StoreInit
<1>2. /\ \A c \in Calls : call[c].pc = "idle" /\ call[c].since = 0 /\ call[c].cap = NoNonce
      /\ \A l \in Listings : listing[l].pc = "idle" /\ listing[l].since = 0
  BY DEF EnforcerInit
<1> QED
  BY <1>1, <1>2 DEF CallsFit, ListingsPlaced, StaleGrantsStop, ListingsAreActive

\* Nor does a step break it.
LEMMA SessionStep ==
    ASSUME SessionInv, [EnforcerNext]_authorizing
    PROVE  SessionInv'
  BY AuditStep, CallsFitStep, StaleStep, ListingsStep DEF SessionInv

\* No authorization exercises a capability that was revoked, or seen to expire,
\* before it began.
THEOREM StaleGrantsNeverHit == EnforcerSpec => []StaleGrantsStop
<1> QED
  BY SessionInit, SessionStep, PTL DEF EnforcerSpec, SessionInv

\* A listing is the set of capabilities in force when it ran.
THEOREM ListingsAreTrue == EnforcerSpec => []ListingsAreActive
<1> QED
  BY SessionInit, SessionStep, PTL DEF EnforcerSpec, SessionInv

-----------------------------------------------------------------------------
(* The enforcer implements GrantBook.                                      *)

\* What may let a call through does not change.
LEMMA FitsStay ==
    ASSUME EnforcerTypeOK, [EnforcerNext]_authorizing
    PROVE  UNCHANGED Fits
  BY StepMoves DEF Fits, Permits

\* Tokens that leave the dict, and nothing else, are struck from the book.
LEMMA LeavingStrikes ==
    ASSUME AuditInv, UNCHANGED Fits, UNCHANGED inserted,
           NEW some \in SUBSET held, held' = held \ some
    PROVE  Book!Strike(some)
<1>1. \A n \in held : n \in Nonces /\ inserted[n] > 0
  BY DEF AuditInv, AuditTellsHeld, EnforcerTypeOK, StoreTypeOK
<1>2. Struck' = Struck \cup some
  BY <1>1 DEF Struck
<1> QED
  BY <1>2 DEF Book!Strike

\* Others leave the calls alone.
LEMMA OthersKeepCalls ==
    ASSUME EnforcerTypeOK, UNCHANGED <<token, call>>
    PROVE  UNCHANGED <<Right, Verdicts>>
  BY DEF Right, Verdicts

\* A step that leaves the store, the asks and the calls alone is none in the book.
LEMMA Stutters ==
    ASSUME EnforcerTypeOK, UNCHANGED <<token, held, inserted, ask, call>>
    PROVE  UNCHANGED <<Fits, held, Struck, Right, Verdicts>>
  BY DEF Fits, Permits, Struck, Right, Verdicts

\* A grant enters the book.
LEMMA GrantEnters ==
    ASSUME AuditInv, UNCHANGED Fits, NEW n \in Nonces, Grant(n), Others
    PROVE  Book!Enter
<1>1. EnforcerTypeOK /\ held' = held \cup {n} /\ inserted[n] = 0 /\ UNCHANGED <<token, call>>
  BY DEF AuditInv, Grant, Others
<1>2. inserted' = [inserted EXCEPT ![n] = Len(audit) + 1]
  BY DEF Grant
<1>3. n \notin held /\ n \notin Struck
  BY <1>1 DEF AuditInv, AuditTellsHeld, Struck
<1>4. Len(audit) + 1 > 0 /\ inserted \in [Nonces -> Nat]
  BY <1>1 DEF EnforcerTypeOK, StoreTypeOK
<1>5. \A m \in Nonces : inserted'[m] > 0 <=> m = n \/ inserted[m] > 0
  BY <1>2, <1>4
<1>6. Struck' = Struck
  BY <1>1, <1>5 DEF Struck
<1>7. UNCHANGED <<Right, Verdicts>>
  BY <1>1, OthersKeepCalls
<1>8. n \in Nonces \ (held \cup Struck)
  BY <1>3
<1> QED
  BY <1>1, <1>6, <1>7, <1>8 DEF Book!Enter

\* A step that moves tokens out of the dict, and leaves the calls alone, strikes.
LEMMA LeavingStrikesOnly ==
    ASSUME AuditInv, UNCHANGED Fits, UNCHANGED <<inserted, Right, Verdicts>>,
           NEW some \in SUBSET held, held' = held \ some
    PROVE  Book!StrikeOnly
<1>1. Book!Strike(some)
  BY LeavingStrikes
<1> QED
  BY <1>1 DEF Book!StrikeOnly

\* Where the calls stand in the book.
LEMMA RightAndVerdict ==
    ASSUME CallsFit, NEW c \in Calls
    PROVE  /\ call[c].pc \in {"idle", "checking", "checked"} => Verdicts[c] = "none"
           /\ call[c].pc \in {"idle", "checking"} => Right[c] = NoNonce
           /\ call[c].pc = "checked" /\ ReviewDone(c) => Right[c] # NoNonce
  BY StoreAssumption DEF CallsFit, Right, Verdicts, ReviewDone

\* A call that ends without touching the store is refused.
LEMMA EndRefuses ==
    ASSUME AuditInv, CallsFit, UNCHANGED Fits, NEW c \in Calls, UNCHANGED store,
           call[c].pc \in {"idle", "checked"}, call' = [call EXCEPT ![c].pc = "denied"]
    PROVE  Book!Refuse(c)
<1>1. call \in [Calls -> CallRecord]
  BY DEF AuditInv, EnforcerTypeOK
<1>2. Verdicts[c] = "none"
  BY RightAndVerdict
<1>3. Verdicts' = [Verdicts EXCEPT ![c] = "refused"]
  BY <1>1 DEF Verdicts, CallRecord
<1>4. UNCHANGED Right
  BY <1>1 DEF Right, CallRecord, store
<1>5. Book!Strike({})
  BY LeavingStrikes DEF store
<1> QED
  BY <1>2, <1>3, <1>4, <1>5 DEF Book!Refuse

\* A call that is let through is permitted.
LEMMA AllowPermits ==
    ASSUME AuditInv, CallsFit, UNCHANGED Fits, NEW c \in Calls, Allow(c)
    PROVE  Book!Permit(c)
<1>1. /\ call \in [Calls -> CallRecord] /\ call[c].pc = "checked" /\ ReviewDone(c)
      /\ call' = [call EXCEPT ![c].pc = "allowed"]
      /\ UNCHANGED <<token, held, inserted>>
  BY DEF AuditInv, EnforcerTypeOK, Allow, store
<1>2. Verdicts[c] = "none" /\ Right[c] # NoNonce
  BY <1>1, RightAndVerdict
<1>3. Verdicts' = [Verdicts EXCEPT ![c] = "permitted"]
  BY <1>1 DEF Verdicts, CallRecord
<1>4. UNCHANGED Right
  BY <1>1 DEF Right, CallRecord
<1>5. UNCHANGED Struck
  BY <1>1 DEF Struck
<1> QED
  BY <1>1, <1>2, <1>3, <1>4, <1>5 DEF Book!Permit

\* A check that hits exercises the grant, unless it needs review; a miss refuses.
LEMMA CheckExercises ==
    ASSUME AuditInv, CallsFit, UNCHANGED Fits, NEW c \in Calls, CheckGrant(c)
    PROVE  Book!Exercise(c) \/ Book!Refuse(c) \/ Book!StrikeOnly
<1>1. EnforcerTypeOK /\ call \in [Calls -> CallRecord] /\ call[c].pc = "checking"
  BY DEF AuditInv, EnforcerTypeOK, CheckGrant
<1>2. PICK hit \in Nonces \cup {NoNonce} :
          /\ CheckHeld(ask[c].resource, ask[c].target, call[c].now, hit)
          /\ call' = [call EXCEPT ![c].pc = Outcome(hit), ![c].cap = hit]
  BY DEF CheckGrant
<1> DEFINE some == Pruned(hit, call[c].now)
<1>3. /\ some \in SUBSET held /\ held' = held \ some
      /\ UNCHANGED <<inserted, token>>
  BY <1>2 DEF CheckHeld, Pruned
<1>4. Book!Strike(some)
  BY <1>3, LeavingStrikes
<1>5. Verdicts[c] = "none" /\ Right[c] = NoNonce
  BY <1>1, RightAndVerdict
<1>6. /\ call[c].cap = NoNonce /\ ~Barred(c)
      /\ \A d \in Calls \ {c} : call'[d] = call[d]
      /\ call'[c].pc = Outcome(hit) /\ call'[c].cap = hit
  BY <1>1, <1>2 DEF CallsFit, CallRecord
<1>7. ASSUME hit = NoNonce
      PROVE  Book!Refuse(c)
  <2>1. Verdicts' = [Verdicts EXCEPT ![c] = "refused"]
    BY <1>6, <1>7 DEF Verdicts, Outcome
  <2>2. UNCHANGED Right
    BY <1>3, <1>6, <1>7 DEF Right
  <2> QED
    BY <1>3, <1>4, <1>5, <2>1, <2>2 DEF Book!Refuse
<1>8. ASSUME hit # NoNonce
      PROVE  UNCHANGED Verdicts /\ hit \in held /\ hit \in held'
             /\ Permits(hit, ask[c].resource, ask[c].target)
  <2>1. UNCHANGED Verdicts
    BY <1>1, <1>6, <1>8 DEF Verdicts, Outcome
  <2> QED
    BY <1>1, <1>2, <1>8, <2>1, CheckMoves
<1>9. ASSUME hit # NoNonce, token[hit].review
      PROVE  Book!StrikeOnly
  <2>1. UNCHANGED Right
    BY <1>3, <1>6, <1>9 DEF Right
  <2> QED
    BY <1>3, <1>8, <1>9, <2>1, LeavingStrikesOnly
<1>10. ASSUME hit # NoNonce, ~token[hit].review
       PROVE  Book!Exercise(c)
  <2>1. Right' = [Right EXCEPT ![c] = hit]
    BY <1>3, <1>6, <1>10 DEF Right
  <2>2. hit \in Fits[c]
    BY <1>6, <1>8, <1>10 DEF Fits, Barred
  <2>3. hit \in held \cap Fits[c] /\ some \in SUBSET (held \ {hit}) /\ UNCHANGED Verdicts
    BY <1>3, <1>8, <1>10, <2>2
  <2> QED
    BY <1>4, <1>5, <2>1, <2>3 DEF Book!Exercise
<1> QED
  BY <1>7, <1>9, <1>10

\* Every step is a step in the book, or none.
LEMMA StepRefines ==
    ASSUME AuditInv, CallsFit, [EnforcerNext]_authorizing
    PROVE  [Book!Next]_<<Fits, held, Struck, Right, Verdicts>>
<1>1. EnforcerTypeOK /\ UNCHANGED Fits
  BY FitsStay DEF AuditInv
<1>2. CASE UNCHANGED authorizing \/ (Tick /\ Others)
  <2>1. UNCHANGED <<token, held, inserted, ask, call>>
    BY <1>2 DEF authorizing, store, Tick, Others
  <2> QED
    BY <1>1, <2>1, Stutters
<1>3. ASSUME NEW n \in Nonces, Grant(n), Others
      PROVE  Book!Next
  BY <1>1, <1>3, GrantEnters DEF Book!Next
<1>4. ASSUME NEW n \in Nonces, Revoke(n), Others
      PROVE  Book!Next
  <2>1. {n} \in SUBSET held /\ held' = held \ {n} /\ UNCHANGED <<inserted, token, call>>
    BY <1>4 DEF Revoke, Removed, Others
  <2>2. Book!StrikeOnly
    BY <1>1, <2>1, OthersKeepCalls, LeavingStrikesOnly
  <2> QED
    BY <2>2 DEF Book!Next
<1>5. ASSUME NEW c \in Calls, DenyUntrusted(c) \/ Deny(c)
      PROVE  Book!Next
  <2>1. Book!Refuse(c)
    BY <1>1, <1>5, EndRefuses DEF DenyUntrusted, Deny
  <2> QED
    BY <2>1 DEF Book!Next
<1>6. ASSUME NEW c \in Calls, EnterCheck(c)
      PROVE  UNCHANGED <<Fits, held, Struck, Right, Verdicts>>
  <2>1. /\ call \in [Calls -> CallRecord] /\ call[c].pc = "idle"
        /\ UNCHANGED <<token, held, inserted>>
        /\ call' = [call EXCEPT ![c].pc = "checking", ![c].now = clock, ![c].since = Len(audit)]
    BY <1>1, <1>6 DEF EnterCheck, EnforcerTypeOK, store
  <2>2. UNCHANGED Right
    BY <2>1 DEF Right, CallRecord
  <2>3. UNCHANGED Verdicts
    BY <2>1 DEF Verdicts, CallRecord
  <2> QED
    BY <1>1, <2>1, <2>2, <2>3 DEF Struck
<1>7. ASSUME NEW c \in Calls, CheckGrant(c)
      PROVE  Book!Next
  BY <1>1, <1>7, CheckExercises DEF Book!Next
<1>8. ASSUME NEW c \in Calls, Allow(c)
      PROVE  Book!Next
  BY <1>1, <1>8, AllowPermits DEF Book!Next
<1>9. ASSUME NEW l \in Listings, EnterListing(l)
      PROVE  UNCHANGED <<Fits, held, Struck, Right, Verdicts>>
  BY <1>1, <1>9, Stutters DEF EnterListing, store
<1>10. ASSUME NEW l \in Listings, AnswerListing(l)
       PROVE  Book!Next
  <2> DEFINE some == {n \in held : Outdated(n, listing[l].now)}
  <2>1. some \in SUBSET held /\ held' = held \ some /\ UNCHANGED <<inserted, token, call>>
    BY <1>10 DEF AnswerListing, ListActive
  <2>2. Book!StrikeOnly
    BY <1>1, <2>1, OthersKeepCalls, LeavingStrikesOnly
  <2> QED
    BY <2>2 DEF Book!Next
<1> QED
  BY <1>2, <1>3, <1>4, <1>5, <1>6, <1>7, <1>8, <1>9, <1>10 DEF EnforcerNext

\* Before anything runs the book is empty.
LEMMA InitRefines == EnforcerInit => Book!Init
<1> SUFFICES ASSUME EnforcerInit PROVE Book!Init
  OBVIOUS
<1>1. /\ held = {} /\ inserted = [n \in Nonces |-> 0]
      /\ call = [c \in Calls |-> [pc |-> "idle", now |-> 0, since |-> 0, cap |-> NoNonce]]
  BY DEF EnforcerInit, StoreInit
<1>2. Struck = {}
  BY <1>1 DEF Struck
<1>3. Right = [c \in Calls |-> NoNonce]
  BY <1>1 DEF Right
<1>4. Verdicts = [c \in Calls |-> "none"]
  BY <1>1 DEF Verdicts
<1>5. Fits \in [Calls -> SUBSET Nonces]
  BY DEF Fits
<1> QED
  BY <1>1, <1>2, <1>3, <1>4, <1>5 DEF Book!Init

\* The enforcer keeps the promise of GrantBook: a call is let through only by a
\* grant that fits it and was in force at the call's check.
THEOREM EnforcerKeepsTheBook == EnforcerSpec => KeepsTheBook
<1>1. SessionInv /\ [EnforcerNext]_authorizing => [Book!Next]_<<Fits, held, Struck, Right, Verdicts>>
  BY StepRefines DEF SessionInv
<1> QED
  BY <1>1, InitRefines, SessionInit, SessionStep, PTL
  DEF EnforcerSpec, KeepsTheBook, Book!Spec, Book!bookVars
============================================================================
