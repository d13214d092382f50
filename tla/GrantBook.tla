----------------------------- MODULE GrantBook -----------------------------
(***************************************************************************)
(* What capability enforcement promises: a book of the grants in force. A  *)
(* grant is entered once and struck once, for good. A call is permitted    *)
(* only by a grant that fits it and that was in the book at some instant   *)
(* of the call.                                                            *)
(***************************************************************************)
CONSTANTS Nonces, NoNonce, Calls

VARIABLES
    fits,       \* fits[c]: the grants that may let call c through; fixed
    book,       \* the grants in force
    struck,     \* the grants that were
    right,      \* right[c]: the grant call c exercised, NoNonce before
    verdict     \* verdict[c]

bookVars == <<fits, book, struck, right, verdict>>

Init ==
    /\ fits \in [Calls -> SUBSET Nonces]
    /\ book = {}
    /\ struck = {}
    /\ right = [c \in Calls |-> NoNonce]
    /\ verdict = [c \in Calls |-> "none"]

Enter ==
    /\ \E n \in Nonces \ (book \cup struck) : book' = book \cup {n}
    /\ UNCHANGED <<fits, struck, right, verdict>>

\* Some grants are struck, possibly none.
Strike(some) ==
    /\ some \subseteq book
    /\ book' = book \ some
    /\ struck' = struck \cup some
    /\ UNCHANGED fits

StrikeOnly == (\E some \in SUBSET book : Strike(some)) /\ UNCHANGED <<right, verdict>>

\* Looking a grant up may strike others.
Exercise(c) ==
    /\ verdict[c] = "none"
    /\ right[c] = NoNonce
    /\ \E n \in book \cap fits[c] :
          /\ \E some \in SUBSET (book \ {n}) : Strike(some)
          /\ right' = [right EXCEPT ![c] = n]
    /\ UNCHANGED verdict

Permit(c) ==
    /\ verdict[c] = "none"
    /\ right[c] # NoNonce
    /\ verdict' = [verdict EXCEPT ![c] = "permitted"]
    /\ UNCHANGED <<fits, book, struck, right>>

\* A call may be refused whatever it holds.
Refuse(c) ==
    /\ verdict[c] = "none"
    /\ \E some \in SUBSET book : Strike(some)
    /\ verdict' = [verdict EXCEPT ![c] = "refused"]
    /\ UNCHANGED right

Next ==
    \/ Enter
    \/ StrikeOnly
    \/ \E c \in Calls : Exercise(c) \/ Permit(c) \/ Refuse(c)

Spec == Init /\ [][Next]_bookVars
============================================================================
