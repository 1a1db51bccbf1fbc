---------------------------- MODULE AccessGrant ----------------------------
(***************************************************************************)
(* What an access lease promises, whatever the messages, clicks, timers    *)
(* and evictions: a request is open until somebody who was asked, and has  *)
(* not said no since, lends access, or until it is over; and it is never   *)
(* open again.                                                             *)
(***************************************************************************)
CONSTANTS
    Requests,  \* access requests
    Owners,    \* colleagues who may lend their connection
    Nobody     \* the lender of a request that was not granted

VARIABLES
    phase,   \* none, open, granted or over
    willing, \* the owners who were asked and may still lend
    lender   \* the owner whose connection is lent

vars == <<phase, willing, lender>>

Init ==
    /\ phase = [r \in Requests |-> "none"]
    /\ willing = [r \in Requests |-> {}]
    /\ lender = [r \in Requests |-> Nobody]

Open(r) ==
    /\ phase[r] = "none"
    /\ phase' = [phase EXCEPT ![r] = "open"]
    /\ UNCHANGED <<willing, lender>>

\* A request that cannot be time-boxed is over before anybody is asked.
Refuse(r) ==
    /\ phase[r] = "none"
    /\ phase' = [phase EXCEPT ![r] = "over"]
    /\ UNCHANGED <<willing, lender>>

\* The card is in the thread: the owners it tags may decide.
Invite(r, asked) ==
    /\ phase[r] = "open"
    /\ willing[r] = {}
    /\ willing' = [willing EXCEPT ![r] = asked]
    /\ UNCHANGED <<phase, lender>>

\* An owner declines, or can no longer lend; the last one ends the request.
Withdraw(r, o) ==
    /\ phase[r] = "open"
    /\ o \in willing[r]
    /\ willing' = [willing EXCEPT ![r] = @ \ {o}]
    /\ phase' = IF willing[r] = {o} THEN [phase EXCEPT ![r] = "over"] ELSE phase
    /\ UNCHANGED lender

\* The first owner to say yes lends; nobody else is asked any more.
Grant(r, o) ==
    /\ phase[r] = "open"
    /\ o \in willing[r]
    /\ phase' = [phase EXCEPT ![r] = "granted"]
    /\ lender' = [lender EXCEPT ![r] = o]
    /\ willing' = [willing EXCEPT ![r] = {}]

\* Granted and ended at once: the thread moved on while the owner decided.
GrantTooLate(r, o) ==
    /\ phase[r] = "open"
    /\ o \in willing[r]
    /\ phase' = [phase EXCEPT ![r] = "over"]
    /\ lender' = [lender EXCEPT ![r] = o]
    /\ willing' = [willing EXCEPT ![r] = {}]

\* Expired, cancelled or failed without an answer; or a grant that ends.
End(ended) ==
    /\ \A r \in ended : phase[r] \in {"open", "granted"}
    /\ phase' = [r \in Requests |-> IF r \in ended THEN "over" ELSE phase[r]]
    /\ willing' = [r \in Requests |-> IF r \in ended THEN {} ELSE willing[r]]
    /\ UNCHANGED lender

Next ==
    \/ \E r \in Requests :
         \/ Open(r)
         \/ Refuse(r)
         \/ \E asked \in SUBSET Owners : Invite(r, asked)
         \/ \E o \in Owners : Withdraw(r, o) \/ Grant(r, o) \/ GrantTooLate(r, o)
    \/ \E ended \in SUBSET Requests : End(ended)

Spec == Init /\ [][Next]_vars
=============================================================================
