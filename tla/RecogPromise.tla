---------------------------- MODULE RecogPromise ----------------------------
(***************************************************************************)
(* What a recognition session promises to the clients that submit images   *)
(* to it, whatever mailboxes, futures and timers it is built from.  A      *)
(* session has a number of features still to be recognised; each request   *)
(* is answered at most once; an accepted image takes one feature off; the  *)
(* completion token is handed out exactly when the last feature goes, and  *)
(* a session that has ended (completed, expired, killed) answers nobody.   *)
(***************************************************************************)
EXTENDS Naturals

CONSTANTS
    Requests,       \* the ProcessImage requests clients may make
    Features        \* how many features the session requires, not 0

VARIABLES
    remaining,      \* features not recognised yet
    open,           \* FALSE once the session has expired or was killed
    answer          \* the answers each request was given: none or one

vars == <<remaining, open, answer>>

Accepted  == "RecogSessionAccepted"
Rejected  == "RecogSessionRejected"
Completed == "RecogSessionCompleted"
Answers   == {Accepted, Rejected, Completed}

TypeOK ==
    /\ remaining \in 0..Features
    /\ open \in BOOLEAN
    /\ answer \in [Requests -> {<<>>} \cup {<<a>> : a \in Answers}]

Init ==
    /\ remaining = Features
    /\ open = TRUE
    /\ answer = [r \in Requests |-> <<>>]

Answer(r, a) ==
    /\ open
    /\ remaining > 0
    /\ answer[r] = <<>>
    /\ answer' = [answer EXCEPT ![r] = <<a>>]

\* An image that shows the required feature, more features to come.
Accept(r) ==
    /\ remaining > 1
    /\ Answer(r, Accepted)
    /\ remaining' = remaining - 1
    /\ UNCHANGED open

\* An image that shows the last required feature.
Complete(r) ==
    /\ remaining = 1
    /\ Answer(r, Completed)
    /\ remaining' = 0
    /\ UNCHANGED open

\* An image that does not show the feature, or that could not be examined.
Reject(r) ==
    /\ Answer(r, Rejected)
    /\ UNCHANGED <<remaining, open>>

\* The session times out or is killed.
Close ==
    /\ open
    /\ open' = FALSE
    /\ UNCHANGED <<remaining, answer>>

Next ==
    \/ \E r \in Requests : Accept(r) \/ Complete(r) \/ Reject(r)
    \/ Close

Spec == Init /\ [][Next]_vars
=============================================================================
