---------------------------- MODULE TokenPromise ----------------------------
(***************************************************************************)
(* What the login component promises about the tokens it issues: the life  *)
(* of a token.  A partial token can be exchanged once for a full one,      *)
(* after at most two wrong secrets; the third wrong secret kills it; a     *)
(* dead token never comes back to life.                                    *)
(***************************************************************************)
EXTENDS Naturals

CONSTANT Tokens

VARIABLES
    status,         \* "unused", "partial", "full", "dead"
    wrong,          \* the wrong secrets given for a partial token
    parent          \* the partial token a full token was exchanged for

vars == <<status, wrong, parent>>

MaxWrong == 3

Init ==
    /\ status = [t \in Tokens |-> "unused"]
    /\ wrong = [t \in Tokens |-> 0]
    /\ parent = [t \in Tokens |-> {}]

Issue(t, how) ==
    /\ status[t] = "unused"
    /\ status' = [status EXCEPT ![t] = how]
    /\ UNCHANGED <<wrong, parent>>

WrongSecret(t) ==
    /\ status[t] = "partial"
    /\ wrong' = [wrong EXCEPT ![t] = @ + 1]
    /\ status' = IF wrong[t] + 1 = MaxWrong
                   THEN [status EXCEPT ![t] = "dead"] ELSE status
    /\ UNCHANGED parent

Exchange(t, new) ==
    /\ status[t] = "partial"
    /\ status[new] = "unused"
    /\ status' = [status EXCEPT ![t] = "dead", ![new] = "full"]
    /\ parent' = [parent EXCEPT ![new] = {t}]
    /\ UNCHANGED wrong

\* Tokens are logged out, or lost.
Revoke(ts) ==
    /\ status' = [t \in Tokens |->
                    IF t \in ts /\ status[t] # "unused" THEN "dead"
                                                        ELSE status[t]]
    /\ UNCHANGED <<wrong, parent>>

Next ==
    \/ \E t \in Tokens : Issue(t, "partial") \/ Issue(t, "full")
    \/ \E t \in Tokens : WrongSecret(t)
    \/ \E t, new \in Tokens : Exchange(t, new)
    \/ \E ts \in SUBSET Tokens : Revoke(ts)

Spec == Init /\ [][Next]_vars
=============================================================================
