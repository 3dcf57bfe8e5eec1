----------------------------- MODULE RpcPromise -----------------------------
(***************************************************************************)
(* What a session may expect of the recogniser behind RabbitMQ: each call  *)
(* ends at most once, either with what the recogniser said of that call,   *)
(* which it says at most once, or with a failure.  RecogSession, Recog and *)
(* their RpcAnswers, RpcFails and RpcEnds rely on no more than this.       *)
(***************************************************************************)
CONSTANT Calls

VARIABLES
    outcome,        \* "none", "waiting", then how the call ended
    said            \* what the recogniser said of each call, if anything

vars == <<outcome, said>>

Verdicts == {"accepted", "rejected"}

Init ==
    /\ outcome = [c \in Calls |-> "none"]
    /\ said = [c \in Calls |-> "nothing"]

Call(c) ==
    /\ outcome[c] = "none"
    /\ outcome' = [outcome EXCEPT ![c] = "waiting"]
    /\ UNCHANGED said

\* The recogniser may examine a call whose caller has given up.
Examine(c, v) ==
    /\ outcome[c] # "none"
    /\ said[c] = "nothing"
    /\ said' = [said EXCEPT ![c] = v]
    /\ UNCHANGED outcome

Answer(c) ==
    /\ outcome[c] = "waiting"
    /\ said[c] \in Verdicts
    /\ outcome' = [outcome EXCEPT ![c] = said[c]]
    /\ UNCHANGED said

Fail(c) ==
    /\ outcome[c] = "waiting"
    /\ outcome' = [outcome EXCEPT ![c] = "failed"]
    /\ UNCHANGED said

Next ==
    \E c \in Calls :
        \/ Call(c)
        \/ \E v \in Verdicts : Examine(c, v)
        \/ Answer(c)
        \/ Fail(c)

Spec == Init /\ [][Next]_vars
=============================================================================
