---------------------------- MODULE MCRpcServer ----------------------------
(* Small instances of RpcServer: two clients that use the same correlation *)
(* id, one of them with a second call.                                     *)
EXTENDS RpcServer

CONSTANTS a, b, w1, w2

MCCalls == {[client |-> a, id |-> 1], [client |-> b, id |-> 1],
            [client |-> a, id |-> 2]}
MCTwoCalls == {[client |-> a, id |-> 1], [client |-> b, id |-> 1]}

MCFaces == {[client |-> a, id |-> 1]}
=============================================================================
