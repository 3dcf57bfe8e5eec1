------------------------------ MODULE RecogFSM ------------------------------
(***************************************************************************)
(* The vocabulary of the recognition sessions (core/recog/instance.scala,  *)
(* core/recog/data.scala): the states of the FSM, the messages it takes,   *)
(* the answers it gives, and the functions of ActiveSession, its data.     *)
(*                                                                         *)
(* A request r stands for one ProcessImage ask: the image in it and the    *)
(* temporary actor (the "sender") that waits for its answer.               *)
(***************************************************************************)
EXTENDS Naturals, Sequences, FiniteSets, Functions

CONSTANTS
    Requests,       \* the ProcessImage asks that clients make
    NoRequest,      \* the sender of a message that is no image
    Feature,        \* SquareFeature, CircleFeature, FaceFeature
    Required        \* SessionConfiguration.requiredFeatures

ASSUME RequiredAssumption  == Required \in Seq(Feature) /\ Required # <<>>
ASSUME NoRequestAssumption == NoRequest \notin Requests

-----------------------------------------------------------------------------
Idle                  == "Idle"
WaitingForMoreImages  == "WaitingForMoreImages"
WaitingForImageResult == "WaitingForImageResult"
Aborted               == "Aborted"
Completed             == "Completed"

RecogSessionState ==
    {Idle, WaitingForMoreImages, WaitingForImageResult, Aborted, Completed}

\* Mutant of TimedStates: when(Completed) without its timeout.
TimedStatesButCompleted == {Idle, WaitingForMoreImages, WaitingForImageResult}

\* The states that when(.., timeout) gives a timeout.
TimedStates ==
    {Idle, WaitingForMoreImages, WaitingForImageResult, Completed}

\* What a session answers an image with.
RecogSessionAccepted  == "RecogSessionAccepted"
RecogSessionRejected  == "RecogSessionRejected"
RecogSessionCompleted == "RecogSessionCompleted"
Answers == {RecogSessionAccepted, RecogSessionRejected, RecogSessionCompleted}

\* How a future ends: with the recogniser's verdict, or failed.
Verdicts == {"accepted", "rejected", "failed"}

-----------------------------------------------------------------------------
(* Messages.  accepted is the RecogResult of a SenderResult.               *)

Message ==
    [kind : {"Image", "SenderResult"}, sender : Requests, accepted : BOOLEAN]
    \cup
    [kind : {"SessionConfiguration", "Kill"}, sender : {NoRequest},
     accepted : {FALSE}]

Configuration == [kind |-> "SessionConfiguration", sender |-> NoRequest,
                  accepted |-> FALSE]
Kill          == [kind |-> "Kill", sender |-> NoRequest, accepted |-> FALSE]
Image(r)      == [kind |-> "Image", sender |-> r, accepted |-> FALSE]
SenderResult(r, ok) ==
    [kind |-> "SenderResult", sender |-> r, accepted |-> ok]

-----------------------------------------------------------------------------
(* ActiveSession                                                           *)

\* The features as the recogniser is to see them, given those seen so far.
RequiredFeature(features) == Required[Len(features) + 1]

\* Mutant of WithResult: the new feature goes to the end of the list.
WithResultLast(features) ==
    IF Len(features) < Len(Required)
      THEN Append(features, RequiredFeature(features))
      ELSE features

WithResult(features) ==
    IF Len(features) < Len(Required)
      THEN <<RequiredFeature(features)>> \o features
      ELSE features

IsCompleted(features) == Len(Required) = Len(features)

-----------------------------------------------------------------------------
\* The messages that a session in state st takes, given whether its data is
\* an ActiveSession.  Any other is logged and dropped, and if it is an image
\* its sender hears nothing.
Handled(m, st, isActive) ==
    \/ m.kind = "SessionConfiguration" /\ st = Idle /\ ~isActive
    \/ m.kind = "Image" /\ st = WaitingForMoreImages /\ isActive
    \/ m.kind = "SenderResult" /\ st = WaitingForImageResult /\ isActive
    \/ m.kind = "Kill"
=============================================================================
