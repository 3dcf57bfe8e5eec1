------------------------------- MODULE Recog -------------------------------
(***************************************************************************)
(* The recognition service: HTTP clients (api/recog.scala), the            *)
(* RecogCoordinatorActor (core/recog/coordinator.scala), its children the  *)
(* RecogSessionActors (core/recog/instance.scala), and the recogniser      *)
(* behind them, known here only by how it ends the sessions' futures.      *)
(*                                                                         *)
(* A request is one POST of an image: an ask of the coordinator, which     *)
(* forwards the image to the session with the ask's own sender, so that it *)
(* is the session that answers the client.  Asks to the coordinator wait   *)
(* in a set: they come from different senders, in any order.               *)
(*                                                                         *)
(* There is no clock: a state timeout may strike an idle session at any    *)
(* time, but in WaitingForImageResult (RecogSession shows it never does),  *)
(* and a client's ask may expire at any time, before or after the          *)
(* session's own ask of the recogniser, which has the same timeout.        *)
(***************************************************************************)
EXTENDS RecogFSM

CONSTANTS
    Sessions,       \* the UUIDs of sessions
    NoSession

ASSUME NoSessionAssumption == NoSession \notin Sessions

VARIABLES
    life,              \* of each child: "none", "starting", "running", "stopped"
    state,             \* of each session, as in RecogSession
    active,
    acceptedFeatures,
    mailbox,
    target,            \* the session each request is made to
    asks,              \* requests the coordinator has not forwarded yet
    waiting,           \* requests whose client still waits for an answer
    rpcs,              \* requests whose image is at the recogniser
    verdict,           \* (history) how the recogniser's futures completed
    answer,            \* (history) the answers sessions sent
    status,            \* the HTTP statuses each request was completed with
    dropped,           \* (history) requests a live session has dropped
    found              \* the coordinator's last answer to FindActiveSessions

sessionVars == <<life, state, active, acceptedFeatures, mailbox>>
clientVars  == <<target, asks, waiting, status>>
vars == <<sessionVars, clientVars, rpcs, verdict, answer, dropped, found>>

Init ==
    /\ life = [s \in Sessions |-> "none"]
    /\ state = [s \in Sessions |-> Idle]
    /\ active = [s \in Sessions |-> FALSE]
    /\ acceptedFeatures = [s \in Sessions |-> <<>>]
    /\ mailbox = [s \in Sessions |-> <<>>]
    /\ target = [r \in Requests |-> NoSession]
    /\ asks = {}
    /\ waiting = {}
    /\ rpcs = {}
    /\ verdict = [r \in Requests |-> {}]
    /\ answer = [r \in Requests |-> <<>>]
    /\ status = [r \in Requests |-> {}]
    /\ dropped = {}
    /\ found = {}

Exists(s) == life[s] \in {"starting", "running"}
Ended(s)  == ~Exists(s) \/ state[s] \in {Completed, Aborted}

\* A message to a session that does not exist, or no more, is a dead letter.
Send(s, m) ==
    mailbox' = IF Exists(s) THEN [mailbox EXCEPT ![s] = Append(@, m)]
                            ELSE mailbox

-----------------------------------------------------------------------------
(* HTTP clients.                                                           *)

\* Mutant of StatusOf: the status of a missing session.
StatusNotFound(a) == IF a = RecogSessionRejected THEN 404 ELSE 202

\* RecogService.image: the status that completes the request.
StatusOf(a) ==
    CASE a = RecogSessionAccepted  -> 202
      [] a = RecogSessionRejected  -> 400
      [] a = RecogSessionCompleted -> 200
      [] OTHER                     -> 500

\* POST /recog/{s}: whatever UUID the client names, used or not.
PostImage(r, s) ==
    /\ target[r] = NoSession
    /\ target' = [target EXCEPT ![r] = s]
    /\ asks' = asks \cup {r}
    /\ waiting' = waiting \cup {r}
    /\ UNCHANGED <<sessionVars, status, rpcs, verdict, answer, dropped, found>>

\* The ask times out.  image() has no onFailure: the request is not completed.
AskExpires(r) ==
    /\ r \in waiting
    /\ waiting' = waiting \ {r}
    /\ UNCHANGED <<sessionVars, target, asks, status, rpcs, verdict, answer,
                   dropped, found>>

\* A session's answer reaches the client if it still waits for one.
Reply(r, a) ==
    /\ answer' = [answer EXCEPT ![r] = Append(@, a)]
    /\ waiting' = waiting \ {r}
    /\ status' = IF r \in waiting
                   THEN [status EXCEPT ![r] = @ \cup {StatusOf(a)}]
                   ELSE status

-----------------------------------------------------------------------------
(* RecogCoordinatorActor                                                   *)

\* Mutant of Begin: the child is not sent its configuration.
BeginWithoutConfiguration(s) ==
    /\ life[s] = "none"
    /\ life' = [life EXCEPT ![s] = "starting"]
    /\ UNCHANGED <<state, active, acceptedFeatures, mailbox, clientVars, rpcs,
                   verdict, answer, dropped, found>>

\* Begin: a new child, whose first message is its configuration.
Begin(s) ==
    /\ life[s] = "none"
    /\ life' = [life EXCEPT ![s] = "starting"]
    /\ mailbox' = [mailbox EXCEPT ![s] = <<Configuration>>]
    /\ UNCHANGED <<state, active, acceptedFeatures, clientVars, rpcs, verdict,
                   answer, dropped, found>>

ProcessImage(r) ==
    /\ r \in asks
    /\ asks' = asks \ {r}
    /\ Send(target[r], Image(r))
    /\ UNCHANGED <<life, state, active, acceptedFeatures, target, waiting,
                   status, rpcs, verdict, answer, dropped, found>>

\* One Kill in a mailbox stands for any number.
KillActiveSession(s) ==
    /\ Exists(s)
    /\ \A i \in DOMAIN mailbox[s] : mailbox[s][i] # Kill
    /\ Send(s, Kill)
    /\ UNCHANGED <<life, state, active, acceptedFeatures, clientVars, rpcs,
                   verdict, answer, dropped, found>>

\* context.children: every child that has not stopped.
FindActiveSessions ==
    /\ found' = {s \in Sessions : Exists(s)}
    /\ UNCHANGED <<sessionVars, clientVars, rpcs, verdict, answer, dropped>>

-----------------------------------------------------------------------------
(* The sessions, as in RecogSession.                                       *)

Start(s) ==
    /\ life[s] = "starting"
    /\ life' = [life EXCEPT ![s] = "running"]
    /\ UNCHANGED <<state, active, acceptedFeatures, mailbox, clientVars, rpcs,
                   verdict, answer, dropped, found>>

\* The constructor throws, or the session processes a Kill.
Stop(s) ==
    /\ \/ life[s] = "starting"
       \/ life[s] = "running" /\ mailbox[s] # <<>> /\ Head(mailbox[s]) = Kill
    /\ life' = [life EXCEPT ![s] = "stopped"]
    /\ mailbox' = [mailbox EXCEPT ![s] = <<>>]
    /\ UNCHANGED <<state, active, acceptedFeatures, clientVars, rpcs, verdict,
                   answer, dropped, found>>

Receive(s, kind) ==
    /\ life[s] = "running"
    /\ mailbox[s] # <<>>
    /\ Head(mailbox[s]).kind = kind
    /\ mailbox' = [mailbox EXCEPT ![s] = Tail(@)]

Goto(s, st) == state' = [state EXCEPT ![s] = st]

\* Mutant of Configure: no goto(WaitingForMoreImages).
ConfigureAndStay(s) ==
    /\ state[s] = Idle
    /\ ~active[s]
    /\ Receive(s, "SessionConfiguration")
    /\ active' = [active EXCEPT ![s] = TRUE]
    /\ acceptedFeatures' = [acceptedFeatures EXCEPT ![s] = <<>>]
    /\ UNCHANGED <<life, state, clientVars, rpcs, verdict, answer, dropped,
                   found>>

Configure(s) ==
    /\ state[s] = Idle
    /\ ~active[s]
    /\ Receive(s, "SessionConfiguration")
    /\ Goto(s, WaitingForMoreImages)
    /\ active' = [active EXCEPT ![s] = TRUE]
    /\ acceptedFeatures' = [acceptedFeatures EXCEPT ![s] = <<>>]
    /\ UNCHANGED <<life, clientVars, rpcs, verdict, answer, dropped, found>>

HandleImage(s) ==
    /\ state[s] = WaitingForMoreImages
    /\ active[s]
    /\ Receive(s, "Image")
    /\ rpcs' = rpcs \cup {Head(mailbox[s]).sender}
    /\ Goto(s, WaitingForImageResult)
    /\ UNCHANGED <<life, active, acceptedFeatures, clientVars, verdict, answer,
                   dropped, found>>

HandleResult(s) ==
    /\ state[s] = WaitingForImageResult
    /\ active[s]
    /\ Receive(s, "SenderResult")
    /\ LET m        == Head(mailbox[s])
           features == IF m.accepted THEN WithResult(acceptedFeatures[s])
                                     ELSE acceptedFeatures[s]
           done     == m.accepted /\ IsCompleted(features)
       IN /\ acceptedFeatures' = [acceptedFeatures EXCEPT ![s] = features]
          /\ Goto(s, IF done THEN Completed ELSE WaitingForMoreImages)
          /\ Reply(m.sender, IF done THEN RecogSessionCompleted
                             ELSE IF m.accepted THEN RecogSessionAccepted
                             ELSE RecogSessionRejected)
    /\ UNCHANGED <<life, active, target, asks, rpcs, verdict, dropped, found>>

Unhandled(s) ==
    /\ \E kind \in {"SessionConfiguration", "Image", "SenderResult"} :
          Receive(s, kind)
    /\ ~Handled(Head(mailbox[s]), state[s], active[s])
    /\ dropped' = IF Ended(s) THEN dropped
                              ELSE dropped \cup {Head(mailbox[s]).sender}
    /\ UNCHANGED <<life, state, active, acceptedFeatures, clientVars, rpcs,
                   verdict, answer, found>>

StateTimeout(s) ==
    /\ life[s] = "running"
    /\ state[s] \in TimedStates \ {WaitingForImageResult}
    /\ mailbox[s] = <<>>
    /\ Goto(s, Aborted)
    /\ UNCHANGED <<life, active, acceptedFeatures, mailbox, clientVars, rpcs,
                   verdict, answer, dropped, found>>

-----------------------------------------------------------------------------
\* Mutants of RpcEnds: a result that goes to the sender of another message,
\* one that goes to another session, and a failed future that sends nothing.
RpcEndsForAnySender(r, how) ==
    /\ r \in rpcs
    /\ rpcs' = rpcs \ {r}
    /\ verdict' = [verdict EXCEPT ![r] = @ \cup {how}]
    /\ \E q \in Requests : Send(target[r], SenderResult(q, how = "accepted"))
    /\ UNCHANGED <<life, state, active, acceptedFeatures, clientVars, answer,
                   dropped, found>>

RpcEndsInAnySession(r, how) ==
    /\ r \in rpcs
    /\ rpcs' = rpcs \ {r}
    /\ verdict' = [verdict EXCEPT ![r] = @ \cup {how}]
    /\ \E s \in Sessions : Send(s, SenderResult(r, how = "accepted"))
    /\ UNCHANGED <<life, state, active, acceptedFeatures, clientVars, answer,
                   dropped, found>>

RpcEndsSilently(r, how) ==
    /\ r \in rpcs
    /\ rpcs' = rpcs \ {r}
    /\ verdict' = [verdict EXCEPT ![r] = @ \cup {how}]
    /\ IF how = "failed"
         THEN UNCHANGED mailbox
         ELSE Send(target[r], SenderResult(r, how = "accepted"))
    /\ UNCHANGED <<life, state, active, acceptedFeatures, clientVars, answer,
                   dropped, found>>

\* The future of r's examination ends, and sends its result to the session.
RpcEnds(r, how) ==
    /\ r \in rpcs
    /\ rpcs' = rpcs \ {r}
    /\ verdict' = [verdict EXCEPT ![r] = @ \cup {how}]
    /\ Send(target[r], SenderResult(r, how = "accepted"))
    /\ UNCHANGED <<life, state, active, acceptedFeatures, clientVars, answer,
                   dropped, found>>

-----------------------------------------------------------------------------
Client ==
    \E r \in Requests : AskExpires(r) \/ \E s \in Sessions : PostImage(r, s)

Coordinator ==
    \/ \E s \in Sessions : Begin(s) \/ KillActiveSession(s)
    \/ \E r \in Requests : ProcessImage(r)
    \/ FindActiveSessions

Session(s) ==
    \/ Start(s)
    \/ Stop(s)
    \/ Configure(s)
    \/ HandleImage(s)
    \/ HandleResult(s)
    \/ Unhandled(s)
    \/ StateTimeout(s)

Next ==
    \/ Client
    \/ Coordinator
    \/ \E s \in Sessions : Session(s)
    \/ \E r \in Requests, how \in Verdicts : RpcEnds(r, how)

(* The dispatcher runs the coordinator and every session; every ask ends.  *)
Fairness ==
    /\ \A r \in Requests :
          /\ WF_vars(AskExpires(r))
          /\ WF_vars(ProcessImage(r))
          /\ WF_vars(\E how \in Verdicts : RpcEnds(r, how))
    /\ \A s \in Sessions : WF_vars(Session(s))

Spec == Init /\ [][Next]_vars /\ Fairness

-----------------------------------------------------------------------------
(* Properties                                                              *)

TypeOK ==
    /\ life \in [Sessions -> {"none", "starting", "running", "stopped"}]
    /\ state \in [Sessions -> RecogSessionState]
    /\ active \in [Sessions -> BOOLEAN]
    /\ acceptedFeatures \in [Sessions -> Seq(Feature)]
    /\ mailbox \in [Sessions -> Seq(Message)]
    /\ target \in [Requests -> Sessions \cup {NoSession}]
    /\ asks \subseteq Requests
    /\ waiting \subseteq Requests
    /\ rpcs \subseteq Requests
    /\ verdict \in [Requests -> SUBSET Verdicts]
    /\ answer \in [Requests -> Seq(Answers)]
    /\ status \in [Requests -> SUBSET {200, 202, 400, 500}]
    /\ dropped \subseteq Requests
    /\ found \subseteq Sessions

(* End to end: a client is told 200 or 202 only after the recogniser has   *)
(* accepted the very image it posted, 400 only if it has not, 200 only by  *)
(* a session that has then seen every feature; no client ever meets the    *)
(* 500 of image()'s last case, and none is told two things.                *)
StatusIsTheVerdict ==
    \A r \in Requests :
        /\ Cardinality(status[r]) <= 1 /\ 500 \notin status[r]
        /\ status[r] \cap {200, 202} # {} => verdict[r] = {"accepted"}
        /\ 400 \in status[r] => verdict[r] \in {{"rejected"}, {"failed"}}
        /\ 200 \in status[r] => IsCompleted(acceptedFeatures[target[r]])

(* Sessions do not disturb one another: each keeps RecogPromise with the   *)
(* requests made to it, whatever the others and the coordinator do.        *)
Promise(s) == INSTANCE RecogPromise WITH
    Features  <- Len(Required),
    remaining <- Len(Required) - Len(acceptedFeatures[s]),
    open      <- life[s] # "stopped" /\ state[s] # Aborted,
    answer    <- [r \in Requests |-> IF target[r] = s THEN answer[r] ELSE <<>>]

SessionsKeepPromise ==
    /\ \A s \in Sessions : Promise(s)!Init
    /\ [][\A s \in Sessions : [Promise(s)!Next]_(Promise(s)!vars)]_vars

(* A session that is still open only ever drops an image while another     *)
(* request to it is unanswered: a client that has its session to itself    *)
(* and waits for each answer is never ignored.  One whose ask has expired  *)
(* and who tries again may be: its first image may still be examined.      *)
DroppedOnlyByOverlap ==
    [][\A r \in dropped' \ dropped :
         \E q \in Requests \ {r} : target[q] = target[r] /\ answer[q] = <<>>]_vars

(* The configuration is a session's first message, so that no image meets  *)
(* a session without one: an Idle session has nothing else to read first.  *)
ConfiguredFirst ==
    \A s \in Sessions :
        life[s] \in {"starting", "running"} /\ state[s] = Idle =>
            mailbox[s] # <<>> /\ Head(mailbox[s]) = Configuration

(* An image that has reached the recogniser is answered by its session     *)
(* unless that is killed, whether or not the client still waits.           *)
ExaminedIsAnswered ==
    \A r \in Requests :
        r \in rpcs ~>
            \/ answer[r] # <<>>
            \/ \E s \in Sessions : target[r] = s /\ life[s] = "stopped"

(* coordinator.scala:28: "Finds all active recognition sessions".          *)
FoundAreActive ==
    [][found' # found => \A s \in found' : ~Ended(s)]_vars

(* apiary.apib:12-16: "You then submit individual images to the [...]      *)
(* endpoint and receive either HTTP statuses" 200, 202 or 400; so should   *)
(* the client whose image a live session has dropped.                      *)
EveryImageGetsAStatus ==
    \A r \in Requests : r \in dropped ~> status[r] # {}
=============================================================================
