---------------------------- MODULE RecogSession ----------------------------
(***************************************************************************)
(* One recognition session: RecogSessionActor (core/recog/instance.scala), *)
(* an Akka FSM, with its mailbox, the futures of the AMQP requests it has  *)
(* made, the state timeouts of the FSM, and the clients, the coordinator   *)
(* and the recogniser around it left as free as the code leaves them.      *)
(*                                                                         *)
(* Akka's part (external code): a mailbox is served in order, one message  *)
(* at a time; a failing constructor or a Kill stops the actor for good and *)
(* its mailbox goes to dead letters; every message an FSM processes        *)
(* re-arms the timeout of the state it is in, and a timeout marker that    *)
(* was armed before another message was processed is ignored, so a         *)
(* StateTimeout is ever acted upon only by an actor with an empty mailbox. *)
(***************************************************************************)
EXTENDS RecogFSM

CONSTANTS
    StartTimeout,   \* state timeout of Idle, in ticks of the clock
    StepTimeout,    \* state timeout of every later state that has one
    AskTimeout      \* the ask timeout, the scheduler's lateness included

ASSUME TimeoutAssumption ==
    /\ StartTimeout \in Nat
    /\ StepTimeout \in Nat
    /\ AskTimeout \in Nat
    /\ AskTimeout < StepTimeout

VARIABLES
    life,              \* of the actor: "starting", "running", "stopped"
    configSent,        \* the coordinator has sent the SessionConfiguration
    state,             \* stateName of the FSM
    active,            \* stateData is an ActiveSession
    acceptedFeatures,  \* of the ActiveSession, the newest first
    mailbox,           \* messages waiting for the actor
    sent,              \* requests whose image has been sent to the actor
    rpcs,              \* requests whose image is at the recogniser
    rpcAge,            \* ticks since that image was sent there
    idle,              \* ticks since the actor processed a message
    verdict,           \* (history) how the recogniser's future completed
    answer             \* (history) the answers sent to each request

vars == <<life, configSent, state, active, acceptedFeatures, mailbox, sent,
          rpcs, rpcAge, idle, verdict, answer>>

-----------------------------------------------------------------------------
\* Mutant of Timeout: one short timeout for every state.
TimeoutOfStart == StartTimeout

Timeout == IF state = Idle THEN StartTimeout ELSE StepTimeout

\* Messages to an actor that has stopped are dead letters.
Send(m) ==
    mailbox' = IF life = "stopped" THEN mailbox ELSE Append(mailbox, m)

-----------------------------------------------------------------------------
Init ==
    /\ life = "starting"
    /\ configSent = FALSE
    /\ state = Idle
    /\ active = FALSE
    /\ acceptedFeatures = <<>>
    /\ mailbox = <<>>
    /\ sent = {}
    /\ rpcs = {}
    /\ rpcAge = [r \in Requests |-> 0]
    /\ idle = 0
    /\ verdict = [r \in Requests |-> {}]
    /\ answer = [r \in Requests |-> <<>>]

(* The actor's own steps.                                                  *)

\* The constructor has obtained its RpcClient; initialize arms the timeout.
Start ==
    /\ life = "starting"
    /\ life' = "running"
    /\ idle' = 0
    /\ UNCHANGED <<configSent, state, active, acceptedFeatures, mailbox, sent,
                   rpcs, rpcAge, verdict, answer>>

Stop ==
    /\ life' = "stopped"
    /\ mailbox' = <<>>
    /\ UNCHANGED <<configSent, state, active, acceptedFeatures, sent, rpcs,
                   rpcAge, idle, verdict, answer>>

\* ConnectionOwner.createChildActor threw: ActorInitializationException.
StartFails == life = "starting" /\ Stop

\* The actor takes m off its mailbox, which re-arms the state's timeout.
Receive(kind) ==
    /\ life = "running"
    /\ mailbox # <<>>
    /\ Head(mailbox).kind = kind
    /\ mailbox' = Tail(mailbox)
    /\ idle' = 0

Configure ==
    /\ state = Idle
    /\ ~active
    /\ Receive("SessionConfiguration")
    /\ state' = WaitingForMoreImages
    /\ active' = TRUE
    /\ acceptedFeatures' = <<>>
    /\ UNCHANGED <<life, configSent, sent, rpcs, rpcAge, verdict, answer>>

\* Mutant of HandleImage: no goto(WaitingForImageResult).
HandleImageAndStay ==
    /\ state = WaitingForMoreImages
    /\ active
    /\ Receive("Image")
    /\ rpcs' = rpcs \cup {Head(mailbox).sender}
    /\ rpcAge' = [rpcAge EXCEPT ![Head(mailbox).sender] = 0]
    /\ UNCHANGED <<life, configSent, state, active, acceptedFeatures, sent,
                   verdict, answer>>

\* The image goes to the recogniser; its future will send a SenderResult
\* that carries the sender of the image (realSender).
HandleImage ==
    /\ state = WaitingForMoreImages
    /\ active
    /\ Receive("Image")
    /\ LET realSender == Head(mailbox).sender IN
         /\ rpcs' = rpcs \cup {realSender}
         /\ rpcAge' = [rpcAge EXCEPT ![realSender] = 0]
    /\ state' = WaitingForImageResult
    /\ UNCHANGED <<life, configSent, active, acceptedFeatures, sent, verdict,
                   answer>>

Reply(r, a) == answer' = [answer EXCEPT ![r] = Append(@, a)]

\* Mutant of HandleAcceptedResult: asks the old session if it is completed.
HandleAcceptedByOldSession ==
    /\ state = WaitingForImageResult
    /\ active
    /\ Receive("SenderResult")
    /\ Head(mailbox).accepted
    /\ acceptedFeatures' = WithResult(acceptedFeatures)
    /\ IF IsCompleted(acceptedFeatures)
         THEN /\ Reply(Head(mailbox).sender, RecogSessionCompleted)
              /\ state' = Completed
         ELSE /\ Reply(Head(mailbox).sender, RecogSessionAccepted)
              /\ state' = WaitingForMoreImages
    /\ UNCHANGED <<life, configSent, active, sent, rpcs, rpcAge, verdict>>

HandleAcceptedResult ==
    /\ state = WaitingForImageResult
    /\ active
    /\ Receive("SenderResult")
    /\ Head(mailbox).accepted
    /\ acceptedFeatures' = WithResult(acceptedFeatures)
    /\ IF IsCompleted(acceptedFeatures')
         THEN /\ Reply(Head(mailbox).sender, RecogSessionCompleted)
              /\ state' = Completed
         ELSE /\ Reply(Head(mailbox).sender, RecogSessionAccepted)
              /\ state' = WaitingForMoreImages
    /\ UNCHANGED <<life, configSent, active, sent, rpcs, rpcAge, verdict>>

HandleRejectedResult ==
    /\ state = WaitingForImageResult
    /\ active
    /\ Receive("SenderResult")
    /\ ~Head(mailbox).accepted
    /\ Reply(Head(mailbox).sender, RecogSessionRejected)
    /\ state' = WaitingForMoreImages
    /\ UNCHANGED <<life, configSent, active, acceptedFeatures, sent, rpcs,
                   rpcAge, verdict>>

\* A message that no case of the current state takes is dropped.
Unhandled ==
    /\ \E kind \in {"SessionConfiguration", "Image", "SenderResult"} :
          Receive(kind)
    /\ ~Handled(Head(mailbox), state, active)
    /\ UNCHANGED <<life, configSent, state, active, acceptedFeatures, sent,
                   rpcs, rpcAge, verdict, answer>>

\* ActorKilledException: the supervisor stops the session.
HandleKill ==
    /\ life = "running"
    /\ mailbox # <<>>
    /\ Head(mailbox).kind = "Kill"
    /\ Stop

StateTimeout ==
    /\ life = "running"
    /\ state \in TimedStates
    /\ idle >= Timeout
    /\ mailbox = <<>>
    /\ state' = Aborted
    /\ idle' = 0
    /\ UNCHANGED <<life, configSent, active, acceptedFeatures, mailbox, sent,
                   rpcs, rpcAge, verdict, answer>>

-----------------------------------------------------------------------------
(* The futures of amqpAsk, completed on the dispatcher's threads.          *)

\* Mutant of Complete: the sender is read when the future completes, when
\* it is the sender of any message that has arrived since.
CompleteToAnySender(r, how) ==
    /\ r \in rpcs
    /\ rpcs' = rpcs \ {r}
    /\ verdict' = [verdict EXCEPT ![r] = @ \cup {how}]
    /\ \E q \in sent : Send(SenderResult(q, how = "accepted"))
    /\ UNCHANGED <<life, configSent, state, active, acceptedFeatures, sent,
                   rpcAge, idle, answer>>

Complete(r, how) ==
    /\ r \in rpcs
    /\ rpcs' = rpcs \ {r}
    /\ verdict' = [verdict EXCEPT ![r] = @ \cup {how}]
    /\ Send(SenderResult(r, how = "accepted"))
    /\ UNCHANGED <<life, configSent, state, active, acceptedFeatures, sent,
                   rpcAge, idle, answer>>

RpcAnswers(r) == Complete(r, "accepted") \/ Complete(r, "rejected")

\* Mutants of RpcFails: the future's Failure case is missing, or wrong.
RpcFailsSilently(r) ==
    /\ r \in rpcs
    /\ rpcs' = rpcs \ {r}
    /\ verdict' = [verdict EXCEPT ![r] = @ \cup {"failed"}]
    /\ UNCHANGED <<life, configSent, state, active, acceptedFeatures, mailbox,
                   sent, rpcAge, idle, answer>>

\* The ask timed out, the message was returned, the body did not parse.
RpcFails(r) == Complete(r, "failed")

-----------------------------------------------------------------------------
(* The coordinator, and the clock.                                         *)

SendConfiguration ==
    /\ ~configSent
    /\ configSent' = TRUE
    /\ Send(Configuration)
    /\ UNCHANGED <<life, state, active, acceptedFeatures, sent, rpcs, rpcAge,
                   idle, verdict, answer>>

\* ProcessImage, forwarded with the client's sender.  The session's id is
\* known to clients only after the coordinator has sent the configuration.
SubmitImage(r) ==
    /\ configSent
    /\ r \notin sent
    /\ sent' = sent \cup {r}
    /\ Send(Image(r))
    /\ UNCHANGED <<life, configSent, state, active, acceptedFeatures, rpcs,
                   rpcAge, idle, verdict, answer>>

\* KillActiveSession; one Kill in the mailbox stands for any number.
SendKill ==
    /\ configSent
    /\ life # "stopped"
    /\ \A i \in DOMAIN mailbox : mailbox[i].kind # "Kill"
    /\ Send(Kill)
    /\ UNCHANGED <<life, configSent, state, active, acceptedFeatures, sent,
                   rpcs, rpcAge, idle, verdict, answer>>

\* Mutant of Tick: an ask without a timeout.
TickWithoutAskTimeout ==
    /\ rpcAge' = [r \in Requests |->
                    IF r \in rpcs THEN rpcAge[r] + 1 ELSE rpcAge[r]]
    /\ idle' = IF idle < StartTimeout + StepTimeout THEN idle + 1 ELSE idle
    /\ UNCHANGED <<life, configSent, state, active, acceptedFeatures, mailbox,
                   sent, rpcs, verdict, answer>>

\* An ask ends within AskTimeout, so the clock cannot pass it while one is
\* outstanding.  Nothing depends on how far idle is beyond StepTimeout.
Tick ==
    /\ \A r \in rpcs : rpcAge[r] < AskTimeout
    /\ rpcAge' = [r \in Requests |->
                    IF r \in rpcs THEN rpcAge[r] + 1 ELSE rpcAge[r]]
    /\ idle' = IF idle < StartTimeout + StepTimeout THEN idle + 1 ELSE idle
    /\ UNCHANGED <<life, configSent, state, active, acceptedFeatures, mailbox,
                   sent, rpcs, verdict, answer>>

-----------------------------------------------------------------------------
Actor ==
    \/ Start
    \/ StartFails
    \/ Configure
    \/ HandleImage
    \/ HandleAcceptedResult
    \/ HandleRejectedResult
    \/ Unhandled
    \/ HandleKill
    \/ StateTimeout

Next ==
    \/ Actor
    \/ \E r \in Requests : RpcAnswers(r) \/ RpcFails(r) \/ SubmitImage(r)
    \/ SendConfiguration
    \/ SendKill
    \/ Tick

(* The dispatcher runs the actor, an ask always ends (at the latest by its *)
(* timeout), and the clock does not stop.  No fairness is assumed of the   *)
(* clients, of the coordinator or of the recogniser.                       *)
Fairness ==
    /\ WF_vars(Actor)
    /\ WF_vars(Tick)
    /\ \A r \in Requests : WF_vars(RpcFails(r))

Spec == Init /\ [][Next]_vars /\ Fairness

-----------------------------------------------------------------------------
(* Properties                                                              *)

TypeOK ==
    /\ life \in {"starting", "running", "stopped"}
    /\ configSent \in BOOLEAN
    /\ state \in RecogSessionState
    /\ active \in BOOLEAN
    /\ acceptedFeatures \in Seq(Feature)
    /\ mailbox \in Seq(Message)
    /\ sent \in SUBSET Requests
    /\ rpcs \in SUBSET Requests
    /\ rpcAge \in [Requests -> 0..AskTimeout]
    /\ idle \in 0..(StartTimeout + StepTimeout)
    /\ verdict \in [Requests -> SUBSET Verdicts]
    /\ answer \in [Requests -> Seq(Answers)]

(* A client is answered at most once, and only with what the recogniser's  *)
(* future said of its own image: Accepted and Completed after a positive   *)
(* verdict on it, Rejected after a negative one or a failure.  realSender  *)
(* is captured before the future completes (lines 126-132); a sender read  *)
(* in the callback would be that of whichever message came last.           *)
AnswerIsTheVerdict ==
    \A r \in Requests :
        /\ Len(answer[r]) <= 1
        /\ RecogSessionRejected \in Range(answer[r]) =>
              verdict[r] \in {{"rejected"}, {"failed"}}
        /\ Range(answer[r]) \cap {RecogSessionAccepted, RecogSessionCompleted}
              # {} => verdict[r] = {"accepted"}

(* While the session is alive an image is being examined, or its result is *)
(* in the mailbox, exactly in WaitingForImageResult, and there is only one *)
(* such image.  So no result ever reaches a state that would drop it.      *)
ResultsInMailbox ==
    {mailbox[i].sender : i \in {j \in DOMAIN mailbox :
                                   mailbox[j].kind = "SenderResult"}}
OneImageAtATime ==
    life # "stopped" =>
        IF state = WaitingForImageResult
          THEN \E r \in Requests : rpcs \cup ResultsInMailbox = {r}
          ELSE rpcs \cup ResultsInMailbox = {}

(* acceptedFeatures is the recognised part of the configured features, in  *)
(* the order in which they are required (newest first), one for each image *)
(* answered positively; one image is given the token, and only when the    *)
(* last feature is recognised; a session that still takes images or waits  *)
(* for a result has a feature left to ask for.                             *)
Positive == {r \in Requests : verdict[r] = {"accepted"} /\ answer[r] # <<>>}
Granted  == {r \in Requests : RecogSessionCompleted \in Range(answer[r])}
FeaturesMatchAnswers ==
    /\ Len(acceptedFeatures) = Cardinality(Positive)
    /\ Len(acceptedFeatures) <= Len(Required)
    /\ \A i \in DOMAIN acceptedFeatures :
          acceptedFeatures[i] = Required[Len(acceptedFeatures) + 1 - i]
    /\ Cardinality(Granted) <= 1
    /\ Granted # {} <=> IsCompleted(acceptedFeatures)
    /\ state \in {WaitingForMoreImages, WaitingForImageResult} =>
          Len(acceptedFeatures) < Len(Required)

(* The 300 s step timeout never ends a session whose image is still being  *)
(* examined: the 10 s ask timeout, with the scheduler's lateness, ends the *)
(* wait first.  Images that arrive meanwhile only re-arm the step timeout. *)
NeverAbortedInExamination ==
    [][state = WaitingForImageResult => state' # Aborted]_vars

(* The session keeps the promise of RecogPromise.                          *)
Promise == INSTANCE RecogPromise WITH
    Features  <- Len(Required),
    remaining <- Len(Required) - Len(acceptedFeatures),
    open      <- life # "stopped" /\ state # Aborted

KeepsPromise == Promise!Spec

(* Every image that goes to the recogniser is answered, unless the session *)
(* is killed: the future always ends, and its result is always processed   *)
(* in WaitingForImageResult.                                               *)
ExaminedIsAnswered ==
    \A r \in Requests :
        r \in rpcs ~> (answer[r] # <<>> \/ life = "stopped")

(* No session lives for ever: clients have finitely many images, and when  *)
(* they stop sending, a timeout ends every state a session can be in, the  *)
(* Completed one included.                                                 *)
SessionEnds == <>(life = "stopped" \/ state = Aborted)

-----------------------------------------------------------------------------
(* The inductive invariant: where the image or the result of a request can *)
(* be, what is known of it there, and how the state of the FSM, its clock  *)
(* and the request under examination go together.                          *)

Positions == DOMAIN mailbox
CarriesRequest(m) == m.kind \in {"Image", "SenderResult"}

\* What is known of the request of a message that waits in the mailbox.
Known(m) ==
    /\ CarriesRequest(m) => m.sender \in sent \ rpcs /\ answer[m.sender] = <<>>
    /\ m.kind = "Image" => verdict[m.sender] = {}
    /\ m.kind = "SenderResult" =>
          verdict[m.sender] \in IF m.accepted THEN {{"accepted"}}
                                              ELSE {{"rejected"}, {"failed"}}

\* Every request has one place: not sent, in the mailbox, at the recogniser,
\* or dealt with.
MailboxInv ==
    /\ \A i \in Positions : Known(mailbox[i])
    /\ \A i, j \in Positions :
          /\ CarriesRequest(mailbox[i])
          /\ CarriesRequest(mailbox[j])
          /\ mailbox[i].sender = mailbox[j].sender
          => i = j

RequestInv ==
    /\ rpcs \subseteq sent
    /\ \A r \in Requests : r \notin sent \/ r \in rpcs =>
          verdict[r] = {} /\ answer[r] = <<>>
    /\ \A r \in Requests :
          \/ answer[r] = <<>>
          \/ /\ answer[r] = <<RecogSessionRejected>>
             /\ verdict[r] \in {{"rejected"}, {"failed"}}
          \/ /\ answer[r] \in {<<RecogSessionAccepted>>,
                                <<RecogSessionCompleted>>}
             /\ verdict[r] = {"accepted"}

ExaminationInv ==
    life # "stopped" =>
       /\ \A i, j \in Positions : mailbox[i].kind = "SenderResult" =>
             /\ state = WaitingForImageResult
             /\ rpcs = {}
             /\ mailbox[j].kind = "SenderResult" => i = j
       /\ \A r \in rpcs :
             /\ state = WaitingForImageResult
             /\ rpcs = {r}
             /\ idle <= rpcAge[r]
       /\ state = WaitingForImageResult =>
             \/ rpcs # {}
             \/ \E i \in Positions : mailbox[i].kind = "SenderResult"

StateInv ==
    /\ life = "starting" => state = Idle
    /\ state = Idle => ~active
    /\ ~active => acceptedFeatures = <<>> /\ state \in {Idle, Aborted}
    /\ Len(acceptedFeatures) <= Len(Required)
    /\ state \in {WaitingForMoreImages, WaitingForImageResult} =>
          Len(acceptedFeatures) < Len(Required)

Inv == TypeOK /\ MailboxInv /\ RequestInv /\ ExaminationInv /\ StateInv
=============================================================================
