---------------------------- MODULE Recog_proofs ----------------------------
(***************************************************************************)
(* Proofs about Recog, for any sessions and any clients.  The invariant of *)
(* one session (RecogSession_proofs) is stated here of each session, and   *)
(* of each request what its one place is; a step of a session or of a      *)
(* future moves one request and leaves the other sessions alone.           *)
(***************************************************************************)
EXTENDS Recog, FiniteSetTheorems, TLAPS

USE RequiredAssumption, NoRequestAssumption, NoSessionAssumption
    DEF RequiredAssumption, NoRequestAssumption, NoSessionAssumption

-----------------------------------------------------------------------------
(* The inductive invariant.                                                *)

Positions(s)      == DOMAIN mailbox[s]
CarriesRequest(m) == m.kind \in {"Image", "SenderResult"}
AtRecogniser(s)   == {r \in rpcs : target[r] = s}

\* What is known of the request of a message that waits at session s.
Known(s, m) ==
    /\ CarriesRequest(m) =>
          /\ target[m.sender] = s
          /\ m.sender \notin asks \cup rpcs
          /\ answer[m.sender] = <<>>
    /\ m.kind = "Image" => verdict[m.sender] = {}
    /\ m.kind = "SenderResult" =>
          verdict[m.sender] \in IF m.accepted THEN {{"accepted"}}
                                              ELSE {{"rejected"}, {"failed"}}

\* A request is in a mailbox once, and only in that of a session that lives;
\* the configuration comes first, and is gone when the session has left Idle.
MailboxOK(s) ==
    /\ \A i \in Positions(s) : Known(s, mailbox[s][i])
    /\ \A i, j \in Positions(s) :
          /\ CarriesRequest(mailbox[s][i])
          /\ CarriesRequest(mailbox[s][j])
          /\ mailbox[s][i].sender = mailbox[s][j].sender
          => i = j
    /\ ~Exists(s) => mailbox[s] = <<>>
    /\ Exists(s) /\ state[s] = Idle => mailbox[s] # <<>> /\ mailbox[s][1] = Configuration
    /\ \A i \in Positions(s) :
          mailbox[s][i].kind = "SessionConfiguration" => i = 1 /\ state[s] = Idle

\* A live session has an image under examination, or its result in the
\* mailbox, exactly in WaitingForImageResult, and only one.
ExaminationOK(s) ==
    life[s] # "stopped" =>
       /\ \A i, j \in Positions(s) : mailbox[s][i].kind = "SenderResult" =>
             /\ state[s] = WaitingForImageResult
             /\ AtRecogniser(s) = {}
             /\ mailbox[s][j].kind = "SenderResult" => i = j
       /\ \A r \in AtRecogniser(s) :
             /\ state[s] = WaitingForImageResult
             /\ AtRecogniser(s) = {r}
       /\ state[s] = WaitingForImageResult =>
             \/ AtRecogniser(s) # {}
             \/ \E i \in Positions(s) : mailbox[s][i].kind = "SenderResult"

StateOK(s) ==
    /\ life[s] \in {"none", "starting"} => state[s] = Idle
    /\ active[s] <=> state[s] # Idle
    /\ ~active[s] => acceptedFeatures[s] = <<>>
    /\ Len(acceptedFeatures[s]) <= Len(Required)
    /\ state[s] \in {WaitingForMoreImages, WaitingForImageResult} =>
          Len(acceptedFeatures[s]) < Len(Required)

SessionInv == \A s \in Sessions : MailboxOK(s) /\ ExaminationOK(s) /\ StateOK(s)

\* What a request was answered is what its verdict says, and its status says
\* the same.
RequestOK(r) ==
    /\ target[r] = NoSession => r \notin asks \cup rpcs \cup waiting
    /\ target[r] = NoSession \/ r \in asks \cup rpcs => verdict[r] = {} /\ answer[r] = <<>>
    /\ r \notin asks \cap rpcs
    /\ r \in waiting => answer[r] = <<>>
    /\ \/ answer[r] = <<>> /\ status[r] = {}
       \/ /\ answer[r] = <<RecogSessionRejected>>
          /\ verdict[r] \in {{"rejected"}, {"failed"}}
          /\ status[r] \subseteq {400}
       \/ /\ answer[r] = <<RecogSessionAccepted>>
          /\ verdict[r] = {"accepted"}
          /\ status[r] \subseteq {202}
       \/ /\ answer[r] = <<RecogSessionCompleted>>
          /\ verdict[r] = {"accepted"}
          /\ status[r] \subseteq {200}
          /\ IsCompleted(acceptedFeatures[target[r]])

RequestInv == \A r \in Requests : RequestOK(r)

Inv == TypeOK /\ SessionInv /\ RequestInv

\* A step that changes no request but r, and one that leaves session t alone.
OnlyRequest(r) ==
    \A q \in Requests \ {r} :
        /\ target'[q] = target[q] /\ verdict'[q] = verdict[q]
        /\ answer'[q] = answer[q] /\ status'[q] = status[q]
        /\ q \in asks' <=> q \in asks
        /\ q \in rpcs' <=> q \in rpcs
        /\ q \in waiting' => q \in waiting

Alone(t) ==
    /\ life'[t] = life[t] /\ state'[t] = state[t] /\ active'[t] = active[t]
    /\ acceptedFeatures'[t] = acceptedFeatures[t] /\ mailbox'[t] = mailbox[t]

-----------------------------------------------------------------------------
(* Types.                                                                  *)

\* The empty sequence is a sequence over any set.
LEMMA EmptySequence == \A S : <<>> \in Seq(S)
  OBVIOUS

\* What the coordinator, the clients and the futures send are Messages.
LEMMA MessagesAreMessages ==
    /\ Configuration \in Message
    /\ Kill \in Message
    /\ \A r \in Requests : Image(r) \in Message
    /\ \A r \in Requests, ok \in BOOLEAN : SenderResult(r, ok) \in Message
  BY DEF Configuration, Kill, Image, SenderResult, Message

\* Every variable starts with its type.
LEMMA TypeInit == Init => TypeOK
<1> SUFFICES ASSUME Init PROVE TypeOK
  OBVIOUS
<1>1. /\ acceptedFeatures \in [Sessions -> Seq(Feature)]
      /\ mailbox \in [Sessions -> Seq(Message)]
      /\ answer \in [Requests -> Seq(Answers)]
  BY EmptySequence DEF Init
<1>2. life \in [Sessions -> {"none", "starting", "running", "stopped"}]
      /\ state \in [Sessions -> RecogSessionState] /\ active \in [Sessions -> BOOLEAN]
  BY DEF Init, RecogSessionState
<1>3. verdict \in [Requests -> SUBSET Verdicts] /\ status \in [Requests -> SUBSET {200, 202, 400, 500}]
  BY DEF Init
<1> QED
  BY <1>1, <1>2, <1>3 DEF Init, TypeOK

\* What is sent to a session, or to none, keeps the type of the mailboxes.
LEMMA SendTyped ==
    ASSUME TypeOK, NEW s, NEW m \in Message, Send(s, m)
    PROVE  mailbox' \in [Sessions -> Seq(Message)]
<1>1. CASE s \in Sessions
  <2>1. mailbox[s] \in Seq(Message) /\ Append(mailbox[s], m) \in Seq(Message)
    BY <1>1 DEF TypeOK
  <2> QED
    BY <2>1 DEF TypeOK, Send
<1>2. CASE s \notin Sessions
  <2>1. [mailbox EXCEPT ![s] = Append(mailbox[s], m)] = mailbox
    BY <1>2 DEF TypeOK
  <2>2. mailbox' = mailbox
    BY <2>1, Zenon DEF Send
  <2> QED
    BY <2>2 DEF TypeOK
<1> QED
  BY <1>1, <1>2

\* What taking a message off the mailbox does to the types.
LEMMA ReceiveTyped ==
    ASSUME TypeOK, NEW s \in Sessions, NEW kind, Receive(s, kind)
    PROVE  /\ Head(mailbox[s]) \in Message /\ Head(mailbox[s]).kind = kind
           /\ mailbox' \in [Sessions -> Seq(Message)]
           /\ kind \in {"Image", "SenderResult"} => Head(mailbox[s]).sender \in Requests
<1>1. Head(mailbox[s]) \in Message /\ Tail(mailbox[s]) \in Seq(Message)
  BY DEF TypeOK, Receive
<1>2. kind \in {"Image", "SenderResult"} => Head(mailbox[s]).sender \in Requests
  BY <1>1 DEF Message, Receive
<1> QED
  BY <1>1, <1>2 DEF TypeOK, Receive

\* The feature that a positive result adds is a Feature.
LEMMA WithResultTyped ==
    ASSUME NEW f \in Seq(Feature) PROVE WithResult(f) \in Seq(Feature)
  BY DEF WithResult, RequiredFeature

\* An answer, and its status, keep their types.
LEMMA ReplyTyped ==
    ASSUME TypeOK, NEW r \in Requests, NEW a \in Answers, Reply(r, a)
    PROVE  /\ answer' \in [Requests -> Seq(Answers)] /\ waiting' \subseteq Requests
           /\ status' \in [Requests -> SUBSET {200, 202, 400, 500}]
<1>1. StatusOf(a) \in {200, 202, 400, 500}
  BY DEF StatusOf, Answers, RecogSessionAccepted, RecogSessionRejected, RecogSessionCompleted
<1> QED
  BY <1>1 DEF TypeOK, Reply

\* Every step keeps the types.
LEMMA TypeNext ==
    ASSUME TypeOK, [Next]_vars,
           \A s \in Sessions : Unhandled(s) => Ended(s) \/ Head(mailbox[s]).sender \in Requests
    PROVE  TypeOK'
<1> USE DEF TypeOK
<1>1. ASSUME NEW r \in Requests, AskExpires(r) PROVE TypeOK'
  BY <1>1 DEF AskExpires, sessionVars
<1>2. ASSUME NEW r \in Requests, NEW s \in Sessions, PostImage(r, s) PROVE TypeOK'
  BY <1>2 DEF PostImage, sessionVars
<1>3. ASSUME NEW s \in Sessions, Begin(s) PROVE TypeOK'
  <2>1. <<Configuration>> \in Seq(Message)
    BY MessagesAreMessages
  <2> QED
    BY <1>3, <2>1 DEF Begin, clientVars
<1>4. ASSUME NEW s \in Sessions, KillActiveSession(s) PROVE TypeOK'
  BY <1>4, SendTyped, MessagesAreMessages DEF KillActiveSession, clientVars
<1>5. ASSUME NEW r \in Requests, ProcessImage(r) PROVE TypeOK'
  BY <1>5, SendTyped, MessagesAreMessages DEF ProcessImage
<1>6. CASE FindActiveSessions
  BY <1>6 DEF FindActiveSessions, sessionVars, clientVars
<1>7. ASSUME NEW s \in Sessions, Start(s) PROVE TypeOK'
  BY <1>7 DEF Start, clientVars
<1>8. ASSUME NEW s \in Sessions, Stop(s) PROVE TypeOK'
  BY <1>8, EmptySequence DEF Stop, clientVars
<1>9. ASSUME NEW s \in Sessions, Configure(s) PROVE TypeOK'
  BY <1>9, ReceiveTyped, EmptySequence DEF Configure, Goto, RecogSessionState, clientVars
<1>10. ASSUME NEW s \in Sessions, HandleImage(s) PROVE TypeOK'
  BY <1>10, ReceiveTyped DEF HandleImage, Goto, RecogSessionState, clientVars
<1>11. ASSUME NEW s \in Sessions, HandleResult(s) PROVE TypeOK'
  <2> DEFINE m        == Head(mailbox[s])
             features == IF m.accepted THEN WithResult(acceptedFeatures[s])
                                       ELSE acceptedFeatures[s]
             done     == m.accepted /\ IsCompleted(features)
             a        == IF done THEN RecogSessionCompleted
                         ELSE IF m.accepted THEN RecogSessionAccepted
                         ELSE RecogSessionRejected
  <2>1. /\ acceptedFeatures' = [acceptedFeatures EXCEPT ![s] = features]
        /\ Goto(s, IF done THEN Completed ELSE WaitingForMoreImages)
        /\ Reply(m.sender, a) /\ Receive(s, "SenderResult")
        /\ UNCHANGED <<life, active, target, asks, rpcs, verdict, dropped, found>>
    BY <1>11 DEF HandleResult
  <2>2. features \in Seq(Feature) /\ a \in Answers /\ m.sender \in Requests
        /\ mailbox' \in [Sessions -> Seq(Message)]
    BY <2>1, WithResultTyped, ReceiveTyped DEF Answers
  <2> HIDE DEF m, features, done, a
  <2>3. /\ answer' \in [Requests -> Seq(Answers)] /\ waiting' \subseteq Requests
        /\ status' \in [Requests -> SUBSET {200, 202, 400, 500}]
    BY <2>1, <2>2, ReplyTyped
  <2> QED
    BY <2>1, <2>2, <2>3 DEF Goto, RecogSessionState
<1>12. ASSUME NEW s \in Sessions, Unhandled(s) PROVE TypeOK'
  <2>1. mailbox' \in [Sessions -> Seq(Message)]
    BY <1>12, ReceiveTyped DEF Unhandled
  <2>2. Ended(s) \/ Head(mailbox[s]).sender \in Requests
    BY <1>12
  <2>3. dropped' \subseteq Requests
    BY <1>12, <2>2 DEF Unhandled
  <2> QED
    BY <1>12, <2>1, <2>3 DEF Unhandled, clientVars
<1>13. ASSUME NEW s \in Sessions, StateTimeout(s) PROVE TypeOK'
  BY <1>13 DEF StateTimeout, Goto, RecogSessionState, clientVars
<1>14. ASSUME NEW r \in Requests, NEW how \in Verdicts, RpcEnds(r, how) PROVE TypeOK'
  <2>1. SenderResult(r, how = "accepted") \in Message
    BY MessagesAreMessages
  <2>2. mailbox' \in [Sessions -> Seq(Message)]
    BY <1>14, <2>1, SendTyped DEF RpcEnds
  <2>3. verdict' \in [Requests -> SUBSET Verdicts] /\ rpcs' \subseteq Requests
    BY <1>14 DEF RpcEnds
  <2> QED
    BY <1>14, <2>2, <2>3 DEF RpcEnds, clientVars
<1>15. CASE UNCHANGED vars
  BY <1>15 DEF vars, sessionVars, clientVars
<1> QED
  BY <1>1, <1>2, <1>3, <1>4, <1>5, <1>6, <1>7, <1>8, <1>9, <1>10, <1>11,
     <1>12, <1>13, <1>14, <1>15 DEF Next, Client, Coordinator, Session

-----------------------------------------------------------------------------
(* What a step leaves alone.                                               *)

\* The first message of a session that has left Idle carries a request.
LEMMA UnhandledCarries ==
    ASSUME Inv, NEW s \in Sessions, Unhandled(s)
    PROVE  /\ state[s] # Idle
           /\ CarriesRequest(Head(mailbox[s])) /\ Head(mailbox[s]).sender \in Requests
<1>1. PICK kind \in {"SessionConfiguration", "Image", "SenderResult"} : Receive(s, kind)
  BY DEF Unhandled
<1>2. /\ Head(mailbox[s]) = mailbox[s][1] /\ 1 \in Positions(s)
      /\ Head(mailbox[s]).kind = kind /\ life[s] = "running"
  BY <1>1 DEF Inv, TypeOK, Receive, Positions
<1>3. MailboxOK(s) /\ StateOK(s)
  BY DEF Inv, SessionInv
<1>4. state[s] # Idle
  <2> SUFFICES ASSUME state[s] = Idle PROVE FALSE
    OBVIOUS
  <2>1. Head(mailbox[s]).kind = "SessionConfiguration" /\ ~active[s]
    BY <1>2, <1>3 DEF MailboxOK, StateOK, Exists, Configuration
  <2> QED
    BY <2>1 DEF Unhandled, Handled
<1>5. kind # "SessionConfiguration"
  BY <1>2, <1>3, <1>4 DEF MailboxOK
<1> QED
  BY <1>1, <1>2, <1>4, <1>5, ReceiveTyped DEF Inv, CarriesRequest

LEMMA TypeStep == Inv /\ [Next]_vars => TypeOK'
  BY UnhandledCarries, TypeNext DEF Inv

\* A session keeps its invariant if the step leaves it alone and changes
\* only a request that is not with it.
LEMMA SessionAlone ==
    ASSUME Inv, TypeOK', NEW t \in Sessions, NEW r, Alone(t), OnlyRequest(r),
           r \in Requests => target[r] # t /\ (r \in rpcs' => target'[r] # t)
    PROVE  MailboxOK(t)' /\ ExaminationOK(t)' /\ StateOK(t)'
<1>1. MailboxOK(t) /\ ExaminationOK(t) /\ StateOK(t)
  BY DEF Inv, SessionInv
<1>2. Positions(t)' = Positions(t) /\ (Exists(t)' <=> Exists(t))
  BY DEF Alone, Positions, Exists
<1>3. AtRecogniser(t)' = AtRecogniser(t)
  BY DEF Inv, TypeOK, OnlyRequest, AtRecogniser
<1>4. ASSUME NEW i \in Positions(t)
      PROVE  Known(t, mailbox[t][i])'
  <2>1. mailbox[t][i] \in Message /\ Known(t, mailbox[t][i]) /\ mailbox'[t] = mailbox[t]
    BY <1>1 DEF Inv, TypeOK, Positions, MailboxOK, Alone
  <2>2. CarriesRequest(mailbox[t][i]) => mailbox[t][i].sender \in Requests \ {r}
    BY <2>1 DEF CarriesRequest, Message, Known
  <2> QED
    BY <2>1, <2>2 DEF Known, CarriesRequest, OnlyRequest
<1>5. MailboxOK(t)'
  BY <1>1, <1>2, <1>4 DEF MailboxOK, CarriesRequest, Alone
<1>6. ExaminationOK(t)'
  BY <1>1, <1>2, <1>3 DEF ExaminationOK, Alone
<1> QED
  BY <1>1, <1>5, <1>6 DEF StateOK, Alone

\* A request keeps its invariant if the step does not change it, and no
\* session that is completed.
LEMMA RequestAlone ==
    ASSUME Inv, NEW r, OnlyRequest(r), NEW q \in Requests \ {r},
           \A s \in Sessions : IsCompleted(acceptedFeatures[s])
                                  => acceptedFeatures'[s] = acceptedFeatures[s]
    PROVE  RequestOK(q)'
<1>1. RequestOK(q)
  BY DEF Inv, RequestInv
<1>2. target[q] = NoSession \/ target[q] \in Sessions
  BY DEF Inv, TypeOK
<1>3. target'[q] = target[q] /\ verdict'[q] = verdict[q] /\ answer'[q] = answer[q]
      /\ status'[q] = status[q]
  BY DEF OnlyRequest
<1>4. target[q] \in Sessions /\ IsCompleted(acceptedFeatures[target[q]])
        => IsCompleted(acceptedFeatures[target[q]])'
  BY <1>3 DEF IsCompleted
<1>5. answer[q] = <<RecogSessionCompleted>> => target[q] \in Sessions
  BY <1>1, <1>2 DEF RequestOK
<1>6. (q \in asks' \cup rpcs' => q \in asks \cup rpcs) /\ (q \in waiting' => q \in waiting)
      /\ (q \in asks' \cap rpcs' => q \in asks \cap rpcs)
  BY DEF OnlyRequest
<1> QED
  BY <1>1, <1>3, <1>4, <1>5, <1>6 DEF RequestOK

-----------------------------------------------------------------------------
(* What happens to a mailbox.                                              *)

\* The elements of a tail, by their positions in the whole sequence.
LEMMA TailElements ==
    ASSUME NEW S, NEW q \in Seq(S), q # <<>>
    PROVE  /\ 1 \in DOMAIN q /\ Head(q) = q[1]
           /\ \A i \in DOMAIN Tail(q) :
                 i \in Nat /\ i # 0 /\ i + 1 \in DOMAIN q /\ Tail(q)[i] = q[i + 1]
  OBVIOUS

\* A session that has taken its first message has the others as they were.
LEMMA ReceiveElements ==
    ASSUME Inv, NEW s \in Sessions, NEW kind, Receive(s, kind)
    PROVE  /\ 1 \in Positions(s) /\ Head(mailbox[s]) = mailbox[s][1]
           /\ mailbox[s][1].kind = kind
           /\ \A i \in Positions(s)' :
                 /\ i \in Nat /\ i # 0 /\ i + 1 \in Positions(s)
                 /\ mailbox'[s][i] = mailbox[s][i + 1]
           /\ \A t \in Sessions \ {s} : mailbox'[t] = mailbox[t]
<1>1. mailbox[s] \in Seq(Message) /\ mailbox[s] # <<>> /\ mailbox'[s] = Tail(mailbox[s])
  BY DEF Inv, TypeOK, Receive
<1>2. Head(mailbox[s]).kind = kind /\ \A t \in Sessions \ {s} : mailbox'[t] = mailbox[t]
  BY DEF Inv, TypeOK, Receive
<1> QED
  BY <1>1, <1>2, TailElements DEF Positions

LEMMA MailboxAfterReceive ==
    ASSUME Inv, NEW s \in Sessions, NEW kind, Receive(s, kind), NEW r, OnlyRequest(r),
           CarriesRequest(Head(mailbox[s])) => r = Head(mailbox[s]).sender,
           ~CarriesRequest(Head(mailbox[s])) => r = NoRequest,
           life' = life, state'[s] # Idle
    PROVE  MailboxOK(s)'
<1>1. /\ 1 \in Positions(s) /\ Head(mailbox[s]) = mailbox[s][1]
      /\ \A i \in Positions(s)' : /\ i \in Nat /\ i # 0 /\ i + 1 \in Positions(s)
                                  /\ mailbox'[s][i] = mailbox[s][i + 1]
  BY ReceiveElements
<1>2. MailboxOK(s) /\ Exists(s)'
  BY DEF Inv, SessionInv, Exists, Receive
<1>3. ASSUME NEW i \in Positions(s)'
      PROVE  Known(s, mailbox[s][i])' /\ mailbox'[s][i].kind # "SessionConfiguration"
  <2>1. i + 1 \in Positions(s) /\ i + 1 # 1 /\ mailbox'[s][i] = mailbox[s][i + 1]
    BY <1>1, <1>3
  <2>2. /\ mailbox[s][i + 1] \in Message /\ Known(s, mailbox[s][i + 1])
        /\ mailbox[s][i + 1].kind # "SessionConfiguration"
    BY <1>2, <2>1 DEF Inv, TypeOK, MailboxOK, Positions
  <2>3. CarriesRequest(mailbox[s][i + 1]) => mailbox[s][i + 1].sender \in Requests \ {r}
    <3>1. CarriesRequest(mailbox[s][i + 1]) => mailbox[s][i + 1].sender \in Requests
      BY <2>2 DEF CarriesRequest, Message
    <3>2. CarriesRequest(mailbox[s][i + 1]) /\ CarriesRequest(mailbox[s][1])
             => mailbox[s][i + 1].sender # mailbox[s][1].sender
      BY <1>1, <1>2, <2>1 DEF MailboxOK
    <3> QED
      BY <1>1, <3>1, <3>2
  <2> QED
    BY <2>1, <2>2, <2>3 DEF Known, CarriesRequest, OnlyRequest
<1>4. ASSUME NEW i \in Positions(s)', NEW j \in Positions(s)',
             CarriesRequest(mailbox[s][i])', CarriesRequest(mailbox[s][j])',
             (mailbox[s][i].sender = mailbox[s][j].sender)'
      PROVE  i = j
  <2>1. i + 1 = j + 1
    BY <1>1, <1>2, <1>4 DEF MailboxOK, CarriesRequest
  <2> QED
    BY <1>1, <2>1
<1> QED
  BY <1>2, <1>3, <1>4 DEF MailboxOK

\* A message that is sent to a session that exists comes last.
LEMMA SendElements ==
    ASSUME Inv, NEW s \in Sessions, NEW m, Send(s, m)
    PROVE  /\ \A t \in Sessions \ {s} : mailbox'[t] = mailbox[t]
           /\ ~Exists(s) => mailbox'[s] = mailbox[s] /\ mailbox[s] = <<>>
           /\ \A i \in Positions(s) : i \in Positions(s)' /\ mailbox'[s][i] = mailbox[s][i]
           /\ \A i \in Positions(s)' :
                 \/ i \in Positions(s)
                 \/ /\ Exists(s) /\ i = Len(mailbox[s]) + 1 /\ mailbox'[s][i] = m
                    /\ i = 1 <=> mailbox[s] = <<>>
           /\ Exists(s) => Len(mailbox[s]) + 1 \in Positions(s)'
                             /\ mailbox'[s][Len(mailbox[s]) + 1] = m
           /\ mailbox[s] # <<>> => mailbox'[s] # <<>> /\ 1 \in Positions(s)
<1>1. mailbox \in [Sessions -> Seq(Message)] /\ mailbox[s] \in Seq(Message)
  BY DEF Inv, TypeOK
<1>2. CASE Exists(s)
  <2>1. mailbox'[s] = Append(mailbox[s], m) /\ \A t \in Sessions \ {s} : mailbox'[t] = mailbox[t]
    BY <1>1, <1>2 DEF Send
  <2> QED
    BY <1>1, <1>2, <2>1 DEF Positions
<1>3. CASE ~Exists(s)
  BY <1>1, <1>3 DEF Send, Inv, SessionInv, MailboxOK, Positions
<1> QED
  BY <1>2, <1>3

LEMMA MailboxAfterSend ==
    ASSUME Inv, NEW s \in Sessions, NEW m \in Message, Send(s, m), NEW r, OnlyRequest(r),
           CarriesRequest(m) => m.sender = r,
           m.kind # "SessionConfiguration",
           \A i \in Positions(s) : CarriesRequest(mailbox[s][i]) => mailbox[s][i].sender # r,
           life' = life, state' = state,
           Known(s, m)'
    PROVE  MailboxOK(s)'
<1>1. /\ \A i \in Positions(s)' :
            \/ i \in Positions(s) /\ mailbox'[s][i] = mailbox[s][i]
            \/ Exists(s) /\ mailbox'[s][i] = m /\ i = Len(mailbox[s]) + 1
      /\ mailbox[s] # <<>> => mailbox'[s] # <<>> /\ mailbox'[s][1] = mailbox[s][1]
      /\ ~Exists(s) => mailbox'[s] = <<>>
  BY SendElements
<1>2. MailboxOK(s) /\ (Exists(s)' <=> Exists(s))
  BY DEF Inv, SessionInv, Exists
<1>3. ASSUME NEW i \in Positions(s)'
      PROVE  /\ Known(s, mailbox[s][i])'
             /\ mailbox'[s][i].kind = "SessionConfiguration" => i = 1 /\ state'[s] = Idle
  <2>1. CASE i \in Positions(s) /\ mailbox'[s][i] = mailbox[s][i]
    <3>1. mailbox[s][i] \in Message /\ Known(s, mailbox[s][i])
      BY <1>2, <2>1 DEF Inv, TypeOK, MailboxOK, Positions
    <3>2. CarriesRequest(mailbox[s][i]) => mailbox[s][i].sender \in Requests \ {r}
      BY <2>1, <3>1 DEF CarriesRequest, Message
    <3>3. mailbox[s][i].kind = "SessionConfiguration" => i = 1 /\ state[s] = Idle
      BY <1>2, <2>1 DEF MailboxOK
    <3> QED
      BY <2>1, <3>1, <3>2, <3>3 DEF Known, CarriesRequest, OnlyRequest
  <2>2. CASE mailbox'[s][i] = m
    BY <2>2 DEF Known, CarriesRequest
  <2> QED
    BY <1>1, <2>1, <2>2
<1>4. ASSUME NEW i \in Positions(s)', NEW j \in Positions(s)',
             CarriesRequest(mailbox[s][i])', CarriesRequest(mailbox[s][j])',
             (mailbox[s][i].sender = mailbox[s][j].sender)'
      PROVE  i = j
  BY <1>1, <1>2, <1>4 DEF MailboxOK, CarriesRequest
<1>5. Exists(s)' /\ state'[s] = Idle => mailbox'[s] # <<>> /\ mailbox'[s][1] = Configuration
  BY <1>1, <1>2 DEF MailboxOK
<1> QED
  BY <1>1, <1>2, <1>3, <1>4, <1>5 DEF MailboxOK

\* A message that is no result leaves the examination as it is.
LEMMA ExaminationAfterSend ==
    ASSUME Inv, NEW s \in Sessions, NEW m, Send(s, m), m.kind # "SenderResult",
           life' = life, state' = state, AtRecogniser(s)' = AtRecogniser(s)
    PROVE  ExaminationOK(s)'
<1>1. /\ \A i \in Positions(s)' :
            \/ i \in Positions(s) /\ mailbox'[s][i] = mailbox[s][i]
            \/ mailbox'[s][i] = m
      /\ \A i \in Positions(s) : i \in Positions(s)' /\ mailbox'[s][i] = mailbox[s][i]
  BY SendElements
<1>2. ExaminationOK(s)
  BY DEF Inv, SessionInv
<1> QED
  BY <1>1, <1>2 DEF ExaminationOK

-----------------------------------------------------------------------------
(* Each action preserves the invariant.                                    *)

\* Nothing exists, nothing is posted.
LEMMA InitInv == Init => Inv
<1> SUFFICES ASSUME Init PROVE Inv
  OBVIOUS
<1>1. \A s \in Sessions : Positions(s) = {} /\ AtRecogniser(s) = {}
  BY DEF Init, Positions, AtRecogniser
<1>2. SessionInv
  BY <1>1 DEF Init, SessionInv, MailboxOK, ExaminationOK, StateOK, Exists, Idle,
     WaitingForImageResult, WaitingForMoreImages
<1>3. RequestInv
  BY DEF Init, RequestInv, RequestOK
<1> QED
  BY <1>2, <1>3, TypeInit DEF Inv

\* Steps of clients and of the coordinator that touch no session.
LEMMA ClientInv ==
    ASSUME Inv, TypeOK',
           \/ \E r \in Requests : AskExpires(r)
           \/ FindActiveSessions
           \/ UNCHANGED vars
    PROVE  SessionInv' /\ RequestInv'
<1>1. OnlyRequest(NoRequest) /\ acceptedFeatures' = acceptedFeatures
  BY DEF AskExpires, FindActiveSessions, vars, sessionVars, clientVars, OnlyRequest
<1>2. \A s \in Sessions : Alone(s)
  BY DEF AskExpires, FindActiveSessions, vars, sessionVars, clientVars, Alone
<1>3. \A s \in Sessions : MailboxOK(s)' /\ ExaminationOK(s)' /\ StateOK(s)'
  BY <1>1, <1>2, SessionAlone
<1>4. \A q \in Requests : RequestOK(q)'
  BY <1>1, RequestAlone
<1> QED
  BY <1>3, <1>4 DEF SessionInv, RequestInv

\* A request that is posted had no place before.
LEMMA PostImageInv ==
    ASSUME Inv, TypeOK', NEW r \in Requests, NEW s \in Sessions, PostImage(r, s)
    PROVE  SessionInv' /\ RequestInv'
<1>1. OnlyRequest(r) /\ acceptedFeatures' = acceptedFeatures
  BY DEF Inv, TypeOK, PostImage, sessionVars, OnlyRequest
<1>2. RequestOK(r) /\ target[r] = NoSession /\ target'[r] = s /\ rpcs' = rpcs
  BY DEF Inv, TypeOK, RequestInv, PostImage
<1>3. ASSUME NEW t \in Sessions PROVE MailboxOK(t)' /\ ExaminationOK(t)' /\ StateOK(t)'
  <2>1. Alone(t) /\ target[r] # t /\ r \notin rpcs'
    BY <1>2 DEF PostImage, sessionVars, Alone, RequestOK
  <2> QED
    BY <1>1, <2>1, SessionAlone
<1>4. RequestOK(r)'
  BY <1>2 DEF PostImage, sessionVars, RequestOK
<1>5. \A q \in Requests \ {r} : RequestOK(q)'
  BY <1>1, RequestAlone
<1> QED
  BY <1>3, <1>4, <1>5 DEF SessionInv, RequestInv

\* A new session has its configuration in the mailbox.
LEMMA BeginInv ==
    ASSUME Inv, TypeOK', NEW s \in Sessions, Begin(s)
    PROVE  SessionInv' /\ RequestInv'
<1>1. OnlyRequest(NoRequest) /\ acceptedFeatures' = acceptedFeatures
  BY DEF Begin, clientVars, OnlyRequest
<1>2. ASSUME NEW t \in Sessions \ {s} PROVE MailboxOK(t)' /\ ExaminationOK(t)' /\ StateOK(t)'
  <2>1. Alone(t)
    BY DEF Inv, TypeOK, Begin, Alone
  <2> QED
    BY <1>1, <2>1, SessionAlone
<1>3. MailboxOK(s) /\ ExaminationOK(s) /\ StateOK(s)
  BY DEF Inv, SessionInv
<1>4. /\ life[s] = "none" /\ life'[s] = "starting" /\ state'[s] = state[s]
      /\ mailbox'[s] = <<Configuration>> /\ active'[s] = active[s]
      /\ acceptedFeatures'[s] = acceptedFeatures[s] /\ state[s] = Idle
  BY <1>3 DEF Inv, TypeOK, Begin, StateOK
<1>5. Positions(s)' = {1} /\ mailbox'[s][1] = Configuration /\ mailbox'[s] # <<>>
  BY <1>4 DEF Positions
<1>6. MailboxOK(s)'
  BY <1>4, <1>5 DEF MailboxOK, Known, CarriesRequest, Configuration, Exists
<1>7. ExaminationOK(s)'
  <2>1. AtRecogniser(s) = {}
    BY <1>3, <1>4 DEF ExaminationOK, Idle, WaitingForImageResult
  <2>2. AtRecogniser(s)' = {}
    BY <2>1 DEF Begin, clientVars, AtRecogniser
  <2> QED
    BY <1>4, <1>5, <2>2 DEF ExaminationOK, Configuration, Idle, WaitingForImageResult
<1>8. StateOK(s)'
  BY <1>3, <1>4 DEF StateOK
<1>9. \A q \in Requests : RequestOK(q)'
  BY <1>1, RequestAlone
<1> QED
  BY <1>2, <1>6, <1>7, <1>8, <1>9 DEF SessionInv, RequestInv

\* A Kill joins the messages of a session that exists.
LEMMA KillInv ==
    ASSUME Inv, TypeOK', NEW s \in Sessions, KillActiveSession(s)
    PROVE  SessionInv' /\ RequestInv'
<1>1. /\ OnlyRequest(NoRequest) /\ Send(s, Kill)
      /\ life' = life /\ state' = state /\ active' = active /\ acceptedFeatures' = acceptedFeatures
      /\ rpcs' = rpcs /\ target' = target
  BY DEF KillActiveSession, clientVars, OnlyRequest
<1>2. ASSUME NEW t \in Sessions \ {s} PROVE MailboxOK(t)' /\ ExaminationOK(t)' /\ StateOK(t)'
  <2>1. Alone(t)
    BY <1>1, SendElements DEF Alone
  <2> QED
    BY <1>1, <2>1, SessionAlone
<1>3. MailboxOK(s)'
  <2>1. Kill \in Message /\ ~CarriesRequest(Kill) /\ Kill.kind # "SessionConfiguration"
    BY MessagesAreMessages DEF Kill, CarriesRequest
  <2>2. Known(s, Kill)'
    BY DEF Known, CarriesRequest, Kill
  <2>3. \A i \in Positions(s) : CarriesRequest(mailbox[s][i]) => mailbox[s][i].sender # NoRequest
    <3>1. \A i \in Positions(s) : mailbox[s][i] \in Message
      BY DEF Inv, TypeOK, Positions
    <3> QED
      BY <3>1 DEF CarriesRequest, Message
  <2> QED
    BY <1>1, <2>1, <2>2, <2>3, MailboxAfterSend
<1>4. ExaminationOK(s)'
  BY <1>1, ExaminationAfterSend DEF AtRecogniser, Kill
<1>5. StateOK(s)'
  BY <1>1 DEF Inv, SessionInv, StateOK
<1>6. \A q \in Requests : RequestOK(q)'
  BY <1>1, RequestAlone
<1> QED
  BY <1>2, <1>3, <1>4, <1>5, <1>6 DEF SessionInv, RequestInv

\* An image that is forwarded moves from the coordinator to a mailbox, or to
\* the dead letters.
LEMMA ProcessImageInv ==
    ASSUME Inv, TypeOK', NEW r \in Requests, ProcessImage(r)
    PROVE  SessionInv' /\ RequestInv'
<1> DEFINE s == target[r]
<1>1. /\ OnlyRequest(r) /\ Send(s, Image(r)) /\ r \in asks /\ r \notin asks'
      /\ life' = life /\ state' = state /\ active' = active /\ acceptedFeatures' = acceptedFeatures
      /\ rpcs' = rpcs /\ target' = target /\ verdict' = verdict /\ answer' = answer
      /\ status' = status /\ waiting' = waiting
  BY DEF Inv, TypeOK, ProcessImage, OnlyRequest
<1>2. RequestOK(r) /\ s \in Sessions /\ r \notin rpcs /\ verdict[r] = {} /\ answer[r] = <<>>
  BY <1>1 DEF Inv, TypeOK, RequestInv, RequestOK
<1>3. ASSUME NEW t \in Sessions \ {s} PROVE MailboxOK(t)' /\ ExaminationOK(t)' /\ StateOK(t)'
  <2>1. Alone(t)
    BY <1>1, <1>2, SendElements DEF Alone
  <2> QED
    BY <1>1, <2>1, SessionAlone
<1>4. PICK u \in Sessions : u = s
  BY <1>2
<1>5. MailboxOK(u)'
  <2>1. Image(r) \in Message /\ Image(r).sender = r /\ Image(r).kind = "Image"
    BY MessagesAreMessages DEF Image
  <2>2. Known(u, Image(r))'
    BY <1>1, <1>2, <1>4 DEF Known, CarriesRequest, Image
  <2>3. \A i \in Positions(u) : CarriesRequest(mailbox[u][i]) => mailbox[u][i].sender # r
    BY <1>1 DEF Inv, SessionInv, MailboxOK, Known
  <2> QED
    BY <1>1, <1>4, <2>1, <2>2, <2>3, MailboxAfterSend
<1>6. ExaminationOK(u)'
  <2>1. Image(r).kind # "SenderResult" /\ AtRecogniser(u)' = AtRecogniser(u)
    BY <1>1 DEF Image, AtRecogniser
  <2> QED
    BY <1>1, <1>4, <2>1, ExaminationAfterSend
<1>7. StateOK(u)'
  BY <1>1 DEF Inv, SessionInv, StateOK
<1>8. RequestOK(r)'
  BY <1>1, <1>2 DEF RequestOK
<1>9. \A q \in Requests \ {r} : RequestOK(q)'
  BY <1>1, RequestAlone
<1> QED
  BY <1>3, <1>4, <1>5, <1>6, <1>7, <1>8, <1>9 DEF SessionInv, RequestInv

\* The constructor of a session returns.
LEMMA StartInv ==
    ASSUME Inv, TypeOK', NEW s \in Sessions, Start(s)
    PROVE  SessionInv' /\ RequestInv'
<1>1. /\ OnlyRequest(NoRequest) /\ acceptedFeatures' = acceptedFeatures
      /\ state' = state /\ active' = active /\ mailbox' = mailbox
      /\ rpcs' = rpcs /\ target' = target /\ asks' = asks /\ answer' = answer
      /\ verdict' = verdict /\ life[s] = "starting" /\ life'[s] = "running"
      /\ \A t \in Sessions \ {s} : life'[t] = life[t]
  BY DEF Inv, TypeOK, Start, clientVars, OnlyRequest
<1>2. ASSUME NEW t \in Sessions \ {s} PROVE MailboxOK(t)' /\ ExaminationOK(t)' /\ StateOK(t)'
  <2>1. Alone(t)
    BY <1>1 DEF Alone
  <2> QED
    BY <1>1, <2>1, SessionAlone
<1>3. MailboxOK(s) /\ ExaminationOK(s) /\ StateOK(s)
  BY DEF Inv, SessionInv
<1>4. MailboxOK(s)'
  BY <1>1, <1>3 DEF MailboxOK, Known, CarriesRequest, Positions, Exists
<1>5. ExaminationOK(s)' /\ StateOK(s)'
  BY <1>1, <1>3 DEF ExaminationOK, StateOK, AtRecogniser, Positions
<1>6. \A q \in Requests : RequestOK(q)'
  BY <1>1, RequestAlone
<1> QED
  BY <1>2, <1>4, <1>5, <1>6 DEF SessionInv, RequestInv

\* A session that stops, by its constructor or a Kill, drops its mailbox.
LEMMA StopInv ==
    ASSUME Inv, TypeOK', NEW s \in Sessions, Stop(s)
    PROVE  SessionInv' /\ RequestInv'
<1>1. /\ OnlyRequest(NoRequest) /\ acceptedFeatures' = acceptedFeatures
      /\ state' = state /\ active' = active
      /\ mailbox'[s] = <<>> /\ life'[s] = "stopped"
      /\ \A t \in Sessions \ {s} : life'[t] = life[t] /\ mailbox'[t] = mailbox[t]
  BY DEF Inv, TypeOK, Stop, clientVars, OnlyRequest
<1>2. ASSUME NEW t \in Sessions \ {s} PROVE MailboxOK(t)' /\ ExaminationOK(t)' /\ StateOK(t)'
  <2>1. Alone(t)
    BY <1>1 DEF Alone
  <2> QED
    BY <1>1, <2>1, SessionAlone
<1>3. MailboxOK(s)' /\ ExaminationOK(s)' /\ StateOK(s)'
  BY <1>1 DEF Inv, SessionInv, StateOK, MailboxOK, ExaminationOK, Positions, Exists
<1>4. \A q \in Requests : RequestOK(q)'
  BY <1>1, RequestAlone
<1> QED
  BY <1>2, <1>3, <1>4 DEF SessionInv, RequestInv

\* Taking the configuration: Idle -> WaitingForMoreImages.
LEMMA ConfigureInv ==
    ASSUME Inv, TypeOK', NEW s \in Sessions, Configure(s)
    PROVE  SessionInv' /\ RequestInv'
<1>1. /\ Receive(s, "SessionConfiguration") /\ OnlyRequest(NoRequest)
      /\ life' = life /\ rpcs' = rpcs /\ target' = target
      /\ state[s] = Idle /\ ~active[s] /\ state'[s] = WaitingForMoreImages
      /\ active'[s] = TRUE /\ acceptedFeatures'[s] = <<>>
      /\ \A t \in Sessions \ {s} : /\ state'[t] = state[t] /\ active'[t] = active[t]
                                   /\ acceptedFeatures'[t] = acceptedFeatures[t]
  BY DEF Inv, TypeOK, Configure, Goto, clientVars, OnlyRequest
<1>2. ASSUME NEW t \in Sessions \ {s} PROVE MailboxOK(t)' /\ ExaminationOK(t)' /\ StateOK(t)'
  <2>1. Alone(t)
    BY <1>1, ReceiveElements DEF Alone
  <2> QED
    BY <1>1, <2>1, SessionAlone
<1>3. MailboxOK(s)'
  <2>1. ~CarriesRequest(Head(mailbox[s])) /\ state'[s] # Idle
    BY <1>1 DEF Receive, CarriesRequest, Idle, WaitingForMoreImages
  <2> QED
    BY <1>1, <2>1, MailboxAfterReceive
<1>4. ExaminationOK(s) /\ StateOK(s)
  BY DEF Inv, SessionInv
<1>5. ExaminationOK(s)'
  <2>1. life[s] # "stopped" /\ state[s] # WaitingForImageResult /\ state'[s] # WaitingForImageResult
    BY <1>1 DEF Receive, Idle, WaitingForMoreImages, WaitingForImageResult
  <2>2. /\ AtRecogniser(s)' = {}
        /\ \A i \in Positions(s)' : mailbox'[s][i].kind # "SenderResult"
    BY <1>1, <1>4, <2>1, ReceiveElements DEF ExaminationOK, AtRecogniser
  <2> QED
    BY <2>1, <2>2 DEF ExaminationOK
<1>6. StateOK(s)' /\ acceptedFeatures[s] = <<>>
  BY <1>1, <1>4 DEF StateOK, Receive, Idle, WaitingForMoreImages
<1>7. \A q \in Requests : RequestOK(q)'
  BY <1>1, <1>6, RequestAlone
<1> QED
  BY <1>2, <1>3, <1>5, <1>6, <1>7 DEF SessionInv, RequestInv

\* The first message, if it carries a request.
LEMMA HeadKnown ==
    ASSUME Inv, NEW s \in Sessions, NEW kind \in {"Image", "SenderResult"}, Receive(s, kind)
    PROVE  LET m == Head(mailbox[s]) IN
           /\ m.kind = kind /\ CarriesRequest(m) /\ m.sender \in Requests
           /\ target[m.sender] = s /\ m.sender \notin asks \cup rpcs
           /\ answer[m.sender] = <<>> /\ RequestOK(m.sender)
           /\ kind = "Image" => verdict[m.sender] = {}
           /\ kind = "SenderResult" =>
                 verdict[m.sender] \in IF m.accepted THEN {{"accepted"}}
                                                     ELSE {{"rejected"}, {"failed"}}
<1>1. Head(mailbox[s]).kind = kind /\ Head(mailbox[s]).sender \in Requests
  BY ReceiveTyped DEF Inv
<1>2. Known(s, Head(mailbox[s]))
  BY ReceiveElements DEF Inv, SessionInv, MailboxOK
<1> QED
  BY <1>1, <1>2 DEF Known, CarriesRequest, Inv, RequestInv

\* An image goes to the recogniser: its request moves there.
LEMMA HandleImageInv ==
    ASSUME Inv, TypeOK', NEW s \in Sessions, HandleImage(s)
    PROVE  SessionInv' /\ RequestInv'
<1>0. PICK r \in Requests : r = Head(mailbox[s]).sender
  BY HeadKnown DEF HandleImage
<1>1. /\ Receive(s, "Image") /\ rpcs' = rpcs \cup {r}
      /\ life' = life /\ target' = target /\ active' = active
      /\ acceptedFeatures' = acceptedFeatures /\ asks' = asks /\ waiting' = waiting
      /\ verdict' = verdict /\ answer' = answer /\ status' = status
      /\ state[s] = WaitingForMoreImages /\ active[s] /\ state'[s] = WaitingForImageResult
      /\ \A t \in Sessions \ {s} : state'[t] = state[t]
  BY <1>0 DEF Inv, TypeOK, HandleImage, Goto, clientVars
<1>2. /\ target[r] = s /\ r \notin asks \cup rpcs /\ answer[r] = <<>>
      /\ verdict[r] = {} /\ RequestOK(r) /\ CarriesRequest(Head(mailbox[s]))
  BY <1>0, <1>1, HeadKnown
<1>3. OnlyRequest(r)
  BY <1>1 DEF OnlyRequest
<1>4. ASSUME NEW t \in Sessions \ {s} PROVE MailboxOK(t)' /\ ExaminationOK(t)' /\ StateOK(t)'
  <2>1. Alone(t)
    BY <1>1, ReceiveElements DEF Alone
  <2> QED
    BY <1>1, <1>2, <1>3, <2>1, SessionAlone
<1>5. MailboxOK(s)'
  <2>1. state'[s] # Idle
    BY <1>1 DEF Idle, WaitingForImageResult
  <2> QED
    BY <1>0, <1>1, <1>2, <1>3, <2>1, MailboxAfterReceive
<1>6. ExaminationOK(s) /\ StateOK(s)
  BY DEF Inv, SessionInv
<1>7. ExaminationOK(s)'
  <2>1. life[s] # "stopped" /\ state[s] # WaitingForImageResult
    BY <1>1 DEF Receive, WaitingForMoreImages, WaitingForImageResult
  <2>2. AtRecogniser(s) = {} /\ \A i \in Positions(s) : mailbox[s][i].kind # "SenderResult"
    BY <1>6, <2>1 DEF ExaminationOK
  <2>3. AtRecogniser(s)' = {r}
    BY <1>1, <1>2, <2>2 DEF AtRecogniser
  <2>4. \A i \in Positions(s)' : mailbox'[s][i].kind # "SenderResult"
    BY <1>1, <2>2, ReceiveElements
  <2> QED
    BY <1>1, <2>3, <2>4 DEF ExaminationOK
<1>8. StateOK(s)'
  BY <1>1, <1>6 DEF StateOK, Receive, Idle, WaitingForMoreImages, WaitingForImageResult
<1>9. RequestOK(r)'
  BY <1>1, <1>2 DEF RequestOK
<1>10. \A q \in Requests \ {r} : RequestOK(q)'
  BY <1>1, <1>3, RequestAlone
<1> QED
  BY <1>4, <1>5, <1>7, <1>8, <1>9, <1>10 DEF SessionInv, RequestInv

\* What a positive result does to the features of a session that misses some.
LEMMA WithResultLonger ==
    ASSUME NEW f \in Seq(Feature), Len(f) < Len(Required)
    PROVE  /\ WithResult(f) \in Seq(Feature) /\ Len(WithResult(f)) = Len(f) + 1
           /\ IsCompleted(WithResult(f)) <=> Len(f) + 1 = Len(Required)
  BY DEF WithResult, RequiredFeature, IsCompleted

\* What a session s does with the result of r: it answers a.
Answered(s, r, a) ==
    /\ Receive(s, "SenderResult") /\ Head(mailbox[s]).sender = r
    /\ CarriesRequest(Head(mailbox[s]))
    /\ target[r] = s /\ r \notin asks \cup rpcs /\ answer[r] = <<>> /\ status[r] = {}
    /\ answer' = [answer EXCEPT ![r] = <<a>>] /\ waiting' = waiting \ {r}
    /\ status'[r] \subseteq {StatusOf(a)}
    /\ \A q \in Requests \ {r} : status'[q] = status[q]
    /\ state[s] = WaitingForImageResult /\ active[s]
    /\ Len(acceptedFeatures[s]) < Len(Required)
    /\ \/ /\ a = RecogSessionCompleted /\ verdict[r] = {"accepted"}
          /\ Len(acceptedFeatures'[s]) = Len(acceptedFeatures[s]) + 1
          /\ Len(acceptedFeatures'[s]) = Len(Required)
          /\ state'[s] = Completed
       \/ /\ a = RecogSessionAccepted /\ verdict[r] = {"accepted"}
          /\ Len(acceptedFeatures'[s]) = Len(acceptedFeatures[s]) + 1
          /\ Len(acceptedFeatures'[s]) < Len(Required)
          /\ state'[s] = WaitingForMoreImages
       \/ /\ a = RecogSessionRejected /\ verdict[r] \in {{"rejected"}, {"failed"}}
          /\ acceptedFeatures'[s] = acceptedFeatures[s]
          /\ state'[s] = WaitingForMoreImages

LEMMA ResultAnswered ==
    ASSUME Inv, NEW s \in Sessions, HandleResult(s)
    PROVE  \E r \in Requests, a \in Answers : Answered(s, r, a)
<1> DEFINE m        == Head(mailbox[s])
           f        == acceptedFeatures[s]
           features == IF m.accepted THEN WithResult(f) ELSE f
           done     == m.accepted /\ IsCompleted(features)
           a        == IF done THEN RecogSessionCompleted
                       ELSE IF m.accepted THEN RecogSessionAccepted
                       ELSE RecogSessionRejected
<1>1. /\ acceptedFeatures' = [acceptedFeatures EXCEPT ![s] = features]
      /\ state' = [state EXCEPT ![s] = IF done THEN Completed ELSE WaitingForMoreImages]
      /\ Reply(m.sender, a) /\ Receive(s, "SenderResult")
      /\ state[s] = WaitingForImageResult /\ active[s]
  BY DEF HandleResult, Goto
<1>2. /\ m.sender \in Requests /\ target[m.sender] = s /\ m.sender \notin asks \cup rpcs
      /\ answer[m.sender] = <<>> /\ RequestOK(m.sender) /\ CarriesRequest(m)
      /\ verdict[m.sender] \in IF m.accepted THEN {{"accepted"}} ELSE {{"rejected"}, {"failed"}}
  BY <1>1, HeadKnown
<1>3. f \in Seq(Feature) /\ Len(f) < Len(Required) /\ Len(f) \in Nat /\ Len(Required) \in Nat
  BY <1>1 DEF Inv, TypeOK, SessionInv, StateOK
<1>4. IF m.accepted
        THEN Len(features) = Len(f) + 1 /\ (done <=> Len(features) = Len(Required))
        ELSE features = f /\ ~done
  BY <1>3, WithResultLonger
<1>5. acceptedFeatures'[s] = features
      /\ state'[s] = IF done THEN Completed ELSE WaitingForMoreImages
  BY <1>1 DEF Inv, TypeOK
<1>6. a \in Answers
  BY DEF Answers
<1>7. status[m.sender] = {}
  BY <1>2 DEF RequestOK
<1> HIDE DEF m, a, features, done
<1>8. /\ answer' = [answer EXCEPT ![m.sender] = <<a>>] /\ waiting' = waiting \ {m.sender}
      /\ status'[m.sender] \subseteq {StatusOf(a)}
      /\ \A q \in Requests \ {m.sender} : status'[q] = status[q]
  <2>1. Append(answer[m.sender], a) = <<a>>
    BY <1>2
  <2> QED
    BY <1>1, <1>2, <1>7, <2>1 DEF Reply, Inv, TypeOK
<1>9. CASE m.accepted /\ done
  <2>1. /\ a = RecogSessionCompleted /\ verdict[m.sender] = {"accepted"}
        /\ Len(acceptedFeatures'[s]) = Len(f) + 1
        /\ Len(acceptedFeatures'[s]) = Len(Required) /\ state'[s] = Completed
    BY <1>2, <1>4, <1>5, <1>9 DEF a
  <2> QED
    BY <1>1, <1>2, <1>3, <1>6, <1>7, <1>8, <2>1 DEF m, f, Answered
<1>10. CASE m.accepted /\ ~done
  <2>1. /\ a = RecogSessionAccepted /\ verdict[m.sender] = {"accepted"}
        /\ Len(acceptedFeatures'[s]) = Len(f) + 1
        /\ Len(acceptedFeatures'[s]) < Len(Required) /\ state'[s] = WaitingForMoreImages
    BY <1>2, <1>3, <1>4, <1>5, <1>10 DEF a
  <2> QED
    BY <1>1, <1>2, <1>3, <1>6, <1>7, <1>8, <2>1 DEF m, f, Answered
<1>11. CASE ~m.accepted
  <2>1. /\ a = RecogSessionRejected /\ verdict[m.sender] \in {{"rejected"}, {"failed"}}
        /\ acceptedFeatures'[s] = acceptedFeatures[s] /\ state'[s] = WaitingForMoreImages
    BY <1>2, <1>4, <1>5, <1>11 DEF a
  <2> QED
    BY <1>1, <1>2, <1>3, <1>6, <1>7, <1>8, <2>1 DEF m, f, Answered
<1> QED
  BY <1>9, <1>10, <1>11

\* The statuses that go with the answers.
LEMMA Statuses ==
    /\ StatusOf(RecogSessionAccepted) = 202
    /\ StatusOf(RecogSessionRejected) = 400
    /\ StatusOf(RecogSessionCompleted) = 200
  BY DEF StatusOf, RecogSessionAccepted, RecogSessionRejected, RecogSessionCompleted

\* A result answers its request, and the session waits for more or is done.
LEMMA HandleResultInv ==
    ASSUME Inv, TypeOK', NEW s \in Sessions, HandleResult(s)
    PROVE  SessionInv' /\ RequestInv'
<1>1. PICK r \in Requests, a \in Answers : Answered(s, r, a)
  BY ResultAnswered
<1>2. /\ life' = life /\ active' = active /\ target' = target /\ asks' = asks
      /\ rpcs' = rpcs /\ verdict' = verdict
      /\ \A t \in Sessions \ {s} : /\ state'[t] = state[t]
                                   /\ acceptedFeatures'[t] = acceptedFeatures[t]
  BY DEF Inv, TypeOK, HandleResult, Goto
<1>3. OnlyRequest(r) /\ answer'[r] = <<a>>
  BY <1>1, <1>2 DEF Inv, TypeOK, Answered, OnlyRequest
<1>4. ASSUME NEW t \in Sessions \ {s} PROVE MailboxOK(t)' /\ ExaminationOK(t)' /\ StateOK(t)'
  <2>1. Alone(t)
    BY <1>1, <1>2, ReceiveElements DEF Alone, Answered
  <2> QED
    BY <1>1, <1>2, <1>3, <2>1, SessionAlone DEF Answered
<1>5. MailboxOK(s)'
  <2>1. state'[s] # Idle
    BY <1>1 DEF Answered, Idle, WaitingForMoreImages, Completed
  <2> QED
    BY <1>1, <1>2, <1>3, <2>1, MailboxAfterReceive DEF Answered
<1>6. ExaminationOK(s) /\ StateOK(s)
  BY DEF Inv, SessionInv
<1>7. ExaminationOK(s)'
  <2>1. /\ 1 \in Positions(s) /\ mailbox[s][1].kind = "SenderResult" /\ life[s] # "stopped"
        /\ \A i \in Positions(s)' : /\ i \in Nat /\ i # 0 /\ i + 1 \in Positions(s)
                                    /\ mailbox'[s][i] = mailbox[s][i + 1]
    BY <1>1, ReceiveElements DEF Answered, Receive
  <2>2. AtRecogniser(s)' = {}
    BY <1>2, <1>6, <2>1 DEF ExaminationOK, AtRecogniser
  <2>3. ASSUME NEW i \in Positions(s)', mailbox'[s][i].kind = "SenderResult" PROVE FALSE
    <3>1. i + 1 = 1
      BY <1>6, <2>1, <2>3 DEF ExaminationOK
    <3> QED
      BY <2>1, <3>1
  <2>4. state'[s] # WaitingForImageResult
    BY <1>1 DEF Answered, WaitingForMoreImages, WaitingForImageResult, Completed
  <2> QED
    BY <2>2, <2>3, <2>4 DEF ExaminationOK
<1>8. StateOK(s)'
  <2>1. life[s] = "running" /\ state'[s] # Idle /\ active[s]
    BY <1>1 DEF Answered, Receive, Idle, WaitingForMoreImages, Completed
  <2> QED
    BY <1>1, <1>2, <1>6, <2>1
    DEF StateOK, Answered, WaitingForMoreImages, WaitingForImageResult, Completed
<1>9. RequestOK(r)'
  <2>1. RequestOK(r) /\ target[r] \in Sessions /\ r \notin waiting'
    BY <1>1 DEF Inv, RequestInv, Answered
  <2>2. a = RecogSessionCompleted => IsCompleted(acceptedFeatures'[s])
    BY <1>1 DEF Answered, IsCompleted, RecogSessionCompleted, RecogSessionAccepted,
                RecogSessionRejected
  <2> QED
    BY <1>1, <1>2, <1>3, <2>1, <2>2, Statuses DEF RequestOK, Answered, IsCompleted
<1>10. \A q \in Requests \ {r} : RequestOK(q)'
  <2>1. ~IsCompleted(acceptedFeatures[s])
    BY <1>1 DEF Answered, IsCompleted, Inv, TypeOK
  <2> QED
    BY <1>2, <1>3, <2>1, RequestAlone
<1> QED
  BY <1>4, <1>5, <1>7, <1>8, <1>9, <1>10 DEF SessionInv, RequestInv

\* A message that is dropped: an image for a session that is busy or done.
LEMMA UnhandledInv ==
    ASSUME Inv, TypeOK', NEW s \in Sessions, Unhandled(s)
    PROVE  SessionInv' /\ RequestInv'
<1>1. PICK kind \in {"SessionConfiguration", "Image", "SenderResult"} : Receive(s, kind)
  BY DEF Unhandled
<1>2. PICK r \in Requests : r = Head(mailbox[s]).sender
  BY UnhandledCarries
<1>3. /\ life' = life /\ state' = state /\ active' = active
      /\ acceptedFeatures' = acceptedFeatures /\ rpcs' = rpcs /\ target' = target
      /\ OnlyRequest(NoRequest) /\ OnlyRequest(r) /\ CarriesRequest(Head(mailbox[s]))
      /\ state[s] # Idle
  BY UnhandledCarries DEF Unhandled, clientVars, OnlyRequest
<1>4. ASSUME NEW t \in Sessions \ {s} PROVE MailboxOK(t)' /\ ExaminationOK(t)' /\ StateOK(t)'
  <2>1. Alone(t)
    BY <1>1, <1>3, ReceiveElements DEF Alone
  <2> QED
    BY <1>3, <2>1, SessionAlone
<1>5. MailboxOK(s)'
  BY <1>1, <1>2, <1>3, MailboxAfterReceive
<1>6. ExaminationOK(s) /\ StateOK(s)
  BY DEF Inv, SessionInv
<1>7. ExaminationOK(s)'
  <2>1. /\ 1 \in Positions(s) /\ life[s] # "stopped" /\ AtRecogniser(s)' = AtRecogniser(s)
        /\ \A i \in Positions(s)' : /\ i \in Nat /\ i # 0 /\ i + 1 \in Positions(s)
                                    /\ mailbox'[s][i] = mailbox[s][i + 1]
    BY <1>1, <1>3, ReceiveElements DEF Receive, AtRecogniser
  <2>2. mailbox[s][1].kind # "SenderResult"
    <3>1. Head(mailbox[s]) = mailbox[s][1]
      BY <1>1, ReceiveElements
    <3>2. mailbox[s][1].kind = "SenderResult" => state[s] = WaitingForImageResult /\ active[s]
      BY <1>3, <1>6, <2>1 DEF ExaminationOK, StateOK
    <3> QED
      BY <3>1, <3>2 DEF Unhandled, Handled
  <2>3. \A i \in Positions(s) :
           i = 1 \/ \E j \in Positions(s)' : mailbox'[s][j] = mailbox[s][i]
    <3>1. mailbox[s] \in Seq(Message) /\ mailbox[s] # <<>> /\ mailbox'[s] = Tail(mailbox[s])
      BY <1>1 DEF Inv, TypeOK, Receive
    <3>2. ASSUME NEW i \in Positions(s), i # 1
          PROVE  i - 1 \in Positions(s)' /\ mailbox'[s][i - 1] = mailbox[s][i]
      BY <3>1, <3>2 DEF Positions
    <3> QED
      BY <3>2
  <2>4. \A i \in Positions(s)', j \in Positions(s)' :
           mailbox'[s][i].kind = "SenderResult" =>
             /\ state[s] = WaitingForImageResult /\ AtRecogniser(s) = {}
             /\ mailbox'[s][j].kind = "SenderResult" => i = j
    <3> SUFFICES ASSUME NEW i \in Positions(s)', NEW j \in Positions(s)',
                        mailbox'[s][i].kind = "SenderResult"
                 PROVE  /\ state[s] = WaitingForImageResult /\ AtRecogniser(s) = {}
                        /\ mailbox'[s][j].kind = "SenderResult" => i = j
      OBVIOUS
    <3>1. mailbox'[s][j].kind = "SenderResult" => i + 1 = j + 1
      BY <1>6, <2>1 DEF ExaminationOK
    <3> QED
      BY <1>6, <2>1, <3>1 DEF ExaminationOK
  <2> QED
    BY <1>3, <1>6, <2>1, <2>2, <2>3, <2>4 DEF ExaminationOK
<1>8. StateOK(s)'
  BY <1>3, <1>6 DEF StateOK
<1>9. \A q \in Requests : RequestOK(q)'
  BY <1>3, RequestAlone
<1> QED
  BY <1>4, <1>5, <1>7, <1>8, <1>9 DEF SessionInv, RequestInv

\* A session that waits for an image or is completed expires.
LEMMA StateTimeoutInv ==
    ASSUME Inv, TypeOK', NEW s \in Sessions, StateTimeout(s)
    PROVE  SessionInv' /\ RequestInv'
<1>1. /\ OnlyRequest(NoRequest) /\ acceptedFeatures' = acceptedFeatures
      /\ life' = life /\ active' = active /\ mailbox' = mailbox
      /\ rpcs' = rpcs /\ target' = target
      /\ life[s] = "running" /\ state[s] # WaitingForImageResult /\ mailbox[s] = <<>>
      /\ state'[s] = Aborted /\ \A t \in Sessions \ {s} : state'[t] = state[t]
  BY DEF Inv, TypeOK, StateTimeout, Goto, clientVars, OnlyRequest
<1>2. ASSUME NEW t \in Sessions \ {s} PROVE MailboxOK(t)' /\ ExaminationOK(t)' /\ StateOK(t)'
  <2>1. Alone(t)
    BY <1>1 DEF Alone
  <2> QED
    BY <1>1, <2>1, SessionAlone
<1>3. MailboxOK(s) /\ ExaminationOK(s) /\ StateOK(s)
  BY DEF Inv, SessionInv
<1>4. Positions(s)' = {} /\ AtRecogniser(s)' = {} /\ state[s] # Idle
  BY <1>1, <1>3 DEF Positions, AtRecogniser, MailboxOK, ExaminationOK, Exists
<1>5. MailboxOK(s)' /\ ExaminationOK(s)' /\ StateOK(s)'
  BY <1>1, <1>3, <1>4 DEF MailboxOK, ExaminationOK, StateOK, Aborted, Idle,
     WaitingForMoreImages, WaitingForImageResult
<1>6. \A q \in Requests : RequestOK(q)'
  BY <1>1, RequestAlone
<1> QED
  BY <1>2, <1>5, <1>6 DEF SessionInv, RequestInv

\* A future ends: its result goes to the session, if that still exists.
LEMMA RpcEndsInv ==
    ASSUME Inv, TypeOK', NEW r \in Requests, NEW how \in Verdicts, RpcEnds(r, how)
    PROVE  SessionInv' /\ RequestInv'
<1>1. RequestOK(r) /\ r \in rpcs
  BY DEF Inv, RequestInv, RpcEnds
<1>2. PICK s \in Sessions : target[r] = s
  BY <1>1 DEF Inv, TypeOK, RequestOK
<1>3. PICK m \in Message : m = SenderResult(r, how = "accepted")
  BY MessagesAreMessages
<1>4. /\ m.kind = "SenderResult" /\ m.sender = r /\ CarriesRequest(m)
      /\ m.accepted <=> how = "accepted"
  BY <1>3 DEF SenderResult, CarriesRequest
<1>5. /\ Send(s, m) /\ rpcs' = rpcs \ {r} /\ asks' = asks
      /\ life' = life /\ state' = state /\ active' = active
      /\ acceptedFeatures' = acceptedFeatures /\ target' = target /\ answer' = answer
      /\ status' = status /\ waiting' = waiting
  BY <1>2, <1>3 DEF RpcEnds, clientVars
<1>6. /\ verdict[r] = {} /\ answer[r] = <<>> /\ r \notin asks /\ status[r] = {}
      /\ verdict'[r] = {how}
      /\ \A q \in Requests \ {r} : verdict'[q] = verdict[q]
  BY <1>1 DEF RequestOK, RpcEnds, Inv, TypeOK
<1>7. OnlyRequest(r)
  BY <1>5, <1>6 DEF OnlyRequest
<1>8. ASSUME NEW t \in Sessions \ {s} PROVE MailboxOK(t)' /\ ExaminationOK(t)' /\ StateOK(t)'
  <2>1. Alone(t)
    BY <1>5, SendElements DEF Alone
  <2> QED
    BY <1>2, <1>5, <1>7, <2>1, SessionAlone
<1>9. MailboxOK(s) /\ ExaminationOK(s) /\ StateOK(s)
  BY DEF Inv, SessionInv
<1>10. MailboxOK(s)'
  <2>1. Known(s, m)'
    BY <1>2, <1>4, <1>5, <1>6 DEF Known, CarriesRequest, Verdicts
  <2>2. \A i \in Positions(s) : CarriesRequest(mailbox[s][i]) => mailbox[s][i].sender # r
    BY <1>1, <1>9 DEF MailboxOK, Known
  <2> QED
    BY <1>4, <1>5, <1>7, <2>1, <2>2, MailboxAfterSend
<1>11. ExaminationOK(s)'
  <2> SUFFICES ASSUME life'[s] # "stopped" PROVE ExaminationOK(s)'
    BY DEF ExaminationOK
  <2>1. state[s] = WaitingForImageResult /\ AtRecogniser(s) = {r} /\ life[s] # "stopped"
    BY <1>1, <1>2, <1>5, <1>9 DEF ExaminationOK, AtRecogniser
  <2>2. AtRecogniser(s)' = {} /\ state'[s] = WaitingForImageResult
    BY <1>5, <2>1 DEF AtRecogniser
  <2>3. \A i \in Positions(s) : mailbox[s][i].kind # "SenderResult"
    BY <1>9, <2>1 DEF ExaminationOK
  <2>4. Exists(s)
    BY <1>9, <2>1 DEF StateOK, Exists, Inv, TypeOK, Idle, WaitingForImageResult
  <2>5. \A i \in Positions(s)' : mailbox'[s][i].kind = "SenderResult"
           <=> i = Len(mailbox[s]) + 1
    BY <1>4, <1>5, <2>3, <2>4, SendElements DEF Positions, Inv, TypeOK
  <2>6. Len(mailbox[s]) + 1 \in Positions(s)' /\ mailbox'[s][Len(mailbox[s]) + 1].kind = "SenderResult"
    BY <1>4, <1>5, <2>4, SendElements
  <2> QED
    BY <2>2, <2>5, <2>6 DEF ExaminationOK
<1>12. StateOK(s)'
  BY <1>5, <1>9 DEF StateOK
<1>13. RequestOK(r)'
  BY <1>1, <1>2, <1>5, <1>6 DEF RequestOK
<1>14. \A q \in Requests \ {r} : RequestOK(q)'
  BY <1>5, <1>7, RequestAlone
<1> QED
  BY <1>8, <1>10, <1>11, <1>12, <1>13, <1>14 DEF SessionInv, RequestInv

LEMMA NextInv == Inv /\ [Next]_vars => Inv'
<1> SUFFICES ASSUME Inv, [Next]_vars PROVE SessionInv' /\ RequestInv'
  BY TypeStep DEF Inv
<1> TypeOK'
  BY TypeStep
<1>1. CASE Client \/ UNCHANGED vars
  BY <1>1, ClientInv, PostImageInv DEF Client
<1>2. CASE Coordinator
  BY <1>2, BeginInv, KillInv, ProcessImageInv, ClientInv DEF Coordinator
<1>3. CASE \E s \in Sessions : Session(s)
  BY <1>3, StartInv, StopInv, ConfigureInv, HandleImageInv, HandleResultInv, UnhandledInv,
     StateTimeoutInv DEF Session
<1>4. CASE \E r \in Requests, how \in Verdicts : RpcEnds(r, how)
  BY <1>4, RpcEndsInv
<1> QED
  BY <1>1, <1>2, <1>3, <1>4 DEF Next

-----------------------------------------------------------------------------
(* The theorems.                                                           *)

\* Each request has one place, each session at most one image under
\* examination, and what a client is told is what the recogniser said.
THEOREM Invariance == Spec => []Inv
<1> QED
  BY InitInv, NextInv, PTL DEF Spec

\* Every variable keeps its type; in particular a message that a live session
\* drops carries a request, and no client is ever told anything but 200, 202,
\* 400 or 500.
THEOREM TypeCorrect == Spec => []TypeOK
<1>1. Inv => TypeOK
  BY DEF Inv
<1> QED
  BY <1>1, Invariance, PTL

\* End to end, whatever the clients, the coordinator and the other sessions
\* do: the HTTP status of a request is the recogniser's verdict on its own
\* image (api/recog.scala:39-46, instance.scala:92-112, 126-132).
THEOREM StatusesAreVerdicts == Spec => []StatusIsTheVerdict
<1>1. Inv => StatusIsTheVerdict
  <2> SUFFICES ASSUME Inv, NEW r \in Requests
               PROVE  /\ Cardinality(status[r]) <= 1 /\ 500 \notin status[r]
                      /\ status[r] \cap {200, 202} # {} => verdict[r] = {"accepted"}
                      /\ 400 \in status[r] => verdict[r] \in {{"rejected"}, {"failed"}}
                      /\ 200 \in status[r] => IsCompleted(acceptedFeatures[target[r]])
    BY DEF StatusIsTheVerdict
  <2>1. RequestOK(r)
    BY DEF Inv, RequestInv
  <2>2. status[r] = {} \/ \E c \in {200, 202, 400} : status[r] = {c}
    BY <2>1 DEF RequestOK
  <2>3. Cardinality(status[r]) <= 1
    <3>1. \A c : Cardinality({c}) = 1
      BY FS_Singleton
    <3>2. Cardinality({}) = 0
      BY FS_EmptySet
    <3>3. ASSUME status[r] = {} PROVE Cardinality(status[r]) = 0
      BY <3>2, <3>3, Zenon
    <3>4. ASSUME NEW c, status[r] = {c} PROVE Cardinality(status[r]) = 1
      BY <3>1, <3>4, Zenon
    <3>5. Cardinality(status[r]) = 0 \/ Cardinality(status[r]) = 1
      BY <2>2, <3>3, <3>4, Zenon
    <3> QED
      BY <3>5
  <2> QED
    BY <2>1, <2>3 DEF RequestOK
<1> QED
  BY <1>1, Invariance, PTL

\* A session that is Idle has its configuration to read before anything else,
\* so that no image meets a session without one (coordinator.scala:39-42).
THEOREM ConfigurationFirst == Spec => []ConfiguredFirst
<1>1. Inv => ConfiguredFirst
  <2> SUFFICES ASSUME Inv, NEW s \in Sessions, life[s] \in {"starting", "running"},
                      state[s] = Idle
               PROVE  mailbox[s] # <<>> /\ Head(mailbox[s]) = Configuration
    BY DEF ConfiguredFirst
  <2>1. mailbox[s] # <<>> /\ mailbox[s][1] = Configuration /\ mailbox[s] \in Seq(Message)
    BY DEF Inv, TypeOK, SessionInv, MailboxOK, Exists
  <2> QED
    BY <2>1
<1> QED
  BY <1>1, Invariance, PTL

-----------------------------------------------------------------------------
(* What a session drops.                                                   *)

\* A live session that drops an image waits for the result of another one.
LEMMA DropStep ==
    ASSUME Inv, [Next]_vars, NEW r \in dropped' \ dropped
    PROVE  \E q \in Requests \ {r} : target[q] = target[r] /\ answer[q] = <<>>
<1>1. PICK s \in Sessions : Unhandled(s)
  BY DEF Next, Client, Coordinator, Session, AskExpires, PostImage, Begin, ProcessImage,
     KillActiveSession, FindActiveSessions, Start, Stop, Configure, HandleImage, HandleResult,
     StateTimeout, RpcEnds, vars
<1>2. PICK kind \in {"SessionConfiguration", "Image", "SenderResult"} : Receive(s, kind)
  BY <1>1 DEF Unhandled
<1>3. ~Ended(s) /\ r = Head(mailbox[s]).sender
  BY <1>1 DEF Unhandled
<1>4. /\ 1 \in Positions(s) /\ Head(mailbox[s]) = mailbox[s][1]
      /\ MailboxOK(s) /\ ExaminationOK(s) /\ StateOK(s) /\ life[s] # "stopped"
  BY <1>2, ReceiveElements DEF Inv, SessionInv, Receive
<1>5. /\ CarriesRequest(mailbox[s][1]) /\ Known(s, mailbox[s][1]) /\ target[r] = s
      /\ r \in Requests /\ r \notin rpcs
  BY <1>1, <1>3, <1>4, UnhandledCarries DEF MailboxOK, Known
<1>6. state[s] = WaitingForImageResult /\ mailbox[s][1].kind = "Image"
  <2>1. state[s] \in {WaitingForMoreImages, WaitingForImageResult} /\ active[s]
    BY <1>1, <1>3, <1>4, UnhandledCarries
    DEF Ended, StateOK, Inv, TypeOK, RecogSessionState
  <2>2. mailbox[s][1].kind = "SenderResult" => state[s] = WaitingForImageResult
    BY <1>4 DEF ExaminationOK
  <2>3. ~Handled(mailbox[s][1], state[s], active[s])
    BY <1>1, <1>4 DEF Unhandled
  <2> QED
    BY <1>5, <2>1, <2>2, <2>3 DEF Handled, CarriesRequest
<1>7. CASE AtRecogniser(s) # {}
  <2>1. PICK q \in rpcs : target[q] = s
    BY <1>7 DEF AtRecogniser
  <2>2. q \in Requests /\ q # r /\ answer[q] = <<>>
    BY <1>5, <2>1 DEF Inv, TypeOK, RequestInv, RequestOK
  <2> QED
    BY <1>5, <2>1, <2>2
<1>8. CASE \E i \in Positions(s) : mailbox[s][i].kind = "SenderResult"
  <2>1. PICK i \in Positions(s) : mailbox[s][i].kind = "SenderResult"
    BY <1>8
  <2>2. /\ mailbox[s][i].sender \in Requests /\ target[mailbox[s][i].sender] = s
        /\ answer[mailbox[s][i].sender] = <<>>
    <3>1. mailbox[s][i] \in Message /\ Known(s, mailbox[s][i])
      BY <1>4 DEF Inv, TypeOK, Positions, MailboxOK
    <3> QED
      BY <2>1, <3>1 DEF Known, CarriesRequest, Message
  <2>3. mailbox[s][i].sender # r
    BY <1>3, <1>4, <1>5, <1>6, <2>1 DEF MailboxOK, CarriesRequest
  <2> QED
    BY <1>5, <2>2, <2>3
<1> QED
  BY <1>4, <1>6, <1>7, <1>8 DEF ExaminationOK

\* A client that has its session to itself and waits for each answer is never
\* ignored (instance.scala:75-112).
THEOREM DropsAreOverlaps == Spec => DroppedOnlyByOverlap
<1>1. Inv /\ [Next]_vars =>
         [\A r \in dropped' \ dropped :
            \E q \in Requests \ {r} : target[q] = target[r] /\ answer[q] = <<>>]_vars
  BY DropStep
<1> QED
  BY <1>1, Invariance, PTL DEF Spec, DroppedOnlyByOverlap

-----------------------------------------------------------------------------
(* Every session implements RecogPromise.                                  *)

Remaining(s) == Len(Required) - Len(acceptedFeatures[s])
Open(s)      == life[s] # "stopped" /\ state[s] # Aborted
AnswersOf(s) == [r \in Requests |-> IF target[r] = s THEN answer[r] ELSE <<>>]

LEMMA PromiseInit == Init => \A s \in Sessions : Promise(s)!Init
<1> SUFFICES ASSUME Init, NEW s \in Sessions PROVE Promise(s)!Init
  OBVIOUS
<1>1. Len(Required) - Len(acceptedFeatures[s]) = Len(Required) /\ Open(s)
  BY DEF Init, Open, Idle, Aborted
<1>2. [r \in Requests |-> IF target[r] = s THEN answer[r] ELSE <<>>] = [r \in Requests |-> <<>>]
  BY DEF Init
<1> QED
  BY <1>1, <1>2 DEF Promise!Init, Open

\* A step that changes nothing of what was promised to a session's clients.
LEMMA PromiseStutter ==
    ASSUME NEW t \in Sessions, acceptedFeatures'[t] = acceptedFeatures[t],
           Open(t)' <=> Open(t), AnswersOf(t)' = AnswersOf(t)
    PROVE  [Promise(t)!Next]_(Promise(t)!vars)
  BY DEF Promise!vars, Open, AnswersOf

\* An answer is what the promise allows, to the session that gives it.
LEMMA PromiseAnswer ==
    ASSUME Inv, NEW s \in Sessions, HandleResult(s)
    PROVE  Promise(s)!Next
<1>1. PICK r \in Requests, a \in Answers : Answered(s, r, a)
  BY ResultAnswered
<1>2. AnswersOf(s)' = [AnswersOf(s) EXCEPT ![r] = <<a>>] /\ AnswersOf(s)[r] = <<>>
  <2>1. target' = target /\ target[r] = s /\ answer' = [answer EXCEPT ![r] = <<a>>]
        /\ answer[r] = <<>>
    BY <1>1 DEF HandleResult, Answered
  <2>2. AnswersOf(s)[r] = <<>>
    BY <2>1 DEF AnswersOf
  <2>3. \A q \in Requests : AnswersOf(s)'[q] = [AnswersOf(s) EXCEPT ![r] = <<a>>][q]
    <3>1. answer'[r] = <<a>> /\ \A q \in Requests \ {r} : answer'[q] = answer[q]
      BY <2>1 DEF Inv, TypeOK
    <3> QED
      BY <2>1, <3>1 DEF AnswersOf
  <2> QED
    BY <2>2, <2>3 DEF AnswersOf
<1>3. Open(s) /\ Open(s)'
  <2>1. life'[s] = "running" /\ life[s] = "running"
    BY <1>1 DEF HandleResult, Answered, Receive
  <2>2. state[s] # Aborted /\ state'[s] # Aborted
    BY <1>1 DEF Answered, Aborted, WaitingForMoreImages, WaitingForImageResult, Completed
  <2> QED
    BY <2>1, <2>2 DEF Open
<1>4. acceptedFeatures'[s] \in Seq(Feature) /\ acceptedFeatures[s] \in Seq(Feature)
  BY TypeStep DEF Inv, TypeOK, Next, Session
<1>5. Len(acceptedFeatures[s]) \in Nat /\ Len(acceptedFeatures'[s]) \in Nat /\ Len(Required) \in Nat
      /\ Remaining(s) > 0
  BY <1>1, <1>4 DEF Answered, Remaining
<1>6. CASE a = RecogSessionCompleted
  <2>1. Remaining(s) = 1 /\ Remaining(s)' = 0
    BY <1>1, <1>5, <1>6 DEF Answered, Remaining, RecogSessionCompleted, RecogSessionAccepted,
       RecogSessionRejected
  <2>2. Promise(s)!Complete(r)
    BY <1>2, <1>3, <1>5, <1>6, <2>1 DEF Promise!Complete, Promise!Answer, Promise!Completed,
       Remaining, Open, AnswersOf, RecogSessionCompleted
  <2> QED
    BY <2>2 DEF Promise!Next
<1>7. CASE a = RecogSessionAccepted
  <2>0. /\ Len(acceptedFeatures'[s]) = Len(acceptedFeatures[s]) + 1
        /\ Len(acceptedFeatures'[s]) < Len(Required)
    BY <1>1, <1>7 DEF Answered, RecogSessionCompleted, RecogSessionAccepted,
       RecogSessionRejected
  <2>1. Remaining(s) > 1 /\ Remaining(s)' = Remaining(s) - 1
    BY <1>5, <2>0 DEF Remaining
  <2>2. Promise(s)!Accept(r)
    BY <1>2, <1>3, <1>5, <1>7, <2>1 DEF Promise!Accept, Promise!Answer, Promise!Accepted,
       Remaining, Open, AnswersOf, RecogSessionAccepted
  <2> QED
    BY <2>2 DEF Promise!Next
<1>8. CASE a = RecogSessionRejected
  <2>1. Remaining(s)' = Remaining(s)
    BY <1>1, <1>8 DEF Answered, Remaining, RecogSessionCompleted, RecogSessionAccepted,
       RecogSessionRejected
  <2>2. Promise(s)!Reject(r)
    BY <1>2, <1>3, <1>5, <1>8, <2>1 DEF Promise!Reject, Promise!Answer, Promise!Rejected,
       Remaining, Open, AnswersOf, RecogSessionRejected
  <2> QED
    BY <2>2 DEF Promise!Next
<1> QED
  BY <1>6, <1>7, <1>8 DEF Answers

\* A session that expires or is stopped closes, if it was open.
LEMMA PromiseClose ==
    ASSUME Inv, NEW s \in Sessions, Stop(s) \/ StateTimeout(s)
    PROVE  [Promise(s)!Next]_(Promise(s)!vars)
<1>1. /\ acceptedFeatures'[s] = acceptedFeatures[s] /\ AnswersOf(s)' = AnswersOf(s)
      /\ ~Open(s)'
  BY DEF Inv, TypeOK, Stop, StateTimeout, Goto, clientVars, AnswersOf, Open
<1>2. CASE Open(s)
  <2>1. Promise(s)!Close
    BY <1>1, <1>2 DEF Promise!Close, Open, AnswersOf
  <2> QED
    BY <2>1 DEF Promise!Next
<1>3. CASE ~Open(s)
  BY <1>1, <1>3, PromiseStutter
<1> QED
  BY <1>2, <1>3

\* Every step is a step of the promise of each session, or a stutter.
LEMMA PromiseStep ==
    ASSUME Inv, [Next]_vars, NEW t \in Sessions
    PROVE  [Promise(t)!Next]_(Promise(t)!vars)
<1>1. ASSUME NEW s \in Sessions, HandleResult(s)
      PROVE  [Promise(t)!Next]_(Promise(t)!vars)
  <2>1. CASE s = t
    BY <1>1, <2>1, PromiseAnswer
  <2>2. CASE s # t
    <3>1. PICK r \in Requests, a \in Answers : Answered(s, r, a)
      BY <1>1, ResultAnswered
    <3>2. /\ acceptedFeatures'[t] = acceptedFeatures[t] /\ life' = life
          /\ state'[t] = state[t] /\ target' = target
      BY <1>1, <2>2 DEF Inv, TypeOK, HandleResult, Goto
    <3>3. AnswersOf(t)' = AnswersOf(t)
      BY <2>2, <3>1, <3>2 DEF Answered, AnswersOf, Inv, TypeOK
    <3> QED
      BY <3>2, <3>3, PromiseStutter DEF Open
  <2> QED
    BY <2>1, <2>2
<1>2. ASSUME NEW s \in Sessions, Stop(s) \/ StateTimeout(s)
      PROVE  [Promise(t)!Next]_(Promise(t)!vars)
  <2>1. CASE s = t
    BY <1>2, <2>1, PromiseClose
  <2>2. CASE s # t
    <3>1. /\ acceptedFeatures'[t] = acceptedFeatures[t] /\ life'[t] = life[t]
          /\ state'[t] = state[t] /\ AnswersOf(t)' = AnswersOf(t)
      BY <1>2, <2>2 DEF Inv, TypeOK, Stop, StateTimeout, Goto, clientVars, AnswersOf
    <3> QED
      BY <3>1, PromiseStutter DEF Open
  <2> QED
    BY <2>1, <2>2
<1>3. ASSUME NEW s \in Sessions,
             \/ Begin(s) \/ KillActiveSession(s) \/ Start(s) \/ Configure(s)
             \/ HandleImage(s) \/ Unhandled(s)
      PROVE  [Promise(t)!Next]_(Promise(t)!vars)
  <2>1. AnswersOf(t)' = AnswersOf(t)
    BY <1>3 DEF Begin, KillActiveSession, Start, Configure, HandleImage, Unhandled, clientVars,
       AnswersOf
  <2>2. StateOK(s)
    BY DEF Inv, SessionInv
  <2>3. acceptedFeatures'[t] = acceptedFeatures[t]
    BY <1>3, <2>2 DEF Inv, TypeOK, Begin, KillActiveSession, Start, Configure, HandleImage,
       Unhandled, StateOK
  <2>4. Open(t)' <=> Open(t)
    BY <1>3 DEF Inv, TypeOK, Begin, KillActiveSession, Start, Configure, HandleImage, Unhandled,
       Goto, Open, Idle, WaitingForMoreImages, WaitingForImageResult, Aborted
  <2> QED
    BY <2>1, <2>3, <2>4, PromiseStutter
<1>4. ASSUME NEW r \in Requests, NEW s \in Sessions, PostImage(r, s)
      PROVE  [Promise(t)!Next]_(Promise(t)!vars)
  <2>1. RequestOK(r)
    BY DEF Inv, RequestInv
  <2>2. AnswersOf(t)' = AnswersOf(t)
    BY <1>4, <2>1 DEF PostImage, RequestOK, AnswersOf, Inv, TypeOK
  <2> QED
    BY <1>4, <2>2, PromiseStutter DEF PostImage, sessionVars, Open
<1>5. CASE \/ \E r \in Requests : AskExpires(r) \/ ProcessImage(r)
           \/ \E r \in Requests, how \in Verdicts : RpcEnds(r, how)
           \/ FindActiveSessions
           \/ UNCHANGED vars
  <2>1. /\ acceptedFeatures' = acceptedFeatures /\ life' = life /\ state' = state
        /\ target' = target /\ answer' = answer
    BY <1>5 DEF AskExpires, ProcessImage, RpcEnds, FindActiveSessions, vars, sessionVars, clientVars
  <2> QED
    BY <2>1, PromiseStutter DEF Open, AnswersOf
<1> QED
  BY <1>1, <1>2, <1>3, <1>4, <1>5 DEF Next, Client, Coordinator, Session

\* Sessions do not disturb one another: each keeps RecogPromise with the
\* requests made to it (instance.scala, coordinator.scala:31-47).
THEOREM SessionsPromiseKept == Spec => SessionsKeepPromise
<1>1. Inv /\ [Next]_vars => [\A s \in Sessions : [Promise(s)!Next]_(Promise(s)!vars)]_vars
  BY PromiseStep
<1> QED
  BY <1>1, PromiseInit, Invariance, PTL DEF Spec, SessionsKeepPromise

=============================================================================
