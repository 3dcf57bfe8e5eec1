------------------------ MODULE RecogSession_proofs ------------------------
(***************************************************************************)
(* Proofs about RecogSession, for any requests, features and timeouts.     *)
(***************************************************************************)
EXTENDS RecogSession, FiniteSetTheorems, TLAPS

USE RequiredAssumption, NoRequestAssumption, TimeoutAssumption DEF RequiredAssumption, NoRequestAssumption, TimeoutAssumption

\* The empty sequence is a sequence over any set.
LEMMA EmptySequence == \A S : <<>> \in Seq(S)
  OBVIOUS

\* Every variable starts with its type.
LEMMA TypeInit == Init => TypeOK
<1> SUFFICES ASSUME Init PROVE TypeOK
  OBVIOUS
<1>1. acceptedFeatures \in Seq(Feature) /\ mailbox \in Seq(Message)
  BY EmptySequence DEF Init
<1>2. answer \in [Requests -> Seq(Answers)]
  BY EmptySequence DEF Init
<1>3. verdict \in [Requests -> SUBSET Verdicts]
  BY DEF Init
<1>4. rpcAge \in [Requests -> 0..AskTimeout] /\ idle \in 0..(StartTimeout + StepTimeout)
  BY DEF Init
<1> QED
  BY <1>1, <1>2, <1>3, <1>4 DEF Init, TypeOK, RecogSessionState

\* What the coordinator, the clients and the futures send are Messages.
LEMMA MessagesAreMessages ==
    /\ Configuration \in Message
    /\ Kill \in Message
    /\ \A r \in Requests : Image(r) \in Message
    /\ \A r \in Requests, ok \in BOOLEAN : SenderResult(r, ok) \in Message
  BY DEF Configuration, Kill, Image, SenderResult, Message

\* What taking a message off the mailbox does to the types.
LEMMA ReceiveTyped ==
    ASSUME TypeOK, NEW kind, Receive(kind)
    PROVE  /\ Head(mailbox) \in Message
           /\ mailbox' \in Seq(Message)
           /\ idle' \in 0..(StartTimeout + StepTimeout)
           /\ kind \in {"Image", "SenderResult"} => Head(mailbox).sender \in Requests
<1>1. Head(mailbox) \in Message /\ Head(mailbox).kind = kind
  BY DEF TypeOK, Receive
<1>2. mailbox' \in Seq(Message)
  BY DEF TypeOK, Receive
<1>3. kind \in {"Image", "SenderResult"} => Head(mailbox).sender \in Requests
  BY <1>1 DEF Message
<1>4. idle' \in 0..(StartTimeout + StepTimeout)
  BY DEF Receive
<1> QED
  BY <1>1, <1>2, <1>3, <1>4

\* An answer to a client keeps the type of answer.
LEMMA ReplyTyped ==
    ASSUME TypeOK, NEW r \in Requests, NEW a \in Answers, Reply(r, a)
    PROVE  answer' \in [Requests -> Seq(Answers)]
  BY DEF TypeOK, Reply

\* The feature that a positive result adds is a Feature.
LEMMA WithResultTyped ==
    ASSUME TypeOK
    PROVE  WithResult(acceptedFeatures) \in Seq(Feature)
  BY DEF TypeOK, WithResult, RequiredFeature

\* Every step keeps the types.
LEMMA TypeNext == TypeOK /\ [Next]_vars => TypeOK'
<1> SUFFICES ASSUME TypeOK, [Next]_vars
             PROVE  TypeOK'
  OBVIOUS
<1> USE DEF TypeOK
<1>1. CASE Start
  BY <1>1 DEF Start
<1>2. CASE StartFails
  BY <1>2 DEF StartFails, Stop
<1>3. CASE Configure
  BY <1>3, EmptySequence DEF Configure, Receive, RecogSessionState, WaitingForMoreImages
<1>4. CASE HandleImage
  <2> DEFINE realSender == Head(mailbox).sender
  <2>1. Receive("Image") /\ realSender \in Requests
    BY <1>4, ReceiveTyped DEF HandleImage
  <2>2. rpcs' \in SUBSET Requests /\ rpcAge' \in [Requests -> 0..AskTimeout]
    BY <1>4, <2>1 DEF HandleImage
  <2> QED
    BY <1>4, <2>1, <2>2, ReceiveTyped DEF HandleImage, RecogSessionState
<1>5. CASE HandleAcceptedResult
  <2>1. Receive("SenderResult") /\ Head(mailbox).sender \in Requests
    BY <1>5, ReceiveTyped DEF HandleAcceptedResult
  <2>2. answer' \in [Requests -> Seq(Answers)]
    BY <1>5, <2>1, ReplyTyped DEF HandleAcceptedResult, Answers
  <2>3. acceptedFeatures' \in Seq(Feature)
    BY <1>5, WithResultTyped DEF HandleAcceptedResult
  <2>4. state' \in RecogSessionState
    BY <1>5 DEF HandleAcceptedResult, RecogSessionState
  <2> QED
    BY <1>5, <2>1, <2>2, <2>3, <2>4, ReceiveTyped DEF HandleAcceptedResult
<1>6. CASE HandleRejectedResult
  <2>1. Receive("SenderResult") /\ Head(mailbox).sender \in Requests
    BY <1>6, ReceiveTyped DEF HandleRejectedResult
  <2>2. answer' \in [Requests -> Seq(Answers)]
    BY <1>6, <2>1, ReplyTyped DEF HandleRejectedResult, Answers
  <2> QED
    BY <1>6, <2>1, <2>2, ReceiveTyped DEF HandleRejectedResult, RecogSessionState
<1>7. CASE Unhandled
  BY <1>7 DEF Unhandled, Receive
<1>8. CASE HandleKill
  BY <1>8 DEF HandleKill, Stop
<1>9. CASE StateTimeout
  BY <1>9 DEF StateTimeout, RecogSessionState, Aborted
<1>10. ASSUME NEW r \in Requests, RpcAnswers(r) \/ RpcFails(r)
       PROVE  TypeOK'
  <2>1. PICK how \in Verdicts : Complete(r, how)
    BY <1>10 DEF RpcAnswers, RpcFails, Verdicts
  <2>2. SenderResult(r, how = "accepted") \in Message
    BY MessagesAreMessages
  <2>3. mailbox' \in Seq(Message)
    BY <2>1, <2>2 DEF Complete, Send
  <2>4. verdict' \in [Requests -> SUBSET Verdicts]
    BY <2>1 DEF Complete
  <2> QED
    BY <2>1, <2>3, <2>4 DEF Complete
<1>11. ASSUME NEW r \in Requests, SubmitImage(r)
       PROVE  TypeOK'
  BY <1>11, MessagesAreMessages DEF SubmitImage, Send
<1>12. CASE SendConfiguration
  BY <1>12, MessagesAreMessages DEF SendConfiguration, Send
<1>13. CASE SendKill
  BY <1>13, MessagesAreMessages DEF SendKill, Send
<1>14. CASE Tick
  BY <1>14 DEF Tick
<1>15. CASE UNCHANGED vars
  BY <1>15 DEF vars
<1> QED
  BY <1>1, <1>2, <1>3, <1>4, <1>5, <1>6, <1>7, <1>8, <1>9, <1>10, <1>11,
     <1>12, <1>13, <1>14, <1>15 DEF Next, Actor

\* Every variable has its type in every reachable state.
THEOREM TypeCorrect == Spec => []TypeOK
<1>1. Init => TypeOK
  BY TypeInit
<1>2. TypeOK /\ [Next]_vars => TypeOK'
  BY TypeNext
<1> QED
  BY <1>1, <1>2, PTL DEF Spec

-----------------------------------------------------------------------------
(* The inductive invariant.                                                *)

\* The elements of a tail, by their positions in the whole sequence.
LEMMA TailFacts ==
    ASSUME NEW S, NEW q \in Seq(S), q # <<>>
    PROVE  /\ DOMAIN q = 1..Len(q) /\ 1 \in DOMAIN q
           /\ Head(q) = q[1]
           /\ DOMAIN Tail(q) = 1..(Len(q) - 1)
           /\ \A i \in DOMAIN Tail(q) : i + 1 \in DOMAIN q /\ Tail(q)[i] = q[i + 1]
           /\ \A i \in DOMAIN q :
                 i = 1 \/ \E j \in DOMAIN Tail(q) : Tail(q)[j] = q[i]
<1>1. /\ DOMAIN q = 1..Len(q) /\ 1 \in DOMAIN q
      /\ Head(q) = q[1]
      /\ DOMAIN Tail(q) = 1..(Len(q) - 1)
      /\ \A i \in DOMAIN Tail(q) : i + 1 \in DOMAIN q /\ Tail(q)[i] = q[i + 1]
  OBVIOUS
<1>2. ASSUME NEW i \in DOMAIN q, i # 1
      PROVE  \E j \in DOMAIN Tail(q) : Tail(q)[j] = q[i]
  <2>1. i \in 1..Len(q) /\ Len(q) \in Nat
    BY <1>1, <1>2
  <2>2. i - 1 \in 1..(Len(q) - 1) /\ (i - 1) + 1 = i
    BY <1>2, <2>1
  <2> QED
    BY <1>1, <2>2
<1> QED
  BY <1>1, <1>2

\* The elements of a sequence with one more at its end.
LEMMA AppendFacts ==
    ASSUME NEW S, NEW q \in Seq(S), NEW m
    PROVE  /\ DOMAIN q = 1..Len(q)
           /\ DOMAIN Append(q, m) = 1..(Len(q) + 1)
           /\ \A i \in DOMAIN Append(q, m) :
                 \/ i \in DOMAIN q /\ Append(q, m)[i] = q[i]
                 \/ i \notin DOMAIN q /\ i = Len(q) + 1 /\ Append(q, m)[i] = m
           /\ \A i \in DOMAIN q : i \in DOMAIN Append(q, m) /\ Append(q, m)[i] = q[i]
  OBVIOUS

\* The invariant holds of a session that is being constructed.
LEMMA InitInv == Init => Inv
  BY TypeInit DEF Init, Inv, MailboxInv, RequestInv, ExaminationInv, StateInv,
     Positions, Idle, WaitingForImageResult, WaitingForMoreImages, Aborted

\* Taking a message off the mailbox leaves the others as they are.
LEMMA ReceiveInv ==
    ASSUME TypeOK, NEW kind, Receive(kind)
    PROVE  /\ 1 \in Positions /\ Head(mailbox) = mailbox[1]
           /\ mailbox[1].kind = kind
           /\ \A i \in Positions' : /\ i \in Nat /\ i + 1 \in Positions
                                    /\ mailbox'[i] = mailbox[i + 1]
           /\ \A i \in Positions : i = 1 \/ \E j \in Positions' : mailbox'[j] = mailbox[i]
<1>1. mailbox \in Seq(Message) /\ mailbox # <<>> /\ mailbox' = Tail(mailbox)
  BY DEF TypeOK, Receive
<1>2. Head(mailbox).kind = kind
  BY DEF Receive
<1> QED
  BY <1>1, <1>2, TailFacts DEF Positions

\* A step that changes what is known of no request but r leaves a waiting
\* message of another request, or of none, as good as it was.
LEMMA KnownElsewhere ==
    ASSUME NEW m \in Message, Known(m), NEW r,
           CarriesRequest(m) => m.sender # r,
           sent \subseteq sent', rpcs' \subseteq rpcs \cup {r},
           \A q \in Requests \ {r} : verdict'[q] = verdict[q] /\ answer'[q] = answer[q]
    PROVE  Known(m)'
<1>1. CarriesRequest(m) => m.sender \in Requests \ {r}
  BY DEF CarriesRequest, Message
<1> QED
  BY <1>1 DEF Known, CarriesRequest

\* After a message is taken the others still have one place each.
LEMMA MailboxAfterReceive ==
    ASSUME Inv, NEW kind, Receive(kind), NEW r,
           CarriesRequest(Head(mailbox)) => r = Head(mailbox).sender,
           ~CarriesRequest(Head(mailbox)) => r = NoRequest,
           sent' = sent, rpcs' \subseteq rpcs \cup {r},
           \A q \in Requests \ {r} : verdict'[q] = verdict[q] /\ answer'[q] = answer[q]
    PROVE  MailboxInv'
<1>1. /\ 1 \in Positions /\ Head(mailbox) = mailbox[1]
      /\ \A i \in Positions' : /\ i \in Nat /\ i # 0 /\ i + 1 \in Positions
                               /\ mailbox'[i] = mailbox[i + 1]
  <2>1. \A i \in Positions' : i # 0
    BY DEF Inv, TypeOK, Receive, Positions
  <2> QED
    BY <2>1, ReceiveInv DEF Inv
<1>2. ASSUME NEW i \in Positions'
      PROVE  Known(mailbox[i])'
  <2>1. mailbox[i + 1] \in Message /\ Known(mailbox[i + 1])
    BY <1>1 DEF Inv, TypeOK, MailboxInv, Positions
  <2>2. CarriesRequest(mailbox[i + 1]) => mailbox[i + 1].sender # r
    <3>1. i + 1 # 1
      BY <1>1
    <3>2. CarriesRequest(mailbox[i + 1]) => mailbox[i + 1].sender # NoRequest
      BY <2>1 DEF CarriesRequest, Message
    <3> QED
      BY <1>1, <3>1, <3>2 DEF Inv, MailboxInv
  <2> QED
    BY <1>1, <2>1, <2>2, KnownElsewhere DEF Known, CarriesRequest
<1>3. ASSUME NEW i \in Positions', NEW j \in Positions',
             CarriesRequest(mailbox[i])', CarriesRequest(mailbox[j])',
             (mailbox[i].sender = mailbox[j].sender)'
      PROVE  i = j
  <2>1. i + 1 = j + 1
    BY <1>1, <1>3 DEF Inv, MailboxInv, CarriesRequest
  <2> QED
    BY <1>1, <2>1
<1> QED
  BY <1>2, <1>3 DEF MailboxInv

\* A message sent to the session: about a request that has no other place.
LEMMA MailboxAfterSend ==
    ASSUME Inv, NEW m \in Message, Send(m), NEW r,
           CarriesRequest(m) => m.sender = r,
           \A i \in Positions : CarriesRequest(mailbox[i]) => mailbox[i].sender # r,
           sent \subseteq sent', rpcs' \subseteq rpcs,
           \A q \in Requests \ {r} : verdict'[q] = verdict[q] /\ answer'[q] = answer[q],
           life = "stopped" \/ Known(m)'
    PROVE  MailboxInv'
<1>1. \A i \in Positions' :
          \/ i \in Positions /\ mailbox'[i] = mailbox[i]
          \/ i = Len(mailbox) + 1 /\ mailbox'[i] = m /\ life # "stopped"
  BY AppendFacts DEF Inv, TypeOK, Send, Positions
<1>2. ASSUME NEW i \in Positions'
      PROVE  Known(mailbox[i])'
  <2>1. CASE i \in Positions /\ mailbox'[i] = mailbox[i]
    <3>1. mailbox[i] \in Message /\ Known(mailbox[i])
      BY <2>1 DEF Inv, TypeOK, MailboxInv, Positions
    <3>2. CarriesRequest(mailbox[i]) => mailbox[i].sender \in Requests \ {r}
      BY <2>1, <3>1 DEF CarriesRequest, Message
    <3> QED
      BY <2>1, <3>1, <3>2 DEF Known, CarriesRequest
  <2>2. CASE mailbox'[i] = m /\ life # "stopped"
    BY <2>2 DEF Known, CarriesRequest
  <2> QED
    BY <1>1, <2>1, <2>2
<1>3. ASSUME NEW i \in Positions', NEW j \in Positions',
             CarriesRequest(mailbox[i])', CarriesRequest(mailbox[j])',
             (mailbox[i].sender = mailbox[j].sender)'
      PROVE  i = j
  BY <1>1, <1>3 DEF Inv, MailboxInv, CarriesRequest
<1> QED
  BY <1>2, <1>3 DEF MailboxInv

-----------------------------------------------------------------------------
(* Each action preserves the invariant.                                    *)

\* The constructor returns: the session is Idle with an empty mailbox.
LEMMA StartInv == Inv /\ Start => Inv'
<1> SUFFICES ASSUME Inv, Start PROVE Inv'
  OBVIOUS
<1>1. TypeOK'
  BY TypeNext DEF Inv, Next, Actor
<1>2. MailboxInv'
  BY DEF Inv, Start, MailboxInv, Positions, Known, CarriesRequest
<1>3. RequestInv' /\ StateInv'
  BY DEF Inv, Start, RequestInv, StateInv
<1>4. ExaminationInv'
  BY DEF Inv, TypeOK, Start, ExaminationInv, StateInv, Positions, Idle, WaitingForImageResult
<1> QED
  BY <1>1, <1>2, <1>3, <1>4 DEF Inv

\* A session that stops, by its constructor or a Kill, drops its mailbox.
LEMMA StopInv == Inv /\ (StartFails \/ HandleKill) => Inv'
<1> SUFFICES ASSUME Inv, StartFails \/ HandleKill PROVE Inv'
  OBVIOUS
<1>1. TypeOK' /\ Stop
  BY TypeNext DEF Inv, Next, Actor, StartFails, HandleKill
<1>2. Positions' = {}
  BY <1>1 DEF Stop, Positions
<1> QED
  BY <1>1, <1>2 DEF Inv, Stop, MailboxInv, RequestInv, ExaminationInv, StateInv

\* Taking the configuration: Idle -> WaitingForMoreImages.
LEMMA ConfigureInv == Inv /\ Configure => Inv'
<1> SUFFICES ASSUME Inv, Configure PROVE Inv'
  OBVIOUS
<1>1. TypeOK' /\ Receive("SessionConfiguration")
  BY TypeNext DEF Inv, Next, Actor, Configure
<1>2. MailboxInv'
  <2>1. ~CarriesRequest(Head(mailbox))
    BY <1>1 DEF Receive, CarriesRequest
  <2> QED
    BY <1>1, <2>1, MailboxAfterReceive DEF Configure
<1>3. RequestInv'
  BY DEF Inv, Configure, RequestInv
<1>4. ExaminationInv'
  <2>1. life # "stopped" /\ state # WaitingForImageResult
    BY <1>1 DEF Configure, Receive, Idle, WaitingForImageResult
  <2>2. /\ \A i \in Positions : mailbox[i].kind # "SenderResult"
        /\ \A r \in rpcs : FALSE
    BY <2>1 DEF Inv, ExaminationInv
  <2>3. TypeOK
    BY DEF Inv
  <2>4. \A i \in Positions' : mailbox'[i].kind # "SenderResult"
    BY <1>1, <2>2, <2>3, ReceiveInv
  <2>5. rpcs' = rpcs /\ state' # WaitingForImageResult
    BY DEF Configure, WaitingForMoreImages, WaitingForImageResult
  <2> QED
    BY <2>2, <2>4, <2>5 DEF ExaminationInv
<1>5. StateInv'
  BY DEF Inv, TypeOK, Configure, Receive, StateInv, Idle, WaitingForMoreImages, WaitingForImageResult
<1> QED
  BY <1>1, <1>2, <1>3, <1>4, <1>5 DEF Inv

\* Sending an image to the recogniser: its request moves from the
\* mailbox to rpcs.
LEMMA HandleImageInv == Inv /\ HandleImage => Inv'
<1> SUFFICES ASSUME Inv, HandleImage PROVE Inv'
  OBVIOUS
<1> DEFINE r == Head(mailbox).sender
<1>1. TypeOK' /\ Receive("Image")
  BY TypeNext DEF Inv, Next, Actor, HandleImage
<1>2. /\ r \in sent \ rpcs /\ r \in Requests
      /\ verdict[r] = {} /\ answer[r] = <<>>
  <2>1. Known(Head(mailbox)) /\ Head(mailbox).kind = "Image"
    BY <1>1, ReceiveInv DEF Inv, MailboxInv
  <2>2. r \in Requests
    BY <1>1, ReceiveTyped DEF Inv
  <2> QED
    BY <2>1, <2>2 DEF Known, CarriesRequest
<1>3. life # "stopped" /\ rpcs = {} /\ rpcs' = {r} /\ idle' = 0
  BY <1>1 DEF Inv, HandleImage, Receive, ExaminationInv, WaitingForMoreImages, WaitingForImageResult
<1>4. \A i \in Positions' : mailbox'[i].kind # "SenderResult"
  BY <1>1, <1>3, ReceiveInv DEF Inv, HandleImage, ExaminationInv, WaitingForMoreImages, WaitingForImageResult
<1>5. MailboxInv'
  <2>1. CarriesRequest(Head(mailbox))
    BY <1>1 DEF Receive, CarriesRequest
  <2> QED
    BY <1>1, <1>3, <2>1, MailboxAfterReceive DEF HandleImage
<1>6. RequestInv'
  BY <1>2, <1>3 DEF Inv, HandleImage, RequestInv
<1>7. ExaminationInv'
  BY <1>1, <1>3, <1>4 DEF HandleImage, ExaminationInv, TypeOK
<1>8. StateInv'
  BY DEF Inv, HandleImage, Receive, StateInv, Idle, WaitingForMoreImages, WaitingForImageResult
<1> QED
  BY <1>1, <1>5, <1>6, <1>7, <1>8 DEF Inv

\* What a session knows when it takes a result off its mailbox.
LEMMA ResultTaken ==
    ASSUME Inv, Receive("SenderResult"), state = WaitingForImageResult
    PROVE  /\ Head(mailbox).sender \in Requests
           /\ Head(mailbox).sender \in sent
           /\ answer[Head(mailbox).sender] = <<>>
           /\ verdict[Head(mailbox).sender] \in
                 IF Head(mailbox).accepted THEN {{"accepted"}}
                                           ELSE {{"rejected"}, {"failed"}}
           /\ rpcs = {}
           /\ \A i \in Positions' : mailbox'[i].kind # "SenderResult"
<1>1. /\ 1 \in Positions /\ Head(mailbox) = mailbox[1]
      /\ mailbox[1].kind = "SenderResult"
  BY ReceiveInv DEF Inv
<1>2. Known(mailbox[1]) /\ Head(mailbox).sender \in Requests
  BY <1>1, ReceiveTyped DEF Inv, MailboxInv
<1>3. life # "stopped"
  BY DEF Receive
<1>4. \A i \in Positions' : mailbox'[i].kind # "SenderResult"
  <2> SUFFICES ASSUME NEW i \in Positions', mailbox'[i].kind = "SenderResult"
               PROVE  FALSE
    OBVIOUS
  <2>1. i \in Nat /\ i # 0 /\ i + 1 \in Positions /\ mailbox[i + 1].kind = "SenderResult"
    <3>1. i # 0
      BY DEF Inv, TypeOK, Receive, Positions
    <3> QED
      BY <3>1, ReceiveInv DEF Inv
  <2>2. i + 1 = 1
    BY <1>1, <1>3, <2>1 DEF Inv, ExaminationInv
  <2> QED
    BY <2>1, <2>2
<1> QED
  BY <1>1, <1>2, <1>3, <1>4 DEF Inv, ExaminationInv, Known, CarriesRequest

\* The features a positive result leaves the session with.
LEMMA FeaturesAfterResult ==
    ASSUME Inv, state = WaitingForImageResult
    PROVE  /\ Len(acceptedFeatures) \in Nat /\ Len(Required) \in Nat
           /\ Len(acceptedFeatures) < Len(Required)
           /\ Len(WithResult(acceptedFeatures)) = Len(acceptedFeatures) + 1
<1>1. Len(acceptedFeatures) < Len(Required)
  BY DEF Inv, StateInv
<1> QED
  BY <1>1 DEF Inv, TypeOK, WithResult

\* A positive result is answered, and one feature is added.
LEMMA HandleAcceptedResultInv == Inv /\ HandleAcceptedResult => Inv'
<1> SUFFICES ASSUME Inv, HandleAcceptedResult PROVE Inv'
  OBVIOUS
<1> DEFINE r == Head(mailbox).sender
<1>1. /\ TypeOK' /\ Receive("SenderResult") /\ state = WaitingForImageResult
      /\ active
  BY TypeNext DEF Inv, Next, Actor, HandleAcceptedResult
<1>2. /\ r \in Requests /\ r \in sent /\ rpcs = {}
      /\ answer[r] = <<>> /\ verdict[r] = {"accepted"}
      /\ \A i \in Positions' : mailbox'[i].kind # "SenderResult"
  BY <1>1, ResultTaken DEF HandleAcceptedResult
<1>3. PICK a \in {RecogSessionAccepted, RecogSessionCompleted} : Reply(r, a)
  BY DEF HandleAcceptedResult
<1>4. /\ answer'[r] = <<a>>
      /\ \A q \in Requests \ {r} : answer'[q] = answer[q]
  BY <1>2, <1>3 DEF Inv, TypeOK, Reply
<1>5. MailboxInv'
  <2>1. CarriesRequest(Head(mailbox))
    BY <1>1 DEF Receive, CarriesRequest
  <2> QED
    BY <1>1, <1>4, <2>1, MailboxAfterReceive DEF HandleAcceptedResult
<1>6. RequestInv'
  BY <1>2, <1>4 DEF Inv, HandleAcceptedResult, RequestInv
<1>7. state' \in {Completed, WaitingForMoreImages}
  BY DEF HandleAcceptedResult
<1>8. ExaminationInv'
  BY <1>2, <1>7 DEF HandleAcceptedResult, ExaminationInv, Completed,
     WaitingForMoreImages, WaitingForImageResult
<1>9. StateInv'
  <2>1. /\ Len(acceptedFeatures') <= Len(Required)
        /\ Len(acceptedFeatures') # Len(Required) => Len(acceptedFeatures') < Len(Required)
    BY <1>1, FeaturesAfterResult DEF HandleAcceptedResult
  <2>2. state' = Completed \/ Len(acceptedFeatures') # Len(Required)
    BY DEF HandleAcceptedResult, IsCompleted
  <2>3. life' # "starting" /\ active'
    BY <1>1 DEF HandleAcceptedResult, Receive
  <2> QED
    BY <1>7, <2>1, <2>2, <2>3 DEF StateInv, Idle, Completed, WaitingForMoreImages,
       WaitingForImageResult
<1> QED
  BY <1>1, <1>5, <1>6, <1>8, <1>9 DEF Inv

\* A negative result is answered; the features stay as they are.
LEMMA HandleRejectedResultInv == Inv /\ HandleRejectedResult => Inv'
<1> SUFFICES ASSUME Inv, HandleRejectedResult PROVE Inv'
  OBVIOUS
<1> DEFINE r == Head(mailbox).sender
<1>1. /\ TypeOK' /\ Receive("SenderResult") /\ state = WaitingForImageResult
      /\ active
  BY TypeNext DEF Inv, Next, Actor, HandleRejectedResult
<1>2. /\ r \in Requests /\ r \in sent /\ rpcs = {}
      /\ answer[r] = <<>> /\ verdict[r] \in {{"rejected"}, {"failed"}}
      /\ \A i \in Positions' : mailbox'[i].kind # "SenderResult"
  BY <1>1, ResultTaken DEF HandleRejectedResult
<1>4. /\ answer'[r] = <<RecogSessionRejected>>
      /\ \A q \in Requests \ {r} : answer'[q] = answer[q]
  BY <1>2 DEF Inv, TypeOK, Reply, HandleRejectedResult
<1>5. MailboxInv'
  <2>1. CarriesRequest(Head(mailbox))
    BY <1>1 DEF Receive, CarriesRequest
  <2> QED
    BY <1>1, <1>4, <2>1, MailboxAfterReceive DEF HandleRejectedResult
<1>6. RequestInv'
  BY <1>2, <1>4 DEF Inv, HandleRejectedResult, RequestInv
<1>8. ExaminationInv'
  BY <1>2 DEF HandleRejectedResult, ExaminationInv, WaitingForMoreImages,
     WaitingForImageResult
<1>9. StateInv'
  BY <1>1 DEF Inv, StateInv, HandleRejectedResult, Receive, Idle, WaitingForMoreImages,
     WaitingForImageResult
<1> QED
  BY <1>1, <1>5, <1>6, <1>8, <1>9 DEF Inv

\* A message that no case takes is dropped; it is never a result.
LEMMA UnhandledInv == Inv /\ Unhandled => Inv'
<1> SUFFICES ASSUME Inv, Unhandled PROVE Inv'
  OBVIOUS
<1>1. TypeOK'
  BY TypeNext DEF Inv, Next, Actor
<1>2. PICK kind \in {"SessionConfiguration", "Image", "SenderResult"} : Receive(kind)
  BY DEF Unhandled
<1>3. MailboxInv'
  <2>1. CASE CarriesRequest(Head(mailbox))
    BY <1>2, <2>1, MailboxAfterReceive DEF Unhandled
  <2>2. CASE ~CarriesRequest(Head(mailbox))
    BY <1>2, <2>2, MailboxAfterReceive DEF Unhandled
  <2> QED
    BY <2>1, <2>2
<1>4. RequestInv' /\ StateInv'
  BY DEF Inv, Unhandled, RequestInv, StateInv
<1>5. kind # "SenderResult"
  \* A result is only there in WaitingForImageResult, which handles it.
  <2>1. mailbox[1].kind = kind /\ 1 \in Positions /\ Head(mailbox) = mailbox[1]
           /\ life # "stopped"
    BY <1>2, ReceiveInv DEF Inv, Receive
  <2>2. kind = "SenderResult" => state = WaitingForImageResult /\ active
    BY <2>1 DEF Inv, ExaminationInv, StateInv, WaitingForImageResult, Idle, Aborted
  <2> QED
    BY <2>1, <2>2 DEF Unhandled, Handled
<1>6. ExaminationInv'
  <2>1. /\ \A i \in Positions' : i \in Nat /\ i + 1 \in Positions /\ mailbox'[i] = mailbox[i + 1]
        /\ \A i \in Positions : i = 1 \/ \E j \in Positions' : mailbox'[j] = mailbox[i]
        /\ mailbox[1].kind # "SenderResult"
        /\ life # "stopped" /\ idle' = 0
    <3>1. TypeOK /\ life # "stopped" /\ idle' = 0
      BY <1>2 DEF Inv, Receive
    <3>2. mailbox[1].kind # "SenderResult"
      BY <1>2, <1>5, <3>1, ReceiveInv
    <3>3. \A i \in Positions' : i \in Nat /\ i + 1 \in Positions /\ mailbox'[i] = mailbox[i + 1]
      BY <1>2, <3>1, ReceiveInv
    <3>4. \A i \in Positions : i = 1 \/ \E j \in Positions' : mailbox'[j] = mailbox[i]
      BY <1>2, <3>1, ReceiveInv
    <3> QED
      BY <3>1, <3>2, <3>3, <3>4
  <2>2. \A i, j \in Positions' : mailbox'[i].kind = "SenderResult" =>
             /\ state = WaitingForImageResult
             /\ rpcs = {}
             /\ mailbox'[j].kind = "SenderResult" => i + 1 = j + 1
    BY <2>1 DEF Inv, ExaminationInv
  <2>3. \A i, j \in Positions' : i + 1 = j + 1 => i = j
    BY <2>1
  <2>4. state = WaitingForImageResult =>
             rpcs # {} \/ \E i \in Positions' : mailbox'[i].kind = "SenderResult"
    BY <2>1 DEF Inv, ExaminationInv
  <2>5. \A q \in rpcs : state = WaitingForImageResult /\ rpcs = {q} /\ 0 <= rpcAge[q]
    BY <2>1 DEF Inv, TypeOK, ExaminationInv
  <2>6. UNCHANGED <<life, state, rpcs, rpcAge>>
    BY DEF Unhandled
  <2>7. \A i, j \in Positions' : mailbox'[i].kind = "SenderResult" =>
             /\ state = WaitingForImageResult
             /\ rpcs = {}
             /\ mailbox'[j].kind = "SenderResult" => i = j
    BY <2>2, <2>3
  <2> QED
    BY <2>1, <2>4, <2>5, <2>6, <2>7 DEF ExaminationInv
<1> QED
  BY <1>1, <1>3, <1>4, <1>6 DEF Inv

\* The step timeout finds no image under examination: its request would have
\* been outstanding for at least as long, and no ask lasts that long.
LEMMA NoTimeoutInExamination ==
    ASSUME Inv, StateTimeout
    PROVE  state # WaitingForImageResult
<1> SUFFICES ASSUME state = WaitingForImageResult PROVE FALSE
  OBVIOUS
<1>1. life # "stopped" /\ Positions = {}
  BY DEF StateTimeout, Positions
<1>2. PICK r \in rpcs : idle <= rpcAge[r]
  BY <1>1 DEF Inv, ExaminationInv
<1>3. idle >= StepTimeout
  BY DEF StateTimeout, Timeout, Idle, WaitingForImageResult
<1>4. rpcAge[r] \in 0..AskTimeout /\ idle \in Nat
  BY DEF Inv, TypeOK
<1> QED
  BY <1>2, <1>3, <1>4

\* The state timeout finds nothing under examination.
LEMMA StateTimeoutInv == Inv /\ StateTimeout => Inv'
<1> SUFFICES ASSUME Inv, StateTimeout PROVE Inv'
  OBVIOUS
<1>1. TypeOK'
  BY TypeNext DEF Inv, Next, Actor
<1>2. MailboxInv' /\ RequestInv'
  BY DEF Inv, StateTimeout, MailboxInv, RequestInv, Positions, Known, CarriesRequest
<1>3. ExaminationInv'
  BY NoTimeoutInExamination DEF Inv, StateTimeout, ExaminationInv, Positions,
     Aborted, WaitingForImageResult
<1>4. StateInv'
  BY DEF Inv, StateTimeout, StateInv, Idle, Aborted, WaitingForMoreImages,
     WaitingForImageResult
<1> QED
  BY <1>1, <1>2, <1>3, <1>4 DEF Inv

\* A future ends: its request moves from rpcs to the mailbox.
LEMMA CompleteInv ==
    ASSUME Inv, NEW r \in Requests, RpcAnswers(r) \/ RpcFails(r)
    PROVE  Inv'
<1>1. PICK how \in Verdicts : Complete(r, how)
  BY DEF RpcAnswers, RpcFails, Verdicts
<1> DEFINE m == SenderResult(r, how = "accepted")
<1>2. TypeOK'
  BY TypeNext DEF Inv, Next
<1>3. /\ r \in rpcs /\ r \in sent /\ verdict[r] = {} /\ answer[r] = <<>>
      /\ rpcs' = rpcs \ {r}
  BY <1>1 DEF Inv, RequestInv, Complete
<1>4. /\ verdict'[r] = {how} /\ answer' = answer
      /\ \A q \in Requests \ {r} : verdict'[q] = verdict[q]
  BY <1>1, <1>3 DEF Inv, TypeOK, Complete
<1>5. \A i \in Positions : CarriesRequest(mailbox[i]) => mailbox[i].sender # r
  BY <1>3 DEF Inv, MailboxInv, Known
<1>6. /\ m \in Message /\ m.sender = r /\ m.kind = "SenderResult"
      /\ m.accepted = (how = "accepted")
  BY MessagesAreMessages DEF SenderResult
<1>7. Known(m)'
  <2>1. sent' = sent
    BY <1>1 DEF Complete
  <2>2. CASE how = "accepted"
    <3>1. m.accepted = TRUE
      BY <1>6, <2>2
    <3> QED
      BY <1>3, <1>4, <1>6, <2>1, <2>2, <3>1 DEF Known
  <2>3. CASE how # "accepted"
    <3>1. m.accepted = FALSE
      BY <1>6, <2>3
    <3>2. {how} \in {{"rejected"}, {"failed"}}
      BY <2>3 DEF Verdicts
    <3> QED
      BY <1>3, <1>4, <1>6, <2>1, <3>1, <3>2 DEF Known
  <2> QED
    BY <2>2, <2>3
<1>8. MailboxInv'
  BY <1>1, <1>3, <1>4, <1>5, <1>6, <1>7, MailboxAfterSend DEF Complete
<1>9. RequestInv'
  BY <1>1, <1>3, <1>4 DEF Inv, Complete, RequestInv
<1>10. StateInv'
  BY <1>1 DEF Inv, Complete, StateInv
<1>11. ExaminationInv'
  <2> SUFFICES ASSUME life # "stopped" PROVE ExaminationInv'
    BY <1>1 DEF Complete, ExaminationInv
  <2>1. /\ state = WaitingForImageResult /\ rpcs' = {}
        /\ \A i \in Positions : mailbox[i].kind # "SenderResult"
    BY <1>3 DEF Inv, ExaminationInv
  <2>2. mailbox' = Append(mailbox, m) /\ mailbox \in Seq(Message)
    BY <1>1 DEF Complete, Send, Inv, TypeOK
  <2>3. \A i \in Positions' : mailbox'[i].kind = "SenderResult" => i = Len(mailbox) + 1
    BY <2>1, <2>2, AppendFacts DEF Positions
  <2>4. /\ Len(mailbox) + 1 \in Positions'
        /\ mailbox'[Len(mailbox) + 1].kind = "SenderResult"
    BY <1>6, <2>2 DEF Positions
  <2>5. UNCHANGED <<life, state>>
    BY <1>1 DEF Complete
  <2> QED
    BY <2>1, <2>3, <2>4, <2>5 DEF ExaminationInv
<1> QED
  BY <1>2, <1>8, <1>9, <1>10, <1>11 DEF Inv

\* A message other than a result leaves the examination as it is.
LEMMA ExaminationAfterSend ==
    ASSUME Inv, NEW m \in Message, m.kind # "SenderResult", Send(m),
           UNCHANGED <<life, state, rpcs, rpcAge, idle>>
    PROVE  ExaminationInv'
<1> SUFFICES ASSUME life # "stopped" PROVE ExaminationInv'
  BY DEF ExaminationInv
<1>1. mailbox' = Append(mailbox, m) /\ mailbox \in Seq(Message)
  BY DEF Send, Inv, TypeOK
<1>2. /\ \A i \in Positions' : mailbox'[i].kind = "SenderResult" =>
             i \in Positions /\ mailbox[i].kind = "SenderResult"
      /\ \A i \in Positions : i \in Positions' /\ mailbox'[i] = mailbox[i]
  BY <1>1, AppendFacts DEF Positions
<1> QED
  BY <1>2 DEF Inv, ExaminationInv

\* A client's image joins the mailbox; its request had no place.
LEMMA SubmitImageInv ==
    ASSUME Inv, NEW r \in Requests, SubmitImage(r)
    PROVE  Inv'
<1>1. TypeOK'
  BY TypeNext DEF Inv, Next
<1>2. Image(r) \in Message /\ Image(r).sender = r /\ Image(r).kind = "Image"
  BY MessagesAreMessages DEF Image
<1>3. /\ r \notin sent /\ r \notin rpcs /\ verdict[r] = {} /\ answer[r] = <<>>
      /\ sent' = sent \cup {r} /\ UNCHANGED <<rpcs, verdict, answer>>
  BY DEF Inv, RequestInv, SubmitImage
<1>4. \A i \in Positions : CarriesRequest(mailbox[i]) => mailbox[i].sender # r
  BY <1>3 DEF Inv, MailboxInv, Known
<1>5. Known(Image(r))'
  BY <1>2, <1>3 DEF Known
<1>6. MailboxInv'
  BY <1>2, <1>3, <1>4, <1>5, MailboxAfterSend DEF SubmitImage
<1>7. ExaminationInv'
  BY <1>2, ExaminationAfterSend DEF SubmitImage
<1>8. RequestInv' /\ StateInv'
  BY <1>3 DEF Inv, RequestInv, StateInv, SubmitImage
<1> QED
  BY <1>1, <1>6, <1>7, <1>8 DEF Inv

\* The coordinator's configuration and Kill carry no request.
LEMMA CoordinatorInv == Inv /\ (SendConfiguration \/ SendKill) => Inv'
<1> SUFFICES ASSUME Inv, SendConfiguration \/ SendKill PROVE Inv'
  OBVIOUS
<1>1. TypeOK'
  BY TypeNext DEF Inv, Next
<1>2. PICK m \in {Configuration, Kill} : Send(m)
  BY DEF SendConfiguration, SendKill
<1>3. m \in Message /\ ~CarriesRequest(m) /\ m.kind \notin {"Image", "SenderResult"}
  <2>1. Configuration.kind = "SessionConfiguration" /\ Kill.kind = "Kill"
    BY DEF Configuration, Kill
  <2> QED
    BY <1>2, <2>1, MessagesAreMessages DEF CarriesRequest
<1>4. UNCHANGED <<life, state, active, acceptedFeatures, sent, rpcs, rpcAge, idle,
                  verdict, answer>>
  BY DEF SendConfiguration, SendKill
<1>5. MailboxInv'
  <2>1. Known(m)'
    BY <1>3 DEF Known, CarriesRequest
  <2>2. \A i \in Positions : CarriesRequest(mailbox[i]) => mailbox[i].sender # NoRequest
    <3> TAKE i \in Positions
    <3>1. mailbox[i] \in Message
      BY DEF Inv, TypeOK, Positions
    <3> QED
      BY <3>1 DEF CarriesRequest, Message
  <2> QED
    BY <1>2, <1>3, <1>4, <2>1, <2>2, MailboxAfterSend
<1>6. ExaminationInv'
  BY <1>2, <1>3, <1>4, ExaminationAfterSend
<1>7. RequestInv' /\ StateInv'
  BY <1>4 DEF Inv, RequestInv, StateInv
<1> QED
  BY <1>1, <1>5, <1>6, <1>7 DEF Inv

\* The clock: idle never runs ahead of an outstanding ask's age.
LEMMA TickInv == Inv /\ Tick => Inv'
<1> SUFFICES ASSUME Inv, Tick PROVE Inv'
  OBVIOUS
<1>1. TypeOK'
  BY TypeNext DEF Inv, Next
<1>2. MailboxInv' /\ RequestInv' /\ StateInv'
  BY DEF Inv, Tick, MailboxInv, RequestInv, StateInv, Positions, Known, CarriesRequest
<1>3. \A r \in rpcs : idle <= rpcAge[r] => idle' <= rpcAge'[r]
  BY DEF Inv, TypeOK, Tick
<1>4. ExaminationInv'
  BY <1>3 DEF Inv, Tick, ExaminationInv, Positions
<1> QED
  BY <1>1, <1>2, <1>4 DEF Inv

\* Every step preserves the invariant.
LEMMA NextInv == Inv /\ [Next]_vars => Inv'
<1> SUFFICES ASSUME Inv, [Next]_vars PROVE Inv'
  OBVIOUS
<1>1. CASE UNCHANGED vars
  BY <1>1 DEF vars, Inv, TypeOK, MailboxInv, RequestInv, ExaminationInv, StateInv,
     Positions, Known, CarriesRequest
<1> QED
  BY <1>1, StartInv, StopInv, ConfigureInv, HandleImageInv, HandleAcceptedResultInv,
     HandleRejectedResultInv, UnhandledInv, StateTimeoutInv, CompleteInv,
     SubmitImageInv, CoordinatorInv, TickInv DEF Next, Actor

\* The inductive invariant holds in every reachable state.
THEOREM Invariance == Spec => []Inv
  BY InitInv, NextInv, PTL DEF Spec

-----------------------------------------------------------------------------
(* What follows from the invariant.                                        *)

\* A client is answered at most once, and with the verdict on its image.
THEOREM VerdictsAnswered == Spec => []AnswerIsTheVerdict
<1>1. Inv => AnswerIsTheVerdict
  <2> SUFFICES ASSUME Inv, NEW r \in Requests
               PROVE  /\ Len(answer[r]) <= 1
                      /\ RecogSessionRejected \in Range(answer[r]) =>
                            verdict[r] \in {{"rejected"}, {"failed"}}
                      /\ Range(answer[r]) \cap {RecogSessionAccepted, RecogSessionCompleted}
                            # {} => verdict[r] = {"accepted"}
    BY DEF AnswerIsTheVerdict
  <2>1. CASE answer[r] = <<>>
    BY <2>1 DEF Range
  <2>2. CASE /\ answer[r] = <<RecogSessionRejected>>
             /\ verdict[r] \in {{"rejected"}, {"failed"}}
    <3>1. Range(answer[r]) = {RecogSessionRejected} /\ Len(answer[r]) = 1
      BY <2>2 DEF Range
    <3> QED
      BY <2>2, <3>1 DEF RecogSessionRejected, RecogSessionAccepted, RecogSessionCompleted
  <2>3. ASSUME NEW a \in {RecogSessionAccepted, RecogSessionCompleted},
               answer[r] = <<a>>, verdict[r] = {"accepted"}
        PROVE  Len(answer[r]) <= 1 /\ RecogSessionRejected \notin Range(answer[r])
    <3>1. Range(answer[r]) = {a} /\ Len(answer[r]) = 1
      BY <2>3 DEF Range
    <3> QED
      BY <3>1 DEF RecogSessionRejected, RecogSessionAccepted, RecogSessionCompleted
  <2>4. \/ answer[r] = <<>>
        \/ /\ answer[r] = <<RecogSessionRejected>>
           /\ verdict[r] \in {{"rejected"}, {"failed"}}
        \/ /\ \E a \in {RecogSessionAccepted, RecogSessionCompleted} : answer[r] = <<a>>
           /\ verdict[r] = {"accepted"}
    BY DEF Inv, RequestInv
  <2> QED
    BY <2>1, <2>2, <2>3, <2>4
<1> QED
  BY <1>1, Invariance, PTL

\* One image at a time is examined, exactly in WaitingForImageResult.
THEOREM OneExamination == Spec => []OneImageAtATime
<1>1. Inv => OneImageAtATime
  <2> SUFFICES ASSUME Inv, life # "stopped"
               PROVE  IF state = WaitingForImageResult
                        THEN \E r \in Requests : rpcs \cup ResultsInMailbox = {r}
                        ELSE rpcs \cup ResultsInMailbox = {}
    BY DEF OneImageAtATime
  <2>1. CASE state # WaitingForImageResult
    BY <2>1 DEF Inv, ExaminationInv, ResultsInMailbox, Positions
  <2>2. CASE state = WaitingForImageResult /\ rpcs # {}
    <3>1. ResultsInMailbox = {}
      BY <2>2 DEF Inv, ExaminationInv, ResultsInMailbox, Positions
    <3>2. PICK r \in rpcs : rpcs = {r}
      BY <2>2 DEF Inv, ExaminationInv
    <3> QED
      BY <2>2, <3>1, <3>2 DEF Inv, TypeOK
  <2>3. CASE state = WaitingForImageResult /\ rpcs = {}
    <3>1. PICK i \in Positions : mailbox[i].kind = "SenderResult"
      BY <2>3 DEF Inv, ExaminationInv
    <3>2. ResultsInMailbox = {mailbox[i].sender}
      BY <3>1 DEF Inv, ExaminationInv, ResultsInMailbox, Positions
    <3>3. mailbox[i] \in Message
      BY DEF Inv, TypeOK, Positions
    <3>4. mailbox[i].sender \in Requests
      BY <3>1, <3>3 DEF Message
    <3> QED
      BY <2>3, <3>2, <3>4
  <2> QED
    BY <2>1, <2>2, <2>3
<1> QED
  BY <1>1, Invariance, PTL

\* The step timeout never aborts a session whose image is being examined,
\* for any ask timeout shorter than it.
THEOREM ExaminationNotAborted == Spec => NeverAbortedInExamination
<1>1. Inv /\ [Next]_vars => [state = WaitingForImageResult => state' # Aborted]_vars
  <2> SUFFICES ASSUME Inv, Next, state = WaitingForImageResult
               PROVE  state' # Aborted
    OBVIOUS
  <2>1. ~StateTimeout
    BY NoTimeoutInExamination
  <2> QED
    BY <2>1 DEF Next, Actor, Start, StartFails, Stop, Configure, HandleImage,
       HandleAcceptedResult, HandleRejectedResult, Unhandled, HandleKill,
       RpcAnswers, RpcFails, Complete, SubmitImage, SendConfiguration, SendKill,
       Tick, Idle, WaitingForMoreImages, WaitingForImageResult, Completed, Aborted
<1> QED
  BY <1>1, Invariance, PTL DEF Spec, NeverAbortedInExamination

-----------------------------------------------------------------------------
(* The session implements RecogPromise.                                    *)

\* A new session maps to the initial state of RecogPromise.
LEMMA PromiseInit == Init => Promise!Init
<1> SUFFICES ASSUME Init PROVE Promise!Init
  OBVIOUS
<1>1. Len(Required) - Len(acceptedFeatures) = Len(Required)
  BY DEF Init
<1>2. (life # "stopped" /\ state # Aborted) = TRUE
  BY DEF Init, Idle, Aborted
<1> QED
  BY <1>1, <1>2 DEF Init, Promise!Init

\* A step that answers nobody and accepts nothing closes the session or is
\* invisible.
LEMMA PromiseSilent ==
    ASSUME UNCHANGED <<acceptedFeatures, answer>>,
           (life # "stopped" /\ state # Aborted)' => (life # "stopped" /\ state # Aborted)
    PROVE  [Promise!Next]_(Promise!vars)
  BY DEF Promise!Next, Promise!Close, Promise!vars

\* Every step maps to a step of RecogPromise, or to a stutter.
LEMMA PromiseNext == Inv /\ [Next]_vars => [Promise!Next]_(Promise!vars)
<1> SUFFICES ASSUME Inv, [Next]_vars PROVE [Promise!Next]_(Promise!vars)
  OBVIOUS
<1> DEFINE r == Head(mailbox).sender
<1>1. CASE HandleAcceptedResult
  <2>1. /\ Receive("SenderResult") /\ state = WaitingForImageResult
        /\ life = "running" /\ life' = "running" /\ state' # Aborted
        /\ state' \in {Completed, WaitingForMoreImages}
    BY <1>1 DEF HandleAcceptedResult, Receive, Completed, WaitingForMoreImages, Aborted
  <2>2. r \in Requests /\ answer[r] = <<>>
    BY <2>1, ResultTaken
  <2>3. /\ Len(acceptedFeatures) \in Nat /\ Len(Required) \in Nat
        /\ Len(acceptedFeatures) < Len(Required)
        /\ Len(acceptedFeatures') = Len(acceptedFeatures) + 1
    BY <1>1, <2>1, FeaturesAfterResult DEF HandleAcceptedResult
  <2>4. /\ (life # "stopped" /\ state # Aborted) = TRUE
        /\ (life # "stopped" /\ state # Aborted)' = TRUE
    BY <2>1 DEF WaitingForImageResult, Aborted
  <2>5. CASE IsCompleted(acceptedFeatures')
    <3>1. answer' = [answer EXCEPT ![r] = <<RecogSessionCompleted>>]
      BY <1>1, <2>2, <2>5 DEF HandleAcceptedResult, Reply
    <3>2. /\ Len(Required) - Len(acceptedFeatures) = 1
          /\ Len(Required) - Len(acceptedFeatures') = 0
      BY <2>3, <2>5 DEF IsCompleted
    <3>3. Promise!Complete(r)
      BY <2>2, <2>4, <3>1, <3>2 DEF Promise!Complete, Promise!Answer, Promise!Completed,
         RecogSessionCompleted
    <3> QED
      BY <2>2, <3>3 DEF Promise!Next
  <2>6. CASE ~IsCompleted(acceptedFeatures')
    <3>1. answer' = [answer EXCEPT ![r] = <<RecogSessionAccepted>>]
      BY <1>1, <2>2, <2>6 DEF HandleAcceptedResult, Reply
    <3>2. /\ Len(Required) - Len(acceptedFeatures) > 1
          /\ Len(Required) - Len(acceptedFeatures')
                = Len(Required) - Len(acceptedFeatures) - 1
      BY <2>3, <2>6 DEF IsCompleted
    <3>3. Promise!Accept(r)
      BY <2>2, <2>4, <3>1, <3>2 DEF Promise!Accept, Promise!Answer, Promise!Accepted,
         RecogSessionAccepted
    <3> QED
      BY <2>2, <3>3 DEF Promise!Next
  <2> QED
    BY <2>5, <2>6
<1>2. CASE HandleRejectedResult
  <2>1. /\ Receive("SenderResult") /\ state = WaitingForImageResult
        /\ life = "running" /\ life' = "running" /\ state' # Aborted
        /\ acceptedFeatures' = acceptedFeatures
    BY <1>2 DEF HandleRejectedResult, Receive, WaitingForMoreImages, Aborted
  <2>2. r \in Requests /\ answer[r] = <<>>
    BY <2>1, ResultTaken
  <2>3. Len(Required) - Len(acceptedFeatures) > 0
    BY <2>1, FeaturesAfterResult
  <2>4. /\ (life # "stopped" /\ state # Aborted) = TRUE
        /\ (life # "stopped" /\ state # Aborted)' = TRUE
    BY <2>1 DEF WaitingForImageResult, Aborted
  <2>5. answer' = [answer EXCEPT ![r] = <<RecogSessionRejected>>]
    BY <1>2, <2>2 DEF HandleRejectedResult, Reply
  <2>6. Promise!Reject(r)
    BY <2>1, <2>2, <2>3, <2>4, <2>5 DEF Promise!Reject, Promise!Answer, Promise!Rejected,
       RecogSessionRejected
  <2> QED
    BY <2>2, <2>6 DEF Promise!Next
<1>3. CASE ~HandleAcceptedResult /\ ~HandleRejectedResult
  <2>1. UNCHANGED answer
    BY <1>3 DEF Next, Actor, Start, StartFails, Stop, Configure, HandleImage, Unhandled,
       HandleKill, StateTimeout, RpcAnswers, RpcFails, Complete, SubmitImage,
       SendConfiguration, SendKill, Tick, vars
  <2>2. UNCHANGED acceptedFeatures
    BY <1>3 DEF Next, Actor, Start, StartFails, Stop, Configure, HandleImage, Unhandled,
       HandleKill, StateTimeout, RpcAnswers, RpcFails, Complete, SubmitImage,
       SendConfiguration, SendKill, Tick, vars, Inv, StateInv
  <2>3. (life # "stopped" /\ state # Aborted)' => (life # "stopped" /\ state # Aborted)
    BY <1>3 DEF Next, Actor, Start, StartFails, Stop, Configure, HandleImage, Unhandled,
       HandleKill, StateTimeout, RpcAnswers, RpcFails, Complete, SubmitImage,
       SendConfiguration, SendKill, Tick, vars, Receive, Idle, WaitingForMoreImages,
       WaitingForImageResult, Completed, Aborted
  <2> QED
    BY <2>1, <2>2, <2>3, PromiseSilent
<1> QED
  BY <1>1, <1>2, <1>3

\* Every behaviour of the session is one that RecogPromise allows.
THEOREM PromiseKept == Spec => KeepsPromise
  BY PromiseInit, PromiseNext, Invariance, PTL DEF Spec, KeepsPromise, Promise!Spec

-----------------------------------------------------------------------------
(* The features that are counted.  FeaturesMatchAnswers becomes inductive  *)
(* with Inv, which says that a request is answered once, and with the sets *)
(* it counts being finite, whatever Requests is.                           *)

FeaturesInv ==
    /\ FeaturesMatchAnswers
    /\ IsFiniteSet(Positive)
    /\ Granted = {} \/ \E r \in Requests : Granted = {r}

\* A positive result puts the feature that was asked for in front.
LEMMA FeaturesGrow ==
    ASSUME NEW f \in Seq(Feature), Len(f) < Len(Required),
           \A i \in DOMAIN f : f[i] = Required[Len(f) + 1 - i]
    PROVE  /\ Len(WithResult(f)) = Len(f) + 1
           /\ \A i \in DOMAIN WithResult(f) :
                 WithResult(f)[i] = Required[Len(WithResult(f)) + 1 - i]
<1> DEFINE n == Len(f)
           g == WithResult(f)
<1>1. n \in Nat /\ Len(Required) \in Nat /\ DOMAIN f = 1..n /\ Required[n + 1] \in Feature
  OBVIOUS
<1>2. g = <<Required[n + 1]>> \o f
  BY DEF WithResult, RequiredFeature
<1>3. /\ Len(g) = n + 1 /\ DOMAIN g = 1..(n + 1)
      /\ g[1] = Required[n + 1]
      /\ \A i \in 2..(n + 1) : g[i] = f[i - 1]
  BY <1>1, <1>2
<1>4. ASSUME NEW i \in 2..(n + 1)
      PROVE  g[i] = Required[n + 2 - i]
  <2>1. i - 1 \in DOMAIN f /\ n + 1 - (i - 1) = n + 2 - i
    BY <1>1
  <2> QED
    BY <1>3, <2>1
<1> QED
  BY <1>1, <1>3, <1>4

\* A step that answers nobody, or tells what is positive of nobody that was
\* answered, leaves the two sets as they are.
LEMMA FeaturesStutter ==
    ASSUME FeaturesInv, acceptedFeatures' = acceptedFeatures,
           Positive' = Positive, Granted' = Granted,
           state' \in {WaitingForMoreImages, WaitingForImageResult} =>
              Len(acceptedFeatures) < Len(Required)
    PROVE  FeaturesInv'
  BY DEF FeaturesInv, FeaturesMatchAnswers, IsCompleted

\* A positive verdict is counted, once, when it is answered.
LEMMA FeaturesAccepted == Inv /\ FeaturesInv /\ HandleAcceptedResult => FeaturesInv'
<1> SUFFICES ASSUME Inv, FeaturesInv, HandleAcceptedResult PROVE FeaturesInv'
  OBVIOUS
<1>1. Receive("SenderResult") /\ state = WaitingForImageResult
  BY DEF HandleAcceptedResult
<1>2. PICK r \in Requests : r = Head(mailbox).sender
  BY <1>1, ResultTaken
<1>3. answer[r] = <<>> /\ verdict[r] = {"accepted"} /\ verdict' = verdict
  BY <1>1, <1>2, ResultTaken DEF HandleAcceptedResult
<1>4. PICK a \in {RecogSessionAccepted, RecogSessionCompleted} :
         /\ Reply(r, a)
         /\ a = RecogSessionCompleted <=> IsCompleted(acceptedFeatures')
         /\ a = RecogSessionCompleted => state' = Completed
  BY <1>2 DEF HandleAcceptedResult, RecogSessionAccepted, RecogSessionCompleted
<1>5. answer'[r] = <<a>> /\ \A q \in Requests \ {r} : answer'[q] = answer[q]
  BY <1>3, <1>4 DEF Inv, TypeOK, Reply
<1>6. r \notin Positive /\ Positive' = Positive \cup {r}
  BY <1>3, <1>5 DEF Positive
<1>7. /\ acceptedFeatures' = WithResult(acceptedFeatures)
      /\ Len(acceptedFeatures) \in Nat /\ Len(Required) \in Nat
      /\ Len(acceptedFeatures) < Len(Required) /\ acceptedFeatures \in Seq(Feature)
  BY <1>1, FeaturesAfterResult DEF HandleAcceptedResult, Inv, TypeOK
<1>8. /\ Len(acceptedFeatures') = Len(acceptedFeatures) + 1
      /\ \A i \in DOMAIN acceptedFeatures' :
            acceptedFeatures'[i] = Required[Len(acceptedFeatures') + 1 - i]
  BY <1>7, FeaturesGrow DEF FeaturesInv, FeaturesMatchAnswers
<1>9. IsFiniteSet(Positive') /\ Cardinality(Positive') = Len(acceptedFeatures')
  <2>1. IsFiniteSet(Positive) /\ Cardinality(Positive) = Len(acceptedFeatures)
    BY DEF FeaturesInv, FeaturesMatchAnswers
  <2>2. /\ IsFiniteSet(Positive \cup {r})
        /\ Cardinality(Positive \cup {r}) = Cardinality(Positive) + 1
    BY <1>6, <2>1, FS_AddElement, Zenon
  <2> QED
    BY <1>6, <1>8, <2>1, <2>2
<1>10. Granted = {} /\ ~IsCompleted(acceptedFeatures)
  BY <1>7 DEF FeaturesInv, FeaturesMatchAnswers, IsCompleted
<1>11. Granted' = IF a = RecogSessionCompleted THEN {r} ELSE {}
  <2>1. RecogSessionCompleted \in Range(answer'[r]) <=> a = RecogSessionCompleted
    BY <1>5 DEF Range
  <2>2. \A q \in Requests \ {r} : RecogSessionCompleted \notin Range(answer'[q])
    BY <1>5, <1>10 DEF Granted
  <2> QED
    BY <2>1, <2>2 DEF Granted
<1>12. Cardinality(Granted') <= 1
  <2>1. Cardinality({r}) = 1 /\ Cardinality({}) = 0
    BY FS_Singleton, FS_EmptySet
  <2> QED
    BY <1>11, <2>1
<1>13. state' \in {WaitingForMoreImages, WaitingForImageResult} =>
          Len(acceptedFeatures') < Len(Required)
  BY <1>4, <1>7, <1>8 DEF HandleAcceptedResult, IsCompleted, Completed, WaitingForMoreImages,
     WaitingForImageResult
<1>14. Granted' # {} <=> IsCompleted(acceptedFeatures')
  BY <1>4, <1>11
<1>15. Len(acceptedFeatures') <= Len(Required)
  BY <1>7, <1>8
<1>16. FeaturesMatchAnswers'
  BY <1>8, <1>9, <1>12, <1>13, <1>14, <1>15 DEF FeaturesMatchAnswers, IsCompleted
<1>17. Granted' = {} \/ \E q \in Requests : Granted' = {q}
  BY <1>2, <1>11
<1> QED
  BY <1>9, <1>16, <1>17 DEF FeaturesInv

\* A negative one is not.
LEMMA FeaturesRejected == Inv /\ FeaturesInv /\ HandleRejectedResult => FeaturesInv'
<1> SUFFICES ASSUME Inv, FeaturesInv, HandleRejectedResult PROVE FeaturesInv'
  OBVIOUS
<1>1. Receive("SenderResult") /\ state = WaitingForImageResult
  BY DEF HandleRejectedResult
<1>2. PICK r \in Requests : r = Head(mailbox).sender
  BY <1>1, ResultTaken
<1>3. /\ answer[r] = <<>> /\ verdict[r] \in {{"rejected"}, {"failed"}} /\ verdict' = verdict
      /\ Reply(r, RecogSessionRejected)
  BY <1>1, <1>2, ResultTaken DEF HandleRejectedResult
<1>4. answer'[r] = <<RecogSessionRejected>> /\ \A q \in Requests \ {r} : answer'[q] = answer[q]
  BY <1>3 DEF Inv, TypeOK, Reply
<1>5. Positive' = Positive
  <2>1. verdict[r] # {"accepted"}
    BY <1>3
  <2> QED
    BY <1>3, <1>4, <2>1 DEF Positive
<1>6. Granted' = Granted
  <2>1. RecogSessionCompleted \notin Range(answer[r]) /\ RecogSessionCompleted \notin Range(answer'[r])
    BY <1>3, <1>4 DEF Range, RecogSessionCompleted, RecogSessionRejected
  <2> QED
    BY <1>4, <2>1 DEF Granted
<1>7. acceptedFeatures' = acceptedFeatures /\ Len(acceptedFeatures) < Len(Required)
  BY <1>1, FeaturesAfterResult DEF HandleRejectedResult
<1> QED
  BY <1>5, <1>6, <1>7, FeaturesStutter

\* The other steps answer nobody, and a verdict comes before the answer.
LEMMA FeaturesOther ==
    ASSUME Inv, FeaturesInv, [Next]_vars, ~HandleAcceptedResult, ~HandleRejectedResult
    PROVE  FeaturesInv'
<1>1. answer' = answer /\ Granted' = Granted
  BY DEF Granted, Next, Actor, Start, StartFails, Stop, Configure, HandleImage, Unhandled,
     HandleKill, StateTimeout, RpcAnswers, RpcFails, Complete, SubmitImage, SendConfiguration,
     SendKill, Tick, vars
<1>2. Positive' = Positive
  <2>1. CASE verdict' = verdict
    BY <1>1, <2>1 DEF Positive
  <2>2. ASSUME NEW r \in Requests, NEW how, Complete(r, how) PROVE Positive' = Positive
    <3>1. answer[r] = <<>>
      BY <2>2 DEF Complete, Inv, RequestInv
    <3>2. \A q \in Requests \ {r} : verdict'[q] = verdict[q]
      BY <2>2 DEF Complete, Inv, TypeOK
    <3> QED
      BY <1>1, <3>1, <3>2 DEF Positive
  <2>3. verdict' = verdict \/ \E r \in Requests, how \in Verdicts : Complete(r, how)
    BY DEF Next, Actor, Start, StartFails, Stop, Configure, HandleImage, Unhandled,
       HandleKill, StateTimeout, RpcAnswers, RpcFails, Verdicts, SubmitImage, SendConfiguration,
       SendKill, Tick, vars
  <2> QED
    BY <2>1, <2>2, <2>3
<1>3. acceptedFeatures' = acceptedFeatures
  <2>1. Configure => acceptedFeatures' = acceptedFeatures
    BY DEF Configure, Inv, StateInv
  <2> QED
    BY <2>1 DEF Next, Actor, Start, StartFails, Stop, HandleImage, Unhandled,
       HandleKill, StateTimeout, RpcAnswers, RpcFails, Complete, SubmitImage, SendConfiguration,
       SendKill, Tick, vars
<1>4. state' \in {WaitingForMoreImages, WaitingForImageResult} =>
         Len(acceptedFeatures) < Len(Required)
  BY <1>3, NextInv DEF Inv, StateInv
<1> QED
  BY <1>1, <1>2, <1>3, <1>4, FeaturesStutter

\* acceptedFeatures are the features of the images answered positively, one
\* each, in order, and the token goes to one image, with the last feature
\* (data.scala:24-40, instance.scala:92-112).
THEOREM FeaturesMatch == Spec => []FeaturesMatchAnswers
<1>1. Init => FeaturesInv
  <2> SUFFICES ASSUME Init PROVE FeaturesInv
    OBVIOUS
  <2>1. Positive = {} /\ Granted = {}
    BY DEF Init, Positive, Granted, Range
  <2>2. Len(acceptedFeatures) = 0 /\ DOMAIN acceptedFeatures = {} /\ Len(Required) \in Nat \ {0}
    BY DEF Init
  <2> QED
    BY <2>1, <2>2, FS_EmptySet DEF Init, FeaturesInv, FeaturesMatchAnswers, IsCompleted, Idle,
       WaitingForMoreImages, WaitingForImageResult
<1>2. Inv /\ FeaturesInv /\ [Next]_vars => FeaturesInv'
  BY FeaturesAccepted, FeaturesRejected, FeaturesOther
<1>3. FeaturesInv => FeaturesMatchAnswers
  BY DEF FeaturesInv
<1> QED
  BY <1>1, <1>2, <1>3, Invariance, PTL DEF Spec

=============================================================================
