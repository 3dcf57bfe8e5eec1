----------------------------- MODULE RpcServer -----------------------------
(***************************************************************************)
(* The recogniser process: RabbitRpcServer (native/rabbit.cpp) and the     *)
(* Main that derives from it (native/recog/main.cpp, recog.cpp), with the  *)
(* broker between it and the sessions' RpcClients.                         *)
(*                                                                         *)
(* A call is one AMQP request.  It carries the reply queue of its client   *)
(* and a correlation id that the client chose: each client numbers its own *)
(* calls, so that two clients use the same ids.                            *)
(*                                                                         *)
(* Every worker thread takes one message from each channel it opens.  The  *)
(* consumers are no-ack, for which the broker ignores the prefetch count:  *)
(* it pushes on to a channel whatever it likes, and forgets it.            *)
(***************************************************************************)
EXTENDS Naturals, Sequences, FiniteSets, Functions

CONSTANTS
    Clients,        \* connections of RpcClients, each with its reply queue
    Ids,            \* correlation ids
    Calls,          \* the calls that are made: [client, id] records
    Faces,          \* the calls whose image has a face in it
    Workers,        \* the threads of runAndJoin
    NoCall

ASSUME CallsAssumption ==
    /\ Calls \subseteq [client : Clients, id : Ids]
    /\ Faces \subseteq Calls
    /\ NoCall \notin Calls

VARIABLES
    outcome,        \* of each call, as its caller sees it
    gone,           \* clients whose connection, and reply queue, is lost
    queue,          \* the broker's queue "recog"
    pushed,         \* messages pushed to each worker's channel, not consumed
    phase,          \* what each thread is doing
    current,        \* the call each thread is handling
    classifier,     \* the image the shared CascadeClassifier works on
    replies,        \* replies in the reply queues
    said,           \* (history) what was said of each call
    lost            \* (history) calls that went with a channel or the process

vars == <<outcome, gone, queue, pushed, phase, current, classifier, replies,
          said, lost>>

Phases == {"connecting", "consuming", "received", "detecting", "replying",
           "ended"}

Verdict(hasFace) == IF hasFace THEN "accepted" ELSE "rejected"

Init ==
    /\ outcome = [c \in Calls |-> "none"]
    /\ gone = {}
    /\ queue = <<>>
    /\ pushed = [w \in Workers |-> <<>>]
    /\ phase = [w \in Workers |-> "connecting"]
    /\ current = [w \in Workers |-> NoCall]
    /\ classifier = NoCall
    /\ replies = {}
    /\ said = [c \in Calls |-> "nothing"]
    /\ lost = {}

-----------------------------------------------------------------------------
(* The callers: amqpAsk and the RpcClient.                                 *)

Call(c) ==
    /\ outcome[c] = "none"
    /\ c.client \notin gone
    /\ outcome' = [outcome EXCEPT ![c] = "waiting"]
    /\ queue' = Append(queue, c)
    /\ UNCHANGED <<gone, pushed, phase, current, classifier, replies, said, lost>>

\* The RpcClient matches a reply by its correlation id alone, among the
\* calls of its own client; a reply to a call that has ended is ignored.
ReplyArrives(m) ==
    /\ m \in replies
    /\ replies' = replies \ {m}
    /\ outcome' = [c \in Calls |->
                     IF c.client = m.to /\ c.id = m.id /\ outcome[c] = "waiting"
                       THEN m.body ELSE outcome[c]]
    /\ UNCHANGED <<gone, queue, pushed, phase, current, classifier, said, lost>>

AskTimeout(c) ==
    /\ outcome[c] = "waiting"
    /\ outcome' = [outcome EXCEPT ![c] = "failed"]
    /\ UNCHANGED <<gone, queue, pushed, phase, current, classifier, replies,
                   said, lost>>

\* The connection drops: its exclusive reply queue goes with it.
Disconnect(client) ==
    /\ client \notin gone
    /\ gone' = gone \cup {client}
    /\ replies' = {m \in replies : m.to # client}
    /\ UNCHANGED <<outcome, queue, pushed, phase, current, classifier, said, lost>>

-----------------------------------------------------------------------------
(* The broker.                                                             *)

Consumes(w) == phase[w] \in {"consuming", "received", "detecting", "replying"}

\* Mutant of Push: the broker keeps what it has pushed, to send it again.
PushAndKeep(w) ==
    /\ queue # <<>>
    /\ Consumes(w)
    /\ Len(pushed[w]) < 2
    /\ pushed' = [pushed EXCEPT ![w] = Append(@, Head(queue))]
    /\ UNCHANGED <<outcome, gone, queue, phase, current, classifier, replies,
                   said, lost>>

Push(w) ==
    /\ queue # <<>>
    /\ Consumes(w)
    /\ queue' = Tail(queue)
    /\ pushed' = [pushed EXCEPT ![w] = Append(@, Head(queue))]
    /\ UNCHANGED <<outcome, gone, phase, current, classifier, replies, said, lost>>

-----------------------------------------------------------------------------
(* runBlocking                                                             *)

\* Channel::Create, BindQueue, BasicConsume.
Connect(w) ==
    /\ phase[w] = "connecting"
    /\ phase' = [phase EXCEPT ![w] = "consuming"]
    /\ UNCHANGED <<outcome, gone, queue, pushed, current, classifier, replies,
                   said, lost>>

\* Mutant of Consume: replies to a message without handling it.
ConsumeAndReply(w) ==
    /\ phase[w] = "consuming"
    /\ pushed[w] # <<>>
    /\ phase' = [phase EXCEPT ![w] = "replying"]
    /\ current' = [current EXCEPT ![w] = Head(pushed[w])]
    /\ pushed' = [pushed EXCEPT ![w] = Tail(@)]
    /\ UNCHANGED <<outcome, gone, queue, classifier, replies, said, lost>>

\* BasicConsumeMessage returns the first message of the channel.
Consume(w) ==
    /\ phase[w] = "consuming"
    /\ pushed[w] # <<>>
    /\ phase' = [phase EXCEPT ![w] = "received"]
    /\ current' = [current EXCEPT ![w] = Head(pushed[w])]
    /\ pushed' = [pushed EXCEPT ![w] = Tail(@)]
    /\ UNCHANGED <<outcome, gone, queue, classifier, replies, said, lost>>

\* handleMessage: detectMultiScale first puts the image into the classifier,
\* of which all the threads share one,
Detect(w) ==
    /\ phase[w] = "received"
    /\ phase' = [phase EXCEPT ![w] = "detecting"]
    /\ classifier' = current[w]
    /\ UNCHANGED <<outcome, gone, queue, pushed, current, replies, said, lost>>

\* and then looks for faces.  If another thread has changed the image under
\* its feet, it may find anything.
Detected(w) ==
    /\ phase[w] = "detecting"
    /\ phase' = [phase EXCEPT ![w] = "replying"]
    /\ \E hasFace \in IF classifier = current[w] THEN {current[w] \in Faces}
                                                 ELSE BOOLEAN :
          said' = [said EXCEPT ![current[w]] = Verdict(hasFace)]
    /\ UNCHANGED <<outcome, gone, queue, pushed, current, classifier, replies, lost>>

\* The channel goes out of scope, and with it what was pushed to it.
CloseChannel(w) ==
    /\ pushed' = [pushed EXCEPT ![w] = <<>>]
    /\ current' = [current EXCEPT ![w] = NoCall]
    /\ lost' = lost \cup Range(pushed[w])

\* Mutant of Response: the correlation id is left out.
ResponseUncorrelated(c) ==
    [to |-> c.client, id |-> CHOOSE id \in Ids : TRUE, body |-> said[c]]

\* The reply takes its queue and its correlation id from the request.
Response(c) == [to |-> c.client, id |-> c.id, body |-> said[c]]

\* BasicPublish, with a reply queue that is there.
BasicPublish(w) ==
    /\ phase[w] = "replying"
    /\ current[w].client \notin gone
    /\ replies' = replies \cup {Response(current[w])}

\* Mutant of Publish: the thread does not go round its loop.
PublishForever(w) ==
    /\ BasicPublish(w)
    /\ UNCHANGED <<outcome, gone, queue, pushed, phase, current, classifier,
                   said, lost>>

\* handleEnvelope publishes the reply; runBlocking goes round its loop.
Publish(w) ==
    /\ BasicPublish(w)
    /\ phase' = [phase EXCEPT ![w] = "connecting"]
    /\ CloseChannel(w)
    /\ UNCHANGED <<outcome, gone, queue, classifier, said>>

\* A runtime_error ends the thread for good: the mandatory reply is returned
\* because its queue is gone ...
ReplyReturned(w) ==
    /\ phase[w] = "replying"
    /\ current[w].client \in gone
    /\ phase' = [phase EXCEPT ![w] = "ended"]
    /\ CloseChannel(w)
    /\ UNCHANGED <<outcome, gone, queue, classifier, replies, said>>

\* ... or the channel fails, while it is waited on or a reply is published on
\* it, which may have come through.
ChannelFails(w) ==
    /\ phase[w] \in {"consuming", "replying"}
    /\ UNCHANGED replies \/ BasicPublish(w)
    /\ phase' = [phase EXCEPT ![w] = "ended"]
    /\ CloseChannel(w)
    /\ UNCHANGED <<outcome, gone, queue, classifier, said>>

\* Connecting is outside the try, and the catch takes only runtime_errors,
\* not those of OpenCV and of ImageMessage: any other ends the process.
ProcessEnds ==
    /\ \E w \in Workers : phase[w] \in {"connecting", "received", "detecting"}
    /\ phase' = [w \in Workers |-> "ended"]
    /\ pushed' = [w \in Workers |-> <<>>]
    /\ current' = [w \in Workers |-> NoCall]
    /\ lost' = (lost \cup UNION {Range(pushed[w]) \cup {current[w]} :
                                     w \in Workers}) \ {NoCall}
    /\ UNCHANGED <<outcome, gone, queue, classifier, replies, said>>

-----------------------------------------------------------------------------
Thread(w) ==
    \/ Connect(w)
    \/ Consume(w)
    \/ Detect(w)
    \/ Detected(w)
    \/ Publish(w)
    \/ ReplyReturned(w)

Next ==
    \/ \E c \in Calls : Call(c) \/ AskTimeout(c)
    \/ \E m \in replies : ReplyArrives(m)
    \/ \E client \in Clients : Disconnect(client)
    \/ \E w \in Workers : Push(w) \/ Thread(w) \/ ChannelFails(w)
    \/ ProcessEnds

(* The threads run and the broker pushes what it can.  Nothing is assumed  *)
(* of the callers, and nothing has to fail.                                *)
Fairness ==
    /\ \A w \in Workers : WF_vars(Thread(w))
    /\ WF_vars(\E w \in Workers : Push(w))

Spec == Init /\ [][Next]_vars /\ Fairness

-----------------------------------------------------------------------------
(* Properties                                                              *)

Said == {"nothing", "accepted", "rejected"}

TypeOK ==
    /\ outcome \in [Calls -> {"none", "waiting", "accepted", "rejected",
                              "failed"}]
    /\ gone \subseteq Clients
    /\ queue \in Seq(Calls)
    /\ pushed \in [Workers -> Seq(Calls)]
    /\ phase \in [Workers -> Phases]
    /\ current \in [Workers -> Calls \cup {NoCall}]
    /\ classifier \in Calls \cup {NoCall}
    /\ replies \subseteq [to : Clients, id : Ids,
                          body : {"accepted", "rejected"}]
    /\ said \in [Calls -> Said]
    /\ lost \subseteq Calls

(* Each image is examined at most once, by one thread: a call is in one    *)
(* place only - the queue, one channel, one thread's hands - and nowhere   *)
(* once something has been said of it and its thread has moved on.  The    *)
(* broker never sends again what it has pushed.                            *)
Occurrences(c, q) == Cardinality({i \in DOMAIN q : q[i] = c})
Holders(c)   == {w \in Workers : current[w] = c}
Channels(c)  == {w \in Workers : c \in Range(pushed[w])}
OnePlace ==
    \A c \in Calls :
        /\ Occurrences(c, queue) + Cardinality(Channels(c))
             + Cardinality(Holders(c)) <= 1
        /\ \A w \in Workers : Occurrences(c, pushed[w]) <= 1
        /\ said[c] # "nothing" =>
             /\ c \notin Range(queue) /\ Channels(c) = {}
             /\ \A w \in Holders(c) : phase[w] = "replying"

(* The sessions get what RpcPromise says: an answer comes to the call it   *)
(* was computed for, although correlation ids are only unique per client,  *)
(* replies come in any order and late, and calls are lost.                 *)
Promise == INSTANCE RpcPromise

KeepsRpcPromise == Promise!Spec

(* As long as a thread is left, every call is examined, or goes with the   *)
(* channel it was pushed to: the channels of threads that end or go round  *)
(* their loop are the only place where a call can vanish, and no thread    *)
(* keeps one for ever.                                                     *)
AllEnded == \A w \in Workers : phase[w] = "ended"
CallsAreSettled ==
    \A c \in Calls :
        outcome[c] = "waiting" ~> (said[c] # "nothing" \/ c \in lost \/ AllEnded)

(* What is said of a call is about its own image.                          *)
(* rabbit.h:28: "The implementation must be reentrant and stateless".      *)
VerdictIsOfOwnImage ==
    \A c \in Calls : said[c] \in {"nothing", Verdict(c \in Faces)}

(* rabbit.h:15: the server's threads "attach to a queue, receive messages, *)
(* perform some processing and reply with a std::string": what has been    *)
(* pushed to a thread that goes on working is processed.                   *)
PushedIsProcessed ==
    \A c \in Calls, w \in Workers :
        c \in Range(pushed[w]) ~> (said[c] # "nothing" \/ phase[w] = "ended")
=============================================================================
