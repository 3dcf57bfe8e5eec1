-------------------------- MODULE RpcServer_proofs --------------------------
(* Where each call can be, for any number of clients, calls and threads, and  *)
(* that callers get what RpcPromise says.                                     *)
EXTENDS RpcServer, FiniteSetTheorems, TLAPS

-----------------------------------------------------------------------------
(* The inductive invariant.  OnePlace counts; what is inductive is that the   *)
(* places of a call exclude one another: the queue, the channels and the      *)
(* threads' hands have no call in common, ...                                 *)
Distinct(q) == \A i, j \in DOMAIN q : q[i] = q[j] => i = j

PlaceInv ==
    /\ Distinct(queue)
    /\ \A w \in Workers : Distinct(pushed[w]) /\ Range(pushed[w]) \cap Range(queue) = {}
    /\ \A v, w \in Workers : v # w => Range(pushed[v]) \cap Range(pushed[w]) = {}

HeldInv ==
    \A w \in Workers :
        current[w] # NoCall =>
            /\ current[w] \notin Range(queue)
            /\ \A v \in Workers : current[w] \notin Range(pushed[v])
            /\ \A v \in Workers : current[v] = current[w] => v = w

(* ... a thread has a call in its hands exactly while it handles one, and has *)
(* said something of it exactly when it is about to reply, ...                *)
HandInv ==
    \A w \in Workers :
        /\ current[w] = NoCall <=> phase[w] \in {"connecting", "consuming", "ended"}
        /\ phase[w] \in {"received", "detecting"} => said[current[w]] = "nothing"
        /\ phase[w] = "replying" => said[current[w]] # "nothing"

(* ... what is under way was called for and not yet examined, ...             *)
SaidInv ==
    \A c \in Calls :
        /\ said[c] # "nothing" \/ outcome[c] = "none" =>
              /\ c \notin Range(queue)
              /\ \A w \in Workers : c \notin Range(pushed[w])
        /\ outcome[c] = "none" => said[c] = "nothing" /\ \A w \in Workers : current[w] # c

(* ... and a reply that carries the queue and the id of a call says what was  *)
(* said of it.                                                                *)
ReplyInv ==
    \A m \in replies, c \in Calls : m.to = c.client /\ m.id = c.id => m.body = said[c]

Inv == TypeOK /\ PlaceInv /\ HeldInv /\ HandInv /\ SaidInv /\ ReplyInv

-----------------------------------------------------------------------------
(* Sequences of calls.                                                        *)
LEMMA InRange == ASSUME NEW S, NEW q \in Seq(S) PROVE Range(q) \subseteq S
  BY DEF Range

LEMMA Appended ==
  ASSUME NEW S, NEW q \in Seq(S), NEW c \in S
  PROVE  /\ Append(q, c) \in Seq(S)
         /\ Range(Append(q, c)) = Range(q) \cup {c}
         /\ Distinct(q) /\ c \notin Range(q) => Distinct(Append(q, c))
  <1>1. /\ DOMAIN q = 1 .. Len(q) /\ Len(q) \in Nat
        /\ Append(q, c) \in Seq(S) /\ DOMAIN Append(q, c) = 1 .. Len(q) + 1
        /\ \A i \in 1 .. Len(q) : Append(q, c)[i] = q[i]
        /\ Append(q, c)[Len(q) + 1] = c
    OBVIOUS
  <1>2. DOMAIN Append(q, c) = DOMAIN q \cup {Len(q) + 1}
    BY <1>1
  <1>3. Range(Append(q, c)) = Range(q) \cup {c}
    BY <1>1, <1>2, Zenon DEF Range
  <1>4. Distinct(q) /\ c \notin Range(q) => Distinct(Append(q, c))
    BY <1>1, <1>2, Zenon DEF Distinct, Range
  <1> QED
    BY <1>1, <1>3, <1>4

LEMMA Taken ==
  ASSUME NEW S, NEW q \in Seq(S), q # <<>>
  PROVE  /\ Head(q) \in S /\ Head(q) \in Range(q)
         /\ Tail(q) \in Seq(S) /\ Range(Tail(q)) \subseteq Range(q)
         /\ Distinct(q) => Distinct(Tail(q)) /\ Head(q) \notin Range(Tail(q))
  <1>1. /\ DOMAIN q = 1 .. Len(q) /\ Len(q) \in Nat /\ Len(q) >= 1 /\ Head(q) = q[1]
        /\ Tail(q) \in Seq(S) /\ DOMAIN Tail(q) = 1 .. Len(q) - 1
        /\ \A i \in 1 .. Len(q) - 1 : Tail(q)[i] = q[i + 1]
        /\ \A i \in 1 .. Len(q) - 1 : i + 1 \in 1 .. Len(q) /\ i + 1 # 1
    OBVIOUS
  <1>2. 1 \in DOMAIN q /\ Head(q) \in S
    BY <1>1
  <1>3. Head(q) \in Range(q) /\ Range(Tail(q)) \subseteq Range(q)
    BY <1>1, <1>2, Zenon DEF Range
  <1>4. ASSUME Distinct(q) PROVE Distinct(Tail(q)) /\ Head(q) \notin Range(Tail(q))
    <2>1. \A i, j \in 1 .. Len(q) - 1 : i + 1 = j + 1 => i = j
      OBVIOUS
    <2> QED
      BY <1>1, <1>2, <1>4, <2>1 DEF Distinct, Range
  <1> QED
    BY <1>1, <1>2, <1>3, <1>4

LEMMA EmptyRange == Range(<<>>) = {} /\ Distinct(<<>>)
  BY DEF Range, Distinct

\* A call is its client and its id.
LEMMA CallIsItsIds ==
  ASSUME NEW c \in Calls, NEW d \in Calls, c.client = d.client, c.id = d.id
  PROVE  c = d
  BY CallsAssumption

-----------------------------------------------------------------------------
LEMMA InitInv == Init => Inv
  <1> SUFFICES ASSUME Init PROVE Inv
    OBVIOUS
  <1>1. TypeOK
    BY CallsAssumption DEF Init, TypeOK, Phases, Said
  <1>2. PlaceInv /\ HeldInv /\ HandInv /\ SaidInv /\ ReplyInv
    BY EmptyRange, CallsAssumption DEF Init, PlaceInv, HeldInv, HandInv, SaidInv, ReplyInv
  <1> QED
    BY <1>1, <1>2 DEF Inv

-----------------------------------------------------------------------------
(* The callers.                                                               *)

\* A call that was not made is nowhere: it gets into the queue.
LEMMA CallInv == ASSUME Inv, NEW c \in Calls, Call(c) PROVE Inv'
  <1> USE DEF Inv
  <1>1. /\ queue' \in Seq(Calls) /\ Range(queue') = Range(queue) \cup {c}
        /\ c \notin Range(queue) /\ Distinct(queue')
    BY Appended DEF TypeOK, PlaceInv, SaidInv, Call
  <1>2. TypeOK'
    BY <1>1 DEF TypeOK, Call
  <1>3. PlaceInv' /\ HeldInv'
    BY <1>1 DEF PlaceInv, HeldInv, SaidInv, Call
  <1>4. HandInv' /\ ReplyInv'
    BY DEF HandInv, ReplyInv, Call
  <1>5. outcome' = [outcome EXCEPT ![c] = "waiting"] /\ said[c] = "nothing"
    BY DEF Call, SaidInv
  <1>6. SaidInv'
    BY <1>1, <1>5 DEF TypeOK, SaidInv, Call
  <1> QED
    BY <1>2, <1>3, <1>4, <1>6

\* The caller's side of an answer or a failure: only a call that waits ends.
LEMMA OutcomeInv ==
  ASSUME Inv, UNCHANGED <<gone, queue, pushed, phase, current, classifier, said, lost>>,
         replies' \subseteq replies,
         outcome' \in [Calls -> {"none", "waiting", "accepted", "rejected", "failed"}],
         \A c \in Calls : outcome'[c] = "none" => outcome[c] = "none"
  PROVE  Inv'
  <1>1. TypeOK'
    BY DEF Inv, TypeOK
  <1>2. PlaceInv' /\ HeldInv' /\ HandInv'
    BY DEF Inv, PlaceInv, HeldInv, HandInv
  <1>3. SaidInv' /\ ReplyInv'
    BY DEF Inv, SaidInv, ReplyInv
  <1> QED
    BY <1>1, <1>2, <1>3 DEF Inv

LEMMA ReplyArrivesInv == ASSUME Inv, NEW m \in replies, ReplyArrives(m) PROVE Inv'
  <1>1. m.body \in {"accepted", "rejected"}
    BY DEF Inv, TypeOK
  <1>2. /\ outcome' \in [Calls -> {"none", "waiting", "accepted", "rejected", "failed"}]
        /\ \A c \in Calls : outcome'[c] = "none" => outcome[c] = "none"
    BY <1>1 DEF Inv, TypeOK, ReplyArrives
  <1> QED
    BY <1>2, OutcomeInv DEF ReplyArrives

LEMMA AskTimeoutInv == ASSUME Inv, NEW c \in Calls, AskTimeout(c) PROVE Inv'
  <1>1. /\ outcome' \in [Calls -> {"none", "waiting", "accepted", "rejected", "failed"}]
        /\ \A d \in Calls : outcome'[d] = "none" => outcome[d] = "none"
    BY DEF Inv, TypeOK, AskTimeout
  <1> QED
    BY <1>1, OutcomeInv DEF AskTimeout

LEMMA DisconnectInv == ASSUME Inv, NEW client \in Clients, Disconnect(client) PROVE Inv'
  <1>1. TypeOK'
    BY DEF Inv, TypeOK, Disconnect
  <1>2. PlaceInv' /\ HeldInv' /\ HandInv' /\ SaidInv' /\ ReplyInv'
    BY DEF Inv, PlaceInv, HeldInv, HandInv, SaidInv, ReplyInv, Disconnect
  <1> QED
    BY <1>1, <1>2 DEF Inv

-----------------------------------------------------------------------------
(* The broker, and a thread that takes what was pushed to it: the call moves. *)
LEMMA PushInv == ASSUME Inv, NEW w \in Workers, Push(w) PROVE Inv'
  <1> USE DEF Inv
  <1> DEFINE c == Head(queue)
  <1>1. /\ c \in Calls /\ c \in Range(queue)
        /\ queue' \in Seq(Calls) /\ Range(queue') \subseteq Range(queue)
        /\ Distinct(queue') /\ c \notin Range(queue')
    BY Taken DEF TypeOK, PlaceInv, Push
  <1>2. /\ pushed[w] \in Seq(Calls) /\ c \notin Range(pushed[w]) /\ Distinct(pushed[w])
        /\ pushed' = [pushed EXCEPT ![w] = Append(pushed[w], c)]
    BY <1>1 DEF TypeOK, PlaceInv, Push
  <1>3. /\ pushed' \in [Workers -> Seq(Calls)]
        /\ Range(pushed'[w]) = Range(pushed[w]) \cup {c} /\ Distinct(pushed'[w])
        /\ \A v \in Workers \ {w} : pushed'[v] = pushed[v]
    BY <1>1, <1>2, Appended DEF TypeOK
  <1> HIDE DEF c
  <1>4. TypeOK'
    BY <1>1, <1>3 DEF TypeOK, Push
  <1>5. PlaceInv'
    <2>1. \A v \in Workers : Distinct(pushed'[v]) /\ Range(pushed'[v]) \cap Range(queue') = {}
      BY <1>1, <1>3 DEF PlaceInv
    <2>2. \A v \in Workers \ {w} : c \notin Range(pushed[v])
      BY <1>1 DEF PlaceInv
    <2>3. ASSUME NEW u \in Workers, NEW v \in Workers, u # v
          PROVE  Range(pushed'[u]) \cap Range(pushed'[v]) = {}
      <3>1. Range(pushed[u]) \cap Range(pushed[v]) = {}
        BY <2>3 DEF PlaceInv
      <3>2. CASE u = w
        <4>1. Range(pushed'[u]) = Range(pushed[u]) \cup {c}
          BY <1>3, <3>2
        <4>2. pushed'[v] = pushed[v] /\ c \notin Range(pushed[v])
          BY <1>3, <2>2, <2>3, <3>2
        <4> QED
          BY <3>1, <4>1, <4>2
      <3>3. CASE v = w
        <4>1. Range(pushed'[v]) = Range(pushed[v]) \cup {c}
          BY <1>3, <3>3
        <4>2. pushed'[u] = pushed[u] /\ c \notin Range(pushed[u])
          BY <1>3, <2>2, <2>3, <3>3
        <4> QED
          BY <3>1, <4>1, <4>2
      <3>4. CASE u # w /\ v # w
        <4>1. pushed'[u] = pushed[u] /\ pushed'[v] = pushed[v]
          BY <1>3, <2>3, <3>4
        <4> QED
          BY <3>1, <4>1
      <3> QED
        BY <3>2, <3>3, <3>4
    <2> QED
      BY <1>1, <2>1, <2>3 DEF PlaceInv
  <1>6. HeldInv'
    BY <1>1, <1>3 DEF HeldInv, Push
  <1>7. HandInv' /\ ReplyInv'
    BY DEF HandInv, ReplyInv, Push
  <1>8. SaidInv'
    BY <1>1, <1>3 DEF SaidInv, Push
  <1> QED
    BY <1>4, <1>5, <1>6, <1>7, <1>8

\* Channels that lose calls keep apart.
LEMMA Shrinks ==
  ASSUME PlaceInv, UNCHANGED queue,
         \A w \in Workers : Range(pushed'[w]) \subseteq Range(pushed[w]) /\ Distinct(pushed'[w])
  PROVE  PlaceInv'
  <1>1. ASSUME NEW v \in Workers, NEW w \in Workers, v # w
        PROVE  Range(pushed'[v]) \cap Range(pushed'[w]) = {}
    <2>1. Range(pushed[v]) \cap Range(pushed[w]) = {}
      BY <1>1 DEF PlaceInv
    <2> QED
      BY <2>1
  <1>2. \A w \in Workers : Range(pushed'[w]) \cap Range(queue) = {}
    BY DEF PlaceInv
  <1> QED
    BY <1>1, <1>2 DEF PlaceInv

LEMMA ConsumeInv == ASSUME Inv, NEW w \in Workers, Consume(w) PROVE Inv'
  <1> USE DEF Inv
  <1> DEFINE c == Head(pushed[w])
  <1>1. pushed[w] \in Seq(Calls) /\ pushed[w] # <<>> /\ Distinct(pushed[w])
    BY DEF TypeOK, PlaceInv, Consume
  <1>2. /\ c \in Calls /\ c \in Range(pushed[w])
        /\ Tail(pushed[w]) \in Seq(Calls) /\ Range(Tail(pushed[w])) \subseteq Range(pushed[w])
        /\ Distinct(Tail(pushed[w])) /\ c \notin Range(Tail(pushed[w]))
    BY <1>1, Taken
  <1>3. /\ pushed' \in [Workers -> Seq(Calls)]
        /\ Range(pushed'[w]) \subseteq Range(pushed[w]) /\ c \notin Range(pushed'[w])
        /\ Distinct(pushed'[w])
        /\ \A v \in Workers \ {w} : pushed'[v] = pushed[v]
    BY <1>2 DEF TypeOK, Consume
  <1>4. /\ phase' = [phase EXCEPT ![w] = "received"] /\ current' = [current EXCEPT ![w] = c]
        /\ UNCHANGED <<outcome, gone, queue, classifier, replies, said, lost>>
    BY DEF Consume
  <1> HIDE DEF c
  <1>5. c # NoCall
    BY <1>2, CallsAssumption
  <1>6. TypeOK'
    BY <1>2, <1>3, <1>4 DEF TypeOK, Phases
  <1>7. PlaceInv'
    <2>1. \A v \in Workers : Range(pushed'[v]) \subseteq Range(pushed[v]) /\ Distinct(pushed'[v])
      BY <1>3 DEF PlaceInv
    <2> QED
      BY <1>4, <2>1, Shrinks
  <1>8. /\ c \notin Range(queue) /\ \A v \in Workers \ {w} : c \notin Range(pushed[v])
        /\ \A v \in Workers : current[v] # c
    BY <1>2, <1>5 DEF PlaceInv, HeldInv
  <1>9. current'[w] = c /\ \A v \in Workers \ {w} : current'[v] = current[v]
    BY <1>4 DEF TypeOK
  <1>10. HeldInv'
    <2>1. \A v \in Workers : Range(pushed'[v]) \subseteq Range(pushed[v]) /\ c \notin Range(pushed'[v])
      BY <1>3, <1>8
    <2>2. ASSUME NEW u \in Workers, current'[u] # NoCall
          PROVE  /\ current'[u] \notin Range(queue')
                 /\ \A v \in Workers : current'[u] \notin Range(pushed'[v])
                 /\ \A v \in Workers : current'[v] = current'[u] => v = u
      <3>1. CASE u = w
        BY <1>4, <1>8, <1>9, <2>1, <3>1
      <3>2. CASE u # w
        BY <1>4, <1>8, <1>9, <2>1, <2>2, <3>2 DEF HeldInv
      <3> QED
        BY <3>1, <3>2
    <2> QED
      BY <2>2 DEF HeldInv
  <1>11. said[c] = "nothing" /\ outcome[c] # "none"
    BY <1>2 DEF SaidInv
  <1>12. HandInv'
    BY <1>4, <1>5, <1>9, <1>11 DEF TypeOK, HandInv
  <1>13. SaidInv' /\ ReplyInv'
    BY <1>3, <1>4, <1>9, <1>11 DEF SaidInv, ReplyInv
  <1> QED
    BY <1>6, <1>7, <1>10, <1>12, <1>13

-----------------------------------------------------------------------------
(* A thread handles its call.                                                 *)
LEMMA ConnectInv == ASSUME Inv, NEW w \in Workers, Connect(w) PROVE Inv'
  <1>1. TypeOK' /\ HandInv'
    BY DEF Inv, TypeOK, HandInv, Connect, Phases
  <1>2. PlaceInv' /\ HeldInv' /\ SaidInv' /\ ReplyInv'
    BY DEF Inv, PlaceInv, HeldInv, SaidInv, ReplyInv, Connect
  <1> QED
    BY <1>1, <1>2 DEF Inv

LEMMA DetectInv == ASSUME Inv, NEW w \in Workers, Detect(w) PROVE Inv'
  <1>1. TypeOK' /\ HandInv'
    BY DEF Inv, TypeOK, HandInv, Detect, Phases
  <1>2. PlaceInv' /\ HeldInv' /\ SaidInv' /\ ReplyInv'
    BY DEF Inv, PlaceInv, HeldInv, SaidInv, ReplyInv, Detect
  <1> QED
    BY <1>1, <1>2 DEF Inv

\* What a thread says, it says of the call in its hands, for the first time.
LEMMA Examined ==
  ASSUME Inv, NEW w \in Workers, Detected(w)
  PROVE  /\ current[w] \in Calls /\ said[current[w]] = "nothing"
         /\ outcome[current[w]] # "none"
         /\ \E v \in {"accepted", "rejected"} : said' = [said EXCEPT ![current[w]] = v]
  <1>1. current[w] \in Calls /\ said[current[w]] = "nothing"
    <2>1. phase[w] = "detecting"
      BY DEF Detected
    <2>2. current[w] # NoCall /\ said[current[w]] = "nothing"
      BY <2>1 DEF Inv, HandInv
    <2> QED
      BY <2>2 DEF Inv, TypeOK
  <1>2. outcome[current[w]] # "none"
    BY <1>1 DEF Inv, SaidInv
  <1>3. \E hasFace : said' = [said EXCEPT ![current[w]] = Verdict(hasFace)]
    BY DEF Detected
  <1> QED
    BY <1>1, <1>2, <1>3 DEF Verdict

LEMMA DetectedInv == ASSUME Inv, NEW w \in Workers, Detected(w) PROVE Inv'
  <1> USE DEF Inv
  <1> DEFINE c == current[w]
  <1>1. PICK v \in {"accepted", "rejected"} : said' = [said EXCEPT ![c] = v]
    BY Examined
  <1>2. c \in Calls /\ said[c] = "nothing" /\ outcome[c] # "none" /\ c # NoCall
    BY Examined, CallsAssumption
  <1>3. /\ phase[w] = "detecting" /\ phase' = [phase EXCEPT ![w] = "replying"]
        /\ UNCHANGED <<outcome, gone, queue, pushed, current, classifier, replies, lost>>
    BY DEF Detected
  <1>4. said'[c] = v /\ \A d \in Calls \ {c} : said'[d] = said[d]
    BY <1>1, <1>2 DEF TypeOK
  <1>5. TypeOK'
    BY <1>1, <1>2, <1>3 DEF TypeOK, Phases, Said
  <1>6. PlaceInv' /\ HeldInv'
    BY <1>3 DEF PlaceInv, HeldInv
  <1>7. \A u \in Workers \ {w} : current[u] # c
    BY <1>2 DEF HeldInv
  <1>8. HandInv'
    BY <1>2, <1>3, <1>4, <1>7 DEF TypeOK, HandInv
  <1>9. SaidInv'
    BY <1>2, <1>3, <1>4 DEF SaidInv, HeldInv
  <1>10. ReplyInv'
    <2>1. \A m \in replies : m.body # "nothing"
      BY DEF TypeOK
    <2> QED
      BY <1>2, <1>3, <1>4, <2>1 DEF ReplyInv
  <1> QED
    BY <1>5, <1>6, <1>8, <1>9, <1>10

-----------------------------------------------------------------------------
(* A thread lets go of its call and its channel, and goes on or ends.         *)
LEMMA CloseChannelInv ==
  ASSUME Inv, NEW w \in Workers, NEW to \in {"connecting", "ended"},
         phase' = [phase EXCEPT ![w] = to], CloseChannel(w),
         UNCHANGED <<outcome, gone, queue, classifier, said>>,
         replies' \subseteq [to : Clients, id : Ids, body : {"accepted", "rejected"}],
         ReplyInv'
  PROVE  Inv'
  <1> USE DEF Inv
  <1>1. /\ pushed' = [pushed EXCEPT ![w] = <<>>] /\ current' = [current EXCEPT ![w] = NoCall]
        /\ lost' = lost \cup Range(pushed[w])
    BY DEF CloseChannel
  <1>2. pushed[w] \in Seq(Calls) /\ Range(pushed[w]) \subseteq Calls
    BY InRange DEF TypeOK
  <1>3. /\ pushed'[w] = <<>> /\ current'[w] = NoCall
        /\ \A v \in Workers \ {w} : pushed'[v] = pushed[v] /\ current'[v] = current[v]
        /\ \A v \in Workers : Range(pushed'[v]) \subseteq Range(pushed[v]) /\ Distinct(pushed'[v])
    BY <1>1, EmptyRange DEF TypeOK, PlaceInv
  <1>4. TypeOK'
    BY <1>1, <1>2 DEF TypeOK, Phases
  <1>5. PlaceInv' /\ HeldInv'
    BY <1>3, CallsAssumption DEF PlaceInv, HeldInv
  <1>6. HandInv'
    BY <1>3 DEF TypeOK, HandInv
  <1>7. SaidInv'
    BY <1>3, CallsAssumption DEF SaidInv
  <1> QED
    BY <1>4, <1>5, <1>6, <1>7

\* What is published is what was said of the call that it is sent for.
LEMMA BasicPublishInv ==
  ASSUME Inv, NEW w \in Workers, BasicPublish(w), UNCHANGED said
  PROVE  ReplyInv' /\ replies' \subseteq [to : Clients, id : Ids, body : {"accepted", "rejected"}]
  <1> DEFINE c == current[w]
  <1>1. c \in Calls /\ said[c] \in {"accepted", "rejected"}
    BY DEF Inv, TypeOK, HandInv, BasicPublish, Said
  <1>2. Response(c) \in [to : Clients, id : Ids, body : {"accepted", "rejected"}]
    BY <1>1, CallsAssumption DEF Response
  <1>3. replies' = replies \cup {Response(c)} /\ said' = said
    BY DEF BasicPublish
  <1>4. \A d \in Calls : Response(c).to = d.client /\ Response(c).id = d.id
                            => Response(c).body = said[d]
    BY <1>1, CallIsItsIds DEF Response
  <1>5. ReplyInv'
    BY <1>3, <1>4 DEF Inv, ReplyInv
  <1>6. replies' \subseteq [to : Clients, id : Ids, body : {"accepted", "rejected"}]
    BY <1>2, <1>3 DEF Inv, TypeOK
  <1> QED
    BY <1>5, <1>6

LEMMA PublishInv == ASSUME Inv, NEW w \in Workers, Publish(w) PROVE Inv'
  <1>1. BasicPublish(w) /\ UNCHANGED said
    BY DEF Publish
  <1>2. ReplyInv' /\ replies' \subseteq [to : Clients, id : Ids, body : {"accepted", "rejected"}]
    BY <1>1, BasicPublishInv
  <1> QED
    BY <1>1, <1>2, CloseChannelInv DEF Publish, BasicPublish

LEMMA ThreadEndsInv ==
  ASSUME Inv, NEW w \in Workers, ReplyReturned(w) \/ ChannelFails(w) PROVE Inv'
  <1>1. ReplyInv' /\ replies' \subseteq [to : Clients, id : Ids, body : {"accepted", "rejected"}]
    <2>1. CASE UNCHANGED <<replies, said>>
      BY <2>1 DEF Inv, TypeOK, ReplyInv
    <2>2. CASE BasicPublish(w) /\ UNCHANGED said
      BY <2>2, BasicPublishInv
    <2> QED
      BY <2>1, <2>2 DEF ReplyReturned, ChannelFails
  <1> QED
    BY <1>1, CloseChannelInv DEF ReplyReturned, ChannelFails

LEMMA ProcessEndsInv == ASSUME Inv, ProcessEnds PROVE Inv'
  <1>1. \A w \in Workers : Range(pushed[w]) \cup {current[w]} \subseteq Calls \cup {NoCall}
    BY InRange DEF Inv, TypeOK
  <1>2. lost' \subseteq Calls
    BY <1>1 DEF Inv, TypeOK, ProcessEnds
  <1>3. TypeOK'
    BY <1>2 DEF Inv, TypeOK, Phases, ProcessEnds
  <1>4. PlaceInv' /\ HeldInv' /\ HandInv'
    BY EmptyRange DEF Inv, PlaceInv, HeldInv, HandInv, ProcessEnds
  <1>5. SaidInv' /\ ReplyInv'
    BY EmptyRange, CallsAssumption DEF Inv, SaidInv, ReplyInv, ProcessEnds
  <1> QED
    BY <1>3, <1>4, <1>5 DEF Inv

LEMMA NextInv == Inv /\ [Next]_vars => Inv'
  <1> SUFFICES ASSUME Inv, [Next]_vars PROVE Inv'
    OBVIOUS
  <1>1. ASSUME NEW c \in Calls, Call(c) \/ AskTimeout(c) PROVE Inv'
    BY <1>1, CallInv, AskTimeoutInv
  <1>2. ASSUME NEW m \in replies, ReplyArrives(m) PROVE Inv'
    BY <1>2, ReplyArrivesInv
  <1>3. ASSUME NEW client \in Clients, Disconnect(client) PROVE Inv'
    BY <1>3, DisconnectInv
  <1>4. ASSUME NEW w \in Workers, Push(w) \/ Thread(w) \/ ChannelFails(w) PROVE Inv'
    BY <1>4, PushInv, ConnectInv, ConsumeInv, DetectInv, DetectedInv, PublishInv, ThreadEndsInv
    DEF Thread
  <1>5. CASE ProcessEnds
    BY <1>5, ProcessEndsInv
  <1>6. CASE UNCHANGED vars
    BY <1>6 DEF vars, Inv, TypeOK, PlaceInv, HeldInv, HandInv, SaidInv, ReplyInv
  <1> QED
    BY <1>1, <1>2, <1>3, <1>4, <1>5, <1>6 DEF Next

(* The invariant holds of the recogniser and its broker, whatever fails:      *)
(* connections, channels, threads or the process (rabbit.cpp:25-47).          *)
THEOREM Invariance == Spec => []Inv
  <1> QED
    BY InitInv, NextInv, PTL DEF Spec

(* Every variable keeps its type; a reply always carries a verdict.           *)
THEOREM TypeCorrect == Spec => []TypeOK
  <1>1. Inv => TypeOK
    BY DEF Inv
  <1> QED
    BY <1>1, Invariance, PTL

-----------------------------------------------------------------------------
(* OnePlace: what is apart is counted once.                                   *)
LEMMA OnceAtMost ==
  ASSUME NEW q, Distinct(q), NEW c
  PROVE  /\ Occurrences(c, q) \in {0, 1}
         /\ c \notin Range(q) => Occurrences(c, q) = 0
  <1> DEFINE s == {i \in DOMAIN q : q[i] = c}
  <1>1. c \notin Range(q) => s = {}
    BY DEF Range
  <1>2. s = {} \/ \E i \in DOMAIN q : s = {i}
    BY DEF Distinct
  <1>3. Cardinality(s) \in {0, 1} /\ (c \notin Range(q) => Cardinality(s) = 0)
    <2> HIDE DEF s
    <2> QED
      BY <1>1, <1>2, FS_EmptySet, FS_Singleton
  <1> QED
    BY <1>3 DEF Occurrences

LEMMA SomewhereOnce == Inv => OnePlace
  <1> SUFFICES ASSUME Inv, NEW c \in Calls
               PROVE  /\ Occurrences(c, queue) + Cardinality(Channels(c))
                           + Cardinality(Holders(c)) <= 1
                      /\ \A w \in Workers : Occurrences(c, pushed[w]) <= 1
                      /\ said[c] # "nothing" =>
                            /\ c \notin Range(queue) /\ Channels(c) = {}
                            /\ \A w \in Holders(c) : phase[w] = "replying"
    BY DEF OnePlace
  <1> USE CallsAssumption
  <1>1. /\ Channels(c) = {} \/ \E w \in Workers : Channels(c) = {w}
        /\ c \in Range(queue) => Channels(c) = {}
    BY DEF Inv, PlaceInv, Channels
  <1>2. /\ Holders(c) = {} \/ \E w \in Workers : Holders(c) = {w}
        /\ Holders(c) # {} => c \notin Range(queue) /\ Channels(c) = {}
    BY DEF Inv, HeldInv, Holders, Channels
  <1>3. /\ Occurrences(c, queue) \in {0, 1}
        /\ c \notin Range(queue) => Occurrences(c, queue) = 0
        /\ \A w \in Workers : Occurrences(c, pushed[w]) <= 1
    <2>1. Distinct(queue) /\ \A w \in Workers : Distinct(pushed[w])
      BY DEF Inv, PlaceInv
    <2>2. \A w \in Workers : Occurrences(c, pushed[w]) \in {0, 1}
      BY <2>1, OnceAtMost
    <2> QED
      BY <2>1, <2>2, OnceAtMost
  <1>4. /\ Cardinality(Channels(c)) \in {0, 1} /\ (Channels(c) = {} => Cardinality(Channels(c)) = 0)
        /\ Cardinality(Holders(c)) \in {0, 1} /\ (Holders(c) = {} => Cardinality(Holders(c)) = 0)
    BY <1>1, <1>2, FS_EmptySet, FS_Singleton
  <1>5. Occurrences(c, queue) + Cardinality(Channels(c)) + Cardinality(Holders(c)) <= 1
    BY <1>1, <1>2, <1>3, <1>4
  <1>6. ASSUME said[c] # "nothing"
        PROVE  /\ c \notin Range(queue) /\ Channels(c) = {}
               /\ \A w \in Holders(c) : phase[w] = "replying"
    <2>1. \A w \in Holders(c) : phase[w] \in Phases \ {"connecting", "consuming", "ended"}
      BY DEF Inv, TypeOK, HandInv, Holders
    <2> QED
      BY <1>6, <2>1 DEF Inv, SaidInv, HandInv, Channels, Holders, Phases
  <1> QED
    BY <1>3, <1>5, <1>6

(* A call is in one place only, and its image is examined at most once, by    *)
(* one thread (rabbit.cpp:30-39).                                             *)
THEOREM OnePlaceAtATime == Spec => []OnePlace
  BY SomewhereOnce, Invariance, PTL

-----------------------------------------------------------------------------
(* The refinement of RpcPromise.                                              *)

\* A reply ends the one call that it carries the queue and the id of.
LEMMA ReplyAnswers ==
  ASSUME Inv, NEW m \in replies, ReplyArrives(m)
  PROVE  Promise!Next \/ UNCHANGED Promise!vars
  <1> DEFINE Meant(c) == c.client = m.to /\ c.id = m.id /\ outcome[c] = "waiting"
  <1>1. /\ outcome' = [c \in Calls |-> IF Meant(c) THEN m.body ELSE outcome[c]]
        /\ said' = said
    BY DEF ReplyArrives
  <1>2. outcome = [c \in Calls |-> outcome[c]]
    BY DEF Inv, TypeOK
  <1>3. CASE \A c \in Calls : ~Meant(c)
    BY <1>1, <1>2, <1>3 DEF Promise!vars
  <1>4. ASSUME NEW c \in Calls, Meant(c) PROVE Promise!Next
    <2>1. m.body = said[c] /\ m.body \in {"accepted", "rejected"}
      BY <1>4 DEF Inv, TypeOK, ReplyInv
    <2>2. \A d \in Calls : Meant(d) => d = c
      BY <1>4, CallIsItsIds
    <2>3. outcome' = [outcome EXCEPT ![c] = said[c]]
      BY <1>1, <1>2, <1>4, <2>1, <2>2
    <2>4. Promise!Answer(c)
      BY <1>1, <1>4, <2>1, <2>3 DEF Promise!Answer, Promise!Verdicts
    <2> QED
      BY <2>4 DEF Promise!Next
  <1> QED
    BY <1>3, <1>4

LEMMA StepIsPromised == Inv /\ [Next]_vars => [Promise!Next]_Promise!vars
  <1> SUFFICES ASSUME Inv, [Next]_vars PROVE Promise!Next \/ UNCHANGED Promise!vars
    OBVIOUS
  <1>1. ASSUME NEW c \in Calls, Call(c) \/ AskTimeout(c) PROVE Promise!Next
    <2>1. Promise!Call(c) \/ Promise!Fail(c)
      BY <1>1 DEF Call, AskTimeout, Promise!Call, Promise!Fail
    <2> QED
      BY <2>1 DEF Promise!Next
  <1>2. ASSUME NEW w \in Workers, Detected(w) PROVE Promise!Next
    <2>1. PICK v \in {"accepted", "rejected"} : said' = [said EXCEPT ![current[w]] = v]
      BY <1>2, Examined
    <2>2. Promise!Examine(current[w], v) /\ current[w] \in Calls
      BY <1>2, <2>1, Examined DEF Detected, Promise!Examine
    <2> QED
      BY <2>1, <2>2 DEF Promise!Next, Promise!Verdicts
  <1>3. ASSUME NEW m \in replies, ReplyArrives(m) PROVE Promise!Next \/ UNCHANGED Promise!vars
    BY <1>3, ReplyAnswers
  <1>4. ASSUME NEW client \in Clients, Disconnect(client) PROVE UNCHANGED Promise!vars
    BY <1>4 DEF Disconnect, Promise!vars
  <1>5. ASSUME NEW w \in Workers, Push(w) \/ Thread(w) \/ ChannelFails(w), ~Detected(w)
        PROVE  UNCHANGED Promise!vars
    BY <1>5 DEF Push, Thread, Connect, Consume, Detect, Publish, ReplyReturned, ChannelFails,
                Promise!vars
  <1>6. CASE ProcessEnds
    BY <1>6 DEF ProcessEnds, Promise!vars
  <1>7. CASE UNCHANGED vars
    BY <1>7 DEF vars, Promise!vars
  <1> QED
    BY <1>1, <1>2, <1>3, <1>4, <1>5, <1>6, <1>7 DEF Next

(* A caller gets what was said of its own call, or a failure, and once only,  *)
(* though correlation ids are unique per client only (rabbit.cpp:19-22).      *)
THEOREM RpcPromiseKept == Spec => KeepsRpcPromise
  <1>1. Init => Promise!Init
    BY DEF Init, Promise!Init
  <1> QED
    BY <1>1, StepIsPromised, Invariance, PTL DEF Spec, KeepsRpcPromise, Promise!Spec

=============================================================================
