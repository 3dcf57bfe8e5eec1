--------------------------- MODULE Server_proofs ---------------------------
(* What the server's customer routes, its graph database and its reports      *)
(* keep.  They share nothing, and each part is a proof of its own: for any    *)
(* number of calls, tokens and customers, whatever the login actor does to    *)
(* the tokens meanwhile; for any number of fixtures at the same time; for     *)
(* expressions of any depth and any length.                                   *)
EXTENDS MCServer, SequenceLemmas, FiniteSetTheorems, TLAPS

-----------------------------------------------------------------------------
(* Customers.                                                                 *)

(* The inductive invariant: a call has done nothing before it is answered; a  *)
(* call that was made with a dead token is still waiting for the check, or    *)
(* was rejected; one whose ask timed out is done with; what was in the         *)
(* collection stays there.                                                    *)
AnsweredInv == \A c \in Calls : answer[c] # "none" <=> phase[c] = "answered"

PhaseInv ==
    \A c \in Calls :
        /\ phase[c] = "authenticating" =>
              request[c].route = "post" /\ request[c].token \in Tokens
        /\ phase[c] = "registering" => request[c].route = "register"
        /\ phase[c] = "called" /\ request[c].route = "post" => request[c].body \in CustomerIds

WroteInv ==
    \A c \in wrote :
        /\ phase[c] = "answered" /\ answer[c] \in {"200", "StoreFails"}
        /\ kindOf[request[c].token] = request[c].body

LateInv ==
    \A c \in late :
        /\ request[c].token \in Tokens /\ status[request[c].token] = "dead"
        /\ phase[c] \in {"authenticating", "answered"}
        /\ answer[c] \in {"none", "405", "AskTimeout"}
        /\ c \notin wrote

TimedOutInv ==
    \A c \in timedOut : phase[c] = "answered" /\ answer[c] = "AskTimeout" /\ c \notin wrote

WriterInv ==
    /\ \A id \in CustomerIds, c \in Calls :
          writer[id] = By(c) => c \in wrote /\ request[c].body = id
    /\ \A id \in Initially : writer[id] # Missing

UpdatedInv ==
    \A c \in Calls :
        answer[c] = "200" /\ request[c].route = "post" /\ c \notin wrote =>
            request[c].body \notin Initially

CustomersInv ==
    /\ CustomersTypeOK
    /\ AnsweredInv /\ PhaseInv /\ WroteInv /\ LateInv /\ TimedOutInv /\ WriterInv
    /\ UpdatedInv

(* The three kinds of writers are told apart.                                 *)
LEMMA Writers ==
  /\ Missing # Original
  /\ \A c \in Calls : By(c) # Missing /\ By(c) # Original
  /\ \A c, d \in Calls : By(c) = By(d) => c = d
  BY DEF Missing, Original, By

\* It holds before the first call.
LEMMA CustomersInitInv == CustomersInit => CustomersInv
  <1> SUFFICES ASSUME CustomersInit PROVE CustomersInv
    OBVIOUS
  <1> USE Writers, InitiallyAssumption DEF CustomersInit
  <1>1. CustomersTypeOK
    BY DEF CustomersTypeOK, Login!Init, NoRequest
  <1>2. AnsweredInv /\ PhaseInv /\ WroteInv /\ LateInv /\ TimedOutInv /\ UpdatedInv
    BY DEF AnsweredInv, PhaseInv, WroteInv, LateInv, TimedOutInv, UpdatedInv, NoRequest
  <1>3. WriterInv
    BY DEF WriterInv
  <1> QED
    BY <1>1, <1>2, <1>3 DEF CustomersInv

-----------------------------------------------------------------------------
(* A call that is made has done nothing yet.                                  *)
LEMMA MakeKeeps ==
  ASSUME CustomersInv, NEW c \in Calls,
         NEW req \in [route : {"get", "post", "register"}, token : Tokens \cup {NoToken},
                      path : CustomerIds \cup {NoId}, body : CustomerIds \cup {NoId}],
         NEW where \in {"authenticating", "registering", "called", "answered"},
         NEW code \in {"none", "405"},
         Make(c, req),
         phase' = [phase EXCEPT ![c] = where], answer' = [answer EXCEPT ![c] = code],
         code = "405" <=> where = "answered",
         where = "authenticating" => req.route = "post" /\ req.token \in Tokens,
         where = "registering" => req.route = "register",
         where # "called" \/ req.route # "post",
         where \in {"registering", "called"} => req.token = NoToken
  PROVE  CustomersInv'
  <1> USE NoneAssumption DEF CustomersInv, Make, tokenVars
  <1>0. c \notin wrote /\ c \notin late /\ c \notin timedOut /\ phase[c] = "unmade"
    BY DEF WroteInv, LateInv, TimedOutInv
  <1>1. CustomersTypeOK'
    BY DEF CustomersTypeOK
  <1>2. AnsweredInv'
    BY DEF CustomersTypeOK, AnsweredInv
  <1>3. PhaseInv'
    BY DEF CustomersTypeOK, PhaseInv
  <1>4. \A d \in Calls \ {c} : /\ request'[d] = request[d] /\ phase'[d] = phase[d]
                               /\ answer'[d] = answer[d]
    BY DEF CustomersTypeOK
  <1>5. WroteInv'
    BY <1>0, <1>4 DEF CustomersTypeOK, WroteInv
  <1>6. LateInv'
    <2> SUFFICES ASSUME NEW d \in late'
                 PROVE  /\ request'[d].token \in Tokens /\ status'[request'[d].token] = "dead"
                        /\ phase'[d] \in {"authenticating", "answered"}
                        /\ answer'[d] \in {"none", "405", "AskTimeout"}
                        /\ d \notin wrote'
      BY DEF LateInv
    <2>1. CASE d = c
      BY <2>1, <1>0 DEF CustomersTypeOK
    <2>2. CASE d # c
      BY <2>2, <1>4 DEF CustomersTypeOK, LateInv
    <2> QED
      BY <2>1, <2>2
  <1>7. WriterInv'
    BY <1>0, <1>4 DEF CustomersTypeOK, WriterInv
  <1>8. UpdatedInv'
    BY <1>4 DEF CustomersTypeOK, UpdatedInv
  <1>9. TimedOutInv'
    BY <1>0, <1>4 DEF CustomersTypeOK, TimedOutInv
  <1> QED
    BY <1>1, <1>2, <1>3, <1>5, <1>6, <1>7, <1>8, <1>9

(* A call that is answered without a write: a post is not answered with 200,  *)
(* unless its document is missing.                                            *)
LEMMA FinishKeeps ==
  ASSUME CustomersInv, NEW c \in Calls,
         NEW code \in {"200", "400", "405", "NoSuchElement", "IllegalArgument", "AskTimeout",
                       "StoreFails"},
         Finish(c, code), phase[c] # "answered", phase[c] # "unmade",
         UNCHANGED <<writer, wrote>>,
         timedOut' = IF code = "AskTimeout" THEN timedOut \cup {c} ELSE timedOut,
         c \in late => code \in {"405", "AskTimeout"},
         code = "200" /\ request[c].route = "post" => request[c].body \notin Initially
  PROVE  CustomersInv'
  <1> USE DEF CustomersInv, Finish, Respond, tokenVars
  <1>0. c \notin wrote /\ c \notin timedOut
    BY DEF WroteInv, TimedOutInv
  <1>1. CustomersTypeOK'
    BY DEF CustomersTypeOK
  <1>2. AnsweredInv' /\ PhaseInv'
    BY DEF CustomersTypeOK, AnsweredInv, PhaseInv
  <1>3. WroteInv' /\ LateInv'
    BY <1>0 DEF CustomersTypeOK, WroteInv, LateInv
  <1>4. WriterInv' /\ UpdatedInv'
    BY <1>0 DEF CustomersTypeOK, WriterInv, UpdatedInv
  <1>5. TimedOutInv'
    BY <1>0 DEF CustomersTypeOK, TimedOutInv
  <1> QED
    BY <1>1, <1>2, <1>3, <1>4, <1>5

(* A call that is answered with a write: it is the user's own customer, and   *)
(* the user's token was checked.                                              *)
LEMMA WriteKeeps ==
  ASSUME CustomersInv, NEW c \in Calls, NEW code \in {"200", "StoreFails"},
         Finish(c, code), phase[c] = "called", UNCHANGED timedOut,
         kindOf[request[c].token] = request[c].body, request[c].body \in CustomerIds,
         writer' = [writer EXCEPT ![request[c].body] = By(c)], wrote' = wrote \cup {c}
  PROVE  CustomersInv'
  <1> USE DEF CustomersInv, Finish, Respond, tokenVars
  <1>0. c \notin late /\ c \notin wrote /\ c \notin timedOut
    BY DEF WroteInv, LateInv, TimedOutInv
  <1>1. CustomersTypeOK'
    BY DEF CustomersTypeOK
  <1>2. AnsweredInv' /\ PhaseInv'
    BY DEF CustomersTypeOK, AnsweredInv, PhaseInv
  <1>3. WroteInv'
    BY DEF CustomersTypeOK, WroteInv
  <1>4. LateInv'
    BY <1>0 DEF CustomersTypeOK, LateInv
  <1>5. WriterInv'
    BY Writers, InitiallyAssumption DEF CustomersTypeOK, WriterInv
  <1>6. UpdatedInv'
    BY DEF CustomersTypeOK, UpdatedInv
  <1>7. TimedOutInv'
    BY <1>0 DEF CustomersTypeOK, TimedOutInv
  <1> QED
    BY <1>1, <1>2, <1>3, <1>4, <1>5, <1>6, <1>7

-----------------------------------------------------------------------------
(* Tokens that are dead stay dead, and the routes do not care for the rest.   *)
LEMMA LoginKeeps ==
  ASSUME CustomersInv, LoginActs
  PROVE  CustomersInv'
  <1> USE DEF CustomersInv, LoginActs
  <1>1. /\ status' \in [Tokens -> {"unused", "partial", "full", "dead"}]
        /\ \A t \in Tokens : status[t] = "dead" => status'[t] = "dead"
    <2>1. CASE \E t \in Tokens, how \in {"partial", "full"} : Login!Issue(t, how)
      BY <2>1 DEF CustomersTypeOK, Login!Issue
    <2>2. CASE \E t, new \in Tokens : Login!Exchange(t, new)
      BY <2>2 DEF CustomersTypeOK, Login!Exchange
    <2>3. CASE \E ts \in SUBSET Tokens : Login!Revoke(ts)
      BY <2>3 DEF CustomersTypeOK, Login!Revoke
    <2> QED
      BY <2>1, <2>2, <2>3
  <1>2. CustomersTypeOK'
    BY <1>1 DEF CustomersTypeOK
  <1>3. AnsweredInv' /\ PhaseInv' /\ WroteInv' /\ TimedOutInv' /\ WriterInv' /\ UpdatedInv'
    BY DEF AnsweredInv, PhaseInv, WroteInv, TimedOutInv, WriterInv, UpdatedInv
  <1>4. LateInv'
    BY <1>1 DEF LateInv
  <1> QED
    BY <1>2, <1>3, <1>4

\* It is kept by a call that is made, or goes on ...
LEMMA MadeKeeps ==
  ASSUME CustomersInv, NEW c \in Calls, CallsNext(c)
  PROVE  CustomersInv'
  <1> USE NoneAssumption
  <1>0. phase \in [Calls -> {"unmade", "authenticating", "registering", "called", "answered"}]
        /\ answer \in [Calls -> {"none", "200", "400", "405", "NoSuchElement", "IllegalArgument",
                              "AskTimeout", "StoreFails"}]
    BY DEF CustomersInv, CustomersTypeOK
  <1>1. ASSUME phase[c] = "unmade", UNCHANGED answer
        PROVE  answer' = [answer EXCEPT ![c] = "none"]
    BY <1>0, <1>1 DEF CustomersInv, AnsweredInv
  <1>2. ASSUME NEW id \in CustomerIds, GetCustomer(c, id)
        PROVE  CustomersInv'
    <2> DEFINE req == [route |-> "get", token |-> NoToken, path |-> id, body |-> NoId]
    <2>1. /\ Make(c, req) /\ phase' = [phase EXCEPT ![c] = "called"]
          /\ answer' = [answer EXCEPT ![c] = "none"]
      BY <1>1, <1>2 DEF GetCustomer, Make
    <2> QED
      BY <2>1, MakeKeeps
  <1>3. ASSUME NEW query \in Tokens \cup {NoToken}, NEW header \in Tokens \cup {NoToken},
               NEW id \in CustomerIds, NEW body \in CustomerIds \cup {NoId},
               PostCustomer(c, GetToken(query, header), id, body)
        PROVE  CustomersInv'
    <2> DEFINE token == GetToken(query, header)
    <2> DEFINE req == [route |-> "post", token |-> token, path |-> id, body |-> body]
    <2>1. token \in Tokens \cup {NoToken}
      BY DEF GetToken
    <2>2. CASE token = NoToken
      <3>1. /\ Make(c, req) /\ phase' = [phase EXCEPT ![c] = "answered"]
            /\ answer' = [answer EXCEPT ![c] = "405"]
        BY <1>3, <2>2 DEF PostCustomer, Respond
      <3> QED
        BY <2>1, <3>1, MakeKeeps
    <2>3. CASE token # NoToken
      <3>1. /\ Make(c, req) /\ phase' = [phase EXCEPT ![c] = "authenticating"]
            /\ answer' = [answer EXCEPT ![c] = "none"]
        BY <1>1, <1>3, <2>3 DEF PostCustomer, Make
      <3> QED
        BY <2>1, <2>3, <3>1, MakeKeeps
    <2> QED
      BY <2>2, <2>3
  <1>4. ASSUME RegisterUser(c)
        PROVE  CustomersInv'
    <2> DEFINE req == [route |-> "register", token |-> NoToken, path |-> NoId, body |-> NoId]
    <2>1. /\ Make(c, req) /\ phase' = [phase EXCEPT ![c] = "registering"]
          /\ answer' = [answer EXCEPT ![c] = "none"]
      BY <1>1, <1>4 DEF RegisterUser, Make
    <2> QED
      BY <2>1, MakeKeeps
  <1> QED
    BY <1>2, <1>3, <1>4 DEF CallsNext

\* ... and by an actor that answers one.
LEMMA ServedKeeps ==
  ASSUME CustomersInv, NEW c \in Calls, Serve(c)
  PROVE  CustomersInv'
  <1> DEFINE id == request[c].body
  <1>0. /\ c \in late => phase[c] \in {"authenticating", "answered"}
        /\ c \in late => ~InStore(request[c].token)
    BY DEF CustomersInv, LateInv, InStore
  <1>1. CASE CheckToken(c)
    <2>1. phase[c] = "authenticating" /\ UNCHANGED <<writer, wrote, timedOut>>
      BY <1>1 DEF CheckToken
    <2>2. CASE InStore(request[c].token) /\ request[c].body # NoId /\ HandleWith(c)
      <3> USE <1>0, <2>1, <2>2 DEF CustomersInv, HandleWith, tokenVars
      <3>1. CustomersTypeOK'
        BY DEF CustomersTypeOK
      <3>2. AnsweredInv' /\ PhaseInv' /\ WroteInv' /\ LateInv' /\ TimedOutInv'
        BY DEF CustomersTypeOK, AnsweredInv, PhaseInv, WroteInv, LateInv, TimedOutInv
      <3>3. WriterInv' /\ UpdatedInv'
        BY DEF WriterInv, UpdatedInv
      <3> QED
        BY <3>1, <3>2, <3>3
    <2>3. CASE InStore(request[c].token) /\ request[c].body = NoId /\ HandleWith(c)
      <3>1. Finish(c, "400")
        BY <2>3 DEF HandleWith
      <3> QED
        BY <1>0, <2>1, <2>3, <3>1, FinishKeeps
    <2>4. CASE Finish(c, "405")
      BY <2>1, <2>4, FinishKeeps
    <2> QED
      BY <1>1, <2>2, <2>3, <2>4 DEF CheckToken
  <1>2. CASE AskTimesOut(c)
    <2>1. /\ Finish(c, "AskTimeout") /\ UNCHANGED <<writer, wrote>>
          /\ timedOut' = timedOut \cup {c}
          /\ phase[c] \in {"authenticating", "registering"}
      BY <1>2 DEF AskTimesOut
    <2> QED
      BY <2>1, FinishKeeps
  <1>3. CASE Get(c)
    <2> DEFINE code == IF writer[request[c].path] = Missing THEN "NoSuchElement" ELSE "200"
    <2>1. /\ Finish(c, code) /\ UNCHANGED <<writer, wrote, timedOut>>
          /\ phase[c] = "called" /\ request[c].route = "get"
      BY <1>3 DEF Get
    <2>2. code \in {"NoSuchElement", "200"}
      OBVIOUS
    <2> QED
      BY <1>0, <2>1, <2>2, FinishKeeps
  <1>4. ASSUME NEW code \in {"200", "StoreFails"}, phase[c] = "called", Finish(c, code),
               UNCHANGED timedOut,
               kindOf[request[c].token] = id, id \in CustomerIds,
               FindAndReplace(c, id)
        PROVE  CustomersInv'
    <2>1. CASE writer[id] = Missing
      <3>1. id \notin Initially
        BY <2>1 DEF CustomersInv, WriterInv
      <3> QED
        BY <1>0, <1>4, <2>1, <3>1, FinishKeeps DEF FindAndReplace
    <2>2. CASE writer[id] # Missing
      BY <1>4, <2>2, WriteKeeps DEF FindAndReplace
    <2> QED
      BY <2>1, <2>2
  <1>5. CASE Update(c)
    <2>1. CASE kindOf[request[c].token] = id
      <3>1. id \in CustomerIds
        BY <1>5 DEF Update, CustomersInv, PhaseInv
      <3> QED
        BY <1>4, <1>5, <2>1, <3>1 DEF Update
    <2>2. CASE kindOf[request[c].token] # id
      <3>1. Finish(c, "IllegalArgument") /\ UNCHANGED <<writer, wrote, timedOut>> /\ phase[c] = "called"
        BY <1>5, <2>2 DEF Update
      <3> QED
        BY <1>0, <3>1, FinishKeeps
    <2> QED
      BY <2>1, <2>2
  <1>6. CASE StoreFails(c)
    <2>1. CASE UNCHANGED <<writer, wrote>>
      BY <1>0, <1>6, <2>1, FinishKeeps DEF StoreFails
    <2>2. CASE ~UNCHANGED <<writer, wrote>>
      <3>1. /\ Finish(c, "StoreFails") /\ UNCHANGED timedOut
            /\ phase[c] = "called" /\ request[c].route = "post"
            /\ kindOf[request[c].token] = id /\ FindAndReplace(c, id)
        BY <1>6, <2>2 DEF StoreFails
      <3>2. id \in CustomerIds
        BY <3>1 DEF CustomersInv, PhaseInv
      <3> QED
        BY <1>4, <3>1, <3>2
    <2> QED
      BY <2>1, <2>2
  <1> QED
    BY <1>1, <1>2, <1>3, <1>5, <1>6 DEF Serve

-----------------------------------------------------------------------------
(* The invariant holds in every state, and with it what the run checks of the *)
(* customer routes.                                                           *)
THEOREM CustomersInvariant == CustomersSpec => []CustomersInv
  <1>1. CustomersInv /\ [CustomersNext]_customerVars => CustomersInv'
    <2> SUFFICES ASSUME CustomersInv, [CustomersNext]_customerVars
                 PROVE  CustomersInv'
      OBVIOUS
    <2>1. ASSUME NEW c \in Calls, CallsNext(c)
          PROVE  CustomersInv'
      BY <2>1, MadeKeeps
    <2>2. ASSUME NEW c \in Calls, Serve(c)
          PROVE  CustomersInv'
      BY <2>2, ServedKeeps
    <2>3. CASE LoginActs
      BY <2>3, LoginKeeps
    <2>4. CASE UNCHANGED customerVars
      <3> USE <2>4 DEF customerVars, CustomersInv
      <3>1. CustomersTypeOK'
        BY DEF CustomersTypeOK
      <3>2. AnsweredInv' /\ PhaseInv' /\ WroteInv' /\ LateInv' /\ TimedOutInv'
        BY DEF AnsweredInv, PhaseInv, WroteInv, LateInv, TimedOutInv
      <3>3. WriterInv' /\ UpdatedInv'
        BY DEF WriterInv, UpdatedInv
      <3> QED
        BY <3>1, <3>2, <3>3
    <2> QED
      BY <2>1, <2>2, <2>3, <2>4 DEF CustomersNext
  <1> QED
    BY <1>1, CustomersInitInv, PTL DEF CustomersSpec

(* WrittenByItself, for any number of calls: whoever wrote a document was the *)
(* customer in it (core/customer.scala:42).                                   *)
THEOREM OwnCustomerOnly == CustomersSpec => []WrittenByItself
  <1>1. CustomersInv => WrittenByItself
    BY DEF CustomersInv, WriterInv, WroteInv, WrittenByItself
  <1> QED
    BY <1>1, CustomersInvariant, PTL

(* AnswerTellsTheEffect: a call whose ask timed out keeps that answer and     *)
(* writes nothing, whenever the login actor answers; one that was rejected    *)
(* has written nothing, and a success that wrote nothing had nothing to       *)
(* replace (api/authentication.scala:117, core/customer.scala:43).            *)
THEOREM AnswersAreTrue == CustomersSpec => []AnswerTellsTheEffect
  <1>1. CustomersInv => AnswerTellsTheEffect
    BY DEF CustomersInv, CustomersTypeOK, WroteInv, TimedOutInv, UpdatedInv,
           AnswerTellsTheEffect
  <1> QED
    BY <1>1, CustomersInvariant, PTL

(* LoggedOutIsRejected: no order of checks, updates and logouts lets a call   *)
(* through that was made with a dead token (api/authentication.scala:117).    *)
THEOREM DeadTokensRejected == CustomersSpec => []LoggedOutIsRejected
  <1>1. CustomersInv => LoggedOutIsRejected
    BY DEF CustomersInv, LateInv, LoggedOutIsRejected
  <1> QED
    BY <1>1, CustomersInvariant, PTL

-----------------------------------------------------------------------------
(* UserGraph.                                                                 *)

(* The inductive invariant.  An entry that is put but not committed is under  *)
(* a key that nobody else can put, as its lock is held; a fixture that has    *)
(* passed a key has put it or found it, and so it puts both or none.          *)
AtMostOne(s) == s = {} \/ \E f \in Fixtures : s = {f}

PutInv ==
    \A f \in Fixtures, key \in Keys :
        key \in put[f] => holder[key] = f /\ entry[key] = {}

PassedInv ==
    \A f \in Fixtures :
        /\ step[f] \in {"putUsername", "putIdAgain", "commit"} =>
              "id" \in put[f] \/ entry["id"] # {}
        /\ step[f] \in {"putIdAgain", "commit"} =>
              "username" \in put[f] \/ entry["username"] # {}
        /\ step[f] \in {"begin", "createNode", "putId", "done", "failed"} => put[f] = {}
        /\ step[f] = "putUsername" => "username" \notin put[f]
        /\ step[f] = "done" => entry["username"] # {}

UserGraphInv ==
    /\ UserGraphTypeOK
    /\ entry["id"] = entry["username"] /\ AtMostOne(entry["id"])
    /\ PutInv /\ PassedInv

\* It holds while the graph is empty.
LEMMA UserGraphInitInv == UserGraphInit => UserGraphInv
  BY NobodyAssumption
  DEF UserGraphInit, UserGraphInv, UserGraphTypeOK, AtMostOne, PutInv, PassedInv, Keys

(* A put takes the key of nobody else, as the holder of its lock is this one. *)
LEMMA PutKeeps ==
  ASSUME UserGraphInv, NEW f \in Fixtures, NEW key \in Keys, NEW to,
         PutIfAbsent(f, key), Goto(f, to),
         \/ step[f] = "putId" /\ key = "id" /\ to = "putUsername"
         \/ step[f] = "putUsername" /\ key = "username" /\ to = "putIdAgain"
         \/ step[f] = "putIdAgain" /\ key = "id" /\ to = "commit"
  PROVE  UserGraphInv'
  <1> USE NobodyAssumption DEF UserGraphInv, Keys, Goto
  <1>1. CASE UNCHANGED <<put, holder, entry>> /\ (entry[key] # {} \/ key \in put[f])
    <2>1. UserGraphTypeOK' /\ (entry["id"] = entry["username"])' /\ AtMostOne(entry["id"])'
      BY <1>1 DEF UserGraphTypeOK, AtMostOne
    <2>2. PutInv'
      BY <1>1 DEF PutInv
    <2>3. PassedInv'
      BY <1>1 DEF PassedInv, PutInv, UserGraphTypeOK
    <2> QED
      BY <2>1, <2>2, <2>3
  <1>2. CASE /\ entry[key] = {} /\ key \notin put[f]
             /\ holder[key] \in {Nobody, f} /\ holder' = [holder EXCEPT ![key] = f]
             /\ put' = [put EXCEPT ![f] = @ \cup {key}] /\ UNCHANGED entry
    <2>1. UserGraphTypeOK' /\ (entry["id"] = entry["username"])' /\ AtMostOne(entry["id"])'
      BY <1>2 DEF UserGraphTypeOK, AtMostOne
    <2>2. PutInv'
      BY <1>2 DEF PutInv, UserGraphTypeOK
    <2>3. PassedInv'
      BY <1>2 DEF PassedInv, PutInv, UserGraphTypeOK
    <2> QED
      BY <2>1, <2>2, <2>3
  <1> QED
    BY <1>1, <1>2 DEF PutIfAbsent

\* An index has at most the one entry that is put under a key.
LEMMA FindIsOne ==
  ASSUME UserGraphInv, NEW key \in Keys
  PROVE  Find(key) = entry[key] /\ Cardinality(entry[key]) <= 1
  <1>1. AtMostOne(entry[key])
    BY DEF UserGraphInv, Keys
  <1>2. CASE entry[key] = {}
    BY <1>2, FS_EmptySet DEF Find
  <1>3. CASE \E f \in Fixtures : entry[key] = {f}
    <2> PICK f \in Fixtures : entry[key] = {f}
      BY <1>3
    <2>1. Cardinality({f}) = 1
      BY FS_Singleton
    <2> QED
      BY <2>1 DEF Find
  <1> QED
    BY <1>1, <1>2, <1>3 DEF AtMostOne

(* A commit adds both entries or none, to an index that has none.             *)
LEMMA CommitKeeps ==
  ASSUME UserGraphInv, NEW f \in Fixtures, Commit(f)
  PROVE  UserGraphInv'
  <1> USE NobodyAssumption DEF UserGraphInv, Keys, Goto, Commit, EndTransaction, Locks, Entries
  <1>1. CASE put[f] = {}
    <2>1. entry' = entry
      BY <1>1 DEF UserGraphTypeOK
    <2>2. UserGraphTypeOK' /\ AtMostOne(entry["id"])' /\ PutInv'
      BY <2>1 DEF UserGraphTypeOK, AtMostOne, PutInv
    <2>3. PassedInv'
      BY <1>1, <2>1 DEF UserGraphTypeOK, PassedInv
    <2> QED
      BY <2>1, <2>2, <2>3
  <1>2. CASE put[f] # {}
    <2>1. "id" \in put[f] /\ "username" \in put[f] /\ entry["id"] = {} /\ entry["username"] = {}
      BY <1>2 DEF UserGraphTypeOK, PutInv, PassedInv
    <2>2. entry' = [key \in Keys |-> {f}]
      BY <2>1
    <2>3. \A g \in Fixtures \ {f} : put[g] = {}
      BY <2>1 DEF PutInv, UserGraphTypeOK
    <2>4. UserGraphTypeOK' /\ AtMostOne(entry["id"])' /\ (entry["id"] = entry["username"])'
      BY <2>2 DEF UserGraphTypeOK, AtMostOne
    <2>5. PutInv' /\ PassedInv'
      BY <2>2, <2>3 DEF UserGraphTypeOK, PutInv, PassedInv
    <2> QED
      BY <2>4, <2>5
  <1> QED
    BY <1>1, <1>2

\* A fixture that is rolled back takes its entries with it.
LEMMA RollbackKeeps ==
  ASSUME UserGraphInv, NEW f \in Fixtures, Rollback(f)
  PROVE  UserGraphInv'
  <1> USE NobodyAssumption DEF UserGraphInv, Keys, Goto, Rollback, EndTransaction, Locks
  <1>1. UserGraphTypeOK' /\ AtMostOne(entry["id"])' /\ (entry["id"] = entry["username"])'
    BY DEF UserGraphTypeOK, AtMostOne
  <1>2. PutInv'
    BY DEF UserGraphTypeOK, PutInv
  <1>3. PassedInv'
    BY DEF UserGraphTypeOK, PassedInv
  <1> QED
    BY <1>1, <1>2, <1>3

-----------------------------------------------------------------------------
\* Whatever the fixtures do, and wherever they fail: UserGraphInv always holds.
THEOREM UserGraphInvariant == UserGraphSpec => []UserGraphInv
  <1>1. UserGraphInv /\ [UserGraphNext]_userGraphVars => UserGraphInv'
    <2> SUFFICES ASSUME UserGraphInv, [UserGraphNext]_userGraphVars
                 PROVE  UserGraphInv'
      OBVIOUS
    <2>1. ASSUME NEW f \in Fixtures, LookForRoot(f)
          PROVE  UserGraphInv'
      <3>1. Find("username") = entry["username"]
        BY FindIsOne DEF Keys
      <3> QED
        BY <2>1, <3>1
        DEF LookForRoot, Goto, UserGraphInv, UserGraphTypeOK, AtMostOne, PutInv, PassedInv
    <2>2. ASSUME NEW f \in Fixtures, CreateNode(f)
          PROVE  UserGraphInv'
      BY <2>2 DEF CreateNode, Goto, UserGraphInv, UserGraphTypeOK, AtMostOne, PutInv, PassedInv
    <2>3. ASSUME NEW f \in Fixtures, PutId(f) \/ PutUsername(f) \/ PutIdAgain(f)
          PROVE  UserGraphInv'
      BY <2>3, PutKeeps DEF PutId, PutUsername, PutIdAgain, Keys
    <2>4. ASSUME NEW f \in Fixtures, Commit(f) \/ Rollback(f)
          PROVE  UserGraphInv'
      BY <2>4, CommitKeeps, RollbackKeeps
    <2>5. CASE UNCHANGED userGraphVars
      BY <2>5 DEF userGraphVars, UserGraphInv, UserGraphTypeOK, AtMostOne, PutInv, PassedInv
    <2> QED
      BY <2>1, <2>2, <2>3, <2>4, <2>5 DEF UserGraphNext
  <1> QED
    BY <1>1, UserGraphInitInv, PTL DEF UserGraphSpec

(* OneRootUser: by name and by id the same single user is found (neo4j.scala: *)
(* 127-139, 235-241), and every fixture that is done has left one.            *)
THEOREM RootUserIsOne == UserGraphSpec => []OneRootUser
  <1>1. UserGraphInv => OneRootUser
    <2> SUFFICES ASSUME UserGraphInv PROVE OneRootUser
      OBVIOUS
    <2>1. Find("username") = entry["username"] /\ Cardinality(entry["id"]) <= 1
      BY FindIsOne DEF Keys
    <2> QED
      BY <2>1 DEF UserGraphInv, PassedInv, OneRootUser
  <1> QED
    BY <1>1, UserGraphInvariant, PTL

-----------------------------------------------------------------------------
(* Reports: first what the recursive functions of Reports are at each depth,  *)
(* by induction over the depth, which the provers have as the least number of *)
(* a set that is not empty; then the first fault and the parameters of an     *)
(* expression, by the depth; then the steps of a run.                         *)

(* What counts of a sequence of expressions is the first one in a set, or     *)
(* that there is none.                                                        *)
NoneOf(s, S) == \A k \in DOMAIN s : s[k] \notin S
FirstOf(s, S, x) ==
    \E k \in DOMAIN s : s[k] = x /\ x \in S /\ \A j \in DOMAIN s : j < k => s[j] \notin S

\* Nothing in either of them.
LEMMA ConcatNone ==
    ASSUME NEW T, NEW a \in Seq(T), NEW b \in Seq(T), NEW S, NoneOf(a, S), NoneOf(b, S)
    PROVE  NoneOf(Concat(a, b), S)
<1>2. PICK c : c = Concat(a, b)
  OBVIOUS
<1>0. PICK m, n \in Nat : Concats(a, b, c, m, n)
  BY <1>2, ConcatIs
<1>1. /\ DOMAIN a = 1 .. m /\ DOMAIN b = 1 .. n /\ DOMAIN c = 1 .. m + n
      /\ \A k \in 1 .. m : c[k] = a[k]
      /\ \A k \in 1 .. n : c[m + k] = b[k]
      /\ \A k \in 1 .. m + n : k \notin 1 .. m => k - m \in 1 .. n
  BY <1>0 DEF Concats
<1>3. ASSUME NEW k \in 1 .. m + n PROVE c[k] \notin S
  <2>1. CASE k \in 1 .. m
    BY <1>1, <1>2, <2>1 DEF NoneOf
  <2>2. CASE k \notin 1 .. m
    <3>1. PICK l \in 1 .. n : k = m + l
      <4>1. k - m \in 1 .. n /\ k = m + (k - m)
        BY <1>1, <2>2
      <4> QED
        BY <4>1
    <3> QED
      BY <1>1, <1>2, <3>1 DEF NoneOf
  <2> QED
    BY <2>1, <2>2
<1> QED
  BY <1>1, <1>2, <1>3 DEF NoneOf

\* The first of the first one.
LEMMA ConcatLeft ==
    ASSUME NEW T, NEW a \in Seq(T), NEW b \in Seq(T), NEW S, NEW x, FirstOf(a, S, x)
    PROVE  FirstOf(Concat(a, b), S, x)
<1>2. PICK c : c = Concat(a, b)
  OBVIOUS
<1>0. PICK m, n \in Nat : Concats(a, b, c, m, n)
  BY <1>2, ConcatIs
<1>1. /\ DOMAIN a = 1 .. m /\ DOMAIN b = 1 .. n /\ DOMAIN c = 1 .. m + n
      /\ \A k \in 1 .. m : c[k] = a[k]
      /\ \A k \in 1 .. n : c[m + k] = b[k]
      /\ \A k \in 1 .. m + n : k \notin 1 .. m => k - m \in 1 .. n
  BY <1>0 DEF Concats
<1>3. PICK k \in 1 .. m : a[k] = x /\ x \in S /\ \A j \in 1 .. m : j < k => a[j] \notin S
  BY <1>1 DEF FirstOf
<1>4. k \in 1 .. m + n /\ c[k] = x
  BY <1>1, <1>2, <1>3
<1>5. ASSUME NEW j \in 1 .. m + n, j < k PROVE c[j] \notin S
  <2>1. j \in 1 .. m
    BY <1>5
  <2> QED
    BY <1>1, <1>2, <1>3, <1>5, <2>1
<1> QED
  BY <1>1, <1>2, <1>3, <1>4, <1>5 DEF FirstOf

\* The first of the second one, if there is nothing in the first one.
LEMMA ConcatRight ==
    ASSUME NEW T, NEW a \in Seq(T), NEW b \in Seq(T), NEW S, NEW x,
           NoneOf(a, S), FirstOf(b, S, x)
    PROVE  FirstOf(Concat(a, b), S, x)
<1>2. PICK c : c = Concat(a, b)
  OBVIOUS
<1>0. PICK m, n \in Nat : Concats(a, b, c, m, n)
  BY <1>2, ConcatIs
<1>1. /\ DOMAIN a = 1 .. m /\ DOMAIN b = 1 .. n /\ DOMAIN c = 1 .. m + n
      /\ \A k \in 1 .. m : c[k] = a[k]
      /\ \A k \in 1 .. n : c[m + k] = b[k]
      /\ \A k \in 1 .. m + n : k \notin 1 .. m => k - m \in 1 .. n
  BY <1>0 DEF Concats
<1>3. PICK k \in 1 .. n : b[k] = x /\ x \in S /\ \A j \in 1 .. n : j < k => b[j] \notin S
  BY <1>1 DEF FirstOf
<1>4. m + k \in 1 .. m + n /\ c[m + k] = x
  BY <1>1, <1>2, <1>3
<1>5. ASSUME NEW j \in 1 .. m + n, j < m + k PROVE c[j] \notin S
  <2>1. CASE j \in 1 .. m
    BY <1>1, <1>2, <2>1 DEF NoneOf
  <2>2. CASE j \notin 1 .. m
    <3>1. PICK l \in 1 .. n : j = m + l
      <4>1. j - m \in 1 .. n /\ j = m + (j - m)
        BY <1>1, <2>2
      <4> QED
        BY <4>1
    <3>2. l < k
      BY <1>5, <3>1
    <3> QED
      BY <1>1, <1>2, <1>3, <3>1, <3>2
  <2> QED
    BY <2>1, <2>2
<1>6. FirstOf(c, S, x)
  <2>1. PICK p \in 1 .. m + n : p = m + k
    BY <1>4
  <2>2. c[p] = x /\ \A j \in 1 .. m + n : j < p => c[j] \notin S
    BY <1>4, <1>5, <2>1
  <2> QED
    BY <1>1, <1>2, <1>3, <2>2 DEF FirstOf
<1> QED
  BY <1>2, <1>6

\* Of one expression.
LEMMA SingleIs ==
    ASSUME NEW T, NEW e \in T, NEW S
    PROVE  /\ <<e>> \in Seq(T)
           /\ e \in S => FirstOf(<<e>>, S, e)
           /\ e \notin S => NoneOf(<<e>>, S)
<1>1. DOMAIN <<e>> = 1 .. 1 /\ <<e>>[1] = e /\ <<e>> \in Seq(T)
  OBVIOUS
<1> QED
  BY <1>1 DEF FirstOf, NoneOf

\* Nothing in any of its sequences, nothing in what they are flattened to.
LEMMA FlattenNone ==
    ASSUME NEW T, NEW s \in Seq(Seq(T)), NEW S, \A k \in DOMAIN s : NoneOf(s[k], S)
    PROVE  NoneOf(FlattenSeq(s), S)
<1>1. CASE s = <<>>
  <2>1. DOMAIN FlattenSeq(s) = {}
    BY <1>1, FlattenEmpty
  <2> QED
    BY <2>1 DEF NoneOf
<1>2. CASE s # <<>>
  <2>1. PICK C : C = Seq(T)
    OBVIOUS
  <2>2. s \in Seq(C) /\ \A a, b \in C : Concat(a, b) \in C
    BY <2>1, ConcatTyped
  <2>3. PICK n \in Nat : n = Len(s) /\ n # 0 /\ DOMAIN s = 1 .. n
    BY <1>2, EmptySeq, LenProperties
  <2>4. PICK f \in [1 .. n -> C] : Flattens(f, s, n) /\ FlattenSeq(s) = f[n]
    BY <1>2, <2>2, <2>3, FlattenDef
  <2>5. \A j \in 1 .. n : f[j] = IF j = 1 THEN s[j] ELSE Concat(f[j - 1], s[j])
    BY <2>4 DEF Flattens
  <2>6. \A k \in 1 .. n : s[k] \in C
    BY <2>2, <2>3, ElementOfSeq
  <2> DEFINE I == {k \in Nat : k \in 1 .. n => NoneOf(f[k], S)}
  <2>7. 0 \in I
    OBVIOUS
  <2>8. ASSUME NEW k \in Nat, k \in I PROVE k + 1 \in I
    <3>1. SUFFICES ASSUME k + 1 \in 1 .. n PROVE NoneOf(f[k + 1], S)
      OBVIOUS
    <3>2. PICK l \in 1 .. n : l = k + 1
      BY <3>1
    <3>3. NoneOf(s[l], S)
      BY <2>3
    <3>4. CASE l = 1
      BY <2>5, <3>2, <3>3, <3>4
    <3>5. CASE l # 1
      <4>1. k \in 1 .. n /\ l - 1 = k
        BY <3>2, <3>5
      <4>2. f[l] = Concat(f[k], s[l])
        BY <2>5, <3>5, <4>1
      <4>3. NoneOf(f[k], S)
        BY <2>8, <4>1
      <4>4. f[k] \in Seq(T) /\ s[l] \in Seq(T)
        BY <2>1, <2>4, <2>6, <4>1
      <4>5. NoneOf(Concat(f[k], s[l]), S)
        BY <3>3, <4>3, <4>4, ConcatNone
      <4> QED
        BY <3>2, <4>2, <4>5
    <3> QED
      BY <3>4, <3>5
  <2>9. Nat \subseteq I
    <3> HIDE DEF I
    <3> QED
      BY <2>7, <2>8, Induction
  <2> QED
    BY <2>3, <2>4, <2>9
<1> QED
  BY <1>1, <1>2

\* The first of one of its sequences, if there is nothing in those before.
LEMMA FlattenFirst ==
    ASSUME NEW T, NEW s \in Seq(Seq(T)), NEW S, NEW x, NEW m \in DOMAIN s,
           \A k \in DOMAIN s : k < m => NoneOf(s[k], S), FirstOf(s[m], S, x)
    PROVE  FirstOf(FlattenSeq(s), S, x)
<1>1. PICK C : C = Seq(T)
  OBVIOUS
<1>2. s \in Seq(C) /\ \A a, b \in C : Concat(a, b) \in C
  BY <1>1, ConcatTyped
<1>3. PICK n \in Nat : n = Len(s) /\ DOMAIN s = 1 .. n
  BY LenProperties
<1>4. s # <<>> /\ m \in 1 .. n
  BY <1>3
<1>5. PICK f \in [1 .. n -> C] : Flattens(f, s, n) /\ FlattenSeq(s) = f[n]
  BY <1>2, <1>3, <1>4, FlattenDef
<1>6. \A j \in 1 .. n : f[j] = IF j = 1 THEN s[j] ELSE Concat(f[j - 1], s[j])
  BY <1>5 DEF Flattens
<1>7. \A k \in 1 .. n : s[k] \in C
  BY <1>2, <1>3, ElementOfSeq
<1> DEFINE I == {k \in Nat : k \in 1 .. n => /\ k < m => NoneOf(f[k], S)
                                             /\ m <= k => FirstOf(f[k], S, x)}
<1>8. 0 \in I
  OBVIOUS
<1>9. ASSUME NEW k \in Nat, k \in I PROVE k + 1 \in I
  <2>1. SUFFICES ASSUME k + 1 \in 1 .. n
                 PROVE  /\ k + 1 < m => NoneOf(f[k + 1], S)
                        /\ m <= k + 1 => FirstOf(f[k + 1], S, x)
    OBVIOUS
  <2>2. PICK l \in 1 .. n : l = k + 1
    BY <2>1
  <2>3. l < m => NoneOf(s[l], S)
    BY <1>3
  <2>4. l = m => FirstOf(s[l], S, x)
    OBVIOUS
  <2>5. CASE l = 1
    <3>1. f[l] = s[l]
      BY <1>6, <2>5
    <3>2. m <= l => l = m
      BY <1>4, <2>5
    <3> QED
      BY <2>2, <2>3, <2>4, <3>1, <3>2
  <2>6. CASE l # 1
    <3>1. k \in 1 .. n /\ l - 1 = k
      BY <2>2, <2>6
    <3>2. f[l] = Concat(f[k], s[l])
      BY <1>6, <2>6, <3>1
    <3>3. f[k] \in Seq(T) /\ s[l] \in Seq(T)
      BY <1>1, <1>5, <1>7, <3>1
    <3>4. /\ k < m => NoneOf(f[k], S)
          /\ m <= k => FirstOf(f[k], S, x)
      BY <1>9, <3>1
    <3>5. CASE l < m
      <4>1. k < m
        BY <1>4, <2>2, <3>5
      <4>2. NoneOf(Concat(f[k], s[l]), S)
        BY <2>3, <3>3, <3>4, <3>5, <4>1, ConcatNone
      <4>3. ~(m <= l)
        BY <1>4, <3>5
      <4> QED
        BY <2>2, <3>2, <4>2, <4>3
    <3>6. CASE l = m
      <4>1. k < m /\ ~(l < m)
        BY <1>4, <2>2, <3>6
      <4>2. FirstOf(Concat(f[k], s[l]), S, x)
        BY <2>4, <3>3, <3>4, <3>6, <4>1, ConcatRight
      <4> QED
        BY <2>2, <3>2, <4>1, <4>2
    <3>7. CASE m < l
      <4>1. m <= k /\ ~(l < m)
        BY <1>4, <2>2, <3>7
      <4>2. FirstOf(Concat(f[k], s[l]), S, x)
        BY <3>3, <3>4, <4>1, ConcatLeft
      <4> QED
        BY <2>2, <3>2, <4>1, <4>2
    <3>8. l < m \/ l = m \/ m < l
      BY <1>4
    <3> QED
      BY <3>5, <3>6, <3>7, <3>8
  <2> QED
    BY <2>5, <2>6
<1>10. Nat \subseteq I
  <2> HIDE DEF I
  <2> QED
    BY <1>8, <1>9, Induction
<1>11. n \in 1 .. n /\ m <= n
  BY <1>4
<1> QED
  BY <1>5, <1>10, <1>11

\* The function that Expressions is.
NestedLevel(k, inner) == Nested(inner)
NestedTo(f, n) == f = [k \in 0 .. n |-> NestedLevel(k, IF k = 0 THEN {} ELSE f[k - 1])]

\* There is such a function, however deep.
LEMMA NestedExists == \A n \in Nat : \E f : NestedTo(f, n)
<1> DEFINE S == {n \in Nat : \E f : NestedTo(f, n)}
<1>1. 0 \in S
  <2>1. PICK f : f = [k \in 0 .. 0 |-> NestedLevel(k, {})]
    OBVIOUS
  <2>2. NestedTo(f, 0)
    BY <2>1 DEF NestedTo
  <2> QED
    BY <2>2
<1>2. ASSUME NEW n \in Nat, n \in S PROVE n + 1 \in S
  <2>1. PICK f : NestedTo(f, n)
    BY <1>2
  <2>2. PICK l : l = NestedLevel(n + 1, f[n])
    OBVIOUS
  <2>3. PICK g : g = [k \in 0 .. n + 1 |-> IF k = n + 1 THEN l ELSE f[k]]
    OBVIOUS
  <2>4. \A k \in 0 .. n : f[k] = NestedLevel(k, IF k = 0 THEN {} ELSE f[k - 1])
    BY <2>1 DEF NestedTo
  <2>5. \A k \in 0 .. n : g[k] = NestedLevel(k, IF k = 0 THEN {} ELSE g[k - 1])
    BY <2>3, <2>4
  <2>6. g[n + 1] = NestedLevel(n + 1, IF n + 1 = 0 THEN {} ELSE g[(n + 1) - 1])
    BY <2>2, <2>3
  <2>7. \A k \in 0 .. n + 1 : g[k] = NestedLevel(k, IF k = 0 THEN {} ELSE g[k - 1])
    BY <2>5, <2>6
  <2>8. g = [k \in 0 .. n + 1 |-> g[k]]
    BY <2>3
  <2>9. g = [k \in 0 .. n + 1 |-> NestedLevel(k, IF k = 0 THEN {} ELSE g[k - 1])]
    BY <2>7, <2>8
  <2>10. NestedTo(g, n + 1)
    BY <2>9 DEF NestedTo
  <2> QED
    BY <2>10
<1>3. Nat \subseteq S
  <2> HIDE DEF S
  <2> QED
    BY <1>1, <1>2, Induction
<1> QED
  BY <1>3

\* Expressions is it, up to MaxDepth.
LEMMA NestedLevels ==
  \A n \in 0 .. MaxDepth : Expressions[n] = NestedLevel(n, IF n = 0 THEN {} ELSE Expressions[n - 1])
<1>1. Expressions = CHOOSE f : NestedTo(f, MaxDepth)
  BY Zenon DEF Expressions, NestedTo, NestedLevel
<1>2. PICK f : NestedTo(f, MaxDepth)
  BY NestedExists, ReportsAssumption
<1>3. NestedTo(Expressions, MaxDepth)
  BY <1>1, <1>2
<1> QED
  BY <1>3 DEF NestedTo

\* The function that Eval is.
EvalLevel(k, inner) == [e \in Expressions[k] |-> EvalOf(inner, e)]
EvalTo(f, n) == f = [k \in 0 .. n |-> EvalLevel(k, IF k = 0 THEN <<>> ELSE f[k - 1])]

\* There is such a function, however deep.
LEMMA EvalExists == \A n \in Nat : \E f : EvalTo(f, n)
<1> DEFINE S == {n \in Nat : \E f : EvalTo(f, n)}
<1>1. 0 \in S
  <2>1. PICK f : f = [k \in 0 .. 0 |-> EvalLevel(k, <<>>)]
    OBVIOUS
  <2>2. EvalTo(f, 0)
    BY <2>1 DEF EvalTo
  <2> QED
    BY <2>2
<1>2. ASSUME NEW n \in Nat, n \in S PROVE n + 1 \in S
  <2>1. PICK f : EvalTo(f, n)
    BY <1>2
  <2>2. PICK l : l = EvalLevel(n + 1, f[n])
    OBVIOUS
  <2>3. PICK g : g = [k \in 0 .. n + 1 |-> IF k = n + 1 THEN l ELSE f[k]]
    OBVIOUS
  <2>4. \A k \in 0 .. n : f[k] = EvalLevel(k, IF k = 0 THEN <<>> ELSE f[k - 1])
    BY <2>1 DEF EvalTo
  <2>5. \A k \in 0 .. n : g[k] = EvalLevel(k, IF k = 0 THEN <<>> ELSE g[k - 1])
    BY <2>3, <2>4
  <2>6. g[n + 1] = EvalLevel(n + 1, IF n + 1 = 0 THEN <<>> ELSE g[(n + 1) - 1])
    BY <2>2, <2>3
  <2>7. \A k \in 0 .. n + 1 : g[k] = EvalLevel(k, IF k = 0 THEN <<>> ELSE g[k - 1])
    BY <2>5, <2>6
  <2>8. g = [k \in 0 .. n + 1 |-> g[k]]
    BY <2>3
  <2>9. g = [k \in 0 .. n + 1 |-> EvalLevel(k, IF k = 0 THEN <<>> ELSE g[k - 1])]
    BY <2>7, <2>8
  <2>10. EvalTo(g, n + 1)
    BY <2>9 DEF EvalTo
  <2> QED
    BY <2>10
<1>3. Nat \subseteq S
  <2> HIDE DEF S
  <2> QED
    BY <1>1, <1>2, Induction
<1> QED
  BY <1>3

\* Eval is it, up to MaxDepth.
LEMMA EvalLevels ==
  \A n \in 0 .. MaxDepth : Eval[n] = EvalLevel(n, IF n = 0 THEN <<>> ELSE Eval[n - 1])
<1>1. Eval = CHOOSE f : EvalTo(f, MaxDepth)
  BY Zenon DEF Eval, EvalTo, EvalLevel
<1>2. PICK f : EvalTo(f, MaxDepth)
  BY EvalExists, ReportsAssumption
<1>3. EvalTo(Eval, MaxDepth)
  BY <1>1, <1>2
<1> QED
  BY <1>3 DEF EvalTo

\* The function that ToMap is.
ToMapLevel(k, inner) == [value \in Expressions[k] |-> ToMapOf(inner, value)]
ToMapTo(f, n) == f = [k \in 0 .. n |-> ToMapLevel(k, IF k = 0 THEN <<>> ELSE f[k - 1])]

\* There is such a function, however deep.
LEMMA ToMapExists == \A n \in Nat : \E f : ToMapTo(f, n)
<1> DEFINE S == {n \in Nat : \E f : ToMapTo(f, n)}
<1>1. 0 \in S
  <2>1. PICK f : f = [k \in 0 .. 0 |-> ToMapLevel(k, <<>>)]
    OBVIOUS
  <2>2. ToMapTo(f, 0)
    BY <2>1 DEF ToMapTo
  <2> QED
    BY <2>2
<1>2. ASSUME NEW n \in Nat, n \in S PROVE n + 1 \in S
  <2>1. PICK f : ToMapTo(f, n)
    BY <1>2
  <2>2. PICK l : l = ToMapLevel(n + 1, f[n])
    OBVIOUS
  <2>3. PICK g : g = [k \in 0 .. n + 1 |-> IF k = n + 1 THEN l ELSE f[k]]
    OBVIOUS
  <2>4. \A k \in 0 .. n : f[k] = ToMapLevel(k, IF k = 0 THEN <<>> ELSE f[k - 1])
    BY <2>1 DEF ToMapTo
  <2>5. \A k \in 0 .. n : g[k] = ToMapLevel(k, IF k = 0 THEN <<>> ELSE g[k - 1])
    BY <2>3, <2>4
  <2>6. g[n + 1] = ToMapLevel(n + 1, IF n + 1 = 0 THEN <<>> ELSE g[(n + 1) - 1])
    BY <2>2, <2>3
  <2>7. \A k \in 0 .. n + 1 : g[k] = ToMapLevel(k, IF k = 0 THEN <<>> ELSE g[k - 1])
    BY <2>5, <2>6
  <2>8. g = [k \in 0 .. n + 1 |-> g[k]]
    BY <2>3
  <2>9. g = [k \in 0 .. n + 1 |-> ToMapLevel(k, IF k = 0 THEN <<>> ELSE g[k - 1])]
    BY <2>7, <2>8
  <2>10. ToMapTo(g, n + 1)
    BY <2>9 DEF ToMapTo
  <2> QED
    BY <2>10
<1>3. Nat \subseteq S
  <2> HIDE DEF S
  <2> QED
    BY <1>1, <1>2, Induction
<1> QED
  BY <1>3

\* ToMap is it, up to MaxDepth.
LEMMA ToMapLevels ==
  \A n \in 0 .. MaxDepth : ToMap[n] = ToMapLevel(n, IF n = 0 THEN <<>> ELSE ToMap[n - 1])
<1>1. ToMap = CHOOSE f : ToMapTo(f, MaxDepth)
  BY Zenon DEF ToMap, ToMapTo, ToMapLevel
<1>2. PICK f : ToMapTo(f, MaxDepth)
  BY ToMapExists, ReportsAssumption
<1>3. ToMapTo(ToMap, MaxDepth)
  BY <1>1, <1>2
<1> QED
  BY <1>3 DEF ToMapTo

\* The function that Before is.
BeforeLevel(k, inner) == [e \in Expressions[k] |-> <<e>> \o FlattenSeq(Each(inner, Inner(e)))]
BeforeTo(f, n) == f = [k \in 0 .. n |-> BeforeLevel(k, IF k = 0 THEN <<>> ELSE f[k - 1])]

\* There is such a function, however deep.
LEMMA BeforeExists == \A n \in Nat : \E f : BeforeTo(f, n)
<1> DEFINE S == {n \in Nat : \E f : BeforeTo(f, n)}
<1>1. 0 \in S
  <2>1. PICK f : f = [k \in 0 .. 0 |-> BeforeLevel(k, <<>>)]
    OBVIOUS
  <2>2. BeforeTo(f, 0)
    BY <2>1 DEF BeforeTo
  <2> QED
    BY <2>2
<1>2. ASSUME NEW n \in Nat, n \in S PROVE n + 1 \in S
  <2>1. PICK f : BeforeTo(f, n)
    BY <1>2
  <2>2. PICK l : l = BeforeLevel(n + 1, f[n])
    OBVIOUS
  <2>3. PICK g : g = [k \in 0 .. n + 1 |-> IF k = n + 1 THEN l ELSE f[k]]
    OBVIOUS
  <2>4. \A k \in 0 .. n : f[k] = BeforeLevel(k, IF k = 0 THEN <<>> ELSE f[k - 1])
    BY <2>1 DEF BeforeTo
  <2>5. \A k \in 0 .. n : g[k] = BeforeLevel(k, IF k = 0 THEN <<>> ELSE g[k - 1])
    BY <2>3, <2>4
  <2>6. g[n + 1] = BeforeLevel(n + 1, IF n + 1 = 0 THEN <<>> ELSE g[(n + 1) - 1])
    BY <2>2, <2>3
  <2>7. \A k \in 0 .. n + 1 : g[k] = BeforeLevel(k, IF k = 0 THEN <<>> ELSE g[k - 1])
    BY <2>5, <2>6
  <2>8. g = [k \in 0 .. n + 1 |-> g[k]]
    BY <2>3
  <2>9. g = [k \in 0 .. n + 1 |-> BeforeLevel(k, IF k = 0 THEN <<>> ELSE g[k - 1])]
    BY <2>7, <2>8
  <2>10. BeforeTo(g, n + 1)
    BY <2>9 DEF BeforeTo
  <2> QED
    BY <2>10
<1>3. Nat \subseteq S
  <2> HIDE DEF S
  <2> QED
    BY <1>1, <1>2, Induction
<1> QED
  BY <1>3

\* Before is it, up to MaxDepth.
LEMMA BeforeLevels ==
  \A n \in 0 .. MaxDepth : Before[n] = BeforeLevel(n, IF n = 0 THEN <<>> ELSE Before[n - 1])
<1>1. Before = CHOOSE f : BeforeTo(f, MaxDepth)
  BY Zenon DEF Before, BeforeTo, BeforeLevel
<1>2. PICK f : BeforeTo(f, MaxDepth)
  BY BeforeExists, ReportsAssumption
<1>3. BeforeTo(Before, MaxDepth)
  BY <1>1, <1>2
<1> QED
  BY <1>3 DEF BeforeTo

\* The function that After is.
AfterLevel(k, inner) == [e \in Expressions[k] |-> FlattenSeq(Each(inner, Inner(e))) \o <<e>>]
AfterTo(f, n) == f = [k \in 0 .. n |-> AfterLevel(k, IF k = 0 THEN <<>> ELSE f[k - 1])]

\* There is such a function, however deep.
LEMMA AfterExists == \A n \in Nat : \E f : AfterTo(f, n)
<1> DEFINE S == {n \in Nat : \E f : AfterTo(f, n)}
<1>1. 0 \in S
  <2>1. PICK f : f = [k \in 0 .. 0 |-> AfterLevel(k, <<>>)]
    OBVIOUS
  <2>2. AfterTo(f, 0)
    BY <2>1 DEF AfterTo
  <2> QED
    BY <2>2
<1>2. ASSUME NEW n \in Nat, n \in S PROVE n + 1 \in S
  <2>1. PICK f : AfterTo(f, n)
    BY <1>2
  <2>2. PICK l : l = AfterLevel(n + 1, f[n])
    OBVIOUS
  <2>3. PICK g : g = [k \in 0 .. n + 1 |-> IF k = n + 1 THEN l ELSE f[k]]
    OBVIOUS
  <2>4. \A k \in 0 .. n : f[k] = AfterLevel(k, IF k = 0 THEN <<>> ELSE f[k - 1])
    BY <2>1 DEF AfterTo
  <2>5. \A k \in 0 .. n : g[k] = AfterLevel(k, IF k = 0 THEN <<>> ELSE g[k - 1])
    BY <2>3, <2>4
  <2>6. g[n + 1] = AfterLevel(n + 1, IF n + 1 = 0 THEN <<>> ELSE g[(n + 1) - 1])
    BY <2>2, <2>3
  <2>7. \A k \in 0 .. n + 1 : g[k] = AfterLevel(k, IF k = 0 THEN <<>> ELSE g[k - 1])
    BY <2>5, <2>6
  <2>8. g = [k \in 0 .. n + 1 |-> g[k]]
    BY <2>3
  <2>9. g = [k \in 0 .. n + 1 |-> AfterLevel(k, IF k = 0 THEN <<>> ELSE g[k - 1])]
    BY <2>7, <2>8
  <2>10. AfterTo(g, n + 1)
    BY <2>9 DEF AfterTo
  <2> QED
    BY <2>10
<1>3. Nat \subseteq S
  <2> HIDE DEF S
  <2> QED
    BY <1>1, <1>2, Induction
<1> QED
  BY <1>3

\* After is it, up to MaxDepth.
LEMMA AfterLevels ==
  \A n \in 0 .. MaxDepth : After[n] = AfterLevel(n, IF n = 0 THEN <<>> ELSE After[n - 1])
<1>1. After = CHOOSE f : AfterTo(f, MaxDepth)
  BY Zenon DEF After, AfterTo, AfterLevel
<1>2. PICK f : AfterTo(f, MaxDepth)
  BY AfterExists, ReportsAssumption
<1>3. AfterTo(After, MaxDepth)
  BY <1>1, <1>2
<1> QED
  BY <1>3 DEF AfterTo

(* What a value and a map have to do with the expressions they are made of:   *)
(* a value is the first fault, or there is none; a map has what the first     *)
(* expression of a name means, and the names there are.                       *)
All == UNION {Expressions[n] : n \in 0 .. MaxDepth}
Stops(e) == e.kind = "emptyDataSource" \/ (e.kind = "report" /\ e.subreport \notin Resources)
Why(e)   == IF e.kind = "report" THEN <<"notCompiled", e.subreport>> ELSE <<"badExpression">>
Stopping == {e \in All : Stops(e)}
NamedBy(name) == {e \in All : Named(e) /\ e.name = name}

EvalOK(v, before, V) ==
    /\ v.left \in BOOLEAN
    /\ v.left => \E x \in All : FirstOf(before, Stopping, x) /\ v.why = Why(x)
    /\ ~v.left => NoneOf(before, Stopping) /\ v.value \in V

MapOK(m, after) ==
    /\ DOMAIN m \subseteq Names
    /\ \A name \in DOMAIN m :
          \E x \in All : FirstOf(after, NamedBy(name), x) /\ m[name] = Meaning(x)
    /\ \A name \in Names \ DOMAIN m : NoneOf(after, NamedBy(name))

\* Min is the least number of a set.
LEMMA MinIs ==
    ASSUME NEW S \in SUBSET Nat, S # {}
    PROVE  Min(S) \in S /\ \A k \in S : Min(S) <= k
  BY LeastNumber DEF Min

\* Max is the greatest number of a set that has no more than n.
LEMMA MaxIs ==
    ASSUME NEW n \in Nat, NEW S \in SUBSET (1 .. n), S # {}
    PROVE  Max(S) \in S /\ \A k \in S : k <= Max(S)
<1> DEFINE T == {m \in Nat : \E k \in S : m = n - k}
<1>1. T # {} /\ T \in SUBSET Nat
  <2>1. PICK k \in S : TRUE
    OBVIOUS
  <2>2. n - k \in T
    BY <2>1
  <2> QED
    BY <2>2
<1>2. PICK m \in T : \A l \in T : m <= l
  <2> HIDE DEF T
  <2> QED
    BY <1>1, LeastNumber
<1>3. PICK g \in S : m = n - g
  BY <1>2
<1>4. ASSUME NEW k \in S PROVE k <= g
  <2>1. n - k \in T
    OBVIOUS
  <2>2. m <= n - k
    BY <1>2, <2>1
  <2> QED
    BY <1>3, <2>2
<1> QED
  BY <1>3, <1>4 DEF Max

\* A list fails with the first fault in it, or has the values in reverse.
LEMMA CollectedIs ==
    ASSUME NEW n \in Nat, NEW vs, DOMAIN vs = 1 .. n, vs = [k \in 1 .. n |-> vs[k]],
           NEW V, NEW bs \in Seq(Seq(All)), DOMAIN bs = 1 .. n,
           \A k \in 1 .. n : EvalOK(vs[k], bs[k], V)
    PROVE  /\ EvalOK(Collected(vs), FlattenSeq(bs), Seq(V))
           /\ ~Collected(vs).left =>
                 /\ DOMAIN Collected(vs).value = 1 .. n
                 /\ \A k \in 1 .. n : /\ Collected(vs).value[k] = vs[(n - k) + 1].value
                                      /\ ~vs[k].left
<1> DEFINE S == {k \in DOMAIN vs : vs[k].left}
<1>1. CASE \E k \in DOMAIN vs : vs[k].left
  <2>1. S \in SUBSET Nat /\ S # {}
    BY <1>1
  <2>2. PICK m : m = Min(S)
    OBVIOUS
  <2>3. m \in S /\ \A k \in S : m <= k
    <3> HIDE DEF S
    <3> QED
      BY <2>1, <2>2, MinIs
  <2>4. m \in 1 .. n /\ vs[m].left /\ \A k \in 1 .. n : k < m => ~vs[k].left
    BY <2>3
  <2>5. Collected(vs) = vs[m]
    BY <1>1, <2>2 DEF Collected
  <2>6. EvalOK(vs[m], bs[m], V)
    BY <2>4
  <2>7. vs[m].left = TRUE
    BY <2>4, <2>6 DEF EvalOK
  <2>8. PICK x \in All : FirstOf(bs[m], Stopping, x) /\ vs[m].why = Why(x)
    BY <2>6, <2>7 DEF EvalOK
  <2>9. \A k \in DOMAIN bs : k < m => NoneOf(bs[k], Stopping)
    BY <2>4 DEF EvalOK
  <2>10. m \in DOMAIN bs
    BY <2>4
  <2>11. FirstOf(FlattenSeq(bs), Stopping, x)
    BY <2>8, <2>9, <2>10, FlattenFirst
  <2> QED
    BY <2>5, <2>7, <2>8, <2>11 DEF EvalOK
<1>2. CASE ~\E k \in DOMAIN vs : vs[k].left
  <2>1. \A k \in 1 .. n : ~vs[k].left
    BY <1>2
  <2>2. PICK q : q = [k \in DOMAIN vs |-> vs[k].value]
    OBVIOUS
  <2>3. \A k \in 1 .. n : q[k] = vs[k].value /\ vs[k].value \in V
    BY <2>1, <2>2 DEF EvalOK
  <2>4. q \in [1 .. n -> V]
    BY <2>2, <2>3
  <2>5. q \in Seq(V) /\ Len(q) = n
    BY <2>4
  <2>6. PICK r : r = Reverse(q)
    OBVIOUS
  <2>7. r = [k \in 1 .. n |-> q[(n - k) + 1]]
    BY <2>5, <2>6 DEF Reverse
  <2>8. \A k \in 1 .. n : (n - k) + 1 \in 1 .. n
    OBVIOUS
  <2>9. \A k \in 1 .. n : r[k] = vs[(n - k) + 1].value /\ r[k] \in V
    BY <2>3, <2>7, <2>8
  <2>10. r \in Seq(V) /\ DOMAIN r = 1 .. n
    <3>1. r \in [1 .. n -> V]
      BY <2>7, <2>9
    <3> QED
      BY <3>1
  <2>11. Collected(vs) = [left |-> FALSE, value |-> r]
    BY <1>2, <2>2, <2>6 DEF Collected, Right
  <2>12. Collected(vs).left = FALSE /\ Collected(vs).value = r
    BY <2>11
  <2>13. \A k \in DOMAIN bs : NoneOf(bs[k], Stopping)
    BY <2>1 DEF EvalOK
  <2>14. NoneOf(FlattenSeq(bs), Stopping)
    BY <2>13, FlattenNone
  <2>15. EvalOK(Collected(vs), FlattenSeq(bs), Seq(V))
    BY <2>10, <2>12, <2>14 DEF EvalOK
  <2> QED
    BY <2>1, <2>9, <2>10, <2>12, <2>15
<1> QED
  BY <1>1, <1>2

\* Of maps in reverse the last one counts, which is the first expression's.
LEMMA JoinedIs ==
    ASSUME NEW n \in Nat, NEW ms, DOMAIN ms = 1 .. n,
           NEW as \in Seq(Seq(All)), DOMAIN as = 1 .. n,
           \A k \in 1 .. n : MapOK(ms[k], as[(n - k) + 1])
    PROVE  MapOK(Joined(ms), FlattenSeq(as))
<1> DEFINE S(name) == {k \in DOMAIN ms : name \in DOMAIN ms[k]}
<1>1. PICK j : j = Joined(ms)
  OBVIOUS
<1>2. DOMAIN j = UNION {DOMAIN ms[k] : k \in 1 .. n}
  BY <1>1 DEF Joined
<1>3. \A name \in DOMAIN j : j[name] = ms[Max(S(name))][name]
  BY <1>1 DEF Joined
<1>4. DOMAIN j \subseteq Names
  BY <1>2 DEF MapOK
<1>5. \A k \in 1 .. n : (n - k) + 1 \in 1 .. n /\ (n - ((n - k) + 1)) + 1 = k
  OBVIOUS
<1>6. ASSUME NEW name \in DOMAIN j
      PROVE  \E x \in All : FirstOf(FlattenSeq(as), NamedBy(name), x) /\ j[name] = Meaning(x)
  <2>1. S(name) \in SUBSET (1 .. n) /\ S(name) # {}
    BY <1>2
  <2>2. PICK p : p = Max(S(name))
    OBVIOUS
  <2>3. p \in S(name) /\ \A k \in S(name) : k <= p
    <3> HIDE DEF S
    <3> QED
      BY <2>1, <2>2, MaxIs
  <2>4. p \in 1 .. n /\ name \in DOMAIN ms[p]
    BY <2>3
  <2>5. PICK m \in 1 .. n : m = (n - p) + 1
    BY <2>4
  <2>6. PICK x \in All : FirstOf(as[m], NamedBy(name), x) /\ ms[p][name] = Meaning(x)
    BY <2>4, <2>5 DEF MapOK
  <2>7. ASSUME NEW k \in DOMAIN as, k < m PROVE NoneOf(as[k], NamedBy(name))
    <3>1. PICK l \in 1 .. n : l = (n - k) + 1 /\ k = (n - l) + 1
      BY <1>5
    <3>2. l > p
      BY <2>4, <2>5, <2>7, <3>1
    <3>3. name \notin DOMAIN ms[l]
      BY <2>3, <2>4, <3>2
    <3>4. name \in Names \ DOMAIN ms[l]
      BY <1>4, <3>3
    <3> QED
      BY <3>1, <3>4 DEF MapOK
  <2>8. m \in DOMAIN as
    OBVIOUS
  <2>9. FirstOf(FlattenSeq(as), NamedBy(name), x)
    BY <2>6, <2>7, <2>8, FlattenFirst
  <2>10. j[name] = Meaning(x)
    BY <1>3, <2>2, <2>6
  <2> QED
    BY <2>9, <2>10
<1>7. ASSUME NEW name \in Names \ DOMAIN j PROVE NoneOf(FlattenSeq(as), NamedBy(name))
  <2>1. ASSUME NEW k \in DOMAIN as PROVE NoneOf(as[k], NamedBy(name))
    <3>1. PICK l \in 1 .. n : l = (n - k) + 1 /\ k = (n - l) + 1
      BY <1>5
    <3>2. name \in Names \ DOMAIN ms[l]
      BY <1>2
    <3> QED
      BY <3>1, <3>2 DEF MapOK
  <2> QED
    BY <2>1, FlattenNone
<1>8. MapOK(j, FlattenSeq(as))
  BY <1>4, <1>6, <1>7 DEF MapOK
<1> QED
  BY <1>1, <1>8

(* The four functions of a depth, on its expressions V.                       *)
LevelOK(V, E, M, B, A) ==
    \A e \in V : /\ B[e] \in Seq(All) /\ A[e] \in Seq(All)
                 /\ EvalOK(E[e], B[e], V)
                 /\ ~E[e].left => MapOK(M[E[e].value], A[e])

\* The expressions of a list, evaluated and made a map of.
LEMMA ListIs ==
    ASSUME NEW V, NEW E, NEW M, NEW B, NEW A, LevelOK(V, E, M, B, A), NEW cs \in Seq(V)
    PROVE  /\ FlattenSeq(Each(B, cs)) \in Seq(All) /\ FlattenSeq(Each(A, cs)) \in Seq(All)
           /\ EvalOK(Collected(Each(E, cs)), FlattenSeq(Each(B, cs)), Seq(V))
           /\ ~Collected(Each(E, cs)).left =>
                 MapOK(Joined(Each(M, Collected(Each(E, cs)).value)), FlattenSeq(Each(A, cs)))
<1>1. PICK n \in Nat : n = Len(cs) /\ DOMAIN cs = 1 .. n
  BY LenProperties
<1>2. \A k \in 1 .. n : cs[k] \in V
  BY <1>1, ElementOfSeq
<1>3. PICK bs : bs = Each(B, cs)
  OBVIOUS
<1>4. PICK as : as = Each(A, cs)
  OBVIOUS
<1>5. PICK vs : vs = Each(E, cs)
  OBVIOUS
<1>6. /\ bs = [k \in 1 .. n |-> B[cs[k]]]
      /\ as = [k \in 1 .. n |-> A[cs[k]]]
      /\ vs = [k \in 1 .. n |-> E[cs[k]]]
  BY <1>1, <1>3, <1>4, <1>5 DEF Each
<1>7. PICK C : C = Seq(All)
  OBVIOUS
<1>8. bs \in [1 .. n -> C] /\ as \in [1 .. n -> C]
  BY <1>2, <1>6, <1>7 DEF LevelOK
<1>9. bs \in Seq(Seq(All)) /\ as \in Seq(Seq(All))
  <2>0. ASSUME NEW r \in [1 .. n -> C] PROVE r \in Seq(C)
    OBVIOUS
  <2>1. bs \in Seq(C) /\ as \in Seq(C)
    BY <1>8, <2>0
  <2> QED
    BY <1>7, <2>1, Zenon
<1>10. DOMAIN vs = 1 .. n /\ DOMAIN bs = 1 .. n /\ DOMAIN as = 1 .. n
  BY <1>6
<1>11. vs = [k \in 1 .. n |-> vs[k]]
  BY <1>6
<1>12. \A k \in 1 .. n : EvalOK(vs[k], bs[k], V)
  BY <1>2, <1>6 DEF LevelOK
<1>13. PICK c : c = Collected(vs)
  OBVIOUS
<1>14. /\ EvalOK(c, FlattenSeq(bs), Seq(V))
       /\ ~c.left => /\ DOMAIN c.value = 1 .. n
                     /\ \A k \in 1 .. n : /\ c.value[k] = vs[(n - k) + 1].value
                                          /\ ~vs[k].left
  BY <1>9, <1>10, <1>11, <1>12, <1>13, CollectedIs
<1>15. ASSUME ~c.left PROVE MapOK(Joined(Each(M, c.value)), FlattenSeq(as))
  <2>1. PICK ms : ms = Each(M, c.value)
    OBVIOUS
  <2>2. ms = [k \in 1 .. n |-> M[c.value[k]]]
    BY <1>14, <1>15, <2>1 DEF Each
  <2>3. ASSUME NEW k \in 1 .. n PROVE MapOK(ms[k], as[(n - k) + 1])
    <3>1. PICK l \in 1 .. n : l = (n - k) + 1
      OBVIOUS
    <3>2. ms[k] = M[E[cs[l]].value] /\ as[l] = A[cs[l]] /\ ~E[cs[l]].left
      BY <1>6, <1>14, <1>15, <2>2, <3>1
    <3> QED
      BY <1>2, <3>1, <3>2 DEF LevelOK
  <2>4. DOMAIN ms = 1 .. n
    BY <2>2
  <2> QED
    BY <1>9, <1>10, <2>1, <2>3, <2>4, JoinedIs
<1> QED
  BY <1>3, <1>4, <1>5, <1>9, <1>13, <1>14, <1>15, FlattenTyped

\* What is put in front of a list, or after it.
LEMMA AroundIs ==
    ASSUME NEW e \in All, NEW s \in Seq(All), NEW S
    PROVE  /\ <<e>> \o s \in Seq(All) /\ s \o <<e>> \in Seq(All)
           /\ e \in S => FirstOf(<<e>> \o s, S, e)
           /\ e \notin S => /\ NoneOf(s, S) => NoneOf(<<e>> \o s, S) /\ NoneOf(s \o <<e>>, S)
                            /\ \A x : FirstOf(s, S, x) => FirstOf(<<e>> \o s, S, x)
           /\ \A x : FirstOf(s, S, x) => FirstOf(s \o <<e>>, S, x)
           /\ e \in S /\ NoneOf(s, S) => FirstOf(s \o <<e>>, S, e)
<1>1. PICK o : o = <<e>>
  OBVIOUS
<1>2. /\ o \in Seq(All)
      /\ e \in S => FirstOf(o, S, e)
      /\ e \notin S => NoneOf(o, S)
  BY <1>1, SingleIs
<1>3. /\ Concat(o, s) \in Seq(All) /\ Concat(s, o) \in Seq(All)
  BY <1>2, ConcatTyped
<1>4. e \in S => FirstOf(Concat(o, s), S, e)
  BY <1>2, ConcatLeft
<1>5. e \notin S /\ NoneOf(s, S) => NoneOf(Concat(o, s), S) /\ NoneOf(Concat(s, o), S)
  BY <1>2, ConcatNone
<1>6. e \notin S => \A x : FirstOf(s, S, x) => FirstOf(Concat(o, s), S, x)
  BY <1>2, ConcatRight
<1>7. \A x : FirstOf(s, S, x) => FirstOf(Concat(s, o), S, x)
  BY <1>2, ConcatLeft
<1>8. e \in S /\ NoneOf(s, S) => FirstOf(Concat(s, o), S, e)
  BY <1>2, ConcatRight
<1>9. Concat(o, s) = <<e>> \o s /\ Concat(s, o) = s \o <<e>>
  BY <1>1, Zenon DEF Concat
<1> QED
  BY <1>3, <1>4, <1>5, <1>6, <1>7, <1>8, <1>9, Zenon

\* What EvalOf does with each kind of expression.
LEMMA EvalOfIs ==
    ASSUME NEW E, NEW e
    PROVE  /\ e.kind \in {"empty", "data"} => EvalOf(E, e) = Right(e)
           /\ e.kind = "emptyDataSource" => EvalOf(E, e) = Left(<<"badExpression">>)
           /\ e.kind = "parameters" =>
                 \A c : c = Collected(Each(E, e.expressions)) =>
                    EvalOf(E, e) = IF c.left THEN c ELSE Right(Parameters(c.value))
           /\ e.kind = "report" =>
                 \A c : c = Collected(Each(E, e.expressions)) =>
                    EvalOf(E, e) = IF CompileReport(e.subreport).left
                                   THEN CompileReport(e.subreport)
                                   ELSE IF c.left THEN c
                                   ELSE Right(ReportExpression(
                                           e.name, CompileReport(e.subreport).value, c.value))
  BY DEF EvalOf

(* A map and what is inside the report, which counts before the report.      *)
WithReport(m, inside, name, report) ==
    /\ DOMAIN m = {name} \cup DOMAIN inside
    /\ \A n \in DOMAIN inside : m[n] = inside[n]
    /\ name \notin DOMAIN inside => m[name] = report

\* What ToMapOf makes of a report.
LEMMA MapOfReport ==
    ASSUME NEW M, NEW v, v.kind = "report"
    PROVE  WithReport(ToMapOf(M, v), Joined(Each(M, v.expressions)), v.name, v.subreport)
<1>1. PICK j : j = Joined(Each(M, v.expressions))
  OBVIOUS
<1>2. ToMapOf(M, v) = [name \in {v.name} \cup DOMAIN j |->
                          IF name \in DOMAIN j THEN j[name] ELSE v.subreport]
  BY <1>1 DEF ToMapOf
<1> QED
  BY <1>1, <1>2 DEF WithReport

\* What it makes of a list.
LEMMA MapOfList ==
    ASSUME NEW M, NEW v, v.kind = "parameters"
    PROVE  ToMapOf(M, v) = Joined(Each(M, v.expressions))
  BY DEF ToMapOf

\* What it makes of a data source with a name.
LEMMA MapOfData ==
    ASSUME NEW M, NEW v, v.kind = "data", v.name # NoName
    PROVE  ToMapOf(M, v) = [name \in {v.name} |-> v.products]
  BY DEF ToMapOf

\* What it makes of anything else.
LEMMA MapOfNothing ==
    ASSUME NEW M, NEW v, v.kind = "empty" \/ (v.kind = "data" /\ v.name = NoName)
    PROVE  ToMapOf(M, v) = <<>>
  BY DEF ToMapOf

\* The kinds of expressions, and those inside them.
LEMMA KindsAre ==
    ASSUME NEW V, NEW e \in Nested(V)
    PROVE  \/ e.kind = "empty" /\ Inner(e) = <<>> /\ ~Stops(e) /\ ~Named(e)
           \/ e.kind = "emptyDataSource" /\ Inner(e) = <<>> /\ Stops(e)
              /\ Why(e) = <<"badExpression">>
           \/ e.kind = "data" /\ Inner(e) = <<>> /\ ~Stops(e) /\ e.name \in Names \cup {NoName}
              /\ (Named(e) <=> e.name # NoName) /\ Meaning(e) = e.products
           \/ e.kind = "parameters" /\ e.expressions \in Seq(V) /\ Inner(e) = e.expressions
              /\ ~Stops(e) /\ ~Named(e)
           \/ e.kind = "report" /\ e.expressions \in Seq(V) /\ Inner(e) = e.expressions
              /\ Named(e) /\ e.name \in Names /\ Meaning(e) = Compiled(e.subreport)
              /\ (Stops(e) <=> e.subreport \notin Resources)
              /\ Why(e) = <<"notCompiled", e.subreport>>
<1>1. CASE e = EmptyExpression
  BY <1>1 DEF EmptyExpression, Inner, Stops, Named
<1>2. CASE e = EmptyDataSource
  BY <1>2 DEF EmptyDataSource, Inner, Stops, Why
<1>3. CASE e \in DataSources
  BY <1>3 DEF DataSources, Inner, Stops, Named, Meaning
<1>4. CASE e \in [kind : {"parameters"}, expressions : Seq(V)]
  BY <1>4 DEF Inner, Stops, Named
<1>5. CASE e \in [kind : {"report"}, name : Names, expressions : Seq(V),
                  subreport : Inputs \cup {Compiled(in) : in \in Inputs}]
  <2>1. e.kind = "report" /\ e.name \in Names /\ e.expressions \in Seq(V)
    BY <1>5
  <2> QED
    BY <2>1 DEF Inner, Stops, Why, Named, Meaning
<1> QED
  BY <1>1, <1>2, <1>3, <1>4, <1>5 DEF Nested

\* The value of a list of expressions is an expression of one depth more.
LEMMA ValuesAre ==
    ASSUME NEW V, NEW s \in Seq(V)
    PROVE  /\ Parameters(s) \in Nested(V)
           /\ \A name \in Names, in \in Inputs :
                 ReportExpression(name, Compiled(in), s) \in Nested(V)
<1>1. Parameters(s) \in [kind : {"parameters"}, expressions : Seq(V)]
  BY DEF Parameters
<1>2. ASSUME NEW name \in Names, NEW in \in Inputs
      PROVE  ReportExpression(name, Compiled(in), s)
                \in [kind : {"report"}, name : Names, expressions : Seq(V),
                     subreport : Inputs \cup {Compiled(q) : q \in Inputs}]
  <2>1. PICK c : c = Compiled(in)
    OBVIOUS
  <2>2. c \in {Compiled(q) : q \in Inputs}
    BY <2>1
  <2> QED
    BY <2>1, <2>2 DEF ReportExpression
<1> QED
  BY <1>1, <1>2 DEF Nested

(* Of one expression with the functions of one depth less.                    *)
BeforeOf(B, e) == <<e>> \o FlattenSeq(Each(B, Inner(e)))
AfterOf(A, e)  == FlattenSeq(Each(A, Inner(e))) \o <<e>>

\* An expression with nothing inside it.
LEMMA LeafIs ==
    ASSUME NEW e \in All, Inner(e) = <<>>, NEW A, NEW S
    PROVE  /\ BeforeOf(A, e) \in Seq(All) /\ AfterOf(A, e) \in Seq(All)
           /\ e \in S => FirstOf(BeforeOf(A, e), S, e) /\ FirstOf(AfterOf(A, e), S, e)
           /\ e \notin S => NoneOf(BeforeOf(A, e), S) /\ NoneOf(AfterOf(A, e), S)
<1>1. PICK s : s = FlattenSeq(Each(A, Inner(e)))
  OBVIOUS
<1>2. s = <<>>
  <2>1. Each(A, Inner(e)) = <<>>
    BY DEF Each
  <2> QED
    BY <1>1, <2>1, FlattenEmpty
<1>3. s \in Seq(All) /\ NoneOf(s, S)
  BY <1>2, EmptySeq DEF NoneOf
<1>4. BeforeOf(A, e) = <<e>> \o s /\ AfterOf(A, e) = s \o <<e>>
  BY <1>1, Zenon DEF BeforeOf, AfterOf
<1> QED
  BY <1>3, <1>4, AroundIs

\* A leaf that is a fault or has nothing to give.
LEMMA EvalLeaf ==
    ASSUME NEW V, NEW e \in All, e \in Nested(V), Inner(e) = <<>>, NEW E, NEW B,
           e.kind \in {"empty", "data", "emptyDataSource"},
           Stops(e) <=> e.kind = "emptyDataSource",
           e.kind = "emptyDataSource" => Why(e) = <<"badExpression">>
    PROVE  EvalOK(EvalOf(E, e), BeforeOf(B, e), Nested(V))
<1>1. CASE e.kind = "emptyDataSource"
  <2>1. EvalOf(E, e) = [left |-> TRUE, why |-> <<"badExpression">>]
    BY <1>1, EvalOfIs DEF Left
  <2>2. e \in Stopping
    BY <1>1 DEF Stopping
  <2>3. FirstOf(BeforeOf(B, e), Stopping, e)
    BY <2>2, LeafIs
  <2> QED
    BY <1>1, <2>1, <2>3 DEF EvalOK
<1>2. CASE e.kind \in {"empty", "data"}
  <2>1. EvalOf(E, e) = [left |-> FALSE, value |-> e]
    BY <1>2, EvalOfIs DEF Right
  <2>2. e \notin Stopping
    BY <1>2 DEF Stopping
  <2>3. NoneOf(BeforeOf(B, e), Stopping)
    BY <2>2, LeafIs
  <2> QED
    BY <2>1, <2>3 DEF EvalOK
<1> QED
  BY <1>1, <1>2

\* The parameters that a leaf makes.
LEMMA MapLeaf ==
    ASSUME NEW e \in All, Inner(e) = <<>>, NEW M, NEW A,
           \/ e.kind = "empty" /\ ~Named(e)
           \/ /\ e.kind = "data" /\ e.name \in Names \cup {NoName}
              /\ Named(e) <=> e.name # NoName
              /\ Meaning(e) = e.products
    PROVE  MapOK(ToMapOf(M, e), AfterOf(A, e))
<1>1. PICK m : m = ToMapOf(M, e)
  OBVIOUS
<1>2. CASE ~Named(e)
  <2>0. e.kind = "empty" \/ (e.kind = "data" /\ e.name = NoName)
    BY <1>2
  <2>1. m = <<>>
    BY <1>1, <2>0, MapOfNothing
  <2>2. DOMAIN m = {}
    BY <2>1
  <2>3. ASSUME NEW name \in Names PROVE NoneOf(AfterOf(A, e), NamedBy(name))
    <3>1. e \notin NamedBy(name)
      BY <1>2 DEF NamedBy
    <3> QED
      BY <3>1, LeafIs
  <2> QED
    BY <1>1, <2>2, <2>3 DEF MapOK
<1>3. CASE Named(e)
  <2>1. e.name \in Names /\ e.kind = "data" /\ e.name # NoName
    BY <1>3
  <2>2. m = [name \in {e.name} |-> e.products]
    BY <1>1, <2>1, MapOfData, Zenon
  <2>3. DOMAIN m = {e.name} /\ m[e.name] = Meaning(e)
    BY <1>3, <2>1, <2>2
  <2>4. FirstOf(AfterOf(A, e), NamedBy(e.name), e)
    <3>1. e \in NamedBy(e.name)
      BY <1>3 DEF NamedBy
    <3> QED
      BY <3>1, LeafIs
  <2>5. ASSUME NEW name \in Names \ {e.name} PROVE NoneOf(AfterOf(A, e), NamedBy(name))
    <3>1. e \notin NamedBy(name)
      BY DEF NamedBy
    <3> QED
      BY <3>1, LeafIs
  <2> QED
    BY <1>1, <2>1, <2>3, <2>4, <2>5 DEF MapOK
<1> QED
  BY <1>2, <1>3

\* An expression with a list inside it.
LEMMA EvalList ==
    ASSUME NEW V, NEW E, NEW M, NEW B, NEW A, LevelOK(V, E, M, B, A),
           NEW e \in All, e \in Nested(V), Resources \subseteq Inputs,
           \/ e.kind = "parameters" /\ ~Stops(e)
           \/ /\ e.kind = "report" /\ e.name \in Names
              /\ Stops(e) <=> e.subreport \notin Resources
              /\ Why(e) = <<"notCompiled", e.subreport>>,
           e.expressions \in Seq(V), Inner(e) = e.expressions
    PROVE  EvalOK(EvalOf(E, e), BeforeOf(B, e), Nested(V))
<1>1. PICK c : c = Collected(Each(E, e.expressions))
  OBVIOUS
<1>2. PICK s : s = FlattenSeq(Each(B, Inner(e)))
  OBVIOUS
<1>3. s \in Seq(All) /\ EvalOK(c, s, Seq(V))
  BY <1>1, <1>2, ListIs
<1>4. PICK b : b = BeforeOf(B, e)
  OBVIOUS
<1>5. b = <<e>> \o s
  BY <1>2, <1>4, Zenon DEF BeforeOf
<1>6. /\ e \in Stopping => FirstOf(b, Stopping, e)
      /\ e \notin Stopping => /\ NoneOf(s, Stopping) => NoneOf(b, Stopping)
                              /\ \A x : FirstOf(s, Stopping, x) => FirstOf(b, Stopping, x)
  BY <1>3, <1>5, AroundIs
<1>7. e \in Stopping <=> Stops(e)
  BY DEF Stopping
<1>8. PICK v : v = EvalOf(E, e)
  OBVIOUS
<1>9. c.left \in BOOLEAN
  BY <1>3 DEF EvalOK
<1>10. CASE Stops(e)
  <2>1. e.kind = "report" /\ e.subreport \notin Resources
    BY <1>10
  <2>2. CompileReport(e.subreport) = [left |-> TRUE, why |-> <<"notCompiled", e.subreport>>]
    BY <2>1 DEF CompileReport, Left
  <2>3. v = [left |-> TRUE, why |-> <<"notCompiled", e.subreport>>]
    BY <1>1, <1>8, <2>1, <2>2, EvalOfIs
  <2>4. FirstOf(b, Stopping, e) /\ v.left = TRUE /\ v.why = Why(e)
    BY <1>6, <1>7, <1>10, <2>1, <2>3
  <2> QED
    BY <1>4, <1>8, <2>4 DEF EvalOK
<1>11. CASE ~Stops(e) /\ c.left
  <2>1. v = c
    <3>1. CASE e.kind = "parameters"
      BY <1>1, <1>8, <1>11, <3>1, EvalOfIs
    <3>2. CASE e.kind = "report"
      <4>1. e.subreport \in Resources
        BY <1>11, <3>2
      <4>2. CompileReport(e.subreport) = [left |-> FALSE, value |-> Compiled(e.subreport)]
        BY <4>1 DEF CompileReport, Right
      <4> QED
        BY <1>1, <1>8, <1>11, <3>2, <4>2, EvalOfIs
    <3> QED
      BY <3>1, <3>2
  <2>2. PICK x \in All : FirstOf(s, Stopping, x) /\ c.why = Why(x)
    BY <1>3, <1>11 DEF EvalOK
  <2>3. FirstOf(b, Stopping, x)
    BY <1>6, <1>7, <1>11, <2>2
  <2> QED
    BY <1>4, <1>8, <1>9, <1>11, <2>1, <2>2, <2>3 DEF EvalOK
<1>12. CASE ~Stops(e) /\ ~c.left
  <2>1. NoneOf(s, Stopping) /\ c.value \in Seq(V)
    BY <1>3, <1>12 DEF EvalOK
  <2>2. NoneOf(b, Stopping)
    BY <1>6, <1>7, <1>12, <2>1
  <2>3. v.left = FALSE /\ v.value \in Nested(V)
    <3>1. CASE e.kind = "parameters"
      <4>1. v = [left |-> FALSE, value |-> Parameters(c.value)]
        BY <1>1, <1>8, <1>12, <3>1, EvalOfIs DEF Right
      <4> QED
        BY <2>1, <4>1, ValuesAre
    <3>2. CASE e.kind = "report"
      <4>1. e.subreport \in Resources
        BY <1>12, <3>2
      <4>2. CompileReport(e.subreport) = [left |-> FALSE, value |-> Compiled(e.subreport)]
        BY <4>1 DEF CompileReport, Right
      <4>3. v = [left |-> FALSE,
                 value |-> ReportExpression(e.name, Compiled(e.subreport), c.value)]
        BY <1>1, <1>8, <1>12, <3>2, <4>2, EvalOfIs DEF Right
      <4>4. e.name \in Names /\ e.subreport \in Inputs
        BY <3>2, <4>1
      <4> QED
        BY <2>1, <4>3, <4>4, ValuesAre
    <3> QED
      BY <3>1, <3>2
  <2> QED
    BY <1>4, <1>8, <2>2, <2>3 DEF EvalOK
<1> QED
  BY <1>9, <1>10, <1>11, <1>12

\* The parameters that an expression with a list inside it makes.
LEMMA MapList ==
    ASSUME NEW V, NEW E, NEW M, NEW B, NEW A, LevelOK(V, E, M, B, A),
           NEW e \in All, Resources \subseteq Inputs,
           \/ e.kind = "parameters" /\ ~Named(e)
           \/ e.kind = "report" /\ Named(e) /\ e.name \in Names
              /\ Meaning(e) = Compiled(e.subreport),
           e.expressions \in Seq(V), Inner(e) = e.expressions, ~EvalOf(E, e).left
    PROVE  MapOK(ToMapOf(M, EvalOf(E, e).value), AfterOf(A, e))
<1>1. PICK c : c = Collected(Each(E, e.expressions))
  OBVIOUS
<1>2. PICK s : s = FlattenSeq(Each(A, Inner(e)))
  OBVIOUS
<1>3. PICK j : j = Joined(Each(M, c.value))
  OBVIOUS
<1>4. s \in Seq(All) /\ (~c.left => MapOK(j, s))
  BY <1>1, <1>2, <1>3, ListIs
<1>5. PICK a : a = AfterOf(A, e)
  OBVIOUS
<1>6. a = s \o <<e>>
  BY <1>2, <1>5, Zenon DEF AfterOf
<1>7. ASSUME NEW S
      PROVE  /\ e \notin S /\ NoneOf(s, S) => NoneOf(a, S)
             /\ \A x : FirstOf(s, S, x) => FirstOf(a, S, x)
             /\ e \in S /\ NoneOf(s, S) => FirstOf(a, S, e)
  BY <1>4, <1>6, AroundIs
<1>8. PICK v : v = EvalOf(E, e)
  OBVIOUS
<1>9. CASE e.kind = "parameters" /\ ~Named(e)
  <2>1. v = IF c.left THEN c ELSE [left |-> FALSE, value |-> Parameters(c.value)]
    BY <1>1, <1>8, <1>9, EvalOfIs DEF Right
  <2>2. ~c.left /\ v.value = [kind |-> "parameters", expressions |-> c.value]
    BY <1>8, <2>1 DEF Parameters
  <2>3. ToMapOf(M, v.value) = j
    <3>1. v.value.kind = "parameters" /\ v.value.expressions = c.value
      BY <2>2
    <3> QED
      BY <1>3, <3>1, MapOfList
  <2>4. MapOK(j, s)
    BY <1>4, <2>2
  <2>5. ASSUME NEW name \in Names \ DOMAIN j PROVE NoneOf(a, NamedBy(name))
    <3>1. e \notin NamedBy(name)
      BY <1>9 DEF NamedBy
    <3> QED
      BY <1>7, <2>4, <3>1 DEF MapOK
  <2>6. MapOK(j, a)
    BY <1>7, <2>4, <2>5 DEF MapOK
  <2> QED
    BY <1>5, <1>8, <2>3, <2>6
<1>10. CASE e.kind = "report" /\ Named(e) /\ e.name \in Names
            /\ Meaning(e) = Compiled(e.subreport)
  <2>1. v = IF CompileReport(e.subreport).left THEN CompileReport(e.subreport)
            ELSE IF c.left THEN c
            ELSE Right(ReportExpression(e.name, CompileReport(e.subreport).value, c.value))
    BY <1>1, <1>8, <1>10, EvalOfIs
  <2>2. e.subreport \in Resources
    BY <1>8, <2>1 DEF CompileReport, Left
  <2>3. CompileReport(e.subreport) = [left |-> FALSE, value |-> Compiled(e.subreport)]
    BY <2>2 DEF CompileReport, Right
  <2>4. v = IF c.left THEN c
            ELSE [left |-> FALSE,
                  value |-> ReportExpression(e.name, Compiled(e.subreport), c.value)]
    BY <2>1, <2>3 DEF Right
  <2>5. ~c.left /\ v.value = ReportExpression(e.name, Compiled(e.subreport), c.value)
    BY <1>8, <2>4
  <2>6. MapOK(j, s)
    BY <1>4, <2>5
  <2>15. PICK u : u = v.value
    OBVIOUS
  <2>7. /\ u.kind = "report" /\ u.name = e.name
        /\ u.subreport = Meaning(e) /\ u.expressions = c.value
    BY <1>10, <2>5, <2>15 DEF ReportExpression
  <2>8. PICK m : m = ToMapOf(M, u)
    OBVIOUS
  <2>9. j = Joined(Each(M, u.expressions))
    BY <1>3, <2>7
  <2>10. /\ DOMAIN m = {e.name} \cup DOMAIN j
         /\ \A name \in DOMAIN j : m[name] = j[name]
         /\ e.name \notin DOMAIN j => m[e.name] = Meaning(e)
    <3>1. WithReport(ToMapOf(M, u), Joined(Each(M, u.expressions)), u.name, u.subreport)
      BY <2>7, MapOfReport
    <3>2. WithReport(m, j, e.name, Meaning(e))
      BY <2>7, <2>8, <2>9, <3>1
    <3> QED
      BY <3>2 DEF WithReport
  <2>11. DOMAIN m \subseteq Names
    BY <1>10, <2>6, <2>10 DEF MapOK
  <2>12. ASSUME NEW name \in DOMAIN m
         PROVE  \E x \in All : FirstOf(a, NamedBy(name), x) /\ m[name] = Meaning(x)
    <3>1. CASE name \in DOMAIN j
      BY <1>7, <2>6, <2>10, <3>1 DEF MapOK
    <3>2. CASE name \notin DOMAIN j
      <4>1. name = e.name
        BY <2>10, <3>2
      <4>2. e \in NamedBy(name)
        BY <1>10, <4>1 DEF NamedBy
      <4>3. NoneOf(s, NamedBy(name))
        BY <1>10, <2>6, <3>2, <4>1 DEF MapOK
      <4>4. FirstOf(a, NamedBy(name), e)
        BY <1>7, <4>2, <4>3
      <4> QED
        BY <2>10, <3>2, <4>1, <4>4
    <3> QED
      BY <3>1, <3>2
  <2>13. ASSUME NEW name \in Names \ DOMAIN m PROVE NoneOf(a, NamedBy(name))
    <3>1. e \notin NamedBy(name) /\ name \notin DOMAIN j
      BY <2>10 DEF NamedBy
    <3>2. NoneOf(s, NamedBy(name))
      BY <2>6, <3>1 DEF MapOK
    <3> QED
      BY <1>7, <3>1, <3>2
  <2>14. MapOK(m, a)
    BY <2>11, <2>12, <2>13 DEF MapOK
  <2> QED
    BY <1>5, <1>8, <2>8, <2>14, <2>15
<1> QED
  BY <1>9, <1>10

\* An expression of any kind.
LEMMA ExpressionIs ==
    ASSUME NEW V, NEW E, NEW M, NEW B, NEW A, LevelOK(V, E, M, B, A),
           NEW e \in All, e \in Nested(V), Resources \subseteq Inputs
    PROVE  /\ BeforeOf(B, e) \in Seq(All) /\ AfterOf(A, e) \in Seq(All)
           /\ EvalOK(EvalOf(E, e), BeforeOf(B, e), Nested(V))
           /\ ~EvalOf(E, e).left => MapOK(ToMapOf(M, EvalOf(E, e).value), AfterOf(A, e))
<1>0. ASSUME Inner(e) = <<>>
      PROVE  BeforeOf(B, e) \in Seq(All) /\ AfterOf(A, e) \in Seq(All)
  <2>1. PICK S : S = {}
    OBVIOUS
  <2> QED
    BY <1>0, <2>1, LeafIs
<1>1. CASE e.kind = "empty" /\ Inner(e) = <<>> /\ ~Stops(e) /\ ~Named(e)
  <2>1. EvalOf(E, e) = [left |-> FALSE, value |-> e]
    BY <1>1, EvalOfIs DEF Right
  <2>2. MapOK(ToMapOf(M, e), AfterOf(A, e))
    BY <1>1, MapLeaf
  <2>3. EvalOK(EvalOf(E, e), BeforeOf(B, e), Nested(V))
    BY <1>1, EvalLeaf
  <2> QED
    BY <1>0, <1>1, <2>1, <2>2, <2>3
<1>2. CASE /\ e.kind = "emptyDataSource" /\ Inner(e) = <<>> /\ Stops(e)
           /\ Why(e) = <<"badExpression">>
  <2>1. EvalOf(E, e) = [left |-> TRUE, why |-> <<"badExpression">>]
    BY <1>2, EvalOfIs DEF Left
  <2>2. EvalOK(EvalOf(E, e), BeforeOf(B, e), Nested(V))
    BY <1>2, EvalLeaf
  <2> QED
    BY <1>0, <1>2, <2>1, <2>2
<1>3. CASE /\ e.kind = "data" /\ Inner(e) = <<>> /\ ~Stops(e) /\ e.name \in Names \cup {NoName}
           /\ (Named(e) <=> e.name # NoName) /\ Meaning(e) = e.products
  <2>1. EvalOf(E, e) = [left |-> FALSE, value |-> e]
    BY <1>3, EvalOfIs DEF Right
  <2>2. MapOK(ToMapOf(M, e), AfterOf(A, e))
    BY <1>3, MapLeaf
  <2>3. EvalOK(EvalOf(E, e), BeforeOf(B, e), Nested(V))
    BY <1>3, EvalLeaf
  <2> QED
    BY <1>0, <1>3, <2>1, <2>2, <2>3
<1>4. CASE /\ e.kind = "parameters" /\ e.expressions \in Seq(V) /\ Inner(e) = e.expressions
           /\ ~Stops(e) /\ ~Named(e)
  <2>1. BeforeOf(B, e) \in Seq(All) /\ AfterOf(A, e) \in Seq(All)
    BY <1>4, ListIs, AroundIs DEF BeforeOf, AfterOf
  <2>2. EvalOK(EvalOf(E, e), BeforeOf(B, e), Nested(V))
    BY <1>4, EvalList
  <2>3. ~EvalOf(E, e).left => MapOK(ToMapOf(M, EvalOf(E, e).value), AfterOf(A, e))
    BY <1>4, MapList
  <2> QED
    BY <2>1, <2>2, <2>3
<1>5. CASE /\ e.kind = "report" /\ e.expressions \in Seq(V) /\ Inner(e) = e.expressions
           /\ Named(e) /\ e.name \in Names /\ Meaning(e) = Compiled(e.subreport)
           /\ (Stops(e) <=> e.subreport \notin Resources)
           /\ Why(e) = <<"notCompiled", e.subreport>>
  <2>1. BeforeOf(B, e) \in Seq(All) /\ AfterOf(A, e) \in Seq(All)
    BY <1>5, ListIs, AroundIs DEF BeforeOf, AfterOf
  <2>2. EvalOK(EvalOf(E, e), BeforeOf(B, e), Nested(V))
    BY <1>5, EvalList
  <2>3. ~EvalOf(E, e).left => MapOK(ToMapOf(M, EvalOf(E, e).value), AfterOf(A, e))
    BY <1>5, MapList
  <2> QED
    BY <2>1, <2>2, <2>3
<1> QED
  BY <1>1, <1>2, <1>3, <1>4, <1>5, KindsAre

\* The functions at every depth up to MaxDepth.
LEMMA LevelsAre ==
    \A n \in 0 .. MaxDepth : LevelOK(Expressions[n], Eval[n], ToMap[n], Before[n], After[n])
<1>1. MaxDepth \in Nat /\ Resources \subseteq Inputs
  BY ReportsAssumption
<1> DEFINE S == {n \in Nat : n <= MaxDepth =>
                    LevelOK(Expressions[n], Eval[n], ToMap[n], Before[n], After[n])}
<1>2. ASSUME NEW n \in 0 .. MaxDepth, NEW V, NEW E, NEW M, NEW B, NEW A,
             LevelOK(V, E, M, B, A),
             Expressions[n] = NestedLevel(n, V), Eval[n] = EvalLevel(n, E),
             ToMap[n] = ToMapLevel(n, M), Before[n] = BeforeLevel(n, B), After[n] = AfterLevel(n, A)
      PROVE  LevelOK(Expressions[n], Eval[n], ToMap[n], Before[n], After[n])
  <2>1. Expressions[n] = Nested(V)
    BY <1>2, Zenon DEF NestedLevel
  <2>2. PICK X : X = Expressions[n]
    OBVIOUS
  <2>3. PICK En : En = Eval[n]
    OBVIOUS
  <2>4. PICK Mn : Mn = ToMap[n]
    OBVIOUS
  <2>5. PICK Bn : Bn = Before[n]
    OBVIOUS
  <2>6. PICK An : An = After[n]
    OBVIOUS
  <2>7. X = Nested(V)
    BY <2>1, <2>2
  <2>8. En = [e \in X |-> EvalOf(E, e)]
    BY <1>2, <2>2, <2>3, Zenon DEF EvalLevel
  <2>9. Mn = [e \in X |-> ToMapOf(M, e)]
    BY <1>2, <2>2, <2>4, Zenon DEF ToMapLevel
  <2>10. Bn = [e \in X |-> BeforeOf(B, e)]
    BY <1>2, <2>2, <2>5, Zenon DEF BeforeLevel, BeforeOf
  <2>11. An = [e \in X |-> AfterOf(A, e)]
    BY <1>2, <2>2, <2>6, Zenon DEF AfterLevel, AfterOf
  <2>12. X \subseteq All
    BY <2>2 DEF All
  <2>13. ASSUME NEW e \in X
         PROVE  /\ Bn[e] \in Seq(All) /\ An[e] \in Seq(All)
                /\ EvalOK(En[e], Bn[e], X)
                /\ ~En[e].left => MapOK(Mn[En[e].value], An[e])
    <3>1. e \in All /\ e \in Nested(V)
      BY <2>7, <2>12
    <3>2. /\ BeforeOf(B, e) \in Seq(All) /\ AfterOf(A, e) \in Seq(All)
          /\ EvalOK(EvalOf(E, e), BeforeOf(B, e), Nested(V))
          /\ ~EvalOf(E, e).left => MapOK(ToMapOf(M, EvalOf(E, e).value), AfterOf(A, e))
      BY <1>1, <1>2, <3>1, ExpressionIs
    <3>3. En[e] = EvalOf(E, e) /\ Bn[e] = BeforeOf(B, e) /\ An[e] = AfterOf(A, e)
      BY <2>8, <2>10, <2>11, Zenon
    <3>4. EvalOK(En[e], Bn[e], X)
      BY <2>7, <3>2, <3>3
    <3>5. ASSUME ~En[e].left PROVE MapOK(Mn[En[e].value], An[e])
      <4>1. En[e].value \in X
        BY <3>4, <3>5 DEF EvalOK
      <4>2. Mn[En[e].value] = ToMapOf(M, En[e].value)
        BY <2>9, <4>1, Zenon
      <4> QED
        BY <3>2, <3>3, <3>5, <4>2
    <3> QED
      BY <3>2, <3>3, <3>4, <3>5
  <2>14. LevelOK(X, En, Mn, Bn, An)
    BY <2>13, Zenon DEF LevelOK
  <2> QED
    BY <2>2, <2>3, <2>4, <2>5, <2>6, <2>14
<1>3. 0 \in S
  <2>1. LevelOK({}, <<>>, <<>>, <<>>, <<>>)
    BY DEF LevelOK
  <2>2. 0 \in 0 .. MaxDepth
    BY <1>1
  <2>3. /\ Expressions[0] = NestedLevel(0, {}) /\ Eval[0] = EvalLevel(0, <<>>)
        /\ ToMap[0] = ToMapLevel(0, <<>>)
        /\ Before[0] = BeforeLevel(0, <<>>) /\ After[0] = AfterLevel(0, <<>>)
    BY <2>2, NestedLevels, EvalLevels, ToMapLevels, BeforeLevels, AfterLevels
  <2>4. LevelOK(Expressions[0], Eval[0], ToMap[0], Before[0], After[0])
    BY <1>2, <2>1, <2>2, <2>3
  <2> QED
    BY <2>4
<1>4. ASSUME NEW n \in Nat, n \in S PROVE n + 1 \in S
  <2>1. SUFFICES ASSUME n + 1 <= MaxDepth
                 PROVE  LevelOK(Expressions[n + 1], Eval[n + 1], ToMap[n + 1],
                                Before[n + 1], After[n + 1])
    OBVIOUS
  <2>2. PICK l \in 0 .. MaxDepth : l = n + 1
    BY <1>1, <2>1
  <2>3. l # 0 /\ l - 1 = n /\ n <= MaxDepth
    BY <1>1, <2>2
  <2>4. LevelOK(Expressions[n], Eval[n], ToMap[n], Before[n], After[n])
    BY <1>4, <2>3
  <2>5. /\ Expressions[l] = NestedLevel(l, Expressions[n]) /\ Eval[l] = EvalLevel(l, Eval[n])
        /\ ToMap[l] = ToMapLevel(l, ToMap[n])
        /\ Before[l] = BeforeLevel(l, Before[n]) /\ After[l] = AfterLevel(l, After[n])
    BY <2>3, NestedLevels, EvalLevels, ToMapLevels, BeforeLevels, AfterLevels
  <2>6. LevelOK(Expressions[l], Eval[l], ToMap[l], Before[l], After[l])
    BY <1>2, <2>4, <2>5
  <2> QED
    BY <2>2, <2>6
<1>5. Nat \subseteq S
  <2> HIDE DEF S
  <2> QED
    BY <1>3, <1>4, Induction
<1>6. \A n \in 0 .. MaxDepth : n \in Nat /\ n <= MaxDepth
  BY <1>1
<1> QED
  BY <1>5, <1>6

-----------------------------------------------------------------------------
(* The inductive invariant: what a run has done so far is what it was asked   *)
(* for, and what it failed with is the result of the step that failed.        *)
Evaluated(e) == Eval[MaxDepth][e]

RunInv == stage # "idle" => run \in Runs

CompiledInv ==
    stage \in {"parameters", "dataSource", "fill", "done"} => run.in \in Resources

ParametersInv ==
    stage \in {"dataSource", "fill", "done"} =>
        /\ ~Evaluated(run.parameters).left
        /\ parameters = ToMap[MaxDepth][Evaluated(run.parameters).value]

SourceInv ==
    /\ source \in Seq(Rows)
    /\ stage \in {"fill", "done"} =>
          run.dataSource \in DataSources /\ source = run.dataSource.products

RowsInv ==
    /\ rows \in Seq(Rows)
    /\ stage \in {"idle", "compile", "parameters", "dataSource"} => index = -1 /\ rows = <<>>
    /\ stage = "fill" => /\ index < Len(source) /\ Len(rows) = index + 1
                         /\ \A k \in 1 .. Len(rows) : rows[k] = source[k]
    /\ stage = "done" => rows = source

ErrorInv ==
    stage = "failed" =>
        IF run.in \notin Resources THEN error = <<"notCompiled", run.in>>
        ELSE IF Evaluated(run.parameters).left THEN error = Evaluated(run.parameters).why
        ELSE IF run.dataSource = EmptyDataSource THEN error = <<"badExpression">>
        ELSE error = <<"format">>

ReportsInv ==
    /\ ReportsTypeOK /\ RunInv /\ CompiledInv /\ ParametersInv /\ SourceInv /\ RowsInv
    /\ ErrorInv

\* What a run can be asked for.
LEMMA RunsAre ==
    ASSUME NEW r \in Runs
    PROVE  /\ r.parameters \in Expressions[MaxDepth]
           /\ r.dataSource \in {EmptyDataSource} \cup DataSources
  BY ReportsAssumption

\* What the data source of a run is evaluated to.
LEMMA DataSourceIs ==
    ASSUME NEW d \in {EmptyDataSource} \cup DataSources
    PROVE  /\ d \in All
           /\ d # EmptyDataSource =>
                 /\ d \in DataSources /\ d \notin Stopping
                 /\ Evaluated(d).left = FALSE /\ Evaluated(d).value = d
           /\ d = EmptyDataSource =>
                 /\ d \notin DataSources /\ d \in Stopping /\ Why(d) = <<"badExpression">>
                 /\ Evaluated(d).left = TRUE /\ Evaluated(d).why = <<"badExpression">>
<1>1. MaxDepth \in Nat /\ MaxDepth \in 0 .. MaxDepth
  BY ReportsAssumption
<1>2. PICK V : Expressions[MaxDepth] = NestedLevel(MaxDepth, V)
  BY <1>1, NestedLevels
<1>3. PICK E : Eval[MaxDepth] = EvalLevel(MaxDepth, E)
  BY <1>1, EvalLevels
<1>4. d \in Expressions[MaxDepth]
  BY <1>2 DEF NestedLevel, Nested
<1>5. d \in All
  BY <1>1, <1>4 DEF All
<1>6. PICK v : v = Evaluated(d)
  OBVIOUS
<1>7. v = EvalOf(E, d)
  BY <1>3, <1>4, <1>6, Zenon DEF EvalLevel, Evaluated
<1>8. ASSUME d # EmptyDataSource
      PROVE  /\ d \in DataSources /\ d \notin Stopping
             /\ v.left = FALSE /\ v.value = d
  <2>1. d \in DataSources
    BY <1>8
  <2>2. d.kind = "data"
    BY <2>1 DEF DataSources
  <2>3. v = [left |-> FALSE, value |-> d]
    BY <1>7, <2>2, EvalOfIs DEF Right
  <2> QED
    BY <2>1, <2>2, <2>3 DEF Stopping, Stops
<1>9. ASSUME d = EmptyDataSource
      PROVE  /\ d \notin DataSources /\ d \in Stopping /\ Why(d) = <<"badExpression">>
             /\ v.left = TRUE /\ v.why = <<"badExpression">>
  <2>1. d.kind = "emptyDataSource"
    BY <1>9 DEF EmptyDataSource
  <2>2. v = [left |-> TRUE, why |-> <<"badExpression">>]
    BY <1>7, <2>1, EvalOfIs DEF Left
  <2> QED
    BY <1>5, <2>1, <2>2 DEF DataSources, Stopping, Stops, Why
<1> QED
  BY <1>5, <1>6, <1>8, <1>9

\* It holds when nothing runs.
LEMMA ReportsInitInv == ReportsInit => ReportsInv
<1> SUFFICES ASSUME ReportsInit PROVE ReportsInv
  OBVIOUS
<1>1. <<>> \in Seq(Rows) /\ Len(<<>>) = 0
  BY EmptySeq
<1> QED
  BY <1>1 DEF ReportsInit, ReportsInv, ReportsTypeOK, RunInv, CompiledInv, ParametersInv,
              SourceInv, RowsInv, ErrorInv

\* It is kept by the start of a run ...
LEMMA RunReportInv == ReportsInv /\ RunReport => ReportsInv'
<1> SUFFICES ASSUME ReportsInv, RunReport PROVE ReportsInv'
  OBVIOUS
<1> QED
  BY DEF RunReport, ReportsInv, ReportsTypeOK, RunInv, CompiledInv, ParametersInv,
         SourceInv, RowsInv, ErrorInv

\* ... by the compilation ...
LEMMA CompileInv == ReportsInv /\ Compile => ReportsInv'
<1> SUFFICES ASSUME ReportsInv, Compile PROVE ReportsInv'
  OBVIOUS
<1>1. CASE run.in \in Resources
  <2>1. CompileReport(run.in).left = FALSE
    BY <1>1 DEF CompileReport, Right
  <2>2. /\ stage = "compile" /\ stage' = "parameters"
        /\ UNCHANGED <<run, parameters, source, index, rows, error>>
    BY <2>1 DEF Compile
  <2> QED
    BY <1>1, <2>2 DEF ReportsInv, ReportsTypeOK, RunInv, CompiledInv, ParametersInv,
                      SourceInv, RowsInv, ErrorInv
<1>2. CASE run.in \notin Resources
  <2>1. CompileReport(run.in) = [left |-> TRUE, why |-> <<"notCompiled", run.in>>]
    BY <1>2 DEF CompileReport, Left
  <2>2. /\ stage = "compile" /\ stage' = "failed" /\ error' = <<"notCompiled", run.in>>
        /\ UNCHANGED <<run, parameters, source, index, rows>>
    BY <2>1 DEF Compile, Fail
  <2> QED
    BY <1>2, <2>2 DEF ReportsInv, ReportsTypeOK, RunInv, CompiledInv, ParametersInv,
                      SourceInv, RowsInv, ErrorInv
<1> QED
  BY <1>1, <1>2

\* ... by the evaluation of the parameters ...
LEMMA EvalParametersInv == ReportsInv /\ EvalParameters => ReportsInv'
<1> SUFFICES ASSUME ReportsInv, EvalParameters PROVE ReportsInv'
  OBVIOUS
<1>1. PICK v : v = Evaluated(run.parameters)
  OBVIOUS
<1>2. CASE v.left
  <2>1. /\ stage = "parameters" /\ stage' = "failed" /\ error' = v.why
        /\ UNCHANGED <<run, parameters, source, index, rows>>
    BY <1>1, <1>2 DEF EvalParameters, Evaluated, Fail
  <2>2. Evaluated(run.parameters)' = v
    BY <1>1, <2>1 DEF Evaluated
  <2>3. ErrorInv'
    BY <1>2, <2>1, <2>2 DEF ReportsInv, CompiledInv, ErrorInv
  <2> QED
    BY <2>1, <2>3 DEF ReportsInv, ReportsTypeOK, RunInv, CompiledInv, ParametersInv,
                      SourceInv, RowsInv
<1>3. CASE ~v.left
  <2>1. /\ stage = "parameters" /\ stage' = "dataSource"
        /\ parameters' = ToMap[MaxDepth][v.value]
        /\ UNCHANGED <<run, source, index, rows, error>>
    BY <1>1, <1>3 DEF EvalParameters, Evaluated
  <2>2. Evaluated(run.parameters)' = v
    BY <1>1, <2>1 DEF Evaluated
  <2>3. ParametersInv'
    BY <1>3, <2>1, <2>2 DEF ParametersInv
  <2> QED
    BY <2>1, <2>3 DEF ReportsInv, ReportsTypeOK, RunInv, CompiledInv,
                      SourceInv, RowsInv, ErrorInv
<1> QED
  BY <1>2, <1>3

\* ... by the evaluation of the data source ...
LEMMA EvalDataSourceInv == ReportsInv /\ EvalDataSource => ReportsInv'
<1> SUFFICES ASSUME ReportsInv, EvalDataSource PROVE ReportsInv'
  OBVIOUS
<1>1. PICK d : d = run.dataSource
  OBVIOUS
<1>2. stage = "dataSource" /\ run \in Runs
  BY DEF EvalDataSource, ReportsInv, RunInv
<1>3. d \in {EmptyDataSource} \cup DataSources
  BY <1>1, <1>2, RunsAre
<1>4. PICK v : v = Evaluated(d)
  OBVIOUS
<1>5. CASE d = EmptyDataSource
  <2>1. v.left = TRUE /\ v.why = <<"badExpression">>
    BY <1>3, <1>4, <1>5, DataSourceIs
  <2>2. /\ stage' = "failed" /\ error' = <<"badExpression">>
        /\ UNCHANGED <<run, parameters, source, index, rows>>
    BY <1>1, <1>4, <2>1 DEF EvalDataSource, Evaluated, Fail
  <2>3. ErrorInv'
    <3>1. run.in \in Resources /\ ~Evaluated(run.parameters).left
      BY <1>2 DEF ReportsInv, CompiledInv, ParametersInv
    <3>2. run.in' \in Resources /\ ~Evaluated(run.parameters)'.left
          /\ run.dataSource' = EmptyDataSource
      BY <1>1, <1>5, <2>2, <3>1 DEF Evaluated
    <3> QED
      BY <2>2, <3>2 DEF ErrorInv
  <2> QED
    BY <1>2, <2>2, <2>3 DEF ReportsInv, ReportsTypeOK, RunInv, CompiledInv, ParametersInv,
                            SourceInv, RowsInv
<1>6. CASE d # EmptyDataSource
  <2>1. d \in DataSources /\ v.left = FALSE /\ v.value = d
    BY <1>3, <1>4, <1>6, DataSourceIs
  <2>2. /\ stage' = "fill" /\ source' = d.products
        /\ UNCHANGED <<run, parameters, index, rows, error>>
    BY <1>1, <1>4, <2>1 DEF EvalDataSource, Evaluated
  <2>3. d.products \in Seq(Rows)
    BY <2>1 DEF DataSources
  <2>4. index = -1 /\ rows = <<>> /\ rows \in Seq(Rows)
    BY <1>2 DEF ReportsInv, RowsInv
  <2>5. Len(d.products) \in Nat /\ Len(rows) = 0
    BY <2>3, <2>4, EmptySeq
  <2>6. ReportsTypeOK'
    BY <2>2, <2>4, <2>5 DEF ReportsTypeOK
  <2>7. RowsInv'
    BY <2>2, <2>4, <2>5 DEF RowsInv
  <2>8. ParametersInv'
    <3>1. /\ ~Evaluated(run.parameters).left
          /\ parameters = ToMap[MaxDepth][Evaluated(run.parameters).value]
      BY <1>2 DEF ReportsInv, ParametersInv
    <3>2. Evaluated(run.parameters)' = Evaluated(run.parameters) /\ parameters' = parameters
      BY <2>2 DEF Evaluated
    <3> QED
      BY <3>1, <3>2 DEF ParametersInv
  <2>9. SourceInv'
    BY <1>1, <2>1, <2>2, <2>3 DEF SourceInv
  <2>10. RunInv' /\ CompiledInv' /\ ErrorInv'
    BY <1>2, <2>2 DEF ReportsInv, RunInv, CompiledInv, ErrorInv
  <2> QED
    BY <2>6, <2>7, <2>8, <2>9, <2>10 DEF ReportsInv
<1> QED
  BY <1>5, <1>6

\* ... by the next row, or the end of the rows ...
LEMMA NextRowInv == ReportsInv /\ NextRow => ReportsInv'
<1> SUFFICES ASSUME ReportsInv, NextRow PROVE ReportsInv'
  OBVIOUS
<1>1. /\ stage = "fill" /\ index' = index + 1
      /\ UNCHANGED <<run, parameters, source, error>>
  BY DEF NextRow
<1>2. PICK n \in Nat : n = Len(source)
  BY LenProperties DEF ReportsInv, SourceInv
<1>3. PICK s \in Seq(Rows) : s = source
  BY DEF ReportsInv, SourceInv
<1>4. PICK r \in Seq(Rows) : r = rows
  BY DEF ReportsInv, RowsInv
<1>5. PICK k \in -1 .. n : k = index
  BY <1>2 DEF ReportsInv, ReportsTypeOK
<1>6. k < n /\ Len(r) = k + 1 /\ \A l \in 1 .. Len(r) : r[l] = s[l]
  BY <1>1, <1>2, <1>3, <1>4, <1>5 DEF ReportsInv, RowsInv
<1>7. Len(s) = n /\ DOMAIN s = 1 .. n
  BY <1>2, <1>3, LenProperties
<1>8. s = <<>> <=> n = 0
  BY <1>7, EmptySeq
<1>9. RunInv' /\ CompiledInv' /\ SourceInv' /\ ErrorInv'
  <2>1. stage' \in {"fill", "done"}
    BY <1>1 DEF NextRow
  <2> QED
    BY <1>1, <2>1 DEF ReportsInv, RunInv, CompiledInv, SourceInv, ErrorInv
<1>10. ParametersInv'
  <2>1. /\ ~Evaluated(run.parameters).left
        /\ parameters = ToMap[MaxDepth][Evaluated(run.parameters).value]
    BY <1>1 DEF ReportsInv, ParametersInv
  <2>2. Evaluated(run.parameters)' = Evaluated(run.parameters) /\ parameters' = parameters
    BY <1>1 DEF Evaluated
  <2> QED
    BY <2>1, <2>2 DEF ParametersInv
<1>11. CASE k + 1 >= n
  <2>1. k + 1 = n
    BY <1>6, <1>11
  <2>2. stage' = "done" /\ rows' = r
    BY <1>1, <1>2, <1>4, <1>5, <1>11 DEF NextRow
  <2>3. r = s
    <3>1. Len(r) = Len(s) /\ \A l \in 1 .. Len(r) : r[l] = s[l]
      BY <1>6, <1>7, <2>1
    <3> QED
      BY <3>1, SeqEqual
  <2>4. RowsInv'
    BY <1>1, <1>3, <2>2, <2>3 DEF RowsInv
  <2>5. ReportsTypeOK'
    <3>1. /\ stage' = "done" /\ index' = n /\ source' = s /\ rows' = s /\ Len(s) = n
      BY <1>1, <1>3, <1>5, <1>7, <2>1, <2>2, <2>3
    <3> QED
      BY <3>1 DEF ReportsTypeOK
  <2> QED
    BY <1>9, <1>10, <2>4, <2>5 DEF ReportsInv
<1>12. CASE k + 1 < n
  <2>1. /\ ~(source = <<>> \/ index' >= Len(source))
    BY <1>1, <1>2, <1>3, <1>5, <1>8, <1>12
  <2>2. stage' = "fill" /\ rows' = Append(r, s[k + 2])
    BY <1>1, <1>3, <1>4, <1>5, <2>1 DEF NextRow
  <2>3. PICK m \in 1 .. n : m = k + 2
    BY <1>12
  <2>4. s[m] \in Rows
    BY <1>7, <2>3, ElementOfSeq
  <2>5. PICK q : q = Append(r, s[m])
    OBVIOUS
  <2>6. /\ q \in Seq(Rows) /\ Len(q) = Len(r) + 1
        /\ \A l \in 1 .. Len(r) : q[l] = r[l]
        /\ q[Len(r) + 1] = s[m]
    BY <2>4, <2>5, AppendProperties
  <2>7. Len(q) = m /\ Len(r) = m - 1
    BY <1>6, <2>3, <2>6
  <2>8. \A l \in 1 .. m - 1 : q[l] = s[l]
    BY <1>6, <2>6, <2>7
  <2>9. q[m] = s[m]
    BY <2>3, <2>6, <2>7
  <2>10. \A l \in 1 .. m : q[l] = s[l]
    BY <2>3, <2>8, <2>9
  <2>11. /\ stage' = "fill" /\ rows' = q /\ source' = s /\ index' = m - 1
    BY <1>1, <1>3, <1>5, <2>2, <2>3, <2>5
  <2>12. RowsInv'
    BY <1>7, <2>3, <2>6, <2>7, <2>10, <2>11 DEF RowsInv
  <2>13. ReportsTypeOK'
    BY <1>7, <2>3, <2>7, <2>11 DEF ReportsTypeOK
  <2> QED
    BY <1>9, <1>10, <2>12, <2>13 DEF ReportsInv
<1> QED
  BY <1>11, <1>12

\* ... and by a format that fails.
LEMMA FormatFailsInv == ReportsInv /\ FormatFails => ReportsInv'
<1> SUFFICES ASSUME ReportsInv, FormatFails PROVE ReportsInv'
  OBVIOUS
<1>1. /\ stage = "fill" /\ stage' = "failed" /\ error' = <<"format">>
      /\ UNCHANGED <<run, parameters, source, index, rows>>
  BY DEF FormatFails, Fail
<1>2. run.in \in Resources /\ ~Evaluated(run.parameters).left
  BY <1>1 DEF ReportsInv, CompiledInv, ParametersInv
<1>3. run.dataSource # EmptyDataSource
  <2>1. run.dataSource \in DataSources
    BY <1>1 DEF ReportsInv, SourceInv
  <2> QED
    BY <2>1 DEF DataSources, EmptyDataSource
<1>4. ErrorInv'
  <2>1. run.in' \in Resources /\ ~Evaluated(run.parameters)'.left
        /\ run.dataSource' # EmptyDataSource
    BY <1>1, <1>2, <1>3 DEF Evaluated
  <2> QED
    BY <1>1, <2>1 DEF ErrorInv
<1> QED
  BY <1>1, <1>4 DEF ReportsInv, ReportsTypeOK, RunInv, CompiledInv, ParametersInv,
                    SourceInv, RowsInv

\* Whatever the inputs, the names, the rows and the depth, and whichever runs
\* are asked for: ReportsInv always holds.
THEOREM ReportsInvariant == ReportsSpec => []ReportsInv
<1>1. ReportsInv /\ UNCHANGED reportVars => ReportsInv'
  BY DEF reportVars, ReportsInv, ReportsTypeOK, RunInv, CompiledInv, ParametersInv,
         SourceInv, RowsInv, ErrorInv, Evaluated
<1>2. ReportsInv /\ [ReportsNext]_reportVars => ReportsInv'
  BY <1>1, RunReportInv, CompileInv, EvalParametersInv, EvalDataSourceInv, NextRowInv,
     FormatFailsInv DEF ReportsNext
<1> QED
  BY <1>2, ReportsInitInv, PTL DEF ReportsSpec

\* The first of a set in a sequence, by the places of the set.
LEMMA FirstPlace ==
    ASSUME NEW s \in Seq(All), NEW S, NEW P, P = {k \in DOMAIN s : s[k] \in S}
    PROVE  /\ \A x : FirstOf(s, S, x) => P # {} /\ s[Min(P)] = x
           /\ NoneOf(s, S) => P = {}
<1>1. P \in SUBSET Nat
  <2>1. DOMAIN s = 1 .. Len(s) /\ Len(s) \in Nat
    BY LenProperties
  <2> QED
    BY <2>1
<1>2. ASSUME NEW x, FirstOf(s, S, x) PROVE P # {} /\ s[Min(P)] = x
  <2>1. PICK k \in DOMAIN s : s[k] = x /\ x \in S /\ \A j \in DOMAIN s : j < k => s[j] \notin S
    BY <1>2 DEF FirstOf
  <2>2. k \in P
    BY <2>1
  <2>3. PICK m : m = Min(P)
    OBVIOUS
  <2>4. m \in P /\ m <= k
    BY <1>1, <2>2, <2>3, MinIs
  <2>5. ~(m < k)
    BY <2>1, <2>4
  <2>6. m = k
    BY <1>1, <2>2, <2>4, <2>5
  <2> QED
    BY <2>1, <2>2, <2>3, <2>6
<1>3. NoneOf(s, S) => P = {}
  BY DEF NoneOf
<1> QED
  BY <1>2, <1>3

\* What is left in given and asked.
LEMMA RunIs ==
    ASSUME NEW r \in Runs
    PROVE  \E b, a \in Seq(All) :
              /\ b = Before[MaxDepth][r.parameters] /\ a = After[MaxDepth][r.parameters]
              /\ EvalOK(Evaluated(r.parameters), b, Expressions[MaxDepth])
              /\ ~Evaluated(r.parameters).left =>
                    MapOK(ToMap[MaxDepth][Evaluated(r.parameters).value], a)
<1>1. MaxDepth \in 0 .. MaxDepth
  BY ReportsAssumption
<1>2. LevelOK(Expressions[MaxDepth], Eval[MaxDepth], ToMap[MaxDepth], Before[MaxDepth],
              After[MaxDepth])
  BY <1>1, LevelsAre
<1>3. r.parameters \in Expressions[MaxDepth]
  BY RunsAre
<1> QED
  BY <1>2, <1>3 DEF LevelOK, Evaluated

Asked(b, d) == b \o <<d>>
StopPlaces(asked) == {k \in DOMAIN asked : Stops(asked[k])}
NamePlaces(given, name) == {k \in DOMAIN given : Named(given[k]) /\ given[k].name = name}

\* The faults of a run are those of its parameters, and then its data source's.
LEMMA FaultsAre ==
    ASSUME NEW b \in Seq(All), NEW V, NEW v, EvalOK(v, b, V),
           NEW d \in {EmptyDataSource} \cup DataSources,
           NEW asked, asked = Asked(b, d),
           NEW P, P = StopPlaces(asked)
    PROVE  /\ v.left => P # {} /\ Why(asked[Min(P)]) = v.why
           /\ ~v.left /\ d = EmptyDataSource =>
                 P # {} /\ Why(asked[Min(P)]) = <<"badExpression">>
           /\ ~v.left /\ d # EmptyDataSource => P = {}
<1>0. asked = b \o <<d>>
  BY Zenon DEF Asked
<1>1. d \in All
  BY DataSourceIs
<1>2. /\ asked \in Seq(All)
      /\ \A x : FirstOf(b, Stopping, x) => FirstOf(asked, Stopping, x)
      /\ d \in Stopping /\ NoneOf(b, Stopping) => FirstOf(asked, Stopping, d)
      /\ d \notin Stopping /\ NoneOf(b, Stopping) => NoneOf(asked, Stopping)
  BY <1>0, <1>1, AroundIs
<1>3. P = {k \in DOMAIN asked : asked[k] \in Stopping}
  <2>1. \A k \in DOMAIN asked : asked[k] \in All
    BY <1>2, ElementOfSeq, LenProperties
  <2> QED
    BY <2>1 DEF Stopping, StopPlaces
<1>4. /\ \A x : FirstOf(asked, Stopping, x) => P # {} /\ asked[Min(P)] = x
      /\ NoneOf(asked, Stopping) => P = {}
  BY <1>2, <1>3, FirstPlace
<1>5. ASSUME v.left PROVE P # {} /\ Why(asked[Min(P)]) = v.why
  <2>1. PICK x \in All : FirstOf(b, Stopping, x) /\ v.why = Why(x)
    BY <1>5 DEF EvalOK
  <2> QED
    BY <1>2, <1>4, <2>1
<1>6. ASSUME ~v.left PROVE NoneOf(b, Stopping)
  BY <1>6 DEF EvalOK
<1>7. ASSUME ~v.left, d = EmptyDataSource
      PROVE  P # {} /\ Why(asked[Min(P)]) = <<"badExpression">>
  <2>1. d \in Stopping /\ Why(d) = <<"badExpression">>
    BY <1>7, DataSourceIs
  <2>2. FirstOf(asked, Stopping, d)
    BY <1>2, <1>6, <1>7, <2>1
  <2> QED
    BY <1>4, <2>1, <2>2
<1>8. ASSUME ~v.left, d # EmptyDataSource PROVE P = {}
  <2>1. d \notin Stopping
    BY <1>8, DataSourceIs
  <2> QED
    BY <1>2, <1>4, <1>6, <1>8, <2>1
<1> QED
  BY <1>5, <1>7, <1>8

\* What stops a run first is its first fault, or an empty data source that
\* stands before all of its faults.
LEMMA FirstFault ==
    ASSUME NEW asked \in Seq(All),
           NEW P, P = {k \in DOMAIN asked : Stops(asked[k])},
           NEW Q, Q = {k \in DOMAIN asked : Faulty(asked[k])}
    PROVE  /\ P = {} => Q = {}
           /\ P # {} => \/ /\ Why(asked[Min(P)]) = <<"badExpression">>
                           /\ \E k \in DOMAIN asked : /\ asked[k].kind = "emptyDataSource"
                                                     /\ \A j \in Q : k < j
                        \/ Q # {} /\ Why(asked[Min(P)]) = Fault(asked[Min(Q)])
<1>1. P \in SUBSET Nat /\ Q \in SUBSET Nat /\ P \subseteq DOMAIN asked
  <2>1. DOMAIN asked = 1 .. Len(asked) /\ Len(asked) \in Nat
    BY LenProperties
  <2> QED
    BY <2>1
<1>2. Q \subseteq P
  BY DEF Stops, Faulty
<1>3. ASSUME P # {}
      PROVE  \/ /\ Why(asked[Min(P)]) = <<"badExpression">>
                /\ \E k \in DOMAIN asked : /\ asked[k].kind = "emptyDataSource"
                                          /\ \A j \in Q : k < j
             \/ Q # {} /\ Why(asked[Min(P)]) = Fault(asked[Min(Q)])
  <2>1. PICK m : m = Min(P)
    OBVIOUS
  <2>2. m \in P /\ m \in Nat /\ \A k \in P : m <= k
    BY <1>1, <1>3, <2>1, MinIs
  <2>3. CASE m \in Q
    <3>1. PICK l : l = Min(Q)
      OBVIOUS
    <3>2. l \in Q /\ l \in Nat /\ \A k \in Q : l <= k
      BY <1>1, <2>3, <3>1, MinIs
    <3>3. l = m
      BY <1>2, <2>2, <2>3, <3>2
    <3>4. asked[m].kind = "report"
      BY <2>3 DEF Faulty
    <3>5. Why(asked[m]) = Fault(asked[m])
      BY <3>4 DEF Why, Fault
    <3> QED
      BY <2>1, <2>3, <3>1, <3>3, <3>5
  <2>4. CASE m \notin Q
    <3>1. asked[m].kind = "emptyDataSource" /\ m \in DOMAIN asked
      BY <2>2, <2>4 DEF Stops, Faulty
    <3>2. Why(asked[m]) = <<"badExpression">>
      BY <3>1 DEF Why
    <3>3. \A j \in Q : m < j
      BY <1>1, <1>2, <2>2, <2>4
    <3> QED
      BY <2>1, <3>1, <3>2, <3>3
  <2> QED
    BY <2>3, <2>4
<1> QED
  BY <1>2, <1>3

\* The parameters of a name are what the first expression of the name means.
LEMMA PlacesAre ==
    ASSUME NEW a \in Seq(All), NEW m, MapOK(m, a), NEW name,
           NEW P, P = NamePlaces(a, name)
    PROVE  /\ name \in DOMAIN m => name \in Names /\ P # {} /\ m[name] = Meaning(a[Min(P)])
           /\ name \in Names \ DOMAIN m => P = {}
<1>1. P = {k \in DOMAIN a : a[k] \in NamedBy(name)}
  <2>1. \A k \in DOMAIN a : a[k] \in All
    BY ElementOfSeq, LenProperties
  <2> QED
    BY <2>1 DEF NamedBy, NamePlaces
<1>2. /\ \A x : FirstOf(a, NamedBy(name), x) => P # {} /\ a[Min(P)] = x
      /\ NoneOf(a, NamedBy(name)) => P = {}
  BY <1>1, FirstPlace
<1>3. ASSUME name \in DOMAIN m
      PROVE  name \in Names /\ P # {} /\ m[name] = Meaning(a[Min(P)])
  <2>1. PICK x \in All : FirstOf(a, NamedBy(name), x) /\ m[name] = Meaning(x)
    BY <1>3 DEF MapOK
  <2> QED
    BY <1>2, <1>3, <2>1 DEF MapOK
<1>4. ASSUME name \in Names \ DOMAIN m PROVE P = {}
  BY <1>2, <1>4 DEF MapOK
<1> QED
  BY <1>3, <1>4

\* The invariant says what RunIsAsWritten asks for.
LEMMA WrittenSince == ReportsInv => RunIsAsWritten
<1> SUFFICES ASSUME ReportsInv PROVE RunIsAsWritten
  OBVIOUS
<1>1. CASE stage \notin {"done", "failed"}
  BY <1>1 DEF RunIsAsWritten
<1>2. CASE stage \in {"done", "failed"}
  <2>1. run \in Runs
    BY <1>2 DEF ReportsInv, RunInv
  <2>2. PICK v : v = Evaluated(run.parameters)
    OBVIOUS
  <2>3. PICK b, a \in Seq(All) :
           /\ b = Before[MaxDepth][run.parameters] /\ a = After[MaxDepth][run.parameters]
           /\ EvalOK(v, b, Expressions[MaxDepth])
           /\ ~v.left => MapOK(ToMap[MaxDepth][v.value], a)
    BY <2>1, <2>2, RunIs
  <2>4. PICK d \in {EmptyDataSource} \cup DataSources : d = run.dataSource
    BY <2>1, RunsAre
  <2>5. PICK asked : asked = b \o <<d>>
    OBVIOUS
  <2>6. PICK P : P = {k \in DOMAIN asked : Stops(asked[k])}
    OBVIOUS
  <2>7. /\ v.left => P # {} /\ Why(asked[Min(P)]) = v.why
        /\ ~v.left /\ d = EmptyDataSource =>
              P # {} /\ Why(asked[Min(P)]) = <<"badExpression">>
        /\ ~v.left /\ d # EmptyDataSource => P = {}
    <3>1. P = StopPlaces(asked)
      BY <2>6, Zenon DEF StopPlaces
    <3>2. asked = Asked(b, d)
      BY <2>5, Zenon DEF Asked
    <3> QED
      BY <2>3, <3>1, <3>2, FaultsAre
  <2>11. PICK Q : Q = {k \in DOMAIN asked : Faulty(asked[k])}
    OBVIOUS
  <2>12. /\ P = {} => Q = {}
         /\ P # {} => \/ /\ Why(asked[Min(P)]) = <<"badExpression">>
                         /\ \E k \in DOMAIN asked : /\ asked[k].kind = "emptyDataSource"
                                                   /\ \A j \in Q : k < j
                      \/ Q # {} /\ Why(asked[Min(P)]) = Fault(asked[Min(Q)])
    <3>1. asked \in Seq(All)
      <4>1. d \in All
        BY DataSourceIs
      <4>2. asked = Asked(b, d)
        BY <2>5, Zenon DEF Asked
      <4> QED
        BY <2>5, <4>1, AroundIs
    <3> QED
      BY <2>6, <2>11, <3>1, FirstFault
  <2> DEFINE places(name) == {k \in DOMAIN a : Named(a[k]) /\ a[k].name = name}
  <2>10. SUFFICES
           /\ stage = "done" =>
                 /\ Q = {} /\ run.in \in Resources
                 /\ d # EmptyDataSource => rows = d.products
                 /\ \A name \in Names : name \in DOMAIN parameters <=> places(name) # {}
                 /\ \A name \in DOMAIN parameters :
                       name \in Names /\ parameters[name] = Meaning(a[Min(places(name))])
           /\ stage = "failed" =>
                 IF run.in \notin Resources THEN error = <<"notCompiled", run.in>>
                 ELSE \/ error = <<"badExpression">>
                         /\ \E k \in DOMAIN asked : /\ asked[k].kind = "emptyDataSource"
                                                   /\ \A j \in Q : k < j
                      \/ error = IF Q # {} THEN Fault(asked[Min(Q)]) ELSE <<"format">>
    BY <2>3, <2>4, <2>5, <2>11 DEF RunIsAsWritten
  <2>8. CASE stage = "done"
    <3>1. /\ ~v.left /\ parameters = ToMap[MaxDepth][v.value]
          /\ run.in \in Resources /\ d \in DataSources
          /\ rows = d.products
      BY <2>2, <2>4, <2>8 DEF ReportsInv, CompiledInv, ParametersInv, SourceInv, RowsInv
    <3>2. d # EmptyDataSource
      BY <3>1 DEF DataSources, EmptyDataSource
    <3>3. Q = {}
      BY <2>7, <2>12, <3>1, <3>2
    <3>4. PICK m : m = parameters /\ MapOK(m, a)
      BY <2>3, <3>1
    <3>5. ASSUME NEW name
          PROVE  /\ name \in DOMAIN m =>
                       /\ name \in Names /\ places(name) # {}
                       /\ m[name] = Meaning(a[Min(places(name))])
                 /\ name \in Names \ DOMAIN m => places(name) = {}
      <4>1. PICK R : R = {k \in DOMAIN a : Named(a[k]) /\ a[k].name = name}
        OBVIOUS
      <4>2. /\ name \in DOMAIN m => name \in Names /\ R # {} /\ m[name] = Meaning(a[Min(R)])
            /\ name \in Names \ DOMAIN m => R = {}
        <5>1. R = NamePlaces(a, name)
          BY <4>1, Zenon DEF NamePlaces
        <5> QED
          BY <3>4, <5>1, PlacesAre
      <4> QED
        BY <4>1, <4>2
    <3>6. \A name \in Names : name \in DOMAIN m <=> places(name) # {}
      BY <3>5
    <3>7. \A name \in DOMAIN m : name \in Names /\ m[name] = Meaning(a[Min(places(name))])
      BY <3>5
    <3> QED
      BY <2>8, <3>1, <3>3, <3>4, <3>6, <3>7
  <2>9. CASE stage = "failed"
    <3>1. error = IF run.in \notin Resources THEN <<"notCompiled", run.in>>
                  ELSE IF v.left THEN v.why
                  ELSE IF d = EmptyDataSource THEN <<"badExpression">>
                  ELSE <<"format">>
      BY <2>2, <2>4, <2>9 DEF ReportsInv, ErrorInv
    <3>2. error = IF run.in \notin Resources THEN <<"notCompiled", run.in>>
                  ELSE IF P # {} THEN Why(asked[Min(P)])
                  ELSE <<"format">>
      BY <2>7, <3>1
    <3> QED
      BY <2>9, <2>12, <3>2
  <2> QED
    BY <1>2, <2>8, <2>9
<1> QED
  BY <1>1, <1>2

\* However the lists of a report are nested, it is filled with every row once
\* and in order and with the parameters its expressions name, or it fails with
\* the first of its faults, or an empty data source before it: RunIsAsWritten
\* always holds.
THEOREM ReportIsAsWritten == ReportsSpec => []RunIsAsWritten
  BY ReportsInvariant, WrittenSince, PTL

-----------------------------------------------------------------------------
(* All three.                                                                 *)

(* TypeOK: the parts of the server side by side, of which each is left alone  *)
(* while another is at work, keep the types of their variables.               *)
THEOREM ServerTypes == Spec => []TypeOK
<1>1. Init => CustomersInit /\ UserGraphInit /\ ReportsInit
  BY DEF Init
<1>2. [Next]_vars => [CustomersNext]_customerVars
  BY DEF Next, vars
<1>3. [Next]_vars => [UserGraphNext]_userGraphVars
  BY DEF Next, vars
<1>4. [Next]_vars => [ReportsNext]_reportVars
  BY DEF Next, vars
<1>5. Spec => CustomersSpec
  BY <1>1, <1>2, PTL DEF Spec, CustomersSpec
<1>6. Spec => UserGraphSpec
  BY <1>1, <1>3, PTL DEF Spec, UserGraphSpec
<1>7. Spec => ReportsSpec
  BY <1>1, <1>4, PTL DEF Spec, ReportsSpec
<1>8. CustomersInv /\ UserGraphInv /\ ReportsInv => TypeOK
  BY DEF CustomersInv, UserGraphInv, ReportsInv, TypeOK
<1> QED
  BY <1>5, <1>6, <1>7, <1>8, CustomersInvariant, UserGraphInvariant, ReportsInvariant, PTL
=============================================================================
