----------------------------- MODULE Customers -----------------------------
(* The customer and user routes of the API (api/customer.scala, api/user.     *)
(* scala) with what they run through: the authentication directives, which    *)
(* ask the login actor whether a token is good (api/authentication.scala),    *)
(* CustomerController and its collection (core/customer.scala).               *)
(*                                                                            *)
(* An exception is answered with status 500, whichever it is, by the handler  *)
(* that the routes are tested with (test/.../api/support.scala) and by the    *)
(* one of RoutedHttpService (api/services.scala); the answer is named here    *)
(* after the exception, as the text of the former does.  FailureHandling,     *)
(* with statuses of their own, is wired in by nothing but a class that is     *)
(* commented out (api/boot.scala).                                            *)
(*                                                                            *)
(* A call is answered by futures that run at any time and in any order.  The  *)
(* tokens live as TokenPromise says, which the login component keeps.         *)
EXTENDS Naturals, FiniteSets

CONSTANTS
    Calls,         \* HTTP requests
    Tokens,        \* tokens of the login component
    CustomerIds,   \* ids of customers
    Initially,     \* those that are in the collection
    Kinds,         \* what the kinds of the users of the tokens may be: functions from tokens
                   \* to the id of a customer, or anything else for a user that is none
    NoToken,
    NoId

ASSUME NoneAssumption == NoToken \notin Tokens /\ NoId \notin CustomerIds
ASSUME KindsAssumption == \A kinds \in Kinds : DOMAIN kinds = Tokens
ASSUME InitiallyAssumption == Initially \subseteq CustomerIds

VARIABLES
    status, wrong, parent,  \* the tokens: variables of TokenPromise
    kindOf,        \* the kind of the user that each token is issued to
    request,       \* what each call asks for
    phase,         \* how far it is
    answer,        \* its HTTP status, or the exception that made it a 500
    writer,        \* the collection: the call that each document was written by
    late,          \* history: calls whose token was logged out when they were made
    wrote,         \* history: calls that replaced a document
    timedOut       \* history: calls whose ask was not answered in time

tokenVars == <<status, wrong, parent, kindOf>>
customerVars == <<status, wrong, parent, kindOf, request, phase, answer, writer, late,
                  wrote, timedOut>>

Login == INSTANCE TokenPromise

-----------------------------------------------------------------------------
NoRequest == [route |-> "none", token |-> NoToken, path |-> NoId, body |-> NoId]

\* A document that is not there, and one that was there before all calls.
Missing == <<"missing">>
Original == <<"original">>
By(c) == <<"by", c>>

CustomersInit ==
    /\ Login!Init
    /\ kindOf \in Kinds
    /\ request = [c \in Calls |-> NoRequest]
    /\ phase = [c \in Calls |-> "unmade"]
    /\ answer = [c \in Calls |-> "none"]
    /\ writer = [id \in CustomerIds |-> IF id \in Initially THEN Original ELSE Missing]
    /\ late = {} /\ wrote = {} /\ timedOut = {}

(* getToken: the one in the query, or else the one in the header, as far as   *)
(* they are UUIDs.                                                            *)
GetToken(query, header) == IF query # NoToken THEN query ELSE header

(* A call goes through the routes.                                            *)
Make(c, req) ==
    /\ phase[c] = "unmade"
    /\ request' = [request EXCEPT ![c] = req]
    /\ late' = IF req.token \in Tokens /\ status[req.token] = "dead" THEN late \cup {c} ELSE late
    /\ UNCHANGED <<tokenVars, writer, wrote, timedOut>>

Respond(c, code) ==
    /\ phase' = [phase EXCEPT ![c] = "answered"]
    /\ answer' = [answer EXCEPT ![c] = code]

-----------------------------------------------------------------------------
(* GET /customers/{id} needs no token.                                        *)
GetCustomer(c, id) ==
    /\ Make(c, [route |-> "get", token |-> NoToken, path |-> id, body |-> NoId])
    /\ phase' = [phase EXCEPT ![c] = "called"]
    /\ UNCHANGED answer

(* POST /customers/{id} with a customer in its body, or with a body that is   *)
(* none, which only matters once the token is good.  Without a token it is    *)
(* rejected at once; spray answers the first rejection of the route, which is *)
(* that POST is not GET.                                                      *)
PostCustomer(c, token, id, body) ==
    /\ Make(c, [route |-> "post", token |-> token, path |-> id, body |-> body])
    /\ IF token = NoToken
       THEN Respond(c, "405")
       ELSE /\ phase' = [phase EXCEPT ![c] = "authenticating"]
            /\ UNCHANGED answer

(* POST /user/register asks the user actor with a message that it does not    *)
(* handle.                                                                    *)
RegisterUser(c) ==
    /\ Make(c, [route |-> "register", token |-> NoToken, path |-> NoId, body |-> NoId])
    /\ phase' = [phase EXCEPT ![c] = "registering"]
    /\ UNCHANGED answer

-----------------------------------------------------------------------------
Finish(c, code) ==
    /\ Respond(c, code)
    /\ UNCHANGED <<tokenVars, request, late>>

(* TokenCheck: the login actor finds the token, partial ones included, and    *)
(* validCustomer looks at the kind of its user.                               *)
InStore(token) == status[token] \in {"partial", "full"}

\* The body is unmarshalled once the token is good.
HandleWith(c) ==
    IF request[c].body = NoId
    THEN Finish(c, "400")
    ELSE /\ phase' = [phase EXCEPT ![c] = "called"]
         /\ UNCHANGED <<tokenVars, request, answer, late>>

\* Mutant of CheckToken: the store is not asked.
CheckKindOnly(c) ==
    /\ phase[c] = "authenticating"
    /\ IF kindOf[request[c].token] \in CustomerIds THEN HandleWith(c) ELSE Finish(c, "405")
    /\ UNCHANGED <<writer, wrote, timedOut>>

\* The user of a token may not be found, though the token is.
CheckToken(c) ==
    /\ phase[c] = "authenticating"
    /\ \E userFound \in BOOLEAN :
          IF InStore(request[c].token) /\ userFound /\ kindOf[request[c].token] \in CustomerIds
          THEN HandleWith(c)
          ELSE Finish(c, "405")
    /\ UNCHANGED <<writer, wrote, timedOut>>

\* Mutants of AskTimesOut: only asks to the login actor have a timeout; a call
\* goes on when its answer comes after all.
LoginTimesOut(c) ==
    /\ phase[c] = "authenticating"
    /\ Finish(c, "AskTimeout")
    /\ timedOut' = timedOut \cup {c}
    /\ UNCHANGED <<writer, wrote>>

AnswerAndGoOn(c) ==
    /\ phase[c] \in {"authenticating", "registering"}
    /\ answer' = [answer EXCEPT ![c] = "AskTimeout"]
    /\ timedOut' = timedOut \cup {c}
    /\ UNCHANGED <<tokenVars, request, phase, late, writer, wrote>>

(* The ask is not answered in time, by the login actor or the user actor: its *)
(* future has failed, and an answer that comes later is a dead letter.        *)
AskTimesOut(c) ==
    /\ phase[c] \in {"authenticating", "registering"}
    /\ Finish(c, "AskTimeout")
    /\ timedOut' = timedOut \cup {c}
    /\ UNCHANGED <<writer, wrote>>

(* CustomerController.get, in a future: None.get throws.                      *)
Get(c) ==
    /\ phase[c] = "called" /\ request[c].route = "get"
    /\ Finish(c, IF writer[request[c].path] = Missing THEN "NoSuchElement" ELSE "200")
    /\ UNCHANGED <<writer, wrote, timedOut>>

\* A document that is not there is not replaced.
FindAndReplace(c, id) ==
    IF writer[id] = Missing
    THEN UNCHANGED <<writer, wrote>>
    ELSE writer' = [writer EXCEPT ![id] = By(c)] /\ wrote' = wrote \cup {c}

\* Mutant of Update: the id of the path is compared.
UpdatePath(c) ==
    /\ phase[c] = "called" /\ request[c].route = "post"
    /\ LET id == request[c].body
       IN  IF kindOf[request[c].token] = request[c].path
           THEN FindAndReplace(c, id) /\ Finish(c, "200")
           ELSE Finish(c, "IllegalArgument") /\ UNCHANGED <<writer, wrote>>
    /\ UNCHANGED timedOut

(* CustomerController.update, in a future: the user's kind has to refer to    *)
(* the customer in the body; the id in the path is not looked at.             *)
Update(c) ==
    /\ phase[c] = "called" /\ request[c].route = "post"
    /\ LET id == request[c].body
       IN  IF kindOf[request[c].token] = id
           THEN FindAndReplace(c, id) /\ Finish(c, "200")
           ELSE Finish(c, "IllegalArgument") /\ UNCHANGED <<writer, wrote>>
    /\ UNCHANGED timedOut

(* MongoDB throws in either: of an update, before or after it is done.        *)
StoreFails(c) ==
    /\ phase[c] = "called"
    /\ Finish(c, "StoreFails")
    /\ UNCHANGED timedOut
    /\ \/ UNCHANGED <<writer, wrote>>
       \/ /\ request[c].route = "post" /\ kindOf[request[c].token] = request[c].body
          /\ FindAndReplace(c, request[c].body)

(* What the login actor does to the tokens meanwhile: issue and exchange      *)
(* them, log them out, lose them all in a restart.  Wrong secrets make no     *)
(* difference to the routes until the third, which is a Revoke of the token.  *)
LoginActs ==
    /\ \/ \E t \in Tokens, how \in {"partial", "full"} : Login!Issue(t, how)
       \/ \E t, new \in Tokens : Login!Exchange(t, new)
       \/ \E ts \in SUBSET Tokens : Login!Revoke(ts)
    /\ UNCHANGED <<kindOf, request, phase, answer, writer, late, wrote, timedOut>>

CallsNext(c) ==
    \/ \E id \in CustomerIds : GetCustomer(c, id)
    \/ \E query, header \in Tokens \cup {NoToken}, id \in CustomerIds,
          body \in CustomerIds \cup {NoId} :
            PostCustomer(c, GetToken(query, header), id, body)
    \/ RegisterUser(c)

Serve(c) == CheckToken(c) \/ AskTimesOut(c) \/ Get(c) \/ Update(c) \/ StoreFails(c)

CustomersNext ==
    \/ \E c \in Calls : CallsNext(c) \/ Serve(c)
    \/ LoginActs

(* The dispatcher runs futures, and the scheduler ends asks that are not      *)
(* answered; clients and the login actor need not do anything.                *)
CustomersFairness ==
    \A c \in Calls :
        /\ WF_customerVars(AskTimesOut(c))
        /\ WF_customerVars(Get(c) \/ Update(c) \/ StoreFails(c))

CustomersSpec == CustomersInit /\ [][CustomersNext]_customerVars /\ CustomersFairness

-----------------------------------------------------------------------------
CustomersTypeOK ==
    /\ status \in [Tokens -> {"unused", "partial", "full", "dead"}]
    /\ kindOf \in Kinds
    /\ request \in [Calls -> [route : {"none", "get", "post", "register"}, token : Tokens \cup {NoToken},
                            path : CustomerIds \cup {NoId}, body : CustomerIds \cup {NoId}]]
    /\ phase \in [Calls -> {"unmade", "authenticating", "registering", "called", "answered"}]
    /\ answer \in [Calls -> {"none", "200", "400", "405", "NoSuchElement", "IllegalArgument",
                         "AskTimeout", "StoreFails"}]
    /\ writer \in [CustomerIds -> {Missing, Original} \cup {By(c) : c \in Calls}]
    /\ late \subseteq Calls /\ wrote \subseteq Calls /\ timedOut \subseteq Calls

(* A customer is only ever written by a user who is that customer: whatever   *)
(* id is in the path, whatever else changed between the check of the token    *)
(* and the future that writes (customer.scala:16-32, core/customer.scala:42). *)
WrittenByItself ==
    \A id \in CustomerIds, c \in Calls :
        writer[id] = By(c) => request[c].body = id /\ kindOf[request[c].token] = id

(* A call whose ask has timed out has been answered with that for good, and   *)
(* has changed nothing: the login actor's answer may still come, but does not *)
(* make it go on (authentication.scala:117).  Nor has one that was rejected.  *)
(* A call that is answered with success has replaced the document, unless     *)
(* there was none (core/customer.scala:43).  Only a failure of the store      *)
(* leaves open which it is.                                                   *)
AnswerTellsTheEffect ==
    \A c \in Calls :
        /\ c \in timedOut => answer[c] = "AskTimeout" /\ c \notin wrote
        /\ c \in wrote => /\ answer[c] \in {"200", "StoreFails"}
                         /\ kindOf[request[c].token] = request[c].body
        /\ answer[c] = "200" /\ request[c].route = "post" /\ c \notin wrote =>
              request[c].body \notin Initially

(* "Any further requests with the same token should be rejected"              *)
(* (core/authentication/authentication.scala:61), whatever the order in which *)
(* checks, updates and logouts run: a call that is made after the logout      *)
(* writes nothing.  One that was made before may be checked before the logout *)
(* and write after it (api/customer.scala:26-32).                             *)
LoggedOutIsRejected ==
    \A c \in late : c \notin wrote /\ answer[c] \in {"none", "405", "AskTimeout"}

(* Every call gets a status, even one that no actor answers                   *)
(* (api/user.scala:22, api/authentication.scala:117).                         *)
EveryCallIsAnswered ==
    \A c \in Calls : phase[c] # "unmade" ~> answer[c] # "none"
=============================================================================
