------------------------------- MODULE Login -------------------------------
(***************************************************************************)
(* The login component: LoginActor (core/authentication/login.scala) with  *)
(* the token store it keeps in memory, and the MessageDeliveryActor that   *)
(* it sends secrets to (core/messagedelivery.scala).                       *)
(*                                                                         *)
(* LoginActor handles one message at a time, so each handler is one step,  *)
(* taken for any message a client may send, in any order.  An exception in *)
(* a handler restarts the actor, and a new instance has an empty store.    *)
(*                                                                         *)
(* User.checkPassword and User.isTrustedDevice (domain/user.scala) are     *)
(* stubs; the model lets them answer either way.                           *)
(***************************************************************************)
EXTENDS Naturals, FiniteSets

CONSTANTS
    Users,          \* the users in the database
    Tokens,         \* the UUIDs that tokens get, each at most once
    Secrets,        \* the five characters of a secret
    NoSecret

ASSUME NoSecretAssumption == NoSecret \notin Secrets

VARIABLES
    tokens,         \* the token store
    used,           \* the UUIDs that have been generated
    reply,          \* the last answer LoginActor gave
    outbox,         \* secrets on their way to MessageDeliveryActor
    emailed,        \* (history) secrets that were sent, and where
    wrong,          \* (history) wrong secrets given for a partial token
    parent,         \* (history) the partial token a full one replaced
    owner           \* (history) the user each token was issued to

vars == <<tokens, used, reply, outbox, emailed, wrong, parent, owner>>

-----------------------------------------------------------------------------
AuthenticationToken ==
    [userRef : Users, token : Tokens, partial : BOOLEAN, retries : 0..2,
     secret : Secrets \cup {NoSecret}]

IsValid(at, secret) == at.secret = secret

GenerateAuthenticationToken(user, uuid) ==
    [userRef |-> user, token |-> uuid, partial |-> FALSE, retries |-> 0,
     secret |-> NoSecret]

\* Mutant of GenerateSecret: one try too many.
GenerateSecretForFour(at, secret) ==
    [at EXCEPT !.retries = 3, !.secret = secret, !.partial = TRUE]

GenerateSecret(at, secret) ==
    [userRef |-> at.userRef, token |-> at.token, partial |-> TRUE,
     retries |-> 2, secret |-> secret]

\* The store: create, find, deleteByToken and update.
Found(uuid)         == {at \in tokens : at.token = uuid}
Deleted(uuid)       == tokens \ Found(uuid)
Updated(at)         == Deleted(at.token) \cup {at}

Answers == {"none", "BadUsernameOrPassword", "LoggedInPartially",
            "LoggedInFully", "BadPartialToken", "TooManyBadSecrets",
            "UserDetail", "NoUserDetail"}

Answer(kind, ts) == reply' = [kind |-> kind, about |-> ts]

\* Where a message goes: the mobile number or the email address, if given.
\* A user's own are <<"mobile", user>> and <<"email", user>>.
DeliveryAddress(mobile, email) == [mobile |-> mobile, email |-> email]
None   == <<>>
Places == {None} \cup ({"mobile", "email", "lastName"} \X Users)

Init ==
    /\ tokens = {}
    /\ used = {}
    /\ reply = [kind |-> "none", about |-> {}]
    /\ outbox = {}
    /\ emailed = {}
    /\ wrong = [t \in Tokens |-> 0]
    /\ parent = [t \in Tokens |-> {}]
    /\ owner = [t \in Tokens |-> {}]

-----------------------------------------------------------------------------
(* LoginActor                                                              *)

\* No such user, or the password does not match.
FirstLoginFails ==
    /\ Answer("BadUsernameOrPassword", {})
    /\ UNCHANGED <<tokens, used, outbox, emailed, wrong, parent, owner>>

\* A fresh UUID for a token of the user.
Generated(uuid, user) ==
    /\ uuid \notin used
    /\ used' = used \cup {uuid}
    /\ owner' = [owner EXCEPT ![uuid] = {user}]

\* continueLogin on a trusted device.
FirstLoginTrusted(user, uuid) ==
    /\ Generated(uuid, user)
    /\ tokens' = tokens \cup {GenerateAuthenticationToken(user, uuid)}
    /\ Answer("LoggedInFully", {uuid})
    /\ UNCHANGED <<outbox, emailed, wrong, parent>>

\* deliverSecret is told to use the user's last name as the address.
DeliverSecret(user, secret) ==
    outbox' = outbox \cup
        {[user |-> user, secret |-> secret,
          address |-> DeliveryAddress(None, <<"lastName", user>>)]}

\* continueLogin otherwise: a partial token, and its secret to the user.
FirstLoginUntrusted(user, uuid, secret) ==
    /\ Generated(uuid, user)
    /\ tokens' = tokens \cup
         {GenerateSecret(GenerateAuthenticationToken(user, uuid), secret)}
    /\ DeliverSecret(user, secret)
    /\ Answer("LoggedInPartially", {uuid})
    /\ UNCHANGED <<emailed, wrong, parent>>

SecondLoginUnknown(uuid) ==
    /\ Found(uuid) = {}
    /\ Answer("BadPartialToken", {uuid})
    /\ UNCHANGED <<tokens, used, outbox, emailed, wrong, parent, owner>>

CountWrong(at) ==
    wrong' = IF at.partial THEN [wrong EXCEPT ![at.token] = @ + 1] ELSE wrong

\* Mutant of SecondLoginNoMoreRetries: the token is not deleted.
SecondLoginStillThere(at, secret) ==
    /\ at \in tokens
    /\ ~IsValid(at, secret)
    /\ at.retries = 0
    /\ wrong[at.token] < 3
    /\ CountWrong(at)
    /\ Answer("TooManyBadSecrets", {at.token})
    /\ UNCHANGED <<tokens, used, outbox, emailed, parent, owner>>

SecondLoginNoMoreRetries(at, secret) ==
    /\ at \in tokens
    /\ ~IsValid(at, secret)
    /\ at.retries = 0
    /\ tokens' = Deleted(at.token)
    /\ CountWrong(at)
    /\ Answer("TooManyBadSecrets", {at.token})
    /\ UNCHANGED <<used, outbox, emailed, parent, owner>>

\* Mutant of SecondLoginBadSecret: the token is updated as it was.
SecondLoginUncounted(at, secret) ==
    /\ at \in tokens
    /\ ~IsValid(at, secret)
    /\ at.retries > 0
    /\ wrong[at.token] < 3
    /\ tokens' = Updated(at)
    /\ CountWrong(at)
    /\ Answer("BadPartialToken", {at.token})
    /\ UNCHANGED <<used, outbox, emailed, parent, owner>>

SecondLoginBadSecret(at, secret) ==
    /\ at \in tokens
    /\ ~IsValid(at, secret)
    /\ at.retries > 0
    /\ tokens' = Updated([at EXCEPT !.retries = @ - 1])
    /\ CountWrong(at)
    /\ Answer("BadPartialToken", {at.token})
    /\ UNCHANGED <<used, outbox, emailed, parent, owner>>

\* Mutant of SecondLoginSucceeds: the partial token is not deleted.
SecondLoginKeepsToken(at, secret, uuid) ==
    /\ at \in tokens
    /\ IsValid(at, secret)
    /\ Generated(uuid, at.userRef)
    /\ tokens' = tokens \cup {GenerateAuthenticationToken(at.userRef, uuid)}
    /\ parent' = [parent EXCEPT ![uuid] = {at.token}]
    /\ Answer("LoggedInFully", {uuid})
    /\ UNCHANGED <<outbox, emailed, wrong>>

SecondLoginSucceeds(at, secret, uuid) ==
    /\ at \in tokens
    /\ IsValid(at, secret)
    /\ Generated(uuid, at.userRef)
    /\ tokens' = Deleted(at.token)
                   \cup {GenerateAuthenticationToken(at.userRef, uuid)}
    /\ parent' = [parent EXCEPT ![uuid] = {at.token}]
    /\ Answer("LoggedInFully", {uuid})
    /\ UNCHANGED <<outbox, emailed, wrong>>

\* Logout answers nobody.
Logout(uuid) ==
    /\ tokens' = Deleted(uuid)
    /\ UNCHANGED <<used, reply, outbox, emailed, wrong, parent, owner>>

\* The token is looked up, and then its user, who may not be in the graph
\* database.
TokenCheck(uuid) ==
    /\ \E userFound \in BOOLEAN :
          Answer(IF Found(uuid) # {} /\ userFound THEN "UserDetail" ELSE "NoUserDetail", {uuid})
    /\ UNCHANGED <<tokens, used, outbox, emailed, wrong, parent, owner>>

\* A handler throws (the graph database fails): the supervisor restarts the
\* actor with a new, empty store, and the client gets no answer.
Restart ==
    /\ tokens' = {}
    /\ UNCHANGED <<used, reply, outbox, emailed, wrong, parent, owner>>

-----------------------------------------------------------------------------
(* MessageDeliveryActor: an email address comes before a mobile number.    *)

Destination(address) ==
    IF address.email # None THEN address.email ELSE address.mobile

Deliver(m) ==
    /\ m \in outbox
    /\ outbox' = outbox \ {m}
    /\ emailed' = emailed \cup {[user |-> m.user, to |-> Destination(m.address)]}
    /\ UNCHANGED <<tokens, used, reply, wrong, parent, owner>>

\* Transport.send throws: the actor restarts and the secret is lost.
DeliveryFails(m) ==
    /\ m \in outbox
    /\ outbox' = outbox \ {m}
    /\ UNCHANGED <<tokens, used, reply, emailed, wrong, parent, owner>>

-----------------------------------------------------------------------------
FirstLogin ==
    \/ FirstLoginFails
    \/ \E user \in Users, uuid \in Tokens :
          \/ FirstLoginTrusted(user, uuid)
          \/ \E secret \in Secrets : FirstLoginUntrusted(user, uuid, secret)

SecondLogin ==
    \/ \E uuid \in Tokens : SecondLoginUnknown(uuid)
    \/ \E at \in tokens, secret \in Secrets :
          \/ SecondLoginNoMoreRetries(at, secret)
          \/ SecondLoginBadSecret(at, secret)
          \/ \E uuid \in Tokens : SecondLoginSucceeds(at, secret, uuid)

Next ==
    \/ FirstLogin
    \/ SecondLogin
    \/ \E uuid \in Tokens : Logout(uuid) \/ TokenCheck(uuid)
    \/ Restart
    \/ \E m \in outbox : Deliver(m) \/ DeliveryFails(m)

Spec == Init /\ [][Next]_vars

-----------------------------------------------------------------------------
(* Properties                                                              *)

TypeOK ==
    /\ tokens \subseteq AuthenticationToken
    /\ used \subseteq Tokens
    /\ reply \in [kind : Answers, about : SUBSET Tokens]
    /\ outbox \subseteq [user : Users, secret : Secrets,
                         address : [mobile : Places, email : Places]]
    /\ emailed \subseteq [user : Users, to : Places]
    /\ wrong \in [Tokens -> Nat]
    /\ parent \in [Tokens -> SUBSET Tokens]
    /\ owner \in [Tokens -> SUBSET Users]

(* The store has one entry for a token at most, of the user it was issued  *)
(* to; only a partial one has a secret, and the tries left to it are what  *)
(* the wrong secrets given for it have left of three.                      *)
StoreInv ==
    /\ \A a, b \in tokens : a.token = b.token => a = b
    /\ \A at \in tokens :
          /\ at.token \in used
          /\ owner[at.token] = {at.userRef}
          /\ at.partial <=> at.secret # NoSecret
          /\ IF at.partial THEN at.retries + wrong[at.token] = 2
                           ELSE at.retries = 0

(* The tokens live as TokenPromise says, whatever is asked in which order, *)
(* and whenever the actor restarts.                                        *)
StatusOf(t) ==
    IF t \notin used THEN "unused"
    ELSE IF \E at \in tokens : at.token = t /\ at.partial THEN "partial"
    ELSE IF \E at \in tokens : at.token = t THEN "full"
    ELSE "dead"

Promise == INSTANCE TokenPromise WITH
    status <- [t \in Tokens |-> StatusOf(t)]

KeepsTokenPromise == Promise!Spec

(* A partial token gives at most one full token, for the same user, and is *)
(* itself gone by then: a client that repeats a SecondLogin whose answer   *)
(* was lost gets no second full token.                                     *)
ExchangedOnce ==
    \A t \in Tokens : parent[t] # {} =>
        \E p \in Tokens :
            /\ parent[t] = {p}
            /\ Found(p) = {}
            /\ owner[t] = owner[p]
            /\ wrong[p] <= 2
            /\ \A u \in Tokens \ {t} : parent[u] # {p}

(* The inductive invariant: besides what the store holds now, what is known *)
(* of tokens that are not in it.  A UUID that was not generated has no     *)
(* history; a partial token that was exchanged has been, and is gone.      *)
HistoryInv ==
    /\ \A t \in Tokens \ used : wrong[t] = 0 /\ parent[t] = {}
    /\ \A t, p \in Tokens : p \in parent[t] => p \in used
    /\ ExchangedOnce

Inv == TypeOK /\ StoreInv /\ HistoryInv
=============================================================================
