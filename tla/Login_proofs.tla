---------------------------- MODULE Login_proofs ----------------------------
(***************************************************************************)
(* Theorems about Login, for any users, tokens and secrets: the inductive  *)
(* invariant Inv, the store and exchange properties that it implies, and   *)
(* the refinement of TokenPromise.                                         *)
(***************************************************************************)
EXTENDS Login, TLAPS

USE NoSecretAssumption DEF NoSecretAssumption

-----------------------------------------------------------------------------
(* Tokens and the store.                                                   *)

\* What a full token that has just been generated looks like.
LEMMA FullToken ==
    ASSUME NEW user \in Users, NEW uuid \in Tokens
    PROVE  LET full == GenerateAuthenticationToken(user, uuid)
           IN  /\ full \in AuthenticationToken
               /\ full.userRef = user
               /\ full.token = uuid
               /\ full.partial = FALSE
               /\ full.retries = 0
               /\ full.secret = NoSecret
  BY DEF GenerateAuthenticationToken, AuthenticationToken

\* What a partial token that has just been generated looks like.
LEMMA PartialToken ==
    ASSUME NEW user \in Users, NEW uuid \in Tokens, NEW secret \in Secrets
    PROVE  LET new == GenerateSecret(GenerateAuthenticationToken(user, uuid), secret)
           IN  /\ new \in AuthenticationToken
               /\ new.userRef = user
               /\ new.token = uuid
               /\ new.partial = TRUE
               /\ new.retries = 2
               /\ new.secret = secret
  BY DEF GenerateAuthenticationToken, GenerateSecret, AuthenticationToken

\* What a token is after one more wrong secret.
LEMMA RetriedToken ==
    ASSUME NEW at \in AuthenticationToken, at.retries > 0
    PROVE  LET less == [at EXCEPT !.retries = @ - 1]
           IN  /\ less \in AuthenticationToken
               /\ less.userRef = at.userRef /\ less.token = at.token
               /\ less.partial = at.partial /\ less.secret = at.secret
               /\ less.retries = at.retries - 1
  BY DEF AuthenticationToken

\* A secret that a client gives is only valid for a partial token.
LEMMA ValidIsPartial ==
    ASSUME StoreInv, NEW at \in tokens, NEW secret \in Secrets,
           IsValid(at, secret)
    PROVE  at.partial
  BY DEF StoreInv, IsValid

-----------------------------------------------------------------------------
(* Types.                                                                  *)

\* Every variable starts with its type.
LEMMA TypeInit == Init => TypeOK
<1> SUFFICES ASSUME Init PROVE TypeOK
  OBVIOUS
<1>1. reply \in [kind : Answers, about : SUBSET Tokens]
  BY DEF Init, Answers
<1>2. /\ wrong \in [Tokens -> Nat]
      /\ parent \in [Tokens -> SUBSET Tokens]
      /\ owner \in [Tokens -> SUBSET Users]
  BY DEF Init
<1> QED
  BY <1>1, <1>2 DEF Init, TypeOK

\* Every step of a login keeps the types.
LEMMA TypeNext == TypeOK /\ [Next]_vars => TypeOK'
<1> SUFFICES ASSUME TypeOK, [Next]_vars PROVE TypeOK'
  OBVIOUS
<1> USE DEF TypeOK
<1>1. ASSUME NEW user \in Users, NEW uuid \in Tokens,
             FirstLoginTrusted(user, uuid)
      PROVE  TypeOK'
  <2>1. GenerateAuthenticationToken(user, uuid) \in AuthenticationToken
    BY FullToken
  <2>2. reply' \in [kind : Answers, about : SUBSET Tokens]
    BY <1>1 DEF FirstLoginTrusted, Answer, Answers
  <2> QED
    BY <1>1, <2>1, <2>2 DEF FirstLoginTrusted, Generated
<1>2. ASSUME NEW user \in Users, NEW uuid \in Tokens, NEW secret \in Secrets,
              FirstLoginUntrusted(user, uuid, secret)
       PROVE  TypeOK'
  <2>1. GenerateSecret(GenerateAuthenticationToken(user, uuid), secret)
           \in AuthenticationToken
    BY PartialToken
  <2>2. outbox' \subseteq [user : Users, secret : Secrets,
                           address : [mobile : Places, email : Places]]
    BY <1>2 DEF FirstLoginUntrusted, DeliverSecret, DeliveryAddress, Places,
                 None
  <2>3. reply' \in [kind : Answers, about : SUBSET Tokens]
    BY <1>2 DEF FirstLoginUntrusted, Answer, Answers
  <2> QED
    BY <1>2, <2>1, <2>2, <2>3 DEF FirstLoginUntrusted, Generated
<1>3. CASE FirstLoginFails
  BY <1>3 DEF FirstLoginFails, Answer, Answers
<1>4. ASSUME NEW uuid \in Tokens,
             SecondLoginUnknown(uuid) \/ TokenCheck(uuid)
      PROVE  TypeOK'
  BY <1>4 DEF SecondLoginUnknown, TokenCheck, Answer, Answers
<1>5. ASSUME NEW at \in tokens, NEW secret \in Secrets,
             \/ SecondLoginNoMoreRetries(at, secret)
             \/ SecondLoginBadSecret(at, secret)
      PROVE  TypeOK'
  <2>1. at \in AuthenticationToken /\ at.token \in Tokens
    BY DEF AuthenticationToken
  <2>2. tokens' \subseteq AuthenticationToken
    BY <1>5, <2>1, RetriedToken
    DEF SecondLoginNoMoreRetries, SecondLoginBadSecret, Updated, Deleted
  <2>3. wrong' \in [Tokens -> Nat]
    BY <1>5, <2>1
    DEF SecondLoginNoMoreRetries, SecondLoginBadSecret, CountWrong
  <2>4. reply' \in [kind : Answers, about : SUBSET Tokens]
    BY <1>5, <2>1
    DEF SecondLoginNoMoreRetries, SecondLoginBadSecret, Answer, Answers
  <2> QED
    BY <1>5, <2>2, <2>3, <2>4
    DEF SecondLoginNoMoreRetries, SecondLoginBadSecret
<1>6. ASSUME NEW at \in tokens, NEW secret \in Secrets, NEW uuid \in Tokens,
             SecondLoginSucceeds(at, secret, uuid)
      PROVE  TypeOK'
  <2>1. at \in AuthenticationToken /\ at.token \in Tokens /\ at.userRef \in Users
    BY DEF AuthenticationToken
  <2>2. tokens' \subseteq AuthenticationToken
    BY <1>6, <2>1, FullToken DEF SecondLoginSucceeds, Deleted
  <2>3. /\ used' \subseteq Tokens
        /\ owner' \in [Tokens -> SUBSET Users]
        /\ parent' \in [Tokens -> SUBSET Tokens]
    BY <1>6, <2>1 DEF SecondLoginSucceeds, Generated
  <2>4. reply' \in [kind : Answers, about : SUBSET Tokens]
    BY <1>6 DEF SecondLoginSucceeds, Answer, Answers
  <2> QED
    BY <1>6, <2>2, <2>3, <2>4 DEF SecondLoginSucceeds
<1>7. ASSUME NEW uuid \in Tokens, Logout(uuid)
      PROVE  TypeOK'
  BY <1>7 DEF Logout, Deleted
<1>8. CASE Restart
  BY <1>8 DEF Restart
<1>9. ASSUME NEW m \in outbox, Deliver(m) \/ DeliveryFails(m)
      PROVE  TypeOK'
  <2>1. /\ m \in [user : Users, secret : Secrets,
                  address : [mobile : Places, email : Places]]
        /\ [user |-> m.user, to |-> Destination(m.address)]
              \in [user : Users, to : Places]
    BY DEF Destination
  <2> QED
    BY <1>9, <2>1 DEF Deliver, DeliveryFails
<1>10. CASE UNCHANGED vars
  BY <1>10 DEF vars
<1> QED
  BY <1>1, <1>2, <1>3, <1>4, <1>5, <1>6, <1>7, <1>8, <1>9, <1>10
  DEF Next, FirstLogin, SecondLogin

-----------------------------------------------------------------------------
(* The store.                                                              *)

\* What StoreInv says of one entry.
EntryOK(at, us, own, wr) ==
    /\ at.token \in us
    /\ own[at.token] = {at.userRef}
    /\ at.partial <=> at.secret # NoSecret
    /\ IF at.partial THEN at.retries + wr[at.token] = 2 ELSE at.retries = 0

\* A store from which entries have been removed, or that stayed as it was.
LEMMA StoreShrinks ==
    ASSUME StoreInv, tokens' \subseteq tokens, used' = used, owner' = owner,
           \A at \in tokens' : wrong'[at.token] = wrong[at.token]
    PROVE  StoreInv'
  BY DEF StoreInv

\* A store with an entry for a UUID that has just been generated.
LEMMA StoreGrows ==
    ASSUME Inv, NEW user \in Users, NEW uuid \in Tokens,
           Generated(uuid, user), wrong' = wrong,
           NEW at \in AuthenticationToken, NEW rest \in SUBSET tokens,
           tokens' = rest \cup {at},
           at.userRef = user, at.token = uuid,
           \/ at.partial = TRUE /\ at.secret # NoSecret /\ at.retries = 2
           \/ at.partial = FALSE /\ at.secret = NoSecret /\ at.retries = 0
    PROVE  StoreInv'
<1> USE DEF Inv
<1>1. EntryOK(at, used', owner', wrong')
  <2>1. uuid \in used' /\ owner'[uuid] = {user}
    BY DEF Generated, TypeOK
  <2>2. wrong'[uuid] = 0
    BY DEF Generated, HistoryInv
  <2> QED
    BY <2>1, <2>2 DEF EntryOK
<1>2. \A b \in rest : EntryOK(b, used', owner', wrong') /\ b.token # uuid
  <2> SUFFICES ASSUME NEW b \in rest
               PROVE  EntryOK(b, used', owner', wrong') /\ b.token # uuid
    OBVIOUS
  <2>1. EntryOK(b, used, owner, wrong)
    BY DEF StoreInv, EntryOK
  <2>2. b.token # uuid
    BY <2>1 DEF EntryOK, Generated
  <2>3. b.token \in used' /\ owner'[b.token] = owner[b.token]
    BY <2>1, <2>2 DEF EntryOK, Generated, TypeOK
  <2> QED
    BY <2>1, <2>2, <2>3 DEF EntryOK
<1>3. \A a, b \in tokens' : a.token = b.token => a = b
  BY <1>2 DEF StoreInv
<1>4. \A b \in tokens' : EntryOK(b, used', owner', wrong')
  BY <1>1, <1>2
<1> QED
  BY <1>3, <1>4 DEF StoreInv, EntryOK

\* A store whose partial token has lost a try to a wrong secret.
LEMMA StoreCounts ==
    ASSUME Inv, NEW at \in tokens, NEW secret \in Secrets,
           SecondLoginBadSecret(at, secret)
    PROVE  StoreInv'
<1> USE DEF Inv
<1> DEFINE less == [at EXCEPT !.retries = @ - 1]
<1>1. at \in AuthenticationToken /\ at.retries > 0 /\ at.token \in Tokens
  BY DEF TypeOK, SecondLoginBadSecret, AuthenticationToken
<1>2. EntryOK(at, used, owner, wrong)
  BY DEF StoreInv, EntryOK
<1>3. at.partial
  BY <1>1, <1>2 DEF EntryOK
<1>4. wrong' = [wrong EXCEPT ![at.token] = @ + 1]
  BY <1>3 DEF SecondLoginBadSecret, CountWrong
<1>5. /\ less \in AuthenticationToken
      /\ less.userRef = at.userRef /\ less.token = at.token
      /\ less.partial = at.partial /\ less.secret = at.secret
      /\ less.retries = at.retries - 1
  BY <1>1, RetriedToken
<1>6. tokens' = {b \in tokens : b.token # at.token} \cup {less}
  BY <1>5 DEF SecondLoginBadSecret, Updated, Deleted, Found
<1>7. EntryOK(less, used', owner', wrong')
  <2>1. wrong'[at.token] = wrong[at.token] + 1 /\ wrong[at.token] \in Nat
    BY <1>1, <1>4 DEF TypeOK
  <2>2. at.retries \in Nat
    BY <1>1 DEF AuthenticationToken
  <2> QED
    BY <1>2, <1>3, <1>5, <2>1, <2>2 DEF EntryOK, SecondLoginBadSecret
<1>8. \A b \in tokens : b.token # at.token => EntryOK(b, used', owner', wrong')
  BY <1>1, <1>4 DEF StoreInv, EntryOK, SecondLoginBadSecret, TypeOK
<1>9. \A a, b \in tokens' : a.token = b.token => a = b
  BY <1>5, <1>6 DEF StoreInv
<1>10. \A b \in tokens' : EntryOK(b, used', owner', wrong')
  BY <1>6, <1>7, <1>8
<1> QED
  BY <1>9, <1>10 DEF StoreInv, EntryOK

-----------------------------------------------------------------------------
(* The history of tokens that are no longer in the store.                  *)

\* The history of a store from which entries have been removed or changed.
LEMMA HistoryKept ==
    ASSUME Inv, used' = used, parent' = parent, owner' = owner,
           \A u \in Tokens : Found(u) = {} => /\ Found(u)' = {}
                                           /\ wrong'[u] = wrong[u]
    PROVE  HistoryInv'
<1> USE DEF Inv
<1>1. \A u \in Tokens \ used : Found(u) = {}
  BY DEF StoreInv, Found
<1>2. \A u \in Tokens \ used' : wrong'[u] = 0 /\ parent'[u] = {}
  BY <1>1 DEF HistoryInv
<1>3. \A t, p \in Tokens : p \in parent'[t] => p \in used'
  BY DEF HistoryInv
<1>4. ExchangedOnce'
  <2> SUFFICES ASSUME NEW t \in Tokens, parent[t] # {}
               PROVE  \E p \in Tokens :
                         /\ parent[t] = {p}
                         /\ Found(p)' = {}
                         /\ owner[t] = owner[p]
                         /\ wrong'[p] <= 2
                         /\ \A u \in Tokens \ {t} : parent[u] # {p}
    BY DEF ExchangedOnce
  <2>1. PICK p \in Tokens : /\ parent[t] = {p}
                            /\ Found(p) = {}
                            /\ owner[t] = owner[p]
                            /\ wrong[p] <= 2
                            /\ \A u \in Tokens \ {t} : parent[u] # {p}
    BY DEF HistoryInv, ExchangedOnce
  <2> QED
    BY <2>1
<1> QED
  BY <1>2, <1>3, <1>4 DEF HistoryInv

\* The history after a first login.
LEMMA HistoryGenerated ==
    ASSUME Inv, NEW user \in Users, NEW uuid \in Tokens,
           Generated(uuid, user), parent' = parent, wrong' = wrong,
           \A u \in Tokens \ {uuid} : Found(u) = {} => Found(u)' = {}
    PROVE  HistoryInv'
<1> USE DEF Inv
<1>1. \A u \in Tokens \ used' : wrong'[u] = 0 /\ parent'[u] = {}
  BY DEF HistoryInv, Generated
<1>2. \A t, p \in Tokens : p \in parent'[t] => p \in used'
  BY DEF HistoryInv, Generated
<1>3. \A u \in Tokens : u # uuid => owner'[u] = owner[u]
  BY DEF Generated, TypeOK
<1>4. ExchangedOnce'
  <2> SUFFICES ASSUME NEW t \in Tokens, parent[t] # {}
               PROVE  \E p \in Tokens :
                         /\ parent[t] = {p}
                         /\ Found(p)' = {}
                         /\ owner'[t] = owner'[p]
                         /\ wrong[p] <= 2
                         /\ \A u \in Tokens \ {t} : parent[u] # {p}
    BY DEF ExchangedOnce
  <2>1. PICK p \in Tokens : /\ parent[t] = {p}
                            /\ Found(p) = {}
                            /\ owner[t] = owner[p]
                            /\ wrong[p] <= 2
                            /\ \A u \in Tokens \ {t} : parent[u] # {p}
    BY DEF HistoryInv, ExchangedOnce
  <2>2. t # uuid /\ p # uuid
    BY <2>1 DEF HistoryInv, Generated
  <2> QED
    BY <1>3, <2>1, <2>2
<1> QED
  BY <1>1, <1>2, <1>4 DEF HistoryInv

\* The history after a partial token has been exchanged.
LEMMA HistoryExchanged ==
    ASSUME Inv, NEW at \in tokens, NEW secret \in Secrets, NEW uuid \in Tokens,
           SecondLoginSucceeds(at, secret, uuid)
    PROVE  HistoryInv'
<1> USE DEF Inv
<1> DEFINE full == GenerateAuthenticationToken(at.userRef, uuid)
           old  == at.token
<1>1. /\ at \in AuthenticationToken
      /\ old \in Tokens
      /\ at.userRef \in Users
  BY DEF TypeOK, AuthenticationToken
<1>2. full.token = uuid
  BY <1>1, FullToken
<1>3. old \in used /\ uuid \notin used /\ old # uuid
  BY DEF StoreInv, SecondLoginSucceeds, Generated
<1>4. at \in Found(old)
  BY DEF Found
<1>5. /\ wrong' = wrong
      /\ parent' = [parent EXCEPT ![uuid] = {old}]
      /\ used' = used \cup {uuid}
      /\ owner' = [owner EXCEPT ![uuid] = {at.userRef}]
      /\ tokens' = (tokens \ Found(old)) \cup {full}
  BY DEF SecondLoginSucceeds, Generated, Deleted
<1>6. /\ \A u \in Tokens : u # uuid =>
            parent'[u] = parent[u] /\ owner'[u] = owner[u]
      /\ parent'[uuid] = {old}
      /\ owner'[uuid] = {at.userRef}
  BY <1>5 DEF TypeOK
<1>7. /\ Found(old)' = {}
      /\ \A u \in Tokens : u # uuid /\ Found(u) = {} => Found(u)' = {}
  BY <1>2, <1>3, <1>5 DEF Found
<1>8. wrong[old] <= 2 /\ owner[old] = {at.userRef}
  <2>1. at.partial
    BY ValidIsPartial DEF SecondLoginSucceeds
  <2>2. at.retries \in Nat /\ wrong[old] \in Nat
    BY <1>1 DEF AuthenticationToken, TypeOK
  <2> QED
    BY <2>1, <2>2 DEF StoreInv
<1>9. \A u \in Tokens : parent[u] # {old}
  BY <1>4 DEF HistoryInv, ExchangedOnce
<1>10. ExchangedOnce'
  <2> DEFINE From(t, p) == /\ parent'[t] = {p}
                           /\ Found(p)' = {}
                           /\ owner'[t] = owner'[p]
                           /\ wrong'[p] <= 2
                           /\ \A u \in Tokens \ {t} : parent'[u] # {p}
  <2> SUFFICES ASSUME NEW t \in Tokens, parent'[t] # {}
               PROVE  \E p \in Tokens : From(t, p)
    BY DEF ExchangedOnce
  <2>1. CASE t = uuid
    <3>1. From(uuid, old)
      BY <1>1, <1>3, <1>5, <1>6, <1>7, <1>8, <1>9
    <3> QED
      BY <1>1, <2>1, <3>1
  <2>2. CASE t # uuid
    <3>1. PICK p \in Tokens : /\ parent[t] = {p}
                              /\ Found(p) = {}
                              /\ owner[t] = owner[p]
                              /\ wrong[p] <= 2
                              /\ \A u \in Tokens \ {t} : parent[u] # {p}
      BY <1>6, <2>2 DEF HistoryInv, ExchangedOnce
    <3>2. p # uuid /\ p # old
      BY <1>3, <1>4, <3>1 DEF HistoryInv
    <3>3. \A u \in Tokens \ {t} : parent'[u] # {p}
      BY <1>6, <3>1, <3>2
    <3>4. From(t, p)
      BY <1>5, <1>6, <1>7, <2>2, <3>1, <3>2, <3>3
    <3> QED
      BY <3>4
  <2> QED
    BY <2>1, <2>2
<1>11. \A u \in Tokens \ used' : wrong'[u] = 0 /\ parent'[u] = {}
  BY <1>5, <1>6 DEF HistoryInv
<1>12. \A t, p \in Tokens : p \in parent'[t] => p \in used'
  BY <1>3, <1>5, <1>6 DEF HistoryInv
<1> QED
  BY <1>10, <1>11, <1>12 DEF HistoryInv

-----------------------------------------------------------------------------
(* The inductive invariant.                                                *)

\* An empty store, of which there is nothing to know.
LEMMA InvInit == Init => Inv
<1> SUFFICES ASSUME Init PROVE Inv
  OBVIOUS
<1>1. TypeOK
  BY TypeInit
<1>2. StoreInv /\ HistoryInv
  BY DEF Init, StoreInv, HistoryInv, ExchangedOnce
<1> QED
  BY <1>1, <1>2 DEF Inv

\* A step that changes neither the store nor what is known of its tokens.
LEMMA InvSilent ==
    ASSUME Inv, UNCHANGED <<tokens, used, wrong, parent, owner>>
    PROVE  StoreInv' /\ HistoryInv'
  BY DEF Inv, StoreInv, HistoryInv, ExchangedOnce, Found

\* Every step keeps the invariant.
LEMMA InvNext == Inv /\ [Next]_vars => Inv'
<1> SUFFICES ASSUME Inv, [Next]_vars PROVE Inv'
  OBVIOUS
<1> USE DEF Inv
<1>1. TypeOK'
  BY TypeNext
<1>2. ASSUME NEW user \in Users, NEW uuid \in Tokens,
             FirstLoginTrusted(user, uuid)
      PROVE  StoreInv' /\ HistoryInv'
  <2> DEFINE full == GenerateAuthenticationToken(user, uuid)
  <2>1. /\ Generated(uuid, user)
        /\ tokens' = tokens \cup {full}
        /\ wrong' = wrong /\ parent' = parent
    BY <1>2 DEF FirstLoginTrusted
  <2>2. /\ full \in AuthenticationToken
        /\ full.userRef = user /\ full.token = uuid
        /\ full.partial = FALSE /\ full.secret = NoSecret /\ full.retries = 0
    BY FullToken
  <2> HIDE DEF full
  <2>3. StoreInv'
    BY <2>1, <2>2, StoreGrows
  <2>4. \A u \in Tokens \ {uuid} : Found(u) = {} => Found(u)' = {}
    BY <2>1, <2>2 DEF Found
  <2> QED
    BY <2>1, <2>3, <2>4, HistoryGenerated
<1>3. ASSUME NEW user \in Users, NEW uuid \in Tokens, NEW secret \in Secrets,
             FirstLoginUntrusted(user, uuid, secret)
      PROVE  StoreInv' /\ HistoryInv'
  <2> DEFINE new == GenerateSecret(GenerateAuthenticationToken(user, uuid), secret)
  <2>1. /\ Generated(uuid, user)
        /\ tokens' = tokens \cup {new}
        /\ wrong' = wrong /\ parent' = parent
    BY <1>3 DEF FirstLoginUntrusted
  <2>2. /\ new \in AuthenticationToken
        /\ new.userRef = user /\ new.token = uuid
        /\ new.partial = TRUE /\ new.secret = secret /\ new.retries = 2
    BY DEF GenerateSecret, GenerateAuthenticationToken, AuthenticationToken
  <2>3. secret # NoSecret
    OBVIOUS
  <2> HIDE DEF new
  <2>4. StoreInv'
    BY <2>1, <2>2, <2>3, StoreGrows
  <2>5. \A u \in Tokens \ {uuid} : Found(u) = {} => Found(u)' = {}
    BY <2>1, <2>2 DEF Found
  <2> QED
    BY <2>1, <2>4, <2>5, HistoryGenerated
<1>4. ASSUME NEW at \in tokens, NEW secret \in Secrets,
             SecondLoginNoMoreRetries(at, secret)
      PROVE  StoreInv' /\ HistoryInv'
  <2>1. /\ tokens' = {b \in tokens : b.token # at.token}
        /\ used' = used /\ parent' = parent /\ owner' = owner
        /\ at.token \in Tokens
    BY <1>4 DEF SecondLoginNoMoreRetries, Deleted, Found, TypeOK, AuthenticationToken
  <2>2. \A u \in Tokens : u # at.token => wrong'[u] = wrong[u]
    BY <1>4 DEF SecondLoginNoMoreRetries, CountWrong, TypeOK
  <2>3. \A b \in tokens' : wrong'[b.token] = wrong[b.token]
    BY <2>1, <2>2 DEF TypeOK, AuthenticationToken
  <2>4. StoreInv'
    BY <2>1, <2>3, StoreShrinks
  <2>5. \A u \in Tokens : Found(u) = {} => /\ Found(u)' = {}
                                          /\ wrong'[u] = wrong[u]
    BY <2>1, <2>2 DEF Found
  <2> QED
    BY <2>1, <2>4, <2>5, HistoryKept
<1>5. ASSUME NEW at \in tokens, NEW secret \in Secrets,
             SecondLoginBadSecret(at, secret)
      PROVE  StoreInv' /\ HistoryInv'
  <2> DEFINE less == [at EXCEPT !.retries = @ - 1]
  <2>1. at \in AuthenticationToken /\ at.retries > 0 /\ at.token \in Tokens
    BY <1>5 DEF SecondLoginBadSecret, TypeOK, AuthenticationToken
  <2>2. less.token = at.token
    BY <2>1, RetriedToken
  <2>3. tokens' = {b \in tokens : b.token # at.token} \cup {less}
    BY <1>5, <2>2 DEF SecondLoginBadSecret, Updated, Deleted, Found
  <2> HIDE DEF less
  <2>4. /\ used' = used /\ parent' = parent /\ owner' = owner
        /\ \A u \in Tokens : u # at.token => wrong'[u] = wrong[u]
    BY <1>5 DEF SecondLoginBadSecret, CountWrong, TypeOK
  <2>5. \A u \in Tokens : Found(u) = {} => /\ Found(u)' = {}
                                          /\ wrong'[u] = wrong[u]
    BY <2>2, <2>3, <2>4 DEF Found
  <2> QED
    BY <1>5, <2>4, <2>5, StoreCounts, HistoryKept
<1>6. ASSUME NEW at \in tokens, NEW secret \in Secrets, NEW uuid \in Tokens,
             SecondLoginSucceeds(at, secret, uuid)
      PROVE  StoreInv' /\ HistoryInv'
  <2> DEFINE full == GenerateAuthenticationToken(at.userRef, uuid)
             rest == Deleted(at.token)
  <2>1. at.userRef \in Users
    BY DEF TypeOK, AuthenticationToken
  <2>2. /\ Generated(uuid, at.userRef)
        /\ rest \in SUBSET tokens
        /\ tokens' = rest \cup {full}
        /\ wrong' = wrong
    BY <1>6 DEF SecondLoginSucceeds, Deleted
  <2>3. /\ full \in AuthenticationToken
        /\ full.userRef = at.userRef /\ full.token = uuid
        /\ full.partial = FALSE /\ full.secret = NoSecret /\ full.retries = 0
    BY <2>1, FullToken
  <2> HIDE DEF full, rest
  <2>4. StoreInv'
    BY <2>1, <2>2, <2>3, StoreGrows
  <2> QED
    BY <1>6, <2>4, HistoryExchanged
<1>7. ASSUME NEW gone \in SUBSET tokens, tokens' = tokens \ gone,
             UNCHANGED <<used, wrong, parent, owner>>
      PROVE  StoreInv' /\ HistoryInv'
  <2>1. StoreInv'
    BY <1>7, StoreShrinks
  <2>2. \A u \in Tokens : Found(u) = {} => Found(u)' = {}
    BY <1>7 DEF Found
  <2> QED
    BY <1>7, <2>1, <2>2, HistoryKept
<1>8. ASSUME NEW uuid \in Tokens, Logout(uuid)
      PROVE  StoreInv' /\ HistoryInv'
  <2>1. Found(uuid) \in SUBSET tokens
    BY DEF Found
  <2> QED
    BY <1>7, <1>8, <2>1 DEF Logout, Deleted
<1>9. CASE Restart
  <2>1. tokens' = tokens \ tokens
    BY <1>9 DEF Restart
  <2> QED
    BY <1>1, <1>7, <1>9, <2>1 DEF Restart
<1>10. CASE FirstLoginFails
  BY <1>1, <1>10, InvSilent DEF FirstLoginFails
<1>11. ASSUME NEW uuid \in Tokens,
              SecondLoginUnknown(uuid) \/ TokenCheck(uuid)
       PROVE  StoreInv' /\ HistoryInv'
  BY <1>11, InvSilent DEF SecondLoginUnknown, TokenCheck
<1>12. ASSUME NEW m \in outbox, Deliver(m) \/ DeliveryFails(m)
       PROVE  StoreInv' /\ HistoryInv'
  BY <1>12, InvSilent DEF Deliver, DeliveryFails
<1>13. CASE UNCHANGED vars
  BY <1>1, <1>13, InvSilent DEF vars
<1> QED
  BY <1>1, <1>2, <1>3, <1>4, <1>5, <1>6, <1>8, <1>9, <1>10, <1>11, <1>12, <1>13
  DEF Next, FirstLogin, SecondLogin

\* Whatever clients ask, in whichever order, the variables have their types.
THEOREM TypeCorrect == Spec => []TypeOK
  BY TypeInit, TypeNext, PTL DEF Spec

\* The invariant from which the properties follow.
THEOREM Invariance == Spec => []Inv
  BY InvInit, InvNext, PTL DEF Spec

\* The store is consistent: one entry for a token, of the user it was issued
\* to, with the tries that the wrong secrets given for it leave.
THEOREM StoreConsistent == Spec => []StoreInv
<1>1. Inv => StoreInv
  BY DEF Inv
<1> QED
  BY <1>1, Invariance, PTL

\* A partial token is exchanged for one full token at most, of the same user.
THEOREM ExchangeOnce == Spec => []ExchangedOnce
<1>1. Inv => ExchangedOnce
  BY DEF Inv, HistoryInv
<1> QED
  BY <1>1, Invariance, PTL

-----------------------------------------------------------------------------
(* The login component implements TokenPromise.                            *)

\* The refinement mapping, by name.
Statuses == [t \in Tokens |-> StatusOf(t)]

\* What the store says of a token in it.
LEMMA StatusStored ==
    ASSUME StoreInv, NEW at \in tokens
    PROVE  StatusOf(at.token) = IF at.partial THEN "partial" ELSE "full"
  BY DEF StoreInv, StatusOf

\* A token has another status only if the store or the UUIDs in use say so.
LEMMA StatusSame ==
    ASSUME NEW t \in Tokens, t \in used <=> t \in used', Found(t)' = Found(t)
    PROVE  StatusOf(t)' = StatusOf(t)
  BY DEF StatusOf, Found

\* A new store maps to the initial state of TokenPromise.
LEMMA PromiseInit == Init => Promise!Init
  BY DEF Init, Promise!Init, StatusOf

\* A first login issues a token.
LEMMA PromiseIssues ==
    ASSUME Inv, NEW user \in Users, NEW uuid \in Tokens,
           Generated(uuid, user), NEW at \in AuthenticationToken,
           at.token = uuid, tokens' = tokens \cup {at},
           wrong' = wrong, parent' = parent
    PROVE  Promise!Next
<1> DEFINE how == IF at.partial THEN "partial" ELSE "full"
<1>1. StatusOf(uuid) = "unused"
  BY DEF Generated, StatusOf
<1>2. \A b \in tokens : b.token # uuid
  BY DEF Inv, StoreInv, Generated
<1>3. StatusOf(uuid)' = how
  BY <1>2 DEF Generated, StatusOf
<1>4. \A t \in Tokens : t # uuid => StatusOf(t)' = StatusOf(t)
  BY StatusSame DEF Generated, Found
<1>5. Statuses' = [Statuses EXCEPT ![uuid] = how]
  BY <1>3, <1>4 DEF Statuses
<1>6. Promise!Issue(uuid, how)
  BY <1>1, <1>5 DEF Promise!Issue, Statuses
<1>7. how \in {"partial", "full"}
  OBVIOUS
<1> QED
  BY <1>6, <1>7 DEF Promise!Next

\* Tokens that leave the store are revoked.
LEMMA PromiseRevokes ==
    ASSUME Inv, NEW ts \in SUBSET Tokens,
           tokens' = {at \in tokens : at.token \notin ts},
           UNCHANGED <<used, wrong, parent>>
    PROVE  Promise!Next
<1>1. \A t \in ts : StatusOf(t)' = IF StatusOf(t) # "unused" THEN "dead"
                                                          ELSE StatusOf(t)
  BY DEF StatusOf
<1>2. \A t \in Tokens \ ts : StatusOf(t)' = StatusOf(t)
  BY StatusSame DEF Found
<1>3. Statuses' = [t \in Tokens |->
                     IF t \in ts /\ Statuses[t] # "unused" THEN "dead"
                                                         ELSE Statuses[t]]
  BY <1>1, <1>2 DEF Statuses
<1>4. Promise!Revoke(ts)
  BY <1>3 DEF Promise!Revoke, Statuses
<1> QED
  BY <1>4 DEF Promise!Next

\* A step that changes no token is a stutter.
LEMMA PromiseSilent ==
    ASSUME UNCHANGED <<tokens, used, wrong, parent>>
    PROVE  UNCHANGED Promise!vars
<1>1. \A t \in Tokens : StatusOf(t)' = StatusOf(t)
  BY DEF StatusOf
<1> QED
  BY <1>1 DEF Promise!vars

\* A wrong secret for a partial token with tries left is counted.
LEMMA PromiseCounts ==
    ASSUME Inv, NEW at \in tokens, NEW secret \in Secrets,
           SecondLoginBadSecret(at, secret)
    PROVE  Promise!Next
<1> DEFINE old  == at.token
           less == [at EXCEPT !.retries = @ - 1]
<1>1. at \in AuthenticationToken /\ at.retries > 0 /\ old \in Tokens
  BY DEF Inv, TypeOK, SecondLoginBadSecret, AuthenticationToken
<1>2. /\ at.partial
      /\ old \in used
      /\ at.retries + wrong[old] = 2
  BY <1>1 DEF Inv, StoreInv
<1>3. less.token = old /\ less.partial
  BY <1>1, <1>2, RetriedToken
<1>4. tokens' = {b \in tokens : b.token # old} \cup {less}
  BY <1>3 DEF SecondLoginBadSecret, Updated, Deleted, Found
<1> HIDE DEF less
<1>5. StatusOf(old) = "partial" /\ StatusOf(old)' = "partial"
  BY <1>2, <1>3, <1>4 DEF StatusOf, SecondLoginBadSecret
<1>6. \A t \in Tokens : t # old => StatusOf(t)' = StatusOf(t)
  BY <1>3, <1>4, StatusSame DEF Found, SecondLoginBadSecret
<1>7. Statuses' = Statuses
  BY <1>5, <1>6 DEF Statuses
<1>8. wrong' = [wrong EXCEPT ![old] = @ + 1] /\ parent' = parent
  BY <1>2 DEF SecondLoginBadSecret, CountWrong
<1>9. wrong[old] + 1 # 3
  <2>1. wrong[old] \in Nat /\ at.retries \in Nat
    BY <1>1 DEF Inv, TypeOK, AuthenticationToken
  <2> QED
    BY <1>1, <1>2, <2>1
<1>10. Promise!WrongSecret(old)
  BY <1>1, <1>5, <1>7, <1>8, <1>9
  DEF Promise!WrongSecret, Promise!MaxWrong, Statuses
<1> QED
  BY <1>1, <1>10 DEF Promise!Next

\* The third wrong secret kills a partial token; a full token is deleted.
LEMMA PromiseKills ==
    ASSUME Inv, NEW at \in tokens, NEW secret \in Secrets,
           SecondLoginNoMoreRetries(at, secret)
    PROVE  Promise!Next
<1> DEFINE old == at.token
<1>1. at \in AuthenticationToken /\ old \in Tokens /\ old \in used
  BY DEF Inv, TypeOK, StoreInv, AuthenticationToken
<1>2. tokens' = {b \in tokens : b.token \notin {old}}
  BY DEF SecondLoginNoMoreRetries, Deleted, Found
<1>3. used' = used /\ parent' = parent
  BY DEF SecondLoginNoMoreRetries
<1>4. CASE at.partial
  <2>1. wrong[old] = 2
    BY <1>1, <1>4 DEF Inv, StoreInv, TypeOK, SecondLoginNoMoreRetries
  <2>2. wrong' = [wrong EXCEPT ![old] = @ + 1]
    BY <1>4 DEF SecondLoginNoMoreRetries, CountWrong
  <2>3. StatusOf(old) = "partial"
    BY <1>1, <1>4 DEF StatusOf
  <2>4. StatusOf(old)' = "dead"
    BY <1>1, <1>2, <1>3 DEF StatusOf
  <2>5. \A t \in Tokens : t # old => StatusOf(t)' = StatusOf(t)
    BY <1>2, <1>3, StatusSame DEF Found
  <2>6. Statuses' = [Statuses EXCEPT ![old] = "dead"]
    BY <2>4, <2>5 DEF Statuses
  <2>7. Promise!WrongSecret(old)
    BY <1>1, <1>3, <2>1, <2>2, <2>3, <2>6
    DEF Promise!WrongSecret, Promise!MaxWrong, Statuses
  <2> QED
    BY <1>1, <2>7 DEF Promise!Next
<1>5. CASE ~at.partial
  <2>1. wrong' = wrong
    BY <1>5 DEF SecondLoginNoMoreRetries, CountWrong
  <2> QED
    BY <1>1, <1>2, <1>3, <2>1, PromiseRevokes
<1> QED
  BY <1>4, <1>5

\* A valid secret exchanges the partial token for a full one.
LEMMA PromiseExchanges ==
    ASSUME Inv, NEW at \in tokens, NEW secret \in Secrets, NEW uuid \in Tokens,
           SecondLoginSucceeds(at, secret, uuid)
    PROVE  Promise!Next
<1> DEFINE full == GenerateAuthenticationToken(at.userRef, uuid)
           old  == at.token
<1>1. /\ at.userRef \in Users
      /\ old \in Tokens
      /\ old \in used /\ uuid \notin used
  BY DEF Inv, TypeOK, StoreInv, AuthenticationToken, SecondLoginSucceeds,
         Generated
<1>2. at.partial
  BY ValidIsPartial DEF Inv, SecondLoginSucceeds
<1>3. full.token = uuid /\ full.partial = FALSE
  BY <1>1, FullToken
<1>4. tokens' = {b \in tokens : b.token # old} \cup {full}
  BY DEF SecondLoginSucceeds, Deleted, Found
<1>5. /\ used' = used \cup {uuid}
      /\ parent' = [parent EXCEPT ![uuid] = {old}]
      /\ wrong' = wrong
  BY DEF SecondLoginSucceeds, Generated
<1> HIDE DEF full
<1>6. StatusOf(old) = "partial" /\ StatusOf(uuid) = "unused"
  BY <1>1, <1>2 DEF StatusOf
<1>7. \A b \in tokens : b.token # uuid
  BY <1>1 DEF Inv, StoreInv
<1>8. StatusOf(old)' = "dead" /\ StatusOf(uuid)' = "full"
  BY <1>1, <1>3, <1>4, <1>5, <1>7 DEF StatusOf
<1>9. \A t \in Tokens : t # old /\ t # uuid => StatusOf(t)' = StatusOf(t)
  BY <1>3, <1>4, <1>5, StatusSame DEF Found
<1>10. Statuses' = [Statuses EXCEPT ![old] = "dead", ![uuid] = "full"]
  BY <1>1, <1>8, <1>9 DEF Statuses
<1>11. Promise!Exchange(old, uuid)
  BY <1>1, <1>5, <1>6, <1>10 DEF Promise!Exchange, Statuses
<1> QED
  BY <1>1, <1>11 DEF Promise!Next

\* Every step maps to a step of TokenPromise, or to a stutter.
LEMMA PromiseNext == Inv /\ [Next]_vars => [Promise!Next]_(Promise!vars)
<1> SUFFICES ASSUME Inv, [Next]_vars
             PROVE  Promise!Next \/ UNCHANGED Promise!vars
  OBVIOUS
<1>1. ASSUME NEW user \in Users, NEW uuid \in Tokens,
             FirstLoginTrusted(user, uuid)
      PROVE  Promise!Next
  <2>1. /\ GenerateAuthenticationToken(user, uuid) \in AuthenticationToken
        /\ GenerateAuthenticationToken(user, uuid).token = uuid
    BY FullToken
  <2> QED
    BY <1>1, <2>1, PromiseIssues DEF FirstLoginTrusted
<1>2. ASSUME NEW user \in Users, NEW uuid \in Tokens, NEW secret \in Secrets,
             FirstLoginUntrusted(user, uuid, secret)
      PROVE  Promise!Next
  <2> DEFINE new == GenerateSecret(GenerateAuthenticationToken(user, uuid), secret)
  <2>1. new \in AuthenticationToken /\ new.token = uuid
    BY DEF GenerateSecret, GenerateAuthenticationToken, AuthenticationToken
  <2> QED
    BY <1>2, <2>1, PromiseIssues DEF FirstLoginUntrusted
<1>3. ASSUME NEW at \in tokens, NEW secret \in Secrets,
             \/ SecondLoginNoMoreRetries(at, secret)
             \/ SecondLoginBadSecret(at, secret)
             \/ \E uuid \in Tokens : SecondLoginSucceeds(at, secret, uuid)
      PROVE  Promise!Next
  BY <1>3, PromiseKills, PromiseCounts, PromiseExchanges
<1>4. ASSUME NEW uuid \in Tokens, Logout(uuid)
      PROVE  Promise!Next
  <2>1. tokens' = {at \in tokens : at.token \notin {uuid}}
    BY <1>4 DEF Logout, Deleted, Found
  <2> QED
    BY <1>4, <2>1, PromiseRevokes DEF Logout
<1>5. CASE Restart
  <2>1. tokens' = {at \in tokens : at.token \notin Tokens}
    BY <1>5 DEF Restart, Inv, TypeOK, AuthenticationToken
  <2> QED
    BY <1>5, <2>1, PromiseRevokes DEF Restart
<1>6. CASE FirstLoginFails
  BY <1>6, PromiseSilent DEF FirstLoginFails
<1>7. ASSUME NEW uuid \in Tokens,
             SecondLoginUnknown(uuid) \/ TokenCheck(uuid)
      PROVE  UNCHANGED Promise!vars
  BY <1>7, PromiseSilent DEF SecondLoginUnknown, TokenCheck
<1>8. ASSUME NEW m \in outbox, Deliver(m) \/ DeliveryFails(m)
      PROVE  UNCHANGED Promise!vars
  BY <1>8, PromiseSilent DEF Deliver, DeliveryFails
<1>9. CASE UNCHANGED vars
  BY <1>9, PromiseSilent DEF vars
<1> QED
  BY <1>1, <1>2, <1>3, <1>4, <1>5, <1>6, <1>7, <1>8, <1>9
  DEF Next, FirstLogin, SecondLogin

\* The tokens live as TokenPromise says, for any number of users and tokens.
THEOREM TokenPromiseKept == Spec => KeepsTokenPromise
  BY PromiseInit, PromiseNext, Invariance, PTL
  DEF Spec, KeepsTokenPromise, Promise!Spec
=============================================================================
