# TLA+ verification of akka-patterns

This directory holds TLA+ models of the akka-patterns server and of its native
recogniser, the TLC configurations that check them on small instances, and
TLAPS proofs about ten of them for every value of their constants.

    tlc -workers 2 -config RecogSession.cfg MCRecogSession.tla
    tlapm RecogSession_proofs.tla

and the same for the other configurations and proof modules of section 2.

Paths below are relative to the repository; `core/`, `api/` and `domain/` stand
for the package directories under `server/core`, `server/api`, `server/domain`.

## 1. The system

akka-patterns recognises images in *recognition sessions* and shows, around
them, how an Akka application is put together.

| part | code | state it keeps | operations | talks to |
|---|---|---|---|---|
| HTTP endpoint of recognition | `api/recog.scala` | the ask in flight of each request | POST `/recog`, POST `/recog/{id}` | asks the coordinator, 10 s timeout |
| recognition coordinator | `core/recog/coordinator.scala` | its children, by UUID | Begin, ProcessImage, KillActiveSession, FindActiveSessions | creates and configures sessions, forwards images with the client's sender |
| recognition session | `core/recog/instance.scala`, `data.scala` | FSM state, `ActiveSession`, its mailbox, its timers | configuration, image, result, state timeout | asks its own `RpcClient`; answers the client directly |
| native recogniser | `native/rabbit.cpp`, `native/recog/main.cpp`, `recog.cpp` | eight threads, a channel each, one classifier | consume, detect, reply | RabbitMQ queue `recog`, the reply queues of the `RpcClient`s |
| login | `core/authentication/login.scala` | the token store, in memory | FirstLogin, SecondLogin, Logout, TokenCheck | graph database, message delivery |
| message delivery | `core/messagedelivery.scala` | none | DeliverSecret, DeliverActivationCode | SMTP, Nexmo |
| image codec | `native/im.cpp`, `core/recog/encoding.scala` | the images of a message | encode, decode, head image, replace, write again | between session and recogniser |
| preflight | `native/recog/preflight.cpp` | ten maxima | focus, histogram | nothing runs it yet |
| JSON library | `native/jzon.cpp` | the nodes of a document; a parser's two queues | write, parse | the recogniser writes its answers with it |
| authentication directives, failure handling | `api/authentication.scala`, `api/services.scala` | none | validUser, validSuperuser, validCustomer | asks LoginActor with TokenCheck |
| customers | `core/customer.scala`, `api/customer.scala` | MongoDB collection | get, update, register (unimplemented) | authentication directives |
| users, graph database | `core/user.scala`, `core/neo4j.scala`, `api/user.scala` | Neo4j nodes and indexes | find, add, update; the fixtures that add a root user | - |
| tracking | `api/tracking.scala` | MongoDB collection | insert of a request's start and end | two unordered futures |
| configuration store | `domain/configuration.scala` | synchronised map | configure, configured | - |
| reporting | `core/reporting/*` | none | compile, fill and export a report | JasperReports |
| web client | `web/app` | polling flag of `scan.js` | begin a session, post a frame again and again | the HTTP endpoint |

Not part of the running system: boot code, test kit, demos, `scraps/`, and the
vendored gtest and QR-code sources.

### How a request travels

A client POSTs an image. `RecogService.image` asks the coordinator; the
coordinator passes the image on to the session *with the sender of the ask*, so
that the session answers the client without going back through the coordinator.
The session takes an image only in `WaitingForMoreImages`; it asks its
`RpcClient`, remembers the sender, and goes to `WaitingForImageResult`. The
`RpcClient` publishes to RabbitMQ; one of the threads of the recogniser takes
the message and replies to the queue, and with the correlation id, that the
message names. The future's callback, on a thread of the dispatcher, sends the
session a `SenderResult`, and the session answers, adds a feature, and goes to
`WaitingForMoreImages` or `Completed`.

### What is hard about it

* **Two timeouts of the same length**, the client's ask and the session's ask
  (10 s each), and a third, the state timeout (300 s), around one examination.
* **A callback that outlives its message**: the result comes back when the
  actor's `sender` is somebody else.
* **Messages in the wrong state** are dropped without an answer: retries,
  several clients of one session, results of a session that is gone.
* **Stops and failures**: constructor failures after the id was handed out,
  Kill, threads and processes of the recogniser that end, restarts of the
  login actor with an empty token store.
* **At-most-once delivery**: no-ack consumers, replies to queues that are gone,
  e-mails that fail.
* **Counting**: features recognised against features required; wrong secrets
  against retries.
* **Checks that are used later**: a token that is checked before the future
  that writes, a user that is looked for before the transaction that adds it.
* **Two ends of one format**: messages written in Scala and read in C++, texts
  written and parsed by rules that are implemented twice.
* **Orders**: of the pixels that overwrite one another's maxima, of the
  parameters in nested lists of a report.

`PROJECT.json` lists every such hazard at its line, with the properties about it.

## 2. The modules

| module | models | kind |
|---|---|---|
| `RecogFSM` | states, messages, answers of a session; the functions of `ActiveSession` | vocabulary |
| `RecogSession` | one session: FSM, mailbox, futures, clock | component |
| `RecogPromise` | what a session promises its clients | abstract specification |
| `RecogSession_proofs` | theorems about `RecogSession` | proofs |
| `Recog` | HTTP clients + coordinator + several sessions | composition |
| `Recog_proofs` | theorems about `Recog` | proofs |
| `RpcServer` | broker, `RpcClient`s and the recogniser's threads | component |
| `RpcPromise` | what a session may expect of an RPC call | abstract specification |
| `RpcServer_proofs` | theorems about `RpcServer` | proofs |
| `Login` | LoginActor, token store, delivery of secrets | component |
| `TokenPromise` | the life of a token | abstract specification |
| `Login_proofs` | theorems about `Login` | proofs |
| `ImageMessage` | the codec of images, from both sides | component |
| `Preflight` | the focus measure | component |
| `Images_proofs` | theorems about `ImageMessage`, `Preflight` and `MCNative` | proofs |
| `JzonText` | nodes, escapes, white space and tokens of Jzon | functions |
| `JzonWriter` | Jzon's Writer | functions |
| `JzonParser` | Jzon's Parser and the root it fills | component |
| `JzonRoundTrip` | what is read back of what was written | composition |
| `JzonParser_proofs` | theorems about `JzonParser` and `JzonRoundTrip` | proofs |
| `Customers` | the customer and user routes, directives, controller, collection, with the tokens of `TokenPromise` | composition |
| `UserGraph` | the index of users and the fixtures that fill it | component |
| `Reports` | ReportRunner and its data source | component |
| `Server_proofs` | theorems about `Customers`, `UserGraph`, `Reports` and `MCServer` | proofs |
| `SequenceLemmas` | lemmas about sequences, and induction, for the proofs about texts, bytes and lists | lemmas |
| `MCRecogSession`, `MCRecog`, `MCRpcServer`, `MCLogin`, `MCNative`, `MCServer` | small instances for TLC | model checking |

`MCNative` and `MCServer` put components side by side that do not interact:
a variable says which of them a behaviour is about, and the others rest. Their
configurations therefore check one question per property.


### RecogFSM and RecogSession

`state`, `active` and `acceptedFeatures` are the FSM's `stateName` and
`stateData`; `mailbox` is the actor's; `rpcs` are the outstanding futures of
`amqpAsk`; `life` is the life of the Akka actor. `verdict` and `answer` are
history: how the recogniser's future ended, and what was sent to each client. A
*request* is an image together with the temporary actor that waits for its
answer, which is what `realSender` is.

Each case of each `when(..)` block is an action: `Configure` (`Idle`),
`HandleImage` (`WaitingForMoreImages`), `HandleAcceptedResult` and
`HandleRejectedResult` (`WaitingForImageResult`), `StateTimeout` and
`Unhandled` for `whenUnhandled`. `Start`/`StartFails` are the constructor,
which asks for an `RpcClient`, and `HandleKill` is Akka's `Kill`. `RpcAnswers`
and `RpcFails` are the two cases of `onComplete`. `SendConfiguration`,
`SubmitImage` and `SendKill` are what the coordinator does to one session.

Time is a tick count. An `akka.actor.FSM` re-arms its state timer whenever it
processes a message and ignores a timer armed before, so a `StateTimeout` is
acted on only after `Timeout` ticks without a message and with an empty
mailbox: that is its guard. `AskTimeout` bounds the age of an ask; the clock
cannot pass it while one is outstanding. `AskTimeout < StepTimeout` is assumed
of the constants (10 s against 300 s, `domain/timeout.scala:6`,
`instance.scala:98`), the scheduler's lateness included in `AskTimeout`.

`GetSession` (`instance.scala:138`) changes no state and nothing sends it, and
`Corrupted` is never entered: both are left out. The transition handler prints.

### Recog

The composition drops the clock (an idle session may time out at any time, a
client's ask may expire at any time) and adds what a single session cannot
show: asks that wait at the coordinator in any order, requests to ids that are
not in use, stopped children, two clients' asks racing two sessions' asks,
HTTP statuses. `StateTimeout` is excluded in `WaitingForImageResult`: this is
what `RecogSession` proves (`NeverAbortedInExamination`). Sessions are given
one or two features: the coordinator configures `FaceFeature :: Nil`, and the
session's code takes any list.

### RpcServer

A call is `[client, id]`: correlation ids are chosen by each client for itself,
so two clients use the same. `pushed[w]` is what the broker has pushed to the
channel of thread `w`: `BasicConsume` is called with `no_ack` (`rabbit.cpp:30`;
the arguments are queue, tag, no_local, no_ack, exclusive, prefetch), and for
such consumers RabbitMQ ignores the prefetch count and forgets what it pushed.
A thread runs `Connect`, `Consume`, `Detect`, `Detected`, `Publish`, and opens
a new channel for the next message; what was pushed to the old one is lost.
`Detect`/`Detected` split `detectMultiScale`, because all threads share one
`CascadeClassifier`, which keeps the image: if another thread has put its image
in, the outcome is any. `ReplyReturned` and `ChannelFails` are the exceptions
`runBlocking` catches (they end the thread), `ProcessEnds` those it does not. A
channel may fail while the thread waits for a message or publishes its reply,
and the reply may have come through all the same.
The reply to a call that has ended, or that nobody waits for, is ignored by the
`RpcClient`. RabbitMQ and `RpcClient` are external code, modelled from the way
they are used.

### Login

One action per case of `LoginActor.receive`; the token store is a set of
records, for which `create`, `find`, `deleteByToken` and `update` are
`\cup`, `Found`, `Deleted` and `Updated`. UUIDs are fresh; secrets need not be
(five characters). `User.checkPassword` and `isTrustedDevice` are stubs in
`domain/user.scala`; the model lets either answer come. `TokenCheck` looks for
the token and then for its user, who may not be found. An exception in a
handler (the graph database) restarts the actor with a new, empty store:
`Restart`. `wrong`, `parent` and `owner` are history. MessageDeliveryActor sends
to the email address of a message if there is one, and otherwise to the mobile
number (`Destination`); a transport that throws loses the secret.

### ImageMessage

A body is a sequence of bytes. `SingleImage` is what the session sends
(`encoding.scala:16`); `ReadHeader`, `ReadImage` and `Constructed` are the
constructor of `ImageMessage`, its locals included; `WriteAmqpBytes` is the
other encoder. A word has 32 bits as four bytes of `Radix` values, and `AsInt`
and `Wrapped` are the conversions to `int` and the overflow of `dataStart`. The
constructor does not compare the range of an image with the length of the body.
A range that leaves the body is undefined behaviour, with two outcomes in the
model (`ReadImage`): the process ends (`"crashed"`), or the bytes beyond the body
are those of some memory, one of `Memories` (`Copied`), and the constructor goes
on, and may accept the message. The magic number is abstract, its four bytes are
not.

### Preflight

`Visit` is one turn of the two loops over the pixels, `Decide` the sum and the
comparison. What OpenCV's filters yield is any sequence of values. `from` is
history: the pixel that each of the ten values comes from. The fields of
`HistorgramPreflightResult` are never initialised (`preflight.cpp:39`), so
`Decide` lets any of them be set.

The code means to keep the ten largest values. It does not: a larger value
overwrites the first smaller one, which is lost instead of moving down. What
holds is that the values kept descend, the largest is first and no pixel
counts twice, so that an image found in focus is sharp (`InFocusIsSharp`); a
sharp image may be found not to be in focus, depending on the order of its
pixels.

### JzonText, JzonWriter, JzonParser and JzonRoundTrip

A text is a sequence of characters, of which those are told apart that the
code tells apart; the words `null`, `true` and `false` are one character each.
`JzonText` has the functions that the parser works with: `UnescapeString`,
`RemoveWhitespace` and `Tokenize`, each a recursive function over the positions
of a text whose step (`Removal`, `Scan`) is the body of the loop. `JzonWriter`
has `EscapeString`, the formats and the Writer. `writeNode` calls itself; in the
model, `Documents[n]` are the documents that are nested `n` deep, and `Write`
makes the texts of each depth from those of the depth before (`WriteNode`).
`JzonParser` is the object: `Parse` fills the two queues and takes them apart
one token at a time (one action per case of `assemble`), adding to the root as
it goes. Both queues and root survive a Parse: `StartParse` may follow on
success or failure, and `NewParser` is a new parser for the same root
(`FileReader::Read`). `JzonRoundTrip` puts the two together: `Written` are then
documents with the text that the Writer makes of them.

Seen on the way, and kept in the model as it is: a string that ends the text
without a quote is accepted, and so are objects that are not closed and
separators in any place; `readString` pushes its text before the text collected
so far, while the tokens come in the other order (`[1"a"]` yields a, 1).

### Customers

Each call goes through `phase`: made, authenticating (the ask with
`TokenCheck`), called (the future of the controller), answered. The tokens are
those of `TokenPromise`, which `Login` implements (`KeepsTokenPromise`), so
that everything the login actor may do between two steps of a call happens
here: issue, exchange, logout, restart. `kindOf` is the kind of the user of a
token, chosen from `Kinds`. `writer` names, for each document, the call that
wrote it last. `late`, `wrote` and `timedOut` are history: the calls made with a
token that was dead already, those that replaced a document, those whose ask
was not answered in time. A POST whose token is not good
is answered 405 and not 401: spray answers the first rejection, which is that
of the `get` alternative; the test says so as well (`CustomerServiceSpec.scala:28`).
One whose token is good and whose body is no customer is answered 400 by
`handleWith`. The routes are wired in the tests only, with `testExceptionHandler`
(`support.scala:128` of the API's tests), which answers 500 to any exception, as
does `RoutedHttpService` (`services.scala:63`). `answer` names the exception
instead, as the handler's text does: the ask's timeout, the two of the controller
(`NoSuchElement`, `IllegalArgument`), one of the store. The statuses 404 and 406
of `FailureHandling` are not modelled: only `XApi` mixes it in, which is
commented out (`api/boot.scala`).
Wrong secrets are left out of `LoginActs`: until the third they change nothing a
route sees, and the third is a Revoke of one token.

### UserGraph

`neo4jFixtures` (`neo4jsupport.scala`) looks for the root user by name and adds
it in a transaction; it is synchronised on its own instance, of which each test
has one. Every operation on the index is an action. Neo4j's `putIfAbsent` is
external: it takes a lock on the key until the transaction ends, and does
nothing if there is an entry. `Find` is `TypedGraphDatabase.find`: one hit or
nothing. `Rollback` is any exception, in any step.

### Reports

`Expressions[n]` are the expressions of depth `n` and less, of inputs and of
compiled reports, and `Eval[n]` and `ToMap[n]` are functions on them: `eval` and
`toMap` of the code, which call themselves, by how deep they do. The actions
are the steps of `runReportT`, each of which may end it with a left. `NextRow` is
JasperReports asking `JRProductListDataSource.next`. The three kinds of data
sources are one: a list of rows. The default data source,
`EmptyDataSourceExpression`, has no case in `eval` (`jasperreports.scala:252-260`),
so that a run without another one always fails, though `toDataSource` has a
case for it; the model does the same. `RunIsAsWritten` does not take a side:
`EmptyDataSourceIsEvaluated` says what the documentation does, and is violated.

## 3. What is checked

| run | instance | expectation | what it shows |
|---|---|---|---|
| `RecogSession` | 3 requests, 2 features, ticks 1 < 2 | pass | below |
| `Recog` | 2 requests, 2 sessions, 2 features | pass | end-to-end statuses, isolation of sessions, when images are dropped |
| `RecogFound` | 1 request, 2 sessions | violation | FindActiveSessions lists sessions that ended |
| `RecogStatus` | 2 requests, 1 session | violation | a dropped image's client never gets a status |
| `Rpc` | 2 clients, 3 calls, 2 threads | pass | at-most-once examination, correlated replies, no stuck call |
| `RpcSharedClassifier` | as `Rpc` | violation | the shared classifier mixes up two images |
| `RpcPushed` | 2 calls, 1 thread | violation | a pushed message is lost by a thread that goes on |
| `LoginTokens` | 2 users, 3 tokens, 2 secrets | pass | exact counting, single exchange, life of tokens |
| `Native` | section "Bounds" | pass | codec, focus measure, Jzon |
| `NativeStructure` | as `Native` | violation | a message that says more than it has is accepted |
| `Server` | section "Bounds" | pass | customers, root user, reports |
| `ServerEmptySource` | as `Server` | violation | a report with the default data source fails |

**Session.** `AnswerIsTheVerdict`: at most one answer, and the verdict on the
client's own image. `OneImageAtATime`: an image is examined exactly in
`WaitingForImageResult`, and only one, so that no result is ever dropped.
`FeaturesMatchAnswers`: the features accepted are those required, in order, one
for each positive answer, and the completion token is given once, at the end.
`NeverAbortedInExamination`: the step timeout never strikes during an
examination. `KeepsPromise`: refinement of `RecogPromise`. `ExaminedIsAnswered` and `SessionEnds` are
the liveness properties.

**Composition.** `StatusIsTheVerdict`: 200/202/400 say what the recogniser said
of the image posted, never 500. `ConfiguredFirst`: the configuration is always
the first message. `SessionsKeepPromise`: each session keeps `RecogPromise`
whatever the others do. `DroppedOnlyByOverlap`: a client that has its session
to itself and waits for its answers is never ignored.

**Recogniser.** `OnePlace`: a call is in one place only and never examined
twice. `KeepsRpcPromise`: a call ends with what was said of *it*.
`CallsAreSettled`: every call is examined, or lost with a channel, unless all
threads have ended.

**Login.** `StoreInv`: retries left and wrong secrets given add up.
`ExchangedOnce`: a partial token yields one full token of the same user.
`KeepsTokenPromise`: refinement of `TokenPromise`, over any order of requests
and restarts.

**Codec.** `WrittenIsRead`: what either encoder writes is read as the same
images, never rejected, never beyond the body. `AcceptedIsWhatWasSent`: of any
body at all, what is accepted agrees, written again, with the body for as far as
it goes: magic number, count and sizes are all in the body, and no byte of it is
skipped, shifted or read twice. The exception is a count that is negative as an
`int`, which is read as no images. What is behind the end of the body is not
excluded: `BadStructureIsRejected` excludes it, as `im.h` does, and is violated.

**Focus.** `MaximaDescend`, `LargestIsFirst`, `EachFromItsOwnPixel`,
`InFocusIsSharp`: as said in section 2.

**Jzon.** `QueuesKeepPace`: `front()` is never called on an empty queue, and
tokens and data do not drift apart unless a Parse fails. `RoundTrip`: a
document is read back as it was written *exactly if* it is clean: no string
that ends in a backslash, no name that needs an escape, no number with an
exponent, no value whose text is not one of its type. `FormatDoesNotMatter`: what
`RemoveWhitespace` leaves of a clean document is the text without format,
whichever format it was written in and whatever comment is in front, and the
strings in it are left untouched.
`RootOnlyGrows`: no parse, failed ones included, changes what `Get` finds in a
root that is in use.

**Customers.** `WrittenByItself`: only the customer itself writes its document,
whatever is in the path and whatever happens between check and write.
`AnswerTellsTheEffect`: a call whose ask timed out keeps that answer and never
writes, though the login actor's answer may come later; a rejected call has
written nothing, a successful one has, unless there was no document.
`LoggedOutIsRejected`: a call made after a logout has no effect. A logout
between the check and the update of one call stops nothing, and no property says
so: the code does not look again, and the documentation promises rejection of
*further* requests only. `EveryCallIsAnswered`: liveness.

**Users.** `OneRootUser`: the index has at most one root user, the same under
both keys, and one if any fixture is done.

**Reports.** `RunIsAsWritten`: rows and parameters against a definition that
reads the expressions from left to right, and the first fault if there is one,
unless an empty data source before it has ended the run.

**Disagreements** between code and documentation are the runs that are expected
to be violated; `findings` in `PROJECT.json` quotes both sides. Four more were
seen and have no run. They show in the text of one action:

* a secret is e-mailed to the user's last name (`login.scala:141`, against
  "Sends the secret to the user", `:135`);
* `TokenCheck` answers for a partial token as for a full one (`login.scala:198`),
  which is "not valid for anything else other than completing the
  authentication" (`core/authentication/authentication.scala:44`); `Customers` has
  it so (`InStore`);
* an image whose examination failed is answered 400 as if its checks had failed
  (`instance.scala:131`, `apiary.apib:16`);
* a SecondLogin with a *full* token deletes that token and is answered
  TooManyBadSecrets at the first attempt (`login.scala:177`,
  `core/authentication/authentication.scala:82`).

Every property of a passing run has a mutant (`mutants` in `PROJECT.json`):
a definition of the model changed as a plausible bug would change the code,
which TLC must find to violate the property.

### Bounds

* Three requests to one session are a request under examination, one waiting
  behind it, and one that comes later; with two required features they cover
  accept, reject, complete, and an image after completion.
* Two sessions are enough for interference of one with another, and two
  requests to one of them are enough to overlap; properties of one session
  alone are checked with three clients in `RecogSession`.
* Ticks: only the order of the timeouts matters, so 1 stands for 10 s (and for
  the 20 s of `Idle`) and 2 for 300 s. `idle` stops counting at
  `StartTimeout + StepTimeout`, above which nothing depends on it.
* `SendKill`/`KillActiveSession` put one Kill into a mailbox; a second changes
  nothing, because the first stops the actor.
* Three calls of two clients are one pair that shares a correlation id and one
  pair that shares a reply queue; two threads are enough to race.
* Three tokens are a partial one, the full one it is exchanged for, and one of
  another user; `wrong` needs no bound, since the store gives at most 3.
* Codec: a byte has four values, so that a word is less than 256 and an `int`
  at most 127, and the runs reach both limits, counts and sizes next to them,
  and `8 + 4 * count` that wraps round. Bodies are all headers of up to two
  sizes with three trailers, and a message of two images cut at each place.
  `Memories` are two: what lies behind a body is all zeros, or all bytes that the
  body might have as well; in the theorems they are any.
  `MaxWrites` 2: a message is read, changed, written, and once more. Two bounds
  are assumptions of the module, and of its theorems: `BodiesAssumption`, a body
  is no longer than an `int` can say (2 GB), and so is what `WriteAgain` writes.
  `SentAssumption` is no bound: `encoding.scala:20` copies an image into an array
  of `12 + image.length` bytes.
* Focus: three places instead of ten, up to five pixels of five values: more
  pixels than places, values that come twice, and a negative one.
* Jzon: documents nested up to three deep (`MaxDepth`) with every kind of leaf, strings of up to
  two special characters, four formats, four comments, and twelve texts that
  nobody wrote, one for each error of `assemble` and for each thing it accepts
  though it is wrong. `MaxParses` 2: a second Parse shows what the first has
  left. After the first text only few documents are read (`MCRereads`), since
  what matters then is the root and the queues. `Characters` are those that the
  code tells apart and four others. In the theorems `Characters` may be any set
  with the former, and `MaxDepth` any number.
* Customers: two calls and two tokens race; one customer is in the collection
  and one is not; the second token is of the other customer or of a superuser.
* Three fixtures: one that commits, one that waits for its lock, one that fails.
* Reports: lists of lists of up to two elements and one of three, with equal and
  different names, faults at each place. `MaxDepth` 2: `eval` calls itself twice;
  in the theorems the depth is any number, and no bound on the lists is assumed.

### Fairness

* `RecogSession`: the dispatcher runs an actor that has something to do
  (`WF(Actor)`), the scheduler's clock goes on (`WF(Tick)`) and an ask ends, at
  the latest by its timeout (`WF(RpcFails(r))`, enabled as long as the ask is
  outstanding). Neither clients nor the recogniser are assumed to do anything.
* `Recog`: the same, per session and per request, the coordinator included.
* `RpcServer`: threads run, and the broker pushes when some thread consumes. No
  thread is assumed to survive.
* `Customers`: the dispatcher runs futures (`WF(Get \/ Update \/ StoreFails)`),
  and an ask ends by its timeout at the latest (`WF(AskTimesOut)`). The login
  actor need not answer.
* `Login`, `UserGraph`, `Reports`, `ImageMessage`, `Preflight` and `JzonParser`
  have safety properties only.

Deadlock is checked everywhere but in `RpcServer`, where all threads may end
and all calls be over, and in `Native` and `Server`, whose components come to
an end.

## 4. What is proved

`RecogSession_proofs` proves, for any sets of requests and features, any
non-empty list of required features, and any timeouts with
`AskTimeout < StepTimeout`:

| theorem | statement |
|---|---|
| `TypeCorrect` | `Spec => []TypeOK` |
| `Invariance` | `Spec => []Inv` |
| `VerdictsAnswered` | `Spec => []AnswerIsTheVerdict` |
| `OneExamination` | `Spec => []OneImageAtATime` |
| `ExaminationNotAborted` | `Spec => NeverAbortedInExamination` |
| `PromiseKept` | `Spec => KeepsPromise` |
| `FeaturesMatch` | `Spec => []FeaturesMatchAnswers` |

The argument. `OneImageAtATime` and `AnswerIsTheVerdict` are not inductive: a
`SenderResult` in the mailbox might be about a request that was answered
before, or come twice. `Inv` therefore says where each request can be -
not sent, in the mailbox as an image, at the recogniser, in the mailbox as a
result, or answered - and what is known of it there (`Known`, `MailboxInv`,
`RequestInv`). `ExaminationInv` ties this to the FSM: a result or an
outstanding ask exists exactly in `WaitingForImageResult`, there is one, and
the actor has not been idle for longer than that ask is old
(`idle <= rpcAge[r]`), because processing the image reset `idle` and the ask
began in the same step. Since `rpcAge[r] <= AskTimeout < StepTimeout`, the
state timeout cannot strike. `StateInv` says which data go with which state.
Each action preserves each part (one lemma per action; `MailboxAfterReceive`
and `MailboxAfterSend` are shared). The refinement follows step by step: an
answer maps to Accept, Complete or Reject, a stop or an abort to Close, all
else to a stutter.

`FeaturesMatchAnswers` counts requests, so `FeaturesInv` adds what counting
needs: the set of positive answers is finite, since each answer adds one element
to it, and the completion token was granted to one request at most. It is
inductive together with `Inv`, which says that a result is about a request that
has no answer yet, so that no request is counted twice.

`Recog_proofs` proves, for any sets of sessions and requests and the same
assumption on the required features:

| theorem | statement |
|---|---|
| `TypeCorrect` | `Spec => []TypeOK` |
| `Invariance` | `Spec => []Inv` |
| `StatusesAreVerdicts` | `Spec => []StatusIsTheVerdict` |
| `ConfigurationFirst` | `Spec => []ConfiguredFirst` |
| `DropsAreOverlaps` | `Spec => DroppedOnlyByOverlap` |
| `SessionsPromiseKept` | `Spec => SessionsKeepPromise` |

The argument. The invariant is a conjunction over sessions (`SessionInv`) and
over requests (`RequestInv`). `MailboxOK` says that the mailboxes have each
request once, in that of its own session, that the mailbox of a session that does
not exist is empty, and that the configuration is there, first, exactly as long
as a session is `Idle`: that is `ConfiguredFirst`, and it is inductive only
because Begin puts the configuration into the new mailbox in the step that makes
the id known, so that no `Image` can be in front of it. `ExaminationOK` and
`StateOK` are the invariant of one session, without the clock.
`RequestOK` says where a request is when no mailbox has it, and that its answer,
its verdict and its status agree; a status follows from the answer alone, since
only a `waiting` client receives one. A step of a session moves one request
(`OnlyRequest`) and leaves the other sessions alone (`Alone`), from which
`SessionAlone` and `RequestAlone` conclude that all else keeps its invariant. A
dropped image comes from `ExaminationOK`: the session waits for a result, which is
at the recogniser or in the mailbox, and is about another request. For the
refinement each step of session `s` is a step of `Promise(s)`, and a stutter of
all the others, because the answers of `s` are those of requests with that
target, and a target, once there is one, is not changed.

`RpcServer_proofs` proves `TypeOK` (`TypeCorrect`), `OnePlace`
(`OnePlaceAtATime`) and `KeepsRpcPromise` (`RpcPromiseKept`), for any sets of
clients, calls and threads that the assumptions of `RpcServer` admit. `OnePlace` counts the
places of a call, and counting is not inductive; what is, is that the places
exclude one another (`PlaceInv`, `HeldInv`): the queue, the channels and the
hands of the threads have no call in common and none has a call twice. `SaidInv`
adds that a call that is queued or pushed was made and has not been examined, and `HandInv`
that a thread says something of the call in its hands exactly once, which is why
a call that was answered cannot come back. A correlation id is unique per client
only; `ReplyInv` says that the reply queue and the id together name one call,
so that the step `Response` maps to the step of `RpcPromise` for that very call.

`Login_proofs` proves, for any sets of users, tokens and secrets, the one
assumption being that `NoSecret` is not a secret:

| theorem | statement |
|---|---|
| `TypeCorrect` | `Spec => []TypeOK` |
| `Invariance` | `Spec => []Inv` |
| `StoreConsistent` | `Spec => []StoreInv` |
| `ExchangeOnce` | `Spec => []ExchangedOnce` |
| `TokenPromiseKept` | `Spec => KeepsTokenPromise` |

The argument. `StoreInv` is about the tokens in the store and
`ExchangedOnce` about tokens that have left it; neither is inductive without
`HistoryInv`: a UUID that was not generated has neither wrong secrets nor a
parent (so the entry that gets it starts with a full count), and every parent
was generated (so a fresh UUID never takes its place, and it stays gone). Three
lemmas say how the store may change (`StoreShrinks`, `StoreGrows`,
`StoreCounts`), three how history may (`HistoryKept`, `HistoryGenerated`,
`HistoryExchanged`), and each action is an instance of one of each. The third
wrong secret maps to the step of `TokenPromise` that kills the token *because*
`retries + wrong = 2`; a SecondLogin with a full token, which deletes it, maps
to Revoke, and so do Logout and Restart.

`Images_proofs` proves, of the focus measure, `AlwaysDescending` (`MaximaDescend`), `LargestIsKept`
(`LargestIsFirst`), `NoPixelTwice` (`EachFromItsOwnPixel`) and `FocusIsSharp`
(`InFocusIsSharp`), for any number of places, any sequence of pixels and any
values of which `Lowest` is a lower bound. That the values
descend is inductive by itself, because a value goes to the *first* place that
holds a smaller one: all places before it hold no smaller one, all after it hold
no larger one than was there. That the largest is first needs the order, and
the pixels of the values need that a pixel is visited once (`PreflightInv`).
`InFocusIsSharp` compares the sum of the values kept with the sums that other
choices of as many different pixels have. In focus, the pixels that the values
come from are such a choice (`KeptAreChosen`, which needs
`EachFromItsOwnPixel`). Not in focus, and the pixels in descending order, the
first are kept (`FirstAreKept`, the strengthening that is inductive), and no
choice has a larger sum than they have: of `n + 1` chosen places one is `n + 1`
or behind it, by the pigeonhole principle (`OneIsBehind`); it is put last, in
exchange for the one that is, and the others are a choice of `n`
(`Rearrangement`). `Sum` is a recursive function, which exists by induction
(`SumsExist`) and changes with one summand by the difference (`SumsUpdate`).

Of the codec it proves, for a byte of any number of values, any bodies and
any images to send, with the assumptions of `ImageMessage` on their lengths:

| theorem | statement |
|---|---|
| `MessageInvariant` | `MessageSpec => []MessageInv` |
| `MessageTypeCorrect` | `MessageSpec => []MessageTypeOK` |
| `WrittenMessagesAreRead` | `MessageSpec => []WrittenIsRead` |
| `AcceptedIsSaid` | `MessageSpec => []AcceptedIsWhatWasSent` |

The argument. Neither property says where in the body the constructor is.
`BodyInv` does, for any body: the sizes of the images read so far are the bytes
from 9 to `8 + 4 * i` (`ReadSoFar`), and if the contents begin where an `int` can
say, those read so far are the bytes from there on *for as far as the body goes*,
and `dataStart` is where the next begin, unless the end of the body is passed
(`ContentsSoFar`). That weakening is what makes it inductive without a comparison
of sizes and length: a range that begins inside copies the body's bytes
(`CopyInside`), whatever it copies behind it, and once the end is passed nothing
is claimed of any more bytes, nor of a `dataStart` that wraps round
(`OneMoreContents`). When reading ends with `count >= 0`, header, sizes and
contents are adjacent, and agree with the body (`AsTheBodySays`).
`WrittenInv` is about a body that this code wrote: what was read are its first
`i` images. A turn of the loop keeps it, because size and image `k` of a written
message are where the constructor looks for them (`WrittenSize`,
`WrittenImage`), a size that fits a word is read as it was written
(`ReadIsWritten`), and nothing wraps round in a body that an `int` can measure.
Below that are lemmas about quotients and remainders, from which the four bytes
and the word determine each other (`WordOfBytes`, `BytesOfWord`), and about
`FlattenSeq`, a recursive function. `Induction` and `SequenceInduction` are
induction over a *set* instead of a predicate, by its least counterexample
(`WFMin`); they yield that the function `FlattenSeq` chooses exists
(`FlattenExists`), and what it does to one more element (`FlattenAppend`).

`JzonParser_proofs` proves, for any roots, any texts, written or not, and any
number of calls of Parse by any number of parsers of the same root:

| theorem | statement |
|---|---|
| `ParserInvariant` | `ParserSpec => []ParserInv` |
| `ParserTypes` | `ParserSpec => []ParserTypeOK` |
| `QueuesAtPace` | `ParserSpec => []QueuesKeepPace` |
| `RootGrows` | `ParserSpec => RootOnlyGrows` |
| `FormatMakesNoDifference` | `ParserSpec => []FormatDoesNotMatter` |

The argument. A Parse begins with all that `tokenize` makes of the text, so the
queues keep pace only if it pushes a datum for each value's token, whatever the
text: `TokenizeKeeps`. It is an induction over the characters, in which the two
queues are apart for a moment only, when `readString` has pushed its text and the
text before it is yet to be saved (`Ahead` says by how many). Counting the tokens
of values is compatible with putting queues together and taking one from the
front (`CountConcat`, `CountTail`), from which each case of `assemble` keeps the
pace, or fails (`Pace`, `PaceTail`, `TakenKeepsPace`). `QueuesKeepPace` is
inductive with the types of the queues. `RootOnlyGrows` needs the stack: that
what is open is an object or an array, but for a value at the bottom, where the
root is of the same type (`StackOK`). A node to which a child is added has the
same children before it, and its first child of a name is the same
(`WithGrows`, `GetIsTheSame`). `tokenize` and `RemoveWhitespace` are recursive
functions, whose existence is proved first (`ScansExist`, `RemovalsExist`).

`FormatMakesNoDifference` is about documents nested to any depth, with any
number of children, and names and strings of any characters. What
`RemoveWhitespace` makes of a character depends on the one before it and on what
it has seen, so nothing can be said of a piece of text alone. `Reduces(w, v)`
says what can: wherever `w` stands in a text, between strings and outside of
comments, the loop leaves `v` of it and is between strings again behind it.
Pieces can be put together (`ReducesConcat`, `FlattenReduces`): nothing is left
of blanks (`BlanksReduce`), and numbers, words and brackets are left as they are
(`PlainReduces`). A quoted text is left as it is, blanks, slashes and stars
included, if each quote in it has a backslash before it and its last character
is no backslash (`ReducesQuoted`). Names are clean for that reason; of strings
it is `EscapeString` that provides for it (`EscapedIs`). Then each piece that
the Writer adds around the children reduces to the piece it adds without format
(`FormatReduces`, `StartReduces`, `MemberReduces`, `BetweenReduces`), and so does
a document, by induction over its depth (`DocumentReduces`). Of a closed
comment without quotes nothing is left (`CommentReduces`). A last invariant
(`JsonKept`) says that `json` is what is left of the text of `source`.

`Server_proofs` proves `OwnCustomerOnly`, `AnswersAreTrue` and
`DeadTokensRejected` for any sets of calls, tokens, customers and kinds. None
of the three properties is inductive. `CustomersInv` adds that a call has
written nothing before it is answered (`WroteInv`), that one whose ask timed out
is answered and so takes no further step (`TimedOutInv`), that a document names a
writer only if that call wrote it (`WriterInv`), and that a call in `late` has a
dead token for good, since `TokenPromise` revives none, and so waits for the
check or has been rejected, but is never let through (`LateInv`).

It also proves `RootUserIsOne`, for any set of fixtures. The
invariant says that a fixture that has put a key into the index, in a
transaction that is not over, holds the lock of the key, that there is no entry
then, and that the two keys go together: an entry of one is an entry of the
other, since no fixture puts the name without having put, or found, the id.

It proves `ReportIsAsWritten` (`RunIsAsWritten`), for expressions nested to any
depth, of lists of any length, any names, and any rows. Two functions of the
depth are compared: what `eval` and `toMap` make of an expression, and what is
met in it from left to right (`Before`, `After`). `LevelsAre` is the induction
over the depth: a value is the fault that comes first in `Before`, or there is
none; a map has for each name the meaning of what comes first in `After`, and
no other names (`EvalOK`, `MapOK`). For a list this is `CollectedIs` and
`JoinedIs`: the least place of a fault is the one whose left is the result; the
values are in reverse, so that the greatest place of a name among the maps, which
is the one that counts, is the least among the expressions; what is first in
one of several sequences is first in all of them, if those before it have
nothing (`FlattenFirst`). That every list is reversed, once at each depth, is
why the result does not depend on the depth. A run then keeps what it was asked
for, what it has evaluated, and as many rows as the cursor has passed
(`ReportsInv`). In the proof an empty data source stops a run as a fault does;
what stops it first is then its first fault, or an empty data source that stands
before all of its faults (`FirstFault`). The one assumption besides the types of
the runs is that what compiles is an input.

`NativeTypes` and `ServerTypes` are about the specifications of `MCNative` and
`MCServer`, in which components share nothing: a step of one is a stutter of the
others, so that each invariant holds beside the others, and `TypeOK` of both
modules with them, for any values of the constants.

The inductive invariants `Inv` of the session, of the composition, of the
recogniser and of login, `PreflightInv`, `MessageInv`, `ParserInv`,
`CustomersInv`, `UserGraphInv` and `ReportsInv` are theorems of their own (`Invariance`,
`PreflightInvariant`, ...); the runs check the properties that follow from them.

Model-checked only: liveness, which needs `ENABLED` and is out of the prover's
reach; `RoundTrip` of Jzon. `FormatMakesNoDifference` is its first half; the
second is not proved: that `tokenize` takes the text apart as the Writer put it
together, that `assemble`, one token at a time, makes the document of the tokens
again, and that it makes something else of every document that is not clean.

## 5. Plan

Done: the recognition path end to end, login, customers, the root user, reports,
and the recogniser's own algorithms, with the proofs of section 4. What would
come next is `RoundTrip`. `FormatMakesNoDifference` reduces it to documents
without format; what is left is that these are tokenized as the document says,
by an induction over the depth like that of `DocumentReduces`, and that
`assemble` makes of the tokens the document again.

## 6. Not modelled, and why

* **Request tracking** (`api/tracking.scala`): two futures insert the start and
  the end of a request, in any order, into a collection that nothing in the
  repository reads. There is no promise that an order could break.
* **Configuration store** (`domain/configuration.scala`): a map whose writer and
  reader synchronise on the same object; all there is to say is the assignment.
* **Web client**: `scan.js:47` calls `base64_to_image()` where it means to hand
  it to `setTimeout`, so that the polling loop calls itself before it polls;
  the rest is Rails boilerplate and third-party scripts.
* **Boot and wiring, marshalling and formats, HTTP client IO**: construction in
  one thread, conversions that libraries do, pure I/O.
* **Test kit, demos, scraps** and **vendored code**: not part of the running
  system. Google Test is some nine tenths of the C++ lines of the repository.
* Of partly modelled components: what has no caller (`updateOne`, `findAll`,
  `register`, `DeliverActivationCode`), Jzon's iterators, removals and number
  conversions, report formats, and whatever JasperReports, OpenCV, RabbitMQ,
  MongoDB, Neo4j, Akka and spray do inside.

Abstracted within modelled parts: contents of images, JSON outside of Jzon, log
output, UUIDs as strings, and the dates in tokens, which no code reads.
