------------------------------ MODULE Gateway ------------------------------
(***************************************************************************)
(* POST /pay (payment-gateway/app/main.py): the idempotency key is claimed *)
(* in Redis under producer:<key>, the payment is produced to Kafka, and    *)
(* its fate is noted under the same Redis key and answered to the client.  *)
(*                                                                         *)
(* The handler is a coroutine that never awaits, so a process handles one  *)
(* request from its first to its last statement; what comes in between is  *)
(* the broker, Redis, and other gateway processes if there are any.        *)
(*                                                                         *)
(* A request stands for one HTTP call and for the gateway_transaction_id   *)
(* (a uuid4) drawn for it.  A client that repeats a payment sends another  *)
(* request with the same key.  Time to live is left out: a key may expire  *)
(* at any moment, as it does when Redis restarts empty.                    *)
(*                                                                         *)
(* A process pings Redis before it serves, three times at most, and serves *)
(* whatever came of it (services/redis_service.py).                        *)
(***************************************************************************)
EXTENDS Integers, Sequences, FiniteSets, Functions

CONSTANTS
    Requests,       \* the calls of POST /pay
    KeyOf,          \* request -> "<source account>:<Idempotency-Key header>"
    Processes,      \* the gateway processes
    CanFail,        \* may Redis, Kafka, a connection or a process fail?
    CanExpire,      \* may a producer:<key> expire?
    MaxCopies,      \* bound: how often one message is appended to the topic
    None

Keys == {KeyOf[r] : r \in Requests}

Statuses == {"accepted", "queued", "failed"}

\* The PaymentResponses, and the answers a client may get them in.
Responses == [status : Statuses, txn : Requests]
Answers == [code : {200, 202, 500}, body : Responses \cup {None}]

ASSUME GatewayAssumption ==
    /\ DOMAIN KeyOf = Requests
    /\ CanFail \in BOOLEAN
    /\ CanExpire \in BOOLEAN
    /\ MaxCopies \in Nat \ {0}
    /\ None \notin Requests \cup Responses \cup Answers

VARIABLES
    received,       \* requests a process has begun to handle
    producer,       \* key -> the PaymentResponse in Redis, or None
    inFlight,       \* produced messages that may still reach the broker
    topic,          \* the messages the broker has appended
    step,           \* what each process does next
    request,        \* the request it handles
    expired,        \* keys that have expired at least once
    answer          \* what the client of each request was told, or None

vars == <<received, producer, inFlight, topic, step, request, expired, answer>>

\* The body of an answer, and its HTTP status code.
Response(status, txn) == [status |-> status, txn |-> txn]
Answer(code, body) == [code |-> code, body |-> body]

\* raise HTTPException(500)
ServerError == Answer(500, None)

OnTopic == Range(topic)

Copies(r) == Cardinality({i \in DOMAIN topic : topic[i] = r})

Key(p) == KeyOf[request[p]]

\* What follows a PING that failed: the next attempt, and in the end none.
AfterPing == [ping1 |-> "ping2", ping2 |-> "ping3", ping3 |-> "idle"]

StartingUp(p) == step[p] \in DOMAIN AfterPing

TypeOK ==
    /\ received \subseteq Requests
    /\ producer \in [Keys -> Responses \cup {None}]
    /\ inFlight \subseteq received
    /\ topic \in Seq(Requests)
    /\ step \in [Processes -> DOMAIN AfterPing \cup
                   {"idle", "claim", "get", "produce", "flush", "queued", "failed"}]
    /\ request \in [Processes -> received \cup {None}]
    /\ \A p \in Processes : request[p] = None <=> step[p] = "idle" \/ StartingUp(p)
    /\ expired \subseteq Keys
    /\ answer \in [Requests -> Answers \cup {None}]
    /\ \A r \in Requests : answer[r] \notin {None, ServerError} => answer[r].body \in Responses

-----------------------------------------------------------------------------
GoTo(p, next) == step' = [step EXCEPT ![p] = next] /\ UNCHANGED request

Set(p, status) ==
    producer' = [producer EXCEPT ![Key(p)] = Response(status, request[p])]

\* The handler ends.  The client is told, unless the connection is lost or it
\* has given up (the repository's clients wait ten seconds).
Respond(p, told) ==
    /\ \/ answer' = [answer EXCEPT ![request[p]] = told]
       \/ CanFail /\ UNCHANGED answer
    /\ step' = [step EXCEPT ![p] = "idle"]
    /\ request' = [request EXCEPT ![p] = None]

\* PING is answered, or it fails and is repeated after a pause.  The result of
\* the last one is ignored: the process serves without Redis as well.
PingRedis(p) ==
    /\ StartingUp(p)
    /\ \/ GoTo(p, "idle")
       \/ CanFail /\ GoTo(p, AfterPing[step[p]])
    /\ UNCHANGED <<received, producer, inFlight, topic, expired, answer>>

Receive(p, r) ==
    /\ step[p] = "idle"
    /\ r \notin received
    /\ received' = received \cup {r}
    /\ step' = [step EXCEPT ![p] = "claim"]
    /\ request' = [request EXCEPT ![p] = r]
    /\ UNCHANGED <<producer, inFlight, topic, expired, answer>>

\* Variant: SET without NX.
ClaimAnyway(p) ==
    /\ step[p] = "claim"
    /\ Set(p, "accepted")
    /\ GoTo(p, "produce")
    /\ UNCHANGED <<received, inFlight, topic, expired, answer>>

\* SET producer:<key> NX succeeds,
Claim(p) ==
    /\ step[p] = "claim"
    /\ producer[Key(p)] = None
    /\ Set(p, "accepted")
    /\ GoTo(p, "produce")
    /\ UNCHANGED <<received, inFlight, topic, expired, answer>>

\* or finds the key there.
FindClaimed(p) ==
    /\ step[p] = "claim"
    /\ producer[Key(p)] # None
    /\ GoTo(p, "get")
    /\ UNCHANGED <<received, producer, inFlight, topic, expired, answer>>

\* Where the client library of Redis repeats a call whose reply was lost (its
\* version is not pinned), the repeated SET NX finds the key it has set itself.
ClaimUnheard(p) ==
    /\ CanFail
    /\ step[p] = "claim"
    /\ producer[Key(p)] = None
    /\ Set(p, "accepted")
    /\ GoTo(p, "get")
    /\ UNCHANGED <<received, inFlight, topic, expired, answer>>

\* Variant: a duplicate is answered with the response built for itself.
AnswerDuplicateAfresh(p) ==
    /\ step[p] = "get"
    /\ producer[Key(p)] # None
    /\ Respond(p, Answer(200, Response("accepted", request[p])))
    /\ UNCHANGED <<received, producer, inFlight, topic, expired>>

\* A duplicate is answered with the response stored under the key, whatever it
\* says; 200 is the default status code.
AnswerDuplicate(p) ==
    /\ step[p] = "get"
    /\ producer[Key(p)] # None
    /\ Respond(p, Answer(200, producer[Key(p)]))
    /\ UNCHANGED <<received, producer, inFlight, topic, expired>>

\* Variant: the handler waits for the key to come back.
LoseDuplicateWaiting(p) ==
    /\ step[p] = "get"
    /\ producer[Key(p)] = None
    /\ UNCHANGED vars

\* The key expired since SET NX: None is no JSON, and the handler raises.
LoseDuplicate(p) ==
    /\ step[p] = "get"
    /\ producer[Key(p)] = None
    /\ Respond(p, ServerError)
    /\ UNCHANGED <<received, producer, inFlight, topic, expired>>

Produce(p) ==
    /\ step[p] = "produce"
    /\ inFlight' = inFlight \cup {request[p]}
    /\ GoTo(p, "flush")
    /\ UNCHANGED <<received, producer, topic, expired, answer>>

\* Variant: the delivery report is not waited for.
DeliveredAtOnce(p) ==
    /\ step[p] = "flush"
    /\ GoTo(p, "queued")
    /\ UNCHANGED <<received, producer, inFlight, topic, expired, answer>>

\* flush() returns once the delivery report is in: the broker has the message,
Delivered(p) ==
    /\ step[p] = "flush"
    /\ request[p] \in OnTopic
    /\ GoTo(p, "queued")
    /\ UNCHANGED <<received, producer, inFlight, topic, expired, answer>>

\* or the producer stopped trying, without knowing whether the broker has it.
Undelivered(p) ==
    /\ CanFail
    /\ step[p] = "flush"
    /\ GoTo(p, "failed")
    /\ UNCHANGED <<received, producer, inFlight, topic, expired, answer>>

\* Variant: the status of the message is stored, not that of the response.
ReportProcessing(p) ==
    /\ step[p] = "queued"
    /\ Set(p, "processing")
    /\ Respond(p, Answer(202, Response("queued", request[p])))
    /\ UNCHANGED <<received, inFlight, topic, expired>>

\* Variant: SET NX, as at the start, which finds the claim and changes nothing.
ReportQueuedAsNew(p) ==
    /\ step[p] = "queued"
    /\ IF producer[Key(p)] = None THEN Set(p, "queued") ELSE UNCHANGED producer
    /\ Respond(p, Answer(202, Response("queued", request[p])))
    /\ UNCHANGED <<received, inFlight, topic, expired>>

ReportQueued(p) ==
    /\ step[p] = "queued"
    /\ Set(p, "queued")
    /\ Respond(p, Answer(202, Response("queued", request[p])))
    /\ UNCHANGED <<received, inFlight, topic, expired>>

\* Variant: the key is freed, so that the client can try again.
ReportFailedAndFree(p) ==
    /\ step[p] = "failed"
    /\ producer' = [producer EXCEPT ![Key(p)] = None]
    /\ Respond(p, Answer(500, Response("failed", request[p])))
    /\ UNCHANGED <<received, inFlight, topic, expired>>

ReportFailed(p) ==
    /\ step[p] = "failed"
    /\ Set(p, "failed")
    /\ Respond(p, Answer(500, Response("failed", request[p])))
    /\ UNCHANGED <<received, inFlight, topic, expired>>

\* Redis or produce() raises: 500, and the key stays as it is, or as the call
\* left it that was carried out although its reply was lost.
Raise(p) ==
    /\ CanFail
    /\ \/ step[p] \in {"claim", "get", "produce", "queued", "failed"} /\ UNCHANGED producer
       \/ step[p] = "claim" /\ producer[Key(p)] = None /\ Set(p, "accepted")
       \/ step[p] \in {"queued", "failed"} /\ Set(p, step[p])
    /\ Respond(p, ServerError)
    /\ UNCHANGED <<received, inFlight, topic, expired>>

\* The process dies with a request and is started again; nobody answers its
\* client.
Crash(p) ==
    /\ CanFail
    /\ request[p] # None
    /\ step' = [step EXCEPT ![p] = "ping1"]
    /\ request' = [request EXCEPT ![p] = None]
    /\ UNCHANGED <<received, producer, inFlight, topic, expired, answer>>

-----------------------------------------------------------------------------
(* Kafka and Redis.                                                        *)

\* The broker appends a message.  The producer is not idempotent: when the
\* acknowledgement is lost it sends the message again.
BrokerAppend(r) ==
    /\ r \in inFlight
    /\ topic' = Append(topic, r)
    /\ \/ inFlight' = inFlight \ {r}
       \/ CanFail /\ Copies(r) + 1 < MaxCopies /\ UNCHANGED inFlight
    /\ UNCHANGED <<received, producer, step, request, expired, answer>>

\* A message never gets there: the producer gives up on it or dies with it.
Lose(r) ==
    /\ CanFail
    /\ r \in inFlight
    /\ inFlight' = inFlight \ {r}
    /\ UNCHANGED <<received, producer, topic, step, request, expired, answer>>

Expire(k) ==
    /\ CanExpire
    /\ producer[k] # None
    /\ producer' = [producer EXCEPT ![k] = None]
    /\ expired' = expired \cup {k}
    /\ UNCHANGED <<received, inFlight, topic, step, request, answer>>

-----------------------------------------------------------------------------
Init ==
    /\ received = {}
    /\ producer = [k \in Keys |-> None]
    /\ inFlight = {}
    /\ topic = <<>>
    /\ step = [p \in Processes |-> "ping1"]
    /\ request = [p \in Processes |-> None]
    /\ expired = {}
    /\ answer = [r \in Requests |-> None]

\* What a process does on its way to the answer, and before the first request.
Handle(p) ==
    \/ PingRedis(p) \/ Claim(p) \/ FindClaimed(p) \/ ClaimUnheard(p)
    \/ AnswerDuplicate(p) \/ LoseDuplicate(p)
    \/ Produce(p) \/ Delivered(p) \/ Undelivered(p)
    \/ ReportQueued(p) \/ ReportFailed(p)

Next ==
    \/ \E p \in Processes : Handle(p) \/ Raise(p) \/ Crash(p) \/ \E r \in Requests : Receive(p, r)
    \/ \E r \in Requests : BrokerAppend(r) \/ Lose(r)
    \/ \E k \in Keys : Expire(k)

Spec == Init /\ [][Next]_vars

\* A handler goes on to its end: flush() returns at the latest when the message
\* times out in the producer.  The broker takes what reaches it.
FairSpec ==
    /\ Spec
    /\ \A p \in Processes : WF_vars(Handle(p))
    /\ \A r \in Requests : WF_vars(BrokerAppend(r))

-----------------------------------------------------------------------------
(* Properties.                                                             *)

\* A client that reads "queued", in a first answer or in that of a duplicate,
\* has its payment on the topic, under the transaction id it was told.
QueuedIsForwarded ==
    /\ \A k \in Keys : producer[k] # None /\ producer[k].status = "queued"
          => producer[k].txn \in OnTopic
    /\ \A r \in Requests : answer[r] \notin {None, ServerError} /\ answer[r].body.status = "queued"
          => answer[r].body.txn \in OnTopic

\* However often a payment is repeated, and whatever fails, the messages under
\* one key are copies of one until the key expires: the worker never sees two
\* transaction ids.
OneTransactionPerKey ==
    \A r, s \in OnTopic \cup inFlight :
        KeyOf[r] = KeyOf[s] /\ KeyOf[r] \notin expired => r = s

\* All answers under one key name the same transaction.
AnswersAgree ==
    \A r, s \in Requests :
        /\ KeyOf[r] = KeyOf[s] /\ KeyOf[r] \notin expired
        /\ {answer[r], answer[s]} \cap {None, ServerError} = {}
        => answer[r].body.txn = answer[s].body.txn

\* What one client was told of the payment, "queued" or "failed", every other one
\* is told until the key expires.  So a claim that an exception or a crash leaves
\* "accepted" is of a payment that nobody has an outcome for.
DecisionsStand ==
    \A r \in Requests :
        /\ answer[r] \notin {None, ServerError}
        /\ answer[r].body.status \in {"queued", "failed"}
        /\ KeyOf[r] \notin expired
        => producer[KeyOf[r]] = answer[r].body

\* The status under a key only moves forward, from "accepted" to "queued" or
\* "failed", and stays there until the key expires.
StatusForward ==
    [][\A k \in Keys \ expired' :
          producer[k] # None /\ producer'[k] # producer[k] =>
              /\ producer[k].status = "accepted"
              /\ producer'[k] \in {Response("queued", producer[k].txn),
                                  Response("failed", producer[k].txn)}]_vars

\* Every handler comes to its end, and so does the start-up of a process, with or
\* without Redis: the process is free for the next request.
RequestsEnd == \A p \in Processes : step[p] # "idle" ~> step[p] = "idle"

-----------------------------------------------------------------------------
(* Why they hold: an inductive invariant.                                  *)

\* A request is handled by one process, and answered at the end.
ExclusiveInv ==
    \A p, q \in Processes : p # q /\ request[p] # None => request[p] # request[q]

UnansweredInv ==
    \A r \in Requests : answer[r] # None => r \in received \ Range(request)

\* What is stored under a key is of a request with that key.
OwnKeyInv ==
    \A k \in Keys : producer[k] # None =>
        producer[k].txn \in received /\ KeyOf[producer[k].txn] = k

\* Until its key expires, the claim of a handler past SET NX stands, and
\* nobody else has changed its status.
Claimed == {"produce", "flush", "queued", "failed"}

HolderInv ==
    \A p \in Processes : step[p] \in Claimed /\ Key(p) \notin expired =>
        producer[Key(p)] = Response("accepted", request[p])

\* The handler that goes on to answer "queued" has its message on the topic.
DeliveredInv == \A p \in Processes : step[p] = "queued" => request[p] \in OnTopic

\* Until its key expires, what is under way to the topic and what a client was
\* told is of the transaction the key was claimed for.
Claims(k, r) == producer[k] # None /\ producer[k].txn = r

SentInv == \A r \in OnTopic \cup inFlight : KeyOf[r] \notin expired => Claims(KeyOf[r], r)

ToldInv ==
    \A r \in Requests : KeyOf[r] \notin expired /\ answer[r] \notin {None, ServerError} =>
        Claims(KeyOf[r], answer[r].body.txn)

GatewayIInv ==
    /\ TypeOK
    /\ ExclusiveInv
    /\ UnansweredInv
    /\ OwnKeyInv
    /\ HolderInv
    /\ DeliveredInv
    /\ SentInv
    /\ ToldInv
    /\ QueuedIsForwarded
=============================================================================
