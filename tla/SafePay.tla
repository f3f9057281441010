------------------------------- MODULE SafePay -------------------------------
(***************************************************************************)
(* The gateway and the worker as one system: what the broker appends for   *)
(* Gateway is the log Worker consumes, and GET /status (payment-gateway    *)
(* app/main.py) reads the Redis keys of both, the worker's first.          *)
(*                                                                         *)
(* A process of the gateway serves one request at a time, status queries   *)
(* included.  The handler of GET /status makes two calls to Redis, and the *)
(* worker may go on in between.                                            *)
(***************************************************************************)
EXTENDS Integers, Sequences, FiniteSets

CONSTANTS
    Requests, KeyOf, Processes, CanExpire, MaxCopies,   \* as in Gateway
    Workers, Poison, CanHint, MaxInterruptions,         \* as in Worker
    GatewayFails,   \* may a call of the gateway, or a process of it, fail?
    WorkerFails,    \* may a call of the worker fail?
    None

VARIABLES
    received, producer, inFlight, topic, handling, request, expired, answer,
    committed, owner, position, working, outcome, consumer, settled, failures,
    hintSkips, interruptions,
    asked,          \* the key a process still has to look up under producer:
    seen,           \* key -> the last answer to GET /status, or None
    lapsed,         \* keys whose consumer:<key> has expired at least once
    booked          \* key -> the request whose transaction id is in the ledger

gateway == <<received, producer, inFlight, topic, handling, request, expired, answer>>
worker == <<committed, owner, position, working, outcome, consumer, settled,
            failures, hintSkips, interruptions>>
queries == <<asked, seen>>
vars == <<gateway, worker, queries, lapsed, booked>>

Keys == {KeyOf[r] : r \in Requests}

\* The partition as the worker reads it: of a message, only its key matters.
Log == [i \in DOMAIN topic |-> KeyOf[topic[i]]]

G == INSTANCE Gateway WITH step <- handling, CanFail <- GatewayFails
W == INSTANCE Worker WITH log <- Log, step <- working, CanFail <- WorkerFails,
                          MaxLog <- Cardinality(Requests) * MaxCopies

\* What GET /status may answer; "unknown" is a 404.
Told == {"unknown", "accepted", "queued", "failed",
         "processing", "processed", "approved", "rejected"}

ASSUME SafePayAssumption ==
    /\ IsFiniteSet(Requests)
    /\ DOMAIN KeyOf = Requests
    /\ Poison \subseteq Keys
    /\ {CanExpire, CanHint, GatewayFails, WorkerFails} \subseteq BOOLEAN
    /\ MaxCopies \in Nat \ {0}
    /\ MaxInterruptions \in Nat
    /\ None \notin Requests \cup Keys \cup Workers
    /\ None \notin Told \cup {"duplicate"} \cup G!Responses \cup G!Answers

TypeOK ==
    /\ G!TypeOK
    /\ W!TypeOK
    /\ asked \in [Processes -> Keys \cup {None}]
    /\ \A p \in Processes : asked[p] # None => handling[p] = "idle"
    /\ seen \in [Keys -> Told \cup {None}]
    /\ lapsed \subseteq Keys
    /\ booked \in [Keys -> Requests \cup {None}]

-----------------------------------------------------------------------------
(* The gateway, the broker and the worker.                                 *)

Free(p) == asked[p] = None

Pay(p) ==
    /\ Free(p)
    /\ \/ G!Handle(p) \/ G!Raise(p) \/ G!Crash(p)
       \/ \E r \in Requests : G!Receive(p, r)
    /\ UNCHANGED <<worker, queries, lapsed, booked>>

\* The broker appends a message, for the worker to poll,
Forward(r) ==
    /\ G!BrokerAppend(r)
    /\ W!Produce(KeyOf[r])
    /\ UNCHANGED <<worker, queries, lapsed, booked>>

\* or never gets it, or a producer:<key> expires.
Vanish ==
    /\ (\E r \in Requests : G!Lose(r)) \/ (\E k \in Keys : G!Expire(k))
    /\ UNCHANGED <<worker, queries, lapsed, booked>>

\* The worker's steps; a settlement writes the transaction id of the message.
Work(w) ==
    /\ UNCHANGED <<gateway, queries, lapsed>>
    /\ W!Work(w)
    /\ booked' = [k \in Keys |->
                    IF settled'[k] # settled[k] THEN topic[position[w]] ELSE booked[k]]

Interrupt(w) ==
    /\ UNCHANGED <<gateway, queries, lapsed, booked>>
    /\ W!Crash(w) \/ W!Revoke(w)

Restart(w) ==
    /\ UNCHANGED <<gateway, queries, lapsed, booked>>
    /\ W!Restart(w)

Assign ==
    /\ UNCHANGED <<gateway, queries, lapsed, booked>>
    /\ \E w \in Workers : W!Assign(w)

Lapse(k) ==
    /\ CanExpire
    /\ UNCHANGED <<gateway, queries, booked>>
    /\ W!Expire(k)
    /\ lapsed' = lapsed \cup {k}

-----------------------------------------------------------------------------
(* GET /status.                                                            *)

Tell(k, status) == seen' = [seen EXCEPT ![k] = status]

\* The worker's status is found,
AskWorker(p, k) ==
    /\ Free(p) /\ handling[p] = "idle"
    /\ consumer[k] # None
    /\ Tell(k, consumer[k])
    /\ UNCHANGED <<gateway, worker, asked, lapsed, booked>>

\* Variant: the gateway's key is read first.
MissWorkerAlways(p, k) ==
    /\ Free(p) /\ handling[p] = "idle"
    /\ asked' = [asked EXCEPT ![p] = k]
    /\ UNCHANGED <<gateway, worker, seen, lapsed, booked>>

\* or there is none yet, or no longer,
MissWorker(p, k) ==
    /\ Free(p) /\ handling[p] = "idle"
    /\ consumer[k] = None
    /\ asked' = [asked EXCEPT ![p] = k]
    /\ UNCHANGED <<gateway, worker, seen, lapsed, booked>>

\* and the answer is the gateway's own status, or 404, unless the client never
\* gets it.
AskGateway(p) ==
    /\ ~Free(p)
    /\ \/ Tell(asked[p], IF producer[asked[p]] = None THEN "unknown"
                         ELSE producer[asked[p]].status)
       \/ GatewayFails /\ UNCHANGED seen
    /\ asked' = [asked EXCEPT ![p] = None]
    /\ UNCHANGED <<gateway, worker, lapsed, booked>>

-----------------------------------------------------------------------------
Init ==
    /\ G!Init
    /\ W!Init
    /\ asked = [p \in Processes |-> None]
    /\ seen = [k \in Keys |-> None]
    /\ lapsed = {}
    /\ booked = [k \in Keys |-> None]

Next ==
    \/ \E p \in Processes : Pay(p) \/ AskGateway(p)
                            \/ \E k \in Keys : AskWorker(p, k) \/ MissWorker(p, k)
    \/ (\E r \in Requests : Forward(r)) \/ Vanish
    \/ (\E w \in Workers : Work(w) \/ Interrupt(w) \/ Restart(w)) \/ Assign
    \/ \E k \in Keys : Lapse(k)

Spec == Init /\ [][Next]_vars

\* As in Gateway and Worker: a running worker keeps running and a dead one is
\* restarted, the partition does not stay unassigned, and the broker takes
\* what reaches it.
FairSpec ==
    /\ Spec
    /\ \A r \in Requests : WF_vars(Forward(r))
    /\ \A w \in Workers : WF_vars(Work(w)) /\ WF_vars(Restart(w))
    /\ WF_vars(Assign)

-----------------------------------------------------------------------------
(* Properties.                                                             *)

\* The clients are never told what is not so: the system implements Payments.
Promised == {KeyOf[r] : r \in {q \in Requests :
                answer[q] \notin {None, G!ServerError} /\ answer[q].body.status = "queued"}}
P == INSTANCE Payments WITH
        sent <- {KeyOf[r] : r \in received},
        forwarded <- {KeyOf[r] : r \in G!OnTopic},
        promised <- Promised,
        booked <- settled
Honest == P!Spec

\* A payment answered "queued" reaches a verdict, whatever becomes of the
\* gateway, through crashes, lost partitions and repeated messages, as long as
\* the worker's own calls succeed.  That a message which cannot be settled holds
\* up none behind it is EventuallySettled in Worker.
PromisesKept == P!PromisesKept

\* The transaction id a client was given is the one in the ledger, until the
\* gateway's key expires and a repeat is taken for a new payment.
SameTransaction ==
    \A r \in Requests :
        /\ answer[r] \notin {None, G!ServerError}
        /\ KeyOf[r] \notin expired
        /\ booked[KeyOf[r]] # None
        => answer[r].body.txn = booked[KeyOf[r]]

Final == {"processed", "approved", "rejected"}

\* A client that polls sees the gateway's statuses first and then the worker's,
\* in spite of the two keys and the two calls: an outcome is not taken back
\* until the worker's key expires.  It takes that the gateway is one process, and
\* that no second worker sets a preliminary status late.
OutcomeStays ==
    [][\A k \in Keys \ lapsed : seen[k] \in Final => seen'[k] \in Final]_vars

-----------------------------------------------------------------------------
(* Why they hold: what SafePay adds to the invariants of its two parts.    *)

\* The ledger has the transaction id of a message on the topic.
BookedInv ==
    \A k \in Keys :
        /\ booked[k] # None <=> settled[k] # None
        /\ booked[k] # None => booked[k] \in G!OnTopic /\ KeyOf[booked[k]] = k

\* The worker has a status only for what it has read on the topic.
ConsumerInv == \A k \in Keys : consumer[k] # None => \E r \in G!OnTopic : KeyOf[r] = k

\* The gateway is one process, and no worker can be overtaken by another between
\* its look at consumer:<key> and the preliminary status it sets there.
OneProcess == \A p, q \in Processes : p = q
NoLateHint == ~CanHint \/ \A v, w \in Workers : v = w

\* A client has read an outcome only where the worker still has one, no process
\* is about to answer it with the gateway's status, and a worker that may set the
\* preliminary status sets it over nothing.
OutcomeInv ==
    /\ \A k \in Keys \ lapsed : seen[k] \in Final => consumer[k] \in Final
    /\ \A p \in Processes :
          asked[p] # None /\ asked[p] \notin lapsed => seen[asked[p]] \notin Final
    /\ CanHint => \A w \in Workers : working[w] = "precheck" => consumer[W!Key(w)] = None

SafePayIInv ==
    /\ TypeOK
    /\ G!GatewayIInv
    /\ W!HandInv
    /\ W!NoSilentLoss
    /\ W!StatusIsTrue
    /\ BookedInv
    /\ ConsumerInv
=============================================================================
