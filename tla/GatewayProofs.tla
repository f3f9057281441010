---------------------------- MODULE GatewayProofs ----------------------------
(***************************************************************************)
(* What POST /pay guarantees, for any number of requests, keys and gateway *)
(* processes, through failures, crashes and expiring keys.                 *)
(***************************************************************************)
EXTENDS Gateway, TLAPS

\* The topic only grows.
LEMMA AppendToTopic ==
    ASSUME TypeOK, NEW r \in Requests, topic' = Append(topic, r)
    PROVE  OnTopic' = OnTopic \cup {r} /\ topic' \in Seq(Requests)
  <1>1. /\ topic' \in Seq(Requests) /\ Len(topic') = Len(topic) + 1 /\ Len(topic) \in Nat
        /\ DOMAIN topic = 1..Len(topic) /\ DOMAIN topic' = 1..Len(topic')
        /\ \A i \in 1..Len(topic) : topic'[i] = topic[i]
        /\ topic'[Len(topic')] = r
    BY DEF TypeOK
  <1>2. ASSUME NEW i \in DOMAIN topic'
        PROVE  topic'[i] \in OnTopic \cup {r}
    <2>1. i \in DOMAIN topic \/ i = Len(topic')
      BY <1>1
    <2> QED
      BY <1>1, <2>1 DEF OnTopic, Range
  <1>3. ASSUME NEW i \in DOMAIN topic
        PROVE  topic[i] \in OnTopic'
    <2>1. i \in DOMAIN topic' /\ topic'[i] = topic[i]
      BY <1>1
    <2> QED
      BY <2>1 DEF OnTopic, Range
  <1>4. r \in OnTopic'
    <2>1. Len(topic') \in DOMAIN topic'
      BY <1>1
    <2> QED
      BY <1>1, <2>1 DEF OnTopic, Range
  <1> QED
    BY <1>1, <1>2, <1>3, <1>4 DEF OnTopic, Range

LEMMA KeyTypes ==
    /\ \A r \in Requests : KeyOf[r] \in Keys /\ r # None
    /\ \A status \in Statuses, r \in Requests :
          Response(status, r) \in Responses /\ Response(status, r) # None
    /\ \A code \in {200, 202, 500}, body \in Responses :
          /\ Answer(code, body) \in Answers /\ Answer(code, body) \notin {None, ServerError}
          /\ Answer(code, body).body = body
    /\ ServerError \in Answers
  BY GatewayAssumption
  DEF Keys, Response, Responses, Answer, Answers, ServerError

\* A process that handles a request has one.
LEMMA RequestAtHand ==
    ASSUME TypeOK, NEW p \in Processes, step[p] # "idle", ~StartingUp(p)
    PROVE  request[p] \in Requests /\ request[p] \in received /\ Key(p) \in Keys
  BY GatewayAssumption DEF TypeOK, Key, Keys

LEMMA SetTypes ==
    ASSUME TypeOK, NEW p \in Processes, NEW status \in Statuses, request[p] \in Requests,
           Set(p, status)
    PROVE  producer' \in [Keys -> Responses \cup {None}]
  BY KeyTypes DEF TypeOK, Set

LEMMA RespondTypes ==
    ASSUME TypeOK, NEW p \in Processes, request[p] \in Requests,
           NEW told \in Answers, told = ServerError \/ told.body \in Responses,
           Respond(p, told)
    PROVE  /\ answer' \in [Requests -> Answers \cup {None}]
           /\ \A r \in Requests :
                 answer'[r] \notin {None, ServerError} => answer'[r].body \in Responses
           /\ step' = [step EXCEPT ![p] = "idle"]
           /\ request' = [request EXCEPT ![p] = None]
  BY DEF TypeOK, Respond

LEMMA TypeStep ==
    ASSUME TypeOK, [Next]_vars
    PROVE  TypeOK'
  <1> USE GatewayAssumption DEF GoTo, StartingUp, AfterPing
  <1>1. CASE UNCHANGED vars
    BY <1>1 DEF TypeOK, vars
  <1>2. ASSUME NEW p \in Processes, NEW r \in Requests, Receive(p, r)
        PROVE  TypeOK'
    BY <1>2 DEF TypeOK, Receive
  <1>3. ASSUME NEW p \in Processes, PingRedis(p)
        PROVE  TypeOK'
    BY <1>3 DEF TypeOK, PingRedis
  <1>4. ASSUME NEW p \in Processes, Claim(p) \/ ClaimUnheard(p)
        PROVE  TypeOK'
    <2>1. step[p] = "claim" /\ Set(p, "accepted")
      BY <1>4 DEF Claim, ClaimUnheard
    <2>2. producer' \in [Keys -> Responses \cup {None}]
      BY <2>1, RequestAtHand, SetTypes DEF Statuses
    <2>3. /\ step' = [step EXCEPT ![p] = "produce"] \/ step' = [step EXCEPT ![p] = "get"]
          /\ UNCHANGED <<request, received, inFlight, topic, expired, answer>>
      BY <1>4 DEF Claim, ClaimUnheard
    <2> QED
      BY <2>1, <2>2, <2>3 DEF TypeOK
  <1>5. ASSUME NEW p \in Processes, FindClaimed(p) \/ Delivered(p) \/ Undelivered(p)
        PROVE  TypeOK'
    BY <1>5 DEF TypeOK, FindClaimed, Delivered, Undelivered
  <1>6. ASSUME NEW p \in Processes, Produce(p)
        PROVE  TypeOK'
    BY <1>6, RequestAtHand DEF TypeOK, Produce
  <1>7. ASSUME NEW p \in Processes, AnswerDuplicate(p) \/ LoseDuplicate(p)
        PROVE  TypeOK'
    BY <1>7, RequestAtHand, KeyTypes DEF TypeOK, AnswerDuplicate, LoseDuplicate, Respond
  <1>8. ASSUME NEW p \in Processes, ReportQueued(p) \/ ReportFailed(p)
        PROVE  TypeOK'
    <2>1. request[p] \in Requests
      BY <1>8, RequestAtHand DEF ReportQueued, ReportFailed
    <2>2. \E status \in Statuses : Set(p, status)
      BY <1>8 DEF ReportQueued, ReportFailed, Statuses
    <2>3. \E told \in Answers : told.body \in Responses /\ Respond(p, told)
      BY <1>8, <2>1, KeyTypes DEF ReportQueued, ReportFailed, Statuses
    <2> QED
      BY <1>8, <2>1, <2>2, <2>3, SetTypes, RespondTypes DEF TypeOK, ReportQueued, ReportFailed
  <1>9. ASSUME NEW p \in Processes, Raise(p)
        PROVE  TypeOK'
    <2>1. request[p] \in Requests
      <3>1. step[p] \in {"claim", "get", "produce", "queued", "failed"}
        BY <1>9 DEF Raise
      <3> QED
        BY <3>1, RequestAtHand
    <2>2. UNCHANGED producer \/ \E status \in Statuses : Set(p, status)
      BY <1>9 DEF Raise, Statuses
    <2>3. Respond(p, ServerError)
      BY <1>9 DEF Raise
    <2>4. producer' \in [Keys -> Responses \cup {None}]
      BY <2>1, <2>2, SetTypes DEF TypeOK
    <2>5. /\ UNCHANGED <<received, inFlight, topic, expired>>
          /\ answer' \in [Requests -> Answers \cup {None}]
          /\ \A r \in Requests :
                answer'[r] \notin {None, ServerError} => answer'[r].body \in Responses
          /\ step' = [step EXCEPT ![p] = "idle"]
          /\ request' = [request EXCEPT ![p] = None]
      BY <1>9, <2>1, <2>3, KeyTypes, RespondTypes DEF Raise
    <2> QED
      BY <2>4, <2>5 DEF TypeOK
  <1>10. ASSUME NEW p \in Processes, Crash(p)
        PROVE  TypeOK'
    BY <1>10 DEF TypeOK, Crash
  <1>11. ASSUME NEW r \in Requests, BrokerAppend(r)
        PROVE  TypeOK'
    BY <1>11, AppendToTopic DEF TypeOK, BrokerAppend
  <1>12. ASSUME NEW r \in Requests, Lose(r)
        PROVE  TypeOK'
    BY <1>12 DEF TypeOK, Lose
  <1>13. ASSUME NEW k \in Keys, Expire(k)
        PROVE  TypeOK'
    BY <1>13 DEF TypeOK, Expire
  <1> QED
    BY <1>1, <1>2, <1>3, <1>4, <1>5, <1>6, <1>7, <1>8, <1>9, <1>10, <1>11, <1>12, <1>13
    DEF Next, Handle

-----------------------------------------------------------------------------
(* What a step changes.                                                    *)

\* The key in Redis expires, is claimed, or is written by a handler at its end.
LEMMA WriteStep ==
    ASSUME TypeOK, [Next]_vars, NEW k \in Keys, producer'[k] # producer[k]
    PROVE  \/ producer'[k] = None /\ k \in expired'
           \/ \E p \in Processes :
                 /\ k = Key(p) /\ request[p] \in Requests
                 /\ \/ /\ step[p] = "claim" /\ producer[k] = None
                       /\ producer'[k] = Response("accepted", request[p])
                    \/ /\ step[p] \in {"queued", "failed"} /\ step'[p] = "idle"
                       /\ producer'[k] = Response(step[p], request[p])
  <1> DEFINE Written(p) == /\ k = Key(p) /\ request[p] \in Requests
                           /\ \/ /\ step[p] = "claim" /\ producer[k] = None
                                 /\ producer'[k] = Response("accepted", request[p])
                              \/ /\ step[p] \in {"queued", "failed"} /\ step'[p] = "idle"
                                 /\ producer'[k] = Response(step[p], request[p])
  <1>1. ASSUME NEW p \in Processes, Claim(p) \/ ClaimUnheard(p)
        PROVE  Written(p)
    BY <1>1, RequestAtHand DEF TypeOK, Claim, ClaimUnheard, Set, StartingUp, AfterPing
  <1>2. ASSUME NEW p \in Processes, ReportQueued(p) \/ ReportFailed(p)
        PROVE  Written(p)
    BY <1>2, RequestAtHand
    DEF TypeOK, ReportQueued, ReportFailed, Respond, Set, StartingUp, AfterPing
  <1>3. ASSUME NEW p \in Processes, Raise(p)
        PROVE  Written(p)
    <2>1. step[p] \in {"claim", "get", "produce", "queued", "failed"}
      BY <1>3 DEF Raise
    <2>2. request[p] \in Requests
      BY <2>1, RequestAtHand DEF StartingUp, AfterPing
    <2>3. step'[p] = "idle"
      BY <1>3 DEF TypeOK, Raise, Respond
    <2> QED
      BY <1>3, <2>2, <2>3 DEF TypeOK, Raise, Set
  <1>4. ASSUME NEW j \in Keys, Expire(j)
        PROVE  producer'[k] = None /\ k \in expired'
    BY <1>4 DEF TypeOK, Expire
  <1>5. \/ \E p \in Processes :
              Claim(p) \/ ClaimUnheard(p) \/ ReportQueued(p) \/ ReportFailed(p) \/ Raise(p)
        \/ \E j \in Keys : Expire(j)
    BY DEF Next, vars, Handle, Receive, PingRedis, FindClaimed, AnswerDuplicate, LoseDuplicate,
           Produce, Delivered, Undelivered, Crash, BrokerAppend, Lose
  <1> QED
    BY <1>1, <1>2, <1>3, <1>4, <1>5

\* What grows, whatever the step.
LEMMA GrowStep ==
    ASSUME TypeOK, [Next]_vars
    PROVE  received \subseteq received' /\ expired \subseteq expired' /\ OnTopic \subseteq OnTopic'
  <1>1. received \subseteq received' /\ expired \subseteq expired'
    BY DEF Next, vars, Handle, Receive, PingRedis, Claim, FindClaimed, ClaimUnheard,
           AnswerDuplicate, LoseDuplicate, Produce, Delivered, Undelivered, ReportQueued,
           ReportFailed, Raise, Crash, BrokerAppend, Lose, Expire
  <1>2. topic' = topic \/ \E r \in Requests : topic' = Append(topic, r)
    BY DEF Next, vars, Handle, Receive, PingRedis, Claim, FindClaimed, ClaimUnheard,
           AnswerDuplicate, LoseDuplicate, Produce, Delivered, Undelivered, ReportQueued,
           ReportFailed, Raise, Crash, BrokerAppend, Lose, Expire
  <1> QED
    BY <1>1, <1>2, AppendToTopic DEF OnTopic

\* A process that is past SET NX has claimed its key, now or before, and keeps
\* its request; it goes on to "queued" when the message is delivered.
LEMMA ClaimedStep ==
    ASSUME TypeOK, [Next]_vars, NEW p \in Processes, step'[p] \in Claimed
    PROVE  /\ request'[p] = request[p] /\ request[p] \in Requests
           /\ Claim(p) \/ step[p] \in Claimed
           /\ step'[p] = "queued" => step[p] = "queued" \/ Delivered(p)
  <1> USE DEF GoTo, Claimed
  <1>1. CASE UNCHANGED <<step, request>>
    BY <1>1, RequestAtHand DEF StartingUp, AfterPing
  <1>2. ASSUME NEW q \in Processes, NEW r \in Requests, Receive(q, r)
        PROVE  UNCHANGED <<step[p], request[p]>>
    BY <1>2 DEF TypeOK, Receive
  <1>3. ASSUME NEW q \in Processes, PingRedis(q)
        PROVE  UNCHANGED <<step[p], request[p]>>
    BY <1>3 DEF TypeOK, PingRedis, StartingUp, AfterPing
  <1>4. ASSUME NEW q \in Processes,
               \/ FindClaimed(q) \/ ClaimUnheard(q) \/ AnswerDuplicate(q) \/ LoseDuplicate(q)
               \/ ReportQueued(q) \/ ReportFailed(q) \/ Raise(q) \/ Crash(q)
        PROVE  UNCHANGED <<step[p], request[p]>>
    BY <1>4 DEF TypeOK, FindClaimed, ClaimUnheard, AnswerDuplicate, LoseDuplicate, ReportQueued,
                ReportFailed, Raise, Crash, Respond
  <1>5. ASSUME NEW q \in Processes, Claim(q) \/ Produce(q) \/ Delivered(q) \/ Undelivered(q)
        PROVE  /\ request' = request
               /\ q # p => step'[p] = step[p]
               /\ q = p => step[p] \in {"claim", "produce", "flush"}
    BY <1>5 DEF TypeOK, Claim, Produce, Delivered, Undelivered
  <1>6. ASSUME UNCHANGED <<step[p], request[p]>>
        PROVE  request[p] \in Requests
    BY <1>6, RequestAtHand DEF StartingUp, AfterPing
  <1>7. CASE Claim(p) \/ Produce(p) \/ Delivered(p) \/ Undelivered(p)
    <2>1. request'[p] = request[p] /\ request[p] \in Requests
      BY <1>5, <1>7, RequestAtHand DEF StartingUp, AfterPing
    <2> QED
      BY <1>7, <2>1 DEF TypeOK, Claim, Produce, Delivered, Undelivered
  <1>8. CASE UNCHANGED <<step[p], request[p]>>
    BY <1>6, <1>8
  <1>9. \/ UNCHANGED <<step, request>>
        \/ \E q \in Processes, r \in Requests : Receive(q, r)
        \/ \E q \in Processes :
              \/ PingRedis(q) \/ FindClaimed(q) \/ ClaimUnheard(q)
              \/ AnswerDuplicate(q) \/ LoseDuplicate(q)
              \/ ReportQueued(q) \/ ReportFailed(q) \/ Raise(q) \/ Crash(q)
              \/ Claim(q) \/ Produce(q) \/ Delivered(q) \/ Undelivered(q)
    BY DEF Next, vars, Handle, BrokerAppend, Lose, Expire
  <1> QED
    BY <1>1, <1>2, <1>3, <1>4, <1>5, <1>7, <1>8, <1>9

\* A client is told of an error, of what is stored under the key, or of what
\* the handler stores there.
LEMMA AnswerStep ==
    ASSUME TypeOK, [Next]_vars, NEW r \in Requests, answer'[r] # answer[r]
    PROVE  \/ answer'[r] = ServerError
           \/ /\ producer[KeyOf[r]] # None /\ producer' = producer
              /\ answer'[r].body = producer[KeyOf[r]]
           \/ \E p \in Processes :
                 /\ r = request[p] /\ step[p] \in {"queued", "failed"}
                 /\ answer'[r].body = Response(step[p], r)
                 /\ producer'[KeyOf[r]] = Response(step[p], r)
  <1>1. ASSUME NEW p \in Processes, LoseDuplicate(p) \/ Raise(p)
        PROVE  answer'[r] = ServerError
    BY <1>1 DEF TypeOK, LoseDuplicate, Raise, Respond
  <1>2. ASSUME NEW p \in Processes, AnswerDuplicate(p)
        PROVE  /\ producer[KeyOf[r]] # None /\ producer' = producer
               /\ answer'[r].body = producer[KeyOf[r]]
    <2>1. r = request[p] /\ answer'[r] = Answer(200, producer[Key(p)])
      BY <1>2 DEF TypeOK, AnswerDuplicate, Respond
    <2> QED
      BY <1>2, <2>1 DEF AnswerDuplicate, Answer, Key
  <1>3. ASSUME NEW p \in Processes, ReportQueued(p) \/ ReportFailed(p)
        PROVE  /\ r = request[p] /\ step[p] \in {"queued", "failed"}
               /\ answer'[r].body = Response(step[p], r)
               /\ producer'[KeyOf[r]] = Response(step[p], r)
    <2>1. r = request[p] /\ \E code \in {202, 500} : answer'[r] = Answer(code, Response(step[p], r))
      BY <1>3 DEF TypeOK, ReportQueued, ReportFailed, Respond
    <2>2. KeyOf[r] \in Keys
      BY KeyTypes
    <2> QED
      BY <1>3, <2>1, <2>2 DEF TypeOK, ReportQueued, ReportFailed, Set, Answer, Key
  <1>4. \E p \in Processes :
           LoseDuplicate(p) \/ Raise(p) \/ AnswerDuplicate(p) \/ ReportQueued(p) \/ ReportFailed(p)
    BY DEF Next, vars, Handle, Receive, PingRedis, Claim, FindClaimed, ClaimUnheard, Produce,
           Delivered, Undelivered, Crash, BrokerAppend, Lose, Expire
  <1> QED
    BY <1>1, <1>2, <1>3, <1>4

-----------------------------------------------------------------------------
(* The invariant, part by part.                                            *)

LEMMA ExclusiveStep ==
    ASSUME TypeOK, ExclusiveInv, [Next]_vars
    PROVE  ExclusiveInv'
  <1> USE DEF ExclusiveInv
  <1>1. ASSUME NEW p \in Processes, NEW r \in Requests, Receive(p, r)
        PROVE  ExclusiveInv'
    BY <1>1, GatewayAssumption DEF TypeOK, Receive
  <1>2. ASSUME NEW p \in Processes, request' = [request EXCEPT ![p] = None]
        PROVE  ExclusiveInv'
    BY <1>2 DEF TypeOK
  <1>3. CASE UNCHANGED request
    BY <1>3
  <1>4. \/ \E p \in Processes, r \in Requests : Receive(p, r)
        \/ \E p \in Processes : request' = [request EXCEPT ![p] = None]
        \/ UNCHANGED request
    BY DEF Next, vars, Handle, GoTo, PingRedis, Claim, FindClaimed, ClaimUnheard, AnswerDuplicate,
           LoseDuplicate, Produce, Delivered, Undelivered, ReportQueued, ReportFailed, Raise,
           Respond, Crash, BrokerAppend, Lose, Expire
  <1> QED
    BY <1>1, <1>2, <1>3, <1>4

LEMMA UnansweredStep ==
    ASSUME TypeOK, ExclusiveInv, UnansweredInv, [Next]_vars
    PROVE  UnansweredInv'
  <1> USE DEF UnansweredInv, Range
  <1>1. ASSUME NEW p \in Processes, NEW r \in Requests, Receive(p, r)
        PROVE  UnansweredInv'
    BY <1>1 DEF TypeOK, Receive
  <1>2. ASSUME NEW p \in Processes, NEW told, request[p] \in received, Respond(p, told),
               UNCHANGED received
        PROVE  UnansweredInv'
    BY <1>2, GatewayAssumption DEF TypeOK, ExclusiveInv, Respond
  <1>3. ASSUME NEW p \in Processes, Crash(p)
        PROVE  UnansweredInv'
    BY <1>3, GatewayAssumption DEF TypeOK, Crash
  <1>4. CASE UNCHANGED <<received, request, answer>>
    BY <1>4
  <1>5. ASSUME NEW p \in Processes,
               \/ AnswerDuplicate(p) \/ LoseDuplicate(p)
               \/ ReportQueued(p) \/ ReportFailed(p) \/ Raise(p)
        PROVE  request[p] \in received /\ UNCHANGED received /\ \E told : Respond(p, told)
    <2>1. step[p] \in {"claim", "get", "produce", "queued", "failed"}
      BY <1>5 DEF AnswerDuplicate, LoseDuplicate, ReportQueued, ReportFailed, Raise
    <2>2. request[p] \in received
      BY <2>1, RequestAtHand DEF StartingUp, AfterPing
    <2> QED
      BY <1>5, <2>2 DEF AnswerDuplicate, LoseDuplicate, ReportQueued, ReportFailed, Raise
  <1>6. \/ \E p \in Processes, r \in Requests : Receive(p, r)
        \/ \E p \in Processes :
              \/ AnswerDuplicate(p) \/ LoseDuplicate(p)
              \/ ReportQueued(p) \/ ReportFailed(p) \/ Raise(p) \/ Crash(p)
        \/ UNCHANGED <<received, request, answer>>
    BY DEF Next, vars, Handle, GoTo, PingRedis, Claim, FindClaimed, ClaimUnheard, Produce,
           Delivered, Undelivered, BrokerAppend, Lose, Expire
  <1> QED
    BY <1>1, <1>2, <1>3, <1>4, <1>5, <1>6

LEMMA OwnKeyStep ==
    ASSUME TypeOK, OwnKeyInv, [Next]_vars
    PROVE  OwnKeyInv'
  <1> SUFFICES ASSUME NEW k \in Keys, producer'[k] # None
               PROVE  producer'[k].txn \in received' /\ KeyOf[producer'[k].txn] = k
    BY DEF OwnKeyInv
  <1>1. CASE producer'[k] = producer[k]
    BY <1>1, GrowStep DEF OwnKeyInv
  <1>2. CASE producer'[k] # producer[k]
    <2>1. PICK p \in Processes :
             /\ k = Key(p) /\ request[p] \in Requests
             /\ \E status \in Statuses : producer'[k] = Response(status, request[p])
      BY <1>2, WriteStep DEF Statuses
    <2>2. request[p] \in received
      BY <2>1, GatewayAssumption DEF TypeOK
    <2> QED
      BY <2>1, <2>2, GrowStep DEF Response, Key
  <1> QED
    BY <1>1, <1>2

\* Nobody but the holder writes under its key, until the key expires.
LEMMA HolderWrites ==
    ASSUME TypeOK, ExclusiveInv, HolderInv, [Next]_vars,
           NEW p \in Processes, step[p] \in Claimed, step'[p] \in Claimed,
           Key(p) \in Keys, Key(p) \notin expired'
    PROVE  producer'[Key(p)] = producer[Key(p)]
  <1> SUFFICES ASSUME producer'[Key(p)] # producer[Key(p)] PROVE FALSE
    OBVIOUS
  <1>1. producer[Key(p)] = Response("accepted", request[p]) /\ Key(p) \notin expired
    BY GrowStep DEF HolderInv
  <1>2. request[p] \in Requests /\ producer[Key(p)] # None
    BY <1>1, RequestAtHand, KeyTypes DEF Claimed, StartingUp, AfterPing, Statuses
  <1>3. PICK q \in Processes : /\ Key(p) = Key(q)
                               /\ step[q] \in {"queued", "failed"} /\ step'[q] = "idle"
    BY <1>1, <1>2, WriteStep
  <1>4. producer[Key(p)] = Response("accepted", request[q])
    BY <1>1, <1>3 DEF HolderInv, Claimed
  <1>5. request[p] = request[q]
    BY <1>1, <1>4 DEF Response
  <1>6. p = q
    BY <1>2, <1>5, GatewayAssumption DEF ExclusiveInv
  <1> QED
    BY <1>3, <1>6 DEF Claimed

LEMMA HolderStep ==
    ASSUME TypeOK, ExclusiveInv, HolderInv, [Next]_vars
    PROVE  HolderInv'
  <1> SUFFICES ASSUME NEW p \in Processes, step'[p] \in Claimed, Key(p)' \notin expired'
               PROVE  producer'[Key(p)'] = Response("accepted", request'[p])
    BY DEF HolderInv
  <1>1. request'[p] = request[p] /\ Key(p)' = Key(p) /\ Key(p) \in Keys
    BY ClaimedStep, KeyTypes DEF Key
  <1>2. CASE step[p] \in Claimed
    <2>1. producer[Key(p)] = Response("accepted", request[p])
      BY <1>1, <1>2, GrowStep DEF HolderInv
    <2> QED
      BY <1>1, <1>2, <2>1, HolderWrites
  <1>3. CASE Claim(p)
    BY <1>1, <1>3 DEF TypeOK, Claim, Set
  <1> QED
    BY <1>2, <1>3, ClaimedStep

\* A claim stands until the key expires.
LEMMA ClaimsStay ==
    ASSUME TypeOK, HolderInv, [Next]_vars, NEW k \in Keys, k \notin expired', NEW r, Claims(k, r)
    PROVE  Claims(k, r)'
  <1>1. CASE producer'[k] = producer[k]
    BY <1>1 DEF Claims
  <1>2. CASE producer'[k] # producer[k]
    <2>1. PICK p \in Processes :
             /\ k = Key(p) /\ request[p] \in Requests /\ step[p] \in {"queued", "failed"}
             /\ producer'[k] = Response(step[p], request[p])
      BY <1>2, WriteStep DEF Claims
    <2>2. producer[k] = Response("accepted", request[p])
      BY <2>1, GrowStep DEF HolderInv, Claimed
    <2>3. producer'[k] # None
      BY <2>1, KeyTypes DEF Statuses
    <2> QED
      BY <2>1, <2>2, <2>3 DEF Claims, Response
  <1> QED
    BY <1>1, <1>2

LEMMA DeliveredStep ==
    ASSUME TypeOK, DeliveredInv, [Next]_vars
    PROVE  DeliveredInv'
  <1> SUFFICES ASSUME NEW p \in Processes, step'[p] = "queued"
               PROVE  request'[p] \in OnTopic'
    BY DEF DeliveredInv
  <1>1. /\ request'[p] = request[p]
        /\ step[p] = "queued" \/ Delivered(p)
    BY ClaimedStep DEF Claimed
  <1> QED
    BY <1>1, GrowStep DEF DeliveredInv, Delivered

LEMMA SentStep ==
    ASSUME TypeOK, HolderInv, SentInv, [Next]_vars
    PROVE  SentInv'
  <1> SUFFICES ASSUME NEW r \in (OnTopic \cup inFlight)', KeyOf[r] \notin expired'
               PROVE  Claims(KeyOf[r], r)'
    BY DEF SentInv
  <1>1. r \in OnTopic \cup inFlight \/ \E p \in Processes : Produce(p) /\ r = request[p]
    <2>1. ASSUME NEW q \in Requests, BrokerAppend(q)
          PROVE  r \in OnTopic \cup inFlight
      BY <2>1, AppendToTopic DEF BrokerAppend
    <2>2. CASE topic' = topic
      <3>1. OnTopic' = OnTopic
        BY <2>2 DEF OnTopic
      <3>2. inFlight' \subseteq inFlight
            \/ \E p \in Processes : Produce(p) /\ inFlight' = inFlight \cup {request[p]}
        BY <2>2 DEF Next, vars, Handle, Receive, PingRedis, Claim, FindClaimed, ClaimUnheard,
               AnswerDuplicate, LoseDuplicate, Produce, Delivered, Undelivered, ReportQueued,
               ReportFailed, Raise, Crash, BrokerAppend, Lose, Expire
      <3> QED
        BY <3>1, <3>2
    <2>3. topic' = topic \/ \E q \in Requests : BrokerAppend(q)
      BY DEF Next, vars, Handle, Receive, PingRedis, Claim, FindClaimed, ClaimUnheard,
             AnswerDuplicate, LoseDuplicate, Produce, Delivered, Undelivered, ReportQueued,
             ReportFailed, Raise, Crash, Lose, Expire
    <2> QED
      BY <2>1, <2>2, <2>3
  <1>2. CASE r \in OnTopic \cup inFlight
    <2>1. r \in Requests
      BY <1>2 DEF TypeOK, OnTopic, Range
    <2>2. Claims(KeyOf[r], r)
      BY <1>2, GrowStep DEF SentInv
    <2> QED
      BY <2>1, <2>2, ClaimsStay, KeyTypes
  <1>3. ASSUME NEW p \in Processes, Produce(p), r = request[p]
        PROVE  Claims(KeyOf[r], r)'
    <2>1. step[p] = "produce" /\ producer' = producer /\ expired' = expired
      BY <1>3 DEF Produce
    <2>2. request[p] \in Requests
      BY <2>1, RequestAtHand DEF StartingUp, AfterPing
    <2>3. producer[KeyOf[r]] = Response("accepted", r)
      BY <1>3, <2>1 DEF HolderInv, Claimed, Key
    <2> QED
      BY <1>3, <2>1, <2>2, <2>3, KeyTypes DEF Claims, Response, Statuses
  <1> QED
    BY <1>1, <1>2, <1>3

LEMMA ToldStep ==
    ASSUME TypeOK, HolderInv, ToldInv, [Next]_vars
    PROVE  ToldInv'
  <1> SUFFICES ASSUME NEW r \in Requests, KeyOf[r] \notin expired',
                      answer'[r] \notin {None, ServerError}
               PROVE  Claims(KeyOf[r], answer[r].body.txn)'
    BY DEF ToldInv
  <1>1. KeyOf[r] \in Keys
    BY KeyTypes
  <1>2. CASE answer'[r] = answer[r]
    BY <1>1, <1>2, GrowStep, ClaimsStay DEF ToldInv
  <1>3. CASE /\ producer[KeyOf[r]] # None /\ producer' = producer
             /\ answer'[r].body = producer[KeyOf[r]]
    BY <1>3 DEF Claims
  <1>4. ASSUME NEW p \in Processes, step[p] \in {"queued", "failed"},
               answer'[r].body = Response(step[p], r),
               producer'[KeyOf[r]] = Response(step[p], r)
        PROVE  Claims(KeyOf[r], answer[r].body.txn)'
    BY <1>4, KeyTypes DEF Claims, Statuses
  <1> QED
    BY <1>2, <1>3, <1>4, AnswerStep

LEMMA QueuedStep ==
    ASSUME TypeOK, DeliveredInv, QueuedIsForwarded, [Next]_vars
    PROVE  QueuedIsForwarded'
  <1>1. ASSUME NEW k \in Keys, producer'[k] # None, producer'[k].status = "queued"
        PROVE  producer'[k].txn \in OnTopic'
    <2>1. CASE producer'[k] = producer[k]
      BY <1>1, <2>1, GrowStep DEF QueuedIsForwarded
    <2>2. CASE producer'[k] # producer[k]
      <3>1. PICK p \in Processes :
               \/ producer'[k] = Response("accepted", request[p])
               \/ /\ step[p] \in {"queued", "failed"}
                  /\ producer'[k] = Response(step[p], request[p])
        BY <1>1, <2>2, WriteStep
      <3>2. step[p] = "queued" /\ producer'[k].txn = request[p]
        BY <1>1, <3>1 DEF Response
      <3> QED
        BY <3>2, GrowStep DEF DeliveredInv
    <2> QED
      BY <2>1, <2>2
  <1>2. ASSUME NEW r \in Requests, answer'[r] \notin {None, ServerError},
               answer'[r].body.status = "queued"
        PROVE  answer'[r].body.txn \in OnTopic'
    <2>1. KeyOf[r] \in Keys
      BY KeyTypes
    <2>2. CASE answer'[r] = answer[r]
      BY <1>2, <2>2, GrowStep DEF QueuedIsForwarded
    <2>3. CASE /\ producer[KeyOf[r]] # None
               /\ answer'[r].body = producer[KeyOf[r]]
      BY <1>2, <2>1, <2>3, GrowStep DEF QueuedIsForwarded
    <2>4. ASSUME NEW p \in Processes, r = request[p],
                 answer'[r].body = Response(step[p], r)
          PROVE  answer'[r].body.txn \in OnTopic'
      BY <1>2, <2>4, GrowStep DEF DeliveredInv, Response
    <2> QED
      BY <1>2, <2>2, <2>3, <2>4, AnswerStep
  <1> QED
    BY <1>1, <1>2 DEF QueuedIsForwarded

LEMMA InvInit == Init => GatewayIInv
  <1> SUFFICES ASSUME Init PROVE GatewayIInv
    OBVIOUS
  <1>1. TypeOK
    BY GatewayAssumption DEF Init, TypeOK, AfterPing, StartingUp
  <1>2. OnTopic = {}
    BY DEF Init, OnTopic, Range
  <1>3. ExclusiveInv /\ UnansweredInv /\ OwnKeyInv /\ HolderInv /\ DeliveredInv
    BY DEF Init, ExclusiveInv, UnansweredInv, OwnKeyInv, HolderInv, DeliveredInv, Claimed
  <1>4. SentInv /\ ToldInv /\ QueuedIsForwarded
    BY <1>2, GatewayAssumption DEF Init, SentInv, ToldInv, QueuedIsForwarded
  <1> QED
    BY <1>1, <1>3, <1>4 DEF GatewayIInv

LEMMA InvStep ==
    ASSUME GatewayIInv, [Next]_vars
    PROVE  GatewayIInv'
  BY TypeStep, ExclusiveStep, UnansweredStep, OwnKeyStep, HolderStep, DeliveredStep, SentStep,
     ToldStep, QueuedStep
  DEF GatewayIInv

\* GatewayIInv holds of every state.
THEOREM Invariance == Spec => []GatewayIInv
  <1>1. GatewayIInv /\ [Next]_vars => GatewayIInv'
    BY InvStep
  <1> QED
    BY <1>1, InvInit, PTL DEF Spec

\* Every variable keeps its type; in particular a process is without a request
\* exactly when it is idle or starting.
THEOREM TypeCorrect == Spec => []TypeOK
  <1>1. GatewayIInv => TypeOK
    BY DEF GatewayIInv
  <1> QED
    BY <1>1, Invariance, PTL

\* What a client reads as "queued" is on the topic, under the transaction id it
\* was told.
THEOREM QueuedReachesTopic == Spec => []QueuedIsForwarded
  <1>1. GatewayIInv => QueuedIsForwarded
    BY DEF GatewayIInv
  <1> QED
    BY <1>1, Invariance, PTL

\* A payment sent any number of times reaches the topic under one transaction
\* id, until its key expires.
THEOREM Idempotence == Spec => []OneTransactionPerKey
  <1>1. GatewayIInv => OneTransactionPerKey
    BY DEF GatewayIInv, SentInv, Claims, OneTransactionPerKey
  <1> QED
    BY <1>1, Invariance, PTL

\* All who send it are told the same transaction id.
THEOREM SameAnswers == Spec => []AnswersAgree
  <1>1. GatewayIInv => AnswersAgree
    BY DEF GatewayIInv, ToldInv, Claims, AnswersAgree
  <1> QED
    BY <1>1, Invariance, PTL

\* A status under a key goes from "accepted" to "queued" or "failed", once.
THEOREM StatusOnlyForward == Spec => StatusForward
  <1> DEFINE Forward ==
          \A k \in Keys \ expired' :
              producer[k] # None /\ producer'[k] # producer[k] =>
                  /\ producer[k].status = "accepted"
                  /\ producer'[k] \in {Response("queued", producer[k].txn),
                                      Response("failed", producer[k].txn)}
  <1>1. GatewayIInv /\ [Next]_vars => Forward
    <2> SUFFICES ASSUME GatewayIInv, [Next]_vars, NEW k \in Keys \ expired',
                        producer[k] # None, producer'[k] # producer[k]
                 PROVE  /\ producer[k].status = "accepted"
                        /\ producer'[k] \in {Response("queued", producer[k].txn),
                                            Response("failed", producer[k].txn)}
      OBVIOUS
    <2>1. PICK p \in Processes :
             /\ k = Key(p) /\ step[p] \in {"queued", "failed"}
             /\ producer'[k] = Response(step[p], request[p])
      BY WriteStep DEF GatewayIInv
    <2>2. producer[k] = Response("accepted", request[p])
      BY <2>1, GrowStep DEF GatewayIInv, HolderInv, Claimed
    <2> QED
      BY <2>1, <2>2 DEF Response
  <1> QED
    BY <1>1, Invariance, PTL DEF Spec, StatusForward
\* What a client was told is what every later one is told.
LEMMA DecisionsStep ==
    ASSUME GatewayIInv, DecisionsStand, [Next]_vars
    PROVE  DecisionsStand'
  <1> USE DEF GatewayIInv
  <1> SUFFICES ASSUME NEW r \in Requests, KeyOf[r] \notin expired',
                      answer'[r] \notin {None, ServerError},
                      answer'[r].body.status \in {"queued", "failed"}
               PROVE  producer'[KeyOf[r]] = answer'[r].body
    BY DEF DecisionsStand
  <1>1. KeyOf[r] \in Keys /\ KeyOf[r] \notin expired
    BY KeyTypes, GrowStep
  <1>2. ASSUME producer[KeyOf[r]] # None,
               producer[KeyOf[r]].status \in {"queued", "failed"}
        PROVE  producer'[KeyOf[r]] = producer[KeyOf[r]]
    <2> SUFFICES ASSUME producer'[KeyOf[r]] # producer[KeyOf[r]] PROVE FALSE
      OBVIOUS
    <2>1. PICK p \in Processes : KeyOf[r] = Key(p) /\ step[p] \in {"queued", "failed"}
      BY <1>1, <1>2, WriteStep
    <2>2. producer[KeyOf[r]] = Response("accepted", request[p])
      BY <1>1, <2>1 DEF HolderInv, Claimed
    <2> QED
      BY <1>2, <2>2 DEF Response
  <1>3. CASE answer'[r] = answer[r]
    <2>1. producer[KeyOf[r]] = answer[r].body
      BY <1>1, <1>3 DEF DecisionsStand
    <2>2. producer[KeyOf[r]] # None
      BY <1>1, <1>3 DEF ToldInv, Claims
    <2> QED
      BY <1>2, <1>3, <2>1, <2>2
  <1>4. CASE answer'[r] # answer[r]
    BY <1>1, <1>2, <1>4, AnswerStep
  <1> QED
    BY <1>3, <1>4

\* Two clients that read an outcome under one key read the same one: neither a
\* duplicate nor a failure that comes later takes back what was told.
THEOREM DecisionsAreFinal == Spec => []DecisionsStand
  <1>1. Init => DecisionsStand
    BY DEF Init, DecisionsStand
  <1>2. GatewayIInv /\ DecisionsStand /\ [Next]_vars => DecisionsStand'
    BY DecisionsStep
  <1> QED
    BY <1>1, <1>2, Invariance, PTL DEF Spec
=============================================================================
