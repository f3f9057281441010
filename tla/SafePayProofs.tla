---------------------------- MODULE SafePayProofs ----------------------------
(***************************************************************************)
(* SafePay implements Payments: what the invariants of the gateway and of  *)
(* the worker give together, for any number of requests, gateway processes *)
(* and workers.                                                            *)
(***************************************************************************)
EXTENDS SafePay, FiniteSetTheorems, TLAPS

\* The theorems about the two parts, for the states they have here.
GP == INSTANCE GatewayProofs WITH step <- handling, CanFail <- GatewayFails
WP == INSTANCE WorkerProofs WITH log <- Log, step <- working, CanFail <- WorkerFails,
                                 MaxLog <- Cardinality(Requests) * MaxCopies

LEMMA Assumptions ==
    /\ DOMAIN KeyOf = Requests
    /\ GatewayFails \in BOOLEAN
    /\ CanExpire \in BOOLEAN
    /\ MaxCopies \in Nat \ {0}
    /\ None \notin Requests \cup GP!Responses \cup GP!Answers
  BY SafePayAssumption DEF G!Responses, G!Answers, GP!Responses, GP!Answers, G!Statuses, GP!Statuses

\* The handlers are the same in both instances of Gateway.
LEMMA SameHandlers ==
    \A p \in Processes :
        /\ G!Handle(p) => GP!Handle(p)
        /\ G!Raise(p) => GP!Raise(p)
        /\ G!Crash(p) => GP!Crash(p)
        /\ \A r \in Requests : G!Receive(p, r) => GP!Receive(p, r)
  <1>1. \A p \in Processes, r \in Requests : G!Receive(p, r) <=> GP!Receive(p, r)
    BY DEF G!Receive, GP!Receive
  <1>2. \A p \in Processes : G!PingRedis(p) <=> GP!PingRedis(p)
    BY DEF G!PingRedis, GP!PingRedis, G!GoTo, GP!GoTo, G!StartingUp, GP!StartingUp, G!AfterPing,
           GP!AfterPing
  <1>3. \A p \in Processes : G!Claim(p) <=> GP!Claim(p)
    BY DEF G!Claim, GP!Claim, G!GoTo, GP!GoTo, G!Set, GP!Set, G!Key, GP!Key, G!Response,
           GP!Response
  <1>4. \A p \in Processes : G!FindClaimed(p) <=> GP!FindClaimed(p)
    BY DEF G!FindClaimed, GP!FindClaimed, G!GoTo, GP!GoTo, G!Key, GP!Key
  <1>5. \A p \in Processes : G!AnswerDuplicate(p) <=> GP!AnswerDuplicate(p)
    BY DEF G!AnswerDuplicate, GP!AnswerDuplicate, G!Key, GP!Key, G!Respond, GP!Respond, G!Answer,
           GP!Answer
  <1>6. \A p \in Processes : G!LoseDuplicate(p) <=> GP!LoseDuplicate(p)
    BY DEF G!LoseDuplicate, GP!LoseDuplicate, G!Key, GP!Key, G!Respond, GP!Respond, G!Answer,
           GP!Answer, G!ServerError, GP!ServerError
  <1>7. \A p \in Processes : G!Produce(p) <=> GP!Produce(p)
    BY DEF G!Produce, GP!Produce, G!GoTo, GP!GoTo
  <1>8. \A p \in Processes : G!Delivered(p) <=> GP!Delivered(p)
    BY DEF G!Delivered, GP!Delivered, G!GoTo, GP!GoTo, G!OnTopic, GP!OnTopic, G!Range, GP!Range
  <1>9. \A p \in Processes : G!Undelivered(p) <=> GP!Undelivered(p)
    BY DEF G!Undelivered, GP!Undelivered, G!GoTo, GP!GoTo
  <1>10. \A p \in Processes : G!ReportQueued(p) <=> GP!ReportQueued(p)
    BY DEF G!ReportQueued, GP!ReportQueued, G!Set, GP!Set, G!Key, GP!Key, G!Response, GP!Response,
           G!Respond, GP!Respond, G!Answer, GP!Answer
  <1>11. \A p \in Processes : G!ReportFailed(p) <=> GP!ReportFailed(p)
    BY DEF G!ReportFailed, GP!ReportFailed, G!Set, GP!Set, G!Key, GP!Key, G!Response, GP!Response,
           G!Respond, GP!Respond, G!Answer, GP!Answer
  <1>12. \A p \in Processes : G!Raise(p) <=> GP!Raise(p)
    BY DEF G!Raise, GP!Raise, G!Set, GP!Set, G!Key, GP!Key, G!Response, GP!Response, G!Respond,
           GP!Respond, G!Answer, GP!Answer, G!ServerError, GP!ServerError
  <1>13. \A p \in Processes : G!Crash(p) <=> GP!Crash(p)
    BY DEF G!Crash, GP!Crash
  <1>14. \A p \in Processes : G!ClaimUnheard(p) <=> GP!ClaimUnheard(p)
    BY DEF G!ClaimUnheard, GP!ClaimUnheard, G!GoTo, GP!GoTo, G!Set, GP!Set, G!Key, GP!Key,
           G!Response, GP!Response
  <1> QED
    BY <1>1, <1>2, <1>3, <1>4, <1>5, <1>6, <1>7, <1>8, <1>9, <1>10, <1>11, <1>12, <1>13, <1>14
    DEF G!Handle, GP!Handle

LEMMA GatewayStep ==
    ASSUME [G!Next]_gateway
    PROVE  [GP!Next]_(GP!vars)
  <1>1. \A r \in Requests : G!BrokerAppend(r) => GP!BrokerAppend(r)
    BY DEF G!BrokerAppend, GP!BrokerAppend, G!Copies, GP!Copies, G!Cardinality, GP!Cardinality
  <1>2. \A r \in Requests : G!Lose(r) => GP!Lose(r)
    BY DEF G!Lose, GP!Lose
  <1>3. \A k \in Keys : G!Expire(k) => GP!Expire(k)
    BY DEF G!Expire, GP!Expire
  <1>4. G!Keys = Keys /\ GP!Keys = Keys
    BY DEF Keys, G!Keys, GP!Keys
  <1>5. G!Next => GP!Next
    BY <1>1, <1>2, <1>3, <1>4, SameHandlers DEF G!Next, GP!Next
  <1>6. UNCHANGED gateway => UNCHANGED GP!vars
    BY DEF gateway, GP!vars
  <1> QED
    BY <1>5, <1>6

LEMMA SameGatewayInv == G!GatewayIInv <=> GP!GatewayIInv
  <1> USE DEF G!OnTopic, GP!OnTopic, G!Range, GP!Range, G!Keys, GP!Keys, G!Key, GP!Key
  <1>1. G!TypeOK <=> GP!TypeOK
    BY DEF G!TypeOK, GP!TypeOK, G!AfterPing, GP!AfterPing, G!StartingUp, GP!StartingUp,
           G!Responses, GP!Responses, G!Answers, GP!Answers, G!Statuses, GP!Statuses,
           G!ServerError, GP!ServerError, G!Answer, GP!Answer
  <1>2. (G!ExclusiveInv <=> GP!ExclusiveInv) /\ (G!UnansweredInv <=> GP!UnansweredInv)
    BY DEF G!ExclusiveInv, GP!ExclusiveInv, G!UnansweredInv, GP!UnansweredInv
  <1>3. (G!OwnKeyInv <=> GP!OwnKeyInv) /\ (G!DeliveredInv <=> GP!DeliveredInv)
    BY DEF G!OwnKeyInv, GP!OwnKeyInv, G!DeliveredInv, GP!DeliveredInv
  <1>4. G!HolderInv <=> GP!HolderInv
    BY DEF G!HolderInv, GP!HolderInv, G!Claimed, GP!Claimed, G!Response, GP!Response
  <1>5. (G!SentInv <=> GP!SentInv) /\ (G!ToldInv <=> GP!ToldInv)
    BY DEF G!SentInv, GP!SentInv, G!ToldInv, GP!ToldInv, G!Claims, GP!Claims,
           G!ServerError, GP!ServerError, G!Answer, GP!Answer
  <1>6. G!QueuedIsForwarded <=> GP!QueuedIsForwarded
    BY DEF G!QueuedIsForwarded, GP!QueuedIsForwarded, G!ServerError, GP!ServerError,
           G!Answer, GP!Answer
  <1> QED
    BY <1>1, <1>2, <1>3, <1>4, <1>5, <1>6 DEF G!GatewayIInv, GP!GatewayIInv

\* A step of the gateway preserves its invariant here as well.
LEMMA GatewayInvStep ==
    ASSUME G!GatewayIInv, [G!Next]_gateway
    PROVE  G!GatewayIInv'
  <1>1. GP!GatewayIInv
    BY SameGatewayInv
  <1>2. GP!GatewayIInv'
    BY <1>1, Assumptions, GatewayStep, GP!InvStep
  <1>3. G!GatewayIInv' <=> GP!GatewayIInv'
    BY SameGatewayInv, PTL
  <1> QED
    BY <1>2, <1>3

\* The steps of a worker are the same in both instances of Worker.
LEMMA SameWork ==
    ASSUME NEW w \in Workers
    PROVE  /\ W!Work(w) => WP!Work(w)
           /\ W!Crash(w) => WP!Crash(w)
           /\ W!Restart(w) => WP!Restart(w)
           /\ W!Assign(w) => WP!Assign(w)
           /\ W!Revoke(w) => WP!Revoke(w)
  <1>1. W!Poll(w) => WP!Poll(w)
    BY DEF W!Poll, WP!Poll, W!GoTo, WP!GoTo
  <1>2. W!SkipKnown(w) => WP!SkipKnown(w)
    BY DEF W!SkipKnown, WP!SkipKnown, W!GoTo, WP!GoTo, W!Key, WP!Key
  <1>3. W!TakeNew(w) => WP!TakeNew(w)
    BY DEF W!TakeNew, WP!TakeNew, W!GoTo, WP!GoTo, W!Key, WP!Key
  <1>4. W!Precheck(w) => WP!Precheck(w)
    BY DEF W!Precheck, WP!Precheck, W!GoTo, WP!GoTo, W!Key, WP!Key
  <1>5. W!Settle(w) => WP!Settle(w)
    BY DEF W!Settle, WP!Settle, W!SettleNew, WP!SettleNew, W!GoTo, WP!GoTo, W!Key, WP!Key,
           W!Verdicts, WP!Verdicts
  <1>6. W!FindDuplicate(w) => WP!FindDuplicate(w)
    BY DEF W!FindDuplicate, WP!FindDuplicate, W!GoTo, WP!GoTo, W!Key, WP!Key
  <1>7. W!Record(w) => WP!Record(w)
    BY DEF W!Record, WP!Record, W!GoTo, WP!GoTo, W!Key, WP!Key
  <1>8. W!Commit(w) => WP!Commit(w)
    BY DEF W!Commit, WP!Commit, W!GoTo, WP!GoTo
  <1>9. W!CommitFails(w) => WP!CommitFails(w)
    BY DEF W!CommitFails, WP!CommitFails, W!GoTo, WP!GoTo
  <1>10. W!Fail(w) => WP!Fail(w)
    BY DEF W!Fail, WP!Fail, W!LogFailure, WP!LogFailure, W!GoTo, WP!GoTo, W!Key, WP!Key
  <1>11. W!FailAfterSettling(w) => WP!FailAfterSettling(w)
    BY DEF W!FailAfterSettling, WP!FailAfterSettling, W!SettleNew, WP!SettleNew, W!LogFailure,
           WP!LogFailure, W!GoTo, WP!GoTo, W!Key, WP!Key, W!Verdicts, WP!Verdicts
  <1>12. W!Crash(w) => WP!Crash(w)
    BY DEF W!Crash, WP!Crash, W!GoTo, WP!GoTo
  <1>13. W!Restart(w) => WP!Restart(w)
    BY DEF W!Restart, WP!Restart, W!GoTo, WP!GoTo
  <1>14. W!Assign(w) => WP!Assign(w)
    BY DEF W!Assign, WP!Assign
  <1>15. W!Revoke(w) => WP!Revoke(w)
    BY DEF W!Revoke, WP!Revoke
  <1> QED
    BY <1>1, <1>2, <1>3, <1>4, <1>5, <1>6, <1>7, <1>8, <1>9, <1>10, <1>11, <1>12, <1>13, <1>14,
       <1>15 DEF W!Work, WP!Work

WInv == W!TypeOK /\ W!HandInv /\ W!NoSilentLoss /\ W!StatusIsTrue

LEMMA SameWorkerInv == WInv <=> WP!WorkerIInv
  <1> USE DEF W!Accounted, WP!Accounted, W!IsSettled, WP!IsSettled
  <1>1. W!TypeOK <=> WP!TypeOK
    BY DEF W!TypeOK, WP!TypeOK, W!Steps, WP!Steps, W!Verdicts, WP!Verdicts
  <1>2. W!HandInv <=> WP!HandInv
    BY DEF W!HandInv, WP!HandInv, W!Hand, WP!Hand, W!Key, WP!Key
  <1>3. W!NoSilentLoss <=> WP!NoSilentLoss
    BY DEF W!NoSilentLoss, WP!NoSilentLoss
  <1>4. W!StatusIsTrue <=> WP!StatusIsTrue
    BY DEF W!StatusIsTrue, WP!StatusIsTrue, W!Verdicts, WP!Verdicts
  <1> QED
    BY <1>1, <1>2, <1>3, <1>4 DEF WInv, WP!WorkerIInv

LEMMA WorkerAssumptions ==
    /\ Poison \subseteq Keys
    /\ WorkerFails \in BOOLEAN
    /\ CanHint \in BOOLEAN
    /\ Cardinality(Requests) * MaxCopies \in Nat
    /\ MaxInterruptions \in Nat
    /\ None \notin Workers
    /\ None \notin {"approved", "rejected", "duplicate", "processing", "processed"}
  <1>1. Cardinality(Requests) \in Nat
    BY SafePayAssumption, FS_CardinalityType
  <1> QED
    BY <1>1, SafePayAssumption DEF Told

\* What the worker sees of a step: one of its own, or none.
LEMMA WorkerStep ==
    ASSUME [Next]_vars
    PROVE  [WP!Next]_(WP!vars)
  <1>1. ASSUME UNCHANGED <<topic, worker>>
        PROVE  UNCHANGED WP!vars
    BY <1>1 DEF WP!vars, worker, Log
  <1>2. ASSUME NEW r \in Requests, Forward(r)
        PROVE  WP!Next
    <2>1. KeyOf[r] \in Keys
      BY DEF Keys
    <2>2. WP!Produce(KeyOf[r])
      BY <1>2 DEF Forward, W!Produce, WP!Produce
    <2> QED
      BY <2>1, <2>2 DEF WP!Next
  <1>3. ASSUME NEW w \in Workers, Work(w) \/ Interrupt(w) \/ Restart(w)
        PROVE  WP!Next
    BY <1>3, SameWork DEF Work, Interrupt, Restart, WP!Next
  <1>4. ASSUME Assign
        PROVE  WP!Next
    BY <1>4, SameWork DEF Assign, WP!Next
  <1>5. ASSUME NEW k \in Keys, Lapse(k)
        PROVE  WP!Next
    <2>1. WP!Expire(k)
      BY <1>5 DEF Lapse, W!Expire, WP!Expire
    <2> QED
      BY <2>1 DEF WP!Next
  <1>6. ASSUME NEW p \in Processes, Pay(p)
        PROVE  UNCHANGED <<topic, worker>>
    BY <1>6 DEF Pay, worker, G!Handle, G!Receive, G!PingRedis, G!Claim, G!FindClaimed,
           G!ClaimUnheard, G!AnswerDuplicate, G!LoseDuplicate, G!Produce, G!Delivered,
           G!Undelivered, G!ReportQueued, G!ReportFailed, G!Raise, G!Crash
  <1>7. ASSUME Vanish
        PROVE  UNCHANGED <<topic, worker>>
    BY <1>7 DEF Vanish, G!Lose, G!Expire
  <1>8. ASSUME NEW p \in Processes,
               AskGateway(p) \/ \E k \in Keys : AskWorker(p, k) \/ MissWorker(p, k)
        PROVE  UNCHANGED <<topic, worker>>
    BY <1>8 DEF AskGateway, AskWorker, MissWorker, gateway
  <1> QED
    BY <1>1, <1>2, <1>3, <1>4, <1>5, <1>6, <1>7, <1>8 DEF Next, vars, gateway

LEMMA WorkerInvStep ==
    ASSUME WInv, [Next]_vars
    PROVE  WInv'
  <1>1. WP!WorkerIInv
    BY SameWorkerInv
  <1>2. WP!WorkerIInv'
    BY <1>1, WorkerAssumptions, WorkerStep, WP!InvStep
  <1>3. WInv' <=> WP!WorkerIInv'
    BY SameWorkerInv, PTL
  <1> QED
    BY <1>2, <1>3

\* What the gateway sees of a step: one of its own, or none.
LEMMA GatewaySees ==
    ASSUME [Next]_vars
    PROVE  [G!Next]_gateway
  <1>1. ASSUME NEW p \in Processes, Pay(p)
        PROVE  G!Next
    BY <1>1 DEF Pay, G!Next
  <1>2. ASSUME NEW r \in Requests, Forward(r)
        PROVE  G!Next
    BY <1>2 DEF Forward, G!Next
  <1>3. ASSUME Vanish
        PROVE  G!Next
    BY <1>3 DEF Vanish, G!Next, G!Keys, Keys
  <1>4. ASSUME NEW p \in Processes,
               AskGateway(p) \/ \E k \in Keys : AskWorker(p, k) \/ MissWorker(p, k)
        PROVE  UNCHANGED gateway
    BY <1>4 DEF AskGateway, AskWorker, MissWorker
  <1>5. ASSUME NEW w \in Workers, Work(w) \/ Interrupt(w) \/ Restart(w)
        PROVE  UNCHANGED gateway
    BY <1>5 DEF Work, Interrupt, Restart
  <1>6. ASSUME Assign \/ \E k \in Keys : Lapse(k)
        PROVE  UNCHANGED gateway
    BY <1>6 DEF Assign, Lapse
  <1> QED
    BY <1>1, <1>2, <1>3, <1>4, <1>5, <1>6 DEF Next, vars

-----------------------------------------------------------------------------
(* What SafePay adds.                                                      *)

\* A handler touches no other process.
LEMMA OthersHandling ==
    ASSUME G!TypeOK, NEW p \in Processes, Pay(p), NEW q \in Processes, q # p
    PROVE  handling'[q] = handling[q]
  BY DEF Pay, G!TypeOK, G!Handle, G!GoTo, G!Respond, G!Receive, G!PingRedis, G!Claim,
         G!FindClaimed, G!ClaimUnheard, G!AnswerDuplicate, G!LoseDuplicate, G!Produce,
         G!Delivered, G!Undelivered, G!ReportQueued, G!ReportFailed, G!Raise, G!Crash

\* The message a worker has in its hands is on the topic.
LEMMA MessageOnTopic ==
    ASSUME G!TypeOK, W!TypeOK, NEW w \in Workers, working[w] \notin {"down", "poll"}
    PROVE  /\ topic[position[w]] \in G!OnTopic /\ topic[position[w]] \in Requests
           /\ KeyOf[topic[position[w]]] = W!Key(w) /\ W!Key(w) \in Keys
  <1>1. DOMAIN Log = DOMAIN topic /\ topic \in Seq(Requests) /\ Log \in Seq(Keys)
    BY DEF Log, G!TypeOK, W!TypeOK
  <1>2. position[w] \in DOMAIN topic
    BY <1>1 DEF W!TypeOK
  <1>3. topic[position[w]] \in Requests
    BY <1>1, <1>2
  <1> QED
    BY <1>2, <1>3 DEF Log, W!Key, G!OnTopic, G!Range, Keys

\* A verdict is reached once, on a message of the topic that can be settled.
LEMMA SettledStep ==
    ASSUME G!TypeOK, W!TypeOK, NEW w \in Workers, Work(w), NEW k \in Keys, settled'[k] # settled[k]
    PROVE  /\ settled[k] = None /\ settled' \in {[settled EXCEPT ![k] = v] : v \in W!Verdicts}
           /\ k \notin Poison
           /\ topic[position[w]] \in G!OnTopic /\ KeyOf[topic[position[w]]] = k
  <1>1. PICK v \in W!Verdicts : W!SettleNew(w, v)
    BY DEF Work, W!Work, W!Poll, W!SkipKnown, W!TakeNew, W!Precheck, W!Settle, W!FindDuplicate,
           W!Record, W!Commit, W!CommitFails, W!Fail, W!FailAfterSettling
  <1>2. k = W!Key(w) /\ working[w] = "settle"
    BY <1>1 DEF W!SettleNew, W!TypeOK
  <1> QED
    BY <1>1, <1>2, MessageOnTopic DEF W!SettleNew

\* Only Work changes the verdicts, and with them what is booked.
LEMMA BookedChange ==
    ASSUME [Next]_vars
    PROVE  UNCHANGED <<settled, booked>> \/ \E w \in Workers : Work(w)
  BY DEF Next, vars, worker, Pay, Forward, Vanish, Interrupt, Restart, Assign, Lapse, AskWorker,
         MissWorker, AskGateway, W!Crash, W!Revoke, W!Restart, W!Assign, W!Expire

LEMMA TypeStep ==
    ASSUME TypeOK, G!TypeOK', W!TypeOK', [Next]_vars
    PROVE  TypeOK'
  <1>1. booked' \in [Keys -> Requests \cup {None}]
    <2>1. ASSUME NEW w \in Workers, Work(w)
          PROVE  booked' \in [Keys -> Requests \cup {None}]
      <3>1. \A k \in Keys : settled'[k] # settled[k] => topic[position[w]] \in Requests
        BY <2>1, SettledStep DEF TypeOK, G!TypeOK, G!OnTopic, G!Range
      <3> QED
        BY <2>1, <3>1 DEF TypeOK, Work
    <2> QED
      BY <2>1, BookedChange DEF TypeOK
  <1>2. seen' \in [Keys -> Told \cup {None}]
    <2>1. ASSUME NEW p \in Processes, NEW k \in Keys, AskWorker(p, k)
          PROVE  seen' \in [Keys -> Told \cup {None}]
      BY <2>1 DEF TypeOK, W!TypeOK, AskWorker, Tell, Told, W!Verdicts
    <2>2. ASSUME NEW p \in Processes, AskGateway(p)
          PROVE  seen' \in [Keys -> Told \cup {None}]
      <3>1. asked[p] \in Keys
        BY <2>2 DEF TypeOK, AskGateway, Free
      <3>2. producer[asked[p]] # None => producer[asked[p]].status \in {"accepted", "queued", "failed"}
        BY <3>1 DEF TypeOK, G!TypeOK, G!Responses, G!Statuses, G!Keys, Keys
      <3> QED
        BY <2>2, <3>1, <3>2 DEF TypeOK, AskGateway, Tell, Told
    <2>3. UNCHANGED seen \/ \E p \in Processes : AskGateway(p) \/ \E k \in Keys : AskWorker(p, k)
      BY DEF Next, vars, queries, Pay, Forward, Vanish, Work, Interrupt, Restart, Assign, Lapse,
             MissWorker
    <2> QED
      BY <2>1, <2>2, <2>3 DEF TypeOK
  <1>3. /\ asked' \in [Processes -> Keys \cup {None}]
        /\ \A p \in Processes : asked'[p] # None => handling'[p] = "idle"
    <2>1. ASSUME NEW p \in Processes, Pay(p)
          PROVE  asked' = asked /\ \A q \in Processes : asked[q] # None => handling'[q] = "idle"
      BY <2>1, OthersHandling DEF TypeOK, Pay, Free, queries
    <2>2. ASSUME NEW p \in Processes, NEW k \in Keys, AskWorker(p, k) \/ MissWorker(p, k)
          PROVE  /\ asked' \in {asked, [asked EXCEPT ![p] = k]}
                 /\ handling' = handling /\ handling[p] = "idle"
      BY <2>2 DEF AskWorker, MissWorker, gateway
    <2>3. ASSUME NEW p \in Processes, AskGateway(p)
          PROVE  asked' = [asked EXCEPT ![p] = None] /\ handling' = handling
      BY <2>3 DEF AskGateway, gateway
    <2>4. \/ asked' = asked /\ handling' = handling
          \/ \E p \in Processes :
                Pay(p) \/ AskGateway(p) \/ \E k \in Keys : AskWorker(p, k) \/ MissWorker(p, k)
      BY DEF Next, vars, queries, gateway, Forward, Vanish, Work, Interrupt, Restart, Assign, Lapse,
             G!BrokerAppend, G!Lose, G!Expire
    <2> QED
      BY <2>1, <2>2, <2>3, <2>4 DEF TypeOK
  <1>4. lapsed' \subseteq Keys
    BY DEF TypeOK, Next, vars, Pay, Forward, Vanish, Work, Interrupt, Restart, Assign, Lapse, AskWorker,
         MissWorker, AskGateway
  <1> QED
    BY <1>1, <1>2, <1>3, <1>4 DEF TypeOK

LEMMA OnTopicGrows ==
    ASSUME G!TypeOK, [Next]_vars
    PROVE  G!OnTopic \subseteq G!OnTopic'
  <1>1. GP!TypeOK
    BY DEF G!TypeOK, GP!TypeOK, G!AfterPing, GP!AfterPing, G!StartingUp, GP!StartingUp,
           G!Responses, GP!Responses, G!Answers, GP!Answers, G!Statuses, GP!Statuses,
           G!ServerError, GP!ServerError, G!Answer, GP!Answer, G!Keys, GP!Keys
  <1>2. GP!OnTopic \subseteq GP!OnTopic'
    BY <1>1, Assumptions, GatewaySees, GatewayStep, GP!GrowStep
  <1> QED
    BY <1>2 DEF G!OnTopic, GP!OnTopic, G!Range, GP!Range

LEMMA BookedStep ==
    ASSUME TypeOK, BookedInv, [Next]_vars
    PROVE  BookedInv'
  <1>1. CASE UNCHANGED <<settled, booked>>
    BY <1>1, OnTopicGrows DEF TypeOK, BookedInv
  <1>2. ASSUME NEW w \in Workers, Work(w)
        PROVE  BookedInv'
    <2> SUFFICES ASSUME NEW k \in Keys
                 PROVE  /\ booked'[k] # None <=> settled'[k] # None
                        /\ booked'[k] # None => booked'[k] \in G!OnTopic' /\ KeyOf[booked'[k]] = k
      BY DEF BookedInv
    <2>1. CASE settled'[k] = settled[k]
      BY <1>2, <2>1, OnTopicGrows DEF TypeOK, BookedInv, Work
    <2>2. CASE settled'[k] # settled[k]
      <3>1. /\ settled'[k] \in W!Verdicts /\ topic[position[w]] \in G!OnTopic
            /\ KeyOf[topic[position[w]]] = k
        BY <1>2, <2>2, SettledStep DEF TypeOK, W!TypeOK
      <3>2. booked'[k] = topic[position[w]]
        BY <1>2, <2>2 DEF Work
      <3>3. topic[position[w]] # None /\ settled'[k] # None
        BY <3>1, SafePayAssumption DEF TypeOK, G!TypeOK, G!OnTopic, G!Range, W!Verdicts, Told
      <3> QED
        BY <3>1, <3>2, <3>3, OnTopicGrows DEF TypeOK
    <2> QED
      BY <2>1, <2>2
  <1> QED
    BY <1>1, <1>2, BookedChange

LEMMA ConsumerStep ==
    ASSUME TypeOK, ConsumerInv, [Next]_vars
    PROVE  ConsumerInv'
  <1> SUFFICES ASSUME NEW k \in Keys, consumer'[k] # None
               PROVE  \E r \in G!OnTopic' : KeyOf[r] = k
    BY DEF ConsumerInv
  <1>1. CASE consumer[k] # None
    BY <1>1, OnTopicGrows DEF TypeOK, ConsumerInv
  <1>2. CASE consumer[k] = None
    <2>1. PICK w \in Workers : Work(w) /\ (W!Precheck(w) \/ W!Record(w))
      <3>1. ASSUME NEW j \in Keys, Lapse(j)
            PROVE  consumer'[k] = None
        BY <1>2, <3>1 DEF TypeOK, W!TypeOK, Lapse, W!Expire
      <3> QED
        BY <1>2, <3>1 DEF Next, vars, worker, Pay, Forward, Vanish, Work, Interrupt, Restart, Assign,
             AskWorker, MissWorker, AskGateway, W!Work, W!Poll, W!SkipKnown, W!TakeNew, W!Settle,
             W!FindDuplicate, W!Commit, W!CommitFails, W!Fail, W!FailAfterSettling, W!LogFailure,
             W!Crash, W!Revoke, W!Restart, W!Assign
    <2>2. k = W!Key(w) /\ working[w] \in {"precheck", "record"}
      BY <1>2, <2>1 DEF TypeOK, W!TypeOK, W!Precheck, W!Record
    <2> QED
      BY <2>2, MessageOnTopic, OnTopicGrows DEF TypeOK
  <1> QED
    BY <1>1, <1>2

LEMMA InvInit == Init => SafePayIInv
  <1> SUFFICES ASSUME Init PROVE SafePayIInv
    OBVIOUS
  <1>1. GP!Init /\ WP!Init
    BY DEF Init, G!Init, GP!Init, W!Init, WP!Init, G!Keys, GP!Keys
  <1>2. G!GatewayIInv
    BY <1>1, Assumptions, GP!InvInit, SameGatewayInv
  <1>3. WInv
    BY <1>1, WorkerAssumptions, WP!InvInit, SameWorkerInv
  <1>4. TypeOK
    BY <1>2, <1>3 DEF Init, TypeOK, WInv, G!GatewayIInv
  <1>5. BookedInv /\ ConsumerInv
    BY DEF Init, W!Init, BookedInv, ConsumerInv
  <1> QED
    BY <1>2, <1>3, <1>4, <1>5 DEF SafePayIInv, WInv

LEMMA InvStep ==
    ASSUME SafePayIInv, [Next]_vars
    PROVE  SafePayIInv'
  <1>1. G!GatewayIInv'
    BY GatewaySees, GatewayInvStep DEF SafePayIInv
  <1>2. WInv'
    BY WorkerInvStep DEF SafePayIInv, WInv, TypeOK
  <1>3. TypeOK'
    BY <1>1, <1>2, TypeStep DEF SafePayIInv, WInv, G!GatewayIInv
  <1>4. BookedInv' /\ ConsumerInv'
    BY BookedStep, ConsumerStep DEF SafePayIInv
  <1> QED
    BY <1>1, <1>2, <1>3, <1>4 DEF SafePayIInv, WInv

\* SafePayIInv holds of every state.
THEOREM Invariance == Spec => []SafePayIInv
  <1>1. SafePayIInv /\ [Next]_vars => SafePayIInv'
    BY InvStep
  <1> QED
    BY <1>1, InvInit, PTL DEF Spec

\* Every variable of the composition keeps its type; in particular a process
\* that is between the two calls of GET /status handles no payment.
THEOREM TypeCorrect == Spec => []TypeOK
  <1>1. SafePayIInv => TypeOK
    BY DEF SafePayIInv
  <1> QED
    BY <1>1, Invariance, PTL

\* The ledger has a payment under the transaction id its clients were given, as
\* long as the gateway's key lives.
THEOREM LedgerHasWhatWasTold == Spec => []SameTransaction
  <1>1. SafePayIInv => SameTransaction
    <2> SUFFICES ASSUME SafePayIInv, NEW r \in Requests, answer[r] \notin {None, G!ServerError},
                        KeyOf[r] \notin expired, booked[KeyOf[r]] # None
                 PROVE  answer[r].body.txn = booked[KeyOf[r]]
      BY DEF SameTransaction
    <2>1. KeyOf[r] \in Keys
      BY DEF Keys
    <2>2. booked[KeyOf[r]] \in G!OnTopic /\ KeyOf[booked[KeyOf[r]]] = KeyOf[r]
      BY <2>1 DEF SafePayIInv, BookedInv
    <2> QED
      BY <2>2 DEF SafePayIInv, G!GatewayIInv, G!SentInv, G!ToldInv, G!Claims
  <1> QED
    BY <1>1, Invariance, PTL

-----------------------------------------------------------------------------
(* SafePay implements Payments.                                            *)

Sent == {KeyOf[r] : r \in received}
Forwarded == {KeyOf[r] : r \in G!OnTopic}

\* An answer other than "queued" promises nothing, and "queued" only what is on
\* the topic.
LEMMA PromiseStep ==
    ASSUME SafePayIInv, NEW p \in Processes, NEW told,
           request[p] \in Requests, G!Respond(p, told),
           told \notin {None, G!ServerError} /\ told.body.status = "queued" =>
               G!Key(p) \in Forwarded
    PROVE  Promised' = Promised \/ \E k \in Forwarded : Promised' = Promised \cup {k}
  <1> DEFINE queued(a) == a \notin {None, G!ServerError} /\ a.body.status = "queued"
  <1>1. Promised = {KeyOf[r] : r \in {q \in Requests : queued(answer[q])}}
        /\ Promised' = {KeyOf[r] : r \in {q \in Requests : queued(answer'[q])}}
    BY DEF Promised, G!ServerError, G!Answer
  <1>2. CASE answer' = answer
    BY <1>1, <1>2
  <1>3. CASE answer' = [answer EXCEPT ![request[p]] = told]
    <2>1. answer[request[p]] = None
      BY DEF SafePayIInv, G!GatewayIInv, G!UnansweredInv, G!Range, G!TypeOK
    <2>2. \A q \in Requests : answer'[q] = IF q = request[p] THEN told ELSE answer[q]
      BY <1>3 DEF SafePayIInv, G!GatewayIInv, G!TypeOK
    <2>3. ~queued(answer[request[p]])
      BY <2>1
    <2> HIDE DEF queued
    <2>4. CASE queued(told)
      <3>1. Promised' = Promised \cup {KeyOf[request[p]]}
        BY <1>1, <2>2, <2>3, <2>4
      <3> QED
        BY <3>1, <2>4 DEF queued, G!Key
    <2>5. CASE ~queued(told)
      BY <1>1, <2>2, <2>3, <2>5
    <2> QED
      BY <2>4, <2>5
  <1> QED
    BY <1>2, <1>3 DEF G!Respond

\* A process answers what it may answer.
LEMMA PayStep ==
    ASSUME SafePayIInv, NEW p \in Processes, Pay(p), received' = received
    PROVE  /\ UNCHANGED <<topic, settled, seen>>
           /\ Promised' = Promised \/ \E k \in Forwarded : Promised' = Promised \cup {k}
  <1>1. UNCHANGED <<topic, settled, seen>>
    BY DEF Pay, worker, queries, G!Handle, G!Receive, G!PingRedis, G!Claim, G!FindClaimed,
       G!ClaimUnheard, G!AnswerDuplicate, G!LoseDuplicate, G!Produce, G!Delivered,
       G!Undelivered, G!ReportQueued, G!ReportFailed, G!Raise, G!Crash
  <1>2. handling[p] \in {"claim", "get", "produce", "queued", "failed"} => request[p] \in Requests
    BY SafePayAssumption
    DEF SafePayIInv, G!GatewayIInv, G!TypeOK, G!StartingUp, G!AfterPing
  <1>3. CASE G!LoseDuplicate(p) \/ G!Raise(p)
    <2>1. request[p] \in Requests /\ G!Respond(p, G!ServerError)
      BY <1>2, <1>3 DEF G!LoseDuplicate, G!Raise
    <2> QED
      BY <1>1, <2>1, PromiseStep
  <1>4. CASE G!AnswerDuplicate(p)
    <2>1. request[p] \in Requests /\ G!Key(p) \in Keys
      BY <1>2, <1>4 DEF G!AnswerDuplicate, G!Key, Keys
    <2>2. /\ producer[G!Key(p)] # None
          /\ G!Respond(p, G!Answer(200, producer[G!Key(p)]))
          /\ G!Answer(200, producer[G!Key(p)]).body = producer[G!Key(p)]
      BY <1>4 DEF G!AnswerDuplicate, G!Answer
    <2>3. producer[G!Key(p)].status = "queued" => G!Key(p) \in Forwarded
      BY <2>1, <2>2
      DEF SafePayIInv, G!GatewayIInv, G!QueuedIsForwarded, G!OwnKeyInv, G!Keys, Keys, Forwarded
    <2> QED
      BY <1>1, <2>1, <2>2, <2>3, PromiseStep
  <1>5. CASE G!ReportQueued(p)
    <2>1. request[p] \in Requests /\ G!Key(p) \in Forwarded
      BY <1>2, <1>5 DEF SafePayIInv, G!GatewayIInv, G!DeliveredInv, G!ReportQueued, G!Key, Forwarded
    <2>2. \E told : G!Respond(p, told)
      BY <1>5 DEF G!ReportQueued
    <2> QED
      BY <1>1, <2>1, <2>2, PromiseStep
  <1>6. CASE G!ReportFailed(p)
    <2>1. request[p] \in Requests
      BY <1>2, <1>6 DEF G!ReportFailed
    <2>2. G!Answer(500, G!Response("failed", request[p])).body.status = "failed"
      BY DEF G!Answer, G!Response
    <2> QED
      BY <1>1, <1>6, <2>1, <2>2, PromiseStep DEF G!ReportFailed
  <1>7. CASE UNCHANGED answer
    BY <1>1, <1>7 DEF Promised, G!ServerError, G!Answer
  <1> QED
    BY <1>3, <1>4, <1>5, <1>6, <1>7
    DEF Pay, G!Handle, G!Receive, G!PingRedis, G!Claim, G!FindClaimed, G!ClaimUnheard, G!Produce,
        G!Delivered, G!Undelivered, G!Crash

\* What GET /status answers is true at that moment.
LEMMA LookStep ==
    ASSUME SafePayIInv, NEW p \in Processes, NEW k \in Keys,
           AskWorker(p, k) \/ (AskGateway(p) /\ asked[p] = k), seen' # seen
    PROVE  P!Look(k)
  <1> DEFINE mayBeTold(status) ==
                 \/ status = "unknown"
                 \/ status \in {"accepted", "failed"} /\ k \in Sent
                 \/ status \in {"queued", "processing"} /\ k \in Forwarded
                 \/ status = "processed" /\ settled[k] # None
                 \/ status = settled[k] /\ settled[k] # None
  <1>1. \A status : mayBeTold(status) => status \in P!Truths(k)
    BY DEF P!Truths, Sent, Forwarded
  <1>2. UNCHANGED <<gateway, worker>>
    BY DEF AskWorker, AskGateway
  <1>3. \E status : mayBeTold(status) /\ seen' = [seen EXCEPT ![k] = status]
    <2>1. CASE AskWorker(p, k)
      <3>1. consumer[k] \in {"processing", "processed", "approved", "rejected"}
        BY <2>1 DEF SafePayIInv, TypeOK, W!TypeOK, W!Verdicts, AskWorker
      <3>2. consumer[k] # None /\ k \in Forwarded
        BY <2>1 DEF SafePayIInv, ConsumerInv, Forwarded, AskWorker
      <3>3. consumer[k] = "processed" => settled[k] # None
        BY DEF SafePayIInv, W!StatusIsTrue
      <3>4. consumer[k] \in {"approved", "rejected"} => settled[k] = consumer[k]
        BY DEF SafePayIInv, W!StatusIsTrue, W!Verdicts
      <3> QED
        BY <2>1, <3>1, <3>2, <3>3, <3>4 DEF AskWorker, Tell
    <2>2. CASE AskGateway(p) /\ asked[p] = k /\ producer[k] = None
      BY <2>2 DEF AskGateway, Tell
    <2>3. CASE AskGateway(p) /\ asked[p] = k /\ producer[k] # None
      <3>1. producer[k].status \in {"accepted", "queued", "failed"}
        BY <2>3 DEF SafePayIInv, TypeOK, G!TypeOK, G!Responses, G!Statuses, G!Keys, Keys
      <3>2. producer[k].txn \in received /\ KeyOf[producer[k].txn] = k
        BY <2>3 DEF SafePayIInv, G!GatewayIInv, G!OwnKeyInv, G!Keys, Keys
      <3>3. k \in Sent
        BY <3>2 DEF Sent
      <3>4. producer[k].status = "queued" => k \in Forwarded
        BY <2>3, <3>2 DEF SafePayIInv, G!GatewayIInv, G!QueuedIsForwarded, G!Keys, Keys, Forwarded
      <3> QED
        BY <2>3, <3>1, <3>3, <3>4 DEF AskGateway, Tell
    <2> QED
      BY <2>1, <2>2, <2>3
  <1>4. UNCHANGED <<Sent, Forwarded, Promised, settled>>
    BY <1>2 DEF gateway, worker, Sent, Forwarded, Promised, G!OnTopic, G!ServerError, G!Answer
  <1> HIDE DEF mayBeTold
  <1> QED
    BY <1>1, <1>3, <1>4 DEF P!Look, Sent, Forwarded

\* A step of a gateway process: a request comes in, or an answer goes out.
LEMMA PayRefines ==
    ASSUME SafePayIInv, NEW p \in Processes, Pay(p)
    PROVE  [P!Next]_(P!vars)
  <1>1. ASSUME NEW r \in Requests, G!Receive(p, r)
        PROVE  P!Send(KeyOf[r]) /\ KeyOf[r] \in Keys
    <2>1. received' = received \cup {r} /\ UNCHANGED <<topic, answer>>
      BY <1>1 DEF G!Receive
    <2>2. UNCHANGED <<settled, seen>>
      BY DEF Pay, worker, queries
    <2>3. Sent' = Sent \cup {KeyOf[r]}
      BY <2>1 DEF Sent
    <2>4. Forwarded' = Forwarded /\ Promised' = Promised
      BY <2>1 DEF Forwarded, Promised, G!OnTopic, G!Range, G!ServerError, G!Answer
    <2> QED
      BY <2>2, <2>3, <2>4 DEF P!Send, Sent, Forwarded, Keys
  <1>2. CASE received' = received
    <2>1. UNCHANGED <<topic, settled, seen>>
      BY <1>2, PayStep
    <2>2. Promised' = Promised \/ \E k \in Forwarded : Promised' = Promised \cup {k}
      BY <1>2, PayStep
    <2>3. Sent' = Sent /\ Forwarded' = Forwarded
      BY <1>2, <2>1 DEF Sent, Forwarded, G!OnTopic, G!Range
    <2>4. CASE Promised' = Promised
      BY <2>1, <2>3, <2>4 DEF P!vars, Sent, Forwarded
    <2>5. ASSUME NEW k \in Forwarded, Promised' = Promised \cup {k}
          PROVE  P!Next
      <3>1. k \in Keys
        BY DEF Forwarded, Keys, SafePayIInv, TypeOK, G!TypeOK, G!OnTopic, G!Range
      <3>2. P!Promise(k)
        BY <2>1, <2>3, <2>5 DEF P!Promise, Sent, Forwarded
      <3> QED
        BY <3>1, <3>2 DEF P!Next
    <2> QED
      BY <2>2, <2>4, <2>5
  <1>3. received' = received \/ \E r \in Requests : G!Receive(p, r)
    BY DEF Pay, G!Handle, G!PingRedis, G!Claim, G!FindClaimed, G!ClaimUnheard, G!AnswerDuplicate,
           G!LoseDuplicate, G!Produce, G!Delivered, G!Undelivered, G!ReportQueued,
           G!ReportFailed, G!Raise, G!Crash
  <1> QED
    BY <1>1, <1>2, <1>3 DEF P!Next

LEMMA ForwardRefines ==
    ASSUME SafePayIInv, NEW r \in Requests, Forward(r)
    PROVE  P!Forward(KeyOf[r])
  <1>1. r \in received /\ topic' = Append(topic, r) /\ UNCHANGED <<received, answer>>
    BY DEF Forward, G!BrokerAppend, SafePayIInv, TypeOK, G!TypeOK
  <1>2. UNCHANGED <<settled, seen>>
    BY DEF Forward, worker, queries
  <1>3. G!OnTopic' = G!OnTopic \cup {r}
    <2>1. GP!TypeOK
      BY SameGatewayInv DEF SafePayIInv, GP!GatewayIInv
    <2>2. GP!OnTopic' = GP!OnTopic \cup {r}
      BY <1>1, <2>1, Assumptions, GP!AppendToTopic
    <2> QED
      BY <2>2 DEF G!OnTopic, GP!OnTopic, G!Range, GP!Range
  <1>4. Sent' = Sent /\ KeyOf[r] \in Sent
    BY <1>1 DEF Sent
  <1>5. Forwarded' = Forwarded \cup {KeyOf[r]}
    BY <1>3 DEF Forwarded
  <1>6. Promised' = Promised
    BY <1>1 DEF Promised, G!ServerError, G!Answer
  <1> QED
    BY <1>2, <1>4, <1>5, <1>6 DEF P!Forward, Sent, Forwarded

LEMMA WorkRefines ==
    ASSUME SafePayIInv, NEW w \in Workers, Work(w)
    PROVE  [P!Next]_(P!vars)
  <1>1. UNCHANGED <<received, topic, answer, seen>>
    BY DEF Work, gateway, queries
  <1>2. Sent' = Sent /\ Forwarded' = Forwarded /\ Promised' = Promised
    BY <1>1 DEF Sent, Forwarded, Promised, G!OnTopic, G!Range, G!ServerError, G!Answer
  <1>3. CASE settled' = settled
    BY <1>1, <1>2, <1>3 DEF P!vars, Sent, Forwarded
  <1>4. CASE settled' # settled
    <2>1. PICK k \in Keys : settled'[k] # settled[k]
      <3>1. W!TypeOK /\ W!TypeOK'
        BY WorkerInvStep DEF SafePayIInv, TypeOK, WInv, Next
      <3> QED
        BY <1>4, <3>1 DEF W!TypeOK
    <2>2. /\ settled[k] = None /\ k \notin Poison
          /\ \E v \in {"approved", "rejected"} : settled' = [settled EXCEPT ![k] = v]
          /\ k \in Forwarded
      BY <2>1, SettledStep DEF SafePayIInv, TypeOK, W!Verdicts, Forwarded
    <2> QED
      BY <1>1, <1>2, <2>2 DEF P!Next, P!Book, Sent, Forwarded
  <1> QED
    BY <1>3, <1>4

\* The other steps change nothing a client is promised.
LEMMA OtherRefines ==
    ASSUME Vanish \/ (\E w \in Workers : Interrupt(w) \/ Restart(w)) \/ Assign
             \/ (\E k \in Keys : Lapse(k)) \/ UNCHANGED vars
             \/ (\E p \in Processes, k \in Keys : MissWorker(p, k))
    PROVE  UNCHANGED P!vars
  <1>1. UNCHANGED <<received, topic, answer, settled, seen>>
    BY DEF Vanish, Interrupt, Restart, Assign, Lapse, MissWorker, vars, gateway, worker, queries,
           G!Lose, G!Expire, W!Crash, W!Revoke, W!Restart, W!Assign, W!Expire
  <1>2. Sent' = Sent /\ Forwarded' = Forwarded /\ Promised' = Promised
    BY <1>1 DEF Sent, Forwarded, Promised, G!OnTopic, G!Range, G!ServerError, G!Answer
  <1> QED
    BY <1>1, <1>2 DEF P!vars, Sent, Forwarded

\* Neither does an answer to GET /status that is lost, or repeats the last one.
LEMMA LookRefines ==
    ASSUME SafePayIInv, NEW p \in Processes,
           AskGateway(p) \/ \E k \in Keys : AskWorker(p, k)
    PROVE  [P!Next]_(P!vars)
  <1>1. UNCHANGED <<received, topic, answer, settled>>
    BY DEF AskGateway, AskWorker, gateway, worker
  <1>2. Sent' = Sent /\ Forwarded' = Forwarded /\ Promised' = Promised
    BY <1>1 DEF Sent, Forwarded, Promised, G!OnTopic, G!Range, G!ServerError, G!Answer
  <1>3. CASE seen' = seen
    BY <1>1, <1>2, <1>3 DEF P!vars, Sent, Forwarded
  <1>4. CASE seen' # seen
    <2>1. AskGateway(p) => asked[p] \in Keys
      BY DEF AskGateway, Free, SafePayIInv, TypeOK
    <2>2. \E k \in Keys : P!Look(k)
      BY <1>4, <2>1, LookStep
    <2> QED
      BY <2>2 DEF P!Next
  <1> QED
    BY <1>3, <1>4

LEMMA RefinesInit == Init => P!Init
  <1> SUFFICES ASSUME Init PROVE P!Init
    OBVIOUS
  <1>1. Sent = {} /\ Forwarded = {} /\ Promised = {}
    BY DEF Init, G!Init, Sent, Forwarded, G!OnTopic, G!Range, Promised
  <1> QED
    BY <1>1 DEF Init, W!Init, P!Init, Sent, Forwarded

LEMMA RefinesStep ==
    ASSUME SafePayIInv, [Next]_vars
    PROVE  [P!Next]_(P!vars)
  <1>1. ASSUME NEW r \in Requests, Forward(r)
        PROVE  P!Next
    BY <1>1, ForwardRefines DEF P!Next, Keys
  <1> QED
    BY <1>1, PayRefines, WorkRefines, LookRefines, OtherRefines DEF Next

\* SafePay implements Payments: nobody is told what is not so.  "queued" is said
\* of what the broker has, GET /status says only what is true when it is said,
\* and a verdict is reached once, on a message the worker could get hold of.
THEOREM ImplementsPayments == Spec => Honest
  <1>1. SafePayIInv /\ [Next]_vars => [P!Next]_(P!vars)
    BY RefinesStep
  <1> QED
    BY <1>1, RefinesInit, Invariance, PTL DEF Spec, Honest, P!Spec

-----------------------------------------------------------------------------
(* An outcome that was read is not taken back.                             *)

\* Only Precheck, Record and Lapse write consumer:<key>.
LEMMA ConsumerWrites ==
    ASSUME SafePayIInv, [Next]_vars, NEW k \in Keys, consumer'[k] # consumer[k]
    PROVE  \/ k \in lapsed'
           \/ \E w \in Workers :
                 /\ Work(w) /\ k = W!Key(w) /\ lapsed' = lapsed
                 /\ \/ working[w] = "precheck" /\ CanHint
                    \/ working[w] = "record" /\ consumer'[k] \in Final
  <1>1. consumer \in [Keys -> W!Verdicts \cup {"processing", "processed", None}]
    BY DEF SafePayIInv, TypeOK, W!TypeOK
  <1>2. CASE \E j \in Keys : Lapse(j)
    BY <1>1, <1>2 DEF Lapse, W!Expire
  <1>3. ASSUME NEW w \in Workers, Work(w), W!Precheck(w)
        PROVE  k = W!Key(w) /\ working[w] = "precheck" /\ CanHint
    BY <1>1, <1>3 DEF W!Precheck
  <1>4. ASSUME NEW w \in Workers, Work(w), W!Record(w)
        PROVE  k = W!Key(w) /\ working[w] = "record" /\ consumer'[k] \in Final
    <2>1. k = W!Key(w) /\ working[w] = "record"
      BY <1>1, <1>4 DEF W!Record
    <2>2. outcome[w] \in {"approved", "rejected", "duplicate"}
      <3>1. outcome[w] = "duplicate" \/ outcome[w] = settled[k]
        BY <2>1 DEF SafePayIInv, W!HandInv, W!Hand
      <3>2. settled[k] # None
        BY <2>1 DEF SafePayIInv, W!HandInv, W!Hand, W!IsSettled, W!Key
      <3> QED
        BY <3>1, <3>2 DEF SafePayIInv, TypeOK, W!TypeOK, W!Verdicts
    <2>3. consumer'[k] = IF outcome[w] = "duplicate" THEN "processed" ELSE outcome[w]
      BY <1>1, <1>4, <2>1 DEF W!Record
    <2> QED
      BY <2>1, <2>2, <2>3 DEF Final
  <1>5. \/ \E j \in Keys : Lapse(j)
        \/ \E w \in Workers : Work(w) /\ (W!Precheck(w) \/ W!Record(w))
    BY DEF Next, vars, worker, Pay, Forward, Vanish, Work, Interrupt, Restart, Assign, AskWorker,
           MissWorker, AskGateway, W!Work, W!Poll, W!SkipKnown, W!TakeNew, W!Settle,
           W!FindDuplicate, W!Commit, W!CommitFails, W!Fail, W!FailAfterSettling, W!LogFailure,
           W!Crash, W!Revoke, W!Restart, W!Assign
  <1> QED
    BY <1>2, <1>3, <1>4, <1>5 DEF Work

\* A worker that is at its pre-check holds the message it took as new.
LEMMA AtPrecheck ==
    ASSUME SafePayIInv, [Next]_vars, NEW w \in Workers, working'[w] = "precheck"
    PROVE  /\ W!Key(w)' = W!Key(w) /\ W!Key(w) \in Keys
           /\ \/ working[w] = "precheck" /\ ~Work(w)
              \/ consumer[W!Key(w)] = None /\ consumer' = consumer
  <1>1. working \in [Workers -> W!Steps] /\ position \in [Workers -> Nat]
    BY DEF SafePayIInv, TypeOK, W!TypeOK
  <1>2. ASSUME NEW v \in Workers, Work(v)
        PROVE  \/ v # w /\ working'[w] = working[w] /\ position'[w] = position[w]
               \/ v = w /\ W!TakeNew(w)
    <2>1. CASE v = w
      BY <1>1, <1>2, <2>1
      DEF Work, W!Work, W!GoTo, W!Poll, W!SkipKnown, W!Precheck, W!Settle, W!FindDuplicate,
          W!Record, W!Commit, W!CommitFails, W!Fail, W!FailAfterSettling, W!LogFailure
    <2>2. CASE v # w
      BY <1>1, <1>2, <2>2
      DEF Work, W!Work, W!GoTo, W!Poll, W!SkipKnown, W!TakeNew, W!Precheck, W!Settle,
          W!FindDuplicate, W!Record, W!Commit, W!CommitFails, W!Fail, W!FailAfterSettling,
          W!LogFailure
    <2> QED
      BY <2>1, <2>2
  <1>3. ASSUME NEW v \in Workers, Interrupt(v) \/ Restart(v)
        PROVE  \/ v # w /\ working'[w] = working[w] /\ position'[w] = position[w]
               \/ UNCHANGED <<working, position>>
    BY <1>1, <1>3 DEF Interrupt, Restart, W!Crash, W!Revoke, W!Restart, W!GoTo
  <1>4. ASSUME Assign
        PROVE  working' = working /\ position'[w] = position[w]
    <2>1. PICK v \in Workers : W!Assign(v)
      BY <1>4 DEF Assign
    <2>2. v # w
      BY <2>1 DEF W!Assign
    <2> QED
      BY <1>1, <2>1, <2>2 DEF W!Assign
  <1>5. \/ UNCHANGED <<working, position>> \/ Assign
        \/ \E v \in Workers : Work(v) \/ Interrupt(v) \/ Restart(v)
    BY DEF Next, vars, worker, Pay, Forward, Vanish, Lapse, AskWorker, MissWorker, AskGateway,
           W!Expire
  <1>6. /\ position'[w] = position[w]
        /\ \/ working[w] = "precheck" /\ ~Work(w)
           \/ W!TakeNew(w)
    <2>1. working[w] = "precheck" => ~Work(w)
      BY <1>2 DEF W!TakeNew
    <2> QED
      BY <1>2, <1>3, <1>4, <1>5, <2>1 DEF W!TakeNew
  <1>7. position[w] \in DOMAIN topic /\ W!Key(w) \in Keys
    <2>1. working[w] \notin {"down", "poll"}
      BY <1>6 DEF W!TakeNew
    <2>2. position[w] \in 1..Len(Log) /\ Log \in Seq(Keys)
      BY <2>1 DEF SafePayIInv, TypeOK, W!TypeOK
    <2>3. DOMAIN Log = 1..Len(Log)
      BY <2>2
    <2> QED
      BY <2>1, <2>2, <2>3, MessageOnTopic DEF SafePayIInv, TypeOK, Log
  <1>8. position[w] \in DOMAIN topic' /\ topic'[position[w]] = topic[position[w]]
    <2>1. topic' = topic \/ \E r \in Requests : topic' = Append(topic, r)
      BY GatewaySees
      DEF gateway, G!Next, G!Handle, G!Receive, G!PingRedis, G!Claim, G!FindClaimed, G!ClaimUnheard,
          G!AnswerDuplicate, G!LoseDuplicate, G!Produce, G!Delivered, G!Undelivered,
          G!ReportQueued, G!ReportFailed, G!Raise, G!Crash, G!BrokerAppend, G!Lose, G!Expire
    <2> QED
      BY <1>7, <2>1 DEF SafePayIInv, TypeOK, G!TypeOK
  <1>9. W!Key(w)' = W!Key(w)
    BY <1>6, <1>7, <1>8 DEF W!Key, Log
  <1> QED
    BY <1>6, <1>7, <1>9 DEF W!TakeNew

LEMMA OutcomeInit ==
    ASSUME Init
    PROVE  OutcomeInv
  BY SafePayAssumption DEF Init, W!Init, OutcomeInv, Final, Told

\* A process that is to answer with the gateway's status found no outcome.
LEMMA OutcomeStep ==
    ASSUME SafePayIInv, OutcomeInv, [Next]_vars, OneProcess, NoLateHint
    PROVE  OutcomeInv' /\ \A k \in Keys \ lapsed : seen[k] \in Final => seen'[k] \in Final
  <1>1. None \notin Final
    BY SafePayAssumption DEF Final, Told
  <1>2. lapsed \subseteq lapsed'
    BY DEF Next, vars, Pay, Forward, Vanish, Work, Interrupt, Restart, Assign, Lapse, AskWorker,
           MissWorker, AskGateway
  <1>3. CanHint => \A w \in Workers : working'[w] = "precheck" => consumer'[W!Key(w)'] = None
    <2> SUFFICES ASSUME CanHint, NEW w \in Workers, working'[w] = "precheck"
                 PROVE  consumer'[W!Key(w)] = None
      BY AtPrecheck
    <2>1. W!Key(w) \in Keys /\ consumer[W!Key(w)] = None
      BY AtPrecheck DEF OutcomeInv
    <2>2. CASE working[w] = "precheck" /\ ~Work(w)
      <3>1. CASE \E k \in Keys : Lapse(k)
        BY <2>1, <3>1 DEF Lapse, W!Expire, SafePayIInv, TypeOK, W!TypeOK
      <3>2. CASE ~\E k \in Keys : Lapse(k)
        <4>1. \A v \in Workers : v = w
          BY DEF NoLateHint
        <4>2. consumer' = consumer
          BY <2>2, <3>2, <4>1
          DEF Next, vars, worker, Pay, Forward, Vanish, Interrupt, Restart, Assign, AskWorker,
              MissWorker, AskGateway, W!Crash, W!Revoke, W!Restart, W!Assign
        <4> QED
          BY <2>1, <4>2
      <3> QED
        BY <3>1, <3>2
    <2> QED
      BY <2>1, <2>2, AtPrecheck
  <1>4. ASSUME NEW k \in Keys \ lapsed', consumer[k] \in Final
        PROVE  consumer'[k] \in Final
    <2>1. CASE consumer'[k] = consumer[k]
      BY <1>4, <2>1
    <2>2. ASSUME NEW w \in Workers, Work(w), k = W!Key(w), working[w] = "precheck", CanHint
          PROVE  FALSE
      BY <1>1, <1>4, <2>2 DEF OutcomeInv
    <2> QED
      BY <1>4, <2>1, <2>2, ConsumerWrites
  <1>5. CASE UNCHANGED <<asked, seen>>
    BY <1>2, <1>3, <1>4, <1>5 DEF OutcomeInv
  <1>6. ASSUME NEW p \in Processes, NEW k \in Keys, AskWorker(p, k)
        PROVE  OutcomeInv' /\ \A j \in Keys \ lapsed : seen[j] \in Final => seen'[j] \in Final
    <2>1. /\ \A q \in Processes : asked[q] = None
          /\ seen' = [seen EXCEPT ![k] = consumer[k]]
          /\ UNCHANGED <<asked, consumer, lapsed>>
      BY <1>6 DEF AskWorker, Tell, Free, OneProcess, worker
    <2>2. \A j \in Keys : seen'[j] = IF j = k THEN consumer[j] ELSE seen[j]
      BY <2>1 DEF SafePayIInv, TypeOK
    <2> QED
      BY <1>3, <2>1, <2>2 DEF OutcomeInv
  <1>7. ASSUME NEW p \in Processes, NEW k \in Keys, MissWorker(p, k)
        PROVE  OutcomeInv' /\ \A j \in Keys \ lapsed : seen[j] \in Final => seen'[j] \in Final
    <2>1. /\ consumer[k] = None /\ UNCHANGED <<seen, consumer, lapsed>>
          /\ \A q \in Processes : asked'[q] = k
      BY <1>7 DEF MissWorker, OneProcess, worker, SafePayIInv, TypeOK
    <2>2. k \notin lapsed => seen[k] \notin Final
      BY <1>1, <2>1 DEF OutcomeInv
    <2> QED
      BY <1>3, <2>1, <2>2 DEF OutcomeInv
  <1>8. ASSUME NEW p \in Processes, AskGateway(p)
        PROVE  OutcomeInv' /\ \A j \in Keys \ lapsed : seen[j] \in Final => seen'[j] \in Final
    <2> DEFINE k == asked[p]
    <2>1. k \in Keys /\ (k \notin lapsed => seen[k] \notin Final)
      BY <1>8 DEF AskGateway, Free, SafePayIInv, TypeOK, OutcomeInv
    <2>2. producer[k] # None => producer[k].status \notin Final
      BY <2>1 DEF SafePayIInv, TypeOK, G!TypeOK, G!Responses, G!Statuses, G!Keys, Keys, Final
    <2>3. /\ \A q \in Processes : asked'[q] = None
          /\ UNCHANGED <<consumer, lapsed>>
          /\ seen' = seen \/ \E status : status \notin Final /\ seen' = [seen EXCEPT ![k] = status]
      BY <1>8, <2>2 DEF AskGateway, Tell, OneProcess, worker, SafePayIInv, TypeOK, Final
    <2>4. \A j \in Keys : seen'[j] = seen[j] \/ (j = k /\ seen'[j] \notin Final)
      BY <2>3 DEF SafePayIInv, TypeOK
    <2> QED
      BY <1>3, <2>1, <2>3, <2>4 DEF OutcomeInv
  <1>9. \/ UNCHANGED <<asked, seen>>
        \/ \E p \in Processes :
              AskGateway(p) \/ \E k \in Keys : AskWorker(p, k) \/ MissWorker(p, k)
    BY DEF Next, vars, queries, Pay, Forward, Vanish, Work, Interrupt, Restart, Assign, Lapse
  <1> QED
    BY <1>5, <1>6, <1>7, <1>8, <1>9

\* While the worker's key lives, an outcome a client has read is still there to be
\* read, no process is about to answer it with the gateway's status, and no
\* worker is about to set "processing" over it.
THEOREM OutcomesHold ==
    ASSUME OneProcess, NoLateHint
    PROVE  Spec => []OutcomeInv
  <1>1. Init => OutcomeInv
    BY OutcomeInit
  <1>2. SafePayIInv /\ OutcomeInv /\ [Next]_vars => OutcomeInv'
    BY OutcomeStep
  <1> QED
    BY <1>1, <1>2, Invariance, PTL DEF Spec

\* A client that has read an outcome reads no other status after it, until the
\* worker's key expires: with one gateway process, which serves the two calls of
\* GET /status and a settlement in between as they come, and either without
\* preliminary statuses or with one worker.
THEOREM OutcomesAreKept ==
    ASSUME OneProcess, NoLateHint
    PROVE  Spec => OutcomeStays
  <1> DEFINE Kept == \A k \in Keys \ lapsed : seen[k] \in Final => seen'[k] \in Final
  <1>1. SafePayIInv /\ OutcomeInv /\ [Next]_vars => [Kept]_vars
    BY OutcomeStep
  <1> QED
    BY <1>1, OutcomesHold, Invariance, PTL DEF Spec, OutcomeStays
=============================================================================
