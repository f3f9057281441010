---------------------------- MODULE WorkerProofs ----------------------------
(***************************************************************************)
(* What the consumer loop guarantees, for any number of workers and        *)
(* messages: no silent loss, true statuses and settlement in log order.    *)
(***************************************************************************)
EXTENDS Worker, TLAPS

WorkerIInv == TypeOK /\ HandInv /\ NoSilentLoss /\ StatusIsTrue

\* The steps after which neither the log nor what is accounted for has shrunk:
\* that is, all of them.
LEMMA AccountedStays ==
    ASSUME TypeOK, [Next]_vars, NEW i \in 1..Len(log)
    PROVE  /\ i \in 1..Len(log)' /\ log'[i] = log[i]
           /\ IsSettled(i) => settled'[log[i]] = settled[log[i]]
           /\ Accounted(i) => Accounted(i)'
  <1>1. /\ log' = log \/ \E k \in Keys : log' = Append(log, k)
        /\ failures \subseteq failures' /\ hintSkips \subseteq hintSkips'
        /\ \A k \in Keys : settled[k] # None => settled'[k] = settled[k]
    BY DEF TypeOK, Next, vars, Produce, Expire, Work, PollNothing, Crash, Restart, Assign, Revoke,
           Poll, SkipKnown, TakeNew, Precheck, Settle, SettleNew, FindDuplicate, Record, Commit,
           CommitFails, Fail, FailAfterSettling, LogFailure, Key
  <1>2. i \in 1..Len(log)' /\ log'[i] = log[i] /\ log[i] \in Keys
    BY <1>1 DEF TypeOK
  <1> QED
    BY <1>1, <1>2 DEF Accounted, IsSettled

LEMMA MessageAtHand ==
    ASSUME TypeOK, NEW w \in Workers, step[w] \notin {"down", "poll"}
    PROVE  position[w] \in 1..Len(log) /\ Key(w) \in Keys
  <1>1. position[w] \in 1..Len(log)
    BY DEF TypeOK
  <1> QED
    BY <1>1 DEF TypeOK, Key

LEMMA TypeStep ==
    ASSUME TypeOK, HandInv, [Next]_vars
    PROVE  TypeOK'
  <1>1. CASE UNCHANGED vars
    BY <1>1 DEF TypeOK, vars
  <1>2. ASSUME NEW k \in Keys, Produce(k)
        PROVE  TypeOK'
    <2>1. log' \in Seq(Keys) /\ Len(log') = Len(log) + 1 /\ Len(log) \in Nat
      BY <1>2 DEF TypeOK, Produce
    <2> QED
      BY <1>2, <2>1, WorkerAssumption DEF TypeOK, Produce
  <1>3. ASSUME NEW k \in Keys, Expire(k)
        PROVE  TypeOK'
    BY <1>3 DEF TypeOK, Expire
  <1> USE DEF GoTo, Steps, Verdicts
  <1>4. ASSUME NEW w \in Workers, Poll(w)
        PROVE  TypeOK'
    BY <1>4 DEF TypeOK, Poll
  <1>5. ASSUME NEW w \in Workers, SkipKnown(w)
        PROVE  TypeOK'
    <2>1. position[w] \in 1..Len(log) /\ Key(w) \in Keys
      BY <1>5, MessageAtHand DEF SkipKnown
    <2> QED
      BY <1>5, <2>1 DEF TypeOK, SkipKnown
  <1>6. ASSUME NEW w \in Workers, TakeNew(w)
        PROVE  TypeOK'
    BY <1>6 DEF TypeOK, TakeNew
  <1>7. ASSUME NEW w \in Workers, Precheck(w)
        PROVE  TypeOK'
    <2>1. position[w] \in 1..Len(log) /\ Key(w) \in Keys
      BY <1>7, MessageAtHand DEF Precheck
    <2> QED
      BY <1>7, <2>1 DEF TypeOK, Precheck
  <1>8. ASSUME NEW w \in Workers, Settle(w)
        PROVE  TypeOK'
    <2>1. position[w] \in 1..Len(log) /\ Key(w) \in Keys
      BY <1>8, MessageAtHand DEF Settle, SettleNew
    <2> QED
      BY <1>8, <2>1 DEF TypeOK, Settle, SettleNew
  <1>9. ASSUME NEW w \in Workers, FindDuplicate(w)
        PROVE  TypeOK'
    BY <1>9 DEF TypeOK, FindDuplicate
  <1>10. ASSUME NEW w \in Workers, Record(w)
        PROVE  TypeOK'
    <2>1. position[w] \in 1..Len(log) /\ Key(w) \in Keys
      BY <1>10, MessageAtHand DEF Record
    <2> QED
      BY <1>10, <2>1 DEF TypeOK, HandInv, Hand, Record, IsSettled, Key
  <1>11. ASSUME NEW w \in Workers, Commit(w)
        PROVE  TypeOK'
    <2>1. position[w] \in 1..Len(log) /\ Key(w) \in Keys
      BY <1>11, MessageAtHand DEF Commit
    <2> QED
      BY <1>11, <2>1 DEF TypeOK, Commit
  <1>12. ASSUME NEW w \in Workers, CommitFails(w)
        PROVE  TypeOK'
    BY <1>12 DEF TypeOK, CommitFails
  <1>13. ASSUME NEW w \in Workers, Fail(w)
        PROVE  TypeOK'
    <2>1. position[w] \in 1..Len(log) /\ Key(w) \in Keys
      BY <1>13, MessageAtHand DEF Fail
    <2> QED
      BY <1>13, <2>1 DEF TypeOK, Fail, LogFailure
  <1>14. ASSUME NEW w \in Workers, FailAfterSettling(w)
        PROVE  TypeOK'
    <2>1. position[w] \in 1..Len(log) /\ Key(w) \in Keys
      BY <1>14, MessageAtHand DEF FailAfterSettling, SettleNew
    <2> QED
      BY <1>14, <2>1 DEF TypeOK, FailAfterSettling, SettleNew, LogFailure
  <1>15. ASSUME NEW w \in Workers, Crash(w)
        PROVE  TypeOK'
    BY <1>15, WorkerAssumption DEF TypeOK, Crash
  <1>16. ASSUME NEW w \in Workers, Restart(w)
        PROVE  TypeOK'
    BY <1>16 DEF TypeOK, Restart
  <1>17. ASSUME NEW w \in Workers, Assign(w)
        PROVE  TypeOK'
    BY <1>17 DEF TypeOK, Assign
  <1>18. ASSUME NEW w \in Workers, Revoke(w)
        PROVE  TypeOK'
    BY <1>18, WorkerAssumption DEF TypeOK, Revoke
  <1> QED
    BY <1>1, <1>2, <1>3, <1>4, <1>5, <1>6, <1>7, <1>8, <1>9, <1>10, <1>11, <1>12, <1>13, <1>14,
       <1>15, <1>16, <1>17, <1>18 DEF Next, Work, PollNothing

-----------------------------------------------------------------------------
(* True statuses.                                                          *)

LEMMA StatusStep ==
    ASSUME TypeOK, HandInv, StatusIsTrue, [Next]_vars
    PROVE  StatusIsTrue'
  <1> USE DEF StatusIsTrue
  <1>1. CASE UNCHANGED <<consumer, settled>>
    BY <1>1
  <1>2. ASSUME NEW k \in Keys, Expire(k)
        PROVE  StatusIsTrue'
    BY <1>2, WorkerAssumption DEF TypeOK, Expire, Verdicts
  <1>3. ASSUME NEW w \in Workers, Precheck(w)
        PROVE  StatusIsTrue'
    <2>1. Key(w) \in Keys
      BY <1>3, MessageAtHand DEF Precheck
    <2> QED
      BY <1>3, <2>1 DEF TypeOK, Precheck, Verdicts
  <1>4. ASSUME NEW w \in Workers, NEW v \in Verdicts, SettleNew(w, v), UNCHANGED consumer
        PROVE  StatusIsTrue'
    <2>1. Key(w) \in Keys
      BY <1>4, MessageAtHand DEF SettleNew
    <2> QED
      BY <1>4, <2>1, WorkerAssumption DEF TypeOK, SettleNew, Verdicts
  <1>5. ASSUME NEW w \in Workers, Record(w)
        PROVE  StatusIsTrue'
    <2>1. Key(w) \in Keys /\ step[w] = "record"
      BY <1>5, MessageAtHand DEF Record
    <2>2. settled[Key(w)] # None /\ (outcome[w] = "duplicate" \/ outcome[w] = settled[Key(w)])
      BY <2>1 DEF HandInv, Hand, IsSettled, Key
    <2> QED
      BY <1>5, <2>1, <2>2 DEF TypeOK, Record, Verdicts
  <1>6. \/ UNCHANGED <<consumer, settled>>
        \/ \E k \in Keys : Expire(k)
        \/ \E w \in Workers : Precheck(w) \/ Record(w)
        \/ \E w \in Workers, v \in Verdicts : SettleNew(w, v) /\ UNCHANGED consumer
    BY DEF Next, vars, Produce, Work, PollNothing, Crash, Restart, Assign, Revoke, Poll, SkipKnown,
           TakeNew, Settle, FindDuplicate, Commit, CommitFails, Fail, FailAfterSettling, LogFailure
  <1> QED
    BY <1>1, <1>2, <1>3, <1>4, <1>5, <1>6

-----------------------------------------------------------------------------
(* The invariant.                                                          *)

\* A step of another worker does not disturb what holds of w.
LEMMA OthersHand ==
    ASSUME TypeOK, [Next]_vars, NEW w \in Workers, Hand(w),
           UNCHANGED <<step[w], position[w], outcome[w]>>
    PROVE  Hand(w)'
  <1>1. \A i \in 1..position[w] : i \in 1..Len(log)
    BY DEF TypeOK
  <1>2. \A i \in 1..position[w] : Accounted(i) => Accounted(i)'
    BY <1>1, AccountedStays
  <1>3. \A i \in 1..(position[w] - 1) : Accounted(i)'
    BY <1>2 DEF Hand, TypeOK
  <1>4. step[w] \in {"poll", "commit"} /\ position[w] > 0 => Accounted(position[w])'
    <2>1. position[w] > 0 => position[w] \in 1..position[w]
      BY DEF TypeOK
    <2> QED
      BY <1>2, <2>1 DEF Hand, Accounted, IsSettled
  <1>5. step[w] = "record" => /\ IsSettled(position[w])'
                              /\ outcome[w] = "duplicate" \/ outcome[w] = settled'[Key(w)']
    <2> SUFFICES ASSUME step[w] = "record"
                 PROVE  /\ settled'[log'[position[w]]] # None
                        /\ outcome[w] = "duplicate" \/ outcome[w] = settled'[log'[position[w]]]
      BY DEF IsSettled, Key
    <2>1. position[w] \in 1..Len(log)
      BY MessageAtHand
    <2> QED
      BY <2>1, AccountedStays DEF Hand, IsSettled, Key
  <1> QED
    BY <1>3, <1>4, <1>5 DEF Hand

\* The step of w itself: for each action, what is accounted for behind its new
\* position.
LEMMA OwnHand ==
    ASSUME WorkerIInv, NEW w \in Workers,
           Work(w) \/ Crash(w) \/ Restart(w) \/ Assign(w), [Next]_vars
    PROVE  Hand(w)'
  <1> USE DEF GoTo
  <1>1. TypeOK /\ Hand(w)
    BY DEF WorkerIInv, HandInv
  <1>2. \A i \in 1..Len(log) : Accounted(i) => Accounted(i)'
    BY <1>1, AccountedStays
  <1>3. position[w] \in Nat /\ position[w] <= Len(log) /\ Len(log) \in Nat
    BY <1>1 DEF TypeOK
  <1>4. step[w] \notin {"down", "poll"} => position[w] \in 1..Len(log) /\ Key(w) \in Keys
    BY <1>1, MessageAtHand
  <1>5. \A i \in 1..(position[w] - 1) : Accounted(i)'
    BY <1>1, <1>2, <1>3 DEF Hand
  <1>6. CASE Poll(w)
    BY <1>1, <1>2, <1>3, <1>6 DEF TypeOK, Hand, Poll
  <1>7. CASE SkipKnown(w)
    <2>1. Accounted(position[w])'
      BY <1>1, <1>4, <1>7, WorkerAssumption
      DEF WorkerIInv, TypeOK, StatusIsTrue, Verdicts, SkipKnown, Accounted, IsSettled, Key
    <2> QED
      BY <1>1, <1>4, <1>5, <1>7, <2>1 DEF TypeOK, Hand, SkipKnown
  <1>8. CASE TakeNew(w) \/ Precheck(w)
    BY <1>1, <1>5, <1>8 DEF TypeOK, Hand, TakeNew, Precheck
  <1>9. CASE Settle(w)
    <2>1. /\ IsSettled(position[w])'
          /\ outcome'[w] = settled'[Key(w)'] /\ Key(w)' = Key(w)
      BY <1>1, <1>4, <1>9, WorkerAssumption DEF TypeOK, Settle, SettleNew, Verdicts, IsSettled, Key
    <2> QED
      BY <1>1, <1>5, <1>9, <2>1 DEF TypeOK, Hand, Settle, SettleNew
  <1>10. CASE FindDuplicate(w)
    BY <1>1, <1>4, <1>5, <1>10 DEF TypeOK, Hand, FindDuplicate, IsSettled, Key
  <1>11. CASE Record(w)
    <2>1. Accounted(position[w])
      BY <1>1, <1>11 DEF Hand, Record, Accounted
    <2> QED
      BY <1>1, <1>2, <1>4, <1>5, <1>11, <2>1 DEF TypeOK, Hand, Record
  <1>12. CASE Commit(w) \/ CommitFails(w)
    BY <1>1, <1>2, <1>4, <1>5, <1>12 DEF TypeOK, Hand, Commit, CommitFails
  <1>13. CASE Fail(w) \/ FailAfterSettling(w)
    <2>1. Accounted(position[w])'
      BY <1>13 DEF Fail, FailAfterSettling, LogFailure, Accounted
    <2> QED
      BY <1>1, <1>5, <1>13, <2>1 DEF TypeOK, Hand, Fail, FailAfterSettling, LogFailure, SettleNew
  <1>14. CASE Crash(w)
    BY <1>1, <1>14 DEF TypeOK, Hand, Crash
  <1>15. CASE Restart(w)
    BY <1>1, <1>5, <1>15 DEF TypeOK, Hand, Restart
  <1>16. CASE Assign(w)
    <2>1. \A i \in 1..committed : Accounted(i)'
      BY <1>1, <1>2 DEF WorkerIInv, NoSilentLoss, TypeOK
    <2> QED
      BY <1>1, <1>16, <2>1 DEF TypeOK, Hand, Assign
  <1> QED
    BY <1>6, <1>7, <1>8, <1>9, <1>10, <1>11, <1>12, <1>13, <1>14, <1>15, <1>16 DEF Work

LEMMA HandStep ==
    ASSUME WorkerIInv, [Next]_vars
    PROVE  HandInv'
  <1> SUFFICES ASSUME NEW w \in Workers PROVE Hand(w)'
    BY DEF HandInv
  <1>1. TypeOK /\ Hand(w)
    BY DEF WorkerIInv, HandInv
  <1>2. CASE UNCHANGED <<step[w], position[w], outcome[w]>>
    BY <1>1, <1>2, OthersHand
  <1>3. CASE Work(w) \/ Crash(w) \/ Restart(w) \/ Assign(w)
    BY <1>3, OwnHand
  <1>4. ASSUME NEW v \in Workers, v # w, Work(v)
        PROVE  UNCHANGED <<step[w], position[w], outcome[w]>>
    BY <1>1, <1>4
    DEF TypeOK, Work, GoTo, Poll, SkipKnown, TakeNew, Precheck, Settle, FindDuplicate, Record,
        Commit, CommitFails, Fail, FailAfterSettling, LogFailure
  <1>5. ASSUME NEW v \in Workers, v # w, Crash(v) \/ Restart(v) \/ Assign(v)
        PROVE  UNCHANGED <<step[w], position[w], outcome[w]>>
    BY <1>1, <1>5 DEF TypeOK, GoTo, Crash, Restart, Assign
  <1>6. ASSUME NEW v \in Workers, Revoke(v) \/ PollNothing(v)
        PROVE  UNCHANGED <<step[w], position[w], outcome[w]>>
    BY <1>6 DEF Revoke, PollNothing, vars
  <1>7. ASSUME NEW k \in Keys, Produce(k) \/ Expire(k)
        PROVE  UNCHANGED <<step[w], position[w], outcome[w]>>
    BY <1>7 DEF Produce, Expire
  <1>8. CASE UNCHANGED vars
    BY <1>2, <1>8 DEF vars
  <1> QED
    BY <1>2, <1>3, <1>4, <1>5, <1>6, <1>7, <1>8 DEF Next

LEMMA NoSilentLossStep ==
    ASSUME WorkerIInv, [Next]_vars
    PROVE  NoSilentLoss'
  <1>1. \A i \in 1..Len(log) : Accounted(i) => Accounted(i)'
    BY AccountedStays DEF WorkerIInv
  <1>2. committed \in 0..Len(log)
    BY DEF WorkerIInv, TypeOK
  <1>3. CASE UNCHANGED committed
    BY <1>1, <1>2, <1>3 DEF WorkerIInv, NoSilentLoss
  <1>4. ASSUME NEW w \in Workers, Commit(w)
        PROVE  NoSilentLoss'
    <2>1. position[w] \in 1..Len(log)
      BY <1>4, MessageAtHand DEF WorkerIInv, Commit
    <2>2. \A i \in 1..position[w] : Accounted(i)
      BY <1>4, <2>1 DEF WorkerIInv, HandInv, Hand, Commit
    <2> QED
      BY <1>1, <1>4, <2>1, <2>2 DEF NoSilentLoss, Commit
  <1>5. UNCHANGED committed \/ \E w \in Workers : Commit(w)
    BY DEF Next, vars, Produce, Expire, Work, PollNothing, Crash, Restart, Assign, Revoke, Poll,
           SkipKnown, TakeNew, Precheck, Settle, FindDuplicate, Record, CommitFails, Fail,
           FailAfterSettling, LogFailure
  <1> QED
    BY <1>3, <1>4, <1>5

LEMMA InvInit == Init => WorkerIInv
  <1> SUFFICES ASSUME Init PROVE WorkerIInv
    OBVIOUS
  <1>1. TypeOK
    BY WorkerAssumption DEF Init, TypeOK, Steps
  <1>2. HandInv
    <2> SUFFICES ASSUME NEW w \in Workers PROVE Hand(w)
      BY DEF HandInv
    <2>1. position[w] = 0 /\ step[w] = "poll"
      BY DEF Init
    <2> QED
      BY <2>1 DEF Hand
  <1>3. NoSilentLoss
    BY DEF Init, NoSilentLoss
  <1>4. StatusIsTrue
    BY WorkerAssumption DEF Init, StatusIsTrue, Verdicts
  <1> QED
    BY <1>1, <1>2, <1>3, <1>4 DEF WorkerIInv

LEMMA InvStep ==
    ASSUME WorkerIInv, [Next]_vars
    PROVE  WorkerIInv'
  BY TypeStep, HandStep, NoSilentLossStep, StatusStep DEF WorkerIInv

\* WorkerIInv holds of every state.
THEOREM Invariance == Spec => []WorkerIInv
  <1>1. WorkerIInv /\ [Next]_vars => WorkerIInv'
    BY InvStep
  <1> QED
    BY <1>1, InvInit, PTL DEF Spec

\* Every variable keeps its type; in particular no worker handles a message
\* beyond the end of the log.
THEOREM TypeCorrect == Spec => []TypeOK
  <1>1. WorkerIInv => TypeOK
    BY DEF WorkerIInv
  <1> QED
    BY <1>1, Invariance, PTL

\* A worker leaves nothing behind unaccounted for, and what it is about to record
\* is the verdict in Postgres.
THEOREM HandsAreClean == Spec => []HandInv
  <1>1. WorkerIInv => HandInv
    BY DEF WorkerIInv
  <1> QED
    BY <1>1, Invariance, PTL

\* No message is passed by the committed offset without being settled, logged as
\* a failure, or skipped after a preliminary status.
THEOREM NothingLostSilently == Spec => []NoSilentLoss
  <1>1. WorkerIInv => NoSilentLoss
    BY DEF WorkerIInv
  <1> QED
    BY <1>1, Invariance, PTL

\* The verdict under consumer:<key> is the verdict in Postgres.
THEOREM StatusesAreTrue == Spec => []StatusIsTrue
  <1>1. WorkerIInv => StatusIsTrue
    BY DEF WorkerIInv
  <1> QED
    BY <1>1, Invariance, PTL

\* Payments are settled in log order, as far as they are not accounted for
\* otherwise.
THEOREM SettledInOrder == Spec => SettlesInOrder
  <1> DEFINE InOrder ==
          \A k \in Keys :
              settled'[k] # settled[k] =>
                  \E i \in 1..Len(log) : log[i] = k /\ \A j \in 1..(i - 1) : Accounted(j)
  <1>1. WorkerIInv /\ [Next]_vars => InOrder
    <2> SUFFICES ASSUME WorkerIInv, [Next]_vars
                 PROVE  InOrder
      OBVIOUS
    <2>1. CASE UNCHANGED settled
      BY <2>1
    <2>2. ASSUME NEW w \in Workers, NEW v \in Verdicts, SettleNew(w, v)
          PROVE  InOrder
      <3>1. position[w] \in 1..Len(log) /\ Key(w) \in Keys
        BY <2>2, MessageAtHand DEF WorkerIInv, SettleNew
      <3>2. \A j \in 1..(position[w] - 1) : Accounted(j)
        BY DEF WorkerIInv, HandInv, Hand
      <3>3. \A k \in Keys : settled'[k] # settled[k] => k = Key(w)
        BY <2>2 DEF SettleNew, WorkerIInv, TypeOK
      <3> QED
        BY <3>1, <3>2, <3>3 DEF Key
    <2>3. UNCHANGED settled \/ \E w \in Workers, v \in Verdicts : SettleNew(w, v)
      BY DEF Next, vars, Produce, Expire, Work, PollNothing, Crash, Restart, Assign, Revoke, Poll,
             SkipKnown, TakeNew, Precheck, Settle, FindDuplicate, Record, Commit, CommitFails,
             Fail, FailAfterSettling
    <2> QED
      BY <2>1, <2>2, <2>3
  <1> QED
    BY <1>1, Invariance, PTL DEF Spec, SettlesInOrder

-----------------------------------------------------------------------------
(* What is asked of settle_payment.                                        *)

\* Redelivered, repeated and raced messages, and settlements whose answer is lost,
\* set the register of a key at most once, and never that of a poisoned one: the
\* ledger's VerdictsAreFinal is all that the properties above rest on.
THEOREM RestsOnSettleOnce == Spec => UsesRegister
  <1>1. Init => Register!Init
    BY DEF Init, Register!Init
  <1>2. WorkerIInv /\ [Next]_vars => [Register!Next]_settled
    <2> SUFFICES ASSUME WorkerIInv, Next, settled' # settled
                 PROVE  Register!Next
      BY DEF vars
    <2>1. PICK w \in Workers : Settle(w) \/ FailAfterSettling(w)
      BY DEF Next, Produce, Expire, Work, PollNothing, Crash, Restart, Assign, Revoke, Poll,
             SkipKnown, TakeNew, Precheck, FindDuplicate, Record, Commit, CommitFails, Fail,
             vars
    <2>2. PICK verdict \in Verdicts : SettleNew(w, verdict)
      BY <2>1 DEF Settle, FailAfterSettling
    <2>3. Key(w) \in Keys
      BY <2>2, MessageAtHand DEF WorkerIInv, SettleNew
    <2> QED
      BY <2>2, <2>3 DEF SettleNew, Verdicts, Register!Next, Register!Settle
  <1> QED
    BY <1>1, <1>2, Invariance, PTL DEF Spec, UsesRegister, Register!Spec

-----------------------------------------------------------------------------
(* Without failures and hints.                                             *)

HintFree == hintSkips = {} /\ \A k \in Keys : consumer[k] # "processing"

LEMMA HintFreeInit ==
    ASSUME Init
    PROVE  HintFree
  BY WorkerAssumption DEF Init, HintFree

LEMMA HintFreeStep ==
    ASSUME ~CanHint, WorkerIInv, HintFree, [Next]_vars
    PROVE  HintFree'
  <1> USE DEF HintFree
  <1>1. ASSUME NEW w \in Workers, SkipKnown(w)
        PROVE  HintFree'
    BY <1>1, MessageAtHand DEF WorkerIInv, SkipKnown
  <1>2. ASSUME NEW w \in Workers, Record(w)
        PROVE  HintFree'
    <2>1. Key(w) \in Keys /\ step[w] = "record"
      BY <1>2, MessageAtHand DEF WorkerIInv, Record
    <2>2. outcome[w] = "duplicate" \/ outcome[w] \in Verdicts
      BY <2>1 DEF WorkerIInv, TypeOK, HandInv, Hand, IsSettled, Key
    <2> QED
      BY <1>2, <2>1, <2>2 DEF WorkerIInv, TypeOK, Record, Verdicts
  <1>3. ASSUME NEW k \in Keys, Expire(k)
        PROVE  HintFree'
    BY <1>3, WorkerAssumption DEF WorkerIInv, TypeOK, Expire
  <1>4. CASE UNCHANGED <<hintSkips, consumer>>
    BY <1>4
  <1>5. \/ \E w \in Workers : SkipKnown(w) \/ Record(w)
        \/ \E k \in Keys : Expire(k)
        \/ UNCHANGED <<hintSkips, consumer>>
    BY DEF Next, vars, Produce, Work, PollNothing, Crash, Restart, Assign, Revoke, Poll, TakeNew,
           Precheck, Settle, FindDuplicate, Commit, CommitFails, Fail, FailAfterSettling, LogFailure
  <1> QED
    BY <1>1, <1>2, <1>3, <1>4, <1>5

\* As long as no cached balance looks insufficient, a message is skipped only when
\* its payment is in Postgres, whatever else fails.
THEOREM SkipsAreSafeWithoutHints ==
    ASSUME ~CanHint
    PROVE  Spec => SkipsOnlySettled
  <1> DEFINE Safe == \A w \in Workers : SkipKnown(w) => settled[Key(w)] # None
  <1>1. WorkerIInv /\ HintFree => Safe
    <2> SUFFICES ASSUME WorkerIInv, HintFree, NEW w \in Workers, SkipKnown(w)
                 PROVE  settled[Key(w)] # None
      OBVIOUS
    <2>1. Key(w) \in Keys /\ consumer[Key(w)] \notin {None, "processing"}
      BY MessageAtHand DEF WorkerIInv, HintFree, SkipKnown
    <2> QED
      BY <2>1, WorkerAssumption DEF WorkerIInv, TypeOK, StatusIsTrue, Verdicts
  <1>2. WorkerIInv /\ HintFree /\ [Next]_vars => HintFree'
    BY HintFreeStep
  <1> QED
    BY <1>1, <1>2, HintFreeInit, Invariance, PTL DEF Spec, SkipsOnlySettled

\* When nothing fails, no cached balance looks insufficient and every message
\* can be settled, the promise of worker.py is kept: the offset is committed
\* only past settled messages.
THEOREM CommitsOnlySuccessWhenAllGoesWell ==
    ASSUME ~CanFail, ~CanHint, Poison = {}
    PROVE  Spec => []CommitsOnlySuccess
  <1> DEFINE Clean == HintFree /\ failures = {}
  <1>1. Init => Clean
    BY HintFreeInit DEF Init
  <1>2. WorkerIInv /\ Clean /\ [Next]_vars => Clean'
    <2> SUFFICES ASSUME WorkerIInv, Clean, [Next]_vars
                 PROVE  failures' = failures
      BY HintFreeStep
    <2>1. \A w \in Workers : ~Fail(w) /\ ~FailAfterSettling(w)
      BY DEF Fail, FailAfterSettling
    <2> QED
      BY <2>1
      DEF Next, vars, Produce, Expire, Work, PollNothing, Crash, Restart, Assign, Revoke, Poll,
          SkipKnown, TakeNew, Precheck, Settle, FindDuplicate, Record, Commit, CommitFails, Fail,
          FailAfterSettling
  <1>3. WorkerIInv /\ Clean => CommitsOnlySuccess
    BY DEF WorkerIInv, NoSilentLoss, Accounted, CommitsOnlySuccess, HintFree
  <1> HIDE DEF Clean
  <1> QED
    BY <1>1, <1>2, <1>3, Invariance, PTL DEF Spec
=============================================================================
