--------------------------- MODULE SimulatorProofs ---------------------------
(***************************************************************************)
(* Proofs about Simulator, for days of any length, any population and any  *)
(* limits.                                                                 *)
(***************************************************************************)
EXTENDS Simulator, TLAPS

\* Figures add up in any order.
LEMMA PlusFigures ==
    ASSUME NEW f \in Figures, NEW g \in Figures, NEW h \in Figures
    PROVE  /\ Plus(f, g) \in Figures
           /\ Plus(f, Plus(g, h)) = Plus(Plus(f, g), h)
           /\ Plus(f, Nothing) = f
  BY DEF Figures, Plus, Nothing

LEMMA NothingIsFigures == Nothing \in Figures
  BY DEF Nothing, Figures

\* A payment, answered in time or not.
LEMMA PaymentIsFigures == {[sent |-> 1, ok |-> 0], [sent |-> 1, ok |-> 1]} \subseteq Figures
  BY DEF Figures

LEMMA ActorsCount ==
    ASSUME TypeOK
    PROVE  Actors \subseteq 0..Population
  <1>1. ActivityProbability \in Chances
    BY SimulatorAssumption DEF TypeOK, ActivityProbability
  <1> QED
    BY <1>1, SimulatorAssumption DEF Actors, Chances

LEMMA TypeStep ==
    ASSUME TypeOK, HourInv, [Next]_vars
    PROVE  TypeOK'
  <1> USE NothingIsFigures, SimulatorAssumption
  <1>1. CASE UNCHANGED vars
    BY <1>1 DEF TypeOK, vars, settings
  <1>2. CASE StartHour
    BY <1>2, ActorsCount DEF TypeOK, StartHour, settings
  <1>3. CASE SendPayment
    <2>1. PICK payment \in Figures :
             /\ results' = Plus(results, payment)
             /\ actual' = [actual EXCEPT !.today = Plus(@, payment)]
      BY <1>3, PaymentIsFigures DEF SendPayment
    <2>2. results' \in Figures /\ actual' \in [today : Figures, yesterday : Figures]
      BY <2>1, PlusFigures DEF TypeOK
    <2>3. left' \in 0..Population
      BY <1>3 DEF TypeOK, HourInv, SendPayment
    <2> QED
      BY <1>3, <2>2, <2>3 DEF TypeOK, SendPayment, settings
  <1>4. CASE TallyHour \/ TallyDay
    <2>1. hour' \in 0..LastHour /\ sim_day' \in Nat \ {0}
      BY <1>4 DEF TypeOK, TallyHour, TallyDay, Advance, DayEnds
    <2>2. {results', day_stats', summary'} \subseteq Figures
      BY <1>4, PlusFigures DEF TypeOK, TallyHour, TallyDay
    <2>3. stop' \in BOOLEAN
      BY <1>4 DEF TypeOK, TallyHour, TallyDay
    <2>4. actual' \in [today : Figures, yesterday : Figures]
      BY <1>4 DEF TypeOK, TallyHour, TallyDay
    <2>5. phase' = "check" /\ UNCHANGED <<settings, left, passed, signalled>>
      BY <1>4 DEF TallyHour, TallyDay
    <2> QED
      BY <2>1, <2>2, <2>3, <2>4, <2>5 DEF TypeOK, settings
  <1>5. CASE Stop \/ Signal \/ RequestStop
    BY <1>5 DEF TypeOK, Stop, Signal, RequestStop, settings
  <1> QED
    BY <1>1, <1>2, <1>3, <1>4, <1>5 DEF Next, Run

LEMMA FiguresStep ==
    ASSUME TypeOK, FiguresAreRight, [Next]_vars
    PROVE  FiguresAreRight'
  <1> USE DEF TypeOK, FiguresAreRight
  <1>1. CASE UNCHANGED vars \/ Stop \/ Signal \/ RequestStop
    BY <1>1 DEF vars, Stop, Signal, RequestStop
  <1>2. CASE StartHour
    BY <1>2, PlusFigures DEF StartHour
  <1>3. CASE SendPayment
    <2>1. PICK payment \in Figures :
             /\ results' = Plus(results, payment)
             /\ actual' = [actual EXCEPT !.today = Plus(@, payment)]
      BY <1>3, PaymentIsFigures DEF SendPayment
    <2>2. Plus(day_stats, results') = actual'.today
      BY <1>3, <2>1, PlusFigures DEF SendPayment
    <2> QED
      BY <1>3, <2>1, <2>2 DEF SendPayment
  <1>4. CASE TallyHour
    BY <1>4 DEF TallyHour
  <1>5. CASE TallyDay
    BY <1>5 DEF TallyDay
  <1> QED
    BY <1>1, <1>2, <1>3, <1>4, <1>5 DEF Next, Run

LEMMA HourStep ==
    ASSUME TypeOK, HourInv, [Next]_vars
    PROVE  HourInv'
  <1> USE DEF HourInv
  <1>1. CASE StartHour
    BY <1>1, ActorsCount, SimulatorAssumption DEF StartHour
  <1>2. CASE SendPayment
    <2>1. left' > 0 \/ left = 1
      BY <1>2, SimulatorAssumption DEF TypeOK, SendPayment
    <2> QED
      BY <1>2, <2>1 DEF SendPayment
  <1>3. CASE UNCHANGED vars \/ TallyHour \/ TallyDay \/ Stop \/ Signal \/ RequestStop
    BY <1>3 DEF vars, TallyHour, TallyDay, Stop, Signal, RequestStop
  <1> QED
    BY <1>1, <1>2, <1>3 DEF Next, Run

LEMMA StopStep ==
    ASSUME TypeOK, StopInv, [Next]_vars
    PROVE  StopInv'
  <1> USE DEF TypeOK, StopInv, Limited, LastDay
  <1>1. max_sim_days \in Int /\ max_sim_days' = max_sim_days
    BY SimulatorAssumption
    DEF vars, settings, Next, Run, StartHour, SendPayment, TallyHour, TallyDay, Stop, Signal,
        RequestStop
  <1>2. CASE TallyHour
    BY <1>1, <1>2 DEF TallyHour, Advance
  <1>3. CASE TallyDay
    <2>1. /\ phase = "tally" /\ phase' = "check" /\ hour' = 0 /\ signalled' = signalled
          /\ stop' <=> stop \/ (Limited /\ sim_day >= max_sim_days)
          /\ sim_day' = IF Limited /\ sim_day <= LastDay THEN sim_day + 1 ELSE sim_day
      BY <1>3 DEF TallyDay, Advance
    <2>2. ~(Limited /\ sim_day > LastDay)
      BY <2>1
    <2>3. CASE Limited
      <3>1. sim_day >= max_sim_days <=> sim_day' > LastDay
        BY <1>1, <2>1, <2>2, <2>3
      <3>2. sim_day' > LastDay => sim_day' = LastDay + 1
        BY <1>1, <2>1, <2>2, <2>3
      <3> QED
        BY <1>1, <2>1, <2>2, <2>3, <3>1, <3>2
    <2>4. CASE ~Limited
      BY <1>1, <2>1, <2>4
    <2> QED
      BY <2>3, <2>4
  <1>4. CASE StartHour \/ SendPayment \/ Stop \/ Signal \/ RequestStop \/ UNCHANGED vars
    BY <1>1, <1>4 DEF StartHour, SendPayment, Stop, Signal, RequestStop, vars
  <1> QED
    BY <1>2, <1>3, <1>4 DEF Next, Run

LEMMA InvInit == Init => SimulatorIInv
  <1> SUFFICES ASSUME Init PROVE SimulatorIInv
    OBVIOUS
  <1>1. TypeOK
    <2>1. max_sim_days \in EnvDays \cup ArgDays
      BY DEF Init, EnvLimits
    <2>2. {passed, signalled, stop} \subseteq BOOLEAN
      BY DEF Init
    <2> QED
      BY <2>1, <2>2, SimulatorAssumption, NothingIsFigures DEF Init, TypeOK
  <1>2. max_sim_days \in Int
    BY <1>1, SimulatorAssumption DEF TypeOK
  <1> QED
    BY <1>1, <1>2
    DEF Init, SimulatorIInv, FiguresAreRight, HourInv, StopInv, Limited, LastDay

LEMMA InvStep == SimulatorIInv /\ [Next]_vars => SimulatorIInv'
  BY TypeStep, FiguresStep, HourStep, StopStep DEF SimulatorIInv

\* SimulatorIInv holds of every state.
THEOREM Invariance == Spec => []SimulatorIInv
  BY InvInit, InvStep, PTL DEF Spec

\* Every variable keeps its type: the clock stays within the day and the number
\* of payments still to be sent within the population.
THEOREM TypeCorrect == Spec => []TypeOK
  <1>1. SimulatorIInv => TypeOK
    BY DEF SimulatorIInv
  <1> QED
    BY <1>1, Invariance, PTL

\* The figures of the running day, and those printed at midnight, are the sums of
\* what became of the payments.
THEOREM FiguresAddUp == Spec => []FiguresAreRight
  <1>1. SimulatorIInv => FiguresAreRight
    BY DEF SimulatorIInv
  <1> QED
    BY <1>1, Invariance, PTL

\* The simulator ends with the last day of the limit, whatever the limit is and
\* wherever it comes from, and not an hour later.
THEOREM EndsWithTheDay == Spec => []StopsOnTime
  <1>1. SimulatorIInv => StopsOnTime
    BY DEF SimulatorIInv, StopInv, StopsOnTime
  <1> QED
    BY <1>1, Invariance, PTL

\* No hour in which payments were sent is shorter than its real seconds.
THEOREM HoursTakeTheirTime == Spec => HoursLast
  <1> DEFINE Lasts == hour' # hour => passed \/ results = Nothing
  <1>1. SimulatorIInv /\ [Next]_vars => [Lasts]_vars
    BY DEF SimulatorIInv, HourInv, Next, Run, StartHour, SendPayment, TallyHour, TallyDay, Stop,
           Signal, RequestStop
  <1> QED
    BY <1>1, Invariance, PTL DEF Spec, HoursLast
=============================================================================
