----------------------------- MODULE Simulator -----------------------------
(***************************************************************************)
(* The bank simulator (bank-simulator/simulator): the loop of engine.py on *)
(* the clock of clock.py.  Each simulated hour it sends the payments of    *)
(* the users who act, one after the other, adds the outcomes to the day's  *)
(* figures and moves the clock on; at midnight it prints the figures.      *)
(*                                                                         *)
(* The loop is a coroutine.  A signal reaches it when it awaits, which is  *)
(* while a payment is on its way or the loop sleeps until the next one is  *)
(* due: phase "send".  When nobody acts it does not await at all.  What the *)
(* gateway answers is left open; a time-out counts as a failure.           *)
(***************************************************************************)
EXTENDS Integers

CONSTANTS
    DayStartHour,   \* the first hour of daytime, and of the first day: 9
    DayEndHour,     \* the last hour of daytime: 20
    LastHour,       \* the hour midnight follows: 23, or fewer as a bound
    EnvDays,        \* values of MAX_SIM_DAYS; 0 is unlimited, as when it is unset
    ArgDays,        \* values of --max-days; 0 is unlimited
    Population,     \* the number of users
    Personas        \* how likely a user is to act in an hour, by day and by night

Chances == {"never", "sometimes", "always"}

ASSUME SimulatorAssumption ==
    /\ LastHour \in Nat
    /\ DayStartHour \in 0..LastHour
    /\ EnvDays \subseteq Int
    /\ ArgDays \subseteq Int
    /\ Population \in Nat
    /\ Personas \subseteq [day : Chances, night : Chances]

VARIABLES
    max_sim_days,   \* SimulationEngine.max_sim_days, 0 for None
    persona,        \* the persona of every user
    hour,           \* SimClock.hour
    sim_day,        \* SimClock.sim_day, counted until the limit is passed
    phase,          \* where engine.run stands
    left,           \* payments still to be sent this hour
    results,        \* outcomes of this hour
    day_stats,      \* SimulationEngine._day_stats
    summary,        \* the figures printed for the day before
    passed,         \* have the real seconds of the hour passed?
    signalled,      \* has SIGTERM or SIGINT been sent?
    stop,           \* SimulationEngine._stop
    actual          \* what became of the payments of this day and the day before

settings == <<max_sim_days, persona>>
vars == <<settings, hour, sim_day, phase, left, results, day_stats, summary, passed, signalled, stop, actual>>

\* A figure: payments sent, and those of them answered below 400.
Figures == [sent : Nat, ok : Nat]
Nothing == [sent |-> 0, ok |-> 0]
Plus(f, g) == [sent |-> f.sent + g.sent, ok |-> f.ok + g.ok]

Limited == max_sim_days # 0

\* The day after which the limit stops the simulator: --max-days may be negative.
LastDay == IF max_sim_days < 1 THEN 1 ELSE max_sim_days

TypeOK ==
    /\ max_sim_days \in EnvDays \cup ArgDays
    /\ persona \in Personas
    /\ hour \in 0..LastHour
    /\ sim_day \in Nat \ {0}
    /\ phase \in {"check", "send", "tally", "stopped"}
    /\ left \in 0..Population
    /\ {results, day_stats, summary} \subseteq Figures
    /\ {passed, signalled, stop} \subseteq BOOLEAN
    /\ actual \in [today : Figures, yesterday : Figures]

-----------------------------------------------------------------------------
DayEnds == hour = LastHour

\* Variant: midnight is missed.
AdvancePastMidnight == hour' = hour + 1 /\ UNCHANGED sim_day

\* SimClock.advance
Advance ==
    /\ hour' = IF DayEnds THEN 0 ELSE hour + 1
    /\ sim_day' = IF DayEnds /\ Limited /\ sim_day <= LastDay THEN sim_day + 1 ELSE sim_day

\* NormalPersona.activity_probability
ActivityProbability ==
    IF hour \in DayStartHour..DayEndHour THEN persona.day ELSE persona.night

\* How many users PopulationPool.sample_actors may return for the hour.
Actors ==
    CASE ActivityProbability = "never"     -> {0}
      [] ActivityProbability = "always"    -> {Population}
      [] ActivityProbability = "sometimes" -> 0..Population

\* Variant: the loop does not look at the event.
StartHourAnyway ==
    /\ phase = "check"
    /\ \E actors \in Actors :
          /\ left' = actors
          /\ phase' = IF actors = 0 THEN "tally" ELSE "send"
    /\ results' = Nothing
    /\ passed' = FALSE
    /\ UNCHANGED <<settings, hour, sim_day, day_stats, summary, signalled, stop, actual>>

\* With nobody acting, send_batch returns at once.
StartHour ==
    /\ phase = "check"
    /\ ~stop
    /\ \E actors \in Actors :
          /\ left' = actors
          /\ phase' = IF actors = 0 THEN "tally" ELSE "send"
    /\ results' = Nothing
    /\ passed' = FALSE
    /\ UNCHANGED <<settings, hour, sim_day, day_stats, summary, signalled, stop, actual>>

\* Variant: the payments are not spread over the window.
SendPaymentAtOnce ==
    /\ phase = "send"
    /\ \E payment \in {[sent |-> 1, ok |-> 0], [sent |-> 1, ok |-> 1]} :
          /\ results' = Plus(results, payment)
          /\ actual' = [actual EXCEPT !.today = Plus(@, payment)]
    /\ left' = left - 1
    /\ phase' = IF left = 1 THEN "tally" ELSE "send"
    /\ UNCHANGED <<settings, hour, sim_day, day_stats, summary, passed, signalled, stop>>

\* send_payment, and the sleep until the next payment is due.  After the last
\* one it lasts to the end of the window.
SendPayment ==
    /\ phase = "send"
    /\ \E payment \in {[sent |-> 1, ok |-> 0], [sent |-> 1, ok |-> 1]} :
          /\ results' = Plus(results, payment)
          /\ actual' = [actual EXCEPT !.today = Plus(@, payment)]
    /\ left' = left - 1
    /\ phase' = IF left = 1 THEN "tally" ELSE "send"
    /\ passed' = (left = 1)
    /\ UNCHANGED <<settings, hour, sim_day, day_stats, summary, signalled, stop>>

\* _log_hour_stats, within the day,
TallyHour ==
    /\ phase = "tally"
    /\ ~DayEnds
    /\ day_stats' = Plus(day_stats, results)
    /\ Advance
    /\ phase' = "check"
    /\ UNCHANGED <<settings, left, results, summary, passed, signalled, stop, actual>>

\* Variant: the summary is printed before the last hour is added.
TallyDayTooSoon ==
    /\ phase = "tally"
    /\ DayEnds
    /\ summary' = day_stats
    /\ day_stats' = results
    /\ actual' = [today |-> Nothing, yesterday |-> actual.today]
    /\ Advance
    /\ stop' = (stop \/ (Limited /\ sim_day >= max_sim_days))
    /\ phase' = "check"
    /\ UNCHANGED <<settings, left, results, passed, signalled>>

\* Variant: the limit is compared with the day that begins.
TallyDayOffByOne ==
    /\ phase = "tally"
    /\ DayEnds
    /\ summary' = Plus(day_stats, results)
    /\ day_stats' = Nothing
    /\ actual' = [today |-> Nothing, yesterday |-> actual.today]
    /\ Advance
    /\ stop' = (stop \/ (Limited /\ sim_day + 1 >= max_sim_days))
    /\ phase' = "check"
    /\ UNCHANGED <<settings, left, results, passed, signalled>>

\* and at its end, where _log_day_summary prints and resets the figures and the
\* day that has ended is compared with the limit.
TallyDay ==
    /\ phase = "tally"
    /\ DayEnds
    /\ summary' = Plus(day_stats, results)
    /\ day_stats' = Nothing
    /\ actual' = [today |-> Nothing, yesterday |-> actual.today]
    /\ Advance
    /\ stop' = (stop \/ (Limited /\ sim_day >= max_sim_days))
    /\ phase' = "check"
    /\ UNCHANGED <<settings, left, results, passed, signalled>>

Stop ==
    /\ phase = "check"
    /\ stop
    /\ phase' = "stopped"
    /\ UNCHANGED <<settings, hour, sim_day, left, results, day_stats, summary, passed, signalled, stop, actual>>

\* The operator, or docker compose, asks the simulator to stop.
Signal ==
    /\ ~signalled
    /\ phase # "stopped"
    /\ signalled' = TRUE
    /\ UNCHANGED <<settings, hour, sim_day, phase, left, results, day_stats, summary, passed, stop, actual>>

\* The event loop runs request_stop while the engine awaits.
RequestStop ==
    /\ signalled
    /\ phase = "send"
    /\ stop' = TRUE
    /\ UNCHANGED <<settings, hour, sim_day, phase, left, results, day_stats, summary, passed, signalled, actual>>

-----------------------------------------------------------------------------
\* _parse_max_sim_days refuses a negative MAX_SIM_DAYS.
EnvLimits == {days \in EnvDays : days >= 0}

\* --max-days overrides it, unchecked.
Init ==
    /\ max_sim_days \in EnvLimits \cup ArgDays
    /\ persona \in Personas
    /\ hour = DayStartHour
    /\ sim_day = 1
    /\ phase = "check"
    /\ left = 0
    /\ results = Nothing
    /\ day_stats = Nothing
    /\ summary = Nothing
    /\ passed = FALSE
    /\ signalled = FALSE
    /\ stop = FALSE
    /\ actual = [today |-> Nothing, yesterday |-> Nothing]

Run == StartHour \/ SendPayment \/ TallyHour \/ TallyDay \/ Stop

Next == Run \/ Signal \/ RequestStop

Spec == Init /\ [][Next]_vars

\* A payment is answered or times out after ten seconds, and the loop goes on.
\* Who acts is drawn anew each hour, so that somebody does again and again, and a
\* pending signal is seen by the event loop, given enough turns of it.
FairSpec ==
    /\ Spec
    /\ WF_vars(Run)
    /\ SF_vars(StartHour /\ phase' = "send")
    /\ SF_vars(RequestStop)

-----------------------------------------------------------------------------
(* Properties.                                                             *)

\* The figures are right at every hour: what is summed up of the day is what
\* became of its payments, those of the running hour apart, and the summary
\* that was printed counts all payments of the day before and no others.
FiguresAreRight ==
    /\ phase = "check" \/ phase = "stopped" => day_stats = actual.today
    /\ phase \in {"send", "tally"} => Plus(day_stats, results) = actual.today
    /\ summary = actual.yesterday

\* Unless it is told to stop sooner, the simulator stops when the day it was
\* limited to is over, and not one payment later; a negative limit, which the
\* environment variable refuses and --max-days takes, is one of a day.
StopsOnTime ==
    /\ phase = "stopped" /\ ~signalled => Limited /\ hour = 0 /\ sim_day = LastDay + 1
    /\ Limited /\ sim_day > LastDay => phase \in {"check", "stopped"}

\* A signal stops the simulator, although it only takes effect between hours and
\* is not seen in an hour without payments.
StopsOnSignal == signalled ~> phase = "stopped"

\* "One sim hour = 3 real seconds": the clock does not move on before the real
\* seconds of the hour have passed, unless nobody acted in it.
HoursLast == [][hour' # hour => passed \/ results = Nothing]_vars

-----------------------------------------------------------------------------
(* Why they hold.                                                          *)

\* Payments are sent while some are left, and the hour is only counted once its
\* real seconds have passed, or nobody acted in it.
HourInv ==
    /\ phase = "send" => left > 0
    /\ phase = "tally" => passed \/ results = Nothing

\* The loop is stopped by the event alone.  Without a signal the event is set by
\* the midnight that ends the last day, and the clock stands there since.
StopInv ==
    /\ phase = "stopped" => stop
    /\ stop => signalled \/ (Limited /\ sim_day > LastDay)
    /\ Limited /\ sim_day > LastDay =>
          stop /\ hour = 0 /\ sim_day = LastDay + 1 /\ phase \in {"check", "stopped"}

SimulatorIInv ==
    /\ TypeOK
    /\ FiguresAreRight
    /\ HourInv
    /\ StopInv
=============================================================================
