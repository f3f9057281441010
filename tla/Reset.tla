-------------------------------- MODULE Reset --------------------------------
(***************************************************************************)
(* The ledger, its cache and the reconciler while an operator wipes the    *)
(* stores: scripts/start.sh --fresh, which leaves the services that run    *)
(* running, and scripts/reset-storage.sh, which stops the gateway and the  *)
(* worker.  Neither stops the reconciler.                                  *)
(*                                                                         *)
(* Both empty Postgres in a transaction of its own and Redis afterwards.   *)
(***************************************************************************)
EXTENDS BalanceCache

CONSTANTS
    Scripts,        \* the scripts that are run: "fresh", "reset"
    MaxTroubles     \* bound: wipes, sessions that break off and calls sent twice

ASSUME ResetAssumption == Scripts \subseteq {"fresh", "reset"} /\ MaxTroubles \in Nat

VARIABLES
    script,         \* what the running script does next, or "none"
    stopped,        \* has it stopped the worker?
    wipes           \* how many scripts have been started

operator == <<script, stopped, wipes>>
resetVars == <<cacheVars, operator>>

ResetTypeOK ==
    /\ CacheTypeOK
    /\ script \in {"none", "truncate", "locked", "flush", "start"}
    /\ stopped \in BOOLEAN
    /\ wipes \in 0..MaxTroubles

-----------------------------------------------------------------------------
(* The services while a script runs.                                       *)

\* The first statement of a session that reads ledger_entries, and those before;
\* every session begins by reading transactions.
FirstRead(w) == IF pay[w].source \in SystemAccounts THEN "check" ELSE "seed"
Unread(w) ==
    {"ensure_source", "ensure_destination", "seed"}
    \cup (IF pay[w].source \in SystemAccounts THEN {"insert", "lock", "check"} ELSE {})

\* The statement of w waits for TRUNCATE to let go of ledger_entries.
Blocked(w) == script = "locked" /\ pc[w] # "idle" /\ pc[w] = FirstRead(w)

\* Nothing is begun by a worker that is stopped, or by reading transactions
\* behind TRUNCATE.
Held(w) == Blocked(w) \/ (pc[w] = "idle" /\ (stopped \/ script = "locked"))

Session(w) ==
    /\ ~Held(w)
    /\ Statements(w) \/ Debit(w) \/ Increment(w) \/ SetExpiry(w)
    /\ UNCHANGED operator

Interrupt(w) ==
    /\ wipes + faults < MaxTroubles
    /\ BreakOff(w) \/ IncrementAgain(w)
    /\ UNCHANGED operator

\* Variant: what the session had in hand is not given up.
KillRolledBackOnly(w) ==
    /\ stopped
    /\ pc[w] # "idle"
    /\ Rollback(w)
    /\ UNCHANGED <<redis, reconciler, faults, operator>>

\* docker compose stop breaks off the session of a worker.
Kill(w) ==
    /\ stopped
    /\ pc[w] # "idle"
    /\ Rollback(w)
    /\ incremented' = incremented \ {w}
    /\ UNCHANGED <<cache, lasting, reconciler, faults, operator>>

\* Postgres finds that w waits for ledger_entries, which TRUNCATE has locked, and
\* TRUNCATE for transactions, and aborts one of them.  psql then goes on and
\* returns 0, and the script continues.
Collide(w) ==
    /\ Blocked(w)
    /\ \/ script' = "flush" /\ UNCHANGED vars
       \/ script' = script /\ Rollback(w)
    /\ UNCHANGED <<redis, reconciler, faults, stopped, wipes>>

\* The same with the query of the reconciler, which locks accounts first.
CollideWithQuery ==
    /\ script = "locked"
    /\ Reconciles /\ todo = {}
    /\ script' = "flush"
    /\ UNCHANGED <<cacheVars, stopped, wipes>>

Reconciler == Reconcile /\ (script = "locked" => todo # {}) /\ UNCHANGED operator

\* Redis and the reconciler go on meanwhile.
Background ==
    \/ Reconciler
    \/ CollideWithQuery
    \/ /\ AbandonPass \/ RestartRedis \/ \E k \in Accounts \X Currencies : Expire(k)
       /\ UNCHANGED operator

-----------------------------------------------------------------------------
(* The scripts.                                                            *)

StartScript(name) ==
    /\ script = "none"
    /\ name \in Scripts
    /\ wipes + faults < MaxTroubles
    /\ script' = "truncate"
    /\ stopped' = (name = "reset")
    /\ wipes' = wipes + 1
    /\ UNCHANGED cacheVars

\* TRUNCATE locks ledger_entries, once no session has read it,
LockEntries ==
    /\ script = "truncate"
    /\ ~\E w \in Workers : pc[w] # "idle" /\ (stopped \/ pc[w] \notin Unread(w))
    /\ script' = "locked"
    /\ UNCHANGED <<cacheVars, stopped, wipes>>

\* Variant: the tables are emptied under the sessions (DELETE for TRUNCATE).
TruncateAtOnce ==
    /\ script = "truncate"
    /\ accounts' = EquityRows
    /\ transactions' = {}
    /\ ledger' = {}
    /\ account_balances' = [a \in Accounts |-> 0]
    /\ script' = "flush"
    /\ UNCHANGED <<session, redis, reconciler, faults, stopped, wipes>>

\* then transactions and accounts, once no session is left, and the equity
\* accounts are inserted again.
Truncate ==
    /\ script = "locked"
    /\ Quiet
    /\ accounts' = EquityRows
    /\ transactions' = {}
    /\ ledger' = {}
    /\ account_balances' = [a \in Accounts |-> 0]
    /\ script' = "flush"
    /\ UNCHANGED <<session, redis, reconciler, faults, stopped, wipes>>

\* SKIP_REDIS=1 leaves Redis alone.
SkipRedis ==
    /\ script = "flush" /\ stopped
    /\ script' = "start"
    /\ UNCHANGED <<cacheVars, stopped, wipes>>

\* FLUSHALL
Flush ==
    /\ script = "flush"
    /\ cache' = [k \in Accounts \X Currencies |-> Null]
    /\ lasting' = {}
    /\ script' = "start"
    /\ UNCHANGED <<vars, incremented, reconciler, faults, stopped, wipes>>

StartServices ==
    /\ script = "start"
    /\ script' = "none"
    /\ stopped' = FALSE
    /\ UNCHANGED <<cacheVars, wipes>>

Wipe ==
    \/ \E name \in Scripts : StartScript(name)
    \/ LockEntries \/ Truncate \/ SkipRedis \/ Flush \/ StartServices

ResetInit == CacheInit /\ script = "none" /\ stopped = FALSE /\ wipes = 0

ResetNext ==
    \/ \E w \in Workers : Session(w) \/ Interrupt(w) \/ Kill(w) \/ Collide(w)
    \/ Background
    \/ Wipe

ResetSpec == ResetInit /\ [][ResetNext]_resetVars

-----------------------------------------------------------------------------
(* Properties.                                                             *)

\* "Wipe Kafka topic + Postgres tables + Redis keys (clean demo)": once the
\* script and the sessions are done, no account is served a balance unless it
\* has a row.
NoGhosts ==
    script = "none" /\ Quiet =>
        \A k \in Accounts \X Currencies : cache[k] # Null => accounts[k[1]] # Null
=============================================================================
