----------------------------- MODULE DeltaCircuit -----------------------------
(***************************************************************************)
(* How the Delta adapter sends one kind of request to the exchange          *)
(* (app/brokers/delta_exchange.py, _request): a few attempts per call, and   *)
(* a circuit breaker, shared through Redis by the threads of all worker      *)
(* processes, that pauses calls after repeated failures.  When Redis cannot  *)
(* be reached each process has a breaker of its own (_LOCAL_CIRCUITS).       *)
(*                                                                         *)
(* Counters saturate: failures and streak at Threshold, since no comparison  *)
(* looks further, and sends just above the bound it is checked against.      *)
(***************************************************************************)
EXTENDS Naturals, FiniteSets

CONSTANTS
    Callers,    \* threads that call the exchange, one call after another
    Procs,      \* worker processes
    ProcOf,     \* the process of each caller
    Attempts,   \* delta_retry_attempts
    Threshold,  \* delta_circuit_breaker_failure_threshold
    RedisFails  \* whether a Redis command may raise RedisError

ASSUME CallersAssumption == IsFiniteSet(Callers) /\ Callers # {}
ASSUME ProcOfAssumption == ProcOf \in [Callers -> Procs]
ASSUME AttemptsAssumption == Attempts \in Nat \ {0}
ASSUME ThresholdAssumption == Threshold \in Nat \ {0}
ASSUME RedisFailsAssumption == RedisFails \in BOOLEAN

VARIABLES
    pc,             \* where each call is
    attempt,        \* the attempt of the retry loop
    failures,       \* the Redis counter broker:circuit:<name>:failures
    open,           \* whether the Redis key open_until exists
    localFailures,  \* _LOCAL_CIRCUITS of each process: failures
    localOpen,      \*   and whether its opened_until lies ahead
    streak,         \* history: calls that failed since a success reached Redis
    evidence,       \* history: the streak at the caller's last INCR
    blind,          \* history: callers that could not look at the Redis key
    sends           \* history: attempts sent by the others since it opened

breakerVars == <<failures, open, localFailures, localOpen>>
historyVars == <<streak, evidence, blind, sends>>
vars == <<pc, attempt, breakerVars, historyVars>>

PCs == {"idle", "send", "await", "success", "failure", "open"}

(* Every other caller may be anywhere in its call when one opens the circuit. *)
SendBound == (Cardinality(Callers) - 1) * Attempts

UpTo(n, limit) == IF n < limit THEN n + 1 ELSE limit

Init ==
    /\ pc = [c \in Callers |-> "idle"]
    /\ attempt = [c \in Callers |-> 1]
    /\ failures = 0
    /\ open = FALSE
    /\ localFailures = [p \in Procs |-> 0]
    /\ localOpen = [p \in Procs |-> FALSE]
    /\ streak = 0
    /\ evidence = [c \in Callers |-> 0]
    /\ blind = {}
    /\ sends = 0

Goto(c, label) == pc' = [pc EXCEPT ![c] = label]
End(c) == Goto(c, "idle")

-----------------------------------------------------------------------------
(* _get_circuit_open_until: Redis, or the process's own breaker on an error. *)
LooksClosed(c) ==
    \/ ~open /\ blind' = blind \ {c}
    \/ RedisFails /\ ~localOpen[ProcOf[c]] /\ blind' = blind \cup {c}

(* Faulty variant: the circuit is not looked at. *)
BeginUnchecked(c) ==
    /\ pc[c] = "idle"
    /\ blind' = blind \ {c}
    /\ Goto(c, "send")
    /\ attempt' = [attempt EXCEPT ![c] = 1]
    /\ UNCHANGED <<breakerVars, streak, evidence, sends>>

(* _ensure_circuit_closed, once per call: on to the retry loop, unless the   *)
(* circuit looks open; then BrokerCircuitOpenError ends the call at once and *)
(* nothing has changed.                                                     *)
Begin(c) ==
    /\ pc[c] = "idle"
    /\ LooksClosed(c)
    /\ Goto(c, "send")
    /\ attempt' = [attempt EXCEPT ![c] = 1]
    /\ UNCHANGED <<breakerVars, streak, evidence, sends>>

Send(c) ==
    /\ pc[c] = "send"
    /\ Goto(c, "await")
    /\ sends' = IF open /\ c \notin blind THEN UpTo(sends, SendBound + 1) ELSE sends
    /\ UNCHANGED <<attempt, breakerVars, streak, evidence, blind>>

(* A response below 400: the breaker learns of it before the body is parsed. *)
Answered(c) ==
    /\ pc[c] = "await"
    /\ Goto(c, "success")
    /\ UNCHANGED <<attempt, breakerVars, historyVars>>

(* An error status outside 408, 429 and 50x ends the call and says nothing   *)
(* about the exchange's health.                                             *)
Refused(c) ==
    /\ pc[c] = "await"
    /\ End(c)
    /\ UNCHANGED <<attempt, breakerVars, historyVars>>

(* Faulty variant: one attempt too many, counted from the wrong end. *)
RetryOnceMore(c) ==
    /\ pc[c] = "await"
    /\ IF attempt[c] <= Attempts
         THEN /\ Goto(c, "send")
              /\ attempt' = [attempt EXCEPT ![c] = @ + 1]
         ELSE Goto(c, "failure") /\ UNCHANGED attempt
    /\ UNCHANGED <<breakerVars, historyVars>>

(* A retryable status, a timeout or a broken connection: wait and try again, *)
(* or give up after the last attempt.                                       *)
TransientFailure(c) ==
    /\ pc[c] = "await"
    /\ IF attempt[c] < Attempts
         THEN /\ Goto(c, "send")
              /\ attempt' = [attempt EXCEPT ![c] = @ + 1]
         ELSE Goto(c, "failure") /\ UNCHANGED attempt
    /\ UNCHANGED <<breakerVars, historyVars>>

-----------------------------------------------------------------------------
(* Faulty variant: a success closes the circuit and keeps the count. *)
RecordSuccessKeepsCount(c) ==
    /\ pc[c] = "success"
    /\ Goto(c, "idle")
    /\ open' = FALSE
    /\ streak' = 0
    /\ sends' = 0
    /\ UNCHANGED <<attempt, evidence, blind, failures, localFailures, localOpen>>

DeleteKeys == failures' = 0 /\ open' = FALSE /\ streak' = 0 /\ sends' = 0

(* _record_circuit_success: delete both Redis keys; only if that fails (and   *)
(* it may fail after Redis has deleted them), the entry of the process.      *)
RecordSuccess(c) ==
    /\ pc[c] = "success"
    /\ Goto(c, "idle")
    /\ \/ UNCHANGED <<localFailures, localOpen>> /\ DeleteKeys
       \/ /\ RedisFails
          /\ localFailures' = [localFailures EXCEPT ![ProcOf[c]] = 0]
          /\ localOpen' = [localOpen EXCEPT ![ProcOf[c]] = FALSE]
          /\ DeleteKeys \/ UNCHANGED <<failures, open, streak, sends>>
    /\ UNCHANGED <<attempt, evidence, blind>>

(* The except branch of _record_circuit_failure. *)
CountLocally(c) ==
    LET p == ProcOf[c]
    IN /\ RedisFails
       /\ localFailures' = [localFailures EXCEPT ![p] = UpTo(@, Threshold)]
       /\ localOpen' = [localOpen EXCEPT ![p] = @ \/ localFailures'[p] >= Threshold]

(* _record_circuit_failure, its first half: INCR and EXPIRE the counter.  An *)
(* error may leave the increment in Redis and be counted locally as well.    *)
CountFailure(c) ==
    /\ pc[c] = "failure"
    /\ streak' = UpTo(streak, Threshold)
    /\ evidence' = [evidence EXCEPT ![c] = streak']
    /\ \/ /\ failures' = UpTo(failures, Threshold)
          /\ IF failures' >= Threshold
               THEN Goto(c, "open")
               ELSE End(c)
          /\ UNCHANGED <<localFailures, localOpen>>
       \/ /\ CountLocally(c)
          /\ failures' \in {failures, UpTo(failures, Threshold)}
          /\ End(c)
    /\ UNCHANGED <<attempt, open, blind, sends>>

(* Its second half: SET open_until with the recovery time as TTL.            *)
OpenCircuit(c) ==
    /\ pc[c] = "open"
    /\ End(c)
    /\ \/ /\ open' = TRUE
          /\ sends' = IF open THEN sends ELSE 0
          /\ UNCHANGED <<localFailures, localOpen>>
       \/ /\ CountLocally(c)
          /\ \/ UNCHANGED <<open, sends>>
             \/ open' = TRUE /\ sends' = IF open THEN sends ELSE 0
    /\ UNCHANGED <<attempt, failures, streak, evidence, blind>>

-----------------------------------------------------------------------------
(* The recovery time passes. *)

ForgetFailures ==
    /\ failures # 0
    /\ failures' = 0
    /\ UNCHANGED <<pc, attempt, open, localFailures, localOpen, historyVars>>

(* Faulty variant: open_until without a TTL. *)
StaysOpen ==
    /\ open
    /\ FALSE
    /\ UNCHANGED vars

Recover ==
    /\ open
    /\ open' = FALSE
    /\ sends' = 0
    /\ UNCHANGED <<pc, attempt, failures, localFailures, localOpen, streak, evidence, blind>>

RecoverLocally(p) ==
    /\ localOpen[p]
    /\ localOpen' = [localOpen EXCEPT ![p] = FALSE]
    /\ UNCHANGED <<pc, attempt, failures, open, localFailures, historyVars>>

Continue(c) ==
    \/ Send(c) \/ Answered(c) \/ Refused(c) \/ TransientFailure(c)
    \/ RecordSuccess(c) \/ CountFailure(c) \/ OpenCircuit(c)

Next ==
    \/ \E c \in Callers : Begin(c) \/ Continue(c)
    \/ ForgetFailures \/ Recover
    \/ \E p \in Procs : RecoverLocally(p)

Spec == Init /\ [][Next]_vars

(* A call that has begun goes on, and both forms of open_until pass. *)
FairSpec ==
    /\ Spec
    /\ \A c \in Callers : WF_vars(Continue(c))
    /\ WF_vars(Recover)
    /\ \A p \in Procs : WF_vars(RecoverLocally(p))

-----------------------------------------------------------------------------
TypeOK ==
    /\ pc \in [Callers -> PCs]
    /\ attempt \in [Callers -> 1..Attempts]
    /\ failures \in 0..Threshold
    /\ open \in BOOLEAN
    /\ localFailures \in [Procs -> 0..Threshold]
    /\ localOpen \in [Procs -> BOOLEAN]
    /\ streak \in 0..Threshold
    /\ evidence \in [Callers -> 0..Threshold]
    /\ blind \subseteq Callers
    /\ sends \in 0..(SendBound + 1)

(* The breaker shared through Redis is opened by a caller only after         *)
(* Threshold calls failed and no success that reached Redis lay between: the  *)
(* counter never holds failures from before it, although INCR, SET and the    *)
(* deletes of a success interleave.                                         *)
OpensOnStreak == \A c \in Callers : pc[c] = "open" => evidence[c] >= Threshold

(* While the circuit stays open the exchange sees no more than what the other *)
(* callers had under way, but for those that cannot ask Redis: the circuit is *)
(* checked once per call, so a call begun before finishes all its attempts.  *)
PausesCalls == sends <= SendBound

(* Once calls fail no more the circuit closes for good, in Redis and in every *)
(* process: a failure counted late, or a count left behind by a success that  *)
(* could not reach Redis, does not shut out a healthy exchange for ever.      *)
ReturnsToService ==
    (<>[](\A c \in Callers : pc[c] # "failure"))
        => <>[](~open /\ \A p \in Procs : ~localOpen[p])

=============================================================================
