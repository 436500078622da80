--------------------------- MODULE CircuitBreaker ---------------------------
(***************************************************************************)
(* The circuit breaker of src/gptme/circuit_breaker.py: CLOSED, OPEN and   *)
(* HALF_OPEN around calls that several threads make at once.  A thread     *)
(* takes the breaker's lock twice, to be let through and to record the     *)
(* outcome; the call runs between, and the breaker may change meanwhile.   *)
(*                                                                         *)
(* Abstractions.  A clock reading matters only as the time since the last  *)
(* opening, up to the cooldown.  A refused call changes nothing and is no  *)
(* step.                                                                   *)
(***************************************************************************)
EXTENDS Naturals, FiniteSets

CONSTANTS
    Caller,           \* threads that call through the breaker
    FailureThreshold, \* consecutive failures that open it
    Cooldown,         \* time units it stays open
    NoTime            \* _opened_at is None

ASSUME BreakerAssumption ==
    /\ FailureThreshold \in Nat \ {0}
    /\ Cooldown \in Nat
    /\ NoTime \notin Nat

VARIABLES
    state,        \* CircuitBreaker._state
    failureCount, \* CircuitBreaker._failure_count
    openedAt,     \* the time since CircuitBreaker._opened_at, up to Cooldown
    probing,      \* CircuitBreaker._probing
    call,         \* each thread's current_state, once it is let through
    lost          \* history: a probe ended without a word, and _probing stands

breaker == <<state, failureCount, openedAt, probing, lost>>
breakerVars == <<breaker, call>>

BreakerTypeOK ==
    /\ state \in {"closed", "open", "half_open"}
    /\ failureCount \in Nat
    /\ openedAt \in 0..Cooldown \cup {NoTime}
    /\ probing \in BOOLEAN
    /\ lost \in BOOLEAN
    /\ call \in [Caller -> {"none", "closed", "half_open"}]

Probe(c) == call[c] = "half_open"

BreakerInit ==
    /\ state = "closed"
    /\ failureCount = 0
    /\ openedAt = NoTime
    /\ probing = FALSE
    /\ lost = FALSE
    /\ call = [c \in Caller |-> "none"]

-----------------------------------------------------------------------------
(* call: the first critical section.                                       *)

\* A closed breaker lets every call through.
AdmitClosed(c) ==
    /\ call[c] = "none"
    /\ state = "closed"
    /\ call' = [call EXCEPT ![c] = "closed"]
    /\ UNCHANGED breaker

CooledDown == state = "open" /\ openedAt >= Cooldown

\* An open breaker that has cooled down, or a half-open one without a probe,
\* lets one probe through.
AdmitProbe(c) ==
    /\ call[c] = "none"
    /\ CooledDown \/ (state = "half_open" /\ ~probing)
    /\ state' = "half_open"
    /\ probing' = TRUE
    /\ call' = [call EXCEPT ![c] = "half_open"]
    /\ UNCHANGED <<failureCount, openedAt, lost>>

Admit(c) == AdmitClosed(c) \/ AdmitProbe(c)

-----------------------------------------------------------------------------
(* How a call ends.                                                        *)

Returned(c) == call' = [call EXCEPT ![c] = "none"]

ToClosed ==
    /\ state' = "closed"
    /\ failureCount' = 0
    /\ openedAt' = NoTime
    /\ probing' = FALSE
    /\ lost' = FALSE

\* Mutant: the success of a probe that was overtaken leaves the flag.
SucceedFlagKept(c) ==
    /\ call[c] # "none"
    /\ state' = "closed"
    /\ failureCount' = 0
    /\ openedAt' = NoTime
    /\ UNCHANGED <<probing, lost>>
    /\ Returned(c)

\* _record_success closes the breaker whatever became of it during the call.
Succeed(c) ==
    /\ call[c] # "none"
    /\ ToClosed
    /\ Returned(c)

\* A probe's failure opens the breaker again, for another cooldown.
FailProbe(c) ==
    /\ Probe(c)
    /\ state' = "open"
    /\ openedAt' = 0
    /\ probing' = FALSE
    /\ lost' = FALSE
    /\ UNCHANGED failureCount
    /\ Returned(c)

\* Mutant: the threshold is exceeded before the breaker opens.
FailClosedLate(c) ==
    /\ call[c] = "closed"
    /\ failureCount' = failureCount + 1
    /\ IF failureCount' > FailureThreshold /\ state = "closed"
       THEN state' = "open" /\ openedAt' = 0
       ELSE UNCHANGED <<state, openedAt>>
    /\ UNCHANGED <<probing, lost>>
    /\ Returned(c)

\* Mutant: the breaker opens again when it is no longer closed.
FailClosedRestarts(c) ==
    /\ call[c] = "closed"
    /\ failureCount' = failureCount + 1
    /\ IF failureCount' >= FailureThreshold
       THEN state' = "open" /\ openedAt' = 0
       ELSE UNCHANGED <<state, openedAt>>
    /\ UNCHANGED <<probing, lost>>
    /\ Returned(c)

\* Another failure counts, and opens the breaker only if it is still closed.
FailClosed(c) ==
    /\ call[c] = "closed"
    /\ failureCount' = failureCount + 1
    /\ IF failureCount' >= FailureThreshold /\ state = "closed"
       THEN state' = "open" /\ openedAt' = 0
       ELSE UNCHANGED <<state, openedAt>>
    /\ UNCHANGED <<probing, lost>>
    /\ Returned(c)

Fail(c) == FailProbe(c) \/ FailClosed(c)

\* An exception of ignore_exceptions gives up the probe and counts for nothing.
Ignore(c) ==
    /\ call[c] # "none"
    /\ IF Probe(c)
       THEN probing' = FALSE /\ lost' = FALSE
       ELSE UNCHANGED <<probing, lost>>
    /\ UNCHANGED <<state, failureCount, openedAt>>
    /\ Returned(c)

\* A BaseException passes the handler by: nothing is recorded.
Escape(c) ==
    /\ call[c] # "none"
    /\ lost' = (lost \/ (probing /\ Probe(c)))
    /\ UNCHANGED <<state, failureCount, openedAt, probing>>
    /\ Returned(c)

-----------------------------------------------------------------------------
\* reset().
Reset ==
    /\ ToClosed
    /\ UNCHANGED call

\* The monotonic clock.
Tick ==
    /\ openedAt # NoTime /\ openedAt < Cooldown
    /\ openedAt' = openedAt + 1
    /\ UNCHANGED <<state, failureCount, probing, lost, call>>

BreakerNext ==
    \/ \E c \in Caller : Admit(c) \/ Succeed(c) \/ Fail(c) \/ Ignore(c) \/ Escape(c)
    \/ Reset
    \/ Tick

BreakerSpec == BreakerInit /\ [][BreakerNext]_breakerVars

-----------------------------------------------------------------------------
(* Properties.                                                             *)

\* While the breaker is closed, fewer failures than the threshold are counted
\* in a row, however many calls end late, after it has opened and closed again:
\* _record_failure has no other chance to open it.
BelowThreshold == state = "closed" => failureCount < FailureThreshold

\* Calls are refused on behalf of a probe only while a probe is in flight, or after
\* one was lost to a BaseException: every recorded end of a probe, overtaken or
\* not, clears the flag of call().
ProbeFlagHeld ==
    probing => state = "half_open" /\ (lost \/ \E c \in Caller : Probe(c))

\* The breaker refuses calls on behalf of a probe only while one is in flight: the
\* comment in call() says "reject until it resolves".
RefusedBehindProbe == probing => \E c \in Caller : Probe(c)

\* The cooldown of an open breaker starts over only when a probe fails; a failure
\* of a call let through before it opened does not push it back
\* (_record_failure tests the state again).
ClockRestartsByProbe ==
    [][state = "open" /\ state' = "open" =>
         \/ openedAt' >= openedAt
         \/ \E c \in Caller : Probe(c) /\ call'[c] = "none"]_breakerVars
=============================================================================
