------------------------------ MODULE Breaker ------------------------------
(***************************************************************************)
(* CircuitBreaker (server/src/osint/resilience.rs), one for each provider, *)
(* and the calls that collections make through it at the same time.        *)
(***************************************************************************)
EXTENDS Clock, Sequences

CONSTANTS
    Provider,
    Call,                   \* slots for calls under way
    failure_threshold,
    cooldown,               \* in ticks
    tries                   \* max_attempts.max(1)

ASSUME BreakerAssumption ==
    /\ failure_threshold \in Nat \ {0} /\ tries \in Nat \ {0} /\ cooldown \in Nat

VARIABLES
    consecutive_failures,
    open_until,     \* 0 for None: it is only ever compared with the time
    calls,
    called,         \* history: how many calls have gone past the breaker
    recorded        \* history: what each breaker was told, in order

breaker_vars == <<consecutive_failures, open_until, calls, called, recorded>>

\* Which call succeeded or failed, when, and how many had gone past by then.
Report == [ok : BOOLEAN, no : Nat, at : Nat, called : Nat]

NoCall == [to |-> "nobody", attempt_number |-> 0, no |-> 0]

BreakerInit ==
    /\ consecutive_failures = [p \in Provider |-> 0]
    /\ open_until = [p \in Provider |-> 0]
    /\ calls = [c \in Call |-> NoCall]
    /\ called = 0
    /\ recorded = [p \in Provider |-> <<>>]

UnderWay(c) == calls[c] # NoCall

\* Mutation: one more failure than the threshold.
OpenLate(p) == now < open_until[p] /\ consecutive_failures[p] > failure_threshold

is_open(p) == now < open_until[p]

\* A call ends at once, with no attempt, while the breaker is open.
call(c, p) ==
    /\ ~UnderWay(c)
    /\ ~is_open(p)
    /\ calls' = [calls EXCEPT ![c] = [to |-> p, attempt_number |-> 1, no |-> called + 1]]
    /\ called' = called + 1
    /\ UNCHANGED <<consecutive_failures, open_until, recorded>>

Ends(c) == calls' = [calls EXCEPT ![c] = NoCall]
Told(c, ok) ==
    recorded' = [recorded EXCEPT ![calls[c].to] =
                    Append(@, [ok |-> ok, no |-> calls[c].no, at |-> now, called |-> called])]

\* Mutation: a success closes the breaker and the failures still count.
KeepsCounting(p) ==
    /\ open_until' = [open_until EXCEPT ![p] = 0]
    /\ UNCHANGED consecutive_failures

record_success(p) ==
    /\ open_until' = [open_until EXCEPT ![p] = 0]
    /\ consecutive_failures' = [consecutive_failures EXCEPT ![p] = 0]

record_failure(p) ==
    /\ consecutive_failures' = [consecutive_failures EXCEPT ![p] = @ + 1]
    /\ open_until' = IF consecutive_failures[p] + 1 >= failure_threshold
                     THEN [open_until EXCEPT ![p] = now + cooldown] ELSE open_until

\* The provider answers an attempt.
AttemptSucceeds(c) ==
    /\ UnderWay(c)
    /\ record_success(calls[c].to)
    /\ Told(c, TRUE)
    /\ Ends(c)
    /\ UNCHANGED called

\* Mutation: one attempt more than allowed.
RetriedOnceMore(c) ==
    /\ UnderWay(c) /\ calls[c].attempt_number <= tries
    /\ calls' = [calls EXCEPT ![c].attempt_number = @ + 1]
    /\ UNCHANGED <<consecutive_failures, open_until, called, recorded>>

\* An error or a timeout of an attempt that is not the last; the call tries again
\* after a delay and does not look at the breaker.
AttemptRetried(c) ==
    /\ UnderWay(c) /\ calls[c].attempt_number < tries
    /\ calls' = [calls EXCEPT ![c].attempt_number = @ + 1]
    /\ UNCHANGED <<consecutive_failures, open_until, called, recorded>>

LastAttemptFails(c) ==
    /\ UnderWay(c) /\ calls[c].attempt_number >= tries
    /\ record_failure(calls[c].to)
    /\ Told(c, FALSE)
    /\ Ends(c)
    /\ UNCHANGED called

\* The request that collects goes away; the breaker is told nothing.
CallDropped(c) ==
    /\ UnderWay(c)
    /\ Ends(c)
    /\ UNCHANGED <<consecutive_failures, open_until, called, recorded>>

-----------------------------------------------------------------------------
BreakerTypeOK ==
    /\ consecutive_failures \in [Provider -> Nat] /\ open_until \in [Provider -> Nat]
    /\ calls \in [Call -> [to : Provider, attempt_number : 1..tries, no : Nat] \cup {NoCall}]
    /\ called \in Nat
    /\ recorded \in [Provider -> Seq(Report)]

\* The report i was of a failure, and so were the failure_threshold - 1 before it.
Trips(p, i) ==
    /\ failure_threshold <= i
    /\ \A j \in 1..i : j > i - failure_threshold => ~recorded[p][j].ok

\* Nothing better was heard since, and a cooldown has not passed.
Struggling(p) ==
    LET n == Len(recorded[p]) IN Trips(p, n) /\ now < recorded[p][n].at + cooldown

\* A call that had gone past the breaker before the report i has succeeded since.
LateSuccess(p, i) ==
    \E j \in 1..Len(recorded[p]) :
       j > i /\ recorded[p][j].ok /\ recorded[p][j].no <= recorded[p][i].called

\* failure_threshold failures in a row open the breaker for a cooldown, those of
\* a trial after it included, and nothing else opens it or keeps it open: no
\* retry, dropped call or other provider.  resilience.rs:22-24 has it stay open
\* for the cooldown and then allow "a single trial call"; instead the success of
\* a call that was under way when it opened closes it at once, and after the
\* cooldown every call is a trial until one of them has failed.
OpenForCooldown ==
    \A p \in Provider :
       /\ is_open(p) => Struggling(p)
       /\ \A i \in 1..Len(recorded[p]) :
             Trips(p, i) /\ now < recorded[p][i].at + cooldown
             => is_open(p) \/ LateSuccess(p, i)

\* While a provider struggles, the only attempts made on it are of calls that had
\* passed the breaker before its last failure ("every further call fails fast").
NoFurtherAttempts ==
    \A c \in Call :
       UnderWay(c) /\ Struggling(calls[c].to) =>
          LET reports == recorded[calls[c].to]
          IN  calls[c].no <= reports[Len(reports)].called
=============================================================================
