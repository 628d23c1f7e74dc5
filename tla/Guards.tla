------------------------------- MODULE Guards -------------------------------
(***************************************************************************)
(* What the process keeps in its memory alone, under one clock: the rate   *)
(* limiter in front of the sign-in routes, and the circuit breakers in     *)
(* front of the evidence providers.  A restart loses both.                 *)
(***************************************************************************)
EXTENDS Throttle, Breaker

CONSTANT Loads  \* how many checks and how many calls a behaviour has, and restarts

ASSUME GuardsAssumption == Loads \subseteq [checks : Nat, calls : Nat, restarts : Nat]

VARIABLE left   \* of them

vars == <<now, throttle_vars, breaker_vars, left>>

Init ==
    /\ now = 0
    /\ ThrottleInit
    /\ BreakerInit
    /\ left \in Loads

Spend(what) == left[what] > 0 /\ left' = [left EXCEPT ![what] = @ - 1]

Tick ==
    /\ now < MaxTime /\ now' = now + 1
    /\ UNCHANGED <<throttle_vars, breaker_vars, left>>

Check(k) ==
    /\ Spend("checks")
    /\ check(k)
    /\ UNCHANGED <<now, breaker_vars>>

MakeCall(c, p) ==
    /\ Spend("calls")
    /\ call(c, p)
    /\ UNCHANGED <<now, throttle_vars>>

Attempt(c) ==
    /\ AttemptSucceeds(c) \/ AttemptRetried(c) \/ LastAttemptFails(c) \/ CallDropped(c)
    /\ UNCHANGED <<now, throttle_vars, left>>

\* The clock of the new process starts again.
Restart ==
    /\ Spend("restarts")
    /\ now' = 0
    /\ kept' = {} /\ forgotten' = {} /\ answer' = NoAnswer
    /\ windows' = [k \in Key |-> [count |-> 0, started |-> 0]]
    /\ granted' = [k \in Key |-> <<>>]
    /\ consecutive_failures' = [p \in Provider |-> 0]
    /\ open_until' = [p \in Provider |-> 0]
    /\ calls' = [c \in Call |-> NoCall] /\ called' = 0
    /\ recorded' = [p \in Provider |-> <<>>]

Next ==
    \/ Tick
    \/ \E k \in Key : Check(k)
    \/ \E c \in Call, p \in Provider : MakeCall(c, p)
    \/ \E c \in Call : Attempt(c)
    \/ Restart

Spec == Init /\ [][Next]_vars

-----------------------------------------------------------------------------
\* Every variable of the two guards has its type.
TypeOK ==
    /\ now \in Nat
    /\ ThrottleTypeOK
    /\ BreakerTypeOK
    /\ left \in [checks : Nat, calls : Nat, restarts : Nat]
=============================================================================
