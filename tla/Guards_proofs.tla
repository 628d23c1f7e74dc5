--------------------------- MODULE Guards_proofs ---------------------------
(***************************************************************************)
(* Proofs about Guards, for any keys, budgets and windows, any size of the *)
(* map, any providers and calls, and unbounded time.                       *)
(***************************************************************************)
EXTENDS Guards, SequenceTheorems, TLAPS

\* The limiter.  The running entry of a key counts the grants at the end of its
\* history that belong to its window.
EntryOK(k) ==
    /\ windows[k].started <= now
    /\ windows[k].count <= max_attempts[k]
    /\ k \in kept =>
          /\ windows[k].count <= Len(granted[k])
          /\ \A i \in 1..Len(granted[k]) :
                i + windows[k].count > Len(granted[k]) =>
                    granted[k][i].started = windows[k].started

GrantsOK(k) ==
    \A i \in 1..Len(granted[k]) :
        /\ granted[k][i].started <= granted[k][i].at
        /\ granted[k][i].at <= granted[k][i].started + window[k]
        /\ granted[k][i].at <= now

\* Windows of a key that was not forgotten do not overlap, and none holds more
\* than the budget.
Unforgotten(k) == k \notin forgotten \/ Shortest(k)
WindowsApart(k) ==
    /\ \A i \in 1..Len(granted[k]) :
          IF k \in kept
          THEN i + windows[k].count <= Len(granted[k]) =>
                   granted[k][i].started + window[k] < windows[k].started
          ELSE granted[k][i].started + window[k] < now
    /\ \A i \in 1..Len(granted[k]) :
          i + max_attempts[k] <= Len(granted[k]) =>
              granted[k][i].started + window[k] < granted[k][i + max_attempts[k]].started

ThrottleInv ==
    /\ \A k \in Key : EntryOK(k) /\ GrantsOK(k) /\ (Unforgotten(k) => WindowsApart(k))
    /\ RefusalEarned

\* The breaker.  consecutive_failures counts the failures at the end of what it
\* was told, and open_until follows from them.
TailOK(p) ==
    LET n == Len(recorded[p])
        f == consecutive_failures[p]
    IN  /\ f <= n
        /\ \A i \in 1..n : i + f > n => ~recorded[p][i].ok
        /\ \A i \in 1..n : i + f = n => recorded[p][i].ok
        /\ f >= failure_threshold => open_until[p] = recorded[p][n].at + cooldown
        /\ f < failure_threshold => open_until[p] = 0

\* Reports come in the order of time and of calls.
InOrder(p) ==
    /\ \A i \in 1..Len(recorded[p]) :
          recorded[p][i].at <= now /\ recorded[p][i].called <= called
    /\ \A i, j \in 1..Len(recorded[p]) : i <= j => recorded[p][i].at <= recorded[p][j].at

\* Nobody is under way who had not gone past the breaker before the report i.
Behind(p, i) ==
    \A c \in Call :
       UnderWay(c) /\ calls[c].to = p => calls[c].no <= recorded[p][i].called
OnlyFailuresSince(p, i) ==
    \A j \in 1..Len(recorded[p]) : j > i => ~recorded[p][j].ok

\* For a cooldown after failure_threshold failures in a row nobody gets past the
\* breaker, unless someone who was past it succeeds.
HeldOff(p) ==
    \A i \in 1..Len(recorded[p]) :
       Trips(p, i) /\ now < recorded[p][i].at + cooldown
       => LateSuccess(p, i) \/ (Behind(p, i) /\ OnlyFailuresSince(p, i))

CallsOK == \A c \in Call : UnderWay(c) => calls[c].no <= called

BreakerInv == (\A p \in Provider : TailOK(p) /\ InOrder(p) /\ HeldOff(p)) /\ CallsOK

-----------------------------------------------------------------------------
LEMMA AppendFacts ==
    ASSUME NEW S, NEW s \in Seq(S), NEW e \in S
    PROVE  /\ Append(s, e) \in Seq(S)
           /\ Len(Append(s, e)) = Len(s) + 1
           /\ \A i \in 1..Len(s) : Append(s, e)[i] = s[i]
           /\ Append(s, e)[Len(s) + 1] = e
    OBVIOUS

LEMMA TypeInit == Init => TypeOK
BY ThrottleAssumption, BreakerAssumption, GuardsAssumption
   DEF Init, ThrottleInit, BreakerInit, TypeOK, ThrottleTypeOK, BreakerTypeOK, Window,
       NoAnswer, NoCall

LEMMA EntryType ==
    ASSUME TypeOK, NEW k \in Key
    PROVE  /\ entry(k) \in Window
           /\ retained(k) \subseteq kept
BY DEF entry, retained, TypeOK, ThrottleTypeOK, Window

LEMMA CheckType ==
    ASSUME TypeOK, NEW k \in Key, check(k)
    PROVE  ThrottleTypeOK'
<1> DEFINE e == entry(k)
<1>1. e \in Window /\ retained(k) \subseteq kept  BY EntryType
<1>2. e.count \in Nat /\ e.started \in Nat /\ [e EXCEPT !.count = @ + 1] \in Window
  BY <1>1 DEF Window
<1>3. windows' \in [Key -> Window]
  BY <1>1, <1>2 DEF check, TypeOK, ThrottleTypeOK
<1>4. [at |-> now, started |-> e.started] \in Grant
  BY <1>2 DEF Grant, TypeOK
<1>5. granted' \in [Key -> Seq(Grant)]
  BY <1>4 DEF check, TypeOK, ThrottleTypeOK
<1>6. QED
  BY <1>1, <1>3, <1>5 DEF check, TypeOK, ThrottleTypeOK

LEMMA ToldType ==
    ASSUME BreakerTypeOK, now \in Nat, NEW c \in Call, calls[c].to \in Provider,
           calls[c].no \in Nat, NEW ok \in BOOLEAN, Told(c, ok)
    PROVE  recorded' \in [Provider -> Seq(Report)]
<1>1. [ok |-> ok, no |-> calls[c].no, at |-> now, called |-> called] \in Report
  BY DEF Report, BreakerTypeOK
<1>2. QED  BY <1>1 DEF Told, BreakerTypeOK

LEMMA UnderWayFacts ==
    ASSUME BreakerTypeOK, NEW c \in Call, UnderWay(c)
    PROVE  /\ calls[c] \in [to : Provider, attempt_number : 1..tries, no : Nat]
           /\ calls[c].to \in Provider /\ calls[c].no \in Nat
BY DEF BreakerTypeOK, UnderWay

LEMMA AttemptType ==
    ASSUME TypeOK, NEW c \in Call, Attempt(c)
    PROVE  BreakerTypeOK'
<1> USE BreakerAssumption
<1>1. BreakerTypeOK /\ now \in Nat  BY DEF TypeOK
<1>2. CASE AttemptSucceeds(c)
  <2>1. calls[c].to \in Provider /\ calls[c].no \in Nat
    BY <1>1, <1>2, UnderWayFacts DEF AttemptSucceeds
  <2>2. recorded' \in [Provider -> Seq(Report)]
    BY <1>1, <1>2, <2>1, ToldType DEF AttemptSucceeds
  <2>3. calls' \in [Call -> [to : Provider, attempt_number : 1..tries, no : Nat] \cup {NoCall}]
    BY <1>1, <1>2 DEF AttemptSucceeds, Ends, BreakerTypeOK
  <2>4. consecutive_failures' \in [Provider -> Nat] /\ open_until' \in [Provider -> Nat]
    BY <1>1, <1>2 DEF AttemptSucceeds, record_success, BreakerTypeOK
  <2>5. QED  BY <1>1, <1>2, <2>2, <2>3, <2>4 DEF AttemptSucceeds, BreakerTypeOK
<1>3. CASE AttemptRetried(c)
  <2>1. calls[c] \in [to : Provider, attempt_number : 1..tries, no : Nat]
    BY <1>1, <1>3, UnderWayFacts DEF AttemptRetried
  <2>2. [calls[c] EXCEPT !.attempt_number = @ + 1]
           \in [to : Provider, attempt_number : 1..tries, no : Nat]
    BY <2>1, <1>3 DEF AttemptRetried
  <2>3. QED  BY <1>1, <1>3, <2>2 DEF AttemptRetried, BreakerTypeOK
<1>4. CASE LastAttemptFails(c)
  <2>1. calls[c].to \in Provider /\ calls[c].no \in Nat
    BY <1>1, <1>4, UnderWayFacts DEF LastAttemptFails
  <2>2. recorded' \in [Provider -> Seq(Report)]
    BY <1>1, <1>4, <2>1, ToldType DEF LastAttemptFails
  <2>3. calls' \in [Call -> [to : Provider, attempt_number : 1..tries, no : Nat] \cup {NoCall}]
    BY <1>1, <1>4 DEF LastAttemptFails, Ends, BreakerTypeOK
  <2>4. consecutive_failures' \in [Provider -> Nat] /\ open_until' \in [Provider -> Nat]
    BY <1>1, <1>4, <2>1 DEF LastAttemptFails, record_failure, BreakerTypeOK
  <2>5. QED  BY <1>1, <1>4, <2>1, <2>2, <2>3, <2>4 DEF LastAttemptFails, BreakerTypeOK
<1>5. CASE CallDropped(c)
  BY <1>1, <1>5 DEF CallDropped, Ends, BreakerTypeOK
<1>6. QED  BY <1>2, <1>3, <1>4, <1>5 DEF Attempt

LEMMA TypeStep == TypeOK /\ [Next]_vars => TypeOK'
<1> SUFFICES ASSUME TypeOK, [Next]_vars PROVE TypeOK'
  OBVIOUS
<1> USE BreakerAssumption
<1>1. CASE Tick
  BY <1>1 DEF Tick, TypeOK, ThrottleTypeOK, BreakerTypeOK, throttle_vars, breaker_vars, NoCall
<1>2. ASSUME NEW k \in Key, Check(k) PROVE TypeOK'
  <2>1. ThrottleTypeOK'  BY <1>2, CheckType DEF Check
  <2>2. left' \in [checks : Nat, calls : Nat, restarts : Nat]
    BY <1>2 DEF Check, Spend, TypeOK
  <2>3. BreakerTypeOK'
    BY <1>2 DEF Check, breaker_vars, BreakerTypeOK, TypeOK, NoCall
  <2>4. QED  BY <1>2, <2>1, <2>2, <2>3 DEF Check, TypeOK
<1>3. ASSUME NEW c \in Call, NEW p \in Provider, MakeCall(c, p) PROVE TypeOK'
  <2>1. left' \in [checks : Nat, calls : Nat, restarts : Nat]
    BY <1>3 DEF MakeCall, Spend, TypeOK
  <2>2. ThrottleTypeOK'
    BY <1>3 DEF MakeCall, throttle_vars, ThrottleTypeOK, TypeOK
  <2>3. [to |-> p, attempt_number |-> 1, no |-> called + 1]
           \in [to : Provider, attempt_number : 1..tries, no : Nat]
    BY DEF TypeOK, BreakerTypeOK
  <2>4. BreakerTypeOK'
    BY <1>3, <2>3 DEF MakeCall, call, BreakerTypeOK, TypeOK
  <2>5. QED  BY <1>3, <2>1, <2>2, <2>4 DEF MakeCall, TypeOK
<1>4. ASSUME NEW c \in Call, Attempt(c) PROVE TypeOK'
  <2>1. BreakerTypeOK'  BY <1>4, AttemptType
  <2>2. ThrottleTypeOK'  BY <1>4 DEF Attempt, throttle_vars, ThrottleTypeOK, TypeOK
  <2>3. QED  BY <1>4, <2>1, <2>2 DEF Attempt, TypeOK
<1>5. CASE Restart
  <2>1. left' \in [checks : Nat, calls : Nat, restarts : Nat]
    BY <1>5 DEF Restart, Spend, TypeOK
  <2>2. ThrottleTypeOK'
    BY <1>5 DEF Restart, ThrottleTypeOK, Window, NoAnswer
  <2>3. BreakerTypeOK'  BY <1>5 DEF Restart, BreakerTypeOK
  <2>4. QED  BY <1>5, <2>1, <2>2, <2>3 DEF Restart, TypeOK
<1>6. CASE UNCHANGED vars
  BY <1>6 DEF vars, throttle_vars, breaker_vars, TypeOK, ThrottleTypeOK, BreakerTypeOK, NoCall
<1>7. QED  BY <1>1, <1>2, <1>3, <1>4, <1>5, <1>6 DEF Next

\* The guards keep their types for ever (TypeOK): every call under way is of one
\* provider and within its attempts.
THEOREM GuardsTypeCorrect == Spec => []TypeOK
<1>1. QED  BY TypeInit, TypeStep, PTL DEF Spec

-----------------------------------------------------------------------------
\* The limiter.

LEMMA ThrottleInvInit == Init => ThrottleInv
BY ThrottleAssumption
   DEF Init, ThrottleInit, ThrottleInv, EntryOK, GrantsOK, WindowsApart, RefusalEarned, NoAnswer

\* What a step keeps as long as the history and the entry of a key stay.
LEMMA KeyStays ==
    ASSUME TypeOK, NEW k \in Key, EntryOK(k), GrantsOK(k),
           now' \in Nat, now <= now',
           granted'[k] = granted[k], windows'[k] = windows[k],
           k \in kept' => k \in kept
    PROVE  EntryOK(k)' /\ GrantsOK(k)'
<1>1. windows[k] \in Window /\ granted[k] \in Seq(Grant) /\ now \in Nat
  BY DEF TypeOK, ThrottleTypeOK
<1>2. \A i \in 1..Len(granted[k]) : granted[k][i] \in Grant
  BY <1>1
<1>3. EntryOK(k)'  BY <1>1 DEF EntryOK, Window
<1>4. GrantsOK(k)'  BY <1>1, <1>2 DEF GrantsOK, Grant
<1>5. QED  BY <1>3, <1>4

\* The same for the windows, when an entry may go that is over.
LEMMA WindowsStay ==
    ASSUME TypeOK, NEW k \in Key, EntryOK(k), WindowsApart(k),
           now' \in Nat, now <= now',
           granted'[k] = granted[k], windows'[k] = windows[k],
           k \in kept' => k \in kept,
           k \in kept /\ k \notin kept' => windows[k].started + window[k] < now
    PROVE  WindowsApart(k)'
<1> USE ThrottleAssumption
<1>1. windows[k] \in Window /\ granted[k] \in Seq(Grant) /\ now \in Nat /\ window[k] \in Nat
  BY DEF TypeOK, ThrottleTypeOK
<1> DEFINE G == granted[k]
           n == Len(granted[k])
<1>2. n \in Nat /\ \A i \in 1..n : G[i].started \in Nat
  <2>1. n \in Nat /\ \A i \in 1..n : G[i] \in Grant  BY <1>1
  <2>2. QED  BY <2>1 DEF Grant
<1>3. windows[k].started \in Nat /\ windows[k].count \in Nat
  BY <1>1 DEF Window
<1>4. ASSUME NEW i \in 1..n, k \notin kept'
      PROVE  G[i].started + window[k] < now'
  <2>1. CASE k \notin kept
    BY <1>1, <1>2, <1>4, <2>1 DEF WindowsApart
  <2>2. CASE k \in kept
    <3>1. windows[k].started + window[k] < now  BY <1>4, <2>2
    <3>2. CASE i + windows[k].count > n
      BY <1>1, <1>2, <1>3, <2>2, <3>1, <3>2 DEF EntryOK
    <3>3. CASE i + windows[k].count <= n
      <4>1. G[i].started + window[k] < windows[k].started
        BY <2>2, <3>3 DEF WindowsApart
      <4>2. QED  BY <1>1, <1>2, <1>3, <3>1, <4>1
    <3>4. QED  BY <1>2, <1>3, <3>2, <3>3
  <2>3. QED  BY <2>1, <2>2
<1>5. ASSUME NEW i \in 1..n, k \in kept', i + windows[k].count <= n
      PROVE  G[i].started + window[k] < windows[k].started
  BY <1>5 DEF WindowsApart
<1>6. QED  BY <1>4, <1>5 DEF WindowsApart

\* A check looks at its own key: the entry it uses is that of a running window,
\* or a new one after all windows of the key.
LEMMA CheckedEntry ==
    ASSUME TypeOK, NEW k \in Key, EntryOK(k)
    PROVE  \/ /\ k \in kept /\ entry(k) = windows[k]
              /\ now <= windows[k].started + window[k]
           \/ /\ entry(k) = [count |-> 0, started |-> now]
              /\ k \in kept => windows[k].started + window[k] < now
<1> USE ThrottleAssumption
<1>1. windows[k] \in Window /\ now \in Nat /\ window[k] \in Nat
  BY DEF TypeOK, ThrottleTypeOK
<1>2. windows[k].started \in Nat  BY <1>1 DEF Window
<1>3. k \in retained(k) => k \in kept  BY EntryType
<1>4. k \in kept /\ k \notin retained(k) => ~Within(windows[k].started, window[k])
  BY DEF retained
<1>5. QED  BY <1>1, <1>2, <1>3, <1>4 DEF entry, Within

LEMMA CheckOwn ==
    ASSUME TypeOK, NEW k \in Key, check(k), UNCHANGED now, EntryOK(k), GrantsOK(k)
    PROVE  /\ EntryOK(k)' /\ GrantsOK(k)'
           /\ WindowsApart(k) => WindowsApart(k)'
           /\ k \in answer'.refused =>
                 /\ granted' = granted
                 /\ max_attempts[k] <= Len(granted[k])
                 /\ now <= granted[k][Len(granted[k]) + 1 - max_attempts[k]].at + window[k]
<1> USE ThrottleAssumption
<1>1. /\ granted[k] \in Seq(Grant) /\ windows[k] \in Window
      /\ now \in Nat /\ window[k] \in Nat /\ max_attempts[k] \in Nat \ {0}
  BY DEF TypeOK, ThrottleTypeOK
<1>2. PICK G : G = granted[k]  OBVIOUS
<1>3. PICK n : n = Len(G)  OBVIOUS
<1>4. PICK e : e = entry(k)  OBVIOUS
<1>5. PICK m : m = max_attempts[k]  OBVIOUS
<1>6. PICK w : w = window[k]  OBVIOUS
<1>7. PICK old : old = windows[k]  OBVIOUS
<1>8. /\ G \in Seq(Grant) /\ n \in Nat /\ m \in Nat \ {0} /\ w \in Nat
      /\ old.count \in Nat /\ old.started \in Nat
  BY <1>1, <1>2, <1>3, <1>5, <1>6, <1>7 DEF Window
<1>9. \A i \in 1..n : G[i].started \in Nat /\ G[i].at \in Nat
  <2>1. \A i \in 1..n : G[i] \in Grant  BY <1>3, <1>8
  <2>2. QED  BY <2>1 DEF Grant
<1>10. e \in Window /\ e.count \in Nat /\ e.started \in Nat
  BY <1>4, EntryType DEF Window
<1>11. \/ k \in kept /\ e = old /\ now <= old.started + w
       \/ /\ e = [count |-> 0, started |-> now]
          /\ k \in kept => old.started + w < now
  BY <1>4, <1>6, <1>7, CheckedEntry
<1>12. /\ old.started <= now /\ old.count <= m
       /\ k \in kept => /\ old.count <= n
                        /\ \A i \in 1..n : i + old.count > n => G[i].started = old.started
  BY <1>2, <1>3, <1>5, <1>7 DEF EntryOK
<1>13. \A i \in 1..n : /\ G[i].started <= G[i].at /\ G[i].at <= G[i].started + w
                       /\ G[i].at <= now
  BY <1>2, <1>3, <1>6 DEF GrantsOK
<1>14. e.started <= now /\ now <= e.started + w /\ e.count <= n
  BY <1>1, <1>8, <1>11, <1>12
<1>15. \A i \in 1..n : i + e.count > n => G[i].started = e.started
  BY <1>8, <1>11, <1>12
<1>16. k \in kept' /\ now' = now  BY DEF check
<1>17. CASE e.count < m
  <2>1. PICK g : g = [at |-> now, started |-> e.started]  OBVIOUS
  <2>2. g \in Grant /\ g.at = now /\ g.started = e.started
    BY <1>1, <1>10, <2>1 DEF Grant
  <2>3. granted'[k] = Append(G, g) /\ k \notin answer'.refused
    BY <1>2, <1>4, <1>5, <1>17, <2>1 DEF check, TypeOK, ThrottleTypeOK
  <2>4. windows'[k] = [e EXCEPT !.count = @ + 1]
    BY <1>4, <1>5, <1>17 DEF check, TypeOK, ThrottleTypeOK
  <2>5. windows'[k].count = e.count + 1 /\ windows'[k].started = e.started
    BY <1>10, <2>4 DEF Window
  <2>6. PICK H : H = granted'[k]  OBVIOUS
  <2>7. /\ Len(H) = n + 1 /\ H[n + 1] = g
        /\ \A i \in 1..n : H[i] = G[i]
    BY <1>3, <1>8, <2>2, <2>3, <2>6, AppendFacts
  <2>8. \A i \in 1..(n + 1) : i \in 1..n \/ i = n + 1  BY <1>8
  <2>9. /\ e.count + 1 <= n + 1 /\ e.count + 1 <= m /\ e.started <= now
        /\ \A i \in 1..(n + 1) : i + (e.count + 1) > n + 1 => H[i].started = e.started
    <3>1. e.count + 1 <= n + 1 /\ e.count + 1 <= m /\ e.started <= now
      BY <1>8, <1>10, <1>14, <1>17
    <3>2. ASSUME NEW i \in 1..n, i + (e.count + 1) > n + 1
          PROVE  H[i].started = e.started
      <4>1. i + e.count > n  BY <1>8, <1>10, <3>2
      <4>2. G[i].started = e.started  BY <1>15, <4>1
      <4>3. QED  BY <2>7, <4>2
    <3>3. H[n + 1].started = e.started  BY <2>2, <2>7
    <3>4. QED  BY <2>8, <3>1, <3>2, <3>3
  <2>10. EntryOK(k)'
    BY <1>5, <1>8, <1>10, <1>16, <2>5, <2>6, <2>7, <2>9 DEF EntryOK
  <2>11. \A i \in 1..(n + 1) : /\ H[i].started <= H[i].at /\ H[i].at <= H[i].started + w
                               /\ H[i].at <= now
    <3>1. \A i \in 1..n : /\ H[i].started <= H[i].at /\ H[i].at <= H[i].started + w
                           /\ H[i].at <= now
      BY <1>13, <2>7
    <3>2. /\ H[n + 1].started <= H[n + 1].at /\ H[n + 1].at <= H[n + 1].started + w
          /\ H[n + 1].at <= now
      BY <1>1, <1>14, <2>2, <2>7
    <3>3. QED  BY <2>8, <3>1, <3>2
  <2>12. GrantsOK(k)'
    BY <1>6, <1>16, <2>6, <2>7, <2>11 DEF GrantsOK
  <2>13. ASSUME WindowsApart(k) PROVE WindowsApart(k)'
    <3>1. /\ \A i \in 1..n : IF k \in kept THEN i + old.count <= n => G[i].started + w < old.started
                             ELSE G[i].started + w < now
          /\ \A i \in 1..n : i + m <= n => G[i].started + w < G[i + m].started
      BY <1>2, <1>3, <1>5, <1>6, <1>7, <2>13 DEF WindowsApart
    <3>2. \A i \in 1..n : i + e.count <= n => G[i].started + w < e.started
      <4>1. CASE k \in kept /\ e = old  BY <3>1, <4>1
      <4>2. CASE e.started = now /\ e.count = 0 /\ (k \in kept => old.started + w < now)
        <5> TAKE i \in 1..n
        <5>1. CASE k \notin kept  BY <3>1, <4>2, <5>1
        <5>2. CASE k \in kept /\ i + old.count <= n
          <6>1. G[i].started + w < old.started  BY <3>1, <5>2
          <6>2. QED  BY <1>1, <1>8, <1>9, <1>12, <4>2, <6>1
        <5>3. CASE k \in kept /\ i + old.count > n
          BY <1>1, <1>8, <1>9, <1>12, <4>2, <5>3
        <5>4. QED  BY <1>8, <5>1, <5>2, <5>3
      <4>3. QED  BY <1>11, <4>1, <4>2
    <3>3. \A i \in 1..(n + 1) : i + (e.count + 1) <= n + 1 => H[i].started + w < e.started
      <4>1. ASSUME NEW i \in 1..(n + 1), i + (e.count + 1) <= n + 1
            PROVE  H[i].started + w < e.started
        <5>1. i \in 1..n /\ i + e.count <= n  BY <1>8, <1>10, <4>1
        <5>2. G[i].started + w < e.started  BY <3>2, <5>1
        <5>3. QED  BY <2>7, <5>1, <5>2
      <4>2. QED  BY <4>1
    <3>4. ASSUME NEW i \in 1..(n + 1), i + m <= n + 1
          PROVE  H[i].started + w < H[i + m].started
      <4>1. i \in 1..n  BY <1>8, <3>4
      <4>2. CASE i + m <= n
        BY <1>8, <2>7, <3>1, <4>1, <4>2
      <4>3. CASE i + m = n + 1
        <5>1. i + e.count <= n  BY <1>8, <1>10, <1>17, <4>1, <4>3
        <5>2. G[i].started + w < e.started  BY <3>2, <4>1, <5>1
        <5>3. H[i] = G[i] /\ H[i + m] = g  BY <2>7, <4>1, <4>3
        <5>4. QED  BY <2>2, <5>2, <5>3
      <4>4. i + m <= n \/ i + m = n + 1
        <5>1. i \in Nat  BY <1>8, <4>1
        <5>2. QED  BY <1>8, <3>4, <5>1
      <4>5. QED  BY <4>2, <4>3, <4>4
    <3>5. \A i \in 1..(n + 1) : i + m <= n + 1 => H[i].started + w < H[i + m].started
      BY <3>4
    <3>6. QED
      BY <1>5, <1>6, <1>16, <2>5, <2>6, <2>7, <3>3, <3>5 DEF WindowsApart
  <2>14. QED  BY <2>3, <2>10, <2>12, <2>13
<1>18. CASE ~(e.count < m)
  <2>1. granted' = granted /\ windows'[k] = e /\ answer'.refused = {k}
    BY <1>4, <1>5, <1>18 DEF check, TypeOK, ThrottleTypeOK
  <2>2. k \in kept /\ e = old /\ now <= old.started + w /\ old.count = m
    BY <1>8, <1>11, <1>12, <1>18
  <2>3. EntryOK(k)'
    BY <1>16, <2>1, <2>2, <1>7 DEF EntryOK
  <2>4. GrantsOK(k)'  BY <1>16, <2>1 DEF GrantsOK
  <2>5. WindowsApart(k) => WindowsApart(k)'
    BY <1>7, <1>16, <2>1, <2>2 DEF WindowsApart
  <2>6. m <= n /\ n + 1 - m \in 1..n /\ (n + 1 - m) + old.count > n
    BY <1>8, <1>12, <2>2
  <2>7. G[n + 1 - m].started = old.started  BY <1>12, <2>2, <2>6
  <2>8. now <= G[n + 1 - m].at + w
    BY <1>1, <1>8, <1>9, <1>13, <2>2, <2>6, <2>7
  <2>9. QED  BY <1>2, <1>3, <1>5, <1>6, <2>1, <2>3, <2>4, <2>5, <2>6, <2>8
<1>19. QED  BY <1>17, <1>18

\* The other keys of a check: a clean-up may take their entries.
LEMMA CheckOther ==
    ASSUME TypeOK, NEW k \in Key, NEW j \in Key, j # k, check(k), UNCHANGED now,
           EntryOK(j), GrantsOK(j), Unforgotten(j) => WindowsApart(j)
    PROVE  EntryOK(j)' /\ GrantsOK(j)' /\ (Unforgotten(j)' => WindowsApart(j)')
<1> USE ThrottleAssumption
<1>1. /\ now \in Nat /\ now' = now
      /\ windows[j] \in Window /\ window[j] \in Nat /\ window[k] \in Nat
  BY DEF TypeOK, ThrottleTypeOK
<1>2. granted'[j] = granted[j] /\ windows'[j] = windows[j]
  BY DEF check, TypeOK, ThrottleTypeOK
<1>3. /\ j \in kept' => j \in retained(k)
      /\ retained(k) \subseteq kept
      /\ j \in kept /\ j \notin kept' => j \notin retained(k)
  BY EntryType DEF check
<1>4. EntryOK(j)' /\ GrantsOK(j)'  BY <1>1, <1>2, <1>3, KeyStays
<1>5. ASSUME Unforgotten(j)' PROVE WindowsApart(j)'
  <2>1. Unforgotten(j)
    BY <1>5 DEF Unforgotten, Shortest, check
  <2>2. ASSUME j \in kept, j \notin kept' PROVE windows[j].started + window[j] < now
    <3>1. j \in kept \ retained(k)  BY <1>3, <2>2
    <3>2. ~Within(windows[j].started, window[k])  BY <3>1 DEF retained
    <3>3. windows[j].started \in Nat  BY <1>1 DEF Window
    <3>4. CASE j \notin forgotten'
      <4>1. ~Within(windows[j].started, window[j])  BY <3>1, <3>4 DEF check
      <4>2. QED  BY <1>1, <3>3, <4>1 DEF Within
    <3>5. CASE Shortest(j)
      <4>1. window[j] <= window[k]  BY <3>5 DEF Shortest
      <4>2. QED  BY <1>1, <3>2, <3>3, <4>1 DEF Within
    <3>6. Shortest(j)' = Shortest(j)  BY DEF Shortest
    <3>7. QED  BY <1>5, <3>4, <3>5, <3>6 DEF Unforgotten
  <2>3. WindowsApart(j)  BY <2>1
  <2>4. now' \in Nat /\ now <= now'  BY <1>1
  <2>5. j \in kept' => j \in kept  BY <1>3
  <2>6. QED  BY <1>2, <2>2, <2>3, <2>4, <2>5, WindowsStay
<1>6. QED  BY <1>4, <1>5

LEMMA ThrottleStep == ThrottleInv /\ TypeOK /\ [Next]_vars => ThrottleInv'
<1> SUFFICES ASSUME ThrottleInv, TypeOK, [Next]_vars PROVE ThrottleInv'
  OBVIOUS
<1> USE ThrottleAssumption
<1>1. CASE Tick
  <2>1. now \in Nat /\ now' = now + 1 /\ UNCHANGED throttle_vars
    BY <1>1 DEF Tick, TypeOK
  <2>2. now' \in Nat /\ now <= now'  BY <2>1
  <2>3. ASSUME NEW k \in Key
        PROVE  EntryOK(k)' /\ GrantsOK(k)' /\ (Unforgotten(k)' => WindowsApart(k)')
    <3>1. granted'[k] = granted[k] /\ windows'[k] = windows[k] /\ kept' = kept
      BY <2>1 DEF throttle_vars
    <3>2. EntryOK(k) /\ GrantsOK(k) /\ (Unforgotten(k) => WindowsApart(k))
      BY DEF ThrottleInv
    <3>3. EntryOK(k)' /\ GrantsOK(k)'  BY <2>2, <3>1, <3>2, KeyStays
    <3>4. Unforgotten(k)' => Unforgotten(k)
      BY <2>1 DEF Unforgotten, Shortest, throttle_vars
    <3>5. WindowsApart(k) => WindowsApart(k)'  BY <2>2, <3>1, <3>2, WindowsStay
    <3>6. QED  BY <3>2, <3>3, <3>4, <3>5
  <2>4. RefusalEarned'
    BY <2>1 DEF ThrottleInv, RefusalEarned, throttle_vars
  <2>5. QED  BY <2>3, <2>4 DEF ThrottleInv
<1>2. ASSUME NEW k \in Key, Check(k) PROVE ThrottleInv'
  <2>1. check(k) /\ UNCHANGED now  BY <1>2 DEF Check
  <2>2. EntryOK(k) /\ GrantsOK(k) /\ (Unforgotten(k) => WindowsApart(k))
    BY DEF ThrottleInv
  <2>3. /\ EntryOK(k)' /\ GrantsOK(k)'
        /\ WindowsApart(k) => WindowsApart(k)'
        /\ k \in answer'.refused =>
              /\ granted' = granted
              /\ max_attempts[k] <= Len(granted[k])
              /\ now <= granted[k][Len(granted[k]) + 1 - max_attempts[k]].at + window[k]
    BY <2>1, <2>2, CheckOwn
  <2>4. Unforgotten(k)' => Unforgotten(k)
    BY <2>1 DEF Unforgotten, Shortest, check
  <2>5. ASSUME NEW j \in Key, j # k
        PROVE  EntryOK(j)' /\ GrantsOK(j)' /\ (Unforgotten(j)' => WindowsApart(j)')
    <3>1. EntryOK(j) /\ GrantsOK(j) /\ (Unforgotten(j) => WindowsApart(j))
      BY DEF ThrottleInv
    <3>2. QED  BY <2>1, <2>5, <3>1, CheckOther
  <2>6. answer'.refused \subseteq {k} /\ answer'.at = now
    BY <2>1 DEF check
  <2>7. RefusalEarned'
    <3>1. ASSUME NEW j \in answer'.refused
          PROVE  /\ max_attempts[j] <= Len(granted'[j])
                 /\ answer'.at <= granted'[j][Len(granted'[j]) + 1 - max_attempts[j]].at + window[j]
      <4>1. j = k  BY <2>6, <3>1
      <4>2. granted' = granted  BY <2>3, <3>1, <4>1
      <4>3. QED  BY <2>3, <2>6, <3>1, <4>1, <4>2
    <3>2. QED  BY <3>1 DEF RefusalEarned
  <2>8. QED  BY <2>2, <2>3, <2>4, <2>5, <2>7 DEF ThrottleInv
<1>3. CASE UNCHANGED <<now, throttle_vars>>
  <2>1. UNCHANGED <<now, kept, windows, granted, answer, forgotten>>
    BY <1>3 DEF throttle_vars
  <2>2. RefusalEarned'  BY <2>1 DEF ThrottleInv, RefusalEarned
  <2>3. ASSUME NEW k \in Key
        PROVE  EntryOK(k)' /\ GrantsOK(k)' /\ (Unforgotten(k)' => WindowsApart(k)')
    <3>1. EntryOK(k)' /\ GrantsOK(k)'
      BY <2>1 DEF ThrottleInv, EntryOK, GrantsOK
    <3>2. Unforgotten(k)' => WindowsApart(k)'
      BY <2>1 DEF ThrottleInv, Unforgotten, Shortest, WindowsApart
    <3>3. QED  BY <3>1, <3>2
  <2>4. QED  BY <2>2, <2>3 DEF ThrottleInv
<1>4. CASE Restart
  BY <1>4 DEF Restart, ThrottleInv, EntryOK, GrantsOK, WindowsApart, RefusalEarned, NoAnswer
<1>5. ASSUME NEW c \in Call, NEW p \in Provider, MakeCall(c, p) PROVE ThrottleInv'
  BY <1>3, <1>5 DEF MakeCall
<1>6. ASSUME NEW c \in Call, Attempt(c) PROVE ThrottleInv'
  BY <1>3, <1>6 DEF Attempt
<1>7. CASE UNCHANGED vars
  BY <1>3, <1>7 DEF vars
<1>8. QED  BY <1>1, <1>2, <1>4, <1>5, <1>6, <1>7 DEF Next

\* A refusal is earned (RefusalEarned): the key refused was itself allowed its
\* whole budget within the last window, whatever other keys and clean-ups did.
THEOREM RefusalsAreEarned == Spec => []RefusalEarned
<1>1. TypeOK /\ ThrottleInv /\ [Next]_vars => (TypeOK /\ ThrottleInv)'
  BY TypeStep, ThrottleStep
<1>2. Init => TypeOK /\ ThrottleInv  BY TypeInit, ThrottleInvInit
<1>3. ThrottleInv => RefusalEarned  BY DEF ThrottleInv
<1>4. QED  BY <1>1, <1>2, <1>3, PTL DEF Spec

LEMMA WindowsKeepBudget == TypeOK /\ ThrottleInv => BudgetKept
<1> SUFFICES ASSUME TypeOK, ThrottleInv, NEW k \in Key, k \notin forgotten \/ Shortest(k),
                    NEW i \in 1..Len(granted[k]), i + 2 * max_attempts[k] <= Len(granted[k])
             PROVE  granted[k][i + 2 * max_attempts[k]].at > granted[k][i].at + window[k]
  BY DEF BudgetKept
<1> USE ThrottleAssumption
<1>1. PICK G : G = granted[k]  OBVIOUS
<1>2. PICK m : m = max_attempts[k]  OBVIOUS
<1>3. PICK w : w = window[k]  OBVIOUS
<1>4. PICK n : n = Len(G)  OBVIOUS
<1>5. G \in Seq(Grant) /\ n \in Nat /\ m \in Nat \ {0} /\ w \in Nat
  BY <1>1, <1>2, <1>3, <1>4 DEF TypeOK, ThrottleTypeOK
<1>6. \A x \in 1..n : G[x].started \in Nat /\ G[x].at \in Nat
  <2>1. \A x \in 1..n : G[x] \in Grant  BY <1>4, <1>5
  <2>2. QED  BY <2>1 DEF Grant
<1>7. \A x \in 1..n : G[x].started <= G[x].at /\ G[x].at <= G[x].started + w
  BY <1>1, <1>3, <1>4 DEF ThrottleInv, GrantsOK
<1>8. WindowsApart(k)  BY DEF ThrottleInv, Unforgotten
<1>9. \A x \in 1..n : x + m <= n => G[x].started + w < G[x + m].started
  BY <1>1, <1>2, <1>3, <1>4, <1>8 DEF WindowsApart
<1>10. PICK a : a = i + m  OBVIOUS
<1>11. PICK b : b = i + 2 * m  OBVIOUS
<1>12. i \in 1..n /\ i + 2 * m <= n  BY <1>1, <1>2, <1>4
<1>13. a \in 1..n /\ b \in 1..n /\ b = a + m
  BY <1>5, <1>10, <1>11, <1>12
<1>14. G[i].started + w < G[a].started  BY <1>9, <1>10, <1>12, <1>13
<1>15. G[a].started + w < G[b].started  BY <1>9, <1>13
<1>16. G[b].at > G[i].at + w
  <2>1. G[i].at <= G[i].started + w /\ G[b].started <= G[b].at
    BY <1>7, <1>12, <1>13
  <2>2. /\ G[i].at \in Nat /\ G[i].started \in Nat /\ G[a].started \in Nat
        /\ G[b].at \in Nat /\ G[b].started \in Nat
    BY <1>6, <1>12, <1>13
  <2>3. PICK x1, x2, x3, x4, x5 \in Nat :
           x1 = G[i].at /\ x2 = G[i].started /\ x3 = G[a].started
           /\ x4 = G[b].started /\ x5 = G[b].at
    BY <2>2
  <2>4. x1 <= x2 + w /\ x4 <= x5 /\ x2 + w < x3 /\ x3 + w < x4 /\ w \in Nat
    BY <1>5, <1>14, <1>15, <2>1, <2>3
  <2>5. x5 > x1 + w
    <3>1. x1 + w < x4  BY <2>4
    <3>2. QED  BY <2>4, <3>1
  <2>6. QED  BY <2>3, <2>5
<1>17. i + 2 * max_attempts[k] = b  BY <1>2, <1>11
<1>18. QED  BY <1>1, <1>3, <1>16, <1>17

\* No key is allowed more than twice its budget within one window (BudgetKept),
\* unless a clean-up by a call of a shorter window forgot its running entry.
THEOREM BudgetsAreKept == Spec => []BudgetKept
<1>1. TypeOK /\ ThrottleInv /\ [Next]_vars => (TypeOK /\ ThrottleInv)'
  BY TypeStep, ThrottleStep
<1>2. Init => TypeOK /\ ThrottleInv  BY TypeInit, ThrottleInvInit
<1>3. TypeOK /\ ThrottleInv => BudgetKept  BY WindowsKeepBudget
<1>4. QED  BY <1>1, <1>2, <1>3, PTL DEF Spec

-----------------------------------------------------------------------------
\* The breakers.

LEMMA BreakerInvInit == Init => BreakerInv
BY BreakerAssumption
   DEF Init, BreakerInit, BreakerInv, TailOK, InOrder, HeldOff, CallsOK, UnderWay, NoCall

LEMMA ToldFacts ==
    ASSUME TypeOK, NEW c \in Call, UnderWay(c), NEW p \in Provider, p = calls[c].to,
           NEW ok \in BOOLEAN, Told(c, ok)
    PROVE  /\ Len(recorded'[p]) = Len(recorded[p]) + 1
           /\ \A i \in 1..Len(recorded[p]) : recorded'[p][i] = recorded[p][i]
           /\ recorded'[p][Len(recorded[p]) + 1]
                 = [ok |-> ok, no |-> calls[c].no, at |-> now, called |-> called]
           /\ \A q \in Provider : q # p => recorded'[q] = recorded[q]
<1> DEFINE e == [ok |-> ok, no |-> calls[c].no, at |-> now, called |-> called]
<1>1. e \in Report  BY UnderWayFacts DEF Report, TypeOK, BreakerTypeOK
<1>2. recorded[p] \in Seq(Report)  BY DEF TypeOK, BreakerTypeOK
<1>3. recorded'[p] = Append(recorded[p], e)
  BY DEF Told, TypeOK, BreakerTypeOK
<1>4. \A q \in Provider : q # p => recorded'[q] = recorded[q]
  BY DEF Told, TypeOK, BreakerTypeOK
<1> HIDE DEF e
<1>5. QED  BY <1>1, <1>2, <1>3, <1>4, AppendFacts DEF e

LEMMA SuccessKeepsTail ==
    ASSUME TypeOK, NEW p \in Provider, TailOK(p), record_success(p),
           NEW c \in Call, UnderWay(c), p = calls[c].to, Told(c, TRUE)
    PROVE  TailOK(p)'
<1> USE BreakerAssumption
<1>1. PICK n : n = Len(recorded[p])  OBVIOUS
<1>2. n \in Nat  BY <1>1 DEF TypeOK, BreakerTypeOK
<1>3. consecutive_failures'[p] = 0 /\ open_until'[p] = 0
  BY DEF record_success, TypeOK, BreakerTypeOK
<1>4. Len(recorded'[p]) = n + 1 /\ recorded'[p][n + 1].ok
  <2>1. /\ Len(recorded'[p]) = n + 1
        /\ recorded'[p][n + 1]
              = [ok |-> TRUE, no |-> calls[c].no, at |-> now, called |-> called]
    BY <1>1, ToldFacts
  <2>2. QED  BY <2>1
<1>5. QED  BY <1>2, <1>3, <1>4 DEF TailOK

LEMMA FailureKeepsTail ==
    ASSUME TypeOK, NEW p \in Provider, TailOK(p), record_failure(p),
           NEW c \in Call, UnderWay(c), p = calls[c].to, Told(c, FALSE)
    PROVE  TailOK(p)'
<1> USE BreakerAssumption
<1>1. PICK R : R = recorded[p]  OBVIOUS
<1>2. PICK n : n = Len(R)  OBVIOUS
<1>3. PICK f : f = consecutive_failures[p]  OBVIOUS
<1>4. PICK H : H = recorded'[p]  OBVIOUS
<1>5. n \in Nat /\ f \in Nat /\ now \in Nat
  BY <1>1, <1>2, <1>3 DEF TypeOK, BreakerTypeOK
<1>6. consecutive_failures'[p] = f + 1
  BY <1>3 DEF record_failure, TypeOK, BreakerTypeOK
<1>7. open_until'[p] = IF f + 1 >= failure_threshold THEN now + cooldown ELSE open_until[p]
  BY <1>3 DEF record_failure, TypeOK, BreakerTypeOK
<1>8. /\ Len(H) = n + 1 /\ ~H[n + 1].ok /\ H[n + 1].at = now
      /\ \A i \in 1..n : H[i] = R[i]
  <2>1. /\ Len(H) = n + 1 /\ \A i \in 1..n : H[i] = R[i]
        /\ H[n + 1] = [ok |-> FALSE, no |-> calls[c].no, at |-> now, called |-> called]
    BY <1>1, <1>2, <1>4, ToldFacts
  <2>2. QED  BY <2>1
<1>9. /\ f <= n
      /\ \A i \in 1..n : i + f > n => ~R[i].ok
      /\ \A i \in 1..n : i + f = n => R[i].ok
      /\ f < failure_threshold => open_until[p] = 0
  BY <1>1, <1>2, <1>3 DEF TailOK
<1>10. ASSUME NEW i \in 1..(n + 1), i + (f + 1) > n + 1
       PROVE  ~H[i].ok
  <2>1. CASE i = n + 1  BY <1>8, <2>1
  <2>2. CASE i \in 1..n
    <3>1. i + f > n  BY <1>5, <1>10, <2>2
    <3>2. QED  BY <1>8, <1>9, <2>2, <3>1
  <2>3. QED  BY <1>5, <2>1, <2>2
<1>11. ASSUME NEW i \in 1..(n + 1), i + (f + 1) = n + 1
       PROVE  H[i].ok
  <2>1. i \in 1..n /\ i + f = n  BY <1>5, <1>11
  <2>2. QED  BY <1>8, <1>9, <2>1
<1>12. /\ f + 1 >= failure_threshold => open_until'[p] = H[n + 1].at + cooldown
       /\ f + 1 < failure_threshold => open_until'[p] = 0
  <2>1. H[n + 1].at = now  BY <1>8
  <2>2. f + 1 < failure_threshold => open_until[p] = 0  BY <1>5, <1>9
  <2>3. f + 1 < failure_threshold => ~(f + 1 >= failure_threshold)  BY <1>5
  <2>4. QED  BY <1>7, <2>1, <2>2, <2>3
<1>13. f + 1 <= n + 1  BY <1>5, <1>9
<1>14. \A i \in 1..(n + 1) : i + (f + 1) > n + 1 => ~H[i].ok  BY <1>10
<1>15. \A i \in 1..(n + 1) : i + (f + 1) = n + 1 => H[i].ok  BY <1>11
<1>16. QED
  BY <1>4, <1>6, <1>8, <1>12, <1>13, <1>14, <1>15 DEF TailOK

LEMMA AttemptKeepsTails ==
    ASSUME TypeOK, NEW c \in Call, Attempt(c), NEW p \in Provider, TailOK(p)
    PROVE  TailOK(p)'
<1>1. CASE AttemptSucceeds(c)
  <2>1. calls[c].to \in Provider
    BY <1>1, UnderWayFacts DEF AttemptSucceeds, TypeOK
  <2>2. CASE p = calls[c].to
    BY <1>1, <2>2, SuccessKeepsTail DEF AttemptSucceeds
  <2>3. CASE p # calls[c].to
    <3>1. recorded'[p] = recorded[p]
      BY <1>1, <2>1, <2>3, ToldFacts DEF AttemptSucceeds
    <3>2. consecutive_failures'[p] = consecutive_failures[p] /\ open_until'[p] = open_until[p]
      BY <1>1, <2>3 DEF AttemptSucceeds, record_success, TypeOK, BreakerTypeOK
    <3>3. QED  BY <3>1, <3>2 DEF TailOK
  <2>4. QED  BY <2>2, <2>3
<1>2. CASE LastAttemptFails(c)
  <2>1. calls[c].to \in Provider
    BY <1>2, UnderWayFacts DEF LastAttemptFails, TypeOK
  <2>2. CASE p = calls[c].to
    BY <1>2, <2>2, FailureKeepsTail DEF LastAttemptFails
  <2>3. CASE p # calls[c].to
    <3>1. recorded'[p] = recorded[p]
      BY <1>2, <2>1, <2>3, ToldFacts DEF LastAttemptFails
    <3>2. consecutive_failures'[p] = consecutive_failures[p] /\ open_until'[p] = open_until[p]
      BY <1>2, <2>3 DEF LastAttemptFails, record_failure, TypeOK, BreakerTypeOK
    <3>3. QED  BY <3>1, <3>2 DEF TailOK
  <2>4. QED  BY <2>2, <2>3
<1>3. CASE AttemptRetried(c) \/ CallDropped(c)
  BY <1>3 DEF AttemptRetried, CallDropped, TailOK
<1>4. QED  BY <1>1, <1>2, <1>3 DEF Attempt

\* An attempt adds nobody to the calls under way.
LEMMA AttemptAddsNone ==
    ASSUME TypeOK, NEW c \in Call, Attempt(c), NEW d \in Call, UnderWay(d)'
    PROVE  /\ UnderWay(d) /\ calls'[d].to = calls[d].to /\ calls'[d].no = calls[d].no
           /\ calls[d].to \in Provider /\ calls[d].no \in Nat
<1>1. /\ calls'[d] = calls[d] \/ calls'[d] = NoCall
         \/ calls'[d] = [calls[d] EXCEPT !.attempt_number = @ + 1]
      /\ calls'[d] # NoCall => UnderWay(d)
  BY DEF Attempt, AttemptSucceeds, AttemptRetried, LastAttemptFails, CallDropped, Ends,
         UnderWay, TypeOK, BreakerTypeOK
<1>2. UnderWay(d) /\ calls'[d] # NoCall  BY <1>1 DEF UnderWay
<1>3. /\ calls[d] \in [to : Provider, attempt_number : 1..tries, no : Nat]
      /\ calls[d].to \in Provider /\ calls[d].no \in Nat
  BY <1>2, UnderWayFacts DEF TypeOK
<1>4. QED  BY <1>1, <1>2, <1>3

LEMMA AttemptKeepsCalls ==
    ASSUME TypeOK, CallsOK, NEW c \in Call, Attempt(c)
    PROVE  CallsOK' /\ called' = called /\ now' = now
<1>1. called' = called /\ now' = now
  BY DEF Attempt, AttemptSucceeds, AttemptRetried, LastAttemptFails, CallDropped
<1>2. QED  BY <1>1, AttemptAddsNone DEF CallsOK

\* What an attempt adds to the reports on p.
LEMMA AttemptReports ==
    ASSUME TypeOK, NEW c \in Call, Attempt(c), NEW p \in Provider
    PROVE  \/ recorded'[p] = recorded[p]
           \/ /\ UnderWay(c) /\ calls[c].to = p
              /\ Len(recorded'[p]) = Len(recorded[p]) + 1
              /\ \A i \in 1..Len(recorded[p]) : recorded'[p][i] = recorded[p][i]
              /\ \E ok \in BOOLEAN : recorded'[p][Len(recorded[p]) + 1]
                    = [ok |-> ok, no |-> calls[c].no, at |-> now, called |-> called]
<1>1. CASE AttemptRetried(c) \/ CallDropped(c)
  BY <1>1 DEF AttemptRetried, CallDropped
<1>2. CASE AttemptSucceeds(c) \/ LastAttemptFails(c)
  <2>1. PICK ok \in BOOLEAN : Told(c, ok)
    BY <1>2 DEF AttemptSucceeds, LastAttemptFails
  <2>2. UnderWay(c) /\ calls[c].to \in Provider
    BY <1>2, UnderWayFacts DEF AttemptSucceeds, LastAttemptFails, TypeOK
  <2>3. CASE p = calls[c].to
    BY <2>1, <2>2, <2>3, ToldFacts
  <2>4. CASE p # calls[c].to
    BY <2>1, <2>2, <2>4, ToldFacts
  <2>5. QED  BY <2>3, <2>4
<1>3. QED  BY <1>1, <1>2 DEF Attempt

\* Reports that were made stay as they are, so what is said of one stays true.
LEMMA ReportsStay ==
    ASSUME TypeOK, NEW p \in Provider, NEW i \in 1..Len(recorded[p]),
           \/ recorded'[p] = recorded[p]
           \/ /\ Len(recorded'[p]) = Len(recorded[p]) + 1
              /\ \A k \in 1..Len(recorded[p]) : recorded'[p][k] = recorded[p][k]
    PROVE  /\ Trips(p, i)' <=> Trips(p, i)
           /\ LateSuccess(p, i) => LateSuccess(p, i)'
<1>1. PICK n \in Nat : n = Len(recorded[p])  BY DEF TypeOK, BreakerTypeOK
<1>2. \A k \in 1..n : recorded'[p][k] = recorded[p][k]  BY <1>1
<1>3. i \in 1..n /\ n <= Len(recorded'[p]) /\ Len(recorded'[p]) \in Nat  BY <1>1
<1>4. Trips(p, i)' <=> Trips(p, i)
  <2>1. \A j \in 1..i : j \in 1..n  BY <1>3
  <2>2. QED  BY <1>2, <2>1 DEF Trips
<1>5. ASSUME LateSuccess(p, i) PROVE LateSuccess(p, i)'
  <2>1. PICK j \in 1..n :
           j > i /\ recorded[p][j].ok /\ recorded[p][j].no <= recorded[p][i].called
    BY <1>1, <1>5 DEF LateSuccess
  <2>2. j \in 1..Len(recorded'[p])  BY <1>3
  <2>3. recorded'[p][j] = recorded[p][j] /\ recorded'[p][i] = recorded[p][i]
    BY <1>2, <1>3
  <2>4. QED  BY <2>1, <2>2, <2>3 DEF LateSuccess
<1>6. QED  BY <1>4, <1>5

LEMMA AttemptKeepsOrder ==
    ASSUME TypeOK, NEW c \in Call, Attempt(c), CallsOK, NEW p \in Provider, InOrder(p)
    PROVE  InOrder(p)'
<1>1. called' = called /\ now' = now  BY AttemptKeepsCalls
<1>2. called \in Nat /\ now \in Nat  BY DEF TypeOK, BreakerTypeOK
<1>3. CASE recorded'[p] = recorded[p]
  BY <1>1, <1>3 DEF InOrder
<1>4. CASE /\ Len(recorded'[p]) = Len(recorded[p]) + 1
           /\ \A i \in 1..Len(recorded[p]) : recorded'[p][i] = recorded[p][i]
           /\ recorded'[p][Len(recorded[p]) + 1].at = now
           /\ recorded'[p][Len(recorded[p]) + 1].called = called
  <2>1. PICK n \in Nat : n = Len(recorded[p])  BY DEF TypeOK, BreakerTypeOK
  <2>2. PICK R : R = recorded[p]  OBVIOUS
  <2>3. PICK H : H = recorded'[p]  OBVIOUS
  <2>4. /\ Len(H) = n + 1 /\ \A i \in 1..n : H[i] = R[i]
        /\ H[n + 1].at = now /\ H[n + 1].called = called
    BY <1>4, <2>1, <2>2, <2>3
  <2>5. /\ \A i \in 1..n : R[i].at <= now /\ R[i].called <= called
        /\ \A i, j \in 1..n : i <= j => R[i].at <= R[j].at
    BY <2>1, <2>2 DEF InOrder
  <2>6. \A i \in 1..(n + 1) : i \in 1..n \/ i = n + 1  BY <2>1
  <2>7. \A i \in 1..(n + 1) : H[i].at <= now /\ H[i].called <= called
    BY <1>2, <2>4, <2>5, <2>6
  <2>8. ASSUME NEW i \in 1..(n + 1), NEW j \in 1..(n + 1), i <= j
        PROVE  H[i].at <= H[j].at
    <3>1. CASE j = n + 1  BY <2>4, <2>7, <3>1
    <3>2. CASE j \in 1..n
      <4>1. i \in 1..n  BY <2>1, <2>8, <3>2
      <4>2. QED  BY <2>4, <2>5, <2>8, <3>2, <4>1
    <3>3. QED  BY <2>6, <3>1, <3>2
  <2>9. QED  BY <1>1, <2>3, <2>4, <2>7, <2>8 DEF InOrder
<1>5. ASSUME NEW ok \in BOOLEAN,
             recorded'[p][Len(recorded[p]) + 1]
                = [ok |-> ok, no |-> calls[c].no, at |-> now, called |-> called]
      PROVE  /\ recorded'[p][Len(recorded[p]) + 1].at = now
             /\ recorded'[p][Len(recorded[p]) + 1].called = called
  BY <1>5
<1>6. QED  BY <1>3, <1>4, <1>5, AttemptReports

LEMMA AttemptHoldsOff ==
    ASSUME TypeOK, NEW c \in Call, Attempt(c), CallsOK,
           NEW p \in Provider, InOrder(p), HeldOff(p)
    PROVE  HeldOff(p)'
<1> USE BreakerAssumption
<1>1. called' = called /\ now' = now  BY AttemptKeepsCalls
<1>2. PICK n \in Nat : n = Len(recorded[p])  BY DEF TypeOK, BreakerTypeOK
<1>3. ASSUME NEW i \in 1..n, Behind(p, i), recorded'[p][i] = recorded[p][i]
      PROVE  Behind(p, i)'
  BY <1>3, AttemptAddsNone DEF Behind
<1>4. ASSUME NEW i \in 1..n, recorded'[p][i] = recorded[p][i], Trips(p, i),
             now < recorded[p][i].at + cooldown
      PROVE  LateSuccess(p, i) \/ (Behind(p, i) /\ OnlyFailuresSince(p, i))
  BY <1>2, <1>4 DEF HeldOff
<1>5. CASE recorded'[p] = recorded[p]
  <2> SUFFICES ASSUME NEW i \in 1..n, Trips(p, i)', now < recorded[p][i].at + cooldown
               PROVE  LateSuccess(p, i)' \/ (Behind(p, i) /\ OnlyFailuresSince(p, i))'
    BY <1>1, <1>2, <1>5 DEF HeldOff
  <2>1. Trips(p, i) /\ (LateSuccess(p, i) => LateSuccess(p, i)')
    BY <1>2, <1>5, ReportsStay
  <2>2. OnlyFailuresSince(p, i) => OnlyFailuresSince(p, i)'
    BY <1>5 DEF OnlyFailuresSince
  <2>3. QED  BY <1>3, <1>4, <1>5, <2>1, <2>2
<1>6. ASSUME NEW ok \in BOOLEAN, UnderWay(c), calls[c].to = p,
             Len(recorded'[p]) = n + 1,
             \A i \in 1..n : recorded'[p][i] = recorded[p][i],
             recorded'[p][n + 1]
                = [ok |-> ok, no |-> calls[c].no, at |-> now, called |-> called]
      PROVE  HeldOff(p)'
  <2>1. /\ recorded'[p][n + 1].ok = ok /\ recorded'[p][n + 1].no = calls[c].no
        /\ recorded'[p][n + 1].called = called
    BY <1>6
  <2>2. ASSUME NEW i \in 1..n, Trips(p, i)', now < recorded'[p][i].at + cooldown
        PROVE  LateSuccess(p, i)' \/ (Behind(p, i) /\ OnlyFailuresSince(p, i))'
    <3>1. recorded'[p][i] = recorded[p][i]  BY <1>6
    <3>2. Trips(p, i) /\ (LateSuccess(p, i) => LateSuccess(p, i)')
      BY <1>2, <1>6, <2>2, ReportsStay
    <3>3. LateSuccess(p, i) \/ (Behind(p, i) /\ OnlyFailuresSince(p, i))
      BY <1>4, <2>2, <3>1, <3>2
    <3>4. CASE Behind(p, i) /\ OnlyFailuresSince(p, i) /\ ok
      <4>1. calls[c].no <= recorded[p][i].called  BY <1>6, <3>4 DEF Behind
      <4>2. n + 1 \in 1..Len(recorded'[p]) /\ n + 1 > i  BY <1>6
      <4>3. LateSuccess(p, i)'  BY <2>1, <3>1, <3>4, <4>1, <4>2 DEF LateSuccess
      <4>4. QED  BY <4>3
    <3>5. CASE Behind(p, i) /\ OnlyFailuresSince(p, i) /\ ~ok
      <4>1. Behind(p, i)'  BY <1>3, <3>1, <3>5
      <4>2. ASSUME NEW j \in 1..(n + 1), j > i PROVE ~recorded'[p][j].ok
        <5>1. CASE j = n + 1  BY <2>1, <3>5, <5>1
        <5>2. CASE j \in 1..n  BY <1>2, <1>6, <3>5, <4>2, <5>2 DEF OnlyFailuresSince
        <5>3. QED  BY <5>1, <5>2
      <4>3. OnlyFailuresSince(p, i)'  BY <1>6, <4>2 DEF OnlyFailuresSince
      <4>4. QED  BY <4>1, <4>3
    <3>6. QED  BY <3>2, <3>3, <3>4, <3>5
  <2>3. ASSUME Trips(p, n + 1)'
        PROVE  (Behind(p, n + 1) /\ OnlyFailuresSince(p, n + 1))'
    <3>1. Behind(p, n + 1)'
      BY <1>1, <2>1, AttemptAddsNone DEF Behind, CallsOK
    <3>2. OnlyFailuresSince(p, n + 1)'  BY <1>6 DEF OnlyFailuresSince
    <3>3. QED  BY <3>1, <3>2
  <2>4. \A i \in 1..(n + 1) : i \in 1..n \/ i = n + 1  OBVIOUS
  <2>5. QED  BY <1>1, <1>6, <2>2, <2>3, <2>4 DEF HeldOff
<1>7. QED  BY <1>2, <1>5, <1>6, AttemptReports

\* Failures only, since a failure that tripped the breaker less than a cooldown
\* ago: the provider is still struggling.
LEMMA StillStruggling ==
    ASSUME TypeOK, NEW p \in Provider, InOrder(p), NEW i \in 1..Len(recorded[p]),
           Trips(p, i), now < recorded[p][i].at + cooldown, OnlyFailuresSince(p, i)
    PROVE  Struggling(p)
<1> USE BreakerAssumption
<1>1. PICK n \in Nat : n = Len(recorded[p])  BY DEF TypeOK, BreakerTypeOK
<1>2. PICK R \in Seq(Report) : R = recorded[p]  BY DEF TypeOK, BreakerTypeOK
<1>3. n \in 1..n /\ i \in 1..n /\ failure_threshold <= n
  BY <1>1 DEF Trips
<1>4. R[i].at <= R[n].at  BY <1>1, <1>2, <1>3 DEF InOrder
<1>5. R[i] \in Report /\ R[n] \in Report  BY <1>1, <1>2, <1>3
<1>6. now < R[n].at + cooldown
  <2>1. R[i].at \in Nat /\ R[n].at \in Nat /\ now \in Nat
    BY <1>5 DEF Report, TypeOK
  <2>2. now < R[i].at + cooldown  BY <1>2
  <2>3. QED  BY <1>4, <2>1, <2>2
<1>7. ASSUME NEW j \in 1..n, j > n - failure_threshold PROVE ~R[j].ok
  <2>1. CASE j > i  BY <1>1, <1>2, <2>1 DEF OnlyFailuresSince
  <2>2. CASE ~(j > i)
    <3>1. j \in 1..i /\ j > i - failure_threshold  BY <1>3, <1>7, <2>2
    <3>2. QED  BY <1>2, <3>1 DEF Trips
  <2>3. QED  BY <2>1, <2>2
<1>8. QED  BY <1>1, <1>2, <1>3, <1>6, <1>7 DEF Struggling, Trips

LEMMA OpenIsStruggling ==
    ASSUME TypeOK, NEW p \in Provider, TailOK(p)
    PROVE  is_open(p) <=> Struggling(p)
<1> USE BreakerAssumption
<1>1. PICK R : R = recorded[p]  OBVIOUS
<1>2. PICK n : n = Len(R)  OBVIOUS
<1>3. PICK f : f = consecutive_failures[p]  OBVIOUS
<1>4. PICK u : u = open_until[p]  OBVIOUS
<1>5. n \in Nat /\ f \in Nat /\ now \in Nat /\ u \in Nat
  BY <1>1, <1>2, <1>3, <1>4 DEF TypeOK, BreakerTypeOK
<1>6. /\ f <= n
      /\ \A i \in 1..n : i + f > n => ~R[i].ok
      /\ \A i \in 1..n : i + f = n => R[i].ok
      /\ f >= failure_threshold => u = R[n].at + cooldown
      /\ f < failure_threshold => u = 0
  BY <1>1, <1>2, <1>3, <1>4 DEF TailOK
<1>7. CASE f >= failure_threshold
  <2>1. failure_threshold <= n  BY <1>5, <1>6, <1>7
  <2>2. ASSUME NEW i \in 1..n, i > n - failure_threshold PROVE ~R[i].ok
    <3>1. i + f > n  BY <1>5, <1>7, <2>2
    <3>2. QED  BY <1>6, <3>1
  <2>3. now < u <=> now < R[n].at + cooldown  BY <1>6, <1>7
  <2>4. QED  BY <1>1, <1>2, <1>4, <2>1, <2>2, <2>3 DEF is_open, Struggling, Trips
<1>8. CASE f < failure_threshold
  <2>1. ~is_open(p)  BY <1>4, <1>5, <1>6, <1>8 DEF is_open
  <2>2. ASSUME failure_threshold <= n, \A i \in 1..n : i > n - failure_threshold => ~R[i].ok
        PROVE  FALSE
    <3>1. PICK i : i = n - f  OBVIOUS
    <3>2. i \in 1..n /\ i + f = n /\ i > n - failure_threshold
      BY <1>5, <1>8, <2>2, <3>1
    <3>3. R[i].ok  BY <1>6, <3>2
    <3>4. QED  BY <2>2, <3>2, <3>3
  <2>3. ~Struggling(p)  BY <1>1, <1>2, <2>2 DEF Struggling, Trips
  <2>4. QED  BY <2>1, <2>3
<1>9. QED  BY <1>5, <1>7, <1>8

LEMMA MakeCallKeeps ==
    ASSUME TypeOK, CallsOK, \A q \in Provider : TailOK(q) /\ InOrder(q) /\ HeldOff(q),
           NEW c \in Call, NEW p \in Provider, MakeCall(c, p)
    PROVE  CallsOK' /\ \A q \in Provider : TailOK(q)' /\ InOrder(q)' /\ HeldOff(q)'
<1>1. /\ ~is_open(p) /\ called \in Nat /\ called' = called + 1
      /\ now' = now /\ open_until' = open_until /\ recorded' = recorded
      /\ consecutive_failures' = consecutive_failures
      /\ calls'[c] = [to |-> p, attempt_number |-> 1, no |-> called + 1]
      /\ \A d \in Call : d # c => calls'[d] = calls[d]
  BY DEF MakeCall, call, TypeOK, BreakerTypeOK
<1>2. ASSUME NEW d \in Call, UnderWay(d)' PROVE calls'[d].no <= called'
  <2>1. CASE d = c  BY <1>1, <2>1
  <2>2. CASE d # c
    <3>1. UnderWay(d) /\ calls'[d] = calls[d]  BY <1>1, <1>2, <2>2 DEF UnderWay
    <3>2. calls[d].no \in Nat  BY <3>1, UnderWayFacts DEF TypeOK
    <3>3. calls[d].no <= called  BY <3>1 DEF CallsOK
    <3>4. QED  BY <1>1, <3>1, <3>2, <3>3
  <2>3. QED  BY <2>1, <2>2
<1>3. ASSUME NEW q \in Provider PROVE TailOK(q)' /\ InOrder(q)'
  <2>1. TailOK(q)'  BY <1>1 DEF TailOK
  <2>2. recorded[q] \in Seq(Report)  BY DEF TypeOK, BreakerTypeOK
  <2>3. \A i \in 1..Len(recorded[q]) : recorded[q][i] \in Report  BY <2>2
  <2>4. \A i \in 1..Len(recorded[q]) : recorded[q][i].called \in Nat
    BY <2>3 DEF Report
  <2>5. InOrder(q)'  BY <1>1, <2>4 DEF InOrder
  <2>6. QED  BY <2>1, <2>5
<1>4. ASSUME NEW q \in Provider PROVE HeldOff(q)'
  <2> SUFFICES ASSUME NEW i \in 1..Len(recorded[q]), Trips(q, i)',
                      now < recorded[q][i].at + cooldown
               PROVE  (LateSuccess(q, i) \/ (Behind(q, i) /\ OnlyFailuresSince(q, i)))'
    BY <1>1 DEF HeldOff
  <2>1. Trips(q, i)  BY <1>1 DEF Trips
  <2>2. LateSuccess(q, i) \/ (Behind(q, i) /\ OnlyFailuresSince(q, i))
    BY <2>1 DEF HeldOff
  <2>3. CASE LateSuccess(q, i)
    BY <1>1, <2>3 DEF LateSuccess
  <2>4. CASE Behind(q, i) /\ OnlyFailuresSince(q, i)
    <3>1. q # p
      <4>1. Struggling(q)  BY <2>1, <2>4, StillStruggling
      <4>2. is_open(q)  BY <4>1, OpenIsStruggling
      <4>3. QED  BY <1>1, <4>2
    <3>2. Behind(q, i)'
      BY <1>1, <2>4, <3>1 DEF Behind, UnderWay
    <3>3. OnlyFailuresSince(q, i)'  BY <1>1, <2>4 DEF OnlyFailuresSince
    <3>4. QED  BY <3>2, <3>3
  <2>5. QED  BY <2>2, <2>3, <2>4
<1>5. QED  BY <1>2, <1>3, <1>4 DEF CallsOK

LEMMA BreakerStep == BreakerInv /\ TypeOK /\ [Next]_vars => BreakerInv'
<1> SUFFICES ASSUME BreakerInv, TypeOK, [Next]_vars PROVE BreakerInv'
  OBVIOUS
<1> USE BreakerAssumption
<1>1. CASE Tick
  <2>1. now \in Nat /\ now' = now + 1
        /\ UNCHANGED <<consecutive_failures, open_until, calls, called, recorded>>
    BY <1>1 DEF Tick, TypeOK, breaker_vars
  <2>2. CallsOK'  BY <2>1 DEF BreakerInv, CallsOK, UnderWay
  <2>3. ASSUME NEW p \in Provider PROVE TailOK(p)' /\ InOrder(p)' /\ HeldOff(p)'
    <3>1. TailOK(p)'  BY <2>1 DEF BreakerInv, TailOK
    <3>2. recorded[p] \in Seq(Report)  BY DEF TypeOK, BreakerTypeOK
    <3>3. \A i \in 1..Len(recorded[p]) : recorded[p][i] \in Report  BY <3>2
    <3>4. \A i \in 1..Len(recorded[p]) : recorded[p][i].at \in Nat
      BY <3>3 DEF Report
    <3>5. InOrder(p)'  BY <2>1, <3>4 DEF BreakerInv, InOrder
    <3>6. \A i \in 1..Len(recorded[p]) :
             /\ now' < recorded[p][i].at + cooldown => now < recorded[p][i].at + cooldown
             /\ Trips(p, i)' <=> Trips(p, i)
             /\ LateSuccess(p, i)' <=> LateSuccess(p, i)
             /\ Behind(p, i)' <=> Behind(p, i)
             /\ OnlyFailuresSince(p, i)' <=> OnlyFailuresSince(p, i)
      BY <2>1, <3>4 DEF Trips, LateSuccess, Behind, OnlyFailuresSince, UnderWay
    <3>7. HeldOff(p)'  BY <2>1, <3>6 DEF BreakerInv, HeldOff
    <3>8. QED  BY <3>1, <3>5, <3>7
  <2>4. QED  BY <2>2, <2>3 DEF BreakerInv
<1>2. CASE UNCHANGED <<now, breaker_vars>>
  <2>1. UNCHANGED <<now, consecutive_failures, open_until, calls, called, recorded>>
    BY <1>2 DEF breaker_vars
  <2>2. QED  BY <2>1 DEF BreakerInv, TailOK, InOrder, HeldOff, CallsOK, UnderWay,
                         Trips, LateSuccess, Behind, OnlyFailuresSince
<1>3. ASSUME NEW k \in Key, Check(k) PROVE BreakerInv'
  BY <1>2, <1>3 DEF Check
<1>4. ASSUME NEW c \in Call, NEW p \in Provider, MakeCall(c, p) PROVE BreakerInv'
  BY <1>4, MakeCallKeeps DEF BreakerInv
<1>5. ASSUME NEW c \in Call, Attempt(c) PROVE BreakerInv'
  BY <1>5, AttemptKeepsCalls, AttemptKeepsTails, AttemptKeepsOrder, AttemptHoldsOff
     DEF BreakerInv
<1>6. CASE Restart
  BY <1>6 DEF Restart, BreakerInv, TailOK, InOrder, HeldOff, CallsOK, UnderWay
<1>7. CASE UNCHANGED vars
  BY <1>2, <1>7 DEF vars
<1>8. QED  BY <1>1, <1>3, <1>4, <1>5, <1>6, <1>7 DEF Next

LEMMA BreakerInvOpens == TypeOK /\ BreakerInv => OpenForCooldown
<1> SUFFICES ASSUME TypeOK, BreakerInv, NEW p \in Provider
             PROVE  /\ is_open(p) => Struggling(p)
                    /\ \A i \in 1..Len(recorded[p]) :
                          Trips(p, i) /\ now < recorded[p][i].at + cooldown
                          => is_open(p) \/ LateSuccess(p, i)
  BY DEF OpenForCooldown
<1>1. is_open(p) <=> Struggling(p)  BY OpenIsStruggling DEF BreakerInv
<1>2. ASSUME NEW i \in 1..Len(recorded[p]), Trips(p, i),
             now < recorded[p][i].at + cooldown, ~LateSuccess(p, i)
      PROVE  is_open(p)
  <2>1. OnlyFailuresSince(p, i)  BY <1>2 DEF BreakerInv, HeldOff
  <2>2. QED  BY <1>1, <1>2, <2>1, StillStruggling DEF BreakerInv
<1>3. QED  BY <1>1, <1>2

LEMMA BreakerInvStops == TypeOK /\ BreakerInv => NoFurtherAttempts
<1> SUFFICES ASSUME TypeOK, BreakerInv, NEW c \in Call, UnderWay(c),
                    NEW p \in Provider, p = calls[c].to, Struggling(p)
             PROVE  calls[c].no <= recorded[p][Len(recorded[p])].called
  BY UnderWayFacts DEF NoFurtherAttempts, TypeOK
<1> USE BreakerAssumption
<1>1. PICK n \in Nat : n = Len(recorded[p])  BY DEF TypeOK, BreakerTypeOK
<1>2. n \in 1..n /\ Trips(p, n) /\ now < recorded[p][n].at + cooldown
  BY <1>1 DEF Struggling, Trips
<1>3. ~LateSuccess(p, n)  BY <1>1 DEF LateSuccess
<1>4. Behind(p, n)  BY <1>1, <1>2, <1>3 DEF BreakerInv, HeldOff
<1>5. QED  BY <1>1, <1>4 DEF Behind

\* failure_threshold failures in a row open the breaker for a cooldown, nothing
\* else opens it, and it closes early only by the success of a call that had
\* gone past it before (OpenForCooldown).
THEOREM BreakersHold == Spec => []OpenForCooldown
<1>1. TypeOK /\ BreakerInv /\ [Next]_vars => (TypeOK /\ BreakerInv)'
  BY TypeStep, BreakerStep
<1>2. Init => TypeOK /\ BreakerInv  BY TypeInit, BreakerInvInit
<1>3. TypeOK /\ BreakerInv => OpenForCooldown  BY BreakerInvOpens
<1>4. QED  BY <1>1, <1>2, <1>3, PTL DEF Spec

\* While a provider struggles, only calls that had passed its breaker before the
\* last failure are still making attempts on it (NoFurtherAttempts).
THEOREM StrugglingIsLeftAlone == Spec => []NoFurtherAttempts
<1>1. TypeOK /\ BreakerInv /\ [Next]_vars => (TypeOK /\ BreakerInv)'
  BY TypeStep, BreakerStep
<1>2. Init => TypeOK /\ BreakerInv  BY TypeInit, BreakerInvInit
<1>3. TypeOK /\ BreakerInv => NoFurtherAttempts  BY BreakerInvStops
<1>4. QED  BY <1>1, <1>2, <1>3, PTL DEF Spec
=============================================================================
