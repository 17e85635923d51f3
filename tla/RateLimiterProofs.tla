------------------------- MODULE RateLimiterProofs -------------------------
(***************************************************************************)
(* Proofs about RateLimiter, for any number of tasks, users and sessions,  *)
(* any limit and any resolution of the clock.                              *)
(***************************************************************************)
EXTENDS RateLimiter, FiniteSetTheorems, TLAPS

\* Division with remainder, the one fact about \div and % the rest uses.
LEMMA Division ==
  ASSUME NEW a \in Int, NEW b \in Nat \ {0}
  PROVE  /\ a \div b \in Int /\ a % b \in Int
         /\ a = b * (a \div b) + (a % b)
         /\ 0 <= a % b /\ a % b < b
OBVIOUS

LEMMA Between ==
  ASSUME NEW b \in Nat \ {0}, NEW p \in Int, NEW q \in Int,
         b * p < b * q + b
  PROVE  p <= q
OBVIOUS

\* What an instant has to do with the start of its window.
LEMMA WindowStartFacts ==
  ASSUME NEW x \in Nat
  PROVE  /\ WindowStart(x) \in Nat
         /\ WindowStart(x) <= x
         /\ x < WindowStart(x) + Minute
BY Division, RateAssumption DEF WindowStart

\* An instant is in the window of a later one as soon as it is past its start.
LEMMA SameWindow ==
  ASSUME NEW x \in Nat, NEW y \in Nat, WindowStart(y) <= x, x <= y
  PROVE  WindowStart(x) = WindowStart(y)
<1> DEFINE p == x \div Minute
           q == y \div Minute
<1>1. /\ p \in Int /\ q \in Int
      /\ WindowStart(x) = Minute * p /\ WindowStart(y) = Minute * q
      /\ x < Minute * p + Minute /\ y < Minute * q + Minute
      /\ Minute * p <= x /\ Minute * q <= y
  BY Division, RateAssumption DEF WindowStart
<1> HIDE DEF p, q
<1>2. Minute * q < Minute * p + Minute
  <2>1. Minute * q <= x /\ x < Minute * p + Minute /\ Minute * q \in Int /\ Minute * p \in Int
    BY <1>1, RateAssumption
  <2> QED  BY <2>1, RateAssumption
<1>3. Minute * p < Minute * q + Minute
  <2>1. Minute * p <= y /\ y < Minute * q + Minute /\ Minute * q \in Int /\ Minute * p \in Int
    BY <1>1, RateAssumption
  <2> QED  BY <2>1, RateAssumption
<1>4. p = q
  BY <1>1, <1>2, <1>3, Between, RateAssumption
<1> QED  BY <1>1, <1>4

\* The window's start never moves back.
LEMMA WindowAdvances ==
  ASSUME NEW x \in Nat
  PROVE  WindowStart(x) <= WindowStart(x + 1)
<1>1. CASE WindowStart(x + 1) <= x
  BY <1>1, SameWindow, WindowStartFacts
<1>2. CASE ~(WindowStart(x + 1) <= x)
  BY <1>2, WindowStartFacts
<1> QED  BY <1>1, <1>2

\* The instants of a minute that starts anywhere lie in two windows.
LEMMA TwoWindows ==
  ASSUME NEW x \in Nat, NEW y \in Nat, x <= y, y < x + Minute
  PROVE  \/ WindowStart(y) = WindowStart(x)
         \/ WindowStart(y) = WindowStart(x) + Minute
<1> DEFINE p == x \div Minute
           q == y \div Minute
<1>1. /\ p \in Int /\ q \in Int
      /\ WindowStart(x) = Minute * p /\ WindowStart(y) = Minute * q
      /\ x < Minute * p + Minute /\ y < Minute * q + Minute
      /\ Minute * p <= x /\ Minute * q <= y
  BY Division, RateAssumption DEF WindowStart
<1> HIDE DEF p, q
<1>2. /\ Minute * p < Minute * q + Minute
      /\ Minute * q < Minute * p + Minute + Minute
  <2>1. Minute * q \in Int /\ Minute * p \in Int
    BY <1>1, RateAssumption
  <2> QED  BY <1>1, <2>1, RateAssumption
<1>3. Minute * (p + 1) = Minute * p + Minute
  BY <1>1, RateAssumption
<1>4. p <= q
  BY <1>1, <1>2, Between, RateAssumption
<1>5. q <= p + 1
  BY <1>1, <1>2, <1>3, Between, RateAssumption
<1>6. q = p \/ q = p + 1
  BY <1>1, <1>4, <1>5
<1> QED  BY <1>1, <1>3, <1>6

\* What Retry-After promises: a positive number of whole seconds that ends in
\* the last second of the window or later, and beyond it when it was asked for
\* in the last second.
LEMMA RetryAfterFacts ==
  ASSUME NEW x \in Nat
  PROVE  /\ RetryAfter(x) \in Nat
         /\ RetryAfter(x) * Second \in Nat
         /\ x + RetryAfter(x) * Second + Second > WindowStart(x) + Minute
         /\ RetryAfter(x) * Second >= Second
<1> DEFINE rest == WindowStart(x) + Minute - x
           whole == rest \div Second
<1>1. rest \in Int /\ rest > 0
  BY WindowStartFacts, RateAssumption
<1> HIDE DEF rest
<1>2. whole \in Int /\ rest < Second * whole + Second
  BY <1>1, Division, RateAssumption
<1>3. RetryAfter(x) = IF whole < 1 THEN 1 ELSE whole
  BY DEF RetryAfter, rest
<1> USE DEF rest
<1> HIDE DEF whole
<1>4. CASE whole < 1
  <2>1. RetryAfter(x) = 1
    BY <1>3, <1>4
  <2>2. Second * whole <= 0
    BY <1>2, <1>4, RateAssumption
  <2>3. Second * whole \in Int
    BY <1>2, RateAssumption
  <2> QED  BY <1>1, <1>2, <2>1, <2>2, <2>3, WindowStartFacts, RateAssumption
<1>5. CASE ~(whole < 1)
  <2>1. RetryAfter(x) = whole /\ whole \in Nat /\ whole >= 1
    BY <1>2, <1>3, <1>5
  <2>2. Second * whole >= Second /\ Second * whole \in Nat /\ whole * Second = Second * whole
    BY <2>1, RateAssumption
  <2> QED  BY <1>1, <1>2, <2>1, <2>2, WindowStartFacts, RateAssumption
<1> QED  BY <1>4, <1>5
-----------------------------------------------------------------------------
(* The steps.                                                              *)

LEMMA InitInv == Init => IInv
<1> SUFFICES ASSUME Init PROVE IInv
  OBVIOUS
<1>1. TypeOK
  BY DEF Init, TypeOK
<1>2. RemembersMinute /\ WaitsLongEnough /\ RefusedAtMostTwice
  BY DEF Init, RemembersMinute, WaitsLongEnough, RefusedAtMostTwice
<1>3. LogNumbered
  BY FS_EmptySet DEF Init, LogNumbered
<1>4. MinuteBounded
  <2> SUFFICES ASSUME NEW t \in Tasks, NEW u \in Users, NEW x \in 0 .. now
               PROVE  Cardinality(InMinute(t, u, x)) <= Rpm
    BY DEF MinuteBounded
  <2>1. InMinute(t, u, x) = {}
    BY DEF Init, InMinute
  <2> QED  BY <2>1, FS_EmptySet, RateAssumption DEF Rpm
<1> QED  BY <1>1, <1>2, <1>3, <1>4 DEF IInv

\* The minute of now as the limiter sees it is the minute as it was.
LEMMA ActiveIsMinute ==
  ASSUME IInv, NEW t \in Tasks, NEW u \in Users
  PROVE  /\ Active(t, u) = InMinute(t, u, now)
         /\ IsFiniteSet(Active(t, u))
<1>1. ASSUME NEW e \in log[t][u]
      PROVE  e.at \in Nat /\ e.at <= now
  BY <1>1 DEF IInv, TypeOK, LogNumbered, Entries
<1>2. Active(t, u) \subseteq InMinute(t, u, now)
  <2> SUFFICES ASSUME NEW e \in Active(t, u)
               PROVE  e \in InMinute(t, u, now)
    OBVIOUS
  <2>1. e \in log[t][u] /\ WindowStart(now) <= e.at
    BY <1>1, WindowStartFacts DEF Active, IInv, TypeOK, RemembersMinute
  <2> QED  BY <2>1, <1>1, SameWindow DEF IInv, TypeOK, InMinute
<1>3. InMinute(t, u, now) \subseteq Active(t, u)
  <2> SUFFICES ASSUME NEW e \in InMinute(t, u, now)
               PROVE  e \in Active(t, u)
    OBVIOUS
  <2>1. e \in log[t][u] /\ WindowStart(e.at) = WindowStart(now)
    BY DEF InMinute
  <2>2. e.at >= WindowStart(now)
    BY <2>1, <1>1, WindowStartFacts
  <2> QED  BY <2>1, <2>2 DEF Active, IInv, RemembersMinute
<1>4. IsFiniteSet(Active(t, u))
  BY FS_Subset DEF Active, IInv, RemembersMinute, LogNumbered
<1> QED  BY <1>2, <1>3, <1>4

LEMMA AdmitStep ==
  ASSUME IInv, NEW t \in Tasks, NEW s \in Sessions, Admit(t, s)
  PROVE  IInv'
<1> DEFINE u == user[s]
           entry == [at |-> now, nr |-> Cardinality(log[t][u])]
<1>0. /\ u \in Users /\ now \in Nat
      /\ IsFiniteSet(log[t][u]) /\ Cardinality(log[t][u]) \in Nat
      /\ entry \in Entries /\ entry \notin log[t][u]
  BY FS_CardinalityType DEF IInv, TypeOK, LogNumbered, Entries
<1>1. /\ windows' = [windows EXCEPT ![t][u] = Active(t, u) \cup {entry}]
      /\ log' = [log EXCEPT ![t][u] = log[t][u] \cup {entry}]
      /\ UNCHANGED <<now, user, wake, refusals>>
      /\ Cardinality(Active(t, u)) < Rpm
  BY DEF Admit
<1>2. ASSUME NEW t2 \in Tasks, NEW u2 \in Users
      PROVE  /\ t2 = t /\ u2 = u => /\ windows'[t2][u2] = Active(t, u) \cup {entry}
                                    /\ log'[t2][u2] = log[t][u] \cup {entry}
             /\ ~(t2 = t /\ u2 = u) => /\ windows'[t2][u2] = windows[t2][u2]
                                       /\ log'[t2][u2] = log[t2][u2]
  BY <1>0, <1>1 DEF IInv, TypeOK
<1>3. Active(t, u) \subseteq windows[t][u] /\ windows[t][u] \subseteq Entries
  BY <1>0 DEF Active, IInv, TypeOK
<1>4. TypeOK'
  BY <1>0, <1>1, <1>3 DEF IInv, TypeOK
<1> HIDE DEF entry
<1>5. RemembersMinute'
  <2> SUFFICES ASSUME NEW t2 \in Tasks, NEW u2 \in Users
               PROVE  /\ windows'[t2][u2] \subseteq log'[t2][u2]
                      /\ \A e \in log'[t2][u2] : e.at >= WindowStart(now) => e \in windows'[t2][u2]
    BY <1>1 DEF RemembersMinute, WindowStart
  <2>1. CASE t2 = t /\ u2 = u
    BY <2>1, <1>0, <1>2, <1>3 DEF IInv, RemembersMinute, Active
  <2>2. CASE ~(t2 = t /\ u2 = u)
    BY <2>2, <1>2 DEF IInv, RemembersMinute
  <2> QED  BY <2>1, <2>2
<1>6. LogNumbered'
  <2> SUFFICES ASSUME NEW t2 \in Tasks, NEW u2 \in Users
               PROVE  /\ IsFiniteSet(log'[t2][u2])
                      /\ \A e \in log'[t2][u2] : e.at <= now /\ e.nr < Cardinality(log'[t2][u2])
    BY <1>1 DEF LogNumbered
  <2>1. CASE t2 = t /\ u2 = u
    <3>1. IsFiniteSet(log'[t2][u2]) /\ Cardinality(log'[t2][u2]) = Cardinality(log[t][u]) + 1
      BY <2>1, <1>0, <1>2, FS_AddElement
    <3>2. \A e \in log[t][u] : e.at <= now /\ e.nr \in Nat /\ e.nr < Cardinality(log[t][u])
      BY <1>0 DEF IInv, LogNumbered, TypeOK, Entries
    <3>3. entry.at = now /\ entry.nr = Cardinality(log[t][u])
      BY DEF entry
    <3> QED  BY <2>1, <1>0, <1>2, <3>1, <3>2, <3>3
  <2>2. CASE ~(t2 = t /\ u2 = u)
    BY <2>2, <1>2 DEF IInv, LogNumbered
  <2> QED  BY <2>1, <2>2
<1>7. WaitsLongEnough' /\ RefusedAtMostTwice'
  BY <1>1 DEF IInv, WaitsLongEnough, RefusedAtMostTwice
<1>8. MinuteBounded'
  <2> SUFFICES ASSUME NEW t2 \in Tasks, NEW u2 \in Users, NEW x \in 0 .. now
               PROVE  Cardinality(InMinute(t2, u2, x)') <= Rpm
    BY <1>1 DEF MinuteBounded, InMinute, Rpm, WindowStart
  <2>1. InMinute(t2, u2, x)' = {e \in log'[t2][u2] : WindowStart(e.at) = WindowStart(x)}
    BY DEF InMinute, WindowStart
  <2>2. Cardinality(InMinute(t2, u2, x)) <= Rpm
    BY DEF IInv, MinuteBounded
  <2>3. CASE /\ t2 = t /\ u2 = u
             /\ WindowStart(entry.at) = WindowStart(x)
    <3>1. WindowStart(now) = WindowStart(x)
      BY <2>3 DEF entry
    <3>2. InMinute(t2, u2, x)' = Active(t, u) \cup {entry}
      BY <2>1, <2>3, <1>0, <1>2, <3>1, ActiveIsMinute DEF InMinute
    <3>3. entry \notin Active(t, u)
      BY <1>0, ActiveIsMinute DEF InMinute
    <3>4. Cardinality(InMinute(t2, u2, x)') = Cardinality(Active(t, u)) + 1
      BY <1>0, <3>2, <3>3, ActiveIsMinute, FS_AddElement
    <3> QED  BY <1>0, <1>1, <3>4, ActiveIsMinute, FS_CardinalityType, RateAssumption DEF Rpm
  <2>4. CASE ~(/\ t2 = t /\ u2 = u
               /\ WindowStart(entry.at) = WindowStart(x))
    <3>1. InMinute(t2, u2, x)' = InMinute(t2, u2, x)
      BY <2>1, <2>4, <1>2 DEF InMinute
    <3> QED  BY <2>2, <3>1
  <2> QED  BY <2>3, <2>4
<1> QED  BY <1>4, <1>5, <1>6, <1>7, <1>8 DEF IInv

LEMMA RefuseStep ==
  ASSUME IInv, NEW t \in Tasks, NEW s \in Sessions, Refuse(t, s)
  PROVE  IInv'
<1> DEFINE u == user[s]
           start == WindowStart(now)
           was == refusals[s]
           count == IF was.minute = start THEN was.count + 1 ELSE 1
<1>0. /\ u \in Users /\ now \in Nat /\ wake[s] \in Nat
      /\ was \in [minute : Nat, count : Nat]
      /\ RetryAfter(now) * Second \in Nat /\ start \in Nat
      /\ wake[s] <= now
  BY RetryAfterFacts, WindowStartFacts DEF IInv, TypeOK, Refuse
<1>1. /\ windows' = [windows EXCEPT ![t][u] = Active(t, u)]
      /\ wake' = [wake EXCEPT ![s] = now + RetryAfter(now) * Second]
      /\ refusals' = [refusals EXCEPT ![s] = [minute |-> start, count |-> count]]
      /\ UNCHANGED <<now, user, log>>
  BY DEF Refuse
<1>2. Active(t, u) \subseteq windows[t][u] /\ windows[t][u] \subseteq Entries
  BY <1>0 DEF Active, IInv, TypeOK
<1>3. TypeOK'
  BY <1>0, <1>1, <1>2 DEF IInv, TypeOK
<1>4. RemembersMinute' /\ LogNumbered' /\ MinuteBounded'
  <2>1. RemembersMinute'
    BY <1>0, <1>1 DEF IInv, TypeOK, RemembersMinute, Active, WindowStart
  <2>2. LogNumbered' /\ MinuteBounded'
    BY <1>1 DEF IInv, LogNumbered, MinuteBounded, InMinute, WindowStart, Rpm
  <2> QED  BY <2>1, <2>2
<1>5. \A r \in Sessions : r # s => refusals'[r] = refusals[r] /\ wake'[r] = wake[r]
  BY <1>1 DEF IInv, TypeOK
<1>6. refusals'[s] = [minute |-> start, count |-> count] /\ wake'[s] = now + RetryAfter(now) * Second
  BY <1>1 DEF IInv, TypeOK
<1>7. /\ now + RetryAfter(now) * Second + Second > start + Minute
      /\ RetryAfter(now) * Second >= Second
      /\ now < start + Minute
  BY <1>0, RetryAfterFacts, WindowStartFacts
<1>8. /\ was.count >= 1 => wake[s] + Second > was.minute + Minute
      /\ was.count >= 2 => wake[s] >= was.minute + Minute
      /\ was.count <= 2
  BY DEF IInv, WaitsLongEnough, RefusedAtMostTwice
<1> HIDE DEF start, was
<1>9. /\ count \in 1 .. 2
      /\ count >= 2 => now + RetryAfter(now) * Second >= start + Minute
  BY <1>0, <1>7, <1>8, RateAssumption
<1>10. WaitsLongEnough' /\ RefusedAtMostTwice'
  BY <1>0, <1>5, <1>6, <1>7, <1>9 DEF IInv, WaitsLongEnough, RefusedAtMostTwice
<1> QED  BY <1>3, <1>4, <1>10 DEF IInv

LEMMA RestartStep ==
  ASSUME IInv, NEW t \in Tasks, Restart(t)
  PROVE  IInv'
<1>1. /\ windows' = [windows EXCEPT ![t] = [u \in Users |-> {}]]
      /\ log' = [log EXCEPT ![t] = [u \in Users |-> {}]]
      /\ UNCHANGED <<now, user, wake, refusals>>
  BY DEF Restart
<1>2. ASSUME NEW t2 \in Tasks, NEW u2 \in Users
      PROVE  \/ windows'[t2][u2] = {} /\ log'[t2][u2] = {}
             \/ windows'[t2][u2] = windows[t2][u2] /\ log'[t2][u2] = log[t2][u2]
  BY <1>1 DEF IInv, TypeOK
<1>3. TypeOK'
  BY <1>1 DEF IInv, TypeOK
<1>4. RemembersMinute'
  BY <1>1, <1>2 DEF IInv, RemembersMinute, WindowStart
<1>5. LogNumbered'
  BY <1>1, <1>2, FS_EmptySet DEF IInv, LogNumbered
<1>6. WaitsLongEnough' /\ RefusedAtMostTwice'
  BY <1>1 DEF IInv, WaitsLongEnough, RefusedAtMostTwice
<1>7. MinuteBounded'
  <2> SUFFICES ASSUME NEW t2 \in Tasks, NEW u2 \in Users, NEW x \in 0 .. now
               PROVE  Cardinality(InMinute(t2, u2, x)') <= Rpm
    BY <1>1 DEF MinuteBounded, InMinute, Rpm, WindowStart
  <2>1. InMinute(t2, u2, x)' = {} \/ InMinute(t2, u2, x)' = InMinute(t2, u2, x)
    BY <1>2 DEF InMinute, WindowStart
  <2> QED  BY <2>1, FS_EmptySet, RateAssumption DEF IInv, MinuteBounded, Rpm
<1> QED  BY <1>3, <1>4, <1>5, <1>6, <1>7 DEF IInv

LEMMA TickStep ==
  ASSUME IInv, Tick
  PROVE  IInv'
<1>1. now' = now + 1 /\ now \in Nat /\ UNCHANGED <<windows, user, wake, log, refusals>>
  BY DEF Tick, IInv, TypeOK
<1>2. TypeOK'
  BY <1>1 DEF IInv, TypeOK
<1>3. ASSUME NEW t \in Tasks, NEW u \in Users, NEW e \in log[t][u]
      PROVE  e.at \in Nat /\ e.at <= now
  BY DEF IInv, TypeOK, LogNumbered, Entries
<1>4. RemembersMinute'
  <2>1. WindowStart(now) <= WindowStart(now + 1)
        /\ WindowStart(now) \in Nat /\ WindowStart(now + 1) \in Nat
    BY <1>1, WindowAdvances, WindowStartFacts
  <2>2. WindowStart(now)' = WindowStart(now + 1)
    BY <1>1 DEF WindowStart
  <2> QED  BY <1>1, <1>3, <2>1, <2>2 DEF IInv, RemembersMinute
<1>5. LogNumbered'
  BY <1>1, <1>3 DEF IInv, LogNumbered
<1>6. WaitsLongEnough' /\ RefusedAtMostTwice'
  BY <1>1 DEF IInv, WaitsLongEnough, RefusedAtMostTwice
<1>7. MinuteBounded'
  <2> SUFFICES ASSUME NEW t \in Tasks, NEW u \in Users, NEW x \in 0 .. now + 1
               PROVE  Cardinality(InMinute(t, u, x)) <= Rpm
    BY <1>1 DEF MinuteBounded, InMinute, Rpm, WindowStart
  <2>1. CASE x \in 0 .. now
    BY <2>1 DEF IInv, MinuteBounded
  <2>2. CASE x = now + 1 /\ WindowStart(x) = WindowStart(now)
    <3>1. InMinute(t, u, x) = InMinute(t, u, now)
      BY <2>2 DEF InMinute
    <3> QED  BY <1>1, <3>1 DEF IInv, MinuteBounded
  <2>3. CASE x = now + 1 /\ WindowStart(x) # WindowStart(now)
    <3>1. WindowStart(x) > now
      BY <1>1, <2>3, SameWindow, WindowStartFacts
    <3>2. InMinute(t, u, x) = {}
      BY <1>1, <1>3, <3>1, <2>3, WindowStartFacts DEF InMinute
    <3> QED  BY <3>2, FS_EmptySet, RateAssumption DEF Rpm
  <2> QED  BY <1>1, <2>1, <2>2, <2>3
<1> QED  BY <1>2, <1>4, <1>5, <1>6, <1>7 DEF IInv

LEMMA InvStep == IInv /\ [Next]_vars => IInv'
<1> SUFFICES ASSUME IInv, [Next]_vars PROVE IInv'
  OBVIOUS
<1>1. ASSUME NEW t \in Tasks, NEW s \in Sessions, Admit(t, s)   PROVE IInv'
  BY <1>1, AdmitStep
<1>2. ASSUME NEW t \in Tasks, NEW s \in Sessions, Refuse(t, s)  PROVE IInv'
  BY <1>2, RefuseStep
<1>3. ASSUME NEW t \in Tasks, Restart(t)                        PROVE IInv'
  BY <1>3, RestartStep
<1>4. CASE Tick
  BY <1>4, TickStep
<1>5. CASE UNCHANGED vars
  BY <1>5 DEF vars, IInv, TypeOK, RemembersMinute, LogNumbered, WaitsLongEnough,
     MinuteBounded, RefusedAtMostTwice, InMinute, WindowStart, Rpm
<1> QED  BY <1>1, <1>2, <1>3, <1>4, <1>5 DEF Next

-----------------------------------------------------------------------------
(* The results.                                                            *)

\* The inductive invariant of the rate limiter, whatever its limit, its clock
\* and its load (rate_limiter.py:22-47).
THEOREM InvariantHolds == Spec => []IInv
<1> QED  BY InitInv, InvStep, PTL DEF Spec

\* A task never admits more than Rpm requests of a user in a calendar minute.
THEOREM MinutesBounded == Spec => []MinuteBounded
<1>1. IInv => MinuteBounded
  BY DEF IInv
<1> QED  BY <1>1, InvariantHolds, PTL

\* A session that honours Retry-After is refused at most twice in a minute.
THEOREM RefusalsBounded == Spec => []RefusedAtMostTwice
<1>1. IInv => RefusedAtMostTwice
  BY DEF IInv
<1> QED  BY <1>1, InvariantHolds, PTL

LEMMA SpanStep == IInv => SpanBounded
<1> SUFFICES ASSUME IInv, NEW t \in Tasks, NEW u \in Users, NEW x \in 0 .. now
             PROVE  Cardinality(InSpan(t, u, x)) <= 2 * Rpm
  BY DEF SpanBounded
<1> DEFINE y == WindowStart(x) + Minute
           second == {e \in InSpan(t, u, x) : WindowStart(e.at) = y}
<1>0. IsFiniteSet(log[t][u]) /\ now \in Nat /\ x \in Nat /\ Rpm \in Nat
  BY RateAssumption DEF IInv, LogNumbered, TypeOK, Rpm
<1>1. ASSUME NEW e \in InSpan(t, u, x)
      PROVE  /\ e \in log[t][u] /\ e.at \in 0 .. now
             /\ WindowStart(e.at) = WindowStart(x) \/ WindowStart(e.at) = y
  <2>1. e \in log[t][u] /\ e.at \in 0 .. now /\ x <= e.at /\ e.at < x + Minute
    BY DEF InSpan, IInv, TypeOK, LogNumbered, Entries
  <2> QED  BY <2>1, <1>0, TwoWindows
<1>2. InSpan(t, u, x) \subseteq InMinute(t, u, x) \cup second
  BY <1>1 DEF InMinute
<1>3. IsFiniteSet(InMinute(t, u, x)) /\ Cardinality(InMinute(t, u, x)) <= Rpm
  BY <1>0, FS_Subset DEF IInv, MinuteBounded, InMinute
<1>4. IsFiniteSet(second) /\ Cardinality(second) <= Rpm
  <2>1. CASE second = {}
    <3> HIDE DEF second
    <3>1. IsFiniteSet({}) /\ Cardinality({}) = 0
      BY FS_EmptySet
    <3> QED  BY <1>0, <2>1, <3>1
  <2>2. CASE second # {}
    <3>1. PICK e \in second : TRUE
      BY <2>2
    <3>2. second \subseteq InMinute(t, u, e.at)
      BY <1>1, <3>1 DEF InMinute
    <3>3. IsFiniteSet(InMinute(t, u, e.at)) /\ Cardinality(InMinute(t, u, e.at)) <= Rpm
      BY <1>0, <1>1, <3>1, FS_Subset DEF IInv, MinuteBounded, InMinute
    <3> QED  BY <1>0, <3>2, <3>3, FS_Subset, FS_CardinalityType
  <2> QED  BY <2>1, <2>2
<1> HIDE DEF second
<1>5. /\ IsFiniteSet(InMinute(t, u, x) \cup second)
      /\ Cardinality(InMinute(t, u, x) \cup second) <= 2 * Rpm
  <2> DEFINE A == InMinute(t, u, x)
  <2>1. IsFiniteSet(A) /\ Cardinality(A) <= Rpm
    BY <1>3
  <2> HIDE DEF A
  <2>2. /\ IsFiniteSet(A \cup second)
        /\ Cardinality(A \cup second) = Cardinality(A) + Cardinality(second) - Cardinality(A \cap second)
    BY <2>1, <1>4, FS_Union
  <2>3. Cardinality(A) \in Nat /\ Cardinality(second) \in Nat /\ Cardinality(A \cap second) \in Nat
    BY <2>1, <1>4, FS_Intersection, FS_CardinalityType
  <2>4. Cardinality(A \cup second) <= 2 * Rpm
    BY <1>0, <1>4, <2>1, <2>2, <2>3
  <2> QED  BY <2>2, <2>4 DEF A
<1> QED  BY <1>0, <1>2, <1>5, FS_Subset, FS_CardinalityType

\* In the span of any minute, a task admits at most twice Rpm requests of a
\* user.
THEOREM SpansBounded == Spec => []SpanBounded
<1> QED  BY InvariantHolds, SpanStep, PTL

\* No refusal without Rpm admissions of the same user in the same minute.
THEOREM RefusalsHaveCause == Spec => RefusedForCause
<1>1. IInv => [\A t \in Tasks, s \in Sessions :
                 Refuse(t, s) => Cardinality(InMinute(t, user[s], now)) >= Rpm]_vars
  <2> SUFFICES ASSUME IInv, NEW t \in Tasks, NEW s \in Sessions, Refuse(t, s)
               PROVE  Cardinality(InMinute(t, user[s], now)) >= Rpm
    OBVIOUS
  <2>1. user[s] \in Users /\ Cardinality(Active(t, user[s])) >= Rpm
    BY DEF Refuse, IInv, TypeOK
  <2> QED  BY <2>1, ActiveIsMinute
<1> QED  BY <1>1, InvariantHolds, PTL DEF RefusedForCause
=============================================================================
