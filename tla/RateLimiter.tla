---------------------------- MODULE RateLimiter ----------------------------
(***************************************************************************)
(* The per-user rate limit of the proxy (proxy/rate_limiter.py): calendar  *)
(* minutes, counted in the memory of each ECS task.  check() runs on the   *)
(* event loop of its task without an await, so it is one step.  The tasks  *)
(* behind the load balancer share nothing, and a new task starts with      *)
(* empty windows.                                                          *)
(*                                                                         *)
(* The list of datetimes of a user is a set of entries, one per admission: *)
(* the code only filters it and takes its length.  Sessions are Claude     *)
(* Code processes that wait as long as Retry-After tells them.             *)
(***************************************************************************)
EXTENDS Integers, FiniteSets

CONSTANTS
  Users,
  Tasks,          \* ECS tasks of the proxy
  Sessions,       \* clients, each working for one user
  ConfiguredRpm,  \* requests_per_minute
  Second,         \* clock ticks in a second; the code counts microseconds
  Minute,         \* clock ticks in a minute
  MaxTime         \* bound on the clock

ASSUME RateAssumption ==
  /\ ConfiguredRpm \in Int
  /\ Second \in Nat \ {0}
  /\ Minute \in Nat \ {0}
  /\ MaxTime \in Nat

VARIABLES
  now,      \* the wall clock
  windows,  \* _request_windows of each task
  user,     \* sessions: whom it works for
  wake,     \* sessions: when the last Retry-After lets it try again
  log,      \* history: every admission of a task since it started
  refusals  \* history: how often a session was refused, and in which minute

vars == <<now, windows, user, wake, log, refusals>>

Rpm == IF ConfiguredRpm < 1 THEN 1 ELSE ConfiguredRpm

\* Mutant: only the microseconds are cleared.
StartOfSecond(t) == t - (t % Second)

\* now.replace(second=0, microsecond=0)
WindowStart(t) == t - (t % Minute)

\* Mutant: retry_after without its lower bound.
RetryAfterUnclamped(t) == (WindowStart(t) + Minute - t) \div Second

\* Whole seconds until the window ends, but at least one.
RetryAfter(t) ==
  LET seconds == (WindowStart(t) + Minute - t) \div Second
  IN IF seconds < 1 THEN 1 ELSE seconds

\* Mutant: the timestamps of earlier windows are kept.
Unpruned(t, u) == windows[t][u]

\* active_requests
Active(t, u) == {e \in windows[t][u] : e.at >= WindowStart(now)}

Init ==
  /\ now = 0
  /\ windows = [t \in Tasks |-> [u \in Users |-> {}]]
  /\ user \in [Sessions -> Users]
  /\ wake = [s \in Sessions |-> 0]
  /\ log = [t \in Tasks |-> [u \in Users |-> {}]]
  /\ refusals = [s \in Sessions |-> [minute |-> 0, count |-> 0]]

\* Mutant: one request more than the limit.
AdmitOneMore(t, s) ==
  LET u == user[s]
      entry == [at |-> now, nr |-> Cardinality(log[t][u])]
  IN /\ wake[s] <= now
     /\ Cardinality(Active(t, u)) <= Rpm
     /\ windows' = [windows EXCEPT ![t][u] = Active(t, u) \cup {entry}]
     /\ log' = [log EXCEPT ![t][u] = @ \cup {entry}]
     /\ UNCHANGED <<now, user, wake, refusals>>

\* The load balancer hands a request of s to t, where there is room.
Admit(t, s) ==
  LET u == user[s]
      entry == [at |-> now, nr |-> Cardinality(log[t][u])]
  IN /\ wake[s] <= now
     /\ Cardinality(Active(t, u)) < Rpm
     /\ windows' = [windows EXCEPT ![t][u] = Active(t, u) \cup {entry}]
     /\ log' = [log EXCEPT ![t][u] = @ \cup {entry}]
     /\ UNCHANGED <<now, user, wake, refusals>>

\* The same where there is none: 429, and s waits Retry-After seconds.
Refuse(t, s) ==
  LET u == user[s]
      start == WindowStart(now)
  IN /\ wake[s] <= now
     /\ Cardinality(Active(t, u)) >= Rpm
     /\ windows' = [windows EXCEPT ![t][u] = Active(t, u)]
     /\ wake' = [wake EXCEPT ![s] = now + RetryAfter(now) * Second]
     /\ refusals' = [refusals EXCEPT ![s] =
          [minute |-> start, count |-> IF @.minute = start THEN @.count + 1 ELSE 1]]
     /\ UNCHANGED <<now, user, log>>

\* A deployment or a failed health check replaces the task.
Restart(t) ==
  /\ windows' = [windows EXCEPT ![t] = [u \in Users |-> {}]]
  /\ log' = [log EXCEPT ![t] = [u \in Users |-> {}]]
  /\ UNCHANGED <<now, user, wake, refusals>>

Tick ==
  /\ now < MaxTime
  /\ now' = now + 1
  /\ UNCHANGED <<windows, user, wake, log, refusals>>

Next ==
  \/ \E t \in Tasks, s \in Sessions : Admit(t, s) \/ Refuse(t, s)
  \/ \E t \in Tasks : Restart(t)
  \/ Tick

Spec == Init /\ [][Next]_vars

-----------------------------------------------------------------------------
(* Properties.                                                             *)

Entries == [at : Nat, nr : Nat]

\* Every variable keeps its type.
TypeOK ==
  /\ now \in Nat
  /\ user \in [Sessions -> Users]
  /\ wake \in [Sessions -> Nat]
  /\ refusals \in [Sessions -> [minute : Nat, count : Nat]]
  /\ windows \in [Tasks -> [Users -> SUBSET Entries]]
  /\ log \in [Tasks -> [Users -> SUBSET Entries]]

\* The admissions of t in the calendar minute of x.
InMinute(t, u, x) == {e \in log[t][u] : WindowStart(e.at) = WindowStart(x)}

\* The admissions of t in the minute that starts with the instant x.
InSpan(t, u, x) == {e \in log[t][u] : e.at >= x /\ e.at < x + Minute}

\* A task admits at most Rpm requests of a user in a calendar minute, although
\* it forgets timestamps at every check (rate_limiter.py:27-34).
MinuteBounded ==
  \A t \in Tasks, u \in Users, x \in 0 .. now : Cardinality(InMinute(t, u, x)) <= Rpm

\* Windows are not sliding: around a window's end as much as twice Rpm passes
\* in the span of a minute, and never more (rate_limiter.py:24).
SpanBounded ==
  \A t \in Tasks, u \in Users, x \in 0 .. now : Cardinality(InSpan(t, u, x)) <= 2 * Rpm

\* A refusal is owed to Rpm requests that this task admitted in this very
\* minute, never to those of an earlier one, to refused ones or to another
\* user's (rate_limiter.py:27-34, 42).
RefusedForCause ==
  [][\A t \in Tasks, s \in Sessions :
       Refuse(t, s) => Cardinality(InMinute(t, user[s], now)) >= Rpm]_vars

\* Retry-After is cut to whole seconds and may end inside the window it should
\* outlast, but a session that waits as told is refused at most twice in a
\* minute, whichever tasks it meets (rate_limiter.py:35).
RefusedAtMostTwice == \A s \in Sessions : refusals[s].count <= 2

-----------------------------------------------------------------------------
(* Why they hold: the invariant that is inductive.                         *)

\* Forgotten entries are of earlier minutes; remembered ones were admitted.
RemembersMinute ==
  \A t \in Tasks, u \in Users :
    /\ windows[t][u] \subseteq log[t][u]
    /\ \A e \in log[t][u] : e.at >= WindowStart(now) => e \in windows[t][u]

\* Entries are numbered, so that requests admitted at one instant stay apart.
LogNumbered ==
  \A t \in Tasks, u \in Users :
    /\ IsFiniteSet(log[t][u])
    /\ \A e \in log[t][u] : e.at <= now /\ e.nr < Cardinality(log[t][u])

\* After one refusal a session wakes in the last second of the window or
\* later, after two beyond it.
WaitsLongEnough ==
  \A s \in Sessions :
    /\ refusals[s].count >= 1 => wake[s] + Second > refusals[s].minute + Minute
    /\ refusals[s].count >= 2 => wake[s] >= refusals[s].minute + Minute

IInv ==
  /\ TypeOK
  /\ RemembersMinute
  /\ LogNumbered
  /\ WaitsLongEnough
  /\ MinuteBounded
  /\ RefusedAtMostTwice
=============================================================================
