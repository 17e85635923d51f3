----------------------------- MODULE KeyLeases -----------------------------
(***************************************************************************)
(* What the key cache of the Token Service promises, without Lambdas,      *)
(* operators or steps between them: DynamoDB holds, for each user, a lease *)
(* on one key of that user.  A lease may be granted, renewed or withdrawn  *)
(* at any time, on a key that has ended as well as on a living one, but    *)
(* its end never lies more than Term after the last instant the key was    *)
(* alive, and keys that have ended stay ended.                             *)
(***************************************************************************)
EXTENDS Integers

CONSTANTS Users, Keys, NoUser, NoKey, Term, MaxTime

VARIABLES now, life, owner, endedAt, lease

vars == <<now, life, owner, endedAt, lease>>

NoLease == [key |-> NoKey, ttl |-> 0]

\* The last instant at which k was known to be alive.
LastAlive(k) == IF life[k] = "ended" THEN endedAt[k] ELSE now

Init ==
  /\ now = 0
  /\ life = [k \in Keys |-> "unborn"]
  /\ owner = [k \in Keys |-> NoUser]
  /\ endedAt = [k \in Keys |-> 0]
  /\ lease = [u \in Users |-> NoLease]

Mint(k, u) ==
  /\ life[k] = "unborn"
  /\ life' = [life EXCEPT ![k] = "alive"]
  /\ owner' = [owner EXCEPT ![k] = u]
  /\ UNCHANGED <<now, endedAt, lease>>

End(k) ==
  /\ life[k] = "alive"
  /\ life' = [life EXCEPT ![k] = "ended"]
  /\ endedAt' = [endedAt EXCEPT ![k] = now]
  /\ UNCHANGED <<now, owner, lease>>

Grant(u, k) ==
  /\ UNCHANGED <<now, life, owner, endedAt>>
  /\ life[k] # "unborn"
  /\ owner[k] = u
  /\ \E ttl \in 0 .. LastAlive(k) + Term :
       lease' = [lease EXCEPT ![u] = [key |-> k, ttl |-> ttl]]

Withdraw(u) ==
  /\ lease' = [lease EXCEPT ![u] = NoLease]
  /\ UNCHANGED <<now, life, owner, endedAt>>

Tick ==
  /\ now' = now + 1
  /\ UNCHANGED <<life, owner, endedAt, lease>>

Next ==
  \/ \E k \in Keys, u \in Users : Mint(k, u)
  \/ \E k \in Keys : End(k)
  \/ \E u \in Users, k \in Keys : Grant(u, k)
  \/ \E u \in Users : Withdraw(u)
  \/ Tick

Spec == Init /\ [][Next]_vars
=============================================================================
