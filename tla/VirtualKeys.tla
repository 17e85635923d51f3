---------------------------- MODULE VirtualKeys ----------------------------
(***************************************************************************)
(* The life of a virtual key between the three processes that touch it:    *)
(*                                                                         *)
(*  - invocations of the Token Service Lambda (token_service/handler.py,   *)
(*    token_service/issue_service.py), which look a key up in DynamoDB,    *)
(*    fall back to PostgreSQL, issue one if there is none, and fill the    *)
(*    DynamoDB item;                                                       *)
(*  - administrative calls (api/admin_virtual_keys.py, api/internal_ops.py,*)
(*    api/admin_users.py), which end keys, delete the DynamoDB item and    *)
(*    enable or block users;                                               *)
(*  - time, which expires DynamoDB items.                                  *)
(*                                                                         *)
(* Every database or cache round trip is a step of its own, so that the    *)
(* steps of concurrent invocations interleave as they do in the code: no   *)
(* lock, transaction or conditional write orders them.                     *)
(***************************************************************************)
EXTENDS Integers

CONSTANTS
  Users,          \* stable user ids, one username mapped to each
  Keys,           \* virtual key ids; generators never repeat one
  Invocations,    \* concurrent executions of the Token Service Lambda
  Operators,      \* concurrent administrative calls on a key
  NoUser, NoKey,
  ConfiguredTtl,  \* cache_ttl handed to TokenIssueService, in clock units
  DefaultTtl,     \* DEFAULT_CACHE_TTL
  MaxTtl,         \* MAX_CACHE_TTL
  MaxTime         \* bound on the clock

ASSUME TtlAssumption ==
  /\ ConfiguredTtl \in Int
  /\ DefaultTtl \in Nat \ {0}
  /\ MaxTtl \in Nat \ {0}
  /\ DefaultTtl <= MaxTtl

ASSUME BoundAssumption == MaxTime \in Nat

ASSUME NullAssumption == NoKey \notin Keys /\ NoUser \notin Users

VARIABLES
  now,         \* the wall clock every process reads, in whole seconds
  access,      \* users: is there a row, and does it let the user in
  status,      \* virtual_keys.status, "unissued" before the INSERT
  owner,       \* virtual_keys.user_id
  createdAt,   \* virtual_keys.created_at
  item,        \* the DynamoDB item of each user: key and ttl
  pc,          \* where each Lambda invocation is
  caller,      \* the user it runs for
  issueNow,    \* its local `now`, read once when get_or_create_key starts
  held,        \* the key it has read, issued or is returning
  opc,         \* where each administrative call is
  op,          \* revoke, disable or rotate
  target,      \* the key it was called with
  endedAt,     \* history: when a key stopped being ACTIVE
  blockedAt    \* history: since when a user is blocked, 0 when not

ledgerVars  == <<status, owner, createdAt, endedAt>>
userVars    == <<access, blockedAt>>
lambdaVars  == <<pc, caller, issueNow, held>>
operatorVars == <<opc, op, target>>
vars == <<now, userVars, ledgerVars, item, lambdaVars, operatorVars>>

-----------------------------------------------------------------------------

KeyStatus  == {"unissued", "ACTIVE", "DISABLED", "REVOKED"}
Access     == {"unregistered", "blocked", "allowed"}
LambdaPc   == {"idle", "lookup", "gate", "ledger", "issue", "fill",
               "granted"}
OperatorPc == {"idle", "save", "invalidate", "replace"}
KeyOp      == {"revoke", "disable", "rotate"}

\* A missing item; its ttl is in the past for every reader.
NoItem == [key |-> NoKey, ttl |-> 0]
Items  == [key : Keys \cup {NoKey}, ttl : Nat]

\* _normalize_cache_ttl
CacheTtl == IF ConfiguredTtl <= 0 THEN DefaultTtl
            ELSE IF ConfiguredTtl <= MaxTtl THEN ConfiguredTtl ELSE MaxTtl

\* The statuses an administrative call writes.
EndStatus(o) == IF o = "revoke" THEN "REVOKED" ELSE "DISABLED"

Ended(k) == status[k] \in {"DISABLED", "REVOKED"}

\* Mutant: list_virtual_keys_for_user without the status filter.
KeysOfAnyStatus(u) == {k \in Keys : status[k] # "unissued" /\ owner[k] = u}

ActiveKeys(u) == {k \in Keys : status[k] = "ACTIVE" /\ owner[k] = u}

\* get_active_key_for_user keeps a record with the greatest created_at;
\* which one, when several share it, is the order the rows came in.
NewestActive(u) ==
  {k \in ActiveKeys(u) : \A j \in ActiveKeys(u) : createdAt[j] <= createdAt[k]}

\* Mutant: an item still answers in the second its ttl names.
FreshAtTtl(u, t) == item[u].key # NoKey /\ item[u].ttl >= t

\* A stored item answers a reader whose clock showed t.
Fresh(u, t) == item[u].key # NoKey /\ item[u].ttl > t

Init ==
  /\ now = 0
  /\ access \in [Users -> Access]
  /\ blockedAt = [u \in Users |-> 0]
  /\ status = [k \in Keys |-> "unissued"]
  /\ owner = [k \in Keys |-> NoUser]
  /\ createdAt = [k \in Keys |-> 0]
  /\ endedAt = [k \in Keys |-> 0]
  /\ item = [u \in Users |-> NoItem]
  /\ pc = [i \in Invocations |-> "idle"]
  /\ caller = [i \in Invocations |-> NoUser]
  /\ issueNow = [i \in Invocations |-> 0]
  /\ held = [i \in Invocations |-> NoKey]
  /\ opc = [a \in Operators |-> "idle"]
  /\ op = [a \in Operators |-> "none"]
  /\ target = [a \in Operators |-> NoKey]

-----------------------------------------------------------------------------
(* The Token Service Lambda.                                               *)

\* The invocation ends and its locals with it.
Answer(i) ==
  /\ pc' = [pc EXCEPT ![i] = "idle"]
  /\ caller' = [caller EXCEPT ![i] = NoUser]
  /\ issueNow' = [issueNow EXCEPT ![i] = 0]
  /\ held' = [held EXCEPT ![i] = NoKey]

\* The handler maps the username to a user id (403, and nothing else, when
\* there is none); the issue service then reads its clock before all else.
Invoke(i, u) ==
  /\ pc[i] = "idle"
  /\ access[u] # "unregistered"
  /\ pc' = [pc EXCEPT ![i] = "lookup"]
  /\ caller' = [caller EXCEPT ![i] = u]
  /\ issueNow' = [issueNow EXCEPT ![i] = now]
  /\ UNCHANGED <<now, userVars, ledgerVars, item, held, operatorVars>>

\* A cached key is returned at once: neither the user nor the ledger is read.
CacheHit(i) ==
  /\ pc[i] = "lookup"
  /\ Fresh(caller[i], issueNow[i])
  /\ pc' = [pc EXCEPT ![i] = "granted"]
  /\ held' = [held EXCEPT ![i] = item[caller[i]].key]
  /\ UNCHANGED <<now, userVars, ledgerVars, item, caller, issueNow, operatorVars>>

CacheMiss(i) ==
  /\ pc[i] = "lookup"
  /\ ~Fresh(caller[i], issueNow[i])
  /\ pc' = [pc EXCEPT ![i] = "gate"]
  /\ UNCHANGED <<now, userVars, ledgerVars, item, caller, issueNow, held, operatorVars>>

\* Mutant: the user row is read but its flags are not.
GateAdmitsAnyone(i) ==
  /\ pc[i] = "gate"
  /\ pc' = [pc EXCEPT ![i] = "ledger"]
  /\ UNCHANGED <<now, userVars, ledgerVars, item, caller, issueNow, held, operatorVars>>

\* _require_allowed_user, and its two 403 answers.
GateAdmits(i) ==
  /\ pc[i] = "gate"
  /\ access[caller[i]] = "allowed"
  /\ pc' = [pc EXCEPT ![i] = "ledger"]
  /\ UNCHANGED <<now, userVars, ledgerVars, item, caller, issueNow, held, operatorVars>>

GateRefuses(i) ==
  /\ pc[i] = "gate"
  /\ access[caller[i]] # "allowed"
  /\ Answer(i)
  /\ UNCHANGED <<now, userVars, ledgerVars, item, operatorVars>>

ReadExistingKey(i) ==
  /\ pc[i] = "ledger"
  /\ \E k \in NewestActive(caller[i]) : held' = [held EXCEPT ![i] = k]
  /\ pc' = [pc EXCEPT ![i] = "fill"]
  /\ UNCHANGED <<now, userVars, ledgerVars, item, caller, issueNow, operatorVars>>

ReadNoKey(i) ==
  /\ pc[i] = "ledger"
  /\ ActiveKeys(caller[i]) = {}
  /\ pc' = [pc EXCEPT ![i] = "issue"]
  /\ UNCHANGED <<now, userVars, ledgerVars, item, caller, issueNow, held, operatorVars>>

\* Mutant: an upsert that may land on a row that exists.
UpsertKey(k, u, t) ==
  /\ status' = [status EXCEPT ![k] = "ACTIVE"]
  /\ owner' = [owner EXCEPT ![k] = u]
  /\ createdAt' = [createdAt EXCEPT ![k] = t]
  /\ UNCHANGED endedAt

\* INSERT of a new ACTIVE record stamped with the invocation's own now.
InsertKey(k, u, t) ==
  /\ status[k] = "unissued"
  /\ status' = [status EXCEPT ![k] = "ACTIVE"]
  /\ owner' = [owner EXCEPT ![k] = u]
  /\ createdAt' = [createdAt EXCEPT ![k] = t]
  /\ UNCHANGED endedAt

IssueKey(i, k) ==
  /\ pc[i] = "issue"
  /\ InsertKey(k, caller[i], issueNow[i])
  /\ pc' = [pc EXCEPT ![i] = "fill"]
  /\ held' = [held EXCEPT ![i] = k]
  /\ UNCHANGED <<now, userVars, item, caller, issueNow, operatorVars>>

\* Mutant: the ttl counts from the clock at the put.
FillItemLate(i) ==
  /\ pc[i] = "fill"
  /\ item' = [item EXCEPT ![caller[i]] = [key |-> held[i], ttl |-> now + CacheTtl]]
  /\ pc' = [pc EXCEPT ![i] = "granted"]
  /\ UNCHANGED <<now, userVars, ledgerVars, caller, issueNow, held, operatorVars>>

\* _cache_key_record: an unconditional put whose ttl counts from the clock
\* read when the invocation started.
FillItem(i) ==
  /\ pc[i] = "fill"
  /\ item' = [item EXCEPT ![caller[i]] = [key |-> held[i], ttl |-> issueNow[i] + CacheTtl]]
  /\ pc' = [pc EXCEPT ![i] = "granted"]
  /\ UNCHANGED <<now, userVars, ledgerVars, caller, issueNow, held, operatorVars>>

\* The key leaves in a 200 response.
Respond(i) ==
  /\ pc[i] = "granted"
  /\ Answer(i)
  /\ UNCHANGED <<now, userVars, ledgerVars, item, operatorVars>>

\* A call to DynamoDB, PostgreSQL or KMS raises, or the Lambda is killed: the
\* handler answers 500 (or nothing) and what was already written stays.
\* Decryption follows the cache write, so it can still fail when granted.
InvocationFails(i) ==
  /\ pc[i] # "idle"
  /\ Answer(i)
  /\ UNCHANGED <<now, userVars, ledgerVars, item, operatorVars>>

LambdaStep(i) ==
  \/ CacheHit(i) \/ CacheMiss(i) \/ GateAdmits(i) \/ GateRefuses(i)
  \/ ReadExistingKey(i) \/ ReadNoKey(i)
  \/ \E k \in Keys : IssueKey(i, k)
  \/ FillItem(i) \/ Respond(i) \/ InvocationFails(i)

-----------------------------------------------------------------------------
(* The administrative calls.                                               *)

\* The call returns or raises: its locals are gone.
Return(a) ==
  /\ opc' = [opc EXCEPT ![a] = "idle"]
  /\ op' = [op EXCEPT ![a] = "none"]
  /\ target' = [target EXCEPT ![a] = NoKey]

\* _require_key: 404 leaves everything as it is, any existing key is accepted
\* whatever its status.
BeginKeyOp(a, o, k) ==
  /\ opc[a] = "idle"
  /\ status[k] # "unissued"
  /\ opc' = [opc EXCEPT ![a] = "save"]
  /\ op' = [op EXCEPT ![a] = o]
  /\ target' = [target EXCEPT ![a] = k]
  /\ UNCHANGED <<now, userVars, ledgerVars, item, lambdaVars>>

\* save_key of the record read above with its new status: a blind overwrite.
SaveEnded(a) ==
  /\ opc[a] = "save"
  /\ status' = [status EXCEPT ![target[a]] = EndStatus(op[a])]
  /\ endedAt' = [endedAt EXCEPT ![target[a]] = IF Ended(target[a]) THEN @ ELSE now]
  /\ opc' = [opc EXCEPT ![a] = "invalidate"]
  /\ UNCHANGED <<now, userVars, owner, createdAt, item, lambdaVars, op, target>>

\* _invalidate: the dispatcher deletes the user's DynamoDB item. The proxy
\* auth cache it also names has no state in this repository.
Invalidate(a) ==
  /\ opc[a] = "invalidate"
  /\ item' = [item EXCEPT ![owner[target[a]]] = NoItem]
  /\ IF op[a] = "rotate"
     THEN opc' = [opc EXCEPT ![a] = "replace"] /\ UNCHANGED <<op, target>>
     ELSE Return(a)
  /\ UNCHANGED <<now, userVars, ledgerVars, lambdaVars>>

\* rotate stores the replacement, and leaves the cache alone.
SaveReplacement(a, k) ==
  /\ opc[a] = "replace"
  /\ InsertKey(k, owner[target[a]], now)
  /\ Return(a)
  /\ UNCHANGED <<now, userVars, item, lambdaVars>>

\* A call inside the handler raises, or its process dies: nothing is undone.
OperatorFails(a) ==
  /\ opc[a] # "idle"
  /\ Return(a)
  /\ UNCHANGED <<now, userVars, ledgerVars, item, lambdaVars>>

OperatorStep(a) ==
  \/ SaveEnded(a) \/ Invalidate(a)
  \/ \E k \in Keys : SaveReplacement(a, k)
  \/ OperatorFails(a)

\* POST /internal/cache/invalidate
InvalidateUserCache(u) ==
  /\ item' = [item EXCEPT ![u] = NoItem]
  /\ UNCHANGED <<now, userVars, ledgerVars, lambdaVars, operatorVars>>

\* POST /admin/users upserts the user row: is_active and proxy_access_enabled
\* both true, or not.
ProvisionUser(u, allow) ==
  /\ access' = [access EXCEPT ![u] = IF allow THEN "allowed" ELSE "blocked"]
  /\ blockedAt' = [blockedAt EXCEPT ![u] = IF allow THEN 0 ELSE IF access[u] = "blocked" THEN @ ELSE now]
  /\ UNCHANGED <<now, ledgerVars, item, lambdaVars, operatorVars>>

-----------------------------------------------------------------------------
(* The environment.                                                        *)

\* DynamoDB deletes an item some time after its ttl has passed.
ExpireItem(u) ==
  /\ item[u].key # NoKey
  /\ item[u].ttl <= now
  /\ item' = [item EXCEPT ![u] = NoItem]
  /\ UNCHANGED <<now, userVars, ledgerVars, lambdaVars, operatorVars>>

Tick ==
  /\ now < MaxTime
  /\ now' = now + 1
  /\ UNCHANGED <<userVars, ledgerVars, item, lambdaVars, operatorVars>>

Next ==
  \/ \E i \in Invocations : LambdaStep(i) \/ \E u \in Users : Invoke(i, u)
  \/ \E a \in Operators :
       OperatorStep(a) \/ \E o \in KeyOp, k \in Keys : BeginKeyOp(a, o, k)
  \/ \E u \in Users :
       \/ InvalidateUserCache(u)
       \/ ExpireItem(u)
       \/ \E allow \in BOOLEAN : ProvisionUser(u, allow)
  \/ Tick

Spec == Init /\ [][Next]_vars

-----------------------------------------------------------------------------
(* Properties.                                                             *)

\* Every variable keeps its type.
TypeOK ==
  /\ now \in Nat
  /\ access \in [Users -> Access]
  /\ blockedAt \in [Users -> Nat]
  /\ status \in [Keys -> KeyStatus]
  /\ owner \in [Keys -> Users \cup {NoUser}]
  /\ createdAt \in [Keys -> Nat]
  /\ endedAt \in [Keys -> Nat]
  /\ item \in [Users -> Items]
  /\ pc \in [Invocations -> LambdaPc]
  /\ caller \in [Invocations -> Users \cup {NoUser}]
  /\ issueNow \in [Invocations -> Nat]
  /\ held \in [Invocations -> Keys \cup {NoKey}]
  /\ opc \in [Operators -> OperatorPc]
  /\ op \in [Operators -> KeyOp \cup {"none"}]
  /\ target \in [Operators -> Keys \cup {NoKey}]

\* A key that was revoked, disabled or rotated away leaves DynamoDB within
\* CacheTtl of its end, even when an invocation that read it before the end
\* puts it back after the invalidation (issue_service.py:64 against
\* admin_virtual_keys.py:59).
EndedItemBounded ==
  \A u \in Users :
    item[u].key # NoKey /\ Ended(item[u].key)
      => item[u].ttl <= endedAt[item[u].key] + CacheTtl

\* The same for a user whose access was taken away: provisioning does not
\* touch the cache (admin_users.py:49), so only the ttl ends what is cached.
BlockedItemBounded ==
  \A u \in Users :
    item[u].key # NoKey /\ access[u] = "blocked"
      => item[u].ttl <= blockedAt[u] + CacheTtl

\* What an invocation hands out was still usable, or had ceased to be less
\* than CacheTtl before the invocation started, whichever of the three paths
\* (cache, reuse, issue) it took.
GrantRecent ==
  \A i \in Invocations : pc[i] = "granted" =>
    /\ Ended(held[i]) => issueNow[i] < endedAt[held[i]] + CacheTtl
    /\ access[caller[i]] = "blocked" => issueNow[i] < blockedAt[caller[i]] + CacheTtl

\* A key reaches, through the ledger, the cache and the response, only the
\* user it belongs to.
Attribution ==
  /\ \A u \in Users : item[u].key # NoKey => owner[item[u].key] = u
  /\ \A i \in Invocations :
       pc[i] \in {"fill", "granted"} => held[i] \in Keys /\ owner[held[i]] = caller[i]

\* k stays ended once it has ended, and keeps its owner and birth date.
KeepsKey(k) ==
  /\ Ended(k) => Ended(k)' /\ endedAt'[k] = endedAt[k]
  /\ status[k] # "unissued" =>
       status'[k] # "unissued" /\ owner'[k] = owner[k] /\ createdAt'[k] = createdAt[k]

\* A revoked, disabled or rotated key never works again, whatever the order in
\* which the blind overwrites of save_key land (admin_virtual_keys.py:58, 65,
\* 72, 86 and issue_service.py:102).
NoResurrection == [][\A k \in Keys : KeepsKey(k)]_vars

-----------------------------------------------------------------------------
(* Why the bounds hold: the invariant that is inductive.                   *)

\* Whoever is in the middle of something refers to rows that exist.
References ==
  /\ \A k \in Keys : status[k] # "unissued" => owner[k] \in Users
  /\ \A u \in Users : item[u].key # NoKey =>
       status[item[u].key] # "unissued" /\ owner[item[u].key] = u
  /\ \A i \in Invocations :
       /\ pc[i] # "idle" => caller[i] \in Users
       /\ pc[i] \in {"fill", "granted"} =>
            held[i] \in Keys /\ status[held[i]] # "unissued" /\ owner[held[i]] = caller[i]
  /\ \A a \in Operators : opc[a] # "idle" =>
       target[a] \in Keys /\ status[target[a]] # "unissued" /\ op[a] \in KeyOp

\* An invocation's clock reading is older than every fact it has since read:
\* the user it admitted, the key it found ACTIVE.
ClockReadFirst ==
  \A i \in Invocations :
    /\ pc[i] # "idle" => issueNow[i] <= now
    /\ pc[i] = "fill" /\ Ended(held[i]) => issueNow[i] <= endedAt[held[i]]
    /\ pc[i] \in {"ledger", "issue", "fill"} /\ access[caller[i]] = "blocked"
         => issueNow[i] <= blockedAt[caller[i]]

\* No item outlives the present by more than the ttl of a new one.
ItemBounded == \A u \in Users : item[u].key # NoKey => item[u].ttl <= now + CacheTtl

IInv ==
  /\ TypeOK
  /\ References
  /\ ClockReadFirst
  /\ ItemBounded
  /\ EndedItemBounded
  /\ BlockedItemBounded
  /\ GrantRecent

-----------------------------------------------------------------------------
(* The promise this keeps: module KeyLeases, the DynamoDB items being the  *)
(* leases and the key statuses the lives.                                  *)

Life == [k \in Keys |-> IF status[k] = "unissued" THEN "unborn"
                        ELSE IF status[k] = "ACTIVE" THEN "alive" ELSE "ended"]

Leases == INSTANCE KeyLeases WITH Term <- CacheTtl, life <- Life, lease <- item

\* Every behaviour of the three processes is one of the abstract lease table.
ImplementsLeases == Leases!Spec

-----------------------------------------------------------------------------
(* What the design documents say and these processes do not do.            *)

\* requirements.md:71: a new key is issued and saved when the user has no
\* ACTIVE key.  Two invocations may both have seen none.
IssueOnlyWithoutActive ==
  [][\A i \in Invocations, k \in Keys : IssueKey(i, k) => ActiveKeys(caller[i]) = {}]_vars
=============================================================================
