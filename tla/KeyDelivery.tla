---------------------------- MODULE KeyDelivery ----------------------------
(***************************************************************************)
(* The apiKeyHelper script (scripts/api_key_helper.sh) in front of the     *)
(* Token Service: VirtualKeys with a helper process in some invocation     *)
(* slots and one local cache file per user.  A helper reads the clock      *)
(* once, answers from the file when it can, and otherwise calls the Token  *)
(* Service, whose Lambda runs on when the helper gives up waiting.         *)
(***************************************************************************)
EXTENDS VirtualKeys

CONSTANTS
  HelperSlots,         \* the slots whose helper and file are followed
  ConfiguredLocalTtl,  \* CLAUDE_CODE_PROXY_CACHE_TTL_SECONDS, 0 when not a number
  MinLocalTtl,         \* MIN_CACHE_TTL_SECONDS
  MaxLocalTtl          \* MAX_CACHE_TTL_SECONDS

ASSUME HelperAssumption == HelperSlots \subseteq Invocations

ASSUME LocalTtlAssumption ==
  /\ ConfiguredLocalTtl \in Int
  /\ MinLocalTtl \in Nat
  /\ MaxLocalTtl \in Nat
  /\ MinLocalTtl <= MaxLocalTtl

VARIABLES
  file,       \* the cache.json of each user: key and expires_at_epoch
  hpc,        \* where each helper process is
  huser,      \* whose helper it is
  helperNow   \* its NOW_EPOCH

helperVars == <<file, hpc, huser, helperNow>>
deliveryVars == <<vars, helperVars>>

\* normalize_cache_ttl: a value that is not a number, or too small, is raised.
LocalTtl == IF ConfiguredLocalTtl < MinLocalTtl THEN MinLocalTtl
            ELSE IF ConfiguredLocalTtl > MaxLocalTtl THEN MaxLocalTtl
            ELSE ConfiguredLocalTtl

NoFile == [key |-> NoKey, expires |-> 0]
Files  == [key : Keys \cup {NoKey}, expires : Nat]

\* load_cached_key
FileFresh(u, t) == file[u].key # NoKey /\ file[u].expires > t

DeliveryInit ==
  /\ Init
  /\ file = [u \in Users |-> NoFile]
  /\ hpc = [i \in Invocations |-> "idle"]
  /\ huser = [i \in Invocations |-> NoUser]
  /\ helperNow = [i \in Invocations |-> 0]

-----------------------------------------------------------------------------

\* The script exits, by whichever of its exits.
Exit(i) ==
  /\ hpc' = [hpc EXCEPT ![i] = "idle"]
  /\ huser' = [huser EXCEPT ![i] = NoUser]
  /\ helperNow' = [helperNow EXCEPT ![i] = 0]

\* The script starts and misses its file.  (A hit prints the key and exits:
\* it changes nothing.)
HelperMisses(i, u) ==
  /\ hpc[i] = "idle"
  /\ pc[i] = "idle"
  /\ ~FileFresh(u, now)
  /\ hpc' = [hpc EXCEPT ![i] = "credentials"]
  /\ huser' = [huser EXCEPT ![i] = u]
  /\ helperNow' = [helperNow EXCEPT ![i] = now]
  /\ UNCHANGED <<vars, file>>

\* With AWS credentials exported, curl posts to the Token Service.
HelperCalls(i) ==
  /\ hpc[i] = "credentials"
  /\ Invoke(i, huser[i])
  /\ hpc' = [hpc EXCEPT ![i] = "waiting"]
  /\ UNCHANGED <<file, huser, helperNow>>

\* A machine of the user's whose file is not followed calls the Token Service.
OtherMachineCalls(i, u) == i \notin HelperSlots /\ Invoke(i, u)

\* Mutant: expires_at_epoch counts from the arrival of the response.
HelperStoresLate(i) ==
  /\ hpc[i] = "waiting"
  /\ Respond(i)
  /\ file' = [file EXCEPT ![huser[i]] = [key |-> held[i], expires |-> now + LocalTtl]]
  /\ Exit(i)

\* A 200 response: store_cached_key renames a complete file into place, and
\* the key is printed.  expires_at_epoch counts from the script's start.
HelperStores(i) ==
  /\ hpc[i] = "waiting"
  /\ Respond(i)
  /\ file' = [file EXCEPT ![huser[i]] = [key |-> held[i], expires |-> helperNow[i] + LocalTtl]]
  /\ Exit(i)

\* No credentials, curl past --max-time, an error response, no usable token,
\* or the user interrupts: exit 1.  An invocation under way is not cancelled.
HelperGivesUp(i) ==
  /\ hpc[i] # "idle"
  /\ Exit(i)
  /\ UNCHANGED <<vars, file>>

\* The file is removed or damaged: load_cached_key treats both as a miss.
FileLost(u) ==
  /\ file' = [file EXCEPT ![u] = NoFile]
  /\ UNCHANGED <<vars, hpc, huser, helperNow>>

\* What the Lambdas, the operators and the clock do on their own; a response
\* nobody waits for any more is lost.
ServerStep ==
  /\ \/ \E i \in Invocations : LambdaStep(i) \/ \E u \in Users : OtherMachineCalls(i, u)
     \/ \E a \in Operators :
          OperatorStep(a) \/ \E o \in KeyOp, k \in Keys : BeginKeyOp(a, o, k)
     \/ \E u \in Users :
          \/ InvalidateUserCache(u)
          \/ ExpireItem(u)
          \/ \E allow \in BOOLEAN : ProvisionUser(u, allow)
     \/ Tick
  /\ UNCHANGED helperVars

HelperStep(i) ==
  \/ i \in HelperSlots /\ \E u \in Users : HelperMisses(i, u)
  \/ HelperCalls(i) \/ HelperStores(i) \/ HelperGivesUp(i)

DeliveryNext ==
  \/ ServerStep
  \/ \E i \in Invocations : HelperStep(i)
  \/ \E u \in Users : FileLost(u)

DeliverySpec == DeliveryInit /\ [][DeliveryNext]_deliveryVars

-----------------------------------------------------------------------------
(* Properties.                                                             *)

\* Every helper variable keeps its type.
DeliveryTypeOK ==
  /\ file \in [Users -> Files]
  /\ hpc \in [Invocations -> {"idle", "credentials", "waiting"}]
  /\ huser \in [Invocations -> Users \cup {NoUser}]
  /\ helperNow \in [Invocations -> Nat]

\* The two caches and every delay between them included, a client is left with
\* a key that was revoked, disabled or rotated away for less than the sum of
\* the two ttls; after that the helper asks again.  (The proxy refuses the key
\* all that time, auth.py:40, and the helper is not told: the bound is on how
\* long a user can be locked out.)
LockoutBounded ==
  \A u \in Users :
    file[u].key # NoKey /\ Ended(file[u].key)
      => file[u].expires < endedAt[file[u].key] + CacheTtl + LocalTtl

\* A user who was blocked keeps a printed key no longer than that either.
BlockedFileBounded ==
  \A u \in Users :
    file[u].key # NoKey /\ access[u] = "blocked"
      => file[u].expires < blockedAt[u] + CacheTtl + LocalTtl

\* The file of a user never holds somebody else's key, although responses and
\* timeouts of successive calls share an invocation slot.
FileAttribution ==
  \A u \in Users : file[u].key # NoKey =>
    status[file[u].key] # "unissued" /\ owner[file[u].key] = u

\* The helper side of the inductive invariant: a waiting helper read its clock
\* before the invocation that serves it did, and for the same user.
WaitingMatches ==
  \A i \in Invocations :
    /\ hpc[i] # "idle" => i \in HelperSlots
    /\ hpc[i] # "idle" => huser[i] \in Users /\ helperNow[i] <= now
    /\ hpc[i] = "credentials" => pc[i] = "idle"
    /\ hpc[i] = "waiting" /\ pc[i] # "idle" =>
         caller[i] = huser[i] /\ helperNow[i] <= issueNow[i]

FileBounded == \A u \in Users : file[u].key # NoKey => file[u].expires <= now + LocalTtl

\* What the helper side keeps, beside IInv, in every reachable state.
DeliveryInv ==
  /\ DeliveryTypeOK
  /\ WaitingMatches
  /\ FileBounded
  /\ FileAttribution
  /\ LockoutBounded
  /\ BlockedFileBounded

=============================================================================
