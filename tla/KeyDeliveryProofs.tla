------------------------- MODULE KeyDeliveryProofs -------------------------
(***************************************************************************)
(* Proofs about KeyDelivery: it runs the processes of VirtualKeys, so all  *)
(* that was proved of those holds behind the helper, and the helper's file *)
(* adds its own ttl to their bounds and nothing more.                      *)
(***************************************************************************)
EXTENDS KeyDelivery, VirtualKeysProofs

\* Seen from the servers, a helper's step is an invocation, a response or
\* nothing.
LEMMA DeliveryStepIsKeyStep == WaitingMatches /\ [DeliveryNext]_deliveryVars => [Next]_vars
<1> SUFFICES ASSUME WaitingMatches, [DeliveryNext]_deliveryVars
             PROVE  [Next]_vars
  OBVIOUS
<1>1. CASE UNCHANGED deliveryVars
  BY <1>1 DEF deliveryVars
<1>2. CASE ServerStep
  BY <1>2 DEF ServerStep, OtherMachineCalls, Next
<1>3. ASSUME NEW i \in Invocations, HelperStep(i)
      PROVE  [Next]_vars
  <2>1. CASE HelperCalls(i)
    <3>1. huser[i] \in Users
      BY <2>1 DEF HelperCalls, WaitingMatches
    <3> QED
      BY <2>1, <3>1 DEF HelperCalls, Next
  <2>2. CASE HelperStores(i)
    BY <2>2 DEF HelperStores, LambdaStep, Next
  <2>3. CASE HelperGivesUp(i) \/ \E u \in Users : HelperMisses(i, u)
    BY <2>3 DEF HelperGivesUp, HelperMisses
  <2> QED
    BY <1>3, <2>1, <2>2, <2>3 DEF HelperStep
<1>4. ASSUME NEW u \in Users, FileLost(u)
      PROVE  [Next]_vars
  BY <1>4 DEF FileLost
<1> QED
  BY <1>1, <1>2, <1>3, <1>4 DEF DeliveryNext

\* What a step of the servers may do to the facts a helper relies on: time and
\* lives go forward, an end or a block carries the present date, and an
\* invocation under way keeps its user and its clock reading.
ServerKeeps ==
  /\ now <= now'
  /\ \A k \in Keys :
       /\ status[k] # "unissued" => status'[k] # "unissued" /\ owner'[k] = owner[k]
       /\ Ended(k)' => (Ended(k) /\ endedAt'[k] = endedAt[k]) \/ endedAt'[k] >= now
  /\ \A u \in Users : access'[u] = "blocked" =>
       (access[u] = "blocked" /\ blockedAt'[u] = blockedAt[u]) \/ blockedAt'[u] >= now

\* Every step of VirtualKeys does.
LEMMA KeyStepKeeps == IInv /\ [Next]_vars => ServerKeeps
<1> SUFFICES ASSUME IInv, [Next]_vars
             PROVE  ServerKeeps
  OBVIOUS
<1> USE NullAssumption DEF IInv, TypeOK, KeyStatus, Access, Ended, ServerKeeps
<1>1. CASE UNCHANGED vars
  BY <1>1 DEF vars, userVars, ledgerVars, lambdaVars, operatorVars
<1>2. ASSUME NEW i \in Invocations, LambdaStep(i)
      PROVE  ServerKeeps
  <2>1. CASE CacheHit(i)
    BY <2>1 DEF CacheHit, Fresh, ledgerVars, userVars, operatorVars
  <2>2. CASE CacheMiss(i)
    BY <2>2 DEF CacheMiss, ledgerVars, userVars, operatorVars
  <2>3. CASE GateAdmits(i)
    BY <2>3 DEF GateAdmits, ledgerVars, userVars, operatorVars
  <2>4. CASE GateRefuses(i)
    BY <2>4 DEF GateRefuses, Answer, ledgerVars, userVars, operatorVars
  <2>5. CASE ReadExistingKey(i)
    BY <2>5 DEF ReadExistingKey, NewestActive, ActiveKeys, ledgerVars, userVars, operatorVars
  <2>6. CASE ReadNoKey(i)
    BY <2>6 DEF ReadNoKey, ledgerVars, userVars, operatorVars
  <2>7. ASSUME NEW k \in Keys, IssueKey(i, k)
        PROVE  ServerKeeps
    BY <2>7 DEF IssueKey, InsertKey, userVars, operatorVars
  <2>8. CASE FillItem(i)
    BY <2>8 DEF FillItem, ledgerVars, userVars, operatorVars
  <2>9. CASE Respond(i)
    BY <2>9 DEF Respond, Answer, ledgerVars, userVars, operatorVars
  <2>10. CASE InvocationFails(i)
    BY <2>10 DEF InvocationFails, Answer, ledgerVars, userVars, operatorVars
  <2> QED
    BY <1>2, <2>1, <2>2, <2>3, <2>4, <2>5, <2>6, <2>7, <2>8, <2>9, <2>10 DEF LambdaStep
<1>3. ASSUME NEW i \in Invocations, NEW u \in Users, Invoke(i, u)
      PROVE  ServerKeeps
  BY <1>3 DEF Invoke, userVars, ledgerVars, operatorVars
<1>4. ASSUME NEW a \in Operators, OperatorStep(a)
      PROVE  ServerKeeps
  <2> SUFFICES ASSUME opc[a] # "idle", target[a] \in Keys, owner[target[a]] \in Users,
                       status[target[a]] # "unissued", op[a] \in KeyOp
               PROVE  ServerKeeps
    BY <1>4 DEF OperatorStep, SaveEnded, Invalidate, SaveReplacement, OperatorFails, References
  <2>1. CASE SaveEnded(a)
    BY <2>1 DEF SaveEnded, EndStatus, userVars, lambdaVars
  <2>2. CASE Invalidate(a)
    BY <2>2 DEF Invalidate, Return, userVars, ledgerVars, lambdaVars
  <2>3. ASSUME NEW k \in Keys, SaveReplacement(a, k)
        PROVE  ServerKeeps
    BY <2>3 DEF SaveReplacement, InsertKey, Return, userVars, lambdaVars
  <2>4. CASE OperatorFails(a)
    BY <2>4 DEF OperatorFails, Return, userVars, ledgerVars, lambdaVars
  <2> QED
    BY <1>4, <2>1, <2>2, <2>3, <2>4 DEF OperatorStep
<1>5. ASSUME NEW a \in Operators, NEW o \in KeyOp, NEW k \in Keys, BeginKeyOp(a, o, k)
      PROVE  ServerKeeps
  BY <1>5 DEF BeginKeyOp, userVars, ledgerVars, lambdaVars
<1>6. ASSUME NEW u \in Users, InvalidateUserCache(u)
      PROVE  ServerKeeps
  BY <1>6 DEF InvalidateUserCache, userVars, ledgerVars, lambdaVars, operatorVars
<1>7. ASSUME NEW u \in Users, ExpireItem(u)
      PROVE  ServerKeeps
  BY <1>7 DEF ExpireItem, userVars, ledgerVars, lambdaVars, operatorVars
<1>8. ASSUME NEW u \in Users, NEW allow \in BOOLEAN, ProvisionUser(u, allow)
      PROVE  ServerKeeps
  BY <1>8 DEF ProvisionUser, ledgerVars, lambdaVars, operatorVars
<1>9. CASE Tick
  BY <1>9 DEF Tick, userVars, ledgerVars, lambdaVars, operatorVars
<1> QED
  BY <1>1, <1>2, <1>3, <1>4, <1>5, <1>6, <1>7, <1>8, <1>9 DEF Next

\* No server step starts an invocation in a helper's slot: it ends one, or lets
\* it run for the same user with the same clock reading.
LEMMA ServerStepRuns ==
  ASSUME IInv, ServerStep
  PROVE  \A j \in HelperSlots :
           \/ pc'[j] = "idle"
           \/ pc[j] # "idle" /\ caller'[j] = caller[j] /\ issueNow'[j] = issueNow[j]
<1> USE DEF IInv, TypeOK, userVars, ledgerVars, operatorVars, lambdaVars
<1>1. ASSUME NEW i \in Invocations, LambdaStep(i)
      PROVE  \A j \in HelperSlots :
               \/ pc'[j] = "idle"
               \/ pc[j] # "idle" /\ caller'[j] = caller[j] /\ issueNow'[j] = issueNow[j]
  BY <1>1, HelperAssumption DEF LambdaStep, CacheHit, CacheMiss, GateAdmits, GateRefuses, ReadExistingKey,
              ReadNoKey, IssueKey, FillItem, Respond, InvocationFails, Answer
<1>2. ASSUME NEW i \in Invocations, NEW u \in Users, OtherMachineCalls(i, u)
      PROVE  \A j \in HelperSlots :
               \/ pc'[j] = "idle"
               \/ pc[j] # "idle" /\ caller'[j] = caller[j] /\ issueNow'[j] = issueNow[j]
  BY <1>2, HelperAssumption DEF OtherMachineCalls, Invoke
<1>3. CASE UNCHANGED lambdaVars
  BY <1>3, HelperAssumption
<1> QED
  BY <1>1, <1>2, <1>3 DEF ServerStep, OperatorStep, SaveEnded, Invalidate, SaveReplacement,
     OperatorFails, BeginKeyOp, InvalidateUserCache, ExpireItem, ProvisionUser, Tick

\* The local ttl is a number of seconds.
LEMMA LocalTtlNat == LocalTtl \in Nat
  BY LocalTtlAssumption DEF LocalTtl

\* A file without a key is a file.
LEMMA NoFileIsFile == NoFile \in Files /\ NoFile.key = NoKey
  BY DEF NoFile, Files

\* Bounds of the files hold over any step that leaves the files alone and lets
\* the facts about keys and users go forward only.
LEMMA FilesKept ==
  ASSUME IInv, IInv', DeliveryInv, ServerKeeps, UNCHANGED file
  PROVE  FileBounded' /\ FileAttribution' /\ LockoutBounded' /\ BlockedFileBounded'
<1> USE CacheTtlPositive, LocalTtlNat, NullAssumption
    DEF IInv, TypeOK, DeliveryInv, DeliveryTypeOK, Files, ServerKeeps
<1>1. FileBounded'
  BY DEF FileBounded
<1>2. FileAttribution'
  BY DEF FileAttribution
<1>3. LockoutBounded'
  BY DEF LockoutBounded, FileBounded
<1>4. BlockedFileBounded'
  BY DEF BlockedFileBounded, FileBounded
<1> QED
  BY <1>1, <1>2, <1>3, <1>4

\* Every step of the composition preserves the helper side of the invariant.
LEMMA DeliveryInvStep ==
  ASSUME IInv, IInv', DeliveryInv, [DeliveryNext]_deliveryVars
  PROVE  DeliveryInv'
<1>k. ServerKeeps
  BY DeliveryStepIsKeyStep, KeyStepKeeps DEF DeliveryInv
<1> USE CacheTtlPositive, LocalTtlNat, NoFileIsFile, NullAssumption DEF IInv, TypeOK
<1>1. CASE UNCHANGED deliveryVars
  <2>1. DeliveryTypeOK' /\ WaitingMatches'
    BY <1>1 DEF deliveryVars, vars, lambdaVars, helperVars, DeliveryInv, DeliveryTypeOK,
                WaitingMatches
  <2> QED
    BY <1>1, <1>k, <2>1, FilesKept DEF deliveryVars, helperVars, DeliveryInv
<1>2. CASE ServerStep
  <2>1. DeliveryTypeOK'
    BY <1>2 DEF ServerStep, helperVars, DeliveryInv, DeliveryTypeOK
  <2>2. WaitingMatches'
    BY <1>2, <1>k, ServerStepRuns
       DEF ServerStep, helperVars, DeliveryInv, DeliveryTypeOK, WaitingMatches, ServerKeeps
  <2> QED
    BY <1>2, <1>k, <2>1, <2>2, FilesKept DEF ServerStep, helperVars, DeliveryInv
<1>3. ASSUME NEW i \in Invocations, i \in HelperSlots, NEW u \in Users, HelperMisses(i, u)
      PROVE  DeliveryInv'
  <2>1. DeliveryTypeOK' /\ WaitingMatches'
    BY <1>3 DEF HelperMisses, vars, lambdaVars, DeliveryInv, DeliveryTypeOK, WaitingMatches
  <2> QED
    BY <1>3, <1>k, <2>1, FilesKept DEF HelperMisses, DeliveryInv
<1>4. ASSUME NEW i \in Invocations, HelperCalls(i)
      PROVE  DeliveryInv'
  <2>1. DeliveryTypeOK' /\ WaitingMatches'
    BY <1>4 DEF HelperCalls, Invoke, DeliveryInv, DeliveryTypeOK, WaitingMatches
  <2> QED
    BY <1>4, <1>k, <2>1, FilesKept DEF HelperCalls, DeliveryInv
<1>5. ASSUME NEW i \in Invocations, HelperStores(i)
      PROVE  DeliveryInv'
  <2> DEFINE u == huser[i]
             k == held[i]
             t == helperNow[i] + LocalTtl
  <2>1. u \in Users /\ k \in Keys /\ helperNow[i] \in Nat /\ helperNow[i] <= issueNow[i]
          /\ issueNow[i] <= now /\ caller[i] = u
    BY <1>5 DEF HelperStores, Respond, DeliveryInv, DeliveryTypeOK, WaitingMatches,
                References, ClockReadFirst
  <2>2. file' = [file EXCEPT ![u] = [key |-> k, expires |-> t]]
    BY <1>5 DEF HelperStores
  <2>3. UNCHANGED <<now, status, owner, endedAt, access, blockedAt>>
    BY <1>5 DEF HelperStores, Respond, userVars, ledgerVars
  <2>4. [key |-> k, expires |-> t] \in Files
    BY <2>1 DEF Files
  <2>5. DeliveryTypeOK'
    BY <1>5, <2>2, <2>4, <2>1 DEF HelperStores, Exit, DeliveryInv, DeliveryTypeOK
  <2>6. WaitingMatches'
    BY <1>5, <2>3 DEF HelperStores, Exit, Respond, Answer, DeliveryInv, DeliveryTypeOK,
                      WaitingMatches
  <2>7. FileBounded'
    BY <2>1, <2>2, <2>3 DEF FileBounded, DeliveryInv, DeliveryTypeOK
  <2>8. FileAttribution'
    <3>1. status[k] # "unissued" /\ owner[k] = u
      BY <1>5, <2>1 DEF HelperStores, Respond, References
    <3> QED
      BY <2>1, <2>2, <2>3, <3>1 DEF FileAttribution, DeliveryInv, DeliveryTypeOK
  <2>9. LockoutBounded'
    <3>1. Ended(k) => t < endedAt[k] + CacheTtl + LocalTtl
      BY <1>5, <2>1 DEF HelperStores, Respond, GrantRecent
    <3> QED
      BY <2>1, <2>2, <2>3, <3>1 DEF LockoutBounded, DeliveryInv, DeliveryTypeOK, Ended
  <2>10. BlockedFileBounded'
    <3>1. access[u] = "blocked" => t < blockedAt[u] + CacheTtl + LocalTtl
      BY <1>5, <2>1 DEF HelperStores, Respond, GrantRecent
    <3> QED
      BY <2>1, <2>2, <2>3, <3>1 DEF BlockedFileBounded, DeliveryInv, DeliveryTypeOK
  <2> QED
    BY <2>5, <2>6, <2>7, <2>8, <2>9, <2>10 DEF DeliveryInv
<1>6. ASSUME NEW i \in Invocations, HelperGivesUp(i)
      PROVE  DeliveryInv'
  <2>1. DeliveryTypeOK' /\ WaitingMatches'
    BY <1>6 DEF HelperGivesUp, Exit, vars, lambdaVars, DeliveryInv, DeliveryTypeOK, WaitingMatches
  <2> QED
    BY <1>6, <1>k, <2>1, FilesKept DEF HelperGivesUp, DeliveryInv
<1>7. ASSUME NEW u \in Users, FileLost(u)
      PROVE  DeliveryInv'
  <2>1. UNCHANGED <<now, status, owner, endedAt, access, blockedAt, pc, caller, issueNow>>
    BY <1>7 DEF FileLost, vars, userVars, ledgerVars, lambdaVars
  <2>2. DeliveryTypeOK' /\ WaitingMatches'
    BY <1>7, <2>1 DEF FileLost, DeliveryInv, DeliveryTypeOK, WaitingMatches
  <2>3. FileBounded' /\ FileAttribution' /\ LockoutBounded' /\ BlockedFileBounded'
    BY <1>7, <2>1 DEF FileLost, DeliveryInv, DeliveryTypeOK, FileBounded, FileAttribution,
                      LockoutBounded, BlockedFileBounded, Ended
  <2> QED
    BY <2>2, <2>3 DEF DeliveryInv
<1> QED
  BY <1>1, <1>2, <1>3, <1>4, <1>5, <1>6, <1>7 DEF DeliveryNext, HelperStep

\* The composition of servers and helpers keeps both halves of the invariant.
THEOREM DeliveryInvariant == DeliverySpec => [](IInv /\ DeliveryInv)
<1>1. DeliveryInit => IInv /\ DeliveryInv
  <2> SUFFICES ASSUME DeliveryInit
               PROVE  IInv /\ DeliveryInv
    OBVIOUS
  <2>1. IInv
    BY InitInv DEF DeliveryInit
  <2>2. DeliveryInv
    BY NoFileIsFile DEF DeliveryInit, DeliveryInv, DeliveryTypeOK, WaitingMatches,
       FileBounded, FileAttribution, LockoutBounded, BlockedFileBounded
  <2> QED
    BY <2>1, <2>2
<1>2. IInv /\ DeliveryInv /\ [DeliveryNext]_deliveryVars => (IInv /\ DeliveryInv)'
  <2> SUFFICES ASSUME IInv, DeliveryInv, [DeliveryNext]_deliveryVars
               PROVE  IInv' /\ DeliveryInv'
    OBVIOUS
  <2>1. IInv'
    BY DeliveryStepIsKeyStep, InvStep DEF DeliveryInv
  <2> QED
    BY <2>1, DeliveryInvStep
<1> QED
  BY <1>1, <1>2, PTL DEF DeliverySpec

\* The composition is a behaviour of VirtualKeys, so its theorems hold in it.
THEOREM DeliveryImplementsKeys == DeliverySpec => Spec
<1>1. DeliveryInit => Init
  BY DEF DeliveryInit
<1>2. DeliveryInv /\ [DeliveryNext]_deliveryVars => [Next]_vars
  BY DeliveryStepIsKeyStep DEF DeliveryInv
<1> QED
  BY <1>1, <1>2, DeliveryInvariant, PTL DEF DeliverySpec, Spec

\* A client holds a key that has ended for less than the two ttls together.
THEOREM LockoutsBounded == DeliverySpec => []LockoutBounded
<1>1. DeliveryInv => LockoutBounded
  BY DEF DeliveryInv
<1> QED
  BY <1>1, DeliveryInvariant, PTL

\* A blocked user's file is void less than the two ttls after the block.
THEOREM BlockedFilesBounded == DeliverySpec => []BlockedFileBounded
<1>1. DeliveryInv => BlockedFileBounded
  BY DEF DeliveryInv
<1> QED
  BY <1>1, DeliveryInvariant, PTL

\* The file of a user never holds another user's key.
THEOREM FilesAttributed == DeliverySpec => []FileAttribution
<1>1. DeliveryInv => FileAttribution
  BY DEF DeliveryInv
<1> QED
  BY <1>1, DeliveryInvariant, PTL
=============================================================================
