------------------------- MODULE VirtualKeysProofs -------------------------
(***************************************************************************)
(* Proofs about VirtualKeys, for every set of users, keys, invocations and *)
(* operators, every ttl and every bound on the clock.  The last two        *)
(* sections, the second about KeyInvalidation, find the interleavings      *)
(* without which two statements of the requirements would hold.            *)
(***************************************************************************)
EXTENDS KeyInvalidation, TLAPS

\* The normalised cache ttl is a positive number of seconds.
LEMMA CacheTtlPositive == CacheTtl \in Nat /\ CacheTtl > 0
  BY TtlAssumption DEF CacheTtl

\* NoItem is an item without a key.
LEMMA NoItemIsItem == NoItem \in Items /\ NoItem.key = NoKey
  BY DEF NoItem, Items

\* Every step leaves every variable in its type.
LEMMA TypeStep == TypeOK /\ References /\ [Next]_vars => TypeOK'
<1> SUFFICES ASSUME TypeOK, References, [Next]_vars
             PROVE  TypeOK'
  OBVIOUS
<1> USE CacheTtlPositive, NoItemIsItem, NullAssumption
    DEF TypeOK, LambdaPc, OperatorPc, KeyStatus, Access, KeyOp
<1>1. CASE UNCHANGED vars
  BY <1>1 DEF vars, userVars, ledgerVars, lambdaVars, operatorVars
<1>2. ASSUME NEW i \in Invocations, LambdaStep(i)
      PROVE  TypeOK'
  <2>1. CASE CacheHit(i)
    BY <2>1 DEF CacheHit, Fresh, Items, References, userVars, ledgerVars, operatorVars
  <2>2. CASE CacheMiss(i)
    BY <2>2 DEF CacheMiss, userVars, ledgerVars, operatorVars
  <2>3. CASE GateAdmits(i)
    BY <2>3 DEF GateAdmits, userVars, ledgerVars, operatorVars
  <2>4. CASE GateRefuses(i)
    BY <2>4 DEF GateRefuses, Answer, userVars, ledgerVars, operatorVars
  <2>5. CASE ReadExistingKey(i)
    BY <2>5 DEF ReadExistingKey, NewestActive, ActiveKeys, userVars, ledgerVars, operatorVars
  <2>6. CASE ReadNoKey(i)
    BY <2>6 DEF ReadNoKey, userVars, ledgerVars, operatorVars
  <2>7. ASSUME NEW k \in Keys, IssueKey(i, k)
        PROVE  TypeOK'
    BY <2>7 DEF IssueKey, InsertKey, userVars, operatorVars, References
  <2>8. CASE FillItem(i)
    <3>1. caller[i] \in Users /\ held[i] \in Keys
      BY <2>8 DEF FillItem, References
    <3>2. [key |-> held[i], ttl |-> issueNow[i] + CacheTtl] \in Items
      BY <3>1 DEF Items
    <3> QED
      BY <2>8, <3>1, <3>2 DEF FillItem, userVars, ledgerVars, operatorVars
  <2>9. CASE Respond(i)
    BY <2>9 DEF Respond, Answer, userVars, ledgerVars, operatorVars
  <2>10. CASE InvocationFails(i)
    BY <2>10 DEF InvocationFails, Answer, userVars, ledgerVars, operatorVars
  <2> QED
    BY <1>2, <2>1, <2>2, <2>3, <2>4, <2>5, <2>6, <2>7, <2>8, <2>9, <2>10 DEF LambdaStep
<1>3. ASSUME NEW i \in Invocations, NEW u \in Users, Invoke(i, u)
      PROVE  TypeOK'
  BY <1>3 DEF Invoke, userVars, ledgerVars, operatorVars
<1>4. ASSUME NEW a \in Operators, OperatorStep(a)
      PROVE  TypeOK'
  <2>1. CASE SaveEnded(a)
    <3>1. target[a] \in Keys
      BY <2>1 DEF SaveEnded, References
    <3> QED
      BY <2>1, <3>1 DEF SaveEnded, EndStatus, userVars, lambdaVars
  <2>2. CASE Invalidate(a)
    <3>1. target[a] \in Keys /\ owner[target[a]] \in Users
      BY <2>2 DEF Invalidate, References
    <3>2. opc' \in [Operators -> OperatorPc] /\ op' \in [Operators -> KeyOp \cup {"none"}]
            /\ target' \in [Operators -> Keys \cup {NoKey}]
      BY <2>2 DEF Invalidate, Return
    <3>3. item' \in [Users -> Items]
      BY <2>2, <3>1 DEF Invalidate
    <3> QED
      BY <2>2, <3>2, <3>3 DEF Invalidate, userVars, ledgerVars, lambdaVars
  <2>3. ASSUME NEW k \in Keys, SaveReplacement(a, k)
        PROVE  TypeOK'
    <3>1. target[a] \in Keys /\ owner[target[a]] \in Users
      BY <2>3 DEF SaveReplacement, References
    <3> QED
      BY <2>3, <3>1 DEF SaveReplacement, InsertKey, Return, userVars, lambdaVars
  <2>4. CASE OperatorFails(a)
    BY <2>4 DEF OperatorFails, Return, userVars, ledgerVars, lambdaVars
  <2> QED
    BY <1>4, <2>1, <2>2, <2>3, <2>4 DEF OperatorStep
<1>5. ASSUME NEW a \in Operators, NEW o \in KeyOp, NEW k \in Keys, BeginKeyOp(a, o, k)
      PROVE  TypeOK'
  BY <1>5 DEF BeginKeyOp, userVars, ledgerVars, lambdaVars
<1>6. ASSUME NEW u \in Users, InvalidateUserCache(u)
      PROVE  TypeOK'
  BY <1>6 DEF InvalidateUserCache, userVars, ledgerVars, lambdaVars, operatorVars
<1>7. ASSUME NEW u \in Users, ExpireItem(u)
      PROVE  TypeOK'
  BY <1>7 DEF ExpireItem, userVars, ledgerVars, lambdaVars, operatorVars
<1>8. ASSUME NEW u \in Users, NEW allow \in BOOLEAN, ProvisionUser(u, allow)
      PROVE  TypeOK'
  BY <1>8 DEF ProvisionUser, ledgerVars, lambdaVars, operatorVars
<1>9. CASE Tick
  BY <1>9 DEF Tick, userVars, ledgerVars, lambdaVars, operatorVars
<1> QED
  BY <1>1, <1>2, <1>3, <1>4, <1>5, <1>6, <1>7, <1>8, <1>9 DEF Next

\* Rows are never deleted and keep their owner, so references stay good.
LEMMA ReferencesStep == TypeOK /\ References /\ [Next]_vars => References'
<1> SUFFICES ASSUME TypeOK, References, [Next]_vars
             PROVE  References'
  OBVIOUS
<1> USE NoItemIsItem, NullAssumption DEF TypeOK, LambdaPc, OperatorPc, KeyStatus, Access, KeyOp, Items, References
<1>1. CASE UNCHANGED vars
  BY <1>1 DEF vars, userVars, ledgerVars, lambdaVars, operatorVars
<1>2. ASSUME NEW i \in Invocations, LambdaStep(i)
      PROVE  References'
  <2>1. CASE CacheHit(i)
    BY <2>1 DEF CacheHit, Fresh, ledgerVars, userVars, operatorVars
  <2>2. CASE CacheMiss(i)
    BY <2>2 DEF CacheMiss, ledgerVars, userVars, operatorVars
  <2>3. CASE GateAdmits(i)
    BY <2>3 DEF GateAdmits, ledgerVars, userVars, operatorVars
  <2>4. CASE GateRefuses(i)
    BY <2>4 DEF GateRefuses, Answer, ledgerVars, userVars, operatorVars
  <2>5. CASE ReadExistingKey(i)
    BY <2>5 DEF ReadExistingKey, NewestActive, ActiveKeys, ledgerVars, userVars, operatorVars
  <2>6. CASE ReadNoKey(i)
    BY <2>6 DEF ReadNoKey, ledgerVars, userVars, operatorVars
  <2>7. ASSUME NEW k \in Keys, IssueKey(i, k)
        PROVE  References'
    BY <2>7 DEF IssueKey, InsertKey, userVars, operatorVars
  <2>8. CASE FillItem(i)
    BY <2>8 DEF FillItem, ledgerVars, userVars, operatorVars
  <2>9. CASE Respond(i)
    BY <2>9 DEF Respond, Answer, ledgerVars, userVars, operatorVars
  <2>10. CASE InvocationFails(i)
    BY <2>10 DEF InvocationFails, Answer, ledgerVars, userVars, operatorVars
  <2> QED
    BY <1>2, <2>1, <2>2, <2>3, <2>4, <2>5, <2>6, <2>7, <2>8, <2>9, <2>10 DEF LambdaStep
<1>3. ASSUME NEW i \in Invocations, NEW u \in Users, Invoke(i, u)
      PROVE  References'
  BY <1>3 DEF Invoke, userVars, ledgerVars, operatorVars
<1>4. ASSUME NEW a \in Operators, OperatorStep(a)
      PROVE  References'
  <2> SUFFICES ASSUME opc[a] # "idle", target[a] \in Keys, owner[target[a]] \in Users,
                       status[target[a]] # "unissued", op[a] \in KeyOp
               PROVE  References'
    BY <1>4 DEF OperatorStep, SaveEnded, Invalidate, SaveReplacement, OperatorFails, References
  <2>1. CASE SaveEnded(a)
    BY <2>1 DEF SaveEnded, EndStatus, userVars, lambdaVars
  <2>2. CASE Invalidate(a)
    BY <2>2 DEF Invalidate, Return, userVars, ledgerVars, lambdaVars
  <2>3. ASSUME NEW k \in Keys, SaveReplacement(a, k)
        PROVE  References'
    BY <2>3 DEF SaveReplacement, InsertKey, Return, userVars, lambdaVars
  <2>4. CASE OperatorFails(a)
    BY <2>4 DEF OperatorFails, Return, userVars, ledgerVars, lambdaVars
  <2> QED
    BY <1>4, <2>1, <2>2, <2>3, <2>4 DEF OperatorStep
<1>5. ASSUME NEW a \in Operators, NEW o \in KeyOp, NEW k \in Keys, BeginKeyOp(a, o, k)
      PROVE  References'
  BY <1>5 DEF BeginKeyOp, userVars, ledgerVars, lambdaVars
<1>6. ASSUME NEW u \in Users, InvalidateUserCache(u)
      PROVE  References'
  BY <1>6 DEF InvalidateUserCache, userVars, ledgerVars, lambdaVars, operatorVars
<1>7. ASSUME NEW u \in Users, ExpireItem(u)
      PROVE  References'
  BY <1>7 DEF ExpireItem, userVars, ledgerVars, lambdaVars, operatorVars
<1>8. ASSUME NEW u \in Users, NEW allow \in BOOLEAN, ProvisionUser(u, allow)
      PROVE  References'
  BY <1>8 DEF ProvisionUser, ledgerVars, lambdaVars, operatorVars
<1>9. CASE Tick
  BY <1>9 DEF Tick, userVars, ledgerVars, lambdaVars, operatorVars
<1> QED
  BY <1>1, <1>2, <1>3, <1>4, <1>5, <1>6, <1>7, <1>8, <1>9 DEF Next

\* What an invocation reads after its clock can only end later.
LEMMA ClockStep == TypeOK /\ References /\ ClockReadFirst /\ [Next]_vars => ClockReadFirst'
<1> SUFFICES ASSUME TypeOK, References, ClockReadFirst, [Next]_vars
             PROVE  ClockReadFirst'
  OBVIOUS
<1> USE NoItemIsItem, NullAssumption DEF TypeOK, LambdaPc, OperatorPc, KeyStatus, Access, KeyOp, Items, ClockReadFirst, Ended
<1>1. CASE UNCHANGED vars
  BY <1>1 DEF vars, userVars, ledgerVars, lambdaVars, operatorVars
<1>2. ASSUME NEW i \in Invocations, LambdaStep(i)
      PROVE  ClockReadFirst'
  <2>1. CASE CacheHit(i)
    BY <2>1 DEF CacheHit, Fresh, ledgerVars, userVars, operatorVars
  <2>2. CASE CacheMiss(i)
    BY <2>2 DEF CacheMiss, ledgerVars, userVars, operatorVars
  <2>3. CASE GateAdmits(i)
    BY <2>3 DEF GateAdmits, ledgerVars, userVars, operatorVars
  <2>4. CASE GateRefuses(i)
    BY <2>4 DEF GateRefuses, Answer, ledgerVars, userVars, operatorVars
  <2>5. CASE ReadExistingKey(i)
    BY <2>5 DEF ReadExistingKey, NewestActive, ActiveKeys, ledgerVars, userVars, operatorVars
  <2>6. CASE ReadNoKey(i)
    BY <2>6 DEF ReadNoKey, ledgerVars, userVars, operatorVars
  <2>7. ASSUME NEW k \in Keys, IssueKey(i, k)
        PROVE  ClockReadFirst'
    BY <2>7 DEF IssueKey, InsertKey, userVars, operatorVars
  <2>8. CASE FillItem(i)
    BY <2>8 DEF FillItem, ledgerVars, userVars, operatorVars
  <2>9. CASE Respond(i)
    BY <2>9 DEF Respond, Answer, ledgerVars, userVars, operatorVars
  <2>10. CASE InvocationFails(i)
    BY <2>10 DEF InvocationFails, Answer, ledgerVars, userVars, operatorVars
  <2> QED
    BY <1>2, <2>1, <2>2, <2>3, <2>4, <2>5, <2>6, <2>7, <2>8, <2>9, <2>10 DEF LambdaStep
<1>3. ASSUME NEW i \in Invocations, NEW u \in Users, Invoke(i, u)
      PROVE  ClockReadFirst'
  BY <1>3 DEF Invoke, userVars, ledgerVars, operatorVars
<1>4. ASSUME NEW a \in Operators, OperatorStep(a)
      PROVE  ClockReadFirst'
  <2> SUFFICES ASSUME opc[a] # "idle", target[a] \in Keys, owner[target[a]] \in Users,
                       status[target[a]] # "unissued", op[a] \in KeyOp
               PROVE  ClockReadFirst'
    BY <1>4 DEF OperatorStep, SaveEnded, Invalidate, SaveReplacement, OperatorFails, References
  <2>1. CASE SaveEnded(a)
    BY <2>1 DEF SaveEnded, EndStatus, userVars, lambdaVars
  <2>2. CASE Invalidate(a)
    BY <2>2 DEF Invalidate, Return, userVars, ledgerVars, lambdaVars
  <2>3. ASSUME NEW k \in Keys, SaveReplacement(a, k)
        PROVE  ClockReadFirst'
    BY <2>3 DEF SaveReplacement, InsertKey, Return, userVars, lambdaVars
  <2>4. CASE OperatorFails(a)
    BY <2>4 DEF OperatorFails, Return, userVars, ledgerVars, lambdaVars
  <2> QED
    BY <1>4, <2>1, <2>2, <2>3, <2>4 DEF OperatorStep
<1>5. ASSUME NEW a \in Operators, NEW o \in KeyOp, NEW k \in Keys, BeginKeyOp(a, o, k)
      PROVE  ClockReadFirst'
  BY <1>5 DEF BeginKeyOp, userVars, ledgerVars, lambdaVars
<1>6. ASSUME NEW u \in Users, InvalidateUserCache(u)
      PROVE  ClockReadFirst'
  BY <1>6 DEF InvalidateUserCache, userVars, ledgerVars, lambdaVars, operatorVars
<1>7. ASSUME NEW u \in Users, ExpireItem(u)
      PROVE  ClockReadFirst'
  BY <1>7 DEF ExpireItem, userVars, ledgerVars, lambdaVars, operatorVars
<1>8. ASSUME NEW u \in Users, NEW allow \in BOOLEAN, ProvisionUser(u, allow)
      PROVE  ClockReadFirst'
  BY <1>8 DEF ProvisionUser, ledgerVars, lambdaVars, operatorVars
<1>9. CASE Tick
  BY <1>9 DEF Tick, userVars, ledgerVars, lambdaVars, operatorVars
<1> QED
  BY <1>1, <1>2, <1>3, <1>4, <1>5, <1>6, <1>7, <1>8, <1>9 DEF Next

\* A put is bounded by the present because its clock reading is in the past.
LEMMA ItemBoundedStep == TypeOK /\ References /\ ClockReadFirst /\ ItemBounded /\ [Next]_vars => ItemBounded'
<1> SUFFICES ASSUME TypeOK, References, ClockReadFirst, ItemBounded, [Next]_vars
             PROVE  ItemBounded'
  OBVIOUS
<1> USE CacheTtlPositive, NoItemIsItem, NullAssumption DEF TypeOK, LambdaPc, OperatorPc, KeyStatus, Access, KeyOp, Items, ClockReadFirst, References, ItemBounded
<1>1. CASE UNCHANGED vars
  BY <1>1 DEF vars, userVars, ledgerVars, lambdaVars, operatorVars
<1>2. ASSUME NEW i \in Invocations, LambdaStep(i)
      PROVE  ItemBounded'
  <2>1. CASE CacheHit(i)
    BY <2>1 DEF CacheHit, Fresh, ledgerVars, userVars, operatorVars
  <2>2. CASE CacheMiss(i)
    BY <2>2 DEF CacheMiss, ledgerVars, userVars, operatorVars
  <2>3. CASE GateAdmits(i)
    BY <2>3 DEF GateAdmits, ledgerVars, userVars, operatorVars
  <2>4. CASE GateRefuses(i)
    BY <2>4 DEF GateRefuses, Answer, ledgerVars, userVars, operatorVars
  <2>5. CASE ReadExistingKey(i)
    BY <2>5 DEF ReadExistingKey, NewestActive, ActiveKeys, ledgerVars, userVars, operatorVars
  <2>6. CASE ReadNoKey(i)
    BY <2>6 DEF ReadNoKey, ledgerVars, userVars, operatorVars
  <2>7. ASSUME NEW k \in Keys, IssueKey(i, k)
        PROVE  ItemBounded'
    BY <2>7 DEF IssueKey, InsertKey, userVars, operatorVars
  <2>8. CASE FillItem(i)
    BY <2>8 DEF FillItem, ledgerVars, userVars, operatorVars
  <2>9. CASE Respond(i)
    BY <2>9 DEF Respond, Answer, ledgerVars, userVars, operatorVars
  <2>10. CASE InvocationFails(i)
    BY <2>10 DEF InvocationFails, Answer, ledgerVars, userVars, operatorVars
  <2> QED
    BY <1>2, <2>1, <2>2, <2>3, <2>4, <2>5, <2>6, <2>7, <2>8, <2>9, <2>10 DEF LambdaStep
<1>3. ASSUME NEW i \in Invocations, NEW u \in Users, Invoke(i, u)
      PROVE  ItemBounded'
  BY <1>3 DEF Invoke, userVars, ledgerVars, operatorVars
<1>4. ASSUME NEW a \in Operators, OperatorStep(a)
      PROVE  ItemBounded'
  <2> SUFFICES ASSUME opc[a] # "idle", target[a] \in Keys, owner[target[a]] \in Users,
                       status[target[a]] # "unissued", op[a] \in KeyOp
               PROVE  ItemBounded'
    BY <1>4 DEF OperatorStep, SaveEnded, Invalidate, SaveReplacement, OperatorFails, References
  <2>1. CASE SaveEnded(a)
    BY <2>1 DEF SaveEnded, EndStatus, userVars, lambdaVars
  <2>2. CASE Invalidate(a)
    BY <2>2 DEF Invalidate, Return, userVars, ledgerVars, lambdaVars
  <2>3. ASSUME NEW k \in Keys, SaveReplacement(a, k)
        PROVE  ItemBounded'
    BY <2>3 DEF SaveReplacement, InsertKey, Return, userVars, lambdaVars
  <2>4. CASE OperatorFails(a)
    BY <2>4 DEF OperatorFails, Return, userVars, ledgerVars, lambdaVars
  <2> QED
    BY <1>4, <2>1, <2>2, <2>3, <2>4 DEF OperatorStep
<1>5. ASSUME NEW a \in Operators, NEW o \in KeyOp, NEW k \in Keys, BeginKeyOp(a, o, k)
      PROVE  ItemBounded'
  BY <1>5 DEF BeginKeyOp, userVars, ledgerVars, lambdaVars
<1>6. ASSUME NEW u \in Users, InvalidateUserCache(u)
      PROVE  ItemBounded'
  BY <1>6 DEF InvalidateUserCache, userVars, ledgerVars, lambdaVars, operatorVars
<1>7. ASSUME NEW u \in Users, ExpireItem(u)
      PROVE  ItemBounded'
  BY <1>7 DEF ExpireItem, userVars, ledgerVars, lambdaVars, operatorVars
<1>8. ASSUME NEW u \in Users, NEW allow \in BOOLEAN, ProvisionUser(u, allow)
      PROVE  ItemBounded'
  BY <1>8 DEF ProvisionUser, ledgerVars, lambdaVars, operatorVars
<1>9. CASE Tick
  BY <1>9 DEF Tick, userVars, ledgerVars, lambdaVars, operatorVars
<1> QED
  BY <1>1, <1>2, <1>3, <1>4, <1>5, <1>6, <1>7, <1>8, <1>9 DEF Next

\* A put of a key that has ended is bounded by its end, ClockReadFirst; an
\* item present when its key ends is bounded by that instant, ItemBounded.
LEMMA EndedItemStep == TypeOK /\ References /\ ClockReadFirst /\ ItemBounded /\ EndedItemBounded /\ [Next]_vars => EndedItemBounded'
<1> SUFFICES ASSUME TypeOK, References, ClockReadFirst, ItemBounded, EndedItemBounded, [Next]_vars
             PROVE  EndedItemBounded'
  OBVIOUS
<1> USE CacheTtlPositive, NoItemIsItem, NullAssumption DEF TypeOK, LambdaPc, OperatorPc, KeyStatus, Access, KeyOp, Items, ClockReadFirst, References, ItemBounded, EndedItemBounded, Ended
<1>1. CASE UNCHANGED vars
  BY <1>1 DEF vars, userVars, ledgerVars, lambdaVars, operatorVars
<1>2. ASSUME NEW i \in Invocations, LambdaStep(i)
      PROVE  EndedItemBounded'
  <2>1. CASE CacheHit(i)
    BY <2>1 DEF CacheHit, Fresh, ledgerVars, userVars, operatorVars
  <2>2. CASE CacheMiss(i)
    BY <2>2 DEF CacheMiss, ledgerVars, userVars, operatorVars
  <2>3. CASE GateAdmits(i)
    BY <2>3 DEF GateAdmits, ledgerVars, userVars, operatorVars
  <2>4. CASE GateRefuses(i)
    BY <2>4 DEF GateRefuses, Answer, ledgerVars, userVars, operatorVars
  <2>5. CASE ReadExistingKey(i)
    BY <2>5 DEF ReadExistingKey, NewestActive, ActiveKeys, ledgerVars, userVars, operatorVars
  <2>6. CASE ReadNoKey(i)
    BY <2>6 DEF ReadNoKey, ledgerVars, userVars, operatorVars
  <2>7. ASSUME NEW k \in Keys, IssueKey(i, k)
        PROVE  EndedItemBounded'
    BY <2>7 DEF IssueKey, InsertKey, userVars, operatorVars
  <2>8. CASE FillItem(i)
    BY <2>8 DEF FillItem, ledgerVars, userVars, operatorVars
  <2>9. CASE Respond(i)
    BY <2>9 DEF Respond, Answer, ledgerVars, userVars, operatorVars
  <2>10. CASE InvocationFails(i)
    BY <2>10 DEF InvocationFails, Answer, ledgerVars, userVars, operatorVars
  <2> QED
    BY <1>2, <2>1, <2>2, <2>3, <2>4, <2>5, <2>6, <2>7, <2>8, <2>9, <2>10 DEF LambdaStep
<1>3. ASSUME NEW i \in Invocations, NEW u \in Users, Invoke(i, u)
      PROVE  EndedItemBounded'
  BY <1>3 DEF Invoke, userVars, ledgerVars, operatorVars
<1>4. ASSUME NEW a \in Operators, OperatorStep(a)
      PROVE  EndedItemBounded'
  <2> SUFFICES ASSUME opc[a] # "idle", target[a] \in Keys, owner[target[a]] \in Users,
                       status[target[a]] # "unissued", op[a] \in KeyOp
               PROVE  EndedItemBounded'
    BY <1>4 DEF OperatorStep, SaveEnded, Invalidate, SaveReplacement, OperatorFails, References
  <2>1. CASE SaveEnded(a)
    BY <2>1 DEF SaveEnded, EndStatus, userVars, lambdaVars
  <2>2. CASE Invalidate(a)
    BY <2>2 DEF Invalidate, Return, userVars, ledgerVars, lambdaVars
  <2>3. ASSUME NEW k \in Keys, SaveReplacement(a, k)
        PROVE  EndedItemBounded'
    BY <2>3 DEF SaveReplacement, InsertKey, Return, userVars, lambdaVars
  <2>4. CASE OperatorFails(a)
    BY <2>4 DEF OperatorFails, Return, userVars, ledgerVars, lambdaVars
  <2> QED
    BY <1>4, <2>1, <2>2, <2>3, <2>4 DEF OperatorStep
<1>5. ASSUME NEW a \in Operators, NEW o \in KeyOp, NEW k \in Keys, BeginKeyOp(a, o, k)
      PROVE  EndedItemBounded'
  BY <1>5 DEF BeginKeyOp, userVars, ledgerVars, lambdaVars
<1>6. ASSUME NEW u \in Users, InvalidateUserCache(u)
      PROVE  EndedItemBounded'
  BY <1>6 DEF InvalidateUserCache, userVars, ledgerVars, lambdaVars, operatorVars
<1>7. ASSUME NEW u \in Users, ExpireItem(u)
      PROVE  EndedItemBounded'
  BY <1>7 DEF ExpireItem, userVars, ledgerVars, lambdaVars, operatorVars
<1>8. ASSUME NEW u \in Users, NEW allow \in BOOLEAN, ProvisionUser(u, allow)
      PROVE  EndedItemBounded'
  BY <1>8 DEF ProvisionUser, ledgerVars, lambdaVars, operatorVars
<1>9. CASE Tick
  BY <1>9 DEF Tick, userVars, ledgerVars, lambdaVars, operatorVars
<1> QED
  BY <1>1, <1>2, <1>3, <1>4, <1>5, <1>6, <1>7, <1>8, <1>9 DEF Next

\* The same argument for the instant a user was last blocked.
LEMMA BlockedItemStep == TypeOK /\ References /\ ClockReadFirst /\ ItemBounded /\ BlockedItemBounded /\ [Next]_vars => BlockedItemBounded'
<1> SUFFICES ASSUME TypeOK, References, ClockReadFirst, ItemBounded, BlockedItemBounded, [Next]_vars
             PROVE  BlockedItemBounded'
  OBVIOUS
<1> USE CacheTtlPositive, NoItemIsItem, NullAssumption DEF TypeOK, LambdaPc, OperatorPc, KeyStatus, Access, KeyOp, Items, ClockReadFirst, References, ItemBounded, BlockedItemBounded
<1>1. CASE UNCHANGED vars
  BY <1>1 DEF vars, userVars, ledgerVars, lambdaVars, operatorVars
<1>2. ASSUME NEW i \in Invocations, LambdaStep(i)
      PROVE  BlockedItemBounded'
  <2>1. CASE CacheHit(i)
    BY <2>1 DEF CacheHit, Fresh, ledgerVars, userVars, operatorVars
  <2>2. CASE CacheMiss(i)
    BY <2>2 DEF CacheMiss, ledgerVars, userVars, operatorVars
  <2>3. CASE GateAdmits(i)
    BY <2>3 DEF GateAdmits, ledgerVars, userVars, operatorVars
  <2>4. CASE GateRefuses(i)
    BY <2>4 DEF GateRefuses, Answer, ledgerVars, userVars, operatorVars
  <2>5. CASE ReadExistingKey(i)
    BY <2>5 DEF ReadExistingKey, NewestActive, ActiveKeys, ledgerVars, userVars, operatorVars
  <2>6. CASE ReadNoKey(i)
    BY <2>6 DEF ReadNoKey, ledgerVars, userVars, operatorVars
  <2>7. ASSUME NEW k \in Keys, IssueKey(i, k)
        PROVE  BlockedItemBounded'
    BY <2>7 DEF IssueKey, InsertKey, userVars, operatorVars
  <2>8. CASE FillItem(i)
    BY <2>8 DEF FillItem, ledgerVars, userVars, operatorVars
  <2>9. CASE Respond(i)
    BY <2>9 DEF Respond, Answer, ledgerVars, userVars, operatorVars
  <2>10. CASE InvocationFails(i)
    BY <2>10 DEF InvocationFails, Answer, ledgerVars, userVars, operatorVars
  <2> QED
    BY <1>2, <2>1, <2>2, <2>3, <2>4, <2>5, <2>6, <2>7, <2>8, <2>9, <2>10 DEF LambdaStep
<1>3. ASSUME NEW i \in Invocations, NEW u \in Users, Invoke(i, u)
      PROVE  BlockedItemBounded'
  BY <1>3 DEF Invoke, userVars, ledgerVars, operatorVars
<1>4. ASSUME NEW a \in Operators, OperatorStep(a)
      PROVE  BlockedItemBounded'
  <2> SUFFICES ASSUME opc[a] # "idle", target[a] \in Keys, owner[target[a]] \in Users,
                       status[target[a]] # "unissued", op[a] \in KeyOp
               PROVE  BlockedItemBounded'
    BY <1>4 DEF OperatorStep, SaveEnded, Invalidate, SaveReplacement, OperatorFails, References
  <2>1. CASE SaveEnded(a)
    BY <2>1 DEF SaveEnded, EndStatus, userVars, lambdaVars
  <2>2. CASE Invalidate(a)
    BY <2>2 DEF Invalidate, Return, userVars, ledgerVars, lambdaVars
  <2>3. ASSUME NEW k \in Keys, SaveReplacement(a, k)
        PROVE  BlockedItemBounded'
    BY <2>3 DEF SaveReplacement, InsertKey, Return, userVars, lambdaVars
  <2>4. CASE OperatorFails(a)
    BY <2>4 DEF OperatorFails, Return, userVars, ledgerVars, lambdaVars
  <2> QED
    BY <1>4, <2>1, <2>2, <2>3, <2>4 DEF OperatorStep
<1>5. ASSUME NEW a \in Operators, NEW o \in KeyOp, NEW k \in Keys, BeginKeyOp(a, o, k)
      PROVE  BlockedItemBounded'
  BY <1>5 DEF BeginKeyOp, userVars, ledgerVars, lambdaVars
<1>6. ASSUME NEW u \in Users, InvalidateUserCache(u)
      PROVE  BlockedItemBounded'
  BY <1>6 DEF InvalidateUserCache, userVars, ledgerVars, lambdaVars, operatorVars
<1>7. ASSUME NEW u \in Users, ExpireItem(u)
      PROVE  BlockedItemBounded'
  BY <1>7 DEF ExpireItem, userVars, ledgerVars, lambdaVars, operatorVars
<1>8. ASSUME NEW u \in Users, NEW allow \in BOOLEAN, ProvisionUser(u, allow)
      PROVE  BlockedItemBounded'
  BY <1>8 DEF ProvisionUser, ledgerVars, lambdaVars, operatorVars
<1>9. CASE Tick
  BY <1>9 DEF Tick, userVars, ledgerVars, lambdaVars, operatorVars
<1> QED
  BY <1>1, <1>2, <1>3, <1>4, <1>5, <1>6, <1>7, <1>8, <1>9 DEF Next

\* A response carries a key from a fresh item, bounded by the two lemmas
\* above, or from a read that came after the clock reading.
LEMMA GrantStep == TypeOK /\ References /\ ClockReadFirst /\ EndedItemBounded /\ BlockedItemBounded /\ GrantRecent /\ [Next]_vars => GrantRecent'
<1> SUFFICES ASSUME TypeOK, References, ClockReadFirst, EndedItemBounded, BlockedItemBounded, GrantRecent, [Next]_vars
             PROVE  GrantRecent'
  OBVIOUS
<1> USE CacheTtlPositive, NoItemIsItem, NullAssumption DEF TypeOK, LambdaPc, OperatorPc, KeyStatus, Access, KeyOp, Items, ClockReadFirst, References, EndedItemBounded, BlockedItemBounded, GrantRecent, Ended
<1>1. CASE UNCHANGED vars
  BY <1>1 DEF vars, userVars, ledgerVars, lambdaVars, operatorVars
<1>2. ASSUME NEW i \in Invocations, LambdaStep(i)
      PROVE  GrantRecent'
  <2>1. CASE CacheHit(i)
    BY <2>1 DEF CacheHit, Fresh, ledgerVars, userVars, operatorVars
  <2>2. CASE CacheMiss(i)
    BY <2>2 DEF CacheMiss, ledgerVars, userVars, operatorVars
  <2>3. CASE GateAdmits(i)
    BY <2>3 DEF GateAdmits, ledgerVars, userVars, operatorVars
  <2>4. CASE GateRefuses(i)
    BY <2>4 DEF GateRefuses, Answer, ledgerVars, userVars, operatorVars
  <2>5. CASE ReadExistingKey(i)
    BY <2>5 DEF ReadExistingKey, NewestActive, ActiveKeys, ledgerVars, userVars, operatorVars
  <2>6. CASE ReadNoKey(i)
    BY <2>6 DEF ReadNoKey, ledgerVars, userVars, operatorVars
  <2>7. ASSUME NEW k \in Keys, IssueKey(i, k)
        PROVE  GrantRecent'
    BY <2>7 DEF IssueKey, InsertKey, userVars, operatorVars
  <2>8. CASE FillItem(i)
    BY <2>8 DEF FillItem, ledgerVars, userVars, operatorVars
  <2>9. CASE Respond(i)
    BY <2>9 DEF Respond, Answer, ledgerVars, userVars, operatorVars
  <2>10. CASE InvocationFails(i)
    BY <2>10 DEF InvocationFails, Answer, ledgerVars, userVars, operatorVars
  <2> QED
    BY <1>2, <2>1, <2>2, <2>3, <2>4, <2>5, <2>6, <2>7, <2>8, <2>9, <2>10 DEF LambdaStep
<1>3. ASSUME NEW i \in Invocations, NEW u \in Users, Invoke(i, u)
      PROVE  GrantRecent'
  BY <1>3 DEF Invoke, userVars, ledgerVars, operatorVars
<1>4. ASSUME NEW a \in Operators, OperatorStep(a)
      PROVE  GrantRecent'
  <2> SUFFICES ASSUME opc[a] # "idle", target[a] \in Keys, owner[target[a]] \in Users,
                       status[target[a]] # "unissued", op[a] \in KeyOp
               PROVE  GrantRecent'
    BY <1>4 DEF OperatorStep, SaveEnded, Invalidate, SaveReplacement, OperatorFails, References
  <2>1. CASE SaveEnded(a)
    BY <2>1 DEF SaveEnded, EndStatus, userVars, lambdaVars
  <2>2. CASE Invalidate(a)
    BY <2>2 DEF Invalidate, Return, userVars, ledgerVars, lambdaVars
  <2>3. ASSUME NEW k \in Keys, SaveReplacement(a, k)
        PROVE  GrantRecent'
    BY <2>3 DEF SaveReplacement, InsertKey, Return, userVars, lambdaVars
  <2>4. CASE OperatorFails(a)
    BY <2>4 DEF OperatorFails, Return, userVars, ledgerVars, lambdaVars
  <2> QED
    BY <1>4, <2>1, <2>2, <2>3, <2>4 DEF OperatorStep
<1>5. ASSUME NEW a \in Operators, NEW o \in KeyOp, NEW k \in Keys, BeginKeyOp(a, o, k)
      PROVE  GrantRecent'
  BY <1>5 DEF BeginKeyOp, userVars, ledgerVars, lambdaVars
<1>6. ASSUME NEW u \in Users, InvalidateUserCache(u)
      PROVE  GrantRecent'
  BY <1>6 DEF InvalidateUserCache, userVars, ledgerVars, lambdaVars, operatorVars
<1>7. ASSUME NEW u \in Users, ExpireItem(u)
      PROVE  GrantRecent'
  BY <1>7 DEF ExpireItem, userVars, ledgerVars, lambdaVars, operatorVars
<1>8. ASSUME NEW u \in Users, NEW allow \in BOOLEAN, ProvisionUser(u, allow)
      PROVE  GrantRecent'
  BY <1>8 DEF ProvisionUser, ledgerVars, lambdaVars, operatorVars
<1>9. CASE Tick
  BY <1>9 DEF Tick, userVars, ledgerVars, lambdaVars, operatorVars
<1> QED
  BY <1>1, <1>2, <1>3, <1>4, <1>5, <1>6, <1>7, <1>8, <1>9 DEF Next

-----------------------------------------------------------------------------

\* The initial states satisfy the invariant.
LEMMA InitInv == Init => IInv
<1> SUFFICES ASSUME Init
             PROVE  IInv
  OBVIOUS
<1> USE CacheTtlPositive, NoItemIsItem, NullAssumption DEF Init
<1>1. TypeOK
  BY DEF TypeOK, Access, KeyStatus, LambdaPc, OperatorPc, KeyOp
<1>2. References /\ ClockReadFirst
  BY DEF References, ClockReadFirst
<1>3. ItemBounded /\ EndedItemBounded /\ BlockedItemBounded /\ GrantRecent
  BY DEF ItemBounded, EndedItemBounded, BlockedItemBounded, GrantRecent
<1> QED
  BY <1>1, <1>2, <1>3 DEF IInv

\* Every step preserves it.
LEMMA InvStep == IInv /\ [Next]_vars => IInv'
  BY TypeStep, ReferencesStep, ClockStep, ItemBoundedStep, EndedItemStep,
     BlockedItemStep, GrantStep DEF IInv

\* The strengthened invariant behind every bound on what the cache and the
\* responses of the Token Service can still carry.
THEOREM InvariantHolds == Spec => []IInv
<1>1. Init => IInv
  BY InitInv
<1>2. IInv /\ [Next]_vars => IInv'
  BY InvStep
<1> QED
  BY <1>1, <1>2, PTL DEF Spec

\* Every variable keeps its type, whatever the constants.
THEOREM TypeCorrect == Spec => []TypeOK
<1>1. IInv => TypeOK
  BY DEF IInv
<1> QED
  BY <1>1, InvariantHolds, PTL

\* An item for a key that was revoked, disabled or rotated away is gone at the
\* latest CacheTtl after the key's end (issue_service.py:113, the ttl counts
\* from the clock read before the ledger was).
THEOREM EndedItemsBounded == Spec => []EndedItemBounded
<1>1. IInv => EndedItemBounded
  BY DEF IInv
<1> QED
  BY <1>1, InvariantHolds, PTL

\* An item of a user who was blocked is gone at the latest CacheTtl later.
THEOREM BlockedItemsBounded == Spec => []BlockedItemBounded
<1>1. IInv => BlockedItemBounded
  BY DEF IInv
<1> QED
  BY <1>1, InvariantHolds, PTL

\* No invocation that starts CacheTtl or more after a key ended, or after its
\* user was blocked, answers with that key.
THEOREM GrantsRecent == Spec => []GrantRecent
<1>1. IInv => GrantRecent
  BY DEF IInv
<1> QED
  BY <1>1, InvariantHolds, PTL

\* The ledger, the cache and every response agree on whose key it is.
THEOREM AttributionHolds == Spec => []Attribution
<1>1. IInv => Attribution
  BY DEF IInv, References, Attribution
<1> QED
  BY <1>1, InvariantHolds, PTL


\* No step gives an ended key back or changes what a key is.
LEMMA KeepsKeyStep == TypeOK /\ References /\ [Next]_vars => \A j \in Keys : KeepsKey(j)
<1> SUFFICES ASSUME TypeOK, References, [Next]_vars
             PROVE  \A j \in Keys : KeepsKey(j)
  OBVIOUS
<1> USE NullAssumption DEF TypeOK, KeyStatus, KeepsKey, Ended
<1>1. CASE UNCHANGED vars
  BY <1>1 DEF vars, userVars, ledgerVars, lambdaVars, operatorVars
<1>2. ASSUME NEW i \in Invocations, LambdaStep(i)
      PROVE  \A j \in Keys : KeepsKey(j)
  <2>1. CASE CacheHit(i)
    BY <2>1 DEF CacheHit, Fresh, ledgerVars, userVars, operatorVars
  <2>2. CASE CacheMiss(i)
    BY <2>2 DEF CacheMiss, ledgerVars, userVars, operatorVars
  <2>3. CASE GateAdmits(i)
    BY <2>3 DEF GateAdmits, ledgerVars, userVars, operatorVars
  <2>4. CASE GateRefuses(i)
    BY <2>4 DEF GateRefuses, Answer, ledgerVars, userVars, operatorVars
  <2>5. CASE ReadExistingKey(i)
    BY <2>5 DEF ReadExistingKey, NewestActive, ActiveKeys, ledgerVars, userVars, operatorVars
  <2>6. CASE ReadNoKey(i)
    BY <2>6 DEF ReadNoKey, ledgerVars, userVars, operatorVars
  <2>7. ASSUME NEW k \in Keys, IssueKey(i, k)
        PROVE  \A j \in Keys : KeepsKey(j)
    BY <2>7 DEF IssueKey, InsertKey, userVars, operatorVars
  <2>8. CASE FillItem(i)
    BY <2>8 DEF FillItem, ledgerVars, userVars, operatorVars
  <2>9. CASE Respond(i)
    BY <2>9 DEF Respond, Answer, ledgerVars, userVars, operatorVars
  <2>10. CASE InvocationFails(i)
    BY <2>10 DEF InvocationFails, Answer, ledgerVars, userVars, operatorVars
  <2> QED
    BY <1>2, <2>1, <2>2, <2>3, <2>4, <2>5, <2>6, <2>7, <2>8, <2>9, <2>10 DEF LambdaStep
<1>3. ASSUME NEW i \in Invocations, NEW u \in Users, Invoke(i, u)
      PROVE  \A j \in Keys : KeepsKey(j)
  BY <1>3 DEF Invoke, userVars, ledgerVars, operatorVars
<1>4. ASSUME NEW a \in Operators, OperatorStep(a)
      PROVE  \A j \in Keys : KeepsKey(j)
  <2> SUFFICES ASSUME opc[a] # "idle", target[a] \in Keys, owner[target[a]] \in Users,
                       status[target[a]] # "unissued", op[a] \in KeyOp
               PROVE  \A j \in Keys : KeepsKey(j)
    BY <1>4 DEF OperatorStep, SaveEnded, Invalidate, SaveReplacement, OperatorFails, References
  <2>1. CASE SaveEnded(a)
    BY <2>1 DEF SaveEnded, EndStatus, userVars, lambdaVars
  <2>2. CASE Invalidate(a)
    BY <2>2 DEF Invalidate, Return, userVars, ledgerVars, lambdaVars
  <2>3. ASSUME NEW k \in Keys, SaveReplacement(a, k)
        PROVE  \A j \in Keys : KeepsKey(j)
    BY <2>3 DEF SaveReplacement, InsertKey, Return, userVars, lambdaVars
  <2>4. CASE OperatorFails(a)
    BY <2>4 DEF OperatorFails, Return, userVars, ledgerVars, lambdaVars
  <2> QED
    BY <1>4, <2>1, <2>2, <2>3, <2>4 DEF OperatorStep
<1>5. ASSUME NEW a \in Operators, NEW o \in KeyOp, NEW k \in Keys, BeginKeyOp(a, o, k)
      PROVE  \A j \in Keys : KeepsKey(j)
  BY <1>5 DEF BeginKeyOp, userVars, ledgerVars, lambdaVars
<1>6. ASSUME NEW u \in Users, InvalidateUserCache(u)
      PROVE  \A j \in Keys : KeepsKey(j)
  BY <1>6 DEF InvalidateUserCache, userVars, ledgerVars, lambdaVars, operatorVars
<1>7. ASSUME NEW u \in Users, ExpireItem(u)
      PROVE  \A j \in Keys : KeepsKey(j)
  BY <1>7 DEF ExpireItem, userVars, ledgerVars, lambdaVars, operatorVars
<1>8. ASSUME NEW u \in Users, NEW allow \in BOOLEAN, ProvisionUser(u, allow)
      PROVE  \A j \in Keys : KeepsKey(j)
  BY <1>8 DEF ProvisionUser, ledgerVars, lambdaVars, operatorVars
<1>9. CASE Tick
  BY <1>9 DEF Tick, userVars, ledgerVars, lambdaVars, operatorVars
<1> QED
  BY <1>1, <1>2, <1>3, <1>4, <1>5, <1>6, <1>7, <1>8, <1>9 DEF Next

\* A key that has ended never becomes ACTIVE again, and no key changes hands.
THEOREM KeysStayEnded == Spec => NoResurrection
<1>1. IInv /\ [Next]_vars => \A k \in Keys : KeepsKey(k)
  BY KeepsKeyStep DEF IInv
<1> QED
  BY <1>1, InvariantHolds, PTL DEF Spec, NoResurrection

-----------------------------------------------------------------------------
(* VirtualKeys implements KeyLeases.                                       *)

\* Birth of a key maps to Mint.
LEMMA InsertIsMint ==
  ASSUME NEW k \in Keys, NEW u \in Users, NEW t, TypeOK, InsertKey(k, u, t),
         UNCHANGED <<now, item>>
  PROVE  Leases!Mint(k, u)
<1> USE DEF InsertKey, TypeOK
<1>1. Life[k] = "unborn"
  BY DEF Life
<1>2. Life' = [Life EXCEPT ![k] = "alive"]
  BY DEF Life
<1> QED
  BY <1>1, <1>2 DEF Leases!Mint

\* The end of an ACTIVE key maps to End, the overwrite of an ended one to a
\* stutter: DISABLED over REVOKED changes no life.
LEMMA SaveIsEnd ==
  ASSUME NEW a \in Operators, TypeOK, References, SaveEnded(a)
  PROVE  [Leases!Next]_(Leases!vars)
<1> USE DEF TypeOK, SaveEnded, EndStatus, Ended, KeyStatus
<1> DEFINE k == target[a]
<1>1. k \in Keys /\ status[k] # "unissued"
  BY DEF References
<1>2. CASE status[k] = "ACTIVE"
  <2>1. Life[k] = "alive" /\ Life' = [Life EXCEPT ![k] = "ended"]
    BY <1>1, <1>2 DEF Life
  <2>2. endedAt' = [endedAt EXCEPT ![k] = now]
    BY <1>1, <1>2
  <2>3. Leases!End(k)
    BY <2>1, <2>2 DEF Leases!End
  <2> QED
    BY <1>1, <2>3 DEF Leases!Next
<1>3. CASE status[k] # "ACTIVE"
  <2>1. Ended(k)
    BY <1>1, <1>3
  <2>2. Life' = Life
    BY <1>1, <2>1 DEF Life
  <2>3. endedAt' = endedAt
    BY <1>1, <2>1
  <2> QED
    BY <2>2, <2>3 DEF Leases!vars, userVars, lambdaVars
<1> QED
  BY <1>2, <1>3

\* A put maps to Grant: ClockReadFirst bounds its ttl for an ended key, and
\* the present bounds it for a living one.
LEMMA FillIsGrant ==
  ASSUME NEW i \in Invocations, IInv, FillItem(i)
  PROVE  \E u \in Users, k \in Keys : Leases!Grant(u, k)
<1> USE CacheTtlPositive DEF IInv, TypeOK, FillItem
<1> DEFINE u == caller[i]
           k == held[i]
           ttl == issueNow[i] + CacheTtl
<1>1. u \in Users /\ k \in Keys /\ status[k] # "unissued" /\ owner[k] = u
  BY DEF References
<1>2. issueNow[i] <= now /\ (Ended(k) => issueNow[i] <= endedAt[k])
  BY DEF ClockReadFirst
<1>3. Life[k] # "unborn" /\ Life' = Life
  BY <1>1 DEF Life, ledgerVars
<1>4. Life[k] = "ended" => Ended(k)
  BY <1>1 DEF Life, Ended, KeyStatus
<1>5. Leases!LastAlive(k) \in Nat /\ ttl \in 0 .. Leases!LastAlive(k) + CacheTtl
  BY <1>1, <1>2, <1>4 DEF Leases!LastAlive
<1>6. Leases!Grant(u, k)
  BY <1>1, <1>3, <1>5 DEF Leases!Grant, ledgerVars
<1> QED
  BY <1>1, <1>6

\* Each step maps to a step of the lease table or leaves it alone.
LEMMA LeaseStep == IInv /\ [Next]_vars => [Leases!Next]_(Leases!vars)
<1> SUFFICES ASSUME IInv, [Next]_vars
             PROVE  [Leases!Next]_(Leases!vars)
  OBVIOUS
<1> USE DEF userVars, ledgerVars, operatorVars, lambdaVars
<1>s. ASSUME UNCHANGED <<now, ledgerVars, item>>
      PROVE  [Leases!Next]_(Leases!vars)
  <2>1. Life' = Life
    BY <1>s DEF Life
  <2> QED
    BY <1>s, <2>1 DEF Leases!vars
<1>w. ASSUME NEW u \in Users, item' = [item EXCEPT ![u] = NoItem],
             UNCHANGED <<now, ledgerVars>>
      PROVE  [Leases!Next]_(Leases!vars)
  <2>1. Life' = Life
    BY <1>w DEF Life
  <2>2. Leases!Withdraw(u)
    BY <1>w, <2>1 DEF Leases!Withdraw, Leases!NoLease, NoItem
  <2> QED
    BY <2>2 DEF Leases!Next
<1>1. CASE UNCHANGED vars
  BY <1>1, <1>s DEF vars
<1>2. ASSUME NEW i \in Invocations, LambdaStep(i)
      PROVE  [Leases!Next]_(Leases!vars)
  <2>1. CASE CacheHit(i) \/ CacheMiss(i) \/ GateAdmits(i) \/ GateRefuses(i)
               \/ ReadExistingKey(i) \/ ReadNoKey(i) \/ Respond(i) \/ InvocationFails(i)
    BY <2>1, <1>s DEF CacheHit, CacheMiss, GateAdmits, GateRefuses, ReadExistingKey,
                      ReadNoKey, Respond, InvocationFails
  <2>2. ASSUME NEW k \in Keys, IssueKey(i, k)
        PROVE  [Leases!Next]_(Leases!vars)
    <3>1. caller[i] \in Users
      BY <2>2 DEF IssueKey, IInv, References
    <3>2. Leases!Mint(k, caller[i])
      BY <2>2, <3>1, InsertIsMint DEF IssueKey, IInv
    <3> QED
      BY <3>1, <3>2 DEF Leases!Next
  <2>3. CASE FillItem(i)
    BY <2>3, FillIsGrant DEF Leases!Next
  <2> QED
    BY <1>2, <2>1, <2>2, <2>3 DEF LambdaStep
<1>3. ASSUME NEW i \in Invocations, NEW u \in Users, Invoke(i, u)
      PROVE  [Leases!Next]_(Leases!vars)
  BY <1>3, <1>s DEF Invoke
<1>4. ASSUME NEW a \in Operators, OperatorStep(a)
      PROVE  [Leases!Next]_(Leases!vars)
  <2>1. CASE SaveEnded(a)
    BY <2>1, SaveIsEnd DEF IInv
  <2>2. CASE Invalidate(a)
    <3>1. owner[target[a]] \in Users
      BY <2>2 DEF Invalidate, IInv, References
    <3> QED
      BY <2>2, <3>1, <1>w DEF Invalidate
  <2>3. ASSUME NEW k \in Keys, SaveReplacement(a, k)
        PROVE  [Leases!Next]_(Leases!vars)
    <3>1. owner[target[a]] \in Users
      BY <2>3 DEF SaveReplacement, IInv, References
    <3>2. Leases!Mint(k, owner[target[a]])
      BY <2>3, <3>1, InsertIsMint DEF SaveReplacement, IInv
    <3> QED
      BY <3>1, <3>2 DEF Leases!Next
  <2>4. CASE OperatorFails(a)
    BY <2>4, <1>s DEF OperatorFails
  <2> QED
    BY <1>4, <2>1, <2>2, <2>3, <2>4 DEF OperatorStep
<1>5. ASSUME NEW a \in Operators, NEW o \in KeyOp, NEW k \in Keys, BeginKeyOp(a, o, k)
      PROVE  [Leases!Next]_(Leases!vars)
  BY <1>5, <1>s DEF BeginKeyOp
<1>6. ASSUME NEW u \in Users, InvalidateUserCache(u) \/ ExpireItem(u)
      PROVE  [Leases!Next]_(Leases!vars)
  BY <1>6, <1>w DEF InvalidateUserCache, ExpireItem
<1>7. ASSUME NEW u \in Users, NEW allow \in BOOLEAN, ProvisionUser(u, allow)
      PROVE  [Leases!Next]_(Leases!vars)
  BY <1>7, <1>s DEF ProvisionUser
<1>8. CASE Tick
  <2>1. Life' = Life
    BY <1>8 DEF Tick, Life
  <2> QED
    BY <1>8, <2>1 DEF Tick, Leases!Tick, Leases!Next
<1> QED
  BY <1>1, <1>2, <1>3, <1>4, <1>5, <1>6, <1>7, <1>8 DEF Next

\* Lambdas, operators and the clock together implement the lease table: what
\* DynamoDB holds for a user is always a lease the abstract table could grant.
THEOREM LeasesImplemented == Spec => ImplementsLeases
<1>1. Init => Leases!Init
  BY DEF Init, Leases!Init, Life, Leases!NoLease, NoItem
<1>2. IInv /\ [Next]_vars => [Leases!Next]_(Leases!vars)
  BY LeaseStep
<1> QED
  BY <1>1, <1>2, InvariantHolds, PTL DEF Spec, ImplementsLeases, Leases!Spec
-----------------------------------------------------------------------------
(* What the two races with the documents come from, and that nothing else  *)
(* does: without the overlap, what the documents say holds.                *)

\* No two invocations of one user are between finding no key and the INSERT.
NoTwoIssue ==
  \A i, j \in Invocations :
    pc[i] = "issue" /\ pc[j] = "issue" /\ caller[i] = caller[j] => i = j

\* Nor does a rotation insert its replacement there.
ReplacedElsewhere ==
  \A a \in Operators, k \in Keys, i \in Invocations :
    SaveReplacement(a, k) => ~(pc[i] = "issue" /\ caller[i] = owner[target[a]])

\* Whoever is about to issue a key does so for a user without an ACTIVE one.
IssuersFoundNone == \A i \in Invocations : pc[i] = "issue" => ActiveKeys(caller[i]) = {}

\* It stays so when no key becomes ACTIVE and nobody else gets there.
LEMMA IssuersKept ==
  ASSUME IssuersFoundNone,
         \A i \in Invocations : pc'[i] = "issue" => pc[i] = "issue" /\ caller'[i] = caller[i],
         owner' = owner, \A k \in Keys : status'[k] = "ACTIVE" => status[k] = "ACTIVE"
  PROVE  IssuersFoundNone'
BY DEF IssuersFoundNone, ActiveKeys

\* And at every step that keeps out of the gap.
LEMMA IssuersStep ==
  ASSUME IInv, NoTwoIssue, IssuersFoundNone, [Next]_vars, [ReplacedElsewhere]_vars
  PROVE  IssuersFoundNone'
<1> DEFINE Quiet == /\ \A i \in Invocations : pc'[i] = "issue" => pc[i] = "issue" /\ caller'[i] = caller[i]
                    /\ owner' = owner /\ \A k \in Keys : status'[k] = "ACTIVE" => status[k] = "ACTIVE"
<1>q. Quiet => IssuersFoundNone'
  BY IssuersKept
<1>t. TypeOK /\ References
  BY DEF IInv
<1>1. CASE UNCHANGED vars
  <2>1. Quiet
    BY <1>1 DEF vars, ledgerVars, lambdaVars
  <2> QED  BY <1>q, <2>1
<1>2. ASSUME NEW i \in Invocations, LambdaStep(i)
      PROVE  IssuersFoundNone'
  <2>1. CASE CacheHit(i) \/ CacheMiss(i) \/ GateAdmits(i)
    <3>1. Quiet
      BY <1>t, <2>1 DEF CacheHit, CacheMiss, GateAdmits, ledgerVars, TypeOK
    <3> QED  BY <1>q, <3>1
  <2>2. CASE ReadExistingKey(i) \/ FillItem(i)
    <3>1. Quiet
      BY <1>t, <2>2 DEF ReadExistingKey, FillItem, ledgerVars, TypeOK
    <3> QED  BY <1>q, <3>1
  <2>3. CASE GateRefuses(i) \/ Respond(i) \/ InvocationFails(i)
    <3>1. Quiet
      BY <1>t, <2>3 DEF GateRefuses, Respond, InvocationFails, Answer, ledgerVars, TypeOK
    <3> QED  BY <1>q, <3>1
  <2>4. CASE ReadNoKey(i)
    <3>1. /\ ActiveKeys(caller[i]) = {} /\ caller' = caller /\ owner' = owner /\ status' = status
          /\ \A j \in Invocations : pc'[j] = "issue" => pc[j] = "issue" \/ j = i
      BY <1>t, <2>4 DEF ReadNoKey, ledgerVars, TypeOK
    <3> QED  BY <3>1 DEF IssuersFoundNone, ActiveKeys
  <2>5. ASSUME NEW k \in Keys, IssueKey(i, k)
        PROVE  IssuersFoundNone'
    <3>1. /\ pc[i] = "issue" /\ caller' = caller
          /\ \A j \in Invocations : pc'[j] = "issue" => pc[j] = "issue" /\ j # i
          /\ \A n \in Keys : n # k => status'[n] = status[n] /\ owner'[n] = owner[n]
          /\ owner'[k] = caller[i]
      BY <1>t, <2>5 DEF IssueKey, InsertKey, TypeOK
    <3>2. \A j \in Invocations : pc'[j] = "issue" => caller[j] # caller[i]
      BY <3>1 DEF NoTwoIssue
    <3> QED  BY <3>1, <3>2 DEF IssuersFoundNone, ActiveKeys
  <2> QED
    BY <1>2, <2>1, <2>2, <2>3, <2>4, <2>5 DEF LambdaStep
<1>3. ASSUME NEW i \in Invocations, NEW u \in Users, Invoke(i, u)
      PROVE  IssuersFoundNone'
  <2>1. Quiet
    BY <1>t, <1>3 DEF Invoke, ledgerVars, TypeOK
  <2> QED  BY <1>q, <2>1
<1>4. ASSUME NEW a \in Operators, OperatorStep(a)
      PROVE  IssuersFoundNone'
  <2>1. CASE SaveEnded(a)
    <3>1. Quiet
      BY <1>t, <2>1 DEF SaveEnded, EndStatus, lambdaVars, TypeOK
    <3> QED  BY <1>q, <3>1
  <2>2. CASE Invalidate(a) \/ OperatorFails(a)
    <3>1. Quiet
      BY <2>2 DEF Invalidate, OperatorFails, ledgerVars, lambdaVars
    <3> QED  BY <1>q, <3>1
  <2>3. ASSUME NEW k \in Keys, SaveReplacement(a, k)
        PROVE  IssuersFoundNone'
    <3>1. /\ pc' = pc /\ caller' = caller
          /\ \A n \in Keys : n # k => status'[n] = status[n] /\ owner'[n] = owner[n]
          /\ owner'[k] = owner[target[a]]
      BY <1>t, <2>3 DEF SaveReplacement, InsertKey, lambdaVars, TypeOK
    <3>2. \A i \in Invocations : pc[i] = "issue" => caller[i] # owner[target[a]]
      <4>1. CASE ReplacedElsewhere
        BY <2>3, <4>1 DEF ReplacedElsewhere
      <4>2. CASE UNCHANGED vars
        <5>1. status'[k] = "ACTIVE" /\ status[k] = "unissued"
          BY <1>t, <2>3 DEF SaveReplacement, InsertKey, TypeOK
        <5> QED  BY <4>2, <5>1 DEF vars, ledgerVars
      <4> QED  BY <4>1, <4>2
    <3> QED  BY <3>1, <3>2 DEF IssuersFoundNone, ActiveKeys
  <2> QED
    BY <1>4, <2>1, <2>2, <2>3 DEF OperatorStep
<1>5. ASSUME NEW a \in Operators, NEW o \in KeyOp, NEW k \in Keys, BeginKeyOp(a, o, k)
      PROVE  IssuersFoundNone'
  <2>1. Quiet
    BY <1>5 DEF BeginKeyOp, ledgerVars, lambdaVars
  <2> QED  BY <1>q, <2>1
<1>6. ASSUME NEW u \in Users, InvalidateUserCache(u) \/ ExpireItem(u)
      PROVE  IssuersFoundNone'
  <2>1. Quiet
    BY <1>6 DEF InvalidateUserCache, ExpireItem, ledgerVars, lambdaVars
  <2> QED  BY <1>q, <2>1
<1>7. ASSUME NEW u \in Users, NEW allow \in BOOLEAN, ProvisionUser(u, allow)
      PROVE  IssuersFoundNone'
  <2>1. Quiet
    BY <1>7 DEF ProvisionUser, ledgerVars, lambdaVars
  <2> QED  BY <1>q, <2>1
<1>8. CASE Tick
  <2>1. Quiet
    BY <1>8 DEF Tick, ledgerVars, lambdaVars
  <2> QED  BY <1>q, <2>1
<1> QED
  BY <1>1, <1>2, <1>3, <1>4, <1>5, <1>6, <1>7, <1>8 DEF Next

\* An invocation issues a key over an ACTIVE one (issue_service.py:62 against
\* :102) only where it meets another of its user, or a rotation that saves its
\* replacement, between the read that finds none and the INSERT.  Nothing is said
\* of what a rotation saves: its replacement may join a key issued meanwhile.
THEOREM DoubleIssueNeedsOverlap ==
  Spec /\ []NoTwoIssue /\ [][ReplacedElsewhere]_vars => IssueOnlyWithoutActive
<1>1. Init => IssuersFoundNone
  BY DEF Init, IssuersFoundNone
<1>2. IInv /\ NoTwoIssue /\ IssuersFoundNone /\ [Next]_vars /\ [ReplacedElsewhere]_vars
        => IssuersFoundNone'
  BY IssuersStep
<1>3. IssuersFoundNone =>
        [\A i \in Invocations, k \in Keys : IssueKey(i, k) => ActiveKeys(caller[i]) = {}]_vars
  BY DEF IssuersFoundNone, IssueKey
<1> QED
  BY <1>1, <1>2, <1>3, InvariantHolds, PTL DEF Spec, IssueOnlyWithoutActive

\* When a user becomes owed a read, nobody is between the read of a key of that
\* user and the put of its item.
InvalidatedAtRest ==
  \A u \in owed' \ owed : \A i \in Invocations :
    caller[i] = u => pc[i] \notin {"issue", "fill"}

\* Whose keys nobody has read since has no item, nor one on its way.
OwedUncached ==
  /\ owed \subseteq Users
  /\ \A u \in owed :
       /\ item[u].key = NoKey
       /\ \A i \in Invocations : caller[i] = u => pc[i] \notin {"issue", "fill"}

\* Who is owed a read and was before has no item yet after the step.
LEMMA StillUncached ==
  ASSUME IInv, OwedUncached, Next, NEW u \in owed,
         \A i \in Invocations : caller[i] = u => ~Reads(i)
  PROVE  /\ item'[u].key = NoKey
         /\ \A i \in Invocations : caller'[i] = u => pc'[i] \notin {"issue", "fill"}
<1> DEFINE Good == /\ item'[u].key = NoKey
                   /\ \A i \in Invocations : caller'[i] = u => pc'[i] \notin {"issue", "fill"}
<1>t. TypeOK /\ References /\ u \in Users /\ NoItem.key = NoKey /\ u # NoUser
  BY NullAssumption, NoItemIsItem DEF IInv, OwedUncached
<1>u. /\ item[u].key = NoKey
      /\ \A i \in Invocations : caller[i] = u => pc[i] \notin {"issue", "fill"}
  BY DEF OwedUncached
<1>2. ASSUME NEW i \in Invocations, LambdaStep(i)
      PROVE  Good
  <2>1. CASE CacheHit(i) \/ CacheMiss(i) \/ GateAdmits(i)
    BY <1>t, <1>u, <2>1 DEF CacheHit, CacheMiss, GateAdmits, TypeOK
  <2>2. CASE ReadExistingKey(i) \/ ReadNoKey(i)
    <3>1. caller[i] # u
      BY <2>2 DEF Reads
    <3> QED
      BY <1>t, <1>u, <2>2, <3>1 DEF ReadExistingKey, ReadNoKey, TypeOK
  <2>3. CASE GateRefuses(i) \/ Respond(i) \/ InvocationFails(i)
    BY <1>t, <1>u, <2>3 DEF GateRefuses, Respond, InvocationFails, Answer, TypeOK
  <2>4. CASE \E k \in Keys : IssueKey(i, k)
    <3>1. caller[i] # u
      BY <1>u, <2>4 DEF IssueKey
    <3> QED
      BY <1>t, <1>u, <2>4, <3>1 DEF IssueKey, TypeOK
  <2>5. CASE FillItem(i)
    <3>1. caller[i] # u
      BY <1>u, <2>5 DEF FillItem
    <3> QED
      BY <1>t, <1>u, <2>5, <3>1 DEF FillItem, TypeOK
  <2> QED
    BY <1>2, <2>1, <2>2, <2>3, <2>4, <2>5 DEF LambdaStep
<1>3. ASSUME NEW i \in Invocations, NEW v \in Users, Invoke(i, v)
      PROVE  Good
  BY <1>t, <1>u, <1>3 DEF Invoke, TypeOK
<1>4. ASSUME NEW a \in Operators, OperatorStep(a)
      PROVE  Good
  <2>1. CASE SaveEnded(a) \/ OperatorFails(a) \/ \E k \in Keys : SaveReplacement(a, k)
    BY <1>u, <2>1 DEF SaveEnded, OperatorFails, SaveReplacement, lambdaVars
  <2>2. CASE Invalidate(a)
    BY <1>t, <1>u, <2>2 DEF Invalidate, lambdaVars, TypeOK
  <2> QED
    BY <1>4, <2>1, <2>2 DEF OperatorStep
<1>5. ASSUME NEW a \in Operators, NEW o \in KeyOp, NEW k \in Keys, BeginKeyOp(a, o, k)
      PROVE  Good
  BY <1>u, <1>5 DEF BeginKeyOp, lambdaVars
<1>6. ASSUME NEW v \in Users, InvalidateUserCache(v) \/ ExpireItem(v)
      PROVE  Good
  BY <1>t, <1>u, <1>6 DEF InvalidateUserCache, ExpireItem, lambdaVars, TypeOK
<1>7. CASE Tick \/ \E v \in Users, allow \in BOOLEAN : ProvisionUser(v, allow)
  BY <1>u, <1>7 DEF Tick, ProvisionUser, lambdaVars
<1> QED
  BY <1>2, <1>3, <1>4, <1>5, <1>6, <1>7 DEF Next

LEMMA OwedStep ==
  ASSUME IInv, OwedUncached, InvalidationNext, InvalidatedAtRest
  PROVE  OwedUncached'
<1>1. /\ owed' \subseteq owed \cup {u \in Users : InvalidateUserCache(u)}
      /\ \A u \in owed' \cap Users : \A i \in Invocations : caller[i] = u => ~Reads(i)
  BY DEF InvalidationNext
<1>2. owed' \subseteq Users
  BY <1>1 DEF OwedUncached
<1>3. ASSUME NEW u \in owed'
      PROVE  /\ item'[u].key = NoKey
             /\ \A i \in Invocations : caller'[i] = u => pc'[i] \notin {"issue", "fill"}
  <2>1. CASE u \in owed
    <3>1. Next
      BY DEF InvalidationNext
    <3> QED
      BY <1>1, <1>2, <1>3, <2>1, <3>1, StillUncached
  <2>2. CASE u \notin owed
    <3>1. u \in Users /\ InvalidateUserCache(u) /\ NoItem.key = NoKey
      BY <1>1, <1>3, <2>2, NoItemIsItem
    <3>2. \A i \in Invocations : caller[i] = u => pc[i] \notin {"issue", "fill"}
      BY <1>3, <2>2 DEF InvalidatedAtRest
    <3> QED
      BY <3>1, <3>2 DEF InvalidateUserCache, lambdaVars, IInv, TypeOK
  <2> QED  BY <2>1, <2>2
<1> QED  BY <1>2, <1>3 DEF OwedUncached

\* After a forced invalidation (internal_ops.py) a cached key is served without a
\* read of PostgreSQL only where the invalidation met an invocation between its
\* read of that user's key and its put (issue_service.py:64 to 115): without that
\* requirements.md:200 holds.
THEOREM RereadWithoutOverlap ==
  InvalidationSpec /\ [][InvalidatedAtRest]_<<vars, owed, later>> => NextRequestRereads
<1> DEFINE w == <<vars, owed, later>>
           A == \A i \in Invocations : i \in later /\ caller[i] \in owed => ~CacheHit(i)
<1>1. InvalidationInit => Init /\ OwedUncached
  BY DEF InvalidationInit, OwedUncached
<1>2. [InvalidationNext]_w => [Next]_vars
  BY DEF InvalidationNext
<1>3. IInv /\ OwedUncached /\ [InvalidationNext]_w /\ [InvalidatedAtRest]_w => OwedUncached'
  <2> SUFFICES ASSUME IInv, OwedUncached, [InvalidationNext]_w, [InvalidatedAtRest]_w
               PROVE  OwedUncached'
    OBVIOUS
  <2>1. CASE UNCHANGED w
    BY <2>1 DEF OwedUncached, vars, lambdaVars
  <2>2. CASE InvalidationNext /\ InvalidatedAtRest
    BY <2>2, OwedStep
  <2> QED  BY <2>1, <2>2
<1>4. OwedUncached => [A]_w
  BY DEF OwedUncached, CacheHit, Fresh
<1>5. Init => IInv
  BY InitInv
<1>6. IInv /\ [Next]_vars => IInv'
  BY InvStep
<1> QED
  BY <1>1, <1>2, <1>3, <1>4, <1>5, <1>6, PTL DEF InvalidationSpec, NextRequestRereads
=============================================================================
