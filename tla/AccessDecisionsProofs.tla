------------------------ MODULE AccessDecisionsProofs ------------------------
(***************************************************************************)
(* Theorems about AccessDecisions, for every catalogue of rules and        *)
(* budgets: rules only tighten or open what they name, and the one budget  *)
(* that is selected stands for all of them.                                *)
(***************************************************************************)
EXTENDS AccessDecisions, WellFoundedInduction, TLAPS

\* A set of natural numbers with a member has a least one.
LEMMA LeastNat ==
  ASSUME NEW S, S \subseteq Nat, S # {}
  PROVE  \E n \in S : \A k \in S : n <= k
<1> DEFINE R == {ss \in Nat \X Nat : ss[1] < ss[2]}
<1>1. IsWellFoundedOn(R, Nat)
  BY NatLessThanWellFounded DEF OpToRel
<1> HIDE DEF R
<1>2. PICK n \in S : \A k \in S : ~(<<k, n>> \in R)
  BY <1>1, WFMin
<1>3. \A k \in S : n <= k
  <2> TAKE k \in S
  <2>1. k \in Nat /\ n \in Nat
    OBVIOUS
  <2>2. <<k, n>> \in Nat \X Nat /\ <<k, n>>[1] = k /\ <<k, n>>[2] = n
    BY <2>1
  <2>3. <<k, n>> \notin R
    BY <1>2
  <2>4. ~(k < n)
    BY <2>2, <2>3 DEF R
  <2> QED  BY <2>1, <2>4
<1> QED  BY <1>3

\* The effective limit is one of the limits, and none is less.
LEMMA LeastLimit ==
  ASSUME NEW u, TokenLimits(u) # {}, policies \subseteq Rules
  PROVE  /\ EffectiveMaxOutputTokens(u) \in TokenLimits(u)
         /\ \A k \in TokenLimits(u) : EffectiveMaxOutputTokens(u) <= k
<1>1. TokenLimits(u) \subseteq Nat
  BY RuleAssumption DEF TokenLimits, Collected
<1>2. PICK n \in TokenLimits(u) : \A k \in TokenLimits(u) : n <= k
  BY <1>1, LeastNat
<1> QED  BY <1>2 DEF EffectiveMaxOutputTokens

\* The selected budget comes before every other active one.
LEMMA EffectivePolicySelected ==
  ASSUME budgets \subseteq Budgets, budgets # {}
  PROVE  /\ EffectivePolicy \in budgets
         /\ \A c \in budgets : ComesBefore(EffectivePolicy, c)
<1> DEFINE Hards(B) == {HardLimit(b) : b \in B}
           Limits(B) == {b.limit_value : b \in B}
           Percents(B) == {b.hard_limit_percent : b \in B}
           Ranks(B) == {ScopeRank(b) : b \in B}
           Ids(B) == {b.id : b \in B}
<1>1. \A b \in Budgets :
        /\ HardLimit(b) \in Nat /\ b.limit_value \in Nat
        /\ b.hard_limit_percent \in Nat /\ ScopeRank(b) \in Nat /\ b.id \in Nat
  <2> TAKE b \in Budgets
  <2>1. b.limit_value \in Nat /\ b.hard_limit_percent \in Nat /\ b.id \in Nat
    BY BudgetAssumption
  <2>2. ScopeRank(b) \in Nat
    BY BudgetAssumption DEF ScopeRank
  <2>3. HardLimit(b) \in Nat
    BY <2>1 DEF HardLimit
  <2> QED  BY <2>1, <2>2, <2>3
<1>2. PICK h \in Hards(budgets) : \A k \in Hards(budgets) : h <= k
  <2>1. Hards(budgets) \subseteq Nat /\ Hards(budgets) # {}
    BY <1>1
  <2> HIDE DEF Hards
  <2> QED  BY <2>1, LeastNat
<1> DEFINE B1 == {b \in budgets : HardLimit(b) = h}
<1>3. PICK l \in Limits(B1) : \A k \in Limits(B1) : l <= k
  <2>1. Limits(B1) \subseteq Nat /\ Limits(B1) # {}
    BY <1>1
  <2> HIDE DEF Limits, B1
  <2> QED  BY <2>1, LeastNat
<1> DEFINE B2 == {b \in B1 : b.limit_value = l}
<1>4. PICK p \in Percents(B2) : \A k \in Percents(B2) : p <= k
  <2>1. Percents(B2) \subseteq Nat /\ Percents(B2) # {}
    BY <1>1
  <2> HIDE DEF Percents, B2
  <2> QED  BY <2>1, LeastNat
<1> DEFINE B3 == {b \in B2 : b.hard_limit_percent = p}
<1>5. PICK r \in Ranks(B3) : \A k \in Ranks(B3) : r <= k
  <2>1. Ranks(B3) \subseteq Nat /\ Ranks(B3) # {}
    BY <1>1
  <2> HIDE DEF Ranks, B3
  <2> QED  BY <2>1, LeastNat
<1> DEFINE B4 == {b \in B3 : ScopeRank(b) = r}
<1>6. PICK i \in Ids(B4) : \A k \in Ids(B4) : i <= k
  <2>1. Ids(B4) \subseteq Nat /\ Ids(B4) # {}
    BY <1>1
  <2> HIDE DEF Ids, B4
  <2> QED  BY <2>1, LeastNat
<1>7. PICK b \in B4 : b.id = i
  OBVIOUS
<1>8. \A c \in budgets : ComesBefore(b, c)
  <2> TAKE c \in budgets
  <2>1. b \in Budgets /\ c \in Budgets
    OBVIOUS
  <2>2. /\ HardLimit(b) = h /\ b.limit_value = l /\ b.hard_limit_percent = p
        /\ ScopeRank(b) = r /\ b.id = i
    BY <1>7
  <2>3. h <= HardLimit(c)
    BY <1>2
  <2>4. HardLimit(c) = h => l <= c.limit_value
    BY <1>3
  <2>5. HardLimit(c) = h /\ c.limit_value = l => p <= c.hard_limit_percent
    BY <1>4
  <2>6. HardLimit(c) = h /\ c.limit_value = l /\ c.hard_limit_percent = p
          => r <= ScopeRank(c)
    BY <1>5
  <2>7. HardLimit(c) = h /\ c.limit_value = l /\ c.hard_limit_percent = p /\ ScopeRank(c) = r
          => i <= c.id
    BY <1>6
  <2> HIDE DEF B4, B3, B2, B1, Hards, Limits, Percents, Ranks, Ids
  <2>8. /\ HardLimit(b) \in Nat /\ HardLimit(c) \in Nat
        /\ b.limit_value \in Nat /\ c.limit_value \in Nat
        /\ b.hard_limit_percent \in Nat /\ c.hard_limit_percent \in Nat
        /\ ScopeRank(b) \in Nat /\ ScopeRank(c) \in Nat
        /\ b.id \in Nat /\ c.id \in Nat
    BY <1>1, <2>1
  <2> QED  BY <2>2, <2>3, <2>4, <2>5, <2>6, <2>7, <2>8 DEF ComesBefore
<1>9. b \in budgets
  OBVIOUS
<1> HIDE DEF B4
<1> QED  BY <1>8, <1>9 DEF EffectivePolicy

-----------------------------------------------------------------------------

\* A rule comes into force alone, and nothing else changes with it.
LEMMA ActivatedAlone ==
  ASSUME Next, NEW p \in Rules, Activated(p)
  PROVE  user' = user /\ policies' = policies \cup {p}
<1>1. ~\E b \in Budgets : CreateUserBudget(b) \/ InsertBudget(b) \/ DeactivateBudget(b)
  BY DEF Activated, CreateUserBudget, InsertBudget, DeactivateBudget
<1>2. ~\E u \in UserRecords : ProvisionUser(u)
  BY DEF Activated, ProvisionUser
<1>3. PICK r \in Rules : ActivatePolicy(r) \/ DeactivatePolicy(r)
  BY <1>1, <1>2 DEF Next
<1> QED  BY <1>3 DEF Activated, ActivatePolicy, DeactivatePolicy

\* A rule that goes out of force is all that changes in its step.
LEMMA DeactivatedAlone ==
  ASSUME Next, NEW p \in Rules, Deactivated(p)
  PROVE  user' = user /\ policies' = policies \ {p}
<1>1. ~\E b \in Budgets : CreateUserBudget(b) \/ InsertBudget(b) \/ DeactivateBudget(b)
  BY DEF Deactivated, CreateUserBudget, InsertBudget, DeactivateBudget
<1>2. ~\E u \in UserRecords : ProvisionUser(u)
  BY DEF Deactivated, ProvisionUser
<1>3. PICK r \in Rules : ActivatePolicy(r) \/ DeactivatePolicy(r)
  BY <1>1, <1>2 DEF Next
<1> QED  BY <1>3 DEF Deactivated, ActivatePolicy, DeactivatePolicy

\* The deny rule is among those collected, and denies before any allow rule is
\* looked at; for the other models it can only close the list.
THEOREM DenyWins == Spec => DenyRulesClose
<1>1. ASSUME Next, NEW p \in Rules, Activated(p), InScope(p, user), p.rule_type = "deny_model"
      PROVE  OpenTo(user)' \subseteq OpenTo(user) \ p.models
  <2>1. user' = user /\ policies' = policies \cup {p}
    BY <1>1, ActivatedAlone
  <2>2. Collected(user)' = Collected(user) \cup {p}
    BY <1>1, <2>1 DEF Collected, InScope
  <2> SUFFICES ASSUME NEW m \in Models, DenialReason(user, m)' = "none"
               PROVE  DenialReason(user, m) = "none" /\ m \notin p.models
    BY DEF OpenTo
  <2>3. ~MatchingDeny(user, m)' /\ (HasAccessRules(user)' => HasMatchingAllow(user, m)')
    BY DEF DenialReason
  <2>4. m \notin p.models /\ ~MatchingDeny(user, m)
    BY <1>1, <2>2, <2>3 DEF MatchingDeny, Matches
  <2>5. HasMatchingAllow(user, m)
    BY <1>1, <2>2, <2>3 DEF HasAccessRules, HasMatchingAllow, Matches
  <2> QED  BY <2>1, <2>4, <2>5 DEF DenialReason
<1>2. [Next]_vars => [\A p \in Rules :
         Activated(p) /\ InScope(p, user) /\ p.rule_type = "deny_model"
           => OpenTo(user)' \subseteq OpenTo(user) \ p.models]_vars
  BY <1>1
<1> QED  BY <1>2, PTL DEF Spec, DenyRulesClose

\* A model the rule does not match still needs the allow rule it had, and none
\* of the rules that refuse it is gone.
THEOREM AllowIsNarrow == Spec => AllowRulesOpenTheirOwn
<1>1. ASSUME Next, NEW p \in Rules, Activated(p), p.rule_type = "allow_model"
      PROVE  OpenTo(user)' \subseteq OpenTo(user) \cup p.models
  <2>1. user' = user /\ policies' = policies \cup {p}
    BY <1>1, ActivatedAlone
  <2>2. Collected(user) \subseteq Collected(user)' /\ Collected(user)' \subseteq Collected(user) \cup {p}
    BY <2>1 DEF Collected, InScope
  <2> SUFFICES ASSUME NEW m \in Models, DenialReason(user, m)' = "none", m \notin p.models
               PROVE  DenialReason(user, m) = "none"
    BY DEF OpenTo
  <2>3. ~MatchingDeny(user, m)' /\ (HasAccessRules(user)' => HasMatchingAllow(user, m)')
    BY DEF DenialReason
  <2>4. ~MatchingDeny(user, m)
    BY <2>2, <2>3 DEF MatchingDeny, Matches
  <2>5. HasAccessRules(user) => HasMatchingAllow(user, m)
    BY <2>2, <2>3 DEF HasAccessRules, HasMatchingAllow, Matches
  <2> QED  BY <2>1, <2>4, <2>5 DEF DenialReason
<1>2. [Next]_vars => [\A p \in Rules :
         Activated(p) /\ p.rule_type = "allow_model"
           => OpenTo(user)' \subseteq OpenTo(user) \cup p.models]_vars
  BY <1>1
<1> QED  BY <1>2, PTL DEF Spec, AllowRulesOpenTheirOwn

\* While an access rule stays, the list is closed before and after.
THEOREM RevokingIsSafe == Spec => RevokingOpensNothing
<1> DEFINE Stays(p, r) ==
      /\ Deactivated(p) /\ p.rule_type = "allow_model"
      /\ r \in policies' /\ InScope(r, user) /\ r.rule_type # "max_output_tokens"
<1>1. ASSUME Next, NEW p \in Rules, NEW r \in Rules, Stays(p, r)
      PROVE  OpenTo(user)' \subseteq OpenTo(user)
  <2>1. user' = user /\ policies' = policies \ {p}
    BY <1>1, DeactivatedAlone
  <2>2. /\ Collected(user)' \subseteq Collected(user)
        /\ Collected(user) \subseteq Collected(user)' \cup {p}
        /\ r \in Collected(user)'
    BY <1>1, <2>1 DEF Collected, InScope
  <2>3. r.rule_type \in {"allow_model", "deny_model"}
    BY <1>1, RuleAssumption
  <2> SUFFICES ASSUME NEW m \in Models, DenialReason(user, m)' = "none"
               PROVE  DenialReason(user, m) = "none"
    BY DEF OpenTo
  <2>4. ~MatchingDeny(user, m)' /\ (HasAccessRules(user)' => HasMatchingAllow(user, m)')
    BY DEF DenialReason
  <2>5. ~MatchingDeny(user, m)
    BY <1>1, <2>2, <2>4 DEF MatchingDeny, Matches
  <2>6. HasMatchingAllow(user, m)
    BY <2>2, <2>3, <2>4 DEF HasAccessRules, HasMatchingAllow, Matches
  <2> QED  BY <2>1, <2>4, <2>5, <2>6 DEF DenialReason
<1>2. [Next]_vars => [\A p, r \in Rules : Stays(p, r) => OpenTo(user)' \subseteq OpenTo(user)]_vars
  BY <1>1
<1> QED  BY <1>2, PTL DEF Spec, RevokingOpensNothing

-----------------------------------------------------------------------------

\* Whatever way a budget comes in, its thresholds have been compared.
THEOREM InvariantHolds == Spec => []IInv
<1>1. Init => IInv
  BY DEF Init, IInv, TypeOK
<1>2. IInv /\ [Next]_vars => IInv'
  <2> SUFFICES ASSUME IInv, [Next]_vars PROVE IInv'
    OBVIOUS
  <2> USE DEF IInv, TypeOK
  <2>1. ASSUME NEW b \in Budgets, CreateUserBudget(b) PROVE IInv'
    BY <2>1 DEF CreateUserBudget, ThresholdsValid
  <2>2. ASSUME NEW b \in Budgets, InsertBudget(b) PROVE IInv'
    BY <2>2 DEF InsertBudget, ThresholdsValid
  <2>3. ASSUME NEW b \in Budgets, DeactivateBudget(b) PROVE IInv'
    BY <2>3 DEF DeactivateBudget
  <2>4. ASSUME NEW p \in Rules, ActivatePolicy(p) \/ DeactivatePolicy(p) PROVE IInv'
    BY <2>4 DEF ActivatePolicy, DeactivatePolicy
  <2>5. ASSUME NEW u \in UserRecords, ProvisionUser(u) PROVE IInv'
    BY <2>5 DEF ProvisionUser
  <2>6. CASE UNCHANGED vars
    BY <2>6 DEF vars
  <2> QED  BY <2>1, <2>2, <2>3, <2>4, <2>5, <2>6 DEF Next
<1> QED  BY <1>1, <1>2, PTL DEF Spec

\* The new limit joins the old ones, and the least of more is no greater.
THEOREM LimitsTighten == Spec => LimitsOnlyTighten
<1> DEFINE Tightens == \A p \in Rules :
      Activated(p) /\ InScope(p, user) /\ p.rule_type = "max_output_tokens"
        => /\ EffectiveMaxOutputTokens(user)' <= p.tokens
           /\ EffectiveMaxOutputTokens(user) # None =>
                EffectiveMaxOutputTokens(user)' <= EffectiveMaxOutputTokens(user)
<1>1. ASSUME IInv, IInv', Next, NEW p \in Rules,
             Activated(p), InScope(p, user), p.rule_type = "max_output_tokens"
      PROVE  /\ EffectiveMaxOutputTokens(user)' <= p.tokens
             /\ EffectiveMaxOutputTokens(user) # None =>
                  EffectiveMaxOutputTokens(user)' <= EffectiveMaxOutputTokens(user)
  <2>1. user' = user /\ policies' = policies \cup {p}
    BY <1>1, ActivatedAlone
  <2>2. TokenLimits(user)' = TokenLimits(user) \cup {p.tokens}
    <3>1. Collected(user)' = Collected(user) \cup {p}
      BY <1>1, <2>1 DEF Collected, InScope
    <3> QED  BY <1>1, <3>1 DEF TokenLimits
  <2>3. policies \subseteq Rules /\ policies' \subseteq Rules
    BY <1>1 DEF IInv, TypeOK
  <2>4. \A k \in TokenLimits(user)' : EffectiveMaxOutputTokens(user)' <= k
    <3>1. \A n \in TokenLimits(user)' : n \in Nat
      BY <2>3, RuleAssumption DEF TokenLimits, Collected
    <3>2. PICK n \in TokenLimits(user)' : \A k \in TokenLimits(user)' : n <= k
      <4>1. TokenLimits(user)' \subseteq Nat /\ TokenLimits(user)' # {}
        BY <2>2, <3>1
      <4> QED  BY <4>1, LeastNat
    <3> QED  BY <3>2 DEF EffectiveMaxOutputTokens
  <2>5. EffectiveMaxOutputTokens(user) # None => EffectiveMaxOutputTokens(user) \in TokenLimits(user)
    BY <2>3, LeastLimit DEF EffectiveMaxOutputTokens
  <2> QED  BY <2>2, <2>4, <2>5
<1>2. IInv /\ IInv' /\ [Next]_vars => [Tightens]_vars
  BY <1>1
<1> QED  BY <1>2, InvariantHolds, PTL DEF Spec, LimitsOnlyTighten

\* The selected budget has the least hard limit of all, for every list of
\* active budgets.
LEMMA SelectedIsLeast ==
  IInv /\ budgets # {} =>
    /\ EffectivePolicy \in budgets
    /\ \A c \in budgets : HardLimit(c) \in Nat /\ HardLimit(EffectivePolicy) <= HardLimit(c)
<1>1. ASSUME IInv, budgets # {}
      PROVE  /\ EffectivePolicy \in budgets
             /\ \A c \in budgets :
                  HardLimit(c) \in Nat /\ HardLimit(EffectivePolicy) <= HardLimit(c)
  <2>1. budgets \subseteq Budgets
    BY <1>1 DEF IInv, TypeOK
  <2>2. /\ EffectivePolicy \in budgets
        /\ \A c \in budgets : ComesBefore(EffectivePolicy, c)
    BY <1>1, <2>1, EffectivePolicySelected
  <2>3. ASSUME NEW b \in budgets PROVE HardLimit(b) \in Nat
    <3>1. b.limit_value \in Nat /\ b.hard_limit_percent \in Nat
      BY <2>1, BudgetAssumption
    <3> QED  BY <3>1 DEF HardLimit
  <2> QED  BY <2>2, <2>3 DEF ComesBefore
<1> QED  BY <1>1

\* What a request is projected at is a number.
LEMMA UsageTyped == \A q \in Questions : q.current \in Nat /\ RequestedUsage(q) \in Nat
<1> TAKE q \in Questions
<1>1. /\ q.current \in Nat
      /\ q.requested # None => q.requested \in Nat
      /\ q.cost # None => q.cost \in Nat
  BY AmountAssumption DEF Questions
<1> QED  BY <1>1 DEF RequestedUsage

\* One budget is asked (quota_engine.py sorts and takes the first), and that is
\* enough: admitting below its hard limit is admitting below every one.
THEOREM BudgetsRespected == Spec => []AllBudgetsRespected
<1>1. IInv => AllBudgetsRespected
  <2> SUFFICES ASSUME IInv, NEW q \in Questions
               PROVE  QuotaAllows(q) <=> \A b \in budgets : ProjectedUsage(q) < HardLimit(b)
    BY DEF AllBudgetsRespected
  <2>1. ProjectedUsage(q) \in Nat
    BY UsageTyped DEF ProjectedUsage
  <2>2. CASE budgets = {}
    BY <2>2 DEF QuotaAllows, HardLimitReached
  <2>3. CASE budgets # {}
    BY <2>1, <2>3, SelectedIsLeast DEF QuotaAllows, HardLimitReached
  <2> QED  BY <2>2, <2>3
<1> QED  BY <1>1, InvariantHolds, PTL

\* A budget that comes into force (admin_budget_policies.py) lowers the hard
\* limit that is asked, and changes what a request is projected at only with
\* the metric of the selected budget: it lets nothing pass that was refused but
\* requests that had been projected in dollars and are not in tokens.
THEOREM BudgetsTighten == Spec => BudgetsOnlyTighten
<1> DEFINE Tightens == budgets # budgets' /\ budgets \subseteq budgets' =>
      \A q \in Questions : ~QuotaAllows(q) /\ QuotaAllows(q)' =>
        /\ q.requested = None /\ q.cost # None
        /\ EffectivePolicy.metric_type = "cost_usd"
        /\ EffectivePolicy'.metric_type = "tokens"
<1>1. (IInv /\ budgets # {} =>
        /\ EffectivePolicy \in budgets
        /\ \A c \in budgets : HardLimit(c) \in Nat /\ HardLimit(EffectivePolicy) <= HardLimit(c))'
  BY SelectedIsLeast, PTL
<1>2. (\A q \in Questions : q.current \in Nat /\ RequestedUsage(q) \in Nat)'
  BY UsageTyped, PTL
<1>3. ASSUME IInv, IInv', budgets \subseteq budgets', NEW q \in Questions,
             ~QuotaAllows(q), QuotaAllows(q)'
      PROVE  /\ q.requested = None /\ q.cost # None
             /\ EffectivePolicy.metric_type = "cost_usd"
             /\ EffectivePolicy'.metric_type = "tokens"
  <2>1. budgets # {} /\ ProjectedUsage(q) >= HardLimit(EffectivePolicy)
    BY <1>3 DEF QuotaAllows, HardLimitReached
  <2>2. budgets' # {}
    BY <1>3, <2>1
  <2>3. EffectivePolicy \in budgets /\ EffectivePolicy' \in budgets'
    BY <1>1, <1>3, <2>1, <2>2, SelectedIsLeast
  <2>4. /\ HardLimit(EffectivePolicy) \in Nat
        /\ HardLimit(EffectivePolicy') \in Nat
        /\ HardLimit(EffectivePolicy') <= HardLimit(EffectivePolicy)
    BY <1>1, <1>3, <2>1, <2>2, <2>3, SelectedIsLeast
  <2>5. /\ q.current \in Nat
        /\ RequestedUsage(q) \in Nat /\ RequestedUsage(q)' \in Nat
    BY <1>2, UsageTyped
  <2>6. RequestedUsage(q)' < RequestedUsage(q)
    <3>1. ~(ProjectedUsage(q)' >= HardLimit(EffectivePolicy'))
      BY <1>3, <2>2 DEF QuotaAllows, HardLimitReached
    <3> QED  BY <2>1, <2>4, <2>5, <3>1 DEF ProjectedUsage
  <2>7. /\ EffectivePolicy.metric_type \in {"tokens", "cost_usd"}
        /\ EffectivePolicy'.metric_type \in {"tokens", "cost_usd"}
    BY <1>3, <2>3, BudgetAssumption DEF IInv, TypeOK
  <2>8. q.cost # None => q.cost \in Nat
    BY AmountAssumption DEF Questions
  <2> QED  BY <2>1, <2>2, <2>5, <2>6, <2>7, <2>8 DEF RequestedUsage
<1>4. IInv /\ IInv' /\ [Next]_vars => [Tightens]_vars
  BY <1>3
<1> QED  BY <1>4, InvariantHolds, PTL DEF Spec, BudgetsOnlyTighten

=============================================================================
