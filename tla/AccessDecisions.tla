--------------------------- MODULE AccessDecisions ---------------------------
(***************************************************************************)
(* What the policy engine (proxy/policy_engine.py) and the quota engine    *)
(* (proxy/quota_engine.py) decide about one user, while administrators     *)
(* change the policies, the budgets and the user.  Both engines are pure   *)
(* functions of the records they are given; the records change one at a    *)
(* time.  A row that is not active and one that is not there are the same  *)
(* to both engines, so that the state is the set of active rows.           *)
(*                                                                         *)
(* A rule's pattern is the set of the models it matches.  The percentage   *)
(* of a limit is computed in hundredths and exactly, where the code        *)
(* rounds to floats.  soft_limit_reached, which no code reads, is left     *)
(* out.                                                                    *)
(***************************************************************************)
EXTENDS Integers

CONSTANTS
  Models,
  UserId, Groups, Departments, NoDepartment,
  Rules,    \* the PolicyRecords an administrator may activate
  Budgets,  \* the BudgetPolicyRecords of the user, their teams and everybody
  Amounts   \* usages and costs to be judged

None == -1

ASSUME RuleAssumption ==
  \A p \in Rules :
    /\ p.scope_type \in {"user", "group", "department", "global"}
    /\ p.rule_type \in {"allow_model", "deny_model", "max_output_tokens"}
    /\ p.models \subseteq Models
    /\ p.tokens \in Nat

ASSUME BudgetAssumption ==
  \A b \in Budgets :
    /\ b.id \in Nat
    /\ b.scope_type \in {"user", "team", "global"}
    /\ b.metric_type \in {"tokens", "cost_usd"}
    /\ {b.limit_value, b.soft_limit_percent, b.hard_limit_percent} \subseteq Nat

ASSUME KeyAssumption == \A b, c \in Budgets : b.id = c.id => b = c

ASSUME AmountAssumption == Amounts \subseteq Nat

ASSUME DepartmentAssumption == NoDepartment \notin Departments

VARIABLES
  user,      \* the user row
  policies,  \* the active rows of the table policies
  budgets    \* the active rows of the table budget_policies

vars == <<user, policies, budgets>>

UserRecords == [is_active : BOOLEAN, proxy_access_enabled : BOOLEAN,
                groups : SUBSET Groups, department : Departments \cup {NoDepartment}]

Init ==
  /\ user \in {u \in UserRecords : u.groups = {} /\ u.is_active /\ u.proxy_access_enabled}
  /\ policies = {}
  /\ budgets = {}

-----------------------------------------------------------------------------
(* The policy engine.                                                      *)

InScope(p, u) ==
  \/ p.scope_type = "user" /\ p.scope_id = UserId
  \/ p.scope_type = "group" /\ p.scope_id \in u.groups
  \/ /\ p.scope_type = "department"
     /\ u.department # NoDepartment
     /\ p.scope_id = u.department
  \/ p.scope_type = "global"

Collected(u) == {p \in policies : InScope(p, u)}

Matches(p, m) == m \in p.models

\* Mutant: the rules of the narrowest scope override those of a wider one.
MatchingDenyUnlessUserAllows(u, m) ==
  /\ \E p \in Collected(u) : p.rule_type = "deny_model" /\ Matches(p, m)
  /\ ~\E p \in Collected(u) :
       p.scope_type = "user" /\ p.rule_type = "allow_model" /\ Matches(p, m)

MatchingDeny(u, m) ==
  \E p \in Collected(u) : p.rule_type = "deny_model" /\ Matches(p, m)

\* Mutant: only allow rules make the list of models a closed one.
HasAllowRules(u) == \E p \in Collected(u) : p.rule_type = "allow_model"

HasAccessRules(u) ==
  \E p \in Collected(u) : p.rule_type \in {"allow_model", "deny_model"}

\* Mutant: any allow rule will do.
HasAllow(u, m) == \E p \in Collected(u) : p.rule_type = "allow_model"

HasMatchingAllow(u, m) ==
  \E p \in Collected(u) : p.rule_type = "allow_model" /\ Matches(p, m)

\* PolicyEngine.evaluate: the denial_reason, "none" when it is allowed.
DenialReason(u, m) ==
  IF ~u.is_active THEN "user_inactive"
  ELSE IF ~u.proxy_access_enabled THEN "proxy_access_disabled"
  ELSE IF MatchingDeny(u, m) THEN "model_denied"
  ELSE IF HasAccessRules(u) /\ ~HasMatchingAllow(u, m) THEN "model_not_allowed"
  ELSE "none"

OpenTo(u) == {m \in Models : DenialReason(u, m) = "none"}

TokenLimits(u) == {p.tokens : p \in {q \in Collected(u) : q.rule_type = "max_output_tokens"}}

\* Mutant: the limit of the narrowest scope is the one that counts.
UserOrLeastTokens(u) ==
  LET own == {p.tokens : p \in {q \in Collected(u) :
                q.rule_type = "max_output_tokens" /\ q.scope_type = "user"}}
      all == IF own = {} THEN TokenLimits(u) ELSE own
  IN  IF all = {} THEN None ELSE CHOOSE n \in all : \A k \in all : n <= k

EffectiveMaxOutputTokens(u) ==
  IF TokenLimits(u) = {} THEN None
  ELSE CHOOSE n \in TokenLimits(u) : \A k \in TokenLimits(u) : n <= k

-----------------------------------------------------------------------------
(* The quota engine.                                                       *)

HardLimit(b) == b.limit_value * b.hard_limit_percent

ScopeRank(b) == CASE b.scope_type = "user" -> 0
                  [] b.scope_type = "team" -> 1
                  [] b.scope_type = "global" -> 2

\* Mutant: the lowest budget, whatever share of it is the hard limit.
ComesBeforeByBudget(b, c) ==
  \/ b.limit_value < c.limit_value
  \/ b.limit_value = c.limit_value /\ b.id <= c.id

\* The order of the tuples that select the effective policy.
ComesBefore(b, c) ==
  \/ HardLimit(b) < HardLimit(c)
  \/ /\ HardLimit(b) = HardLimit(c)
     /\ \/ b.limit_value < c.limit_value
        \/ /\ b.limit_value = c.limit_value
           /\ \/ b.hard_limit_percent < c.hard_limit_percent
              \/ /\ b.hard_limit_percent = c.hard_limit_percent
                 /\ \/ ScopeRank(b) < ScopeRank(c)
                    \/ ScopeRank(b) = ScopeRank(c) /\ b.id <= c.id

EffectivePolicy == CHOOSE b \in budgets : \A c \in budgets : ComesBefore(b, c)

\* What evaluate is asked: the usage so far, the usage requested (None when
\* the caller gives none) and the cost of the price snapshot (None without).
Questions == [current : Amounts, requested : Amounts \cup {None}, cost : Amounts \cup {None}]

\* Mutant: a cost that is known is preferred to the usage the caller gives.
RequestedUsageByCost(q) ==
  IF budgets # {} /\ EffectivePolicy.metric_type = "cost_usd" /\ q.cost # None THEN q.cost
  ELSE IF q.requested # None THEN q.requested
  ELSE 0

RequestedUsage(q) ==
  IF q.requested # None THEN q.requested
  ELSE IF budgets = {} THEN 0
  ELSE IF EffectivePolicy.metric_type = "cost_usd" /\ q.cost # None THEN q.cost
  ELSE 0

ProjectedUsage(q) == 100 * (q.current + RequestedUsage(q))

HardLimitReached(q) == budgets # {} /\ ProjectedUsage(q) >= HardLimit(EffectivePolicy)

QuotaAllows(q) == ~HardLimitReached(q)

-----------------------------------------------------------------------------
(* What administrators do.                                                 *)

\* Mutant: the thresholds are checked one by one, not against each other.
ThresholdsBelow100(b) == b.soft_limit_percent <= 100 /\ b.hard_limit_percent <= 100

\* validate_percent_thresholds, and the CHECK of the table for rows that come
\* from elsewhere.
ThresholdsValid(b) ==
  /\ b.soft_limit_percent <= b.hard_limit_percent
  /\ b.hard_limit_percent <= 100

\* create_user_policy: refused for an inactive user.
CreateUserBudget(b) ==
  /\ b.scope_type = "user"
  /\ ThresholdsValid(b)
  /\ user.is_active
  /\ budgets' = budgets \cup {b}
  /\ UNCHANGED <<user, policies>>

\* A row of a team or of everybody, for which there is no endpoint.
InsertBudget(b) ==
  /\ b.scope_type # "user"
  /\ ThresholdsValid(b)
  /\ budgets' = budgets \cup {b}
  /\ UNCHANGED <<user, policies>>

DeactivateBudget(b) ==
  /\ b \in budgets
  /\ budgets' = budgets \ {b}
  /\ UNCHANGED <<user, policies>>

\* The policies table has no endpoint.
ActivatePolicy(p) ==
  /\ p \notin policies
  /\ policies' = policies \cup {p}
  /\ UNCHANGED <<user, budgets>>

DeactivatePolicy(p) ==
  /\ p \in policies
  /\ policies' = policies \ {p}
  /\ UNCHANGED <<user, budgets>>

\* UserProvisioningService.provision writes the whole row.
ProvisionUser(u) ==
  /\ user' = u
  /\ UNCHANGED <<policies, budgets>>

Next ==
  \/ \E b \in Budgets : CreateUserBudget(b) \/ InsertBudget(b) \/ DeactivateBudget(b)
  \/ \E p \in Rules : ActivatePolicy(p) \/ DeactivatePolicy(p)
  \/ \E u \in UserRecords : ProvisionUser(u)

Spec == Init /\ [][Next]_vars

-----------------------------------------------------------------------------
(* Properties.                                                             *)

\* Every variable keeps its type.
TypeOK ==
  /\ user \in UserRecords
  /\ policies \subseteq Rules
  /\ budgets \subseteq Budgets

Activated(p) == p \in policies' \ policies
Deactivated(p) == p \in policies \ policies'

\* A deny rule that comes into force for a user closes the models it matches
\* and opens none, whatever allow rules of whatever scope are in force.
DenyRulesClose ==
  [][\A p \in Rules : Activated(p) /\ InScope(p, user) /\ p.rule_type = "deny_model"
       => OpenTo(user)' \subseteq OpenTo(user) \ p.models]_vars

\* An allow rule that comes into force opens no other model than those it
\* matches: beside a rule that keeps the list closed it cannot open the rest.
AllowRulesOpenTheirOwn ==
  [][\A p \in Rules : Activated(p) /\ p.rule_type = "allow_model"
       => OpenTo(user)' \subseteq OpenTo(user) \cup p.models]_vars

\* Taking an allow rule back opens nothing while another access rule for the
\* user stays in force.  (Without one every model is open: an administrator
\* who takes back the only rule opens them all.)
RevokingOpensNothing ==
  [][\A p, r \in Rules :
       /\ Deactivated(p) /\ p.rule_type = "allow_model"
       /\ r \in policies' /\ InScope(r, user) /\ r.rule_type # "max_output_tokens"
       => OpenTo(user)' \subseteq OpenTo(user)]_vars

\* A limit on the output that comes into force only lowers the effective one.
LimitsOnlyTighten ==
  [][\A p \in Rules :
       Activated(p) /\ InScope(p, user) /\ p.rule_type = "max_output_tokens"
         => /\ EffectiveMaxOutputTokens(user)' <= p.tokens
            /\ EffectiveMaxOutputTokens(user) # None =>
                 EffectiveMaxOutputTokens(user)' <= EffectiveMaxOutputTokens(user)]_vars

\* A request is admitted exactly when it stays below the hard limit of every
\* active budget, although a single one is selected to judge it.
AllBudgetsRespected ==
  \A q \in Questions :
    QuotaAllows(q) <=> \A b \in budgets : ProjectedUsage(q) < HardLimit(b)

\* A budget that comes into force lets nothing pass that was refused, but for
\* one case: only the cost of the request is known, and the budget selected
\* from now on counts tokens where the one before counted dollars, so that the
\* request is projected at nothing (quota_engine.py:114-126, 165-178).
BudgetsOnlyTighten ==
  [][budgets # budgets' /\ budgets \subseteq budgets' =>
       \A q \in Questions : ~QuotaAllows(q) /\ QuotaAllows(q)' =>
         /\ q.requested = None /\ q.cost # None
         /\ EffectivePolicy.metric_type = "cost_usd"
         /\ EffectivePolicy'.metric_type = "tokens"]_vars

\* What an administrator can bring about, whichever endpoint a row came by.
IInv ==
  /\ TypeOK
  /\ \A b \in budgets : b.soft_limit_percent <= b.hard_limit_percent

=============================================================================
