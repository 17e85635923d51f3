-------------------------- MODULE MCAccessDecisions --------------------------
(***************************************************************************)
(* AccessDecisions on a small catalogue of records: allow, deny and limit  *)
(* rules of all the scopes, and budgets whose hard limits and amounts      *)
(* order them differently.                                                 *)
(***************************************************************************)
EXTENDS AccessDecisions

CatalogueModels == {"opus", "haiku"}
CatalogueUser == "u1"
CatalogueGroups == {"eng"}
CatalogueDepartments == {"lab"}

Rule(scope, id, type, models, tokens) ==
  [scope_type |-> scope, scope_id |-> id, rule_type |-> type,
   models |-> models, tokens |-> tokens]

CatalogueRules ==
  { Rule("user", "u1", "allow_model", {"opus"}, 0),
    Rule("user", "u1", "max_output_tokens", {}, 8),
    Rule("group", "eng", "deny_model", {"opus"}, 0),
    Rule("department", "lab", "deny_model", {"haiku"}, 0),
    Rule("global", "default", "allow_model", {"haiku"}, 0),
    Rule("global", "default", "max_output_tokens", {}, 2) }

Budget(id, scope, metric, limit, soft, hard) ==
  [id |-> id, scope_type |-> scope, metric_type |-> metric, limit_value |-> limit,
   soft_limit_percent |-> soft, hard_limit_percent |-> hard]

CatalogueBudgets ==
  { Budget(1, "user", "tokens", 2, 80, 100),
    Budget(2, "team", "cost_usd", 4, 50, 50),
    Budget(3, "global", "cost_usd", 3, 0, 30),
    Budget(4, "user", "cost_usd", 2, 100, 50) }

CatalogueAmounts == 0 .. 3
=============================================================================
