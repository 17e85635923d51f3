\* Two models, one group, one department, and every set of the catalogue.
SPECIFICATION Spec
CONSTANTS
  Models <- CatalogueModels
  UserId <- CatalogueUser
  Groups <- CatalogueGroups
  Departments <- CatalogueDepartments
  NoDepartment = NoDepartment
  Rules <- CatalogueRules
  Budgets <- CatalogueBudgets
  Amounts <- CatalogueAmounts
INVARIANTS AllBudgetsRespected IInv
PROPERTIES DenyRulesClose AllowRulesOpenTheirOwn RevokingOpensNothing LimitsOnlyTighten BudgetsOnlyTighten
