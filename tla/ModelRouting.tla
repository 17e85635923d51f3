---------------------------- MODULE ModelRouting ----------------------------
(***************************************************************************)
(* From the model a client names to the Bedrock model it is sent to, while *)
(* operators change the mapping: the resolver (proxy/model_resolver.py),   *)
(* the price lookup of the quota engine, and the two administration calls  *)
(* (api/admin_model_mappings.py), which save a row and then have the task  *)
(* that serves them reload its copy of that row's table: a route's call    *)
(* notifies the resolver, a price's call the price lookup.  The calls run  *)
(* in the thread pool of a task, beside its requests and each other.       *)
(*                                                                         *)
(* The notifiers are a Protocol without an implementation.  Theirs is the  *)
(* one assumption: a reload reads the table and then installs what it has  *)
(* read, and of one table a task has one reload at a time.                 *)
(***************************************************************************)
EXTENDS Integers, FiniteSets

CONSTANTS
  Tasks,        \* proxy tasks
  Calls,        \* slots of administration calls
  Requests,     \* slots of requests
  Models,       \* what a client may name
  AliasRules,   \* alias rules: models matched, logical_model, priority
  Routes,       \* ids of model_routes rows
  Prices,       \* ids of model_pricing_catalog rows
  RouteValues,  \* contents a route row may have
  ModelIds,     \* Bedrock model ids and inference profile ids
  NoId,         \* a None among those; also NULL where no row was read
  SeedValues,   \* what the rows hold at first
  MaxWrites     \* bound: saves that succeed and edits of the alias rules

Rows == Routes \cup Prices

\* A price row matters here by the model it is for.
ValuesOf(r) == IF r \in Routes THEN RouteValues ELSE ModelIds

\* Rows that UNIQUE (logical_model, provider, priority) tells apart.
Clash(v, w) == v.logical = w.logical /\ v.provider = w.provider /\ v.priority = w.priority

ASSUME RoutingAssumption ==
  /\ MaxWrites \in Nat
  /\ NoId \notin ModelIds \cup Rows
  /\ Routes \cap Prices = {}
  /\ \A a \in AliasRules : a.priority \in Int
  /\ \A v \in RouteValues :
       v.priority \in Int /\ v.model \in ModelIds \cup {NoId} /\ v.profile \in ModelIds \cup {NoId}
  /\ DOMAIN SeedValues = Rows /\ \A r \in Rows : SeedValues[r] \in ValuesOf(r)
  /\ \A r, s \in Routes : r # s => ~Clash(SeedValues[r], SeedValues[s])

VARIABLES
  aliases,    \* the alias rules that are active, in PostgreSQL
  rows,       \* the route and price rows, in PostgreSQL, and how often each was written
  writes,     \* bound: saves and edits so far
  loaded,     \* each task's copy of both, which its repositories answer from
  call,       \* each administration call: pc, task, row and the table read
  saved,      \* the version each call wrote
  request,    \* each request: pc, task, model, logical model, route and price read
  acked,      \* history: the last version of a row each task answered 200 for
  known       \* history: acked at its task when a request arrived

tables == <<aliases, rows, writes>>
calls == <<call, saved, acked>>
requests == <<request, known>>
vars == <<tables, loaded, calls, requests>>

Idle == [pc |-> "idle"]
NoneKnown == [r \in Rows |-> 0]

Init ==
  /\ aliases \in SUBSET AliasRules
  /\ rows = [r \in Rows |-> [version |-> 0, value |-> SeedValues[r]]]
  /\ writes = 0
  /\ loaded = [t \in Tasks |-> [aliases |-> aliases, rows |-> rows]]
  /\ call = [c \in Calls |-> Idle]
  /\ saved = [c \in Calls |-> 0]
  /\ request = [q \in Requests |-> Idle]
  /\ acked = [t \in Tasks |-> NoneKnown]
  /\ known = [q \in Requests |-> NoneKnown]

-----------------------------------------------------------------------------
(* PUT /admin/model-routes/{id} and PUT /admin/pricing-catalog/{id}.       *)

Leave(c) == call' = [call EXCEPT ![c] = Idle] /\ saved' = [saved EXCEPT ![c] = 0]

\* The upsert is refused when it collides with another row, active or not.
Accepted(r, v) == r \in Routes => \A s \in Routes \ {r} : ~Clash(v, rows[s].value)

\* An operator's call, past require_admin_write, with its whole new row:
\* upsert_model_route or upsert_pricing, where the last writer's row stays.
\* (A call that fails before or in the upsert changes nothing.)
Save(c, t, r, v) ==
  /\ call[c] = Idle
  /\ Accepted(r, v)
  /\ writes < MaxWrites
  /\ writes' = writes + 1
  /\ rows' = [rows EXCEPT ![r] = [version |-> rows[r].version + 1, value |-> v]]
  /\ saved' = [saved EXCEPT ![c] = rows[r].version + 1]
  /\ call' = [call EXCEPT ![c] = [pc |-> "reload", task |-> t, row |-> r]]
  /\ UNCHANGED <<aliases, loaded, acked, requests>>

\* Mutant: each call notifies the other's reader.
OtherTable(r) == IF r \in Routes THEN Prices ELSE Routes

\* What is reloaded after a save of r: resolver_reload_notifier is for the
\* routes, pricing_reload_notifier for the prices.
TableOf(r) == IF r \in Routes THEN Routes ELSE Prices

\* Every row is the copy's where the copy has the table, and as it was elsewhere.
Installed(copy, old) == [r \in Rows |-> IF r \in DOMAIN copy THEN copy[r] ELSE old[r]]

\* Mutant: reloads of one table overlap.
BeginReloadBesideOthers(c) ==
  /\ call[c].pc = "reload"
  /\ call' = [call EXCEPT ![c] =
       [pc |-> "install", task |-> @.task, row |-> @.row,
        copy |-> [r \in TableOf(@.row) |-> rows[r]]]]
  /\ UNCHANGED <<tables, loaded, saved, acked, requests>>

\* The notifier reads the table of the row.  (It is external, and so is the
\* lock that keeps another reload of this table by this task out meanwhile.)
BeginReload(c) ==
  /\ call[c].pc = "reload"
  /\ \A d \in Calls :
       call[d].pc = "install" /\ call[d].task = call[c].task
         => TableOf(call[d].row) # TableOf(call[c].row)
  /\ call' = [call EXCEPT ![c] =
       [pc |-> "install", task |-> @.task, row |-> @.row,
        copy |-> [r \in TableOf(@.row) |-> rows[r]]]]
  /\ UNCHANGED <<tables, loaded, saved, acked, requests>>

\* It installs what it has read, and the call answers 200 with the record.
InstallAndAnswer(c) ==
  /\ call[c].pc = "install"
  /\ LET t == call[c].task
         r == call[c].row
     IN  /\ loaded' = [loaded EXCEPT ![t].rows = Installed(call[c].copy, @)]
         /\ acked' = [acked EXCEPT ![t][r] = IF @ < saved[c] THEN saved[c] ELSE @]
  /\ Leave(c)
  /\ UNCHANGED <<tables, requests>>

\* The notifier raises, or the task dies: a 500 or nothing, and the row that was
\* written stays written; what was read is not installed.
UpdateFails(c) ==
  /\ call[c] # Idle
  /\ Leave(c)
  /\ UNCHANGED <<tables, loaded, acked, requests>>

-----------------------------------------------------------------------------
(* What no code of the repository does: an alias rule is changed by hand   *)
(* (no endpoint does), and a task starts or reloads of its own accord, one *)
(* table after the other.  The alias rules are reloaded in no other way    *)
(* here, whether or not the resolver's notifier does so.                   *)

EditAliases(s) ==
  /\ writes < MaxWrites
  /\ writes' = writes + 1
  /\ aliases' = s
  /\ UNCHANGED <<rows, loaded, calls, requests>>

Refresh(t) ==
  /\ \/ loaded' = [loaded EXCEPT ![t].aliases = aliases]
     \/ \E table \in {Routes, Prices} :
          loaded' = [loaded EXCEPT ![t].rows = Installed([r \in table |-> rows[r]], @)]
  /\ UNCHANGED <<tables, calls, requests>>

-----------------------------------------------------------------------------
(* A request, once authenticated.                                          *)

Arrive(q, t, m) ==
  /\ request[q] = Idle
  /\ request' = [request EXCEPT ![q] = [pc |-> "alias", task |-> t, model |-> m]]
  /\ known' = [known EXCEPT ![q] = acked[t]]
  /\ UNCHANGED <<tables, loaded, calls>>

\* _select_highest_priority; of several, the order of the listing decides.
Highest(records) == {x \in records : \A y \in records : y.priority <= x.priority}

\* _find_alias_rule
MatchingRules(q) == {a \in loaded[request[q].task].aliases : request[q].model \in a.matches}

ReadAlias(q) ==
  /\ request[q].pc = "alias"
  /\ \E a \in Highest(MatchingRules(q)) :
       request' = [request EXCEPT ![q] =
         [pc |-> "route", task |-> @.task, model |-> @.model, logical |-> a.logical]]
  /\ UNCHANGED <<tables, loaded, calls, known>>

\* _find_route
MatchingRoutes(q) ==
  {r \in Routes :
     LET v == loaded[request[q].task].rows[r].value
     IN  v.active /\ v.logical = request[q].logical}

\* Mutant: min instead of max.
LowestRoutes(q) ==
  LET value(r) == loaded[request[q].task].rows[r].value
  IN  {r \in MatchingRoutes(q) :
         \A s \in MatchingRoutes(q) : value(r).priority <= value(s).priority}

PreferredRoutes(q) ==
  LET value(r) == loaded[request[q].task].rows[r].value
  IN  {r \in MatchingRoutes(q) :
         \A s \in MatchingRoutes(q) : value(s).priority <= value(r).priority}

\* A preferred route other than converse refuses the request: a supported one
\* of lower priority is not looked for.
ReadRoute(q) ==
  /\ request[q].pc = "route"
  /\ \E r \in PreferredRoutes(q) :
       LET row == loaded[request[q].task].rows[r]
       IN  /\ row.value.api = "converse"
           /\ request' = [request EXCEPT ![q] =
                [pc |-> "price", task |-> @.task, model |-> @.model, logical |-> @.logical,
                 route |-> r, version |-> row.version, value |-> row.value]]
  /\ UNCHANGED <<tables, loaded, calls, known>>

\* _get_active_pricing: no lookup without a bedrock_model_id, and no price is
\* no reason to refuse.
PricesFor(q) ==
  {p \in Prices : request[q].value.model # NoId
                    /\ loaded[request[q].task].rows[p].value = request[q].value.model}

\* target_model_id: bedrock_model_id or inference_profile_id or "".
TargetOf(v) == IF v.model # NoId THEN v.model ELSE v.profile

\* The request goes to Bedrock, priced by the row that was read.
CallBedrock(q, price, version) ==
  /\ request' = [request EXCEPT ![q] =
       [pc |-> "called", task |-> @.task, model |-> @.model, logical |-> @.logical,
        route |-> @.route, version |-> @.version, value |-> @.value,
        target |-> TargetOf(@.value), price |-> price, priceVersion |-> version]]
  /\ UNCHANGED <<tables, loaded, calls, known>>

ReadPrice(q) ==
  /\ request[q].pc = "price"
  /\ \/ \E p \in PricesFor(q) : CallBedrock(q, p, loaded[request[q].task].rows[p].version)
     \/ PricesFor(q) = {} /\ CallBedrock(q, NoId, 0)

\* Answered, or refused (unknown_model, unsupported_model_route, policy, quota,
\* rate) or failed on the way.
Finish(q) ==
  /\ request[q] # Idle
  /\ request' = [request EXCEPT ![q] = Idle]
  /\ known' = [known EXCEPT ![q] = NoneKnown]
  /\ UNCHANGED <<tables, loaded, calls>>

-----------------------------------------------------------------------------

CallStep(c) ==
  \/ \E t \in Tasks, r \in Rows : \E v \in ValuesOf(r) : Save(c, t, r, v)
  \/ BeginReload(c) \/ InstallAndAnswer(c) \/ UpdateFails(c)

RequestStep(q) == ReadAlias(q) \/ ReadRoute(q) \/ ReadPrice(q) \/ Finish(q)

Next ==
  \/ \E c \in Calls : CallStep(c)
  \/ \E q \in Requests : RequestStep(q) \/ \E t \in Tasks, m \in Models : Arrive(q, t, m)
  \/ \E s \in SUBSET AliasRules : EditAliases(s)
  \/ \E t \in Tasks : Refresh(t)

Spec == Init /\ [][Next]_vars

-----------------------------------------------------------------------------
(* Properties.                                                             *)

\* The last write of r was answered 200 by the task of q before q arrived.
Settled(q, r) == rows[r].version = known[q][r]

\* A request that comes after a task has answered an update with 200 is not
\* served by that task from a row of before the update (admin_model_mappings.py
\* :88-89 and :110-111): neither the route nor the price, whatever other calls,
\* reloads and hand edits go on meanwhile, and although the copies of the two
\* tables are of different ages.  Nor is a price it could have had missed.
AcknowledgedIsServed ==
  \A q \in Requests : request[q].pc = "called" =>
    /\ request[q].version >= known[q][request[q].route]
    /\ request[q].price # NoId => request[q].priceVersion >= known[q][request[q].price]
    /\ request[q].price = NoId =>
         \A p \in Prices : Settled(q, p) => rows[p].value # request[q].value.model

\* As long as nobody writes to it again, an acknowledged route that is active
\* and serves the logical model is not passed over for one of lower priority,
\* and one that was switched off, moved to another logical model or off the
\* converse API is not used (model_resolver.py:77, 106).
PreferredIsServed ==
  \A q \in Requests : request[q].pc = "called" =>
    /\ Settled(q, request[q].route) =>
         LET v == rows[request[q].route].value
         IN  v.active /\ v.api = "converse" /\ v.logical = request[q].logical
               /\ request[q].target = TargetOf(v)
    /\ \A r \in Routes :
         LET v == rows[r].value
         IN  Settled(q, r) /\ v.active /\ v.logical = request[q].logical
               => v.priority <= request[q].value.priority

-----------------------------------------------------------------------------
(* Why they hold: the invariant that is inductive.                         *)

Row == [version : Nat, value : RouteValues \cup ModelIds]
Copy == [aliases : SUBSET AliasRules, rows : [Rows -> Row]]
Reloads == [pc : {"reload"}, task : Tasks, row : Rows]
Installs == [pc : {"install"}, task : Tasks, row : Rows,
             copy : [Routes -> Row] \cup [Prices -> Row]]

\* Every variable keeps its type.
TypeOK ==
  /\ aliases \subseteq AliasRules
  /\ rows \in [Rows -> Row]
  /\ \A r \in Rows : rows[r].value \in ValuesOf(r)
  /\ writes \in Nat
  /\ loaded \in [Tasks -> Copy]
  /\ call \in [Calls -> {Idle} \cup Reloads \cup Installs]
  /\ saved \in [Calls -> Nat]
  /\ acked \in [Tasks -> [Rows -> Nat]]
  /\ known \in [Requests -> [Rows -> Nat]]
  /\ DOMAIN request = Requests
  /\ \A q \in Requests :
       /\ request[q].pc \in {"idle", "alias", "route", "price", "called"}
       /\ request[q].pc = "idle" => request[q] = Idle
       /\ request[q].pc # "idle" => request[q].task \in Tasks

\* A copy of a row is the row, or was written before it.
Older(x, y) == x.version <= y.version /\ (x.version = y.version => x = y)

\* A copy about to be installed falls behind neither what the task has answered
\* for nor the save it is for.
CopiesInOrder ==
  \A c \in Calls : call[c].pc = "install" =>
    LET copy == call[c].copy
    IN  /\ DOMAIN copy = TableOf(call[c].row)
        /\ saved[c] <= copy[call[c].row].version
        /\ \A r \in DOMAIN copy :
             acked[call[c].task][r] <= copy[r].version /\ Older(copy[r], rows[r])

\* No other reload of the table gets between.
OneReload ==
  \A c, d \in Calls :
    call[c].pc = "install" /\ call[d].pc = "install" /\ call[c].task = call[d].task
    /\ TableOf(call[c].row) = TableOf(call[d].row) => c = d

\* What a task has answered for it has loaded, what it has loaded was written,
\* and a request starts from what its task has answered for.
Ordered ==
  /\ \A t \in Tasks, r \in Rows :
       acked[t][r] <= loaded[t].rows[r].version /\ Older(loaded[t].rows[r], rows[r])
  /\ \A c \in Calls : call[c] # Idle => saved[c] <= rows[call[c].row].version
  /\ CopiesInOrder /\ OneReload
  /\ \A q \in Requests : request[q] # Idle =>
       \A r \in Rows : known[q][r] <= acked[request[q].task][r]

RowRead(q) == [version |-> request[q].version, value |-> request[q].value]

\* The route a request has read, against the rows as they are by now.
RouteRead(q) ==
  /\ request[q].route \in Routes
  /\ request[q].version \in Nat
  /\ request[q].version >= known[q][request[q].route]
  /\ Older(RowRead(q), rows[request[q].route])
  /\ LET v == request[q].value
     IN  v.active /\ v.api = "converse" /\ v.logical = request[q].logical
  /\ \A r \in Routes :
       LET v == rows[r].value
       IN  Settled(q, r) /\ v.active /\ v.logical = request[q].logical
             => v.priority <= request[q].value.priority

PriceRead(q) ==
  /\ request[q].target = TargetOf(request[q].value)
  /\ request[q].price # NoId =>
       request[q].price \in Prices /\ request[q].priceVersion >= known[q][request[q].price]
  /\ request[q].price = NoId =>
       \A p \in Prices : Settled(q, p) => rows[p].value # request[q].value.model

ReadsKept ==
  \A q \in Requests :
    /\ request[q].pc \in {"price", "called"} => RouteRead(q)
    /\ request[q].pc = "called" => PriceRead(q)

IInv == TypeOK /\ Ordered /\ ReadsKept
=============================================================================
