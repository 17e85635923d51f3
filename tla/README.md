# A TLA+ model of claude-code-proxy

claude-code-proxy lets the users of Claude Code reach Anthropic models on
Amazon Bedrock. A user's client runs a helper script that gets a *virtual key*
from a *Token Service* (a Lambda in front of DynamoDB and PostgreSQL); with that
key it calls the *proxy* (a FastAPI application in several ECS tasks), which
authenticates it, applies policies, quotas and rate limits, translates the
request for Bedrock's Converse API, translates the answer back, streamed or
not, and records what was used. Administrators revoke, disable and rotate keys,
block users and set budgets while all of this goes on.

This directory holds TLA+ modules for those parts, TLC configurations that check
them on small instances, and TLAPS proofs of the properties that matter most.
Paths below are relative to `src/`.

## 1. Inventory

### Components, their state and their operations

| Component | Where | State it keeps | Operations |
|---|---|---|---|
| Token Service | `token_service/` | none between invocations; within one: the user, the clock it read first, the key it holds | get or create a key |
| Virtual key ledger and cache | `repositories/virtual_key_repository.py` | `virtual_keys` rows (PostgreSQL); one item per user with a ttl (DynamoDB) | list, insert, overwrite; get, put, delete, expire |
| Virtual key administration | `api/admin_virtual_keys.py`, `api/internal_ops.py` | none of its own | revoke, disable, rotate, invalidate a user's item |
| User provisioning | `api/admin_users.py` | `users` rows | upsert |
| apiKeyHelper | `scripts/api_key_helper.sh` | a local file with a key and its expiry | print a cached key, or fetch, store and print one |
| Proxy pipeline | `api/proxy_router.py`, `proxy/auth.py`, `api/errors.py` | a request on its way | create message (streamed or not), count tokens |
| Rate limiter | `proxy/rate_limiter.py` | timestamps per user, per process | check |
| Policy engine | `proxy/policy_engine.py` | none; `policies` rows are handed to it | evaluate |
| Quota engine | `proxy/quota_engine.py` | none; `budget_policies` rows and a price are handed to it | evaluate |
| Budget administration | `api/admin_budget_policies.py` | `budget_policies` rows | create a user budget |
| Model resolver | `proxy/model_resolver.py` | a task's copy of alias rules, routes and prices | resolve |
| Model mapping administration | `api/admin_model_mappings.py` | `model_routes` and `model_pricing_catalog` rows | upsert and reload |
| Request builder, response parser | `proxy/bedrock_converse/` | none; the client's transcript goes through both | build, parse |
| Stream decoder | `proxy/bedrock_converse/stream_decoder.py` | pending stop reason, usage, block types, thinking blocks | turn events into frames |
| Audit logger | `proxy/audit_logger.py` | `usage_events` and `audit_events` rows | record a success, record a denial |

### How they interact

* The helper calls the Token Service over HTTP with a timeout; an invocation
  whose caller has given up runs on.
* Invocations of the Token Service and administrative calls share the
  `virtual_keys` rows and the DynamoDB items. Nothing orders them: no lock, no
  transaction over two statements, no conditional write, no unique constraint on
  ACTIVE keys (`infra/postgres/schema.py`).
* The proxy reads keys and users from PostgreSQL on every request, and never
  sees the DynamoDB cache.
* The handlers of the proxy are coroutines that make blocking calls, so a task
  runs one handler at a time; the generator of a stream is driven by threads of
  the web server afterwards, beside the event loop.
* Administration calls of the model mapping run in the thread pool of a task, save
  a row and have that task reload its copy of that table, with one notifier for the
  routes and one for the prices; other tasks go on with the copy they have.
* What a client was answered comes back in its next request: the request builder
  must make sense of what the parser or the decoder has made of Bedrock's blocks.

### What is hard

* **Late writes.** An invocation reads that a key is ACTIVE, an administrator
  ends the key and deletes the item, and the invocation then puts the item back.
* **Stale reads on three levels.** A cache hit does not look at the user; the
  helper's file does not ask anybody; and both ttls add up.
* **Overlapping invocations**, that both find no key and both issue one.
* **Failure between two writes**: save and invalidate, disable and replace, usage
  row and audit row.
* **Streams** that break, or whose client leaves, at any frame, with stop reason
  and usage in either order, and with the books written after the last frame.
* **Windows of the rate limiter** that begin by the calendar, and a Retry-After
  that is cut to whole seconds.
* **Rules that come and go** in four scopes, and one budget that is chosen to
  judge for all.
* **Copies of the model mapping** that each task reloads for itself, under requests
  that read alias, route and price one after the other.
* **Conversations**: the reasoning of an earlier turn must come back unchanged or
  not at all, turns later, from a client that may have dropped it.

`PROJECT.json` lists every hazard at its line, with the properties that cover it
or the reason why none does.

### What makes each component correct

* *Keys:* a key that has ended never works again; it leaves the caches within the
  ttl that is configured for them; it is only ever handed to its owner.
* *Proxy:* whoever is barred from before the request until its checks does not get
  a message; answers, usage rows and audit rows agree; every request is answered.
* *Rate limiter:* no more than the limit in a window; nobody is refused without
  cause or for ever.
* *Decoder:* the client always has the beginning of a well-formed stream; the
  usage told and the usage recorded are the usage reported.
* *Engines:* deny rules win, no rule opens what it does not name, and the budget
  that is chosen stands for every budget.
* *Resolver:* once an update was answered, the task that answered serves nothing
  older, and no route that is off or less preferred than the rows say.
* *Builder and parser:* Bedrock is shown its own answer, in its order, and its own
  reasoning or none.

## 2. Modules

| Module | Models | Kind |
|---|---|---|
| `VirtualKeys` | Token Service, ledger, DynamoDB cache, key and user administration | state machine |
| `KeyLeases` | what the cache of the Token Service promises | abstract specification |
| `KeyDelivery` | the helper and its file, in front of `VirtualKeys` | composition |
| `KeyInvalidation` | `VirtualKeys` with history for forced invalidation | composition |
| `RateLimiter` | the limiter of several tasks, and sessions that obey Retry-After | state machine |
| `StreamDecoder` | one streaming answer with Bedrock, the web server and the books | state machine with fairness |
| `ProxyRequests` | requests from the load balancer to their rows | state machine with fairness |
| `RequestTrail` | what the proxy promises about the answer and the rows of a request | abstract specification |
| `ModelRouting` | model resolver, price lookup and the administration of both, on several tasks | state machine |
| `AccessDecisions` | policy engine and quota engine over changing rows | pure functions over a state machine |
| `Conversation` | request builder, response parser and streamed blocks over several turns | pure functions over a state machine |

`MC*` modules hold what a configuration cannot say (symmetry sets, catalogues of
records). Eight modules hold proofs: `VirtualKeysProofs`, `KeyDeliveryProofs`,
`RateLimiterProofs`, `StreamDecoderProofs`, `ProxyRequestsProofs`,
`AccessDecisionsProofs`, `ModelRoutingProofs` and `ConversationProofs`. Operators marked *Mutant* in a comment are plausible
mistakes in the definition that follows them; no specification uses them. They
show that the property each was written for would notice.

### VirtualKeys

A key is a row: `status`, `owner`, `createdAt`. `item[u]` is the DynamoDB item of
`u`. An invocation of the Lambda has a program counter `pc` and its locals
`caller`, `issueNow` (the `now` read once at the start of `get_or_create_key`) and
`held`; an administrative call has `opc`, `op` and `target`. One action is one
round trip: `CacheHit` / `CacheMiss` (the DynamoDB read), `GateAdmits` /
`GateRefuses` (the user row), `ReadExistingKey` / `ReadNoKey` (the ledger),
`IssueKey` (the INSERT), `FillItem` (the put), `Respond`; `SaveEnded`,
`Invalidate`, `SaveReplacement`. `InvocationFails` and `OperatorFails` stop either
of them between any two. `ExpireItem` is DynamoDB, `Tick` the clock.
`endedAt` and `blockedAt` are history and no guard reads them.

The repository holds no implementation of the store that the administrative calls
use, only its Protocol; `save_key` is modelled as the upsert of a whole record
that the Protocol's users and the fake of the tests take it for. The proxy's
authentication cache that an invalidation also names has no state in the
repository.

`KeyLeases` says the same without processes: for each user a lease on one of the
user's keys, whose end is never more than `Term` after the last instant at which
the key was alive. `VirtualKeys!ImplementsLeases` maps items to leases and
statuses to lives.

### KeyDelivery and KeyInvalidation

`KeyDelivery` adds the helper: `file[u]`, and a helper run per invocation slot with
the clock it read at its start. `HelperCalls` is `Invoke` and `HelperStores` is
`Respond`; every other server step is taken as it is. `HelperGivesUp` leaves the
invocation running. `HelperSlots` are the invocations that a helper on the modelled
machine waits for; the others are called by the user's other machines
(`OtherMachineCalls`), with no file of ours behind them. Its steps are steps of `VirtualKeys` or leave its variables
alone, so that everything proved there holds here.

`KeyInvalidation` adds which users are owed a read of PostgreSQL since an operator
invalidated their item.

### RateLimiter

`windows[t][u]` is the list of timestamps that process `t` keeps. A timestamp is a
record with a number, so that the set of them counts what the list counts.
`Admit` and `Refuse` are the two ends of `check()`, both with the pruning that
`check()` does first. The clock is finer than a second (`Second` ticks), because
Retry-After is cut to seconds. `log` is history: what the process has admitted
since it started.

### StreamDecoder

`Receive` lets Bedrock send one event and the generator handle it up to its next
`yield`; `Send` are the two frames of `_flush_pending_stop`. `Disconnect` closes the
generator where it is suspended, or drops one that was never begun and has no
`finally` to run. `Record` is `record_success` with its two writes, each of which may
fail. Bedrock sends content blocks one after the other, and stop reason and
metadata in either order, or the second not at all; it may break off anywhere, with an
exception or without one (`StreamEnds`). That a block is started before text or tool
deltas of it come, and stopped once, is an assumption about Bedrock: the decoder passes
such frames on as they come (`stream_decoder.py:79-104`), so that `Framing` rests on it. A
reasoning delta for a block that was not started as a thinking block
(`StrayReasoning`) raises in the generator.

### ProxyRequests

One request per element of `Requests`, with its handler's position `pc`. Several
tasks, one handler at a time in each (`Busy`), while streams are driven beside it.
Every call may fail; a task may crash with everything it serves. Keys end and users
are blocked between any two steps. What the limiter, the resolver, the builder and
Bedrock compute is a choice of success or failure, as other modules have the
detail. The router passes no model policies and no budget policies
(`api/proxy_router.py:46-92`), so that the policy step is about the user's own flags
and the quota step can only fail.

`RequestTrail` says the same without handlers, tasks or users: a request is told one
thing, once; its rows are written in order, each once, and not after it was told,
unless it was told that a stream is open; and what it is told is what its rows say.
`ProxyRequests!ImplementsTrail` maps the counts of the three kinds of rows to
`books`. Where `BooksAgree` compares answers and rows in one state, this compares
them over time.

### ModelRouting

`rows` are the route and price rows in PostgreSQL, each with a version that counts its
writes, `loaded[t]` is the copy of task `t` that its repositories answer from. A call
is `Save`, `BeginReload` and `InstallAndAnswer`, and may fail or die between any two of
them (`UpdateFails`). `TableOf` says which of the two notifiers a call has: that of a
route reloads the routes only, that of a price the prices only, so that a task may hold
fresh routes beside stale prices or the reverse.
A request is `ReadAlias`, `ReadRoute` and `ReadPrice`, three reads with anything in
between. `acked` is history: the last version of a row that a task answered 200 for;
`known` is `acked` at a request's arrival. What is taken from outside the
repository: a notifier (a Protocol without an implementation) reaches the task that
serves the call, reads the table and installs what it has read later; a task may
reload or restart at any time, one table after the other (`Refresh`); alias rules are
edited by hand (`EditAliases`), as no endpoint writes them. One assumption is made of
the notifiers: of one table a task has one reload under way at a time (the second guard
of `BeginReload`). Nothing in the repository serialises the calls, and without that lock
an older copy may be installed last (mutant `BeginReloadBesideOthers`). A row that is not there yet is a row that
is not active. The dates from which prices hold are left out: the repository is asked
for the active price of a model, and which row that is, is its own affair.
`count_tokens` resolves in the same way and asks for no price.

### AccessDecisions

What both engines would decide with rows to decide on. The state is the user row
and the sets of active rules and budgets; `DenialReason`,
`EffectiveMaxOutputTokens`, `EffectivePolicy`, `QuotaAllows` are `evaluate` of either
engine. A pattern is the set of models it matches. Percentages are exact, in
hundredths, where the code rounds to floats; the cost of a request is one amount.
Only budgets of users have an endpoint; the other rows come in as the tables
admit them. `soft_limit_reached`, which no code reads, is left out. `BudgetsOnlyTighten`
names the one case in which a further budget lets a refused request pass: the selected
budget turns from one of dollars to one of tokens, and only the cost of the request is
known (`quota_engine.py:114-126, 165-178`).

### Conversation

A block is its type and an identity. `Build` is `build_converse_request` or the 400
it raises, `Parse` is `parse_converse_response`, `Streamed` is what the frames of the
decoder announce. A client may keep an answer whole or only its content; one that
was streamed, as announced or with the thinking blocks apart. The identity of a
reasoning block is that of its text. A signature travels with it through
`response_parser.py:42` and `request_builder.py:262`; the stream decoder reads none, so
that what a client replays of a streamed answer is the reasoning without one. Any
`thinking` object counts as a request to think, whatever its `type` says
(`request_builder.py:358`). `OfType` is each loop that keeps the blocks of some types in
their order; it is a recursive function, so that it can be reasoned about. `spoken` is
history: the blocks of Bedrock's answers, by message. A request names a model of the
`Catalogue`, a set of capabilities. Four things it may ask for are lost without a word,
and `OptionsLostForCause` says when: thinking, a forced tool choice beside thinking, an
explicit `tool_choice` of type `none` (or of a type the builder does not know), which
becomes `auto` (`request_builder.py:331`), and `parallel_tool_calls: false` for a model that
cannot be told (`request_builder.py:341-345`). Left out: system blocks, inference settings, tool
specifications, images, documents, and the normalisation of schemas.

## 3. What is checked

| Run | Instance | Shows |
|---|---|---|
| `keys` | 1 user, 2 keys, 2 invocations (1 of a followed helper), 1 operator, any 2 of the 3 at work at once, clock 0..1, both ttls 1 | `EndedItemBounded`, `BlockedItemBounded`, `GrantRecent`, `NoResurrection`, `LockoutBounded`, `BlockedFileBounded`; the invariants `IInv`, `DeliveryInv`; `ImplementsLeases` |
| `key_double_issue` | 1 user, 2 keys, 2 invocations | **violation** of `IssueOnlyWithoutActive` |
| `key_invalidation` | 1 user, 1 key, 2 invocations | **violation** of `NextRequestRereads` |
| `rate_windows` | 1 task, 2 sessions, limit 2, minute of 3 seconds of 2 ticks, clock 0..8 | `MinuteBounded`, `SpanBounded`, `RefusedForCause`, `RefusedAtMostTwice` |
| `stream` | up to 2 blocks of 2 deltas, 2 stop reasons, 2 usages | `Framing`, `StopCarriesUsage`, `RecordedIsReported`, `ThoughtsIntact`, `StartedIsRecorded` |
| `proxy` | 2 requests, 1 user, 1 task | `BarredNeverCalls`, `BooksAgree`, `EveryRequestAnswered`, `ImplementsTrail` |
| `proxy_audit` | 1 request | **violation** of `EveryAnswerAudited` |
| `proxy_count` | 1 request | **violation** of `NoRouteSkipsPolicy` |
| `routing` | 2 tasks, 2 calls, 1 request, 2 routes of 5 values, 1 price, 1 alias rule, 2 writes | `AcknowledgedIsServed`, `PreferredIsServed`; the invariant `IInv` |
| `access` | 6 rules, 4 budgets, 2 models, every set of them | `DenyRulesClose`, `AllowRulesOpenTheirOwn`, `RevokingOpensNothing`, `LimitsOnlyTighten`, `AllBudgetsRespected`, `BudgetsOnlyTighten`; the invariant `IInv` |
| `conversation` | 5 shapes of answer, 4 models, 5 messages | `ReasoningReplayed`, `AnswersReplayed`, `OptionsLostForCause`, `RefusedForCause`; the invariant `IInv` |
| `conversation_streamed` | 5 shapes, 3 messages | **violation** of `NextTurnAccepted` |

Every property stands in its module with a comment that states it.

### Bounds, and why they are enough

* *keys.* Two invocations are what a late put needs (one that holds the key, one that
  is served from its put), one operator ends the key between them, and two keys let a
  rotation or a double issue happen. With ttl 1 and a clock that reaches 1, an item
  or a file can be stored before and served or expired after a tick. One followed
  helper still overlaps the others, because a helper that gave up leaves its
  invocation behind. `FewBusy` cuts off states in which both invocations and the
  operator are at work: each of the hazards is between two of them, a third only
  repeats one. A second followed helper, a second user or a longer clock is beyond
  TLC's reach together with the rest; the proofs remove all these bounds.
* *rate_windows.* The clock passes one end of a window by two ticks: a burst before
  and one after the end, and a session refused in the last second of a window and
  again before its end. One task is enough for the limiter; tasks share
  nothing. `Restart` loses a window in the middle and starts it anew.
* *stream.* Two blocks of up to two deltas have a thinking block before, after and
  beside another kind, so that the two indices of `_thinking_block_positions` differ.
* *proxy.* Two requests on one task contend for its event loop. Two tasks add no
  contention; the proofs hold for any number.
* *routing.* Two calls on two tasks save and reload in every order, on the row a
  request has read and on the other. Two writes and two reloads are what it takes to
  bring back an older row; a request reads before, between and after them. `MaxWrites` counts
the saves and the edits of the alias rules together. The values of a
  route are one of each kind: preferred, off, off the converse API, known by its
  inference profile only, and for another logical model than it was. One alias rule, in
  force or not, is what an edit by hand can change under a request; with none
  in force the model is unknown and the request refused.
* *access.* The catalogue has an allow and a deny rule in conflict in different
  scopes, two limits, and budgets in which the lowest `limit_value` is not the lowest
  hard limit, with a tie.
* *conversation.* Two answers make the difference between the last answer and an
  earlier one; the third request shows both. Answers have reasoning first, last or
  absent, and text before or after a tool use. The catalogue has reasoning with the
  other two capabilities and without; no decision looks at both of those.

Deadlock is not checked in runs where the system really stops: the clock has reached its
bound, all keys have been issued, the stream is over, all requests are done, the
conversation has reached its bound. In `access` it is.

### Fairness

Only two specifications state any. In `ProxyRequests` each request's next step is
weakly fair: calls of boto3, psycopg and the resolver return or raise, and an event
loop that is free takes up what waits. Nothing is assumed about which requests
arrive, about administrators or about crashes. In `StreamDecoder` the suspended
generator is asked for its next frame or closed in the end (the web server does
either, and a read of Bedrock returns or times out), and a write returns or raises.
`EveryRequestAnswered` and `StartedIsRecorded` need no more. A stream whose generator
was dropped before its first frame is the exception that `StartedIsRecorded` names:
it has no `finally` to run and leaves no row.

### Findings

Five runs show a difference between the documents in
`.kiro/specs/claude-code-proxy/` and the code:

1. `key_double_issue`: two overlapping invocations each issue a key, since reading
   that there is none and inserting one are two round trips
   (`requirements.md:71`, `token_service/issue_service.py:62,102`).
2. `key_invalidation`: after an operator's invalidation the next request need not
   read PostgreSQL, as an invocation under way may put the item back
   (`requirements.md:200`, `issue_service.py:115`).
3. `proxy_audit`: requests that the resolver or the builder refuses leave no audit
   row (`requirements.md:175`, `proxy_router.py:156`).
4. `proxy_count`: `count_tokens` has no policy step (`tasks.md:12`,
   `proxy_router.py:171`).
5. `conversation_streamed`: a client that sends back a streamed answer as it was
   announced, thinking included, is refused by the builder (`requirements.md:146`,
   `request_builder.py:200`).

Smaller differences met on the way, for which there is no run: `design.md:1055` has
a quota denial answered 429 and `api/errors.py` answers 403; `design.md:1059` has an
unreachable PostgreSQL answered 503 on authentication and the code answers 502;
`design.md:981` lets the most restrictive policy apply to a user with no department,
and `policy_engine.py:119` skips department rules; `design.md:995` gives each user one
limit, and the limiter has one per task, of which there are two by
`infra/config.py:167`. `design.md:1193` says a blocked user gets no key: a cached one
is handed out until its ttl, which `BlockedItemBounded` bounds; the proxy refuses it
meanwhile.

## 4. What is proved

All theorems hold for every value of the constants that the named assumptions of a
module allow (ttls positive and ordered, null values outside of their sets, limits
natural). There is no bound on users, keys, invocations, tasks, requests,
blocks or rules, and the bounds on clocks serve only to stop TLC.

| Module | Theorems | Inductive invariant and why it is needed |
|---|---|---|
| `VirtualKeysProofs` | `InvariantHolds`, `TypeCorrect`, `EndedItemsBounded`, `BlockedItemsBounded`, `GrantsRecent`, `AttributionHolds`, `KeysStayEnded`, `LeasesImplemented`, `DoubleIssueNeedsOverlap`, `RereadWithoutOverlap` | `IInv`. That an item is bounded by its key's end is not inductive: the put comes from an invocation. `ClockReadFirst` says that its clock reading is older than every fact it has read since, so that whatever ended afterwards ended no earlier. `References` says that whoever is under way refers to rows that exist and belong to its user. |
| `KeyDeliveryProofs` | `DeliveryInvariant`, `DeliveryImplementsKeys`, `LockoutsBounded`, `BlockedFilesBounded`, `FilesAttributed` | `DeliveryInv` beside `IInv`. `WaitingMatches`: a waiting helper read its clock before the invocation it waits for did, so that its file ends no later than one local ttl after what the invocation knew. |
| `RateLimiterProofs` | `InvariantHolds`, `MinutesBounded`, `SpansBounded`, `RefusalsBounded`, `RefusalsHaveCause` | `IInv`. `RemembersMinute`: what was forgotten is of an earlier window. `LogNumbered`: entries of one instant stay apart. `WaitsLongEnough`: after one refusal a session wakes in the last second of the window or later, after two beyond it. A span of a minute meets at most two windows, which gives twice the limit. |
| `StreamDecoderProofs` | `InvariantHolds`, `FramesInOrder`, `UsageTold`, `UsageRecorded`, `ThoughtsKept` | `IInv`. `UsageIsFinal`: whoever tells or records the usage does so when Bedrock cannot add to it. `ThoughtsPlaced`: started thinking blocks have places of their own. `FramesInStep`: where Bedrock and the generator are when the last frame is what it is, which block is open above all; the steps that send are shown to add a frame that fits (`FrameStep`), the others to leave the frames in order (`QuietStep`). |
| `ProxyRequestsProofs` | `InvariantHolds`, `BarredRequestsStop`, `BooksKept`, `TrailImplemented`, `UnauditedWereRefused` | `IInv`. `StoppedInTime`: what has been against a request since it came has stopped it or is about to, at each step. `BooksInStep`: what has been written and answered by the time a request is at a step. |
| `ModelRoutingProofs` | `InvariantHolds`, `AcknowledgedServed`, `PreferredServed` | `IInv`. `Ordered`: versions are ordered along the way of an update, from what a request knows over what its task has answered for and has loaded to what is in the table, and copies of one version are equal. `CopiesInOrder`: a copy that waits to be installed is behind neither what the task has answered for in the meantime nor the save it is for; that needs `OneReload`, the lock that is assumed. `ReadsKept`: so that what a request has read of an unchanged acknowledged row is the row. |
| `AccessDecisionsProofs` | `InvariantHolds`, `DenyWins`, `AllowIsNarrow`, `RevokingIsSafe`, `LimitsTighten`, `BudgetsRespected`, `BudgetsTighten` | `IInv` for the thresholds. The rest is about the two choices: that the order by which a budget is selected has a least element in every set of budgets, found through five minima, one per component of the key. With more budgets that least can only be lower, and what a request is projected at changes only with the metric of the budget selected. |
| `ConversationProofs` | `ConversationInvariant`, `ConversationTyped`, `ReasoningComesBack`, `AnswersComeBack`, `OptionsLostOnlyForCause`, `RefusalsHaveCause` | `IInv`. `Transcript`: each message is the client's own or what it made of the answer at its place, since what comes back can only be compared with what Bedrock said there. `Translated`: what is with Bedrock is the translation of the transcript as it still is. From both, the names that parser or stream gave are turned back block by block (`ContentBack`, `ReasoningBack`), and reasoning in front of the rest is found again (`ReasoningInFront`). |

What the filters of `Conversation` compute is a fact by induction over the prefixes of a
sequence. The theorems of induction take a predicate, so `UpTo` states induction up to a
number for a *set* of numbers, from the minimum principle of well-founded relations
(`WFMin`); with it the recursive function is shown to exist (`KeptExists`) and to
keep the right blocks, all of them, in their order (`OfTypeMembers`, `OfTypeAll`,
`OfTypeFirst`).

`LeasesImplemented` is a refinement: initial states map to initial states, each step
to a step of `KeyLeases` or a stutter. `DeliveryImplementsKeys` likewise maps
`KeyDelivery` to `VirtualKeys`, and `TrailImplemented` the proxy to `RequestTrail`.

Four theorems say how far the findings go, that is, what must happen for a statement of
the requirements to fail:

* `DoubleIssueNeedsOverlap` (finding 1). A second key is issued over an ACTIVE one only
  where two invocations of one user stand together between the read that finds none
  (`issue_service.py:62`) and the INSERT (`:102`), or where an administrator's rotation
  inserts for a user while an invocation stands there. Under the hypotheses that neither
  happens (`NoTwoIssue` in every state, `ReplacedElsewhere` of every step)
  `IssueOnlyWithoutActive` holds, whatever else interleaves. That is about issuing: after
  a rotation has saved the old key as ended, an invocation may issue a key and be done
  before the replacement is saved, and the user has two ACTIVE keys all the same.
* `RereadWithoutOverlap` (finding 2). Likewise `NextRequestRereads` holds where every
  forced invalidation finds no invocation of its user between the read of the key and the
  put into the cache (`InvalidatedAtRest`).
* `UnauditedWereRefused` (finding 3). Without any hypothesis: a message that was answered,
  other than by a failure of the proxy itself, and has no audit row was answered 400
  before Bedrock was called.
* `RefusalsHaveCause` of `ConversationProofs` (finding 5). Without any hypothesis: a
  transcript is refused only where reasoning that a stream announced is sent back.

The hypotheses of the first two speak of interleavings, not of constants; the runs
`key_double_issue` and `key_invalidation` show that they cannot be left out.

### Only model-checked

* Liveness under fairness (`EveryRequestAnswered`, `StartedIsRecorded`), which is out
  of the prover's reach.
* The violations, which are counterexamples.

## 5. Not modelled, and why

* Prices: four products and a sum of floats. `AccessDecisions` takes the amount. The
  router passes the quota engine no usage, so that no snapshot and no
  `pricing_catalog_id` reaches a usage row; a route known only by its inference profile
  has no price looked up and a NULL `resolved_model` in the rows (`proxy_router.py:73`).
* Schemas: `request_builder.py:427` closes the objects it reaches by seven keywords,
  unless they say something themselves, where `requirements.md:140` has every object
  closed. It is a pure function of one input, and a model of it would be the code again.
* Budget usage over periods: the router passes none, nothing adds it up.
* Administrator authentication: one stateless check in front of every endpoint.
* Health checks, metrics, log lines, request ids, wiring: no behaviour depends on
  their state.
* Key generation, hashing and encryption: fresh identities that cannot be confused.
* Migrations and infrastructure: definitions of data and of a deployment. What
  behaviour depends on (no unique constraint on ACTIVE keys, the thresholds' CHECK,
  the number of tasks, the ttls) appears as constants, guards or their absence.

## 6. Plan

Order of work, most important first. Done:

1. `VirtualKeys`, `KeyLeases`, their run and proofs: the life of a key.
2. `KeyDelivery`, `KeyInvalidation`: the key as clients and operators see it.
3. `RateLimiter`, `StreamDecoder`, `ProxyRequests`: the request path.
4. `AccessDecisions`, `Conversation`: the engines and the translation.
5. `ModelRouting` and its proofs: the model mapping and its administration.
6. `RequestTrail`, and the proof that the proxy implements it.
7. Keys and helpers in one run, with invocations of other machines beside them.
8. `ConversationProofs`: that answers are replayed, for transcripts of every length.

Left:

9. `Conversation`: system blocks, cache points and tool specifications, where they
   restrict each other.

## 7. Running

    tlasany VirtualKeys.tla
    tlc -workers 2 -config MCKeyDelivery.cfg MCKeyDelivery.tla
    tlapm VirtualKeysProofs.tla

On two workers `keys` takes less than a minute and every other run at most half of
one; the proofs take about four minutes in all.
