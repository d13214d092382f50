# A TLA+ verification of aigis

aigis is a guard for LLM applications. It has two halves: a Python library (`aigis/`) that
scans prompts, answers, tools and memories and keeps some state about an agent's session,
and a self-hosted backend (`backend/app/`): an OpenAI-compatible proxy that blocks, forwards
or queues requests, with reviewers, incidents, an audit log and billing over PostgreSQL.

Much of the code is detection by regular expressions and text similarity: functions of one
input. What a pattern matches is left open here; what the program does with the matches, and
everything that keeps state and is used by several actors, is modelled.

## Inventory

| Component | Its state | Its operations | What is hard | What makes it correct |
|---|---|---|---|---|
| Proxy handler (`proxy/handler.py`) | the request's row, its audit entries, its incident | one call per request: block, queue, or forward and filter the answer | the upstream is called before anything is committed; an exception rolls everything back | nothing is forwarded that the policy or a reviewer did not clear |
| Review queue (`review/service.py`, `routers/review.py`) | `review_items`, with status, reviewer and deadline | decide: approve (and replay), reject, escalate | two calls, or a call and the watcher, on one item; a status read before waiting for the lock | decisions exclude each other, rows and audit log agree |
| SLA watcher (`main.py`, `review/service.py`) | none of its own | every minute, time out what is overdue | sweeps of several replicas; locks taken in the other order than a decide call's | every queued item is decided or timed out |
| Incident routes (`routers/incidents.py`, `incidents/service.py`) | `incidents`, with a status, a resolution and a timeline | status, resolve, assign, note | rows loaded without a lock, written back column by column | a resolved incident has its time, the timeline its detection |
| Incident numbers (`incidents/service.py`) | `incident_number`, unique | count and add one | two counts at once; counted per tenant, unique over all | numbers are dense; every threat gets its incident |
| Billing (`billing/`) | a counter per tenant, plan and subscription status, processed event ids | quota check, Stripe webhooks | lost updates; events duplicated or out of order | an event is applied once, the counter is bounded by what it counts, a paid tenant is reachable |
| Retention (`main.py`) | age of rows | delete old rows every hour | rows deleted under a decide call, plans that change | nothing is deleted before its time, no answered decision is lost |
| Capabilities (`aigis/capabilities/`) | grants by nonce, an audit list | grant, check, revoke, expire | a check and its use are two steps | a call is let through only by a grant in force during it; the audit list tells what is held |
| Signed audit log (`aigis/audit/`) | a hash chain, a key file, the saved log | append, save, load, verify | a crash in a save, in the middle of a line too; two processes on one file | an edit of the past is detected, what nobody edited is never called invalid |
| Activity stream (`activity.py`) | daily files in three tiers, packed files | record, rotate, query | a crash between two steps of a rotation, a packed file that is cut | an event is kept, and found or its query raises, for as long as logs are kept |
| Memory integrity (`memory/`) | records with a term, their file | register, verify, prune, rotate, save, load | late saves and loads bring old records back, also between two questions about one entry | what is recalled was vetted and is in its term |
| Cross-session store (`cross_session/`) | a file per session | save, delete, prune, analyze | torn files; the end of a row of sessions | a reported trend is one, and the longest |
| Monitor and containment (`monitor/`) | a sliding window, a count of alerts, a level | record, check, escalate, reset | times stamped before the lock; checks, orders and resets that no lock keeps apart | chains happened; the alerts justify the level |
| Agent topology (`multi_agent/topology.py`) | agents, edges, allowed edges, one lock | register, allow, record, summary | a lock that is not reentrant | no call waits for itself |
| Agent messages (`multi_agent/message_scanner.py`) | the results of a conversation | scan a message, scan a conversation | sums, caps, a split at two thirds | two kinds of content block, one alone does not |
| Detection (`filters/`, `scanner.py`, `guard.py`) | lists of patterns | score and decide | caps that depend on the order, three scorers that differ | a category counts between its weakest match and twice its strongest, in any order |
| Auto-fix loop (`auto_fix.py`, `adversarial_loop.py`) | two files of learnt defences | propose, apply, try, roll back | numbers that start again, crashes | no false positive stays, no earned defence goes |
| Atomic execution (`aep/`) | a temporary directory | scan, execute, vaporize | processes that outlive the run, files that nobody can delete or that no listing shows | `artifacts_destroyed` is true |
| Tool pins (`supply_chain/hash_pin.py`) | a hash per tool, their file | pin, verify, save, load | old copies saved late, restarts | a verdict rests on an approval |
| MCP scanner (`mcp_scanner.py`) | a file of snapshots | scan | overlapping scans, crashes before the report | no change is taken over in silence |
| Agent hook (`adapters/claude_code.py`, `policy.py`) | the policy file | judge a call, rewrite the file | a file read while it is written; the order of the rules; a hook that does not answer | a critical call that the hook answers is stopped |
| Safety verifier (`safety/`) | specifications, registered checks | load, verify | several specifications | not modelled |
| Policy language, reports, adapters | none that lasts | functions of one input, output, HTTP | - | not modelled |

The components of the backend call each other in process (`handler -> review, incidents,
audit`; `review -> handler` for the replay) and share the rows of PostgreSQL; every HTTP call
and every sweep of the watcher is one session and one transaction (`db/session.py`, `get_db`).
A tenant's plan is what Stripe's webhooks set and the quota check and the cleanup read. The
library's objects that are made for threads have one `threading.Lock` each, held within a method
and not across two: what a caller does with two methods (verify, then ask for the expiry; check,
then use) is two steps. `BehavioralMonitor.check` and `ContainmentManager` hold no lock at all.
What is persisted is rewritten in place, without a lock between processes. The objects do not
share state with each other.

## Modules

| Module | Models | How it corresponds |
|---|---|---|
| `HitlStore` | the rows of a request and their locks | one function per column, indexed by request; `itemLock`, `requestLock` are the row locks; `Dirty`, `Flushed` say which columns a flush writes |
| `ProxyHandler` | `handle_proxy_request` | an action per route, and a step of its own for the upstream call, since it is visible outside before the commit |
| `ReviewService` | `decide`, `process_review_decision`, `_replay_approved_request`, `handle_sla_timeouts`, `_sla_watcher` | an action per statement sent to PostgreSQL; `call[c]` and `watcher[w]` hold what the session has loaded |
| `IncidentDesk` | the four incident routes | load and check, then save; `desk[u]` holds the loaded and the edited row |
| `ReviewBallot` | - | the abstract promise of the review queue: ballots are opened on a waiting request, cast once, and the last one cast counts; one to approve may send the request before it is cast, and then no other on it is cast first |
| `Hitl` | the pipeline | composes the four, states its properties, its fairness and the parts of its inductive invariant; `Queue` maps it to `ReviewBallot`, a decide call being a ballot and a sweep a set of them |
| `MCHitl` | - | instance for TLC, with symmetry |
| `HitlProofs` | - | theorems about `Hitl` |
| `CapabilityStore` | `capabilities/store.py`, `tokens.py` | `held` and `inserted` are the dict and its order, `audit` the audit list; a method is a step, as it holds the lock |
| `GrantBook` | - | the abstract promise of capability enforcement: grants entered and struck once, calls permitted by a grant in the book |
| `Enforcer` | `authorize_tool_call` and `list_active` in threads | an action per stretch between the reading of the clock, the lock and the answer; `call[c]`, `listing[l]` hold the locals; `Book` maps it to `GrantBook` |
| `EnforcerProofs` | - | theorems about `Enforcer` |
| `Webhooks` | `billing/webhooks.py` and Stripe (external) | `sent` is what Stripe did, in order, each subscription beginning with the trial that `stripe_client.py` asks for; `hook[h]` a delivery between the insert of its event and its commit, with the row it loaded and what it makes of it |
| `Metering` | `check_request_quota`, `_next_incident_number`, `create_incident` | `req[r]` goes through the quota check, the flush of the counter, the count of incidents, the insert and the commit of one transaction |
| `Retention` | `_retention_cleanup` against `decide` | `cleanup` and `decide` are two transactions with row locks in `rowLock` |
| `MCBilling` | - | instance of the three; a behaviour is one of one of them |
| `SignedLog` | `audit/` | `log[p]` in memory, `file` and `cut` (its last line is a part of one) on disk; an entry is a number, which is its hash too; `entry[i].chain` remembers what it was appended to |
| `ActivityLog` | `activity.py` | plain and packed files per tier and day, a packed one empty, cut or whole; `rotation` is the file that is being packed, step by step |
| `Recall` | `memory/` | `memory[k]` is the application's, `records[k]` the manager's, `saved` the file; a thread's `task` holds what it copied or read, the `reader` what it has asked so far of the entry it recalls |
| `Monitor` | `monitor/` but containment | `stamped` holds actions between the time they got and the lock; `window` is the object's, `found` the chain that a check is to report |
| `ContainmentManager`, `MCContainment` | `monitor/containment.py` | `count` and `level` are the object's; `processing[c]` is where thread c is in `process_alerts`, step by step, as no lock is held; a reset is two steps |
| `Sessions` | `cross_session/` | a session is the day it starts on; the analysis is an operator of the files |
| `PatternTables` | `filters/patterns.py`, `patterns.py`, the backend's `filters/patterns.py` | each list as the sequence of category and score of its patterns; `SearchedLists` says who searches which |
| `Screening`, `MCScreening` | the three `run_patterns`, `Guard`, `scan` | a text is what is found in it: the patterns in the order of the list, the decoded ones in the decoders' order, a resemblance, custom rules; scores are operators of it; the lists are a constant |
| `Conversation` | `multi_agent/message_scanner.py` | a message is how many patterns of each category match in it, and what the other layers find; score, boost and recommendation are operators of the conversation |
| `Agents`, `MCAgents` | `multi_agent/topology.py` | `holder` is the lock, `calling[c]` the method a caller is in |
| `AutoFix`, `MCAutoFix` | `auto_fix.py`, `analyze_bypasses` | a run goes through `fixStage`, a write per file; entries carry the number of the proposal and, as history, of the run |
| `AtomicPipeline` | `aep/` | the steps of `_execute_atomic`, with the programs that run beside them; `access[p]` is what a listing makes of a file by its directory's mode |
| `ToolPins` | `hash_pin.py` | a hash is the definition it is of; `doing[t]` holds a thread's copy of the pins |
| `McpScan` | `scan_mcp_server` | `scans[s]` goes from the list of tools over comparison and save to the report |
| `ToolHook` | `HOOK_SCRIPT`, `policy.py` | a hook opens the policy, scans, evaluates the first matching rule and exits; beside it the file is rewritten, and holds what is left of the default rules |
| `MCLibrary` | - | instance of the fourteen stateful parts; a behaviour is one of one of them |
| `WebhooksProofs`, `BillingProofs` | - | theorems about `Webhooks`; about `Metering`, `Retention` and the three in `MCBilling` |
| `LogProofs` | - | theorems about `SignedLog`, `ActivityLog`, `Monitor` and `ContainmentManager` |
| `LibraryProofs` | - | theorems about `Recall`, `AutoFix`, `AtomicPipeline`, `ToolPins`, `McpScan` and `ToolHook`, and the fourteen parts in `MCLibrary` |
| `ScanProofs` | - | theorems about `Conversation`, `Screening` and `Sessions` |
| `Induction` | - | every set of numbers has a least one: what stands for induction in the proofs |

What decides the granularity of the first group: PostgreSQL runs at READ COMMITTED, so a session
sees what was committed when each of its statements started, its own writes show at its commit, and
a row it updates stays locked until then. The ORM is created with `autoflush=False`, flushes in
`log_event`, orders a request's UPDATE before its item's, and writes only columns that changed. A
`SELECT ... FOR UPDATE` of an object the session already holds waits for the row and then returns
that object unrefreshed, because the query does not ask for `populate_existing`. The route has
loaded the item before (its tenant check), so the decide call of the model tests the status it
loaded first (`call[c].item`), not the row's.

Abstractions: a score is an integer and the thresholds constants; the output filter's verdict
and the failures of the upstream are chosen freely; the resolutions `allowlisted` and
`blocklisted` behave as `false_positive` does and are represented by it; `assigned_to`,
`responded_at`, `sla_met`, notes, severities, latencies and notifications are left out, since
nothing else reads them. A time is a Boolean: it is set or not.

In the second group the lock does: `check` and `list_active` read the time before they take it,
so `call[c].now` may be older than what another thread has pruned by, and the guard's scan and
the answer come after it. A call is tied to what happened before it by `since`, the length of
the audit list when it began: a history variable that no guard reads. Entries that one call of
the store appends under the lock are one entry of the model, with the set of tokens it found
expired; their timestamps and details are left out. `token[n]` says from the start what the
capability of nonce `n` will grant, which is the same as choosing it at its grant, since nothing
looks at it before. A glob is the set of targets it matches. The clock does not step back. The
guard's verdict is chosen freely (`Deny`); the review constraint is not: `Allow` tests it.

Billing follows the database's rules again. The insert of an event id, and of an incident
number, waits for an uncommitted row with the same value and fails on a committed one; an
UPDATE names only the columns that differ from what was loaded (`Written`, `Changed`), so two
deliveries merge column by column. A delivery loads the tenant after the insert; that is one
step (`Receive`), since until then nothing it does can be seen. Stripe is external: which
events a change of a subscription sends is taken from the five kinds the handler distinguishes.
A subscription begins "trialing" and becomes "active" by an update of its own (`TrialEnds`),
before which its plan may change and it may be canceled. Dates of periods and
trials, amounts and e-mails are left out, as no decision reads them.

In the library a step lies between two points at which another thread, another process or a crash
can interfere: a method under its lock is one step; opening a file for writing, which empties it,
and filling it are two; a read is one. A crash between the two leaves a torn file. That of
`SignedLog` is written through a buffer: a crash leaves any beginning of it, the last line whole or
cut, and a cut line makes `verify_file` and `load` raise. A file that `ActivityLog` packs is empty
first, on which a query finds no lines, then cut, on which it raises, then whole; an append to a
plain file is one write, so its line is whole. A torn key file is just another key, so its write is
one step. Hashes are injective and signatures cannot be made without the key: an entry's number
stands for its hash, a definition for its own. Drift statistics, the texts that decoders find and
the similarity measure give their verdict freely. `PatternTables` holds categories and scores and
leaves every regular expression open: any subset of a list may match, in any text. `ToolHook` models
the tools that `_map_action` maps by name; a hook that ends in an exception the script does not
catch (exit code 1), or that the agent's 10 s time-out ends, has not answered, and what the agent
does then is its own affair (`unanswered`). `Monitor` keeps one agent. The application's memory of
`Recall` is not the code's: `verify` is asked about whatever content. The model of containment has
no lock to rely on: `+=` is a read and a write, each comparison reads the count anew, and the level
is compared in one step and assigned in the next.

## Runs

| Run | Instance | What it shows |
|---|---|---|
| `hitl_race` | one request of score 0, 1 or 2, two decide calls, one watcher, one responder, one failed sweep; 424807 states | the safety properties below |
| `hitl_live` | one queued request, one decide call, two watchers, one failed sweep; 4632 states | `PendingItemsAreDecided` |
| `hitl_reject` | one queued request, two decide calls | violated: `RejectIsPermanent` |
| `hitl_closed` | one queued request, one decide call, one responder | violated: `ClosedIsFinal` |
| `hitl_fallback` | one queued request of a policy that escalates, one watcher | violated: `FallbackIsApplied` |
| `billing` | two handlers, two customers, six events of one customer or four of both; three requests of two tenants over a turn of the year; one tenant over five quarters of retention; 1.5 million states | the properties of billing below |
| `library` | fourteen parts, each with two rivals where it has any; 1.3 million states | the properties of the library below |
| `number` | two tenants, three requests | violated: `ThreatGetsIncident` |
| `scorer` | three hits of one topic, two custom rules | violated: `EachMatchContributes` |
| `topology` | two agents, one caller | violated: `SummaryReturns` |
| `autofix` | two runs, no crash needed | violated: `EarnedStays` |
| `containment` | two checking threads, an admin, two alerts | violated: `NeverDeescalates` |

All runs have `CHECK_DEADLOCK FALSE`: a system whose requests, calls and bounded clocks have all
ended has nothing left to do. In the review pipeline each request, call and edit ends, and then
nothing has to happen. Requests do not share rows, and a sweep over several items only adds lock
waits, so one request is enough for safety; two calls, a watcher and a responder give every writer a
rival (three for the item's row, four for the incident's). Scores 0, 1, 2 against thresholds 0 and 2
take each route and touch both thresholds. `MaxFailures` bounds the failed sweeps that no deadlock
caused; a decide call may always fail.

Properties of `hitl_race`:

- `ForwardedOnlyIfCleared`: the upstream sees a request only if its score is in the policy's
  range or an approval of it got to its replay. No other decision, time-out or failure sends it;
  but the approval may be undone afterwards, or be undoing a rejection (`hitl_reject`).
- `CriticalStaysBlocked`: a request at or above the block threshold is blocked, for good.
- `DecisionsExclusive`: two decide calls are never both between lock and commit.
- `AuditExplainsStatus`: a decided item's status and reviewer are in the audit log.
- `ItemRequestAgree`: item and request say the same, although each is loaded by a statement of
  its own. It holds while at most two decisions or time-outs of the item committed: a third one
  that loaded the item before the first can break it, which is a consequence of the stale check
  that `hitl_reject` shows. A timed out item's request is blocked, whatever the policy's fallback
  says (`hitl_fallback`).
- `ResolvedIncidentsAreTimed`, `TimelineKeepsDetection`: what stale saves of an incident cannot
  do. (They can lose each other's entries: the timeline is one column.)
- `KeepsTheBallot`: the refinement `Hitl => ReviewBallot`, which says what holds in spite of the
  stale check. Ballots may overlap, since a call opens its own on the status it saw; but nobody
  opens one on a request that is decided (an escalated item takes no decision), each is cast at
  most once and sends the request at most once, a sweep times out only what it noticed
  pending and overdue, and between a replay and its decision nothing else decides.

Properties of the enforcer, in `library`:

- `AuditTellsHeld`: what is in the dict is what the audit list says was granted and not ended,
  though a check prunes only the expired tokens ahead of its hit.
- `NothingAfterTheEnd`: after a capability's revocation or expiry no entry mentions it, whatever
  the order in which threads read the clock and got the lock.
- `StaleGrantsStop`: a capability that ended, or whose date passed, before a call began is not
  used by it. (One that is revoked between the check and the answer is.)
- `ListingsAreActive`: a listing returns nothing that had ended or expired before it, and
  everything granted before it that has not ended.
- `KeepsTheBook`: the refinement `Enforcer => GrantBook`. A check is the instant at which a
  call exercises a grant; one that needs review, or untrusted data for a control-flow tool,
  never leads to a permission.

Two capabilities are the least for which the dict's order matters: one may be ahead of the hit,
expired, or behind it. A listing is the rival of the authorization: it prunes by a time of its
own. With the clock in 0..1 (`MaxTime`) and the date 0 a token is seen at and after its date, and
a thread may hold a time on the other side of it from the one that ran first; what is before the
date is as what is at it. `SomeGrants` has a grant that expires, one that needs review and one of
a control-flow resource, `SomeAsks` calls that read, and that run a shell with trusted and with
untrusted data. Each grant is given once, so the state space ends without a further bound.

Properties of `billing`:

- `AppliedOnce`: an event has been applied once if its row is recorded, and never otherwise,
  although it is delivered again, at once and later, and handlers roll back.
- `MirrorsStripe`: events handled one by one in Stripe's order leave the tenant with Stripe's
  plan and with the status that `Shown` names: Stripe's, except that a trial shows as "active"
  until something is changed in it. (Out of order they need not: the handlers compare no times.)
- `PaidIsReachable`: in any order and overlap a paid tenant has a customer.
- `QuotaIsExact`: requests handled one at a time are counted exactly, a failed one is not
  charged, one is refused only when the quota is used up, and in strict mode none is served
  beyond it, while months pass and plans change.
- `NoPhantomCharge`: overlapping requests lose counts but never charge for what was not served.
- `NumbersAreDense`: a tenant's incidents of a year are 1 to n, whatever rolled back.
- `LockSavesNumbers`: a counted request loses its number to its own tenant only if the winner
  was not counted: it is the counter's row lock that keeps numbers apart, not the counting.
- `RetentionIsKept`: the cleanup deletes only what is older than the plan kept it when it began,
  and no decision that was answered is lost, through deadlocks and changes of plan.

Six events of one customer (`MaxEvents`) reach a third failed payment behind a trial; where both
customers have events four are enough (`MaxShared`): a subscription that follows another's end.
With the quota 1 of two plans, two requests of one tenant and one of another, every request is
the first, the last or one too many of its month; November and December show the change of month.
Months are compared without their year: what a whole year of silence does is out of these
bounds. A unit of retention is about ninety days, so `free`, `pro`, `business` and `enterprise`
are 0, 1, 4 and none, and the fifth day is past them all.

Properties of `library`:

- `TamperEvident`, `UntouchedVerifies` (signed log): a file that verifies is the log as it was
  when its last line was appended, and so does every beginning of it, so that lines taken from
  the end are not missed (see Findings). What nobody edited is never found invalid, through
  crashes, saves over one another and loads that drop an append; a save that was interrupted
  within a line makes verification and load raise until the next save. Nothing is claimed once an
  edited file was loaded (`CONSTRAINT Unmisled`).
- `KeptForRetention`: an event is on the disk for as long as logs are kept, and in the archive of
  alerts for ever, wherever a rotation stopped. A query over its day finds it, unless a packed
  file of some day asked for is cut: then the query raises, for good if a crash cut it, and the
  plain file of that day is still there. A query of the alerts never raises.
- `RecallIsVetted`: what is recalled was scanned, allowed and written under its key, and its
  term goes on where `is_expired` found a record of the content that `verify` matched. (A write
  or a load between the two has an entry judged by the term of another.)
- `NoFalseChain` (monitor): a reported chain is in the window in this order and within the gap;
  the window holds three actions, as many as the longest chain has steps. (Chains are missed: the
  search is greedy.)
- `LevelIsEarned` (containment): a level that no admin set is within the automatic cap and has
  alerts behind it, however checks, orders and resets overlap; and where nothing overlapped since
  the last reset it is the one that the alerts make due, or higher. Overlapping checks may lose
  alerts, and a reset that a check overlaps may leave a level of before it.
- `CategoryIsCapped`: in each of the six lists a category counts for at least its weakest match
  and at most twice its strongest, so a pile of matches of one kind, however large, blocks only if
  the strongest reaches half of the threshold. Two that would not block alone may block together.
- `NoFalsePositives` (auto-fix): between runs, a learnt pattern that flags a safe input was left
  by a run that died.
- `DestroyedMeansGone`: what is in the directory after `artifacts_destroyed` was declared, was in
  a directory that the verifying listing could not read, or was written after it by a process that
  outlived the run.
- `TrendIsReal`: a trend is a row of sessions, each above the one before, and the longest.
- `VerdictsAreEarned`: "verified" is said only of a definition that was pinned, "modified" and
  "removed" only of a tool that was.
- `ChangesAreReported`: a compared tool passes without an alert only in a version that a report
  showed, or that a scan saved whose report is to come or died with it.
- `KindsDecide`: two kinds of cross-agent content block wherever they stand; one kind alone,
  with no other layer finding anything, blocks only in the last third of a conversation that was
  mostly harmless before, and does block there if it matches twice and nothing matched before; a
  message in which nothing is found passes. The last third is stated apart from the code's split.
- `CriticalIsStopped`: a call that scored 80 or more is let run by the hook only if a rule by name
  let it, the file was torn, or it had lost its critical threshold; one that only denying rules
  name never. A hook that does not answer is outside the property: what runs then is the agent's
  decision.

Each part has two rivals (threads or processes, `Symmetry`) where it has any, except memory, whose
one thread that saves and loads already interferes with the one that recalls and with the methods
that need no thread. A hook scores 0, 79 or 80 (`HookScores`), both sides of the critical threshold.
Two log entries, two events of the activity stream, two files and two writes, two proposals in two
runs, three finds in a conversation of three messages: the second is the rival of the first, and a
third has no new place to be. The categories of a list touch only in the total, so a text has one
topic, with three hits where all lists have at most six patterns of it and two elsewhere; three are
needed for an order between a strong, a weak and a middle one. Thresholds of containment are scaled
down to 1 and 2 alerts, with the automatic cap at the second of the five levels, and the admin
orders the first or the fourth; the clock of the monitor has two ticks, one of which is more than
the gap of a chain and more than a minute. Three sessions are the least that make a trend, and four
days are one more than the window.

The violation runs use the least instance that shows the fault; `topology` has weak fairness of
both steps of a summary (a thread that can go on does) and a single caller, so that nobody else
holds the lock.

Fairness (`FairSpec`): a decide call that started goes on (the upstream client times out after
60 s), deadlines pass, the watcher's loop catches every exception and comes back every minute,
and PostgreSQL breaks deadlocks after `deadlock_timeout`. These are weak fairness. Taking a row
lock is strongly fair, because PostgreSQL queues the waiters of a row: with weak fairness
alone, two watchers could hold the request's row in turns and overtake a call for ever. No
reviewer, client or responder has to act.

## Findings

- `hitl_reject`: docs/human-in-the-loop.md says that a rejection is permanent. Two calls load
  the pending item; the rejection commits; the approval, released by the lock, tests the status
  it loaded, overwrites the rejection and replays the request upstream.
- `hitl_closed`: the routes let no incident out of `closed`; `process_review_decision` sets the
  linked incident to `mitigated` without looking at it.
- `number`: incident numbers are counted per tenant, and unique over all tenants. The second
  tenant's first threat of a year collides with the first one's, and the whole request fails.
- `scorer`: the cap of a category is twice the score of the pattern that matched last, so a weak
  pattern late in the list lowers what the strong ones gave, and a blocked text passes.
- `topology`: `summary` holds the lock and calls `unexpected_edges`, which takes it: the first
  summary never returns, though the class says its methods are thread-safe.
- `autofix`: fixes are rolled back by the proposal's number, which starts at 1 in every run; the
  defences of earlier runs go with them.
- `hitl_fallback`: a policy's `sla_fallback` may be `block`, `allow` or `escalate`, and the sweep
  is said to apply it; no code reads it, and what nobody reviewed in time is blocked.
- `containment`: a check compares its target with the level and assigns it in the next step,
  without a lock. A check or an order in between is undone, against "only escalate (never
  auto-de-escalate)".

Three disagreements are seen in properties that hold, since these state what the code does:

- `TamperEvident`: signed_log.py says that a deleted entry breaks verification; whatever verifies
  does so without its last lines too.
- `DestroyedMeansGone`: pipeline.py says that only declared outputs survive, sandbox.py that no
  child outlives the run. What a listing cannot see, and what comes after it, survives.
- `MirrorsStripe`: the schema knows the status "trialing", and the page shows a trial by it; the
  handler of the checkout writes "active" for every subscription, all of which begin with a trial.

## Proofs

`HitlProofs` proves, for any sets of requests, calls, watchers and responders, any scores and
any thresholds, in any order:

| Theorem | Property |
|---|---|
| `TypeCorrect` | `TypeOK` |
| `DecideCallsExclude` | `DecisionsExclusive` |
| `UpstreamSeesClearedRequests` | `ForwardedOnlyIfCleared` |
| `CriticalRequestsStayBlocked` | `CriticalStaysBlocked` |
| `DecisionsAreAudited` | `AuditExplainsStatus` |
| `ResolutionsAreTimed` | `ResolvedIncidentsAreTimed` |
| `TimelinesKeepDetection` | `TimelineKeepsDetection` |
| `ItemsAndRequestsAgree` | `ItemRequestAgree` |
| `PipelineInvariant` | `IInv`, the inductive invariant |
| `PipelineKeepsTheBallot` | `KeepsTheBallot` |

They assume `TxnAssumption` (calls and watchers are different transactions), `ScoreAssumption`
(scores and thresholds are integers, unordered) and `FailureAssumption`. None of the properties
is inductive; `IInv` adds what the code relies on without saying it:

- `Targets`: a transaction under way has a request; a sweep's items are requests;
- `LockDiscipline`: a decide call past its lock holds the row (gives `DecisionsExclusive`);
- `Routed`: nothing shows before the handler commits, and an item exists only below the block
  threshold and with an incident (gives `CriticalStaysBlocked`, and with it
  `ForwardedOnlyIfCleared`: a replay is of an item, and an approval stays one);
- `OnRows`: what sessions hold is about rows that are there;
- `CopiesTimed`: a stale copy has a `resolved_at` only if the row has one, and every edit that
  resolves sets one, so a column-wise flush never pairs a resolved status with no time;
- `TimelinesJournalled`: every timeline, in a row or in a copy, starts with the detection and
  has at most one entry per finished call or edit, so a save adds an entry nobody has;
- `StatusesRecent`: an item is decided once its log has a decision; and the request's status
  that a session loaded, with which its flush will compare its own, is the row's unless a
  decision came in between, and is the row's again if that was the only one. So the first two
  decisions leave item and request in agreement, however stale the copies; from the third on
  nothing holds, and the property says so.

They are proved one on top of the other: types, then rows, then times, timelines and statuses,
each with a lemma per component. `PipelineInvariant` puts the parts together: `IInv` is inductive
as a whole.

The refinement needs less of it, and one thing more. `BallotInv` is `RowsInv`, `LockDiscipline`
and `Holdings`: a call past its lock saw its item pending (which is true of the status it loaded,
not of the row), a sweep holds the lock of each item it has flushed, and a request that the proxy
has not handled was not sent. That no ballot is cast between a replay and its decision follows
from `LockDiscipline`; that a sweep's time-outs disturb none, from `Holdings`. There is a lemma
per kind of step, and `StepRefinesBallot` puts them together: every step is one of the ballot or
leaves it as it is.

`EnforcerProofs` proves, for any sets of nonces, resources, targets, calls and listings and any
bound of the clock:

| Theorem | Property |
|---|---|
| `TypeCorrect` | `TypeOK` |
| `AuditIsTrue` | `AuditTellsHeld` |
| `EndsAreFinal` | `NothingAfterTheEnd` |
| `StaleGrantsNeverHit` | `StaleGrantsStop` |
| `ListingsAreTrue` | `ListingsAreActive` |
| `EnforcerKeepsTheBook` | `KeepsTheBook` |

They assume `StoreAssumption` (`NoNonce` is no nonce, the bound is a number, `Never` is no time,
grants are tokens) and `EnforcerAssumption`. The argument starts from what every step does to
the store (`StepMoves`): nothing, or one entry appended, which grants a token that never was, or
which mentions and ends only tokens that are held. From there `AuditInv` is inductive: with
`Placed` (a token is mentioned only after its grant) the two properties of the audit list
support each other. `SessionInv` adds `CallsFit` (what the place of a call tells: before its
check it has no capability, after `Barred` it is not barred), `ListingsPlaced`, and the two
session properties; they are stable because the past of an audit list does not change
(`PastStays`). The refinement has a lemma per kind of step (`GrantEnters`, `CheckExercises`,
`EndRefuses`, `AllowPermits`, ...), each of which needs the invariant: without `AuditTellsHeld`
a grant could enter twice.

The proofs of the other components, each for any values of its constants:

| Module | Theorem | Property |
|---|---|---|
| `WebhooksProofs` | `EventsAreAppliedOnce` | `AppliedOnce` |
| `WebhooksProofs` | `PaidTenantsAreReachable` | `PaidIsReachable` |
| `WebhooksProofs` | `TenantMirrorsStripe` | `MirrorsStripe` |
| `BillingProofs` | `NumbersAreAlwaysDense` | `NumbersAreDense` |
| `BillingProofs` | `TheLockSavesNumbers` | `LockSavesNumbers` |
| `BillingProofs` | `NoTenantIsOvercharged` | `NoPhantomCharge` |
| `BillingProofs` | `QuotaWithinAYear` | `QuotaIsExact` |
| `BillingProofs` | `CleanupKeepsRetention` | `RetentionIsKept` |
| `BillingProofs` | `BillingTypeCorrect` | `TypeOK` of `MCBilling` |
| `LogProofs` | `UntouchedLogsVerify` | `UntouchedVerifies` |
| `LogProofs` | `EditsAreEvident` | `TamperEvident` |
| `LogProofs` | `RotationKeepsEvents` | `KeptForRetention` |
| `LogProofs` | `ContainmentIsEarned` | `LevelIsEarned` |
| `LogProofs` | `ChainsAreReal` | `NoFalseChain` |
| `LibraryProofs` | `RecallIsVettedAlways` | `RecallIsVetted` |
| `LibraryProofs` | `RunsLeaveNoFalsePositives` | `NoFalsePositives` |
| `LibraryProofs` | `DestructionIsTrue` | `DestroyedMeansGone` |
| `LibraryProofs` | `VerdictsRestOnApprovals` | `VerdictsAreEarned` |
| `LibraryProofs` | `NoSilentChange` | `ChangesAreReported` |
| `LibraryProofs` | `CriticalCallsAreStopped` | `CriticalIsStopped` |
| `LibraryProofs` | `LibraryTypeCorrect` | `TypeOK` of `MCLibrary` |
| `ScanProofs` | `VerdictsFollowKinds` | `KindsDecide` |
| `ScanProofs` | `CategoriesAreCapped` | `CategoryIsCapped` |
| `ScanProofs` | `TrendsAreReal` | `TrendIsReal` |

Of the backend:

- Webhooks (`WebhooksAssumption`: `NoCustomer` is none, "pro" is a paid plan and "free" is not).
  `OneAtATime` carries `AppliedOnce`: a delivery in progress is of an event that is not
  recorded, and of one that no other delivery handles, which is what the unique column gives.
  `CustomersStay` carries `PaidIsReachable`: no handler ever takes a customer from a row, so
  a stale row whose changed columns are merged into a newer one cannot part plan and customer.
  For `MirrorsStripe`, `StripeInv` says what the events tell of the subscriptions (`EventsFit`:
  each fits the one before it of its customer), and `InOrder` that the row is what the events
  handled so far describe (`Applied(n)`), an update that is still to come excepted; the status
  is "active" until the first update is among them, which is what `Shown` says.
- Quota and numbers (`MeteringAssumption`). `NumberInv`: the lock of the counter's row is held from
  the flush to the commit and by one request at a time; the numbers of a tenant's year have no gap
  below a committed one; and no number taken under the lock was committed by another counted
  request. `NotOvercharged` bounds what a request in flight will write by what was charged before
  it, and one. `QuotaInv` is exact for a tenant whose requests never overlapped: row, flight and
  refusal agree with what was charged. `QuotaWithinAYear` assumes that the months of an instance lie
  less than a year apart (`MaxMonth < FirstMonth + YearLength`), which the code needs: it resets the
  counter when the month's number differs, whatever the year, and without that the statement is
  false.
- Retention (`RetentionAssumption`). `LocksFollow`: who holds a row's lock follows from where
  the two transactions stand; `DecidedOnce`: a row under decision is queued; `ChosenIsOld`: what
  the cleanup has taken is older than the plan it loaded allows.

Of the library:

- Signed log (`SignedLogAssumption`). `KeptInv`: until an edited file is loaded every log is
  `Kept`, each line in its place with the hash of the line before it, and an entry that was
  signed ends the log it was signed in (`Closes`); the whole lines of an interrupted save are the
  beginning of such a log. That gives `UntouchedVerifies`. For
  `TamperEvident` a file that verifies is compared with that log from the last line to the
  first: each hash names the line before it, so a last difference has no cause.
- Activity stream (`ActivityAssumption`). `InItsFile`: an event is in the plain file of its day,
  or in the packed one; `RotationIsSafe`: the rotation removes a plain file only when the packed
  one is whole and has all of it, a packed one only when it expired, and no packed file is cut
  whose plain one is gone before that.
- Containment (`ContainmentAssumption`; the table of thresholds may be in any order and have
  entries missing). `ContainmentInv` follows each thread through its steps: the count, and what a
  thread will store in it, is never more than the alerts handed over since a reset that no call
  overlapped; what a walk has found so far is reached by them (`CallIsEarned`); and while no two
  calls overlapped it is exactly what they reach (`CallIsExact`, `ExactIfAlone`).
- Monitor (`MonitorAssumption`). `ChainsAreReal` is a statement about the search: what matched after
  n actions is the start of the chain, in n places of the window and within the gap (`Happened`), in
  windows that any interleaving of the recorders left.
- Recall (`RecallAssumption`). `EverywhereCounts`: a record says no more than what was once
  written to its key counts for, wherever it is held: in memory, in the file, in a thread's
  hands. Each step only moves records between the three or writes a new one; the reader holds
  one of them, and the content that it saw registered (`ReaderCounts`).
- Auto-fix (`AutoFixAssumption`). `BroadIsTraced`: what a run applied bears its number, and a
  pattern that flags a safe input belongs to a run that died or to this one while it may still
  be rolled back. A rollback by number may take too much, never too little.
- Atomic pipeline (`PipelineAssumption`). `Settled`: a good outcome is said at the end only, so
  whatever comes after it is known to be late, and what the last listing left out is in `unseen`
  when the outcome is said.
- Tool pins. `EverywhereApproved`: every hash held in memory, in the file or by a thread is of a
  definition that was approved, and approvals only grow.
- MCP scan (`ScanAssumption`). `QuietIsKnown`: the file holds what is known (shown, saved by a
  scan under way, or lost with one), and what a scan found unchanged was known without it.
- Hook (`HookAssumption`). `HookInv`: what was judged by a whole file has that file's answer, and
  what was denied does not run by the hook's word. `PolicyPlaces` is where the order of the default
  rules enters: no rule ahead of the critical threshold can apply to a tool's call but those by
  name.
- Message scanner (`ConversationAssumption`). The invariant is the type; the work is in the
  operators. One kind of content is worth 35 or 60 points at most, two at least 70. The sum over
  the first two thirds is at least 35 for each message that matched and 25 more for each that
  matched twice (`EarlyScores`), so an average below the limit leaves room for few of them
  (`MostlyHarmless`).
- Scorers (`ScreeningAssumption`: bases between 1 and 100; nothing is assumed of the lists'
  order, categories or lengths). `Within`: a score is 0 with no base behind it, or between some
  base and twice that base. Adding a base keeps that whatever the score was, since the latest
  base sets the cap; a loop over matches keeps it by induction (`AddAllIsWithin`); the layers
  are composed with it. A decoded pattern that does not count has its base there already
  (`DecodedBases`).
- Sessions (`SessionsAssumption`). `RunAt` is the invariant of the loop over the scores: the run
  that goes on ends here and cannot start earlier, the best one is a row, and no row so far is
  longer than both. The comparison after the loop takes the longer.

What TLC explores in `billing` and `library` is a choice of one of several parts. A behaviour of
`MCBilling` or `MCLibrary` is one of every part: the chosen one moves, the others stutter
(`SidesAreTheirOwn`, `PartsAreTheirOwn`). So each theorem about a part's specification is one
about what the run checks, and the type invariants of the parts together give `TypeOK`. Of these
four take an argument: a run of the auto-fix loop that is under way has a number
(`AutoFixTypes`); the patterns found in a conversation are counted by a running sum, which is a
number in every turn (`SumsStep`, `SumsEnd`); the matches of a text are in the order of their
list (`InOrder`); and an MCP scan holds tools in versions that were offered (`Typed`).

Each rests on its type invariant, proved first where the argument needs one, and has a lemma for
the steps of each actor. The library's induction theorems take an operator as a parameter, which
the provers cannot instantiate, so induction over the length of a sequence or the number of turns
of a loop is done by a first counterexample: `LeastNumber` in `Induction` gives the least n at
which a statement fails, and the step before it refutes it. Loops are recursive functions in the
models for that reason (`Matched`, `RunningSum`, `AddAll`, `Analyzed`, `Runs`); that such a function
exists, and so that its `CHOOSE` has its equations, is shown in the same way (`MatchingExists`,
`SummingExists`, `AddingExists`, `ListingExists`, `RunningExists`).

Only model-checked: `PendingItemsAreDecided`, as liveness under fairness is out of the prover's
reach, and the violations, which are behaviours. Every other property of a passing run is a
theorem as well.

## Not modelled

- What regular expressions, decoders and the similarity measure find in a text: the input of
  `Screening`, `Conversation` and `McpScan`.
- Drift and baseline statistics: floating point; that they alert is a free choice of `Monitor`.
- Policies and tenants of the backend: one administrator's request writes one row. A handler
  loads the policy once, and the thresholds are constants in any order.
- The session automaton, the specification language and the safety verifier: evaluation of one
  event or action by one thread. (`verify` returns in the first turn of its loop over "all loaded
  specs": which of two specifications decides is their order.)
- Two saves of a signed log whose writes interleave within the file, and a baseline that is
  replaced during a check of the monitor.
- Notifications, reports, exports, authentication, the game, red team and compliance reports,
  middleware, server, command line, bills of materials, the front end and the editor
  extension: reads and output that nothing modelled waits for, or a library's work.

## Plan

What the runs check and can be proved is proved. What is left:

- what holds in spite of the findings: of a score, how much one more pattern can take away at
  most; of a rollback, that it takes only entries of the same number;
- the policies of a tenant (two first requests each create a default one), and the year in the
  quota's comparison.
