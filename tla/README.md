# Andromeda: a TLA+ model of the policy engine, the gateway and its backend

Andromeda lets a tenant's application ask for signatures of a dWallet (a wallet
whose key is shared with the Ika MPC network) under rules the wallet's owner
controls. This directory holds TLA+ modules of the parts of the repository in
which that promise is kept or lost, TLC configurations that check them on small
instances, and proofs checked by TLAPS. Paths are relative to the root of
the repository.

## 1. The system

| Part | State it keeps | Operations | Hard behaviour | What makes it correct |
|---|---|---|---|---|
| `contracts/policy-engine` (Solana program, holds the dWallet authority) | engine account (nonce, pause flag, rule table, rules generation), one sub-account per rule, session accounts of four kinds | add, edit, remove nine kinds of rules; pause, resume; request a signature as owner, by session key, by OIDC session; recover as primary, by quorum, by passkey or OIDC session; open and close sessions | signatures are collected off chain and submitted late, twice, out of order; addresses are reused after removal; buckets and windows at their boundaries; integer casts | an approval is given only under the rules its signer saw; a command acts once; caps and grants hold over the whole history |
| `contracts/auth` | none | owner verification, challenge encodings | what a challenge binds and what it leaves out | a challenge names everything it authorises |
| `contracts/pyth-adapter` | cached prices | refresh | stale or future prices | monotone publish times |
| `contracts/jwk-registry`, `jwk-rotator` | OIDC keys: proposed, active, retired | propose, activate, revoke; a watcher that proposes | a rotation in flight during a crash | a key is active only after its delay |
| `contracts/oidc-verifier`, `contracts/shared` | none | JWT, RSA, layout helpers | parsing | byte-level |
| `gateway/internal/leader` | a Postgres advisory lock | elect, run, heartbeat | a lock lost under a running worker | one worker per live lock |
| `gateway/internal/futuresign` | `future_sign_triggers` | create, cancel, claim, test, fire, fail, expire | two leaders at once, lost answers, loops within a tick | one claim at a time; the row tells what happened |
| `gateway/internal/oraclemonitor` | `price_triggers` | create, cancel, tick, claim, fire, expire, reap | watchers that stop after a claim | one watcher fires a trigger; every trigger ends |
| `gateway/internal/oraclerelay` | feeds | crank, refresh, pause, register | guards against bad prices that may freeze a feed; transactions that do not land | the row is never ahead of the chain; a feed catches up |
| `gateway/internal/audit` | hash-chained log, archive record | append, sign, read, archive | numbers that commit out of order | the chain never forks, every entry is signed |
| `gateway/internal/webhooks` | endpoints, deliveries | subscribe to logs, decode, publish, claim, post, retry, sweep | reconnects, crash with claims in memory, claims that outlive their lease | every event settles, attempts bounded |
| `gateway/internal/intents`, `intents-backend` | intents and their legs | quote, challenge, submit, broadcast, reconcile | partial execution, lost answers of nodes, stale loads | legs are sent once and in order; a verdict is true |
| `gateway/internal/policy` | none of its own; a presign cache in Redis | challenge and submit endpoints, presign prefetch | what was signed is recomputed twice from later state | challenge, submit and program agree |
| `gateway/internal/gasponsor` | none | sign and send | a lost answer of the node | a failed preflight did not land |
| `gateway/internal/risk` | lists, configuration, feed runs | edit, ingest, evaluate | sources that fail or change while read | the answer hides nothing that was read |
| `gateway/internal/idempotency` | answers and locks in Redis | get, lock, run, store, unlock | concurrent duplicates, Redis failures, lock expiry | a replay is a faithful answer; one run per key |
| `gateway/internal/api`, `ratelimit`, `upstream` | key rows, buckets, breakers | admit, proxy, refund | Redis out of reach, a half-open breaker | admitted calls stay within the rate |
| `gateway/internal/store`, `pricing` | subscriptions, credits, ledger | charge, replay, roll over, refund | concurrent spending of one balance, retries across a period | a balance is debited once per operation and never overdrawn |
| `gateway/internal/` oauth, usage, mcp, auth | codes, counters | exchange, record, map tools | code replay | a code is used once |
| `gateway/internal/` netsafety, networks, metrics, config, openapi, routes, observability, httpx, humanfmt, util, redisclient | none | configuration and clients | none | none |
| `backend`: billing | subscription rows, event marks, gift cards, overage counters | checkout, webhook, redeem, refund, report overage | events twice, late, out of order; a stop between two systems | a payment is credited once |
| `backend`: accounts | users, refresh and reset tokens, identities, administrators | sign up, log in, refresh, reset, link, delete | two requests on one token or counter | a token is used once; a lock holds |
| `backend`: notices | scheduled prices, notices, thresholds | schedule, cancel, apply, mail, alert | a mail that fails, a worker that stops | nobody is charged a new price without notice |
| `ika-backend`, `encrypt-backend` (TypeScript) | MPC and FHE sessions | sign, complete, decide | external networks | idempotent completion |
| `dashboard`, `infra` | none | user interface, deployment | none | none |

How the parts interact. The gateway is the only caller of `ika-backend`,
`encrypt-backend` and `intents-backend`, over a private network. Its replicas
share Postgres and Redis and nothing else. The owner signs challenges that the
gateway builds from what the client read of the chain, and the gateway submits
them as transactions paid by the gas sponsor. The policy engine loads the rule
accounts, evaluates them with prices cached by the Pyth adapter and with
decisions signed by the FHE authorities, and calls Ika's `approve_message`. The
watchers and sweeps of the gateway run inside workers that the leader package
elects; webhook workers and audit signers run on every replica. Webhook rows
come from the chain's logs and from the other parts of the gateway. The backend
writes the subscriptions, credits and prices by which the gateway meters.

`PROJECT.json` lists each component with its status and, under `hazards`, the
lines at which the hard behaviour bites with the properties that cover it.

## 2. The modules and the code they model

### Policy engine

`PolicyRules` holds the pure part: for each rule kind the configurations it
accepts, the state a new rule starts with, the check it makes (`RuleOK`) and the
state it leaves (`RuleNext`). These are the arms of `dispatch_active_rules`.

`PolicyEngine` gives them the engine account. `rules_flat` is the table of rule
entries, `rule_pda` the sub-accounts by kind and slot (an address is derived from
exactly these), `next_admin_nonce`, `paused`, `rules_count` and
`rules_generation` are fields of the same names. A transaction is atomic on
Solana, so an instruction is one action, and a failed `require!` means that the
action is not enabled. What is not atomic is the way to the chain: a challenge is
a record of what its bytes bind, signing it (`OwnerSignsCommand`,
`OwnerSignsRequest`) adds it to a set for ever, and an instruction is enabled
when the challenge it recomputes *from the current state* is in that set. Late,
repeated and reordered submissions need no further action. A bundle is one
signed request with several legs, each submitted on its own.

`SessionKeys` (sessions of an ephemeral key) and `Recovery` (primary recovery,
quorum sessions, passkey and OIDC sessions) extend `PolicyEngine`: their
next-state relation is a step of the engine or a step of their own, so rule
edits, pauses and sessions interleave.

Abstractions. Hashes are collision free (the hash of a configuration is the
configuration, without the lists of a recovery rule, which the code does not
hash). Keys, digests and destinations are model values. Times and bucket lengths
are scaled down. Integers keep saturation (`U64Max`) and the cast of the session
index to eight bits. `hist`, `seen`, `at`, `applied`, `recoveries` and similar
fields are history: no guard reads them.

### Workers of the gateway

`Leader`: replicas, the advisory lock, the session it lives on, the heartbeat.
Losing the session frees the lock on the server and leaves the worker running.

`FutureSign` extends `Leader`. A statement on the trigger table is an action;
between two of them a loop keeps the reading of the clock its tick began with
and the trigger it claimed. Every replica whose worker runs has its loops, so a
leader without a lock works beside its successor.

`PriceTriggers` (`oraclemonitor`): a watcher's tick reads Hermes, lists the due
triggers, claims them one by one and fires; two watchers may run at once. Prices
are exact small numbers, so the band and its hysteresis are compared as the code
compares them. Another loop expires what waits too long and ends what a watcher
left in `firing`.

`OracleFeeds` (`oraclerelay` and the adapter's `RefreshFeed`): the account of
Pyth, the cache on the chain and the row of the feed. A refresh names the account
and not the price, so what enters the cache is the price at execution. The guards
on lag and deviation and their streak live in the memory of a process and are
lost when it stops.

`AuditChain`: appends take a lock per tenant and a number from a sequence, and
commit later; signers claim batches of committed rows; a reader pages by number;
the archive worker uploads and then records.

`Webhooks`: endpoints, one row per event and endpoint, claims in the memory of a
replica with the attempt they were given, leases that run out, the sweeper.
Time is reduced to what it decides: whether a row is due, whether a lease is
over. A lease running out under a live claim is bounded by `MaxLate`; it can
happen because a batch of 100 waits in a queue of 20 workers with a 10 s timeout
each under a 60 s lease.

`SwapRouter` is the stateless builder of `intents-backend`: which routes of the
aggregator it accepts, which bytes it gives to be signed, what it makes of the
nodes' answers. `Intents` drives it: prepare, challenge, submit and the
reconciler as sequences of statements over one table, with the transactions and
nonces of the wallet on each family of chains. A submit works with the row it
loaded, which may be out of date when it writes.

`MCWorkers` composes these. The parts share no rows, so a behaviour of all of
them is one behaviour of each: a variable `part` names the one that moves, and
the others stay in their initial state. The election is once more instantiated
by itself (`Election == INSTANCE Leader WITH ...`) with three replicas and more
faults than the future-sign loops could be explored with.

### In front of the gateway's handlers

`PolicyApi`: an operation is described by what its challenge endpoint puts into
the preimage, what its submit endpoint rebuilds, what instruction it sends, and
what the program recomputes from the instruction and its accounts; these are
separate definitions because they are separate code. Clients ask, sign, submit
again, and may change the body in between; another client moves the engine.
`SignAndSend` of the gas sponsor is part of the submit: preflight, send, lost
answers.

`Presign`: the Redis commands of the prefetch, with locks and entries that
expire, epochs of the network and a submit that takes the result out.

`Admission`: API key, token bucket (a script, hence one step), circuit breaker.

`Risk`: rows with columns that may be NULL, the statements that edit them, the
ingestion of a feed with its guards, an evaluation that reads four sources one
by one in any order.

`ChainEvents`: the node's notifications, one per subscription that a transaction
mentions and in no order between two of them, the listener on the leader, the
limiter per tenant, and the fan-out in separate statements.

`Idempotency`: one cache key, several requests; each Redis command and the
handler are separate actions; commands fail, replicas stop, lock and entry
expire. The lock remembers who took it only for the reader: the code's `Del`
does not compare.

`MCGateway` composes these six in the same way as `MCWorkers`.

### Metering

`Metering` is the middleware chain of a request around the token ledger. A
database transaction is one step, since `ConsumeTokensV2` locks the subscription
row; the steps of requests and retries interleave. `TokenAccount` states what
this promises: an operation is debited once, in full and only if covered, and
refunded once, never above its debit. `Metering` implements it under the mapping
`balance` = live credits + rest of the month + rest of the overage cap, counting
a period that is over as already rolled; `paid` and `given` from the ledger;
`terms` from time, settings, subscriptions and credits.

### Backend

`Billing` has one customer with checkouts, gift cards and overage, and a Stripe
that delivers events at least once, in any order, to concurrent requests.
`Accounts` has one mail address, one identity at a provider and one
administrator; a request is a sequence of statements. `Notices` has one price,
one subscription, the workers that apply, mail and alert. `MCBackend` composes
them in nine parts (two checkouts; a gift card; overage; passwords; identities;
the administrator; prices; mails; alerts).

Every definition that models code is in `PROJECT.json` under `map`, with its
lines. A definition marked *Seeded fault* is a plausible mistake in the
definition that follows; with it in place, the property listed in `mutants`
fails.

## 3. Runs

Bounds are named constants. `CHECK_DEADLOCK FALSE` is set everywhere since an
owner, tenant, customer or client may stop asking at any time, and every history
is bounded.

| Run | Asks | Bounds, and why they are enough |
|---|---|---|
| EngineAdmin | do adds, edits, removals and pauses, submitted late or twice, keep table and accounts in step, act once, and name the rules by their generation? | 2 slots, 2 kinds, 4 commands, 1 request: add, edit, remove and re-add fit, with a request signed before any of them |
| EngineRules | is every approval under an FHE rule backed by the decision of a listed authority, and does spending per transaction, day and week stay within its caps, summed over the history? | the seven kinds that EngineAdmin leaves out, one slot, 3 commands (a rule, an entry of its list, its removal), two legs of one bundle submitted on either side of a day boundary, two prices |
| SessionPaths | uses, deadline and amount of a grant hold and owner and session share a velocity window (`SessionWithinLimits`); an ended session never signs and a session command acts once (`SessionEndsOnce`); nothing is signed while paused | a session-key and a velocity rule, one index that is reused after close, revoke and expiry, two messages against a window that admits one, a grant too small for the amount asked |
| RecoveryPaths | a quorum recovery is endorsed by the threshold of the members, both as they stood when it was opened; primary and quorum together stay within the daily limit; nothing is recovered while paused | threshold 2 of two members (one by passkey), 4 commands so that the list is edited in flight, two primary signatures against a limit that admits one, two days |
| RecoveryEphemeral | passkey and OIDC sessions stay within what was signed; an OIDC signature obeys the allowlist | both schemes, an allowlist before and after the recovery slot |
| Workers | the lock is held exactly by a worker on a live session; a claim is exclusive, a row truthful, an end final; the feed's row is never ahead of the chain; the audit chain does not fork; a lease excludes and dead letters are earned; every part catches up | 3 candidates and 4 faults for the election; 2 replicas, watchers, signers, hook workers for the rest, one or two items of work and one or two faults each: a second worker takes over what a first one left. A lag of 1 and 3 units of time let a price become too old and a new one arrive; a streak of 3 rejections is reached |
| Gateway | challenge, submit and program agree and what lands is what was signed, once; a presign is used once, fresh and not replaced; calls stay within the rate; the risk answer is honest; what reaches the tenant is on the chain; an idempotency key is honoured | two clients over all operations, two submits of one of them with a body that may change; 2 jobs and 2 harvests over 2 epochs; a bucket of 2 refilled by 1; one evaluation of one destination with two tenants and one failure; 3 transactions, 2 programs, 2 endpoints, 2 reconnects or leaders; 3 requests, 2 bodies, 1 expiry |
| Metering | counters and ledger agree whatever charges, replays, refunds and rollovers come between; overage is last; the ledger implements `TokenAccount` | a request, its retry and an MCP call, each dearer than a month's allowance or a credit, so that charges spill from one bucket into the next; 2 subscriptions, 1 credit, a period that ends, 1 change of settings, 1 fault |
| IntentSwaps | each leg is sent once, the swap after its confirmed approve, one EVM transaction in flight; settled and failed are true; what is re-derived at the submit is what was signed | two EIP-1559 intents of one wallet that compete for its nonces, and one intent of any family with two submits and a fault |
| Backend | an event is applied once and a gift card spent once; what is reported to Stripe was billed; one token per rotation, one use per reset and code, a lockout that holds; a cancelled change is never applied, everybody is told, one alert per level | two checkouts or one and a gift card, 2 handlers, 1 failure and 1 stop; 2 requests, 3 tokens, 3 passwords, 2 accounts; 2 customers, 2 changes, 2 levels |

`SignatureKinds` of the intents includes `"bundle"`: `gateway/internal/intents/types.go:64`
documents it and the whole two-leg path of the orchestrator is written for it,
while the handler's validation refuses it; with it left out no intent of two legs
could be submitted and that path would go unchecked.

The largest runs (Backend, EngineRules, SessionPaths, Gateway) have about 2 million
states;
each run ends in at most a few minutes with two workers.

Two runs end in a counterexample and compare the code with a sentence of the
repository (`findings` in `PROJECT.json` quote it):

| Run | The code, against the sentence |
|---|---|
| AuditArchive | the record of an archive upload names a constraint that does not exist, so the same rows are uploaded at every tick |
| IdempotencyRace | the cache is not read again under the lock; the handler runs twice |

`mutants` in `PROJECT.json` lists one seeded fault per property. A property that
is a conjunction has faults for its other parts too; with each of these in place
of the definition that follows it, the run fails as well: `ReapRearms`
(`PriceTriggers`), `StreakForgotten` (`OracleFeeds`), `UnsignedAboveMark`
(`AuditChain`), `CountedNever` (`FutureSign`), `KeptLock` (`Leader`),
`SessionAdminSameNonce` (`PolicyApi`), `LockForDispatch` and `WriteAnyEpoch`
(`Presign`), `DenylistUnreadIsNone` (`Risk`), `RestartNotification`
(`ChainEvents`), `SameRequestAlways` and `GetIgnoringOthers` (`Idempotency`),
`opIDOfSubscription` (`Metering`), `RefundWithoutRedeemedCheck` (`Billing`),
`LockIgnored`, `ConsumeNothing` and `WindowWritten` (`Accounts`),
`MarkWhenListed` and `MarkAgain` (`Notices`), `StuckSessionNonce`
(`SessionKeys`), `EnforcedBeforeSkip` (`PolicyEngine`).

### Other places where the code and a sentence part

Met while modelling. The modules follow the code; no run is spent on them.

Policy engine:

- velocity windows tumble (`contracts/policy-engine/src/lib.rs:1845`), while the
  contract's README calls them rolling (line 14); `VelocityBounded` states the
  bound that does hold, `2 * cap - 1` in any stretch of a window's length;
- a spending rule without feeds rejects every request (`lib.rs:2099-2103`); the
  comments at `lib.rs:3621` and `5172` say it enforces nothing;
- a session's nonce restarts when its address is opened again (`lib.rs:6095`),
  against "single-use" at `lib.rs:6918`; `SessionAdminOnce` is stated per opened
  session;
- the session index is cast to `u8` before it is compared with `max_sessions`
  (`lib.rs:6016`), which is documented as its bound (`lib.rs:917`, `4073`);
- a quorum is bound to the address of its rule (`lib.rs:7866-7872`), which a rule
  removed and added again keeps; `QuorumEndorsed` speaks of the threshold and the
  members the session copied when it was opened;
- the seed of a quorum session is chosen by the caller (`lib.rs:7533`) and not
  taken from the counter described at `lib.rs:1229`;
- `recover_as_primary` (`lib.rs:7321-7522`) enforces no cooldown, which the
  contract's README lists (line 34).

Workers:

- a worker goes on after its lock is lost (`leader/leader.go:133-147`), against
  "the loop exits" at `leader.go:18`;
- a tick of the slot-time loop that meets a trigger not yet due releases and
  claims it again for ever, and a due trigger behind it never fires
  (`futuresign/watcher.go:122`), against "fires the signature when the condition
  matches" (`README.md:104`);
- a completion whose answer is not read is requested again
  (`futuresign/watcher.go:311-339`), against "no double-fire" at
  `watcher.go:69-70`; `CompletionsAccounted` bounds how often;
- a failed trigger may be claimed again in the same tick (`watcher.go:183-215`),
  not "on the next tick" (`futuresign/store.go:221-222`);
- the signing path refuses every unattended request of the watcher
  (`FireRequestSignature`, `policy/submit.go:967`), so no price trigger ends in a signature, which
  `oraclemonitor/types.go:6-8` promises; a trigger given up by the reaper may have landed;
- the deviation guard tests the price that was read, while the transaction takes
  the price at its execution (`oraclerelay/watcher.go:348-353`); a record of a
  refresh may write an older price over a newer one (`oraclerelay/store.go:135`);
  a feed deleted and registered again forgets its pause;
- an audit entry that commits below the archive's cursor is never archived
  (`audit/snapshot.go:204-212`), and rows are archived before they are signed;
- a webhook worker past its lease may return a delivered row to `pending`
  (`webhooks/store.go:269-288`), although the lease is called the authority
  (`webhooks/store.go:160-161`);
- a transaction that mentions two programs is notified and published twice
  (`webhooks/listener.go:102-103`), against "exactly once"
  (`gateway/cmd/server/main.go:247-250`);
- the reconciler calls a row in `AUTHORIZING` or `SIGNING` safe to fail
  (`intents/reconciler.go:90`), but a slow submit then writes `BROADCASTING`
  over it; a stale row written by the sweep may erase a hash
  (`reconciler.go:112`); an unknown broadcast without a hash is never resolved
  (`reconciler.go:138-141`); "already processed" from a Solana node counts as a
  rejection and "nonce too low" from an EVM node as sent
  (`intents-backend/internal/chains/evm_rpc.go:112`). `VerdictsTrue` is stated
  for what remains true under all of these.

In front of the handlers:

- a swap is authorised with generation 0 (`policy/authorize_swap.go:108`, `126`,
  `220`), which the program refuses once a rule was ever changed
  (`lib.rs:2720-2724`); an added rule is submitted with generation 1; a default
  recovery, which the init endpoint's body has a field for (`policy/routes.go:376`),
  is refused (`policy/ix_engine.go:29`);
- the reads of an engine return the engine's nonces (`policy/read.go:120-123`,
  `codecs.go:71-74`) where the recovery endpoints check those of the rule
  (`lib.rs:7374`, `7578`, `8083`);
- a half-open circuit breaker lets every call through (`Target.Allow` asks for the
  state and takes no slot) and not "one probe request" (`upstream/upstream.go:91`);
- no risk feed is ever ingested: the row seeded for it holds NULLs that its
  reader cannot scan (`store/risk_feed_runs.go:29`, `risk/ingest.go:190-196`),
  against `ingest.go:106-108`; a denylist entry without a reason makes the whole
  source fail; the allowlist lowers nothing (`risk/sources.go:171`);
- the presign cache compares epochs and writes in two steps, releases a lock
  without asking whose it is, and goes on without a lock when Redis fails.

Metering and backend:

- a retry with the key of a refunded operation is answered from the ledger
  without a debit, and a refund after a rollover or a change of plan does not
  return to its bucket (`gateway/README.md:272`, `:274`); the properties say what
  the ledger does record;
- a failed statement under a Stripe event is answered with 200
  (`billing/webhook.go:225-231`, "Stripe will retry"), and a stop between the mark
  and the handler loses the event (`api/billing.go:265-284`);
- the key of an overage report holds the amount, so a report repeated after more
  usage is billed beside the first (`notifications/overage_worker.go:89-95`,
  "never double-bill"); `ReportedWasBilled` states the other direction, which holds;
- a rollover resets the overage used and not the overage reported
  (`store/consume.go:118-139`);
- revoking a user's refresh tokens does not reach one that is being rotated
  (`store/auth_pg.go:252`, `267`), so a session may outlive a log-out or a reset;
  a log-in that verified the old password may end after the reset;
- the reader of a lockout clears a newer lock (`auth_pg.go:75-83`); an identity
  may be linked to a deleted account (`store/postgres.go:163`);
- a price change that failed once is applied later, over a newer one; a worker
  that stops starts again with the first recipient of a notice.

### Fairness

Clocks, tickers and polls come round; every call has a timeout, so what is taken
up is gone on with; a supervisor restarts a stopped process; a deadline comes;
a transaction that a node took is mined. Each is weak fairness of the step.
Strong fairness is assumed of two loops that others' steps disable now and then:
the expiry statement of `FutureSign`, which the database serialises with the
claims it competes with, and the crank of `OracleFeeds`. It is also assumed of a
deciding answer of a tenant's callback: one that defers for ever is the tenant's
choice and excluded. Nothing makes a fault happen, and their number is bounded
so that they end.

The modules state this per process or row. `MCWorkers` states it per kind of step,
with the existential over processes inside, which assumes less: some process gets
its turn. One property, `WorkersCatchUp`, says that each part is caught up again
and again; as the work given to each is bounded, it finishes all of it.

## 4. Proofs

The modules `*_proofs` hold theorems checked by TLAPS. Each speaks of the
specification of a component for every value of its constants: any number of
slots, processes, rows, requests, faults and any bound. A theorem follows one
pattern: an inductive invariant is shown to hold at first, to be kept by every
step, one lemma per action or group of actions, and to imply the property; PTL
puts the three together. Every property of an invariant kind that a run checks
has its theorem, except the ones named at the end of this section.

### Policy engine (`PolicyEngine_proofs`, `SessionKeys_proofs`, `Recovery_proofs`)

| Theorem | States | Inductive invariant and argument |
|---|---|---|
| TypeCorrect | `TypeOK` | inductive as it stands; each instruction writes a configuration of its kind (`NewConfigsAreConfigs` and the lemmas on updates) |
| HeadersStayMirrored | `HeadersMirrored` | with `TypeOK`: an add finds the account absent, an edit writes both copies, a removal clears both |
| SlotsStayConsistent | `SlotsConsistent` | with `TypeOK`; an add makes one slot live and finds its kind unused, a removal empties one, so count and cardinality move together |
| CommandsOnce | `CommandsAppliedOnce` | `AppliedInv`: the applied set is finite and its nonces are naturals below the current one, so the command being applied is a new element |
| GenerationNamesRules | `GenerationIdentifiesRules` | `GenerationInv`: a rule change raises the generation above every signed one, and a signature changes counters only, which the view does not show |
| ApprovalsUnderSeenRules | `ApprovedUnderSeenRules` | from the previous one at the moment of approval |
| DecisionsBackApprovals | `DecisionBacked` | the same way: decisions are never unsigned, and the authorities of the gate are among what the signer saw |
| SpendingStaysWithinCaps | `SpendingWithinCaps` | `CountersOK`: the running sum of a sub-account is the sum of the history over the bucket the clock is in. The sums are folds over a history; `PartialSums` gives the fold as a function of the length, and facts about it are shown by the least length at which one fails (`LeastNat`), since induction theorems cannot be used |
| SessionsEndOnce | `SessionEndsOnce` | `SessionInv`: sessions carry the admin nonce that opened them as identity, all identities in the histories are below the next one, a session that ended has no time left, and its own nonce is above every one it consumed |
| PauseStopsSigning | `PausedStopsSigning` (action) | from the guards and `SessionInv`: no other step adds an approval or a session |
| SessionsWithinLimits | `SessionWithinLimits` | `SessionInv`: the counter of a session is the number of messages in its history; with `CountersOK` for the velocity windows, whose steps are those of the engine (`EngineShape`) |
| QuorumsAreEndorsed | `QuorumEndorsed` | `RecoveryInv`: the counter of a quorum session is the cardinality of its bitmap, each bit has an endorsement of this very message, and the session copies the roster and threshold of its opening |
| RecoveryStaysWithinLimit | `RecoveryWithinDailyLimit` | `RecoveryInv`: the day's counter is at least the recoveries of the day, of both kinds |
| EphemeralsStayWithinGrant | `SessionsWithinGrant` | `RecoveryInv`: a session carries the grant that opened it; the slot that the dispatcher skips holds the recovery rule |
| PauseStopsRecovery | `PausedStopsRecovery` (action) | as above |

The instructions are grouped into shapes (add, update, remove, other command,
signature, recovery, environment). A lemma shows that every step of `Next`, of
`SessionNext` and of `RecoveryNext` has one of them, and the invariants of the
engine are proved once per shape; that is how they are inherited by the two
modules that extend it.

### Workers (`Workers_proofs`, `Intents_proofs`)

| Theorem | States | Inductive invariant and argument |
|---|---|---|
| ElectionIsGuarded | `ElectionGuarded` | `ElectionInv`: a replica has a connection only while its worker runs, and the holder is the one whose connection is up |
| TriggerRowsAreTrue | `TriggerRowsTrue` | `FutureSignInv`: a loop that holds a trigger finds it `firing` under its claim; the completions of a row are covered by its retries and the statements that failed |
| EndedTriggersStayEnded | `EndedStaysEnded` (action) | from `FutureSignInv`: every statement that writes a row requires a status that is not final, or comes from the loop that holds the claim |
| FiringIsExclusive | `FiringExclusive` | `PriceTriggersInv`: one watcher at a time is at work on a trigger in `firing`, and fires are counted against the retries |
| RowStaysBehindChain | `RowBehindChain` | `FeedsInv`: publish times of the account, the cache and the row are ordered, and what a crank is about to record lies between the row's and the cache's |
| ChainIsKept | `ChainKept` | `AuditInv`: at most one append of a tenant is open, entries are linked in the order of their numbers, batches of signers are disjoint, a page that was read is complete below its cursor |
| DeliveryIsSafe | `DeliverySafe` | `HooksInv`: claims of a row carry distinct attempts not above the row's; while no lease ran out under a live claim, a claim owns its row |
| LegsGoOutInOrder | `LegsInOrder` | `IntentsOK`: one request at a time holds the claim of an intent (`HolderOK`), and what it has not sent nobody has (`LegsOK`). `OneEvm` adds that two open intents of one wallet cannot both be on EVM |
| VerdictsAreTrue | `VerdictsTrue` | `IntentsOK`: `VerdictOK`, and `StatusOK` for what the row knows as long as nobody wrote over it and no statement was lost |
| RevalidationAccepts | `RevalidationAgrees` | `RowsOK`: each stored row is accepted, and no step changes what revalidation reads |

### Gateway (`Gateway_proofs`)

| Theorem | States | Inductive invariant and argument |
|---|---|---|
| KeyIsHonoured | `KeyHonoured` | `IdemInv`: the cache holds an answer the handler gave to the body whose hash it holds (`CacheTrue`); until something runs out in Redis, who is past the middleware holds the lock (`HolderInside`), and a request that came after a stored answer stays outside (`LateOutside`) |
| PresignIsSafe | `PresignSafe` | `PresignInv`: a presign is in one place (cache, submit or handed out); while Redis answers, a dispatch under way has the lock, and a cached presign expires no later than it (`LockCovers`); the epoch key is not behind a completed observation unless two raced (`EpochsKept`) |
| RateStaysBounded | `RateBounded` | `RateInv`: counted from any call on, tokens and calls let through are paid for by the burst and the time gone (`BucketPays`); a refill that is cut at the burst pays less |
| AdvisoryIsHonest | `AdvisoryHonest` | `RiskInv`: what each source said so far is bounded by what the destination was throughout the call and at some moment of it |
| RelayIsFaithful | `RelayFaithful` | `RelayInv`: what waits on the connection is in the order of the chain, and behind what was published of it; so the repeats of a line at an endpoint map injectively to the subscriptions its transaction mentions |
| EndpointsAgree | `RoundTripAgrees` | `ApiInv`, for the engine's counters being numbers and for what a client holds being what it read; then one lemma per family of operations (`Agrees`): preimage, instruction and recomputation unfolded from the three pieces of code and compared |
| SignaturesTakeEffectOnce | `EffectAsSigned` | `ApiInv`: whatever landed is bound to something that is spent, and stays so (`SpentBy`, `SpentStays`), because nonces and approvals only grow (`EngineGrows`, one lemma per instruction) and an instruction bound to something spent is refused. The payload of what the node takes is that of the preimage (`SignedNamesPayload`); a submit has a number of its own, so one reported as refused is not another that was sent |

The bound to what is spent differs by operation: the admin nonce, the nonce of a
session within its life, the number of a quorum or passkey session, the vote, or
for signatures and recoveries the message, which is approved once. A revocation
names no payload, so a changed body still revokes; `LandedAsSigned` leaves it out.

### Token ledger (`Metering_proofs`)

| Theorem | States | Inductive invariant and argument |
|---|---|---|
| LedgerStaysConsistent | `LedgerConsistent` | `MeterInv`: the types with one active row, the last (`SubsOK`), no credit consumed above its amount and `exhausted` exactly when it is spent (`CreditsOK`), each charge a row with a positive cost whose period is not after its subscription's (`LedgerOK`), and the two sums of `LedgerConsistent` itself. `ReqInv` ties a request to the row it was charged with, and each refund to a request that gave it back |
| OverageComesLast | `OverageLast` (action) | from `MeterInv` and what a plan of `allocateConsumption` satisfies (`PlanOK`): it splits the whole cost, takes from a live credit no more than it has left, and puts something on overage only when allowance and live credits are taken whole |
| LedgerIsAnAccount | `MeteringImplementsAccount` | each step of `Metering` is a `Charge`, a `Refund`, an `Adjust` or a stutter of `TokenAccount`, the invariant holding on both sides. A charge takes its cost from `Available` bucket by bucket; a refund returns at most what was paid, since a credit that ended in between, or a month that rolled over, gets nothing spendable back |

Balance and charge are sums over sets of rows, folded in the model. What a fold
computes cannot be shown by the library's induction theorems, so the first part
of the module proves what is needed of `Total` (the empty sum, one more element,
sums of equal, of smaller and of split functions) over finite sets by a minimal
counterexample: the least set at which a fact fails has an element, and without it
the fact holds. The greedy split is treated the same way: of a set of credits that
holds whatever comes before its members, the last is the one taken out (`Greedy`).

### Backend (`Backend_proofs`)

| Theorem | States | Inductive invariant and argument |
|---|---|---|
| PaymentsAreTakenOnce | `PaymentsOnce` | `BillOK`: a paid checkout is one event, a marked event is in the hands of one request, and once a checkout was applied no request still holds its event in a place from which it could remove the mark; refund and redemption of a card each require that the other did not happen |
| ReportsWereBilled | `ReportedWasBilled` | `BillOK`: a key that Stripe has seen stands for an amount already billed, so a repeated report adds nothing and the worker advances the row by what was billed |
| PromisesAreKept | `NoticesKept` | `NoticesOK`: a change is written exactly when it leaves `pending` for `applied`; whoever is owed a notice is mailed or left to be mailed; the alert the worker owes is on record and did not go out |
| CredentialsAreUsedOnce | `AccountsKept` | `AccountsOK`: a request with a reset token has it to itself; the chain of a login's tokens has one end; no window after the last one served a login. The bound on guesses is a potential over the failed counter, the requests verifying and the requests about to clear a lock (`Guessed`), kept in doubled form to avoid the division |

Working on these proofs corrected the model in several places. The bound of
`LockoutHolds` was right for a threshold of one only: each request under way may
hold on to an old lock and take a newer one away once, which starts the
threshold again, so with R requests the bound is
`R * threshold + R * (R - 1) \div 2`. A lockout that cannot be read is treated
as none (`backend/internal/api/auth_session.go`), which the model had left out.
The history of admitted calls was too coarse to state the rate between any two
of them. Two notifications of one transaction were in the order of their
subscriptions, which no node promises.

### Assumptions

The theorems rest on the named `ASSUME`s of the modules and on nothing else;
TLC evaluates each in a run. They say that masks are non-empty sets of paths,
windows, buckets and lifetimes have positive length, ceilings, amounts and prices
are naturals, the bound on subscriptions leaves room for the first one, sets of slots, members and requests are finite, retry limits are
positive, and that the placeholders for "nobody" and "nothing" are not
themselves among the replicas, requests, checkouts or appenders. Each is what
the validation of the code or the type of the field guarantees.

Two bounds are stated below the limit of the type. Counters saturate at
`U64Max`, so a velocity window whose cap is `U64Max` and a ceiling of that size
bound nothing, in the code as in the model; the properties leave them out.

### Only model-checked

- Liveness (`WorkersCatchUp`), since fairness and `ENABLED` are outside the
  prover.
- The two runs that expect a violation.

## 5. Not modelled, and why

Byte-level code (precompile parsing, WebAuthn, JWT, RSA, instruction encoding,
chain codecs, the aggregator's client), the user interface, deployment, metrics,
and handlers that read or write one row. `contracts/jwk-registry` with its
rotator and the OAuth codes are state machines of two steps each and are left
out. `ika-backend` and `encrypt-backend` appear as the outcomes their callers
see. Rent, account sizes and transaction limits of Solana are left out. The
policy endpoints of velocity, time-lock, passkey and FHE rules repeat the shape
of those in `PolicyApi`. A webhook worker's failure statistics and the usage
recorder, whose events may be dropped, decide nothing.

A trigger left in `firing` by a process that stops, or by a statement that fails,
is reachable in `FutureSign`. No code returns it to `armed`; `PolledTriggersEnded`
names this state (`Stranded`) as the only one in which a trigger does not end.
Once an idempotency lock has expired under a slow handler, or a replica stops
after the handler acted, a second run is possible; `OneInside` and
`RetryNeverRuns` are conditioned on nothing having expired. In `Risk` the branch
that accepts an ingested file is never taken, and in `Intents` the branch that
finds a two-minute-old prepared intent with a live quote is not either: the first
because of the NULLs above, the second because a quote lapses earlier.

## 6. Plan

`JwkRegistry` composed with the rotator, and the OAuth codes.
