-------------------------------- MODULE Risk --------------------------------
(***************************************************************************)
(* The gateway's advisory risk layer (gateway/internal/risk, the risk_*    *)
(* tables of gateway/internal/store, gateway/internal/policy/risk_*.go):   *)
(* tenants edit a denylist and an allowlist, the leader ingests feeds of   *)
(* malicious addresses into a global blocklist, and an evaluation reads    *)
(* the four sources concurrently while those edits go on.                  *)
(*                                                                         *)
(* Columns that may be NULL are modelled as they are: pgx refuses to scan  *)
(* a NULL into a Go string, so a row whose text column is NULL reads as an *)
(* error and not as a row.  A destination or tenant is a model value that  *)
(* NormalizeAddress maps to itself; wording of reasons is left out.        *)
(***************************************************************************)
EXTENDS Integers, FiniteSets

CONSTANTS
    Tenant, Destination, Feed,
    Content,              \* what a feed may serve: [hash, entries, parses]
    Evaluation,           \* concurrent calls of evaluateRisk
    VariationThreshold,   \* VariationThresholdPercent
    MaxRiskFaults         \* bound: store reads and downloads that fail

VARIABLES
    denylist,    \* [Tenant \X Destination -> {"absent", Null, "text"}]: the reason column
    allowlist,   \* the same table shape
    config,      \* the risk_config row of the dWallet: [tenant, warn], tenant Null when no row
    defaults,    \* [Tenant -> warn level of risk_tenant_defaults], Null when no row
    feedRun,     \* [Feed -> row of risk_feed_runs]
    blocklist,   \* the destinations of risk_blocklist
    eval,        \* [Evaluation -> progress of a call]
    riskFaults

riskVars == <<denylist, allowlist, config, defaults, feedRun, blocklist, eval, riskFaults>>

Null == "null"
Levels == <<"none", "low", "medium", "high", "critical">>
Level == {Levels[i] : i \in 1..5}
LevelToInt(level) == CHOOSE i \in 1..5 : Levels[i] = level
IntToLevel(n) == Levels[n]
Source == {"blocklist", "tenant_denylist", "tenant_allowlist", "dest_history"}

NoConfig == [tenant |-> Null, warn |-> Null]
IdleEval == [pc |-> "idle"]
NoRow == [seeded |-> FALSE]
SeededRow == [seeded |-> TRUE, success |-> FALSE, errorMsg |-> Null, count |-> 0, hash |-> Null]

RiskFault == riskFaults < MaxRiskFaults /\ riskFaults' = riskFaults + 1

RiskInit ==
    /\ denylist = [k \in Tenant \X Destination |-> "absent"]
    /\ allowlist = [k \in Tenant \X Destination |-> "absent"]
    /\ config = NoConfig
    /\ defaults = [t \in Tenant |-> Null]
    /\ feedRun = [f \in Feed |-> NoRow]
    /\ blocklist = {}
    /\ eval = [e \in Evaluation |-> IdleEval]
    /\ riskFaults = 0

-----------------------------------------------------------------------------
(* The tenant's lists. *)

\* INSERT ... ON CONFLICT DO UPDATE SET reason = COALESCE(NULLIF($3, ''), reason)
UpsertEntry(row, reason) == IF reason = "text" \/ row = "absent" THEN reason ELSE row

\* DELETE ... WHERE tenant_id = $1 AND destination = $2
RemoveEntry(list, t, d) == [list EXCEPT ![<<t, d>>] = "absent"]

\* A list row as GetDenylistEntry and GetAllowlistEntry return it.
ReadEntry(row) ==
    CASE row = "absent" -> "nil"
      [] row = Null     -> "error"
      [] OTHER          -> "entry"

\* The ghost fields of the running evaluations follow the denylist: denied at
\* every moment since the call began, denied at some moment.
Watched(deny, e) ==
    IF eval[e].pc # "reading" THEN eval[e]
    ELSE LET now == deny[<<eval[e].tenant, eval[e].dest>>] # "absent"
         IN  [eval[e] EXCEPT !.always = @ /\ now, !.once = @ \/ now]

\* The row is written even when RETURNING reason reads NULL and the call answers 500.
addToDenylist(t, d, reason) ==
    /\ denylist' = [denylist EXCEPT ![<<t, d>>] = UpsertEntry(@, reason)]
    /\ eval' = [e \in Evaluation |-> Watched(denylist', e)]
    /\ UNCHANGED <<allowlist, config, defaults, feedRun, blocklist, riskFaults>>

removeFromDenylist(t, d) ==
    /\ denylist' = RemoveEntry(denylist, t, d)
    /\ eval' = [e \in Evaluation |-> Watched(denylist', e)]
    /\ UNCHANGED <<allowlist, config, defaults, feedRun, blocklist, riskFaults>>

addToAllowlist(t, d, reason) ==
    /\ allowlist' = [allowlist EXCEPT ![<<t, d>>] = UpsertEntry(@, reason)]
    /\ UNCHANGED <<denylist, config, defaults, feedRun, blocklist, eval, riskFaults>>

removeFromAllowlist(t, d) ==
    /\ allowlist' = RemoveEntry(allowlist, t, d)
    /\ UNCHANGED <<denylist, config, defaults, feedRun, blocklist, eval, riskFaults>>

\* The store validates block_level and fail_mode too, and StoreAdapter leaves both empty.
AdapterBlockLevel == ""
AdapterFailMode == ""
ValidConfig(warn, block, failMode) ==
    warn \in Level /\ block \in Level /\ failMode \in {"open", "closed"}

\* ON CONFLICT ... WHERE risk_config.tenant_id = EXCLUDED.tenant_id
UpsertRiskConfig(t, warn) ==
    IF ValidConfig(warn, AdapterBlockLevel, AdapterFailMode) /\ config.tenant \in {Null, t}
    THEN [tenant |-> t, warn |-> warn] ELSE config

updateRiskConfig(t, warn) ==
    /\ config' = UpsertRiskConfig(t, warn)
    /\ UNCHANGED <<denylist, allowlist, defaults, feedRun, blocklist, eval, riskFaults>>

deleteRiskConfig(t) ==
    /\ config' = IF config.tenant = t THEN NoConfig ELSE config
    /\ UNCHANGED <<denylist, allowlist, defaults, feedRun, blocklist, eval, riskFaults>>

updateTenantDefaults(t, warn) ==
    /\ defaults' = IF ValidConfig(warn, AdapterBlockLevel, AdapterFailMode)
                   THEN [defaults EXCEPT ![t] = warn] ELSE defaults
    /\ UNCHANGED <<denylist, allowlist, config, feedRun, blocklist, eval, riskFaults>>

-----------------------------------------------------------------------------
(* Ingestion, on the replica that leads. *)

SeedFeedRuns(f) ==
    /\ ~feedRun[f].seeded
    /\ feedRun' = [feedRun EXCEPT ![f] = SeededRow]
    /\ UNCHANGED <<denylist, allowlist, config, defaults, blocklist, eval, riskFaults>>

\* ClaimDueFeedRuns: never succeeded, or succeeded long enough ago.
Due(f) == feedRun[f].seeded

\* GetFeedRunState scans last_error_msg and content_hash into strings.
RunStateReadable(row) == row.errorMsg # Null /\ row.hash # Null

\* What an upsert leaves: an error keeps count and hash, and the first error
\* message is never cleared.
UpsertFeedRunState(row, success, msg, count, hash) ==
    [row EXCEPT !.success  = @ \/ success,
                !.errorMsg = IF msg = Null THEN @ ELSE msg,
                !.count    = IF count > 0 THEN count ELSE @,
                !.hash     = IF count > 0 THEN hash ELSE @]

\* The share by which the number of entries changed, against the threshold.
VariationExceeded(row, entries) ==
    LET new == Cardinality(entries)
        old == IF row.count = 0 THEN 1 ELSE row.count
    IN  IF new > old THEN (new - old) * 100 > VariationThreshold * old
        ELSE new = 0 \/ (old - new) * 100 > VariationThreshold * new

\* parseFeed: the addresses of a JSON or line feed, or an error.
parseFeed(content) == [ok |-> content.parses, entries |-> content.entries]

\* The content is taken up when the row can be read, the content parses and,
\* for a content other than the last one, its size is near the last one's.
Accepted(row, content) ==
    /\ RunStateReadable(row)
    /\ parseFeed(content).ok
    /\ row.hash = content.hash \/ ~VariationExceeded(row, parseFeed(content).entries)

\* upserted: the entries whose upsert succeeds.
ingestFeed(f, content, upserted) ==
    /\ Due(f) /\ upserted \subseteq parseFeed(content).entries
    /\ LET row == feedRun[f]
       IN  IF Accepted(row, content)
           THEN /\ blocklist' = blocklist \cup upserted
                /\ feedRun' = [feedRun EXCEPT ![f] =
                     UpsertFeedRunState(row, TRUE, Null, Cardinality(upserted), content.hash)]
           ELSE /\ blocklist' = blocklist
                /\ feedRun' = IF RunStateReadable(row)
                              THEN [feedRun EXCEPT ![f] = UpsertFeedRunState(row, FALSE, "text", 0, Null)]
                              ELSE feedRun
    /\ UNCHANGED <<denylist, allowlist, config, defaults, eval, riskFaults>>

\* downloadFeed fails (guard, breaker, status, size, content type).
downloadFails(f) ==
    /\ Due(f) /\ RiskFault
    /\ feedRun' = [feedRun EXCEPT ![f] = UpsertFeedRunState(@, FALSE, "text", 0, Null)]
    /\ UNCHANGED <<denylist, allowlist, config, defaults, blocklist, eval>>

-----------------------------------------------------------------------------
(* An evaluation.  verified: the simulator confirmed the digest, refused it, or was not asked. *)

\* The warn level of the dWallet, else of the tenant, else medium.
resolveConfig(t) ==
    IF config.tenant # Null THEN config.warn
    ELSE IF defaults[t] # Null THEN defaults[t] ELSE "medium"

DecideAction(level, warn) == IF LevelToInt(level) >= LevelToInt(warn) THEN "warn" ELSE "none"

evaluateRisk(e, t, d, verified) ==
    /\ eval[e].pc = "idle"
    /\ LET now == denylist[<<t, d>>] # "absent"
       IN  eval' = [eval EXCEPT ![e] =
             IF verified = "mismatch"
             THEN [pc |-> "done", tenant |-> t, dest |-> d, verified |-> verified, always |-> now,
                   once |-> now, answer |-> [level |-> "high", action |-> "none", degraded |-> FALSE]]
             ELSE [pc |-> "reading", tenant |-> t, dest |-> d, verified |-> verified, always |-> now,
                   once |-> now, warn |-> resolveConfig(t), got |-> [s \in Source |-> "pending"]]]
    /\ UNCHANGED <<denylist, allowlist, config, defaults, feedRun, blocklist, riskFaults>>

\* Seeded fault: a list row that cannot be read counts as no row.
DenylistUnreadIsNone(e) ==
    IF ReadEntry(denylist[<<eval[e].tenant, eval[e].dest>>]) = "entry" THEN "critical" ELSE "none"

TenantDenylist(e) ==
    LET read == ReadEntry(denylist[<<eval[e].tenant, eval[e].dest>>])
    IN  CASE read = "entry" -> "critical" [] read = "nil" -> "none" [] OTHER -> "error"

TenantAllowlist(e) ==
    IF ReadEntry(allowlist[<<eval[e].tenant, eval[e].dest>>]) = "error" THEN "error" ELSE "none"

Blocklist(e) == IF eval[e].dest \in blocklist THEN "critical" ELSE "none"

\* No code of the gateway calls RecordDestinationUsage, so every destination is new.
DestHistory(e) == "low"

Evaluated(e, s) ==
    CASE s = "tenant_denylist"  -> TenantDenylist(e)
      [] s = "tenant_allowlist" -> TenantAllowlist(e)
      [] s = "blocklist"        -> Blocklist(e)
      [] s = "dest_history"     -> DestHistory(e)

\* One of the goroutines of aggregateSources reads its source.
ReadSource(e, s) ==
    /\ eval[e].pc = "reading" /\ eval[e].got[s] = "pending"
    /\ eval' = [eval EXCEPT ![e].got[s] = Evaluated(e, s)]
    /\ UNCHANGED <<denylist, allowlist, config, defaults, feedRun, blocklist, riskFaults>>

ReadSourceFails(e, s) ==
    /\ eval[e].pc = "reading" /\ eval[e].got[s] = "pending"
    /\ RiskFault
    /\ eval' = [eval EXCEPT ![e].got[s] = "error"]
    /\ UNCHANGED <<denylist, allowlist, config, defaults, feedRun, blocklist>>

\* Seeded fault: an allowlisted destination is answered as harmless.
AllowlistOverrides(e) ==
    IF allowlist[<<eval[e].tenant, eval[e].dest>>] # "absent" THEN 1
    ELSE LET got == eval[e].got
             levels == {LevelToInt(got[s]) : s \in {x \in Source : got[x] # "error"}}
         IN  CHOOSE n \in levels \cup {1} : \A m \in levels : m <= n

\* The highest level of the sources that answered: the allowlist lowers nothing.
maxLevel(e) ==
    LET got == eval[e].got
        levels == {LevelToInt(got[s]) : s \in {x \in Source : got[x] # "error"}}
    IN  CHOOSE n \in levels \cup {1} : \A m \in levels : m <= n

\* wg.Wait and the score; evaluateRiskAdvisoryCore passes level and reasons on, not the action.
AnswerEvaluation(e) ==
    /\ eval[e].pc = "reading" /\ \A s \in Source : eval[e].got[s] # "pending"
    /\ eval' = [eval EXCEPT ![e] =
         [pc |-> "done", tenant |-> @.tenant, dest |-> @.dest, verified |-> @.verified,
          always |-> @.always, once |-> @.once,
          answer |-> [level |-> IntToLevel(maxLevel(e)),
                      action |-> DecideAction(IntToLevel(maxLevel(e)), @.warn),
                      degraded |-> \E s \in Source : @.got[s] = "error"]]]
    /\ UNCHANGED <<denylist, allowlist, config, defaults, feedRun, blocklist, riskFaults>>

-----------------------------------------------------------------------------
RiskNext ==
    \/ \E t \in Tenant, d \in Destination :
          \/ \E reason \in {Null, "text"} : addToDenylist(t, d, reason) \/ addToAllowlist(t, d, reason)
          \/ removeFromDenylist(t, d)
          \/ removeFromAllowlist(t, d)
    \/ \E t \in Tenant, warn \in Level : updateRiskConfig(t, warn) \/ updateTenantDefaults(t, warn)
    \/ \E t \in Tenant : deleteRiskConfig(t)
    \/ \E f \in Feed : SeedFeedRuns(f) \/ downloadFails(f)
    \/ \E f \in Feed, c \in Content : \E ok \in SUBSET c.entries : ingestFeed(f, c, ok)
    \/ \E e \in Evaluation, t \in Tenant, d \in Destination, v \in {"match", "mismatch"} : evaluateRisk(e, t, d, v)
    \/ \E e \in Evaluation, s \in Source : ReadSource(e, s) \/ ReadSourceFails(e, s)
    \/ \E e \in Evaluation : AnswerEvaluation(e)

RiskSpec == RiskInit /\ [][RiskNext]_riskVars

-----------------------------------------------------------------------------
(* A destination that stayed on the tenant's denylist during the whole     *)
(* evaluation is answered "critical", or the answer says that some checks  *)
(* were unavailable, or that the transaction could not be verified; and    *)
(* "critical" is never answered for a destination that was neither denied  *)
(* at some moment of the call nor on the global blocklist (risk/service.go *)
(* Evaluate and aggregateSources, policy/submit.go                         *)
(* evaluateRiskAdvisoryCore).                                              *)
AdvisoryHonest ==
    \A e \in Evaluation : eval[e].pc = "done" =>
        LET a == eval[e].answer
        IN  /\ eval[e].always => \/ a.level = "critical" \/ a.degraded \/ eval[e].verified = "mismatch"
            /\ a.level = "critical" => eval[e].once \/ eval[e].dest \in blocklist

=============================================================================
