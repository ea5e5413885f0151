---------------------------- MODULE OracleFeeds ----------------------------
(***************************************************************************)
(* The feeds the gateway keeps fresh (gateway/internal/oraclerelay): the   *)
(* price account of Pyth, the cache of the adapter on the chain, the row   *)
(* of the feed in the gateway's store, the crank and the administrator     *)
(* that refresh it, and the refresh that every signature carries along.    *)
(*                                                                         *)
(* There is one feed.  A refresh instruction names the price account: what *)
(* enters the cache is the account's price when the transaction runs.      *)
(***************************************************************************)
EXTENDS Naturals, FiniteSets

CONSTANTS
    Relay,                    \* processes that run the service
    PythPrice,                \* canonical prices
    MaxDeviationBPS,          \* of 10000; 0 switches the guard off
    MaxDeviationRejectStreak,
    MaxFeedLag,               \* ORACLE_MAX_PUBLISH_LAG_SECONDS; 0 switches the guard off
    MinRefresh,               \* MIN_REFRESH_INTERVAL_SECONDS of the adapter
    MaxFeedTime, MaxFeedFaults  \* bounds

VARIABLES
    time,
    pyth,       \* the account: price and publish time
    cache,      \* the adapter's FeedCache
    feed,       \* row of oracle_feeds; exists = FALSE once deleted
    memory,     \* relay -> last accepted price (0 if none) and streak of rejections
    relay,      \* relay -> the refresh under way
    pausing,    \* the administrator's change of the pause
    feedFaults

feedVars == <<time, pyth, cache, feed, memory, relay, pausing, feedFaults>>

NoPrice == [last |-> 0, streak |-> 0]
Quiet == [pc |-> "idle"]

(* The cache is made by the registration of the feed, empty. *)
FeedInit ==
    /\ time = 1
    /\ pyth \in [price : PythPrice, publish : {1}]
    /\ cache = [price |-> 0, publish |-> 0, refreshed |-> 0, paused |-> FALSE]
    /\ feed = [exists |-> TRUE, last |-> 0, paused |-> FALSE]
    /\ memory = [r \in Relay |-> NoPrice]
    /\ relay = [r \in Relay |-> Quiet]
    /\ pausing = "no"
    /\ feedFaults = 0

FeedFault == feedFaults < MaxFeedFaults /\ feedFaults' = feedFaults + 1

MoveRelay(r, to) == relay' = [relay EXCEPT ![r] = to]

----------------------------------------------------------------------------
(* The adapter. *)

Acceptable ==
    /\ ~cache.paused
    /\ pyth.publish > cache.publish
    /\ time >= cache.refreshed + MinRefresh

refresh_feed ==
    [cache EXCEPT !.price = pyth.price, !.publish = pyth.publish, !.refreshed = time]

----------------------------------------------------------------------------
(* A refresh by the crank, which takes the feeds that are not paused, or by *)
(* the administrator, who may force any.                                    *)

tickAll(r) ==
    /\ relay[r].pc = "idle"
    /\ feed.exists /\ ~feed.paused
    /\ MoveRelay(r, [pc |-> "read", last |-> feed.last])
    /\ UNCHANGED <<time, pyth, cache, feed, memory, pausing, feedFaults>>

ForceRefresh(r) ==
    /\ relay[r].pc = "idle"
    /\ feed.exists
    /\ MoveRelay(r, [pc |-> "read", last |-> feed.last])
    /\ UNCHANGED <<time, pyth, cache, feed, memory, pausing, feedFaults>>

Distance(a, b) == IF a > b THEN a - b ELSE b - a

deviatesBeyondBPS(last, new) ==
    MaxDeviationBPS > 0 /\ last > 0 /\ Distance(last, new) * 10000 > MaxDeviationBPS * last

(* Seeded fault: the rejections in a row are not counted. *)
StreakForgotten(r) == 1

bumpRejectStreak(r) == memory[r].streak + 1

TooOld == MaxFeedLag > 0 /\ time - pyth.publish > MaxFeedLag

Record(result) == [pc |-> "record", result |-> result, publish |-> pyth.publish]

(* The guards, up to the transaction.  A price far from the last accepted   *)
(* one is turned away until it has been seen often enough; the new base     *)
(* line is kept before anything is sent.                                    *)
refreshFeed(r) ==
    LET last == memory[r].last
        far == deviatesBeyondBPS(last, pyth.price)
        streak == bumpRejectStreak(r)
    IN  /\ relay[r].pc = "read"
        /\ \/ /\ IF TooOld THEN MoveRelay(r, Record("stale")) /\ UNCHANGED memory
                 ELSE IF relay[r].last # 0 /\ pyth.publish <= relay[r].last
                 THEN MoveRelay(r, Record("skipped")) /\ UNCHANGED memory
                 ELSE IF far /\ streak < MaxDeviationRejectStreak
                 THEN /\ MoveRelay(r, Record("skipped"))
                      /\ memory' = [memory EXCEPT ![r].streak = streak]
                 ELSE /\ MoveRelay(r, [pc |-> "send", publish |-> pyth.publish])
                      /\ memory' = [memory EXCEPT ![r] = [last |-> pyth.price, streak |-> 0]]
              /\ UNCHANGED feedFaults
           \/ FeedFault /\ MoveRelay(r, Record("error")) /\ UNCHANGED memory
        /\ UNCHANGED <<time, pyth, cache, feed, pausing>>

(* Seeded fault: a transaction that was sent counts as one that landed. *)
SentIsLanded(landed, seen) == IF seen THEN "success" ELSE "error"

Outcome(landed, seen) == IF landed /\ seen THEN "success" ELSE "error"

(* The transaction lands or is refused; its confirmation may be missed, and *)
(* it may not leave the process at all.                                     *)
SignAndSend(r) ==
    /\ relay[r].pc = "send"
    /\ \/ /\ cache' = IF Acceptable THEN refresh_feed ELSE cache
          /\ MoveRelay(r, [pc |-> "record", publish |-> relay[r].publish, result |-> Outcome(Acceptable, TRUE)])
          /\ UNCHANGED feedFaults
       \/ /\ FeedFault
          /\ cache' = IF Acceptable THEN refresh_feed ELSE cache
          /\ MoveRelay(r, [pc |-> "record", publish |-> relay[r].publish, result |-> Outcome(Acceptable, FALSE)])
       \/ /\ FeedFault
          /\ MoveRelay(r, [pc |-> "record", publish |-> relay[r].publish, result |-> "error"])
          /\ UNCHANGED cache
    /\ UNCHANGED <<time, pyth, feed, memory, pausing>>

(* The publish time that was read, not the one that landed. *)
RecordRefresh(r) ==
    /\ relay[r].pc = "record"
    /\ \/ /\ feed' = IF feed.exists /\ relay[r].result = "success"
                     THEN [feed EXCEPT !.last = relay[r].publish] ELSE feed
          /\ UNCHANGED feedFaults
       \/ FeedFault /\ UNCHANGED feed
    /\ MoveRelay(r, Quiet)
    /\ UNCHANGED <<time, pyth, cache, memory, pausing>>

(* A process that stops forgets its base line. *)
RelayStops(r) ==
    /\ FeedFault
    /\ MoveRelay(r, Quiet)
    /\ memory' = [memory EXCEPT ![r] = NoPrice]
    /\ UNCHANGED <<time, pyth, cache, feed, pausing>>

----------------------------------------------------------------------------
(* The administrator. *)

(* The pause changes on the chain and then in the store. *)
setPaused(paused) ==
    /\ pausing = "no"
    /\ feed.exists
    /\ cache' = [cache EXCEPT !.paused = paused]
    /\ pausing' = IF paused THEN "pause" ELSE "resume"
    /\ UNCHANGED <<time, pyth, feed, memory, relay, feedFaults>>

SetPaused ==
    /\ pausing # "no"
    /\ \/ feed' = [feed EXCEPT !.paused = IF feed.exists THEN pausing = "pause" ELSE @] /\ UNCHANGED feedFaults
       \/ FeedFault /\ UNCHANGED feed
    /\ pausing' = "no"
    /\ UNCHANGED <<time, pyth, cache, memory, relay>>

(* The cache stays on the chain. *)
DeleteFeed ==
    /\ feed.exists
    /\ feed' = [exists |-> FALSE, last |-> 0, paused |-> FALSE]
    /\ UNCHANGED <<time, pyth, cache, memory, relay, pausing, feedFaults>>

(* Registered again, the feed keeps its row, or gets a new one that is not  *)
(* paused, whatever the cache says.                                         *)
ensureFeed ==
    /\ ~feed.exists
    /\ feed' = [feed EXCEPT !.exists = TRUE]
    /\ UNCHANGED <<time, pyth, cache, memory, relay, pausing, feedFaults>>

----------------------------------------------------------------------------
(* A signature under a rule that reads the feed.  The refresh of an active  *)
(* feed is an instruction of the same transaction: if the adapter refuses   *)
(* it, nothing of the transaction happens.                                  *)

RefreshIxs == IF feed.exists /\ ~feed.paused THEN 1 ELSE 0

requestSignatureSubmit ==
    /\ RefreshIxs = 1 /\ Acceptable
    /\ cache' = refresh_feed
    /\ UNCHANGED <<time, pyth, feed, memory, relay, pausing, feedFaults>>

----------------------------------------------------------------------------
FeedTick == time < MaxFeedTime /\ time' = time + 1
            /\ UNCHANGED <<pyth, cache, feed, memory, relay, pausing, feedFaults>>

(* Pyth publishes; the last price leaves the clock time for a refresh. *)
PythPublishes(p) ==
    /\ pyth.publish < time /\ time + MinRefresh <= MaxFeedTime
    /\ pyth' = [price |-> p, publish |-> time]
    /\ UNCHANGED <<time, cache, feed, memory, relay, pausing, feedFaults>>

FeedNext ==
    \/ FeedTick \/ SetPaused \/ DeleteFeed \/ ensureFeed \/ requestSignatureSubmit
    \/ \E p \in PythPrice : PythPublishes(p)
    \/ \E b \in BOOLEAN : setPaused(b)
    \/ \E r \in Relay : \/ tickAll(r) \/ ForceRefresh(r) \/ refreshFeed(r) \/ SignAndSend(r)
                        \/ RecordRefresh(r) \/ RelayStops(r)

(* Time passes, and the crank of one process at least keeps ticking.  The   *)
(* calls of a refresh have timeouts.                                        *)
RefreshGoesOn(r) == refreshFeed(r) \/ SignAndSend(r) \/ RecordRefresh(r)

FeedFairness ==
    /\ WF_feedVars(FeedTick)
    /\ \A r \in Relay : SF_feedVars(tickAll(r)) /\ WF_feedVars(RefreshGoesOn(r))

FeedSpec == FeedInit /\ [][FeedNext]_feedVars /\ FeedFairness

----------------------------------------------------------------------------
(* Properties. *)

(* The row never claims a publish time that the cache has not reached:      *)
(* otherwise the gate on the publish time would skip a price the chain has  *)
(* not seen.                                                                *)
RowBehindChain == feed.last <= cache.publish

(* The cache of an active feed has Pyth's last price, unless Pyth itself    *)
(* has not published for longer than the lag guard allows.                  *)
FeedCaughtUp ==
    feed.exists /\ ~feed.paused /\ ~cache.paused /\ ~TooOld => cache.publish = pyth.publish

=============================================================================
