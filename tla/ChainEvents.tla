----------------------------- MODULE ChainEvents -----------------------------
(***************************************************************************)
(* From the chain to the webhook rows (gateway/internal/webhooks:          *)
(* listener.go, events.go, tenant_limiter.go, publisher.go): the leader    *)
(* subscribes to the logs of every configured program over one websocket,  *)
(* decodes the event lines of each notification, finds the tenant that     *)
(* owns the policy or dWallet, and publishes one row per endpoint.         *)
(*                                                                         *)
(* The node sends one notification per subscription that a transaction     *)
(* mentions, with all of the transaction's lines, in the order of the      *)
(* chain; two subscriptions are in any order to each other.  What is       *)
(* confirmed while no connection is up is not sent again.  One tenant; an  *)
(* event line is abstracted to the key ParseEvent finds.                   *)
(***************************************************************************)
EXTENDS Naturals, Sequences, FiniteSets

CONSTANTS
    Programs,         \* sequence of the configured program ids
    Transaction,      \* what may be confirmed: [mentions, lines, err]
    EndpointList,        \* sequence of the tenant's active endpoints, as the query returns them
    ListenerBurst, ListenerRate,
    MaxTx,            \* bound: transactions confirmed
    MaxListenerTicks, \* bound: units of time the limiter sees
    MaxListenerFaults \* bound: lost connections, changes of leader, failed statements

ASSUME RelayAssumption ==
    /\ Programs \in Seq(STRING) /\ EndpointList \in Seq(STRING)
    /\ Transaction \subseteq [mentions : SUBSET STRING, lines : Seq(STRING), err : BOOLEAN]
    /\ {ListenerBurst, ListenerRate} \subseteq Nat

VARIABLES
    confirmed,        \* confirmed transactions
    owned,        \* policy_subscriptions knows the tenant's policy
    subscribed,   \* programs subscribed on the present connection, "down" when there is none
    stream,       \* notifications sent and not yet read, from the line that is next: [tx, line, sub]
    tenantBucket,       \* tokens of the tenant in this process's limiter
    inbox,        \* endpoint -> published lines, in order; sub is history
    listenerTicks, listenerFaults

relayVars == <<confirmed, owned, subscribed, stream, tenantBucket, inbox, listenerTicks, listenerFaults>>

Down == [up |-> FALSE, count |-> 0]

ChainInit ==
    /\ confirmed = <<>> /\ owned = FALSE
    /\ subscribed = Down /\ stream = <<>>
    /\ tenantBucket = ListenerBurst
    /\ inbox = [p \in {EndpointList[i] : i \in DOMAIN EndpointList} |-> <<>>]
    /\ listenerTicks = 0 /\ listenerFaults = 0

ListenerFault == listenerFaults < MaxListenerFaults /\ listenerFaults' = listenerFaults + 1

-----------------------------------------------------------------------------
(* The connection. *)

Dial ==
    /\ ~subscribed.up
    /\ subscribed' = [up |-> TRUE, count |-> 0]
    /\ UNCHANGED <<confirmed, owned, stream, tenantBucket, inbox, listenerTicks, listenerFaults>>

\* logsSubscribe, one program after the other.
Subscribe ==
    /\ subscribed.up /\ subscribed.count < Len(Programs)
    /\ subscribed' = [subscribed EXCEPT !.count = @ + 1]
    /\ UNCHANGED <<confirmed, owned, stream, tenantBucket, inbox, listenerTicks, listenerFaults>>

\* A read error, or no traffic within readWindow: the loop of Start dials again.
Disconnect ==
    /\ subscribed.up /\ ListenerFault
    /\ subscribed' = Down /\ stream' = <<>>
    /\ UNCHANGED <<confirmed, owned, tenantBucket, inbox, listenerTicks>>

\* Another replica leads from now on, with a limiter of its own.
LeaderChanges ==
    /\ ListenerFault
    /\ subscribed' = Down /\ stream' = <<>> /\ tenantBucket' = ListenerBurst
    /\ UNCHANGED <<confirmed, owned, inbox, listenerTicks>>

Mentioned(tx) == {k \in 1..subscribed.count : Programs[k] \in tx.mentions}

\* One notification per subscription mentioned, in some order.
Notifications(n, tx) ==
    {[i \in 1..Cardinality(Mentioned(tx)) |-> [tx |-> n, line |-> 1, sub |-> order[i]]] :
        order \in {f \in [1..Cardinality(Mentioned(tx)) -> Mentioned(tx)] :
                     \A a, b \in DOMAIN f : f[a] = f[b] => a = b}}

Confirm(tx) ==
    /\ Len(confirmed) < MaxTx
    /\ confirmed' = Append(confirmed, tx)
    /\ \/ /\ subscribed.up
          /\ \E told \in Notifications(Len(confirmed) + 1, tx) : stream' = stream \o told
       \/ ~subscribed.up /\ UNCHANGED stream
    /\ UNCHANGED <<owned, subscribed, tenantBucket, inbox, listenerTicks, listenerFaults>>

\* The row that init/submit inserts once the transaction has been sent.
SubscribePolicy ==
    /\ ~owned /\ owned' = TRUE
    /\ UNCHANGED <<confirmed, subscribed, stream, tenantBucket, inbox, listenerTicks, listenerFaults>>

-----------------------------------------------------------------------------
(* observeNotification, one line of a notification after the other. *)

IkaEvent == {"dwallet_created", "message_approval", "signature_committed",
             "authority_transferred", "ika_unknown"}
TemplateEvent == {"deployed", "requested", "approved", "rejected", "paused", "resumed"}

\* SignatureCommitted names a message approval, which no tenant is looked up by.
parseIkaEvent(line) ==
    IF line \in {"dwallet_created", "message_approval", "authority_transferred"}
    THEN "dwallet" ELSE "none"

\* The address an event is looked up by: the policy, else the dWallet, else none;
\* "nil" for an unknown discriminator or a short payload.
ParseEvent(line) ==
    IF line \in IkaEvent THEN parseIkaEvent(line)
    ELSE IF line \in TemplateEvent THEN "policy" ELSE "nil"

\* Seeded fault: a dropped line ends the notification, and the rest of it is read again.
RestartNotification(s) == IF s = <<>> THEN s ELSE <<[Head(s) EXCEPT !.line = 1]>> \o Tail(s)

\* The next line, or the next notification after the last line.
NextLine(s) ==
    IF Head(s).line < Len(confirmed[Head(s).tx].lines)
    THEN <<[Head(s) EXCEPT !.line = @ + 1]>> \o Tail(s)
    ELSE Tail(s)

clampFloat(v) == IF v > ListenerBurst THEN ListenerBurst ELSE v

AllowTenant == tenantBucket >= 1

Current == confirmed[Head(stream).tx]
Line == Current.lines[Head(stream).line]

\* A failed transaction, or one without event lines, is dropped as a whole.
SkipNotification ==
    /\ stream # <<>> /\ (Current.err \/ Current.lines = <<>>)
    /\ stream' = Tail(stream)
    /\ UNCHANGED <<confirmed, owned, subscribed, tenantBucket, inbox, listenerTicks, listenerFaults>>

Readable == stream # <<>> /\ ~Current.err /\ Current.lines # <<>>

\* Unknown event, no address, no tenant on record, or over the tenant's rate.
SkipLine ==
    /\ Readable
    /\ ParseEvent(Line) \in {"nil", "none"} \/ ~owned \/ ~AllowTenant
    /\ stream' = NextLine(stream)
    /\ UNCHANGED <<confirmed, owned, subscribed, tenantBucket, inbox, listenerTicks, listenerFaults>>

\* The lookup fails: an error counts as no tenant.
ResolveFails ==
    /\ Readable /\ ParseEvent(Line) \in {"policy", "dwallet"} /\ owned
    /\ ListenerFault
    /\ stream' = NextLine(stream)
    /\ UNCHANGED <<confirmed, owned, subscribed, tenantBucket, inbox, listenerTicks>>

\* Seeded fault: the loop over the endpoints stops one short.
ReachesAllButOne(n) == n - 1

Reaches(n) == n

\* Publish: a row per endpoint under one fresh event id; the first failed
\* insert ends the fan-out and nothing takes it up again.
Publish(reached) ==
    /\ Readable /\ ParseEvent(Line) \in {"policy", "dwallet"} /\ owned /\ AllowTenant
    /\ reached < Reaches(Len(EndpointList)) => ListenerFault
    /\ reached = Reaches(Len(EndpointList)) => UNCHANGED listenerFaults
    /\ inbox' = [p \in DOMAIN inbox |->
                   IF \E i \in 1..reached : EndpointList[i] = p THEN Append(inbox[p], Head(stream)) ELSE inbox[p]]
    /\ tenantBucket' = tenantBucket - 1
    /\ stream' = NextLine(stream)
    /\ UNCHANGED <<confirmed, owned, subscribed, listenerTicks>>

ListenerTick ==
    /\ listenerTicks < MaxListenerTicks /\ listenerTicks' = listenerTicks + 1
    /\ tenantBucket' = clampFloat(tenantBucket + ListenerRate)
    /\ UNCHANGED <<confirmed, owned, subscribed, stream, inbox, listenerFaults>>

ChainNext ==
    \/ Dial \/ Subscribe \/ Disconnect \/ LeaderChanges \/ SubscribePolicy
    \/ \E tx \in Transaction : Confirm(tx)
    \/ SkipNotification \/ SkipLine \/ ResolveFails
    \/ \E reached \in 0..Len(EndpointList) : Publish(reached)
    \/ ListenerTick

ChainSpec == ChainInit /\ [][ChainNext]_relayVars

-----------------------------------------------------------------------------
Times(p, tx, line) ==
    Cardinality({i \in DOMAIN inbox[p] : inbox[p][i].tx = tx /\ inbox[p][i].line = line})

(* What endpoints receive, however the connection drops and leaders change:*)
(* events in the order of the chain; no event of a failed transaction and  *)
(* none more often than its transaction mentions configured programs, so a *)
(* reconnect repeats nothing; and as long as no statement fails every      *)
(* endpoint the same events (observeNotification, Publish).                *)
RelayFaithful ==
    /\ \A p \in DOMAIN inbox : \A i \in DOMAIN inbox[p] :
          LET here == inbox[p][i]
              tx == confirmed[here.tx]
          IN  /\ ~tx.err
              /\ Times(p, here.tx, here.line)
                   <= Cardinality({k \in DOMAIN Programs : Programs[k] \in tx.mentions})
              /\ \A j \in DOMAIN inbox[p] : i < j => here.tx <= inbox[p][j].tx
    /\ listenerFaults = 0 => \A p, q \in DOMAIN inbox : inbox[p] = inbox[q]

=============================================================================
