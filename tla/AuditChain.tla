----------------------------- MODULE AuditChain -----------------------------
(***************************************************************************)
(* The gateway's audit log (gateway/internal/audit): a chain of entries    *)
(* per tenant, appended by any replica, signed later by workers on every   *)
(* replica, read page by page, and archived by one worker.                 *)
(*                                                                         *)
(* An entry's number is taken from one sequence for all tenants when the   *)
(* entry is inserted, which is before its transaction commits.  The hash   *)
(* of an entry is the entry's number: hashes of two entries differ.        *)
(***************************************************************************)
EXTENDS Naturals, FiniteSets

CONSTANTS
    Tenant,
    Appender,     \* appends of one entry, each by some replica
    Signer,       \* signer workers
    Batch,        \* rows a signer claims
    MaxRows,      \* AUDIT_SNAPSHOT_MAX_ROWS
    Constraints,  \* constraints on audit_snapshot_log
    MaxSeq,       \* bound: entries inserted
    MaxAuditFaults

VARIABLES
    log,       \* committed entries: number -> row
    nextSeq,   \* the sequence
    append,    \* append -> where its transaction stands
    chainLock, \* tenant -> append that holds the advisory lock
    signer,    \* signer -> rows its transaction has claimed
    reader,    \* a client that pages through a tenant's entries
    snap,      \* the archiving worker: the rows it has read
    cursors,   \* audit_snapshot_log
    archive,   \* rows uploaded
    auditFaults

auditVars == <<log, nextSeq, append, chainLock, signer, reader, snap, cursors, archive, auditFaults>>

NoOne == "no one"

ASSUME AppenderAssumption == NoOne \notin Appender

AuditInit ==
    /\ log = [s \in {} |-> 0]
    /\ nextSeq = 1
    /\ append = [a \in Appender |-> [pc |-> "idle"]]
    /\ chainLock = [t \in Tenant |-> NoOne]
    /\ signer = [w \in Signer |-> {}]
    /\ reader = [t \in Tenant |-> [after |-> 0, seen |-> {}]]
    /\ snap = {}
    /\ cursors = {}
    /\ archive = {}
    /\ auditFaults = 0

AuditFault == auditFaults < MaxAuditFaults /\ auditFaults' = auditFaults + 1

Greatest(S) == CHOOSE x \in S : \A y \in S : y <= x
First(n, S) == {x \in S : Cardinality({y \in S : y <= x}) <= n}

Of(t) == {s \in DOMAIN log : log[s].tenant = t}
Last(t) == IF Of(t) = {} THEN 0 ELSE Greatest(Of(t))

Rest == <<signer, reader, snap, cursors, archive>>

----------------------------------------------------------------------------
(* Appends. *)

(* Seeded fault: only the lock of the process is taken. *)
InProcessLock(t) == TRUE

(* pg_advisory_xact_lock: held to the end of the transaction. *)
Lockable(t) == chainLock[t] = NoOne

BeginAppend(a, t) ==
    /\ append[a].pc = "idle"
    /\ Lockable(t)
    /\ chainLock' = [chainLock EXCEPT ![t] = a]
    /\ append' = [append EXCEPT ![a] = [pc |-> "read", t |-> t]]
    /\ UNCHANGED <<log, nextSeq, auditFaults, Rest>>

ReadPrev(a) ==
    /\ append[a].pc = "read"
    /\ append' = [append EXCEPT ![a] = [pc |-> "insert", t |-> append[a].t, prev |-> Last(append[a].t)]]
    /\ UNCHANGED <<log, nextSeq, chainLock, auditFaults, Rest>>

Insert(a) ==
    /\ append[a].pc = "insert"
    /\ nextSeq <= MaxSeq
    /\ nextSeq' = nextSeq + 1
    /\ append' = [append EXCEPT ![a] = [pc |-> "commit", t |-> append[a].t, prev |-> append[a].prev,
                                        seq |-> nextSeq]]
    /\ UNCHANGED <<log, chainLock, auditFaults, Rest>>

EndOfTransaction(a) ==
    /\ append' = [append EXCEPT ![a] = [pc |-> "idle"]]
    /\ chainLock' = [chainLock EXCEPT ![append[a].t] = IF @ = a THEN NoOne ELSE @]

Commit(a) ==
    LET row == [tenant |-> append[a].t, prev |-> append[a].prev, signatures |-> 0] IN
    /\ append[a].pc = "commit"
    /\ log' = [s \in DOMAIN log \cup {append[a].seq} |-> IF s = append[a].seq THEN row ELSE log[s]]
    /\ EndOfTransaction(a)
    /\ UNCHANGED <<nextSeq, auditFaults, Rest>>

(* A failure at any step, or the end of the process, rolls back; the number *)
(* is lost.                                                                 *)
Rollback(a) ==
    /\ append[a].pc # "idle"
    /\ AuditFault
    /\ EndOfTransaction(a)
    /\ UNCHANGED <<log, nextSeq, Rest>>

----------------------------------------------------------------------------
(* Signers. *)

(* Seeded fault: a worker goes on from the highest entry that is signed. *)
UnsignedAboveMark(s) ==
    log[s].signatures = 0 /\ \A r \in DOMAIN log : log[r].signatures > 0 => r < s

Unsigned(s) == log[s].signatures = 0

(* FOR UPDATE SKIP LOCKED: the first rows that no other worker holds. *)
ClaimUnsigned(w) ==
    LET free == {s \in DOMAIN log : Unsigned(s)} \ UNION {signer[v] : v \in Signer} IN
    /\ signer[w] = {}
    /\ free # {}
    /\ signer' = [signer EXCEPT ![w] = First(Batch, free)]
    /\ UNCHANGED <<log, nextSeq, append, chainLock, reader, snap, cursors, archive, auditFaults>>

(* Every row of the batch is signed, or, if one signature or statement      *)
(* fails, none.                                                             *)
SignBatch(w) ==
    /\ signer[w] # {}
    /\ \/ /\ log' = [s \in DOMAIN log |->
                       IF s \in signer[w] THEN [log[s] EXCEPT !.signatures = @ + 1] ELSE log[s]]
          /\ UNCHANGED auditFaults
       \/ AuditFault /\ UNCHANGED log
    /\ signer' = [signer EXCEPT ![w] = {}]
    /\ UNCHANGED <<nextSeq, append, chainLock, reader, snap, cursors, archive>>

----------------------------------------------------------------------------
(* Readers: the next page is what comes after the last entry seen. *)

list(t) ==
    LET page == First(1, {s \in Of(t) : s > reader[t].after}) IN
    /\ page # {}
    /\ reader' = [reader EXCEPT ![t] = [after |-> Greatest(page), seen |-> @.seen \cup page]]
    /\ UNCHANGED <<log, nextSeq, append, chainLock, signer, snap, cursors, archive, auditFaults>>

----------------------------------------------------------------------------
(* The archive. *)

lastSnapshottedSeq == IF cursors = {} THEN 0 ELSE Greatest(cursors)

fetchRange ==
    LET rows == First(MaxRows, {s \in DOMAIN log : s > lastSnapshottedSeq}) IN
    /\ snap = {}
    /\ rows # {}
    /\ snap' = rows
    /\ UNCHANGED <<log, nextSeq, append, chainLock, signer, reader, cursors, archive, auditFaults>>

(* The insert names its conflict by a constraint; PostgreSQL refuses the    *)
(* statement if the table has none of that name.                            *)
recordSnapshot(last) ==
    IF "uq_audit_snapshot_log_date_seq" \in Constraints THEN cursors \cup {last} ELSE cursors

(* The upload, and then the note of how far it went. *)
runSnapshot ==
    /\ snap # {}
    /\ \/ archive' = archive \cup snap /\ cursors' = recordSnapshot(Greatest(snap)) /\ UNCHANGED auditFaults
       \/ AuditFault /\ archive' = archive \cup snap /\ UNCHANGED cursors
       \/ AuditFault /\ UNCHANGED <<archive, cursors>>
    /\ snap' = {}
    /\ UNCHANGED <<log, nextSeq, append, chainLock, signer, reader>>

----------------------------------------------------------------------------
AppendNext ==
    \E a \in Appender : \/ \E t \in Tenant : BeginAppend(a, t)
                       \/ ReadPrev(a) \/ Insert(a) \/ Commit(a) \/ Rollback(a)
SignNext == \E w \in Signer : ClaimUnsigned(w) \/ SignBatch(w)
ReadNext == \E t \in Tenant : list(t)
ArchiveNext == fetchRange \/ runSnapshot

AuditNext == AppendNext \/ SignNext \/ ReadNext \/ ArchiveNext

(* The workers run on tickers for as long as the gateway does. *)
AuditFairness ==
    /\ \A w \in Signer : WF_auditVars(ClaimUnsigned(w)) /\ WF_auditVars(SignBatch(w))
    /\ WF_auditVars(fetchRange) /\ WF_auditVars(runSnapshot)

AuditSpec == AuditInit /\ [][AuditNext]_auditVars /\ AuditFairness

----------------------------------------------------------------------------
(* Properties. *)

(* Every entry carries the hash of the entry before it of the same tenant,  *)
(* although replicas append at once, roll back and leave gaps; a client     *)
(* that pages by number has seen every entry up to its last one; and no     *)
(* entry is signed by two workers.                                          *)
ChainKept ==
    /\ \A s \in DOMAIN log :
          LET before == {r \in Of(log[s].tenant) : r < s}
          IN  /\ log[s].prev = IF before = {} THEN 0 ELSE Greatest(before)
              /\ log[s].signatures <= 1
    /\ \A t \in Tenant : {s \in Of(t) : s <= reader[t].after} \subseteq reader[t].seen

(* Every committed entry has been signed. *)
EntriesSigned == \A s \in DOMAIN log : log[s].signatures = 1

(* "If the gap exceeds the cap, the worker uploads one batch and re-runs on *)
(* the next tick": every entry reaches the archive.                         *)
EntriesGetArchived == \A s \in 1..MaxSeq : s \in DOMAIN log ~> s \in archive

=============================================================================
