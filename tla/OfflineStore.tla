---------------------------- MODULE OfflineStore ----------------------------
(***************************************************************************)
(* The offline_actions table of the console's SQLite file                  *)
(* (apps/console/src/main/offline/store.ts, class OfflineActionStore).     *)
(*                                                                         *)
(* better-sqlite3 is synchronous and the console is the only writer, so a  *)
(* statement is an operator from a table to a table and an action of a     *)
(* client module applies as many of them as the handler runs between two   *)
(* awaits.  A table maps every idempotency key to its row: the UNIQUE      *)
(* constraint on idempotency_key is the function, and the status "ABSENT"  *)
(* stands for a key that has no row.  Rows are never deleted.              *)
(***************************************************************************)
EXTENDS Naturals, FiniteSets

CONSTANTS
    Keys,           \* idempotency keys
    Payloads,       \* what a row asks to be done
    MaxRetryCount,  \* MAX_RETRY_COUNT, 8 in the code
    NoKey,          \* no row
    NoPayload       \* the payload of an absent row

ASSUME OfflineStoreAssumption ==
    /\ IsFiniteSet(Keys)
    /\ MaxRetryCount \in Nat \ {0}
    /\ NoKey \notin Keys
    /\ NoPayload \notin Payloads

ActionStatus == {"PENDING", "PROCESSING", "FAILED", "COMPLETED"}

Rows == [status     : ActionStatus \cup {"ABSENT"},
         payload    : Payloads \cup {NoPayload},
         retryCount : Nat,
         createdAt  : Nat]

Tables == [Keys -> Rows]

EmptyTable ==
    [k \in Keys |-> [status |-> "ABSENT", payload |-> NoPayload,
                     retryCount |-> 0, createdAt |-> 0]]

WithStatus(t, status) == {k \in Keys : t[k].status = status}
Present(t) == {k \in Keys : t[k].status # "ABSENT"}

-----------------------------------------------------------------------------
(* Broken forms of the operators below.  No module uses them: each is put  *)
(* in the place of its original to see that a property notices.            *)
InsertOrReplace(t, k, payload) == \* Insert: OR REPLACE for OR IGNORE
    [t EXCEPT ![k] = [status |-> "PENDING", payload |-> payload,
                      retryCount |-> 0, createdAt |-> Cardinality(Present(t))]]

RetryableOnceMore(t) ==           \* Retryable: <= for <
    {k \in WithStatus(t, "FAILED") : t[k].retryCount <= MaxRetryCount}

PendingOnly(t) ==                 \* Candidates: FAILED rows forgotten
    WithStatus(t, "PENDING")

ClaimUnflipped(t, k) ==           \* Claim: no UPDATE
    t

MarkFailedUncounted(t, k) ==      \* MarkFailed: retry_count kept
    [t EXCEPT ![k].status = "FAILED"]

RequeueFresh(t, stale) ==         \* RequeueStaleProcessing: the cutoff reversed
    [k \in Keys |-> IF k \notin stale /\ t[k].status = "PROCESSING"
                    THEN [t[k] EXCEPT !.status = "PENDING"]
                    ELSE t[k]]

-----------------------------------------------------------------------------
(* INSERT OR IGNORE.  created_at is abstracted to the rank of the row: two *)
(* inserts in the same millisecond, whose order SQLite leaves open, are    *)
(* taken in the order they were made.                                      *)
Insert(t, k, payload) ==
    IF k \in Present(t)
    THEN t
    ELSE [t EXCEPT ![k] = [status     |-> "PENDING",
                           payload    |-> payload,
                           retryCount |-> 0,
                           createdAt  |-> Cardinality(Present(t))]]

(* The WHERE of claimNext and the first term of its ORDER BY: a PENDING row *)
(* goes before every FAILED one that has retries left.                     *)
Retryable(t) == {k \in WithStatus(t, "FAILED") : t[k].retryCount < MaxRetryCount}

Candidates(t) ==
    IF WithStatus(t, "PENDING") # {} THEN WithStatus(t, "PENDING")
                                     ELSE Retryable(t)

IsNewest(t, k) ==                 \* broken form of IsNext: DESC for ASC
    k \in Candidates(t) /\ \A j \in Candidates(t) : t[k].createdAt >= t[j].createdAt

(* The second term of the ORDER BY, and LIMIT 1.                           *)
IsNext(t, k) ==
    /\ k \in Candidates(t)
    /\ \A j \in Candidates(t) : t[k].createdAt <= t[j].createdAt

Claim(t, k) == [t EXCEPT ![k].status = "PROCESSING"]

MarkComplete(t, k) == [t EXCEPT ![k].status = "COMPLETED"]

MarkFailed(t, k) == [t EXCEPT ![k].status     = "FAILED",
                              ![k].retryCount = @ + 1]

(* stale is the set of rows whose updated_at is more than 30 s old.        *)
RequeueStaleProcessing(t, stale) ==
    [k \in Keys |-> IF k \in stale /\ t[k].status = "PROCESSING"
                    THEN [t[k] EXCEPT !.status = "PENDING"]
                    ELSE t[k]]

CountByStatus(t) ==
    [pending    |-> Cardinality(WithStatus(t, "PENDING")),
     processing |-> Cardinality(WithStatus(t, "PROCESSING")),
     failed     |-> Cardinality(WithStatus(t, "FAILED"))]

(* oldestPendingTs, as the row that holds the minimum: none or one.        *)
OldestPending(t) ==
    LET unfinished == Present(t) \ WithStatus(t, "COMPLETED")
    IN  {k \in unfinished : \A j \in unfinished : t[k].createdAt <= t[j].createdAt}

-----------------------------------------------------------------------------
(* Vocabulary of the properties: a row no handler will ever touch again.   *)
Exhausted(t, k) == t[k].status = "FAILED" /\ t[k].retryCount >= MaxRetryCount
Terminal(t, k) == t[k].status = "COMPLETED" \/ Exhausted(t, k)

(* No row has failed more often than MAX_RETRY_COUNT allows, and one that  *)
(* may still be attempted has a retry left.                                *)
WithinBudget(t) ==
    \A k \in Keys :
       /\ t[k].retryCount <= MaxRetryCount
       /\ t[k].status \in {"PENDING", "PROCESSING"} => t[k].retryCount < MaxRetryCount
=============================================================================
