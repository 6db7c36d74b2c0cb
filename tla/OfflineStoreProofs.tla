------------------------- MODULE OfflineStoreProofs -------------------------
(***************************************************************************)
(* Facts about the operators of OfflineStore, for the proofs of the        *)
(* modules that use the table.                                             *)
(***************************************************************************)
EXTENDS OfflineStore, FiniteSetTheorems, TLAPS

(* Any set of rows is finite, and the counts of a status snapshot are      *)
(* natural numbers.                                                        *)
LEMMA RowSetsAreFinite ==
    ASSUME NEW S \in SUBSET Keys
    PROVE  Cardinality(S) \in Nat
<1>1. IsFiniteSet(S)
      BY OfflineStoreAssumption, FS_Subset
<1> QED
      BY <1>1, FS_CardinalityType

LEMMA CountsAreNaturals ==
    ASSUME NEW t
    PROVE  CountByStatus(t) \in [pending : Nat, processing : Nat, failed : Nat]
<1>1. \A status : WithStatus(t, status) \in SUBSET Keys
      BY DEF WithStatus
<1> QED
      BY <1>1, RowSetsAreFinite DEF CountByStatus

(* The empty table is a table, within budget.                              *)
LEMMA EmptyTableFacts == EmptyTable \in Tables /\ WithinBudget(EmptyTable)
BY OfflineStoreAssumption
   DEF EmptyTable, Tables, Rows, ActionStatus, WithinBudget

(* Every statement maps a table to a table (store.ts:191-280).             *)
LEMMA InsertType ==
    ASSUME NEW t \in Tables, NEW k \in Keys, NEW payload \in Payloads
    PROVE  Insert(t, k, payload) \in Tables
<1>1. Cardinality(Present(t)) \in Nat
      BY RowSetsAreFinite DEF Present
<1> QED
      BY <1>1 DEF Insert, Tables, Rows, ActionStatus

LEMMA ClaimType ==
    ASSUME NEW t \in Tables, NEW k \in Keys
    PROVE  Claim(t, k) \in Tables
BY DEF Claim, Tables, Rows, ActionStatus

LEMMA MarkCompleteType ==
    ASSUME NEW t \in Tables, NEW k \in Keys
    PROVE  MarkComplete(t, k) \in Tables
BY DEF MarkComplete, Tables, Rows, ActionStatus

LEMMA MarkFailedType ==
    ASSUME NEW t \in Tables, NEW k \in Keys
    PROVE  MarkFailed(t, k) \in Tables
<1>1. t[k].retryCount + 1 \in Nat
      BY DEF Tables, Rows
<1> QED
      BY <1>1 DEF MarkFailed, Tables, Rows, ActionStatus

LEMMA RequeueType ==
    ASSUME NEW t \in Tables, NEW stale
    PROVE  RequeueStaleProcessing(t, stale) \in Tables
<1>1. \A k \in Keys : [t[k] EXCEPT !.status = "PENDING"] \in Rows /\ t[k] \in Rows
      BY DEF Tables, Rows, ActionStatus
<1> QED
      BY <1>1 DEF RequeueStaleProcessing, Tables

(* claimNext finds only rows that wait, with a retry left                  *)
(* (store.ts:225-234).                                                     *)
LEMMA NextWaits ==
    ASSUME NEW t \in Tables, NEW k \in Keys, IsNext(t, k)
    PROVE  \/ t[k].status = "PENDING"
           \/ t[k].status = "FAILED" /\ t[k].retryCount < MaxRetryCount
BY DEF IsNext, Candidates, Retryable, WithStatus

(* Every statement keeps the table within the retry budget, given what its *)
(* callers ensure.                                                         *)
LEMMA InsertBudget ==
    ASSUME NEW t \in Tables, NEW k \in Keys, NEW payload \in Payloads, WithinBudget(t)
    PROVE  WithinBudget(Insert(t, k, payload))
<1>1. 0 < MaxRetryCount /\ 0 <= MaxRetryCount
      BY OfflineStoreAssumption
<1> QED
      BY <1>1 DEF WithinBudget, Insert, Tables

LEMMA ClaimBudget ==
    ASSUME NEW t \in Tables, NEW k \in Keys, WithinBudget(t), IsNext(t, k)
    PROVE  WithinBudget(Claim(t, k))
BY NextWaits DEF WithinBudget, Claim, Tables, Rows

LEMMA MarkCompleteBudget ==
    ASSUME NEW t \in Tables, NEW k \in Keys, WithinBudget(t)
    PROVE  WithinBudget(MarkComplete(t, k))
BY DEF WithinBudget, MarkComplete, Tables, Rows

LEMMA MarkFailedBudget ==
    ASSUME NEW t \in Tables, NEW k \in Keys, WithinBudget(t),
           t[k].status = "PROCESSING"
    PROVE  WithinBudget(MarkFailed(t, k))
<1>1. t[k].retryCount \in Nat /\ t[k].retryCount < MaxRetryCount
      BY DEF WithinBudget, Tables, Rows
<1>2. t[k].retryCount + 1 <= MaxRetryCount
      BY <1>1, OfflineStoreAssumption
<1> QED
      BY <1>2 DEF WithinBudget, MarkFailed, Tables, Rows

LEMMA RequeueBudget ==
    ASSUME NEW t \in Tables, NEW stale, WithinBudget(t)
    PROVE  WithinBudget(RequeueStaleProcessing(t, stale))
BY DEF WithinBudget, RequeueStaleProcessing, Tables, Rows
=============================================================================
