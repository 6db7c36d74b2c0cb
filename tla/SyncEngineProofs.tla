-------------------------- MODULE SyncEngineProofs --------------------------
(***************************************************************************)
(* What holds of the sync engine for every number of keys, passes,         *)
(* retries, crashes and any ceiling: types, exclusive claims, the retry    *)
(* budget, that settled rows stay settled, and that the engine implements  *)
(* the durable outbox.                                                     *)
(***************************************************************************)
EXTENDS SyncEngine, OfflineStoreProofs

(* The engine is down only with no pass running: what Boot requeues is in  *)
(* nobody's hands.                                                         *)
DownIsIdle == ~up => \A p \in Passes : ~Holding(p)

(* A pass that was answered 202 has its key published, and a packet on the *)
(* wire belongs to a row.                                                  *)
AcceptedWasPublished ==
    \A p \in Passes :
       pass[p].pc = "answered" /\ pass[p].answer \in HttpOk => pass[p].key \in published

PacketsHaveRows ==
    /\ late \subseteq Present(table)
    /\ published \subseteq Present(table)

IInv ==
    /\ TypeOK
    /\ ExclusiveClaim
    /\ RetryBudget
    /\ CompletedWasPublished
    /\ DownIsIdle
    /\ AcceptedWasPublished
    /\ PacketsHaveRows

-----------------------------------------------------------------------------
(* The broker keeps its types, publishes what it accepts and unpublishes   *)
(* nothing (server.ts:327-352).                                            *)
LEMMA PacketFacts ==
    ASSUME Broker!BrokerTypeOK, NEW k \in Keys, NEW content,
           Broker!HandlePacket(k, content)
    PROVE  /\ Broker!BrokerTypeOK'
           /\ Broker!StatusOf(k, content) \in Broker!Answers
           /\ published \subseteq published'
           /\ published' \subseteq published \cup {k}
           /\ Broker!StatusOf(k, content) \in HttpOk => k \in published'
<1> DEFINE st == Broker!StatusOf(k, content)
<1>1. st \in {202, 208, 400, 429}
      BY DEF Broker!StatusOf, Broker!Accepted, Broker!Deduplicated, Broker!Invalid,
             Broker!RateLimited
<1>2. st \in Broker!Answers
      BY <1>1 DEF Broker!Answers, Broker!Accepted, Broker!Deduplicated, Broker!Invalid,
                  Broker!RateLimited
<1>3. st \in HttpOk => st = Broker!Accepted
      BY <1>1 DEF HttpOk, Broker!Accepted
<1>4. tokens' \in 0..Burst
      BY SyncEngineAssumption DEF Broker!HandlePacket, Broker!BrokerTypeOK
<1>5. window' \subseteq Keys /\ published' \subseteq Keys /\ repeated' \subseteq Keys
      BY DEF Broker!HandlePacket, Broker!PublishIfAccepted, Broker!Publish, Broker!BrokerTypeOK
<1>6. /\ published \subseteq published'
      /\ published' \subseteq published \cup {k}
      /\ st = Broker!Accepted => k \in published'
      BY DEF Broker!HandlePacket, Broker!PublishIfAccepted, Broker!Publish
<1> QED
      BY <1>2, <1>3, <1>4, <1>5, <1>6 DEF Broker!BrokerTypeOK

(* A status snapshot has the type of the badge (sync.ts:111-122).          *)
LEMMA StatusType ==
    ASSUME NEW t, NEW on \in BOOLEAN
    PROVE  Status(t, on) \in [queued : Nat, failed : Nat, processing : Nat,
                              online : BOOLEAN, oldest : SUBSET Keys]
<1>1. CountByStatus(t) \in [pending : Nat, processing : Nat, failed : Nat]
      BY CountsAreNaturals
<1>2. OldestPending(t) \in SUBSET Keys
      BY DEF OldestPending, Present
<1>3. CountByStatus(t).pending + CountByStatus(t).processing \in Nat
      BY <1>1
<1> QED
      BY <1>1, <1>2, <1>3 DEF Status

-----------------------------------------------------------------------------
(* What a table must be for pass p to run its loop on: the rows of the     *)
(* other passes are untouched.                                             *)
LoopTable(p, t) ==
    /\ t \in Tables
    /\ WithinBudget(t)
    /\ \A q \in Passes \ {p} : Holding(q) => t[pass[q].key].status = "PROCESSING"

LoopHead(p, t, n) == ClaimAndPost(p, t, n) \/ EndOfPass(p, t, n)

(* The head of the loop keeps types, exclusivity and budget                *)
(* (sync.ts:101, store.ts:225-253).                                        *)
LEMMA LoopHeadFacts ==
    ASSUME TypeOK, ExclusiveClaim, NEW p \in Passes, NEW t,
           LoopTable(p, t), NEW n \in Nat, LoopHead(p, t, n)
    PROVE  /\ table' \in Tables
           /\ pass' \in [Passes -> PassStates]
           /\ ExclusiveClaim'
           /\ WithinBudget(table')
           /\ \A k \in Keys : table'[k] = t[k] \/ (/\ IsNext(t, k)
                                                  /\ table'[k] = Claim(t, k)[k])
           /\ \A q \in Passes \ {p} : pass'[q] = pass[q]
           /\ pass'[p].pc \in {"idle", "posting"}
<1> USE DEF LoopTable, LoopHead
<1>1. CASE ClaimAndPost(p, t, n)
  <2>1. PICK k \in Keys : /\ IsNext(t, k)
                          /\ table' = Claim(t, k)
                          /\ pass' = [pass EXCEPT ![p] = Posting(k, n)]
        BY <1>1 DEF ClaimAndPost
  <2>2. n \in 0..FlushCeiling
        BY <1>1, SyncEngineAssumption DEF ClaimAndPost
  <2>3. Posting(k, n) \in PassStates
        BY <2>2 DEF Posting, PassStates
  <2>4. /\ table' \in Tables
        /\ WithinBudget(table')
        BY <2>1, ClaimType, ClaimBudget
  <2>5. /\ pass' \in [Passes -> PassStates]
        /\ pass'[p] = Posting(k, n)
        /\ \A q \in Passes \ {p} : pass'[q] = pass[q]
        BY <2>1, <2>3 DEF TypeOK
  <2>6. t[k].status # "PROCESSING"
        BY NextWaits, <2>1
  <2>7. /\ table'[k].status = "PROCESSING"
        /\ \A j \in Keys \ {k} : table'[j] = t[j]
        BY <2>1 DEF Claim, Tables, Rows
  <2>8. \A q \in Passes \ {p} : Holding(q) => pass[q].key \in Keys /\ pass[q].key # k
        BY <2>6 DEF ExclusiveClaim
  <2>9. ExclusiveClaim'
        BY <2>5, <2>7, <2>8 DEF ExclusiveClaim, Holding, Posting
  <2> QED
        BY <2>1, <2>4, <2>5, <2>7, <2>9 DEF Posting
<1>2. CASE EndOfPass(p, t, n)
  <2>1. pass' = [pass EXCEPT ![p] = Idle]
        BY <1>2 DEF EndOfPass
  <2>2. Idle \in PassStates
        BY SyncEngineAssumption DEF Idle, PassStates
  <2>3. /\ pass' \in [Passes -> PassStates]
        /\ pass'[p] = Idle
        /\ \A q \in Passes \ {p} : pass'[q] = pass[q]
        BY <2>1, <2>2 DEF TypeOK
  <2>4. CASE table' = t
    <3>1. ExclusiveClaim'
          BY <2>3, <2>4 DEF ExclusiveClaim, Holding, Idle
    <3> QED
          BY <2>3, <2>4, <3>1 DEF Idle
  <2>5. CASE \E k \in Keys : IsNext(t, k) /\ table' = Claim(t, k)
    <3>1. PICK k \in Keys : IsNext(t, k) /\ table' = Claim(t, k)
          BY <2>5
    <3>2. /\ table' \in Tables
          /\ WithinBudget(table')
          BY <3>1, ClaimType, ClaimBudget
    <3>3. /\ table'[k].status = "PROCESSING"
          /\ \A j \in Keys \ {k} : table'[j] = t[j]
          BY <3>1 DEF Claim, Tables, Rows
    <3>4. ExclusiveClaim'
          BY <2>3, <3>3 DEF ExclusiveClaim, Holding, Idle
    <3> QED
          BY <2>3, <3>1, <3>2, <3>3, <3>4 DEF Idle
  <2> QED
        BY <1>2, <2>4, <2>5 DEF EndOfPass
<1> QED
      BY <1>1, <1>2

(* A row that no other pass holds is settled to a table the loop can run   *)
(* on (sync.ts:103-104).                                                   *)
LEMMA SettledFacts ==
    ASSUME TypeOK, ExclusiveClaim, RetryBudget, NEW p \in Passes, Holding(p),
           NEW ok \in BOOLEAN
    PROVE  /\ LoopTable(p, Settled(p, ok))
           /\ pass[p].key \in Keys
           /\ table[pass[p].key].status = "PROCESSING"
           /\ \A j \in Keys \ {pass[p].key} : Settled(p, ok)[j] = table[j]
           /\ Settled(p, ok)[pass[p].key].status \in
                 (IF ok THEN {"COMPLETED"} ELSE {"FAILED"})
<1> DEFINE k == pass[p].key
<1>1. k \in Keys /\ table[k].status = "PROCESSING"
      BY DEF ExclusiveClaim
<1>2. table \in Tables /\ WithinBudget(table)
      BY DEF TypeOK, RetryBudget
<1>3. /\ Settled(p, ok) \in Tables
      /\ WithinBudget(Settled(p, ok))
      BY <1>1, <1>2, MarkCompleteType, MarkFailedType, MarkCompleteBudget, MarkFailedBudget
         DEF Settled
<1>4. /\ \A j \in Keys \ {k} : Settled(p, ok)[j] = table[j]
      /\ Settled(p, ok)[k].status = IF ok THEN "COMPLETED" ELSE "FAILED"
      BY <1>1, <1>2 DEF Settled, MarkComplete, MarkFailed, Tables, Rows
<1>5. \A q \in Passes \ {p} : Holding(q) => /\ pass[q].key \in Keys \ {k}
                                            /\ table[pass[q].key].status = "PROCESSING"
      BY DEF ExclusiveClaim
<1> QED
      BY <1>1, <1>3, <1>4, <1>5 DEF LoopTable

-----------------------------------------------------------------------------
(* One lemma per action: it preserves the invariant.                       *)
LEMMA BootInv == ASSUME IInv, NEW p \in Passes, Boot(p) PROVE IInv'
<1> USE DEF IInv, Boot
<1>1. PICK stale \in SUBSET WithStatus(table, "PROCESSING") :
         table' = RequeueStaleProcessing(table, stale)
      OBVIOUS
<1>2. table' \in Tables /\ WithinBudget(table')
      BY <1>1, RequeueType, RequeueBudget DEF TypeOK, RetryBudget
<1>3. Probing \in PassStates
      BY SyncEngineAssumption DEF Probing, PassStates
<1>4. pass' \in [Passes -> PassStates] /\ pass'[p] = Probing
      BY <1>3 DEF TypeOK
<1>5. \A q \in Passes : ~Holding(q)'
      BY <1>4 DEF DownIsIdle, Holding, TypeOK, Probing
<1>6. TypeOK'
      BY <1>2, <1>4 DEF TypeOK, brokerVars, Broker!BrokerTypeOK
<1>7. \A k \in Keys : /\ table'[k].status = "COMPLETED" <=> table[k].status = "COMPLETED"
                      /\ table'[k].status = "ABSENT" <=> table[k].status = "ABSENT"
      BY <1>1 DEF RequeueStaleProcessing, TypeOK, Tables, Rows
<1>8. CompletedWasPublished' /\ PacketsHaveRows'
      BY <1>7 DEF CompletedWasPublished, PacketsHaveRows, WithStatus, Present, brokerVars
<1>9. ExclusiveClaim' /\ DownIsIdle' /\ AcceptedWasPublished'
      BY <1>5 DEF ExclusiveClaim, DownIsIdle, AcceptedWasPublished, Holding
<1> QED
      BY <1>2, <1>6, <1>8, <1>9 DEF RetryBudget

LEMMA EnqueueInv ==
    ASSUME IInv, NEW p \in Passes, NEW k \in Keys, NEW payload \in Payloads,
           Enqueue(p, k, payload)
    PROVE  IInv'
<1> USE DEF IInv, Enqueue
<1>1. table' \in Tables /\ WithinBudget(table')
      BY InsertType, InsertBudget DEF TypeOK, RetryBudget
<1>2. badge' \in [queued : Nat, failed : Nat, processing : Nat,
                  online : BOOLEAN, oldest : SUBSET Keys]
      BY StatusType DEF TypeOK
<1>3. Probing \in PassStates
      BY SyncEngineAssumption DEF Probing, PassStates
<1>4. /\ pass' \in [Passes -> PassStates]
      /\ pass'[p] = Probing
      /\ \A q \in Passes \ {p} : pass'[q] = pass[q]
      BY <1>3 DEF TypeOK
<1>5. TypeOK'
      BY <1>1, <1>2, <1>4 DEF TypeOK, brokerVars, Broker!BrokerTypeOK
<1>6. \A j \in Keys : \/ table'[j] = table[j]
                      \/ table[j].status = "ABSENT" /\ table'[j].status = "PENDING"
      BY DEF Insert, TypeOK, Tables, Present
<1>7. \A q \in Passes : Holding(q)' => Holding(q) /\ q # p /\ pass'[q] = pass[q]
      BY <1>4 DEF Holding, Probing
<1>8. ExclusiveClaim'
      BY <1>6, <1>7 DEF ExclusiveClaim
<1>9. CompletedWasPublished' /\ PacketsHaveRows'
      BY <1>6 DEF CompletedWasPublished, PacketsHaveRows, WithStatus, Present, brokerVars
<1>10. DownIsIdle' /\ AcceptedWasPublished'
      BY <1>4 DEF DownIsIdle, AcceptedWasPublished, Probing, brokerVars
<1> QED
      BY <1>1, <1>5, <1>8, <1>9, <1>10 DEF RetryBudget

LEMMA ReadStatusInv == ASSUME IInv, ReadStatus PROVE IInv'
<1> USE DEF IInv, ReadStatus
<1>1. badge' \in [queued : Nat, failed : Nat, processing : Nat,
                  online : BOOLEAN, oldest : SUBSET Keys]
      BY StatusType DEF TypeOK
<1>2. TypeOK'
      BY <1>1 DEF TypeOK, brokerVars, Broker!BrokerTypeOK
<1> QED
      BY <1>2 DEF ExclusiveClaim, RetryBudget, CompletedWasPublished, DownIsIdle,
                  AcceptedWasPublished, PacketsHaveRows, Holding, brokerVars

LEMMA TimerFlushInv == ASSUME IInv, NEW p \in Passes, TimerFlush(p) PROVE IInv'
<1> USE DEF IInv, TimerFlush
<1>1. Probing \in PassStates
      BY SyncEngineAssumption DEF Probing, PassStates
<1>2. /\ pass' \in [Passes -> PassStates]
      /\ pass'[p] = Probing
      /\ \A q \in Passes \ {p} : pass'[q] = pass[q]
      BY <1>1 DEF TypeOK
<1>3. TypeOK'
      BY <1>2 DEF TypeOK, brokerVars, Broker!BrokerTypeOK
<1>4. \A q \in Passes : Holding(q)' => Holding(q) /\ pass'[q] = pass[q]
      BY <1>2 DEF Holding, Probing
<1>5. ExclusiveClaim'
      BY <1>4 DEF ExclusiveClaim
<1>6. AcceptedWasPublished'
      BY <1>2 DEF AcceptedWasPublished, Probing, brokerVars
<1> QED
      BY <1>3, <1>5, <1>6 DEF RetryBudget, CompletedWasPublished, DownIsIdle,
                              PacketsHaveRows, brokerVars

(* After the head of the loop a row is as the loop found it, or PROCESSING *)
(* after it was waiting.                                                   *)
LEMMA LoopRows ==
    ASSUME NEW t \in Tables, NEW k \in Keys,
           table'[k] = t[k] \/ (IsNext(t, k) /\ table'[k] = Claim(t, k)[k])
    PROVE  /\ table'[k].status = "COMPLETED" => t[k].status = "COMPLETED"
           /\ t[k].status # "ABSENT" => table'[k].status # "ABSENT"
           /\ Terminal(t, k) => table'[k] = t[k]
<1>1. CASE table'[k] = t[k]
      BY <1>1
<1>2. CASE IsNext(t, k) /\ table'[k] = Claim(t, k)[k]
  <2>1. table'[k].status = "PROCESSING"
        BY <1>2 DEF Claim, Tables, Rows
  <2>2. ~Terminal(t, k)
    <3>1. /\ t[k].retryCount \in Nat
          /\ MaxRetryCount \in Nat
          BY OfflineStoreAssumption DEF Tables, Rows
    <3> QED
          BY <3>1, <1>2, NextWaits DEF Terminal, Exhausted
  <2> QED
        BY <2>1, <2>2
<1> QED
      BY <1>1, <1>2

LEMMA ProbeReturnsInv == ASSUME IInv, NEW p \in Passes, ProbeReturns(p) PROVE IInv'
<1> USE DEF IInv, ProbeReturns
<1>1. ~Holding(p)
      BY DEF Holding
<1>2. LoopTable(p, table) /\ LoopHead(p, table, 0)
      BY DEF LoopTable, LoopHead, TypeOK, RetryBudget, ExclusiveClaim
<1>3. /\ table' \in Tables
      /\ pass' \in [Passes -> PassStates]
      /\ ExclusiveClaim'
      /\ WithinBudget(table')
      /\ \A k \in Keys : table'[k] = table[k] \/ (/\ IsNext(table, k)
                                                 /\ table'[k] = Claim(table, k)[k])
      /\ \A q \in Passes \ {p} : pass'[q] = pass[q]
      /\ pass'[p].pc \in {"idle", "posting"}
      BY <1>2, LoopHeadFacts
<1>4. badge' \in [queued : Nat, failed : Nat, processing : Nat,
                  online : BOOLEAN, oldest : SUBSET Keys]
      BY StatusType DEF TypeOK
<1>5. TypeOK'
      BY <1>3, <1>4 DEF TypeOK, brokerVars, Broker!BrokerTypeOK
<1>6. \A k \in Keys :
         /\ table'[k].status = "COMPLETED" => table[k].status = "COMPLETED"
         /\ table[k].status # "ABSENT" => table'[k].status # "ABSENT"
      BY <1>3, LoopRows DEF TypeOK
<1>7. CompletedWasPublished' /\ PacketsHaveRows'
      BY <1>6 DEF CompletedWasPublished, PacketsHaveRows, WithStatus, Present, brokerVars
<1>8. DownIsIdle' /\ AcceptedWasPublished'
      BY <1>3 DEF DownIsIdle, AcceptedWasPublished, brokerVars
<1> QED
      BY <1>3, <1>5, <1>7, <1>8 DEF RetryBudget

LEMMA BrokerAnswersInv == ASSUME IInv, NEW p \in Passes, BrokerAnswers(p) PROVE IInv'
<1> USE DEF IInv, BrokerAnswers
<1> DEFINE k == pass[p].key
           st == Broker!StatusOf(k, Content(k))
<1>1. k \in Keys /\ table[k].status = "PROCESSING"
      BY DEF ExclusiveClaim, Holding
<1>2. /\ Broker!BrokerTypeOK'
      /\ st \in Broker!Answers
      /\ published \subseteq published'
      /\ published' \subseteq published \cup {k}
      /\ st \in HttpOk => k \in published'
      BY <1>1, PacketFacts DEF TypeOK
<1>3. /\ pass' \in [Passes -> PassStates]
      /\ pass'[p].pc = "answered" /\ pass'[p].answer = st /\ pass'[p].key = k
      /\ \A q \in Passes \ {p} : pass'[q] = pass[q]
  <2>1. pass[p] \in PassStates
        BY DEF TypeOK
  <2>2. [pass[p] EXCEPT !.pc = "answered", !.answer = st] \in PassStates
        BY <2>1, <1>2 DEF PassStates
  <2>3. pass' = [pass EXCEPT ![p] = [pass[p] EXCEPT !.pc = "answered", !.answer = st]]
        BY DEF TypeOK
  <2> DEFINE next == [pass[p] EXCEPT !.pc = "answered", !.answer = st]
  <2>4. next.pc = "answered" /\ next.answer = st /\ next.key = k
        BY <2>1 DEF PassStates
  <2>5. pass' = [pass EXCEPT ![p] = next] /\ next \in PassStates
        BY <2>2, <2>3
  <2>6. pass \in [Passes -> PassStates]
        BY DEF TypeOK
  <2> HIDE DEF next, st, IInv, BrokerAnswers
  <2>7. /\ pass' \in [Passes -> PassStates]
        /\ pass'[p] = next
        /\ \A q \in Passes \ {p} : pass'[q] = pass[q]
        BY <2>5, <2>6
  <2> QED
        BY <2>4, <2>7
<1> HIDE DEF st
<1>4. TypeOK'
      BY <1>2, <1>3 DEF TypeOK
<1>5. \A q \in Passes : (Holding(q)' <=> Holding(q)) /\ pass'[q].key = pass[q].key
      BY <1>3 DEF Holding
<1>6. ExclusiveClaim' /\ DownIsIdle'
      BY <1>5 DEF ExclusiveClaim, DownIsIdle
<1>7. AcceptedWasPublished'
      BY <1>2, <1>3 DEF AcceptedWasPublished
<1>8. CompletedWasPublished' /\ PacketsHaveRows'
      BY <1>1, <1>2 DEF CompletedWasPublished, PacketsHaveRows, Present, WithStatus
<1> QED
      BY <1>4, <1>6, <1>7, <1>8 DEF RetryBudget

(* The two ways an await of deliver() ends share what they do to the table *)
(* and the passes.                                                         *)
LEMMA ResumeFacts ==
    ASSUME IInv, NEW p \in Passes, Holding(p), NEW ok \in BOOLEAN, Resume(p, ok),
           ok => pass[p].key \in published
    PROVE  /\ table' \in Tables
           /\ pass' \in [Passes -> PassStates]
           /\ ExclusiveClaim'
           /\ WithinBudget(table')
           /\ \A q \in Passes \ {p} : pass'[q] = pass[q]
           /\ pass'[p].pc \in {"idle", "posting"}
           /\ WithStatus(table', "COMPLETED") \subseteq published
           /\ Present(table) \subseteq Present(table')
           /\ \A k \in Keys : Terminal(table, k) => table'[k] = table[k]
<1> DEFINE t == Settled(p, ok)
           n == pass[p].delivered + 1
           key == pass[p].key
<1> USE DEF IInv
<1>1. /\ LoopTable(p, t)
      /\ key \in Keys
      /\ table[key].status = "PROCESSING"
      /\ \A j \in Keys \ {key} : t[j] = table[j]
      /\ t[key].status = IF ok THEN "COMPLETED" ELSE "FAILED"
      BY SettledFacts
<1>2. n \in Nat
      BY SyncEngineAssumption DEF TypeOK, PassStates
<1>3. LoopHead(p, t, n)
      BY DEF Resume, LoopHead
<1> HIDE DEF t, n
<1>4. /\ table' \in Tables
      /\ pass' \in [Passes -> PassStates]
      /\ ExclusiveClaim'
      /\ WithinBudget(table')
      /\ \A k \in Keys : table'[k] = t[k] \/ (/\ IsNext(t, k)
                                             /\ table'[k] = Claim(t, k)[k])
      /\ \A q \in Passes \ {p} : pass'[q] = pass[q]
      /\ pass'[p].pc \in {"idle", "posting"}
      BY <1>1, <1>2, <1>3, LoopHeadFacts
<1>5. \A k \in Keys :
         /\ table'[k].status = "COMPLETED" => t[k].status = "COMPLETED"
         /\ t[k].status # "ABSENT" => table'[k].status # "ABSENT"
         /\ Terminal(t, k) => table'[k] = t[k]
      BY <1>1, <1>4, LoopRows DEF LoopTable
<1>6. WithStatus(table', "COMPLETED") \subseteq published
      BY <1>1, <1>5 DEF CompletedWasPublished, WithStatus
<1>7. Present(table) \subseteq Present(table')
      BY <1>1, <1>5 DEF Present
<1>8. \A k \in Keys : Terminal(table, k) => table'[k] = table[k]
      BY <1>1, <1>5 DEF Terminal, Exhausted
<1> QED
      BY <1>4, <1>6, <1>7, <1>8

LEMMA AnswerReturnsInv == ASSUME IInv, NEW p \in Passes, AnswerReturns(p) PROVE IInv'
<1> USE DEF IInv, AnswerReturns
<1> DEFINE ok == pass[p].answer \in HttpOk
<1>1. /\ Holding(p)
      /\ ok => pass[p].key \in published
      /\ ok \in BOOLEAN
      /\ Resume(p, ok)
      BY DEF Holding, AcceptedWasPublished
<1> HIDE DEF ok
<1>2. /\ table' \in Tables
      /\ pass' \in [Passes -> PassStates]
      /\ ExclusiveClaim'
      /\ WithinBudget(table')
      /\ \A q \in Passes \ {p} : pass'[q] = pass[q]
      /\ pass'[p].pc \in {"idle", "posting"}
      /\ WithStatus(table', "COMPLETED") \subseteq published
      /\ Present(table) \subseteq Present(table')
      BY <1>1, ResumeFacts
<1>3. badge' \in [queued : Nat, failed : Nat, processing : Nat,
                  online : BOOLEAN, oldest : SUBSET Keys]
      BY <1>1, StatusType DEF TypeOK, Resume
<1>4. TypeOK'
      BY <1>2, <1>3 DEF TypeOK, brokerVars, Broker!BrokerTypeOK
<1>5. CompletedWasPublished' /\ PacketsHaveRows'
      BY <1>2 DEF CompletedWasPublished, PacketsHaveRows, brokerVars
<1>6. DownIsIdle' /\ AcceptedWasPublished'
      BY <1>2 DEF DownIsIdle, AcceptedWasPublished, brokerVars
<1> QED
      BY <1>2, <1>4, <1>5, <1>6 DEF RetryBudget

LEMMA PostTimesOutInv == ASSUME IInv, NEW p \in Passes, PostTimesOut(p) PROVE IInv'
<1> USE DEF IInv, PostTimesOut
<1>1. /\ table' \in Tables
      /\ pass' \in [Passes -> PassStates]
      /\ ExclusiveClaim'
      /\ WithinBudget(table')
      /\ \A q \in Passes \ {p} : pass'[q] = pass[q]
      /\ pass'[p].pc \in {"idle", "posting"}
      /\ WithStatus(table', "COMPLETED") \subseteq published
      /\ Present(table) \subseteq Present(table')
      BY ResumeFacts
<1>2. badge' \in [queued : Nat, failed : Nat, processing : Nat,
                  online : BOOLEAN, oldest : SUBSET Keys]
      BY StatusType DEF TypeOK, Resume
<1>3. pass[p].key \in Present(table)
      BY DEF ExclusiveClaim, Present
<1>4. late' \subseteq Present(table) /\ late' \subseteq Keys
      BY <1>3 DEF PacketsHaveRows, Present
<1>5. TypeOK'
      BY <1>1, <1>2, <1>4 DEF TypeOK, brokerVars, Broker!BrokerTypeOK
<1>6. CompletedWasPublished' /\ PacketsHaveRows'
      BY <1>1, <1>4 DEF CompletedWasPublished, PacketsHaveRows, brokerVars
<1>7. DownIsIdle' /\ AcceptedWasPublished'
      BY <1>1 DEF DownIsIdle, AcceptedWasPublished, brokerVars
<1> QED
      BY <1>1, <1>5, <1>6, <1>7 DEF RetryBudget

LEMMA LatePacketInv == ASSUME IInv, NEW k \in Keys, LatePacket(k) PROVE IInv'
<1> USE DEF IInv, LatePacket
<1>1. /\ Broker!BrokerTypeOK'
      /\ published \subseteq published'
      /\ published' \subseteq published \cup {k}
  <2>1. CASE Broker!HandlePacket(k, Content(k))
        BY <2>1, PacketFacts DEF TypeOK
  <2>2. CASE UNCHANGED brokerVars
        BY <2>2 DEF TypeOK, brokerVars, Broker!BrokerTypeOK
  <2> QED
        BY <2>1, <2>2
<1>2. TypeOK'
      BY <1>1 DEF TypeOK
<1>3. CompletedWasPublished' /\ AcceptedWasPublished' /\ PacketsHaveRows'
      BY <1>1 DEF CompletedWasPublished, AcceptedWasPublished, PacketsHaveRows,
                  Present, WithStatus
<1> QED
      BY <1>2, <1>3 DEF ExclusiveClaim, RetryBudget, DownIsIdle, Holding

LEMMA BrokerTimeInv == ASSUME IInv, BrokerTime PROVE IInv'
<1> USE DEF IInv, BrokerTime
<1>1. Broker!BrokerTypeOK' /\ UNCHANGED published
      BY SyncEngineAssumption
         DEF TypeOK, Broker!BrokerTypeOK, Broker!Refill, Broker!Forget
<1> QED
      BY <1>1 DEF TypeOK, ExclusiveClaim, RetryBudget, CompletedWasPublished, DownIsIdle,
                  AcceptedWasPublished, PacketsHaveRows, Holding

(* What a dead process leaves on disk satisfies all that the next one      *)
(* needs.                                                                  *)
LEMMA CrashTableFacts ==
    ASSUME IInv, NEW t \in CrashTables
    PROVE  /\ t \in Tables
           /\ WithinBudget(t)
           /\ WithStatus(t, "COMPLETED") \subseteq published
           /\ Present(table) \subseteq Present(t)
           /\ \A k \in Keys : Terminal(table, k) => t[k] = table[k]
<1> USE DEF IInv
<1>1. CASE t = table
      BY <1>1 DEF TypeOK, RetryBudget, CompletedWasPublished
<1>2. ASSUME NEW p \in Passes, Holding(p), NEW ok \in BOOLEAN, t = Settled(p, ok),
             ok => pass[p].key \in published
      PROVE  /\ t \in Tables
             /\ WithinBudget(t)
             /\ WithStatus(t, "COMPLETED") \subseteq published
             /\ Present(table) \subseteq Present(t)
             /\ \A k \in Keys : Terminal(table, k) => t[k] = table[k]
  <2>1. /\ LoopTable(p, t)
        /\ pass[p].key \in Keys
        /\ table[pass[p].key].status = "PROCESSING"
        /\ \A j \in Keys \ {pass[p].key} : t[j] = table[j]
        /\ t[pass[p].key].status = IF ok THEN "COMPLETED" ELSE "FAILED"
        BY <1>2, SettledFacts
  <2> QED
        BY <1>2, <2>1 DEF LoopTable, WithStatus, Present, Terminal, Exhausted,
                          CompletedWasPublished
<1>3. CASE \E p \in {q \in Passes : Holding(q)} : t = Settled(p, FALSE)
      BY <1>2, <1>3
<1>4. CASE \E p \in {q \in Passes : pass[q].pc = "answered" /\ pass[q].answer \in HttpOk} :
              t = Settled(p, TRUE)
  <2>1. PICK p \in Passes : /\ pass[p].pc = "answered"
                            /\ pass[p].answer \in HttpOk
                            /\ t = Settled(p, TRUE)
        BY <1>4
  <2>2. Holding(p) /\ pass[p].key \in published
        BY <2>1 DEF Holding, AcceptedWasPublished
  <2> QED
        BY <1>2, <2>1, <2>2
<1> QED
      BY <1>1, <1>3, <1>4 DEF CrashTables

LEMMA CrashInv == ASSUME IInv, Crash PROVE IInv'
<1> USE DEF Crash, ProcessLost
<1>1. /\ table' \in Tables
      /\ WithinBudget(table')
      /\ WithStatus(table', "COMPLETED") \subseteq published
      /\ Present(table) \subseteq Present(table')
      BY CrashTableFacts
<1>2. Idle \in PassStates
      BY SyncEngineAssumption DEF Idle, PassStates
<1>3. pass' \in [Passes -> PassStates] /\ \A p \in Passes : pass'[p] = Idle
      BY <1>2
<1>4. \A p \in Passes : ~Holding(p)'
      BY <1>3 DEF Holding, Idle
<1>5. NoBadge \in [queued : Nat, failed : Nat, processing : Nat,
                   online : BOOLEAN, oldest : SUBSET Keys]
      BY DEF NoBadge
<1>6. Broker!BrokerTypeOK' /\ published' = published
      BY SyncEngineAssumption DEF IInv, TypeOK, Broker!BrokerLost, Broker!BrokerTypeOK
<1>7. crashes' \in 0..MaxCrashes
      BY SyncEngineAssumption DEF IInv, TypeOK
<1>8. TypeOK'
      BY <1>1, <1>3, <1>5, <1>6, <1>7 DEF TypeOK
<1>9. ExclusiveClaim' /\ DownIsIdle'
      BY <1>4 DEF ExclusiveClaim, DownIsIdle
<1>10. CompletedWasPublished' /\ AcceptedWasPublished' /\ PacketsHaveRows'
      BY <1>1, <1>3, <1>6 DEF IInv, CompletedWasPublished, AcceptedWasPublished,
                              PacketsHaveRows, Idle
<1> QED
      BY <1>1, <1>8, <1>9, <1>10 DEF IInv, RetryBudget

-----------------------------------------------------------------------------
LEMMA InitInv == Init => IInv
<1> SUFFICES ASSUME Init PROVE IInv
      OBVIOUS
<1> USE DEF Init
<1>1. Idle \in PassStates
      BY SyncEngineAssumption DEF Idle, PassStates
<1>2. NoBadge \in [queued : Nat, failed : Nat, processing : Nat,
                   online : BOOLEAN, oldest : SUBSET Keys]
      BY DEF NoBadge
<1>3. Broker!BrokerTypeOK /\ published = {}
      BY SyncEngineAssumption DEF Broker!BrokerInit, Broker!BrokerTypeOK
<1>4. 0 \in 0..MaxCrashes
      BY SyncEngineAssumption
<1>5. TypeOK /\ RetryBudget
      BY <1>1, <1>2, <1>3, <1>4, EmptyTableFacts DEF TypeOK, RetryBudget
<1>6. \A p \in Passes : pass[p].pc = "idle" /\ ~Holding(p)
      BY DEF Idle, Holding
<1>7. ExclusiveClaim /\ DownIsIdle /\ AcceptedWasPublished
      BY <1>6 DEF ExclusiveClaim, DownIsIdle, AcceptedWasPublished
<1>8. CompletedWasPublished /\ PacketsHaveRows
      BY <1>3 DEF CompletedWasPublished, PacketsHaveRows, WithStatus, EmptyTable
<1> QED
      BY <1>5, <1>7, <1>8 DEF IInv

LEMMA StepInv == IInv /\ [Next]_vars => IInv'
<1> SUFFICES ASSUME IInv, [Next]_vars PROVE IInv'
      OBVIOUS
<1>1. CASE \E p \in Passes : Boot(p)
      BY <1>1, BootInv
<1>2. CASE \E p \in Passes : TimerFlush(p)
      BY <1>2, TimerFlushInv
<1>3. CASE \E p \in Passes : ProbeReturns(p)
      BY <1>3, ProbeReturnsInv
<1>4. CASE \E p \in Passes : BrokerAnswers(p)
      BY <1>4, BrokerAnswersInv
<1>5. CASE \E p \in Passes : AnswerReturns(p)
      BY <1>5, AnswerReturnsInv
<1>6. CASE \E p \in Passes : PostTimesOut(p)
      BY <1>6, PostTimesOutInv
<1>7. CASE \E p \in Passes, k \in Keys, payload \in Payloads : Enqueue(p, k, payload)
      BY <1>7, EnqueueInv
<1>8. CASE \E k \in Keys : LatePacket(k)
      BY <1>8, LatePacketInv
<1>9. CASE ReadStatus
      BY <1>9, ReadStatusInv
<1>10. CASE BrokerTime
      BY <1>10, BrokerTimeInv
<1>11. CASE Crash
      BY <1>11, CrashInv
<1>12. CASE UNCHANGED vars
      BY <1>12 DEF vars, IInv, TypeOK, ExclusiveClaim, RetryBudget, CompletedWasPublished,
                   DownIsIdle, AcceptedWasPublished, PacketsHaveRows, Holding,
                   Broker!BrokerTypeOK
<1> QED
      BY <1>1, <1>2, <1>3, <1>4, <1>5, <1>6, <1>7, <1>8, <1>9, <1>10, <1>11, <1>12
         DEF Next, Turn, PassStep

(* The inductive invariant holds of every behaviour.                       *)
THEOREM Invariance == Spec => []IInv
<1>1. Init => IInv
      BY InitInv
<1>2. IInv /\ [Next]_vars => IInv'
      BY StepInv
<1> QED
      BY <1>1, <1>2, PTL DEF Spec

(* Every variable keeps its type.                                          *)
THEOREM TypeCorrectness == Spec => []TypeOK
<1>1. IInv => TypeOK
      BY DEF IInv
<1> QED
      BY <1>1, Invariance, PTL

(* Overlapping passes never hold the same row (store.ts:219-224), however  *)
(* many run and wherever the process dies.                                 *)
THEOREM ClaimsAreExclusive == Spec => []ExclusiveClaim
<1>1. IInv => ExclusiveClaim
      BY DEF IInv
<1> QED
      BY <1>1, Invariance, PTL

(* MAX_RETRY_COUNT bounds the failures of every action (store.ts:42).      *)
THEOREM BudgetIsKept == Spec => []RetryBudget
<1>1. IInv => RetryBudget
      BY DEF IInv
<1> QED
      BY <1>1, Invariance, PTL

(* An action that is reported COMPLETED was published (sync.ts:102-103).   *)
THEOREM CompletionIsEarned == Spec => []CompletedWasPublished
<1>1. IInv => CompletedWasPublished
      BY DEF IInv
<1> QED
      BY <1>1, Invariance, PTL

-----------------------------------------------------------------------------
(* No step changes a row that is COMPLETED or out of retries.              *)
LEMMA TerminalStep ==
    ASSUME IInv, [Next]_vars, NEW k \in Keys, Terminal(table, k)
    PROVE  table'[k] = table[k]
<1>1. CASE \E p \in Passes : Boot(p)
  <2>1. table[k].status # "PROCESSING"
        BY DEF Terminal, Exhausted
  <2> QED
        BY <1>1, <2>1 DEF Boot, RequeueStaleProcessing
<1>2. CASE \E p \in Passes : ProbeReturns(p)
  <2>1. PICK p \in Passes : ProbeReturns(p)
        BY <1>2
  <2>2. LoopTable(p, table) /\ LoopHead(p, table, 0)
        BY <2>1 DEF LoopTable, LoopHead, ProbeReturns, IInv, TypeOK, RetryBudget, ExclusiveClaim
  <2>3. table'[k] = table[k] \/ (IsNext(table, k) /\ table'[k] = Claim(table, k)[k])
        BY <2>2, LoopHeadFacts DEF IInv
  <2> QED
        BY <2>3, LoopRows DEF IInv, TypeOK
<1>3. CASE \E p \in Passes : AnswerReturns(p)
  <2>1. PICK p \in Passes : AnswerReturns(p)
        BY <1>3
  <2> DEFINE ok == pass[p].answer \in HttpOk
  <2>2. /\ Holding(p)
        /\ ok => pass[p].key \in published
        /\ ok \in BOOLEAN
        /\ Resume(p, ok)
        BY <2>1 DEF AnswerReturns, Holding, IInv, AcceptedWasPublished
  <2> HIDE DEF ok
  <2> QED
        BY <2>2, ResumeFacts
<1>4. CASE \E p \in Passes : PostTimesOut(p)
      BY <1>4, ResumeFacts DEF PostTimesOut
<1>5. CASE \E p \in Passes, j \in Keys, payload \in Payloads : Enqueue(p, j, payload)
  <2>1. k \in Present(table)
        BY DEF Terminal, Exhausted, Present
  <2> QED
        BY <1>5, <2>1 DEF Enqueue, Insert, IInv, TypeOK, Tables
<1>6. CASE Crash
      BY <1>6, CrashTableFacts DEF Crash
<1>7. CASE UNCHANGED table
      BY <1>7
<1> QED
      BY <1>1, <1>2, <1>3, <1>4, <1>5, <1>6, <1>7
         DEF Next, Turn, PassStep, TimerFlush, BrokerAnswers, LatePacket, ReadStatus,
             BrokerTime, vars

(* A settled action is never reopened or reversed.                         *)
THEOREM SettledStaysSettled == Spec => TerminalIsFinal
<1>1. IInv /\ [Next]_vars => [\A k \in Keys : Terminal(table, k) => table'[k] = table[k]]_vars
      BY TerminalStep
<1> QED
      BY <1>1, Invariance, PTL DEF Spec, TerminalIsFinal

-----------------------------------------------------------------------------
(* What the statements of the store do to the outbox.                      *)
SameOutbox(t, u) == StateIn(u) = StateIn(t) /\ AttemptsIn(u) = AttemptsIn(t)

LEMMA ClaimIsInvisible ==
    ASSUME NEW t \in Tables, NEW k \in Keys, IsNext(t, k)
    PROVE  SameOutbox(t, Claim(t, k))
BY NextWaits DEF SameOutbox, StateIn, AttemptsIn, Claim, Tables, Rows

LEMMA RequeueIsInvisible ==
    ASSUME NEW t \in Tables, NEW stale
    PROVE  SameOutbox(t, RequeueStaleProcessing(t, stale))
BY DEF SameOutbox, StateIn, AttemptsIn, RequeueStaleProcessing, Tables, Rows

LEMMA LoopIsInvisible ==
    ASSUME NEW t \in Tables, NEW p, NEW n, LoopHead(p, t, n)
    PROVE  SameOutbox(t, table')
<1>1. CASE table' = t
      BY <1>1 DEF SameOutbox
<1>2. CASE \E k \in Keys : IsNext(t, k) /\ table' = Claim(t, k)
      BY <1>2, ClaimIsInvisible
<1> QED
      BY <1>1, <1>2 DEF LoopHead, ClaimAndPost, EndOfPass

(* Settling a row is one failed attempt, or the end of a published item.   *)
LEMMA SettlingIsAnOutboxStep ==
    ASSUME IInv, NEW p \in Passes, Holding(p), NEW ok \in BOOLEAN,
           ok => pass[p].key \in published,
           SameOutbox(Settled(p, ok), table'),
           UNCHANGED <<published, repeated>>, window' \subseteq window
    PROVE  Outbox!OutboxNext
<1> DEFINE k == pass[p].key
<1>1. /\ k \in Keys
      /\ table[k].status = "PROCESSING"
      /\ table \in Tables
      /\ table[k].retryCount < MaxRetryCount
      BY DEF IInv, TypeOK, ExclusiveClaim, RetryBudget, WithinBudget
<1>2. Outbox!Live(k)
      BY <1>1 DEF Outbox!Live, StateIn, AttemptsIn
<1>3. CASE ok
  <2>1. Settled(p, ok) = MarkComplete(table, k)
        BY <1>3 DEF Settled
  <2>2. /\ StateIn(MarkComplete(table, k)) = [StateIn(table) EXCEPT ![k] = "done"]
        /\ AttemptsIn(MarkComplete(table, k)) = AttemptsIn(table)
        BY <1>1 DEF StateIn, AttemptsIn, MarkComplete, Tables, Rows
  <2>3. Outbox!Finish(k)
        BY <1>2, <1>3, <2>1, <2>2 DEF Outbox!Finish, Outbox!Forget, SameOutbox
  <2> QED
        BY <1>1, <2>3 DEF Outbox!OutboxNext
<1>4. CASE ~ok
  <2>1. Settled(p, ok) = MarkFailed(table, k)
        BY <1>4 DEF Settled
  <2>2. /\ StateIn(MarkFailed(table, k)) = StateIn(table)
        /\ AttemptsIn(MarkFailed(table, k)) = [AttemptsIn(table) EXCEPT ![k] = @ + 1]
        BY <1>1 DEF StateIn, AttemptsIn, MarkFailed, Tables, Rows
  <2>3. Outbox!Fail(k)
        BY <1>2, <2>1, <2>2 DEF Outbox!Fail, Outbox!Forget, SameOutbox
  <2> QED
        BY <1>1, <2>3 DEF Outbox!OutboxNext
<1> QED
      BY <1>3, <1>4

(* A packet is a publication or nothing.                                   *)
LEMMA PacketIsAnOutboxStep ==
    ASSUME IInv, NEW k \in Present(table), NEW content,
           Broker!HandlePacket(k, content), table' = table
    PROVE  Outbox!OutboxNext \/ UNCHANGED Outbox!outboxVars
<1>1. k \in Keys /\ table[k].status # "ABSENT"
      BY DEF Present
<1>2. SameOutbox(table, table')
      BY DEF SameOutbox
<1>3. CASE Broker!StatusOf(k, content) # Broker!Accepted
  <2>1. UNCHANGED <<window, published, repeated>>
        BY <1>3 DEF Broker!HandlePacket, Broker!PublishIfAccepted
  <2> QED
        BY <1>2, <2>1 DEF SameOutbox, Outbox!outboxVars
<1>4. CASE Broker!StatusOf(k, content) = Broker!Accepted
  <2>1. k \notin window
        BY <1>4 DEF Broker!StatusOf, Broker!Accepted, Broker!Deduplicated, Broker!Invalid,
                    Broker!RateLimited, IInv, TypeOK, Broker!BrokerTypeOK
  <2>2. /\ published' = published \cup {k} /\ window' = window \cup {k}
        /\ repeated' = IF k \in published THEN repeated \cup {k} ELSE repeated
        BY <1>4 DEF Broker!HandlePacket, Broker!PublishIfAccepted, Broker!Publish
  <2>3. Outbox!Publish(k)
        BY <1>1, <1>2, <2>1, <2>2 DEF Outbox!Publish, SameOutbox, StateIn
  <2> QED
        BY <1>1, <2>3 DEF Outbox!OutboxNext
<1> QED
      BY <1>3, <1>4

LEMMA EnqueueIsAnOutboxStep ==
    ASSUME IInv, NEW p \in Passes, NEW k \in Keys, NEW payload \in Payloads,
           Enqueue(p, k, payload)
    PROVE  Outbox!OutboxNext \/ UNCHANGED Outbox!outboxVars
<1>1. /\ UNCHANGED <<published, repeated, window>>
      /\ table' = Insert(table, k, payload) /\ table \in Tables
      BY DEF Enqueue, brokerVars, IInv, TypeOK
<1>2. CASE k \in Present(table)
      BY <1>1, <1>2 DEF Insert, Outbox!outboxVars
<1>3. CASE k \notin Present(table)
  <2>1. table[k].status = "ABSENT"
        BY <1>3 DEF Present
  <2>2. /\ table'[k].status = "PENDING" /\ table'[k].retryCount = 0
        /\ \A j \in Keys \ {k} : table'[j] = table[j]
        BY <1>1, <1>3 DEF Insert, Tables
  <2>3. StateIn(table') = [StateIn(table) EXCEPT ![k] = "open"]
        BY <2>2 DEF StateIn
  <2>4. AttemptsIn(table') = AttemptsIn(table)
        BY <2>1, <2>2 DEF AttemptsIn
  <2>5. Outbox!Submit(k)
        BY <1>1, <2>1, <2>3, <2>4 DEF Outbox!Submit, StateIn
  <2> QED
        BY <2>5 DEF Outbox!OutboxNext
<1> QED
      BY <1>2, <1>3

LEMMA InitIsOutboxInit == Init => Outbox!OutboxInit
BY DEF Init, Outbox!OutboxInit, Broker!BrokerInit, StateIn, AttemptsIn, EmptyTable

LEMMA StepIsAnOutboxStep ==
    IInv /\ [Next]_vars => [Outbox!OutboxNext]_(Outbox!outboxVars)
<1> SUFFICES ASSUME IInv, [Next]_vars
             PROVE  Outbox!OutboxNext \/ UNCHANGED Outbox!outboxVars
      OBVIOUS
<1>0. table \in Tables
      BY DEF IInv, TypeOK
<1>1. ASSUME SameOutbox(table, table'), UNCHANGED <<published, repeated, window>>
      PROVE  UNCHANGED Outbox!outboxVars
      BY <1>1 DEF SameOutbox, Outbox!outboxVars
<1>2. CASE \E p \in Passes : Boot(p)
      BY <1>0, <1>1, <1>2, RequeueIsInvisible DEF Boot, brokerVars
<1>3. CASE \E p \in Passes : ProbeReturns(p)
      BY <1>0, <1>1, <1>3, LoopIsInvisible DEF ProbeReturns, LoopHead, brokerVars
<1>4. CASE \E p \in Passes : BrokerAnswers(p)
  <2>1. PICK p \in Passes : BrokerAnswers(p)
        BY <1>4
  <2>2. pass[p].key \in Present(table)
        BY <2>1 DEF BrokerAnswers, IInv, ExclusiveClaim, Holding, Present
  <2> QED
        BY <2>1, <2>2, PacketIsAnOutboxStep DEF BrokerAnswers
<1>5. CASE \E k \in Keys : LatePacket(k)
  <2>1. PICK k \in Keys : LatePacket(k)
        BY <1>5
  <2>2. k \in Present(table)
        BY <2>1 DEF LatePacket, IInv, PacketsHaveRows
  <2>3. CASE Broker!HandlePacket(k, Content(k))
        BY <2>1, <2>2, <2>3, PacketIsAnOutboxStep DEF LatePacket
  <2>4. CASE UNCHANGED brokerVars
        BY <1>1, <2>1, <2>4 DEF LatePacket, brokerVars, SameOutbox
  <2> QED
        BY <2>1, <2>3, <2>4 DEF LatePacket
<1>6. ASSUME NEW p \in Passes, Holding(p), NEW ok \in BOOLEAN, Resume(p, ok),
             ok => pass[p].key \in published, UNCHANGED brokerVars
      PROVE  Outbox!OutboxNext
  <2>1. LoopHead(p, Settled(p, ok), pass[p].delivered + 1)
        BY <1>6 DEF Resume, LoopHead
  <2>2. Settled(p, ok) \in Tables
        BY <1>6, SettledFacts DEF IInv, LoopTable
  <2> QED
        BY <1>6, <2>1, <2>2, LoopIsInvisible, SettlingIsAnOutboxStep DEF brokerVars
<1>7. CASE \E p \in Passes : AnswerReturns(p)
  <2>1. PICK p \in Passes : AnswerReturns(p)
        BY <1>7
  <2> DEFINE ok == pass[p].answer \in HttpOk
  <2>2. /\ Holding(p)
        /\ ok => pass[p].key \in published
        /\ ok \in BOOLEAN
        /\ Resume(p, ok)
        /\ UNCHANGED brokerVars
        BY <2>1 DEF AnswerReturns, Holding, IInv, AcceptedWasPublished
  <2> HIDE DEF ok
  <2> QED
        BY <1>6, <2>2
<1>8. CASE \E p \in Passes : PostTimesOut(p)
      BY <1>6, <1>8 DEF PostTimesOut
<1>9. CASE \E p \in Passes, k \in Keys, payload \in Payloads : Enqueue(p, k, payload)
      BY <1>9, EnqueueIsAnOutboxStep
<1>10. CASE Crash
  <2>1. UNCHANGED <<published, repeated>> /\ window' \subseteq window
        BY <1>10 DEF Crash, ProcessLost, Broker!BrokerLost
  <2>2. CASE table' = table
    <3>1. Outbox!ForgetOnly
          BY <2>1, <2>2 DEF Outbox!ForgetOnly, Outbox!Forget
    <3> QED
          BY <3>1 DEF Outbox!OutboxNext
  <2>3. ASSUME NEW p \in Passes, Holding(p), NEW ok \in BOOLEAN, table' = Settled(p, ok),
               ok => pass[p].key \in published
        PROVE  Outbox!OutboxNext
        BY <2>1, <2>3, SettlingIsAnOutboxStep DEF SameOutbox
  <2>4. CASE \E p \in {q \in Passes : Holding(q)} : table' = Settled(p, FALSE)
        BY <2>3, <2>4
  <2>5. CASE \E p \in {q \in Passes : pass[q].pc = "answered" /\ pass[q].answer \in HttpOk} :
                table' = Settled(p, TRUE)
    <3>1. PICK p \in Passes : /\ pass[p].pc = "answered"
                              /\ pass[p].answer \in HttpOk
                              /\ table' = Settled(p, TRUE)
          BY <2>5
    <3>2. Holding(p) /\ pass[p].key \in published
          BY <3>1 DEF Holding, IInv, AcceptedWasPublished
    <3> QED
          BY <2>3, <3>1, <3>2
  <2> QED
        BY <1>10, <2>2, <2>4, <2>5 DEF Crash, CrashTables
<1>11. CASE UNCHANGED <<table, published, repeated, window>>
      BY <1>1, <1>11 DEF SameOutbox
<1>12. CASE BrokerTime
  <2>1. UNCHANGED <<table, published, repeated>> /\ window' \subseteq window
        BY <1>12 DEF BrokerTime, Broker!Refill, Broker!Forget
  <2>2. Outbox!ForgetOnly
        BY <2>1 DEF Outbox!ForgetOnly, Outbox!Forget
  <2> QED
        BY <2>2 DEF Outbox!OutboxNext
<1> QED
      BY <1>2, <1>3, <1>4, <1>5, <1>7, <1>8, <1>9, <1>10, <1>11, <1>12
         DEF Next, Turn, PassStep, TimerFlush, ReadStatus, vars, brokerVars

(* The engine implements the durable outbox.                               *)
THEOREM Refinement == Spec => ImplementsOutbox
<1>1. Init => Outbox!OutboxInit
      BY InitIsOutboxInit
<1>2. IInv /\ [Next]_vars => [Outbox!OutboxNext]_(Outbox!outboxVars)
      BY StepIsAnOutboxStep
<1> QED
      BY <1>1, <1>2, Invariance, PTL DEF Spec, ImplementsOutbox, Outbox!OutboxSpec

-----------------------------------------------------------------------------
(* The badge: true whenever no pass holds a row, and blank while the       *)
(* console is down.                                                        *)
BadgeInv ==
    /\ up /\ badge # NoBadge /\ (\A p \in Passes : ~Holding(p)) => badge = Status(table, online)
    /\ ~up => badge = NoBadge

(* A pass that lets go of its row without another in hand has pushed the   *)
(* status it left behind.                                                  *)
LEMMA ResumeKeepsBadge ==
    ASSUME IInv, NEW p \in Passes, NEW ok, Resume(p, ok), UNCHANGED <<up, online>>, up
    PROVE  BadgeInv'
<1> DEFINE t == Settled(p, ok)
           n == pass[p].delivered + 1
<1>1. CASE ClaimAndPost(p, t, n)
  <2>1. PICK k \in Keys : pass' = [pass EXCEPT ![p] = Posting(k, n)]
        BY <1>1 DEF ClaimAndPost
  <2>2. Holding(p)'
        BY <2>1 DEF IInv, TypeOK, Holding, Posting
  <2> QED
        BY <2>2 DEF BadgeInv
<1>2. CASE badge' = Status(table', online)
      BY <1>2 DEF BadgeInv
<1> QED
      BY <1>1, <1>2 DEF Resume

(* A probe finds the table as the last pass left it, or takes a row.       *)
LEMMA ProbeKeepsBadge ==
    ASSUME IInv, BadgeInv, NEW p \in Passes, ProbeReturns(p)
    PROVE  BadgeInv'
<1>1. CASE ClaimAndPost(p, table, 0)
  <2>1. PICK k \in Keys : pass' = [pass EXCEPT ![p] = Posting(k, 0)]
        BY <1>1 DEF ClaimAndPost
  <2>2. Holding(p)'
        BY <2>1 DEF IInv, TypeOK, Holding, Posting
  <2> QED
        BY <2>2 DEF BadgeInv, ProbeReturns
<1>2. CASE EndOfPass(p, table, 0)
  <2>1. ~(0 >= FlushCeiling)
        BY SyncEngineAssumption
  <2>2. table' = table /\ pass' = [pass EXCEPT ![p] = Idle]
        BY <1>2, <2>1 DEF EndOfPass
  <2>3. (\A q \in Passes : ~Holding(q)') => \A q \in Passes : ~Holding(q)
        BY <2>2 DEF Holding, ProbeReturns, IInv, TypeOK
  <2> QED
        BY <2>2, <2>3 DEF BadgeInv, ProbeReturns
<1> QED
      BY <1>1, <1>2 DEF ProbeReturns

LEMMA BadgeStep == IInv /\ BadgeInv /\ [Next]_vars => BadgeInv'
<1> SUFFICES ASSUME IInv, BadgeInv, [Next]_vars PROVE BadgeInv'
      OBVIOUS
<1>1. ASSUME NEW p \in Passes, Boot(p) PROVE BadgeInv'
      BY <1>1 DEF Boot, BadgeInv
<1>2. ASSUME NEW p \in Passes, TimerFlush(p) PROVE BadgeInv'
  <2>1. \A q \in Passes : Holding(q)' <=> Holding(q)
        BY <1>2 DEF TimerFlush, Holding, Probing, IInv, TypeOK
  <2> QED
        BY <1>2, <2>1 DEF TimerFlush, BadgeInv
<1>3. ASSUME NEW p \in Passes, BrokerAnswers(p) PROVE BadgeInv'
  <2>1. Holding(p)'
        BY <1>3 DEF BrokerAnswers, Holding, IInv, TypeOK, PassStates
  <2> QED
        BY <1>3, <2>1 DEF BrokerAnswers, BadgeInv
<1>4. ASSUME NEW p \in Passes, AnswerReturns(p) \/ PostTimesOut(p) PROVE BadgeInv'
      BY <1>4, ResumeKeepsBadge DEF AnswerReturns, PostTimesOut
<1>5. CASE \/ ReadStatus
           \/ \E p \in Passes, k \in Keys, payload \in Payloads : Enqueue(p, k, payload)
      BY <1>5 DEF ReadStatus, Enqueue, BadgeInv
<1>6. CASE UNCHANGED <<table, up, pass, online, badge>>
      BY <1>6 DEF BadgeInv, Holding
<1>7. CASE Crash
      BY <1>7 DEF Crash, ProcessLost, BadgeInv
<1> QED
      BY <1>1, <1>2, <1>3, <1>4, <1>5, <1>6, <1>7, ProbeKeepsBadge
         DEF Next, Turn, PassStep, LatePacket, BrokerTime, vars

(* A badge that was pushed shows what is on disk once no pass is running,  *)
(* however passes, timeouts and crashes were interleaved (sync.ts:15-17).  *)
THEOREM BadgeIsTrue == Spec => []BadgeTrueAtRest
<1>1. Init => BadgeInv
      BY DEF Init, BadgeInv
<1>2. BadgeInv => BadgeTrueAtRest
      BY DEF BadgeInv, BadgeTrueAtRest, Holding
<1> QED
      BY <1>1, <1>2, BadgeStep, Invariance, PTL DEF Spec

-----------------------------------------------------------------------------
(* Rows are numbered as they come, and none was tried before an older one. *)
Ordered(t) ==
    /\ \A k \in Present(t) : t[k].createdAt < Cardinality(Present(t))
    /\ \A j, k \in Present(t) :
          t[j].status = "PENDING" /\ t[j].createdAt < t[k].createdAt => t[k].status = "PENDING"

(* Until the first crash; before the first boot there is no row at all.    *)
OrderInv ==
    crashes = 0 => Ordered(table) /\ (~up => Present(table) = {})

LEMMA InsertOrdered ==
    ASSUME NEW t \in Tables, Ordered(t), NEW k \in Keys, NEW payload \in Payloads
    PROVE  Ordered(Insert(t, k, payload))
<1> DEFINE u == Insert(t, k, payload)
           c == Cardinality(Present(t))
<1>1. CASE k \in Present(t)
      BY <1>1 DEF Insert
<1>2. CASE k \notin Present(t)
  <2>1. /\ u[k].status = "PENDING" /\ u[k].createdAt = c
        /\ \A j \in Keys \ {k} : u[j] = t[j]
        BY <1>2 DEF Insert, Tables
  <2>2. Present(u) = Present(t) \cup {k}
        BY <2>1 DEF Present
  <2>3. c \in Nat /\ IsFiniteSet(Present(t))
    <3>1. Present(t) \in SUBSET Keys
          BY DEF Present
    <3> QED
          BY <3>1, RowSetsAreFinite, OfflineStoreAssumption, FS_Subset
  <2>4. Cardinality(Present(u)) = c + 1
        BY <1>2, <2>2, <2>3, FS_AddElement
  <2>5. \A j \in Present(t) : /\ t[j].createdAt \in Nat /\ t[j].createdAt < c
                              /\ u[j] = t[j]
        BY <1>2, <2>1 DEF Ordered, Present, Tables, Rows
  <2> HIDE DEF u, c
  <2>6. \A j \in Present(u) : u[j].createdAt < c + 1
        BY <2>1, <2>2, <2>3, <2>5
  <2>7. ASSUME NEW i \in Present(u), NEW j \in Present(u),
               u[i].status = "PENDING", u[i].createdAt < u[j].createdAt
        PROVE  u[j].status = "PENDING"
    <3>1. CASE j = k
          BY <2>1, <3>1
    <3>2. CASE j # k
      <4>1. i # k
            BY <2>1, <2>2, <2>3, <2>5, <2>7, <3>2
      <4> QED
            BY <2>2, <2>5, <2>7, <3>2, <4>1 DEF Ordered
    <3> QED
          BY <3>1, <3>2
  <2>8. Ordered(u)
        BY <2>4, <2>6, <2>7 DEF Ordered
  <2> QED
        BY <2>8 DEF u
<1> QED
      BY <1>1, <1>2

(* A statement that changes the status of one row that has a turn: an      *)
(* older one is not PENDING.                                               *)
LEMMA StatusOrdered ==
    ASSUME NEW t \in Tables, Ordered(t), NEW u \in Tables, NEW k \in Present(t),
           \A j \in Keys \ {k} : u[j] = t[j],
           u[k].createdAt = t[k].createdAt, u[k].status \notin {"ABSENT", "PENDING"},
           \A j \in Keys : t[j].status = "PENDING" => ~(t[j].createdAt < t[k].createdAt)
    PROVE  Ordered(u)
<1>1. Present(u) = Present(t)
      BY DEF Present
<1> QED
      BY <1>1 DEF Ordered, Present

LEMMA ClaimOrdered ==
    ASSUME NEW t \in Tables, Ordered(t), NEW k \in Keys, IsNext(t, k)
    PROVE  Ordered(Claim(t, k))
<1>1. Claim(t, k) \in Tables
      BY ClaimType
<1>2. /\ Claim(t, k)[k].status = "PROCESSING"
      /\ Claim(t, k)[k].createdAt = t[k].createdAt
      /\ \A j \in Keys \ {k} : Claim(t, k)[j] = t[j]
      BY DEF Claim, Tables, Rows
<1>3. k \in Present(t)
      BY NextWaits DEF Present
<1>4. \A j \in Keys : t[j].status = "PENDING" => ~(t[j].createdAt < t[k].createdAt)
  <2>1. \A j \in Keys : t[j].status = "PENDING" => t[k].createdAt <= t[j].createdAt
        BY DEF IsNext, Candidates, WithStatus
  <2> QED
        BY <2>1 DEF Tables, Rows
<1> QED
      BY <1>1, <1>2, <1>3, <1>4, StatusOrdered

LEMMA SettledOrdered ==
    ASSUME IInv, Ordered(table), NEW p \in Passes, Holding(p), NEW ok \in BOOLEAN
    PROVE  Ordered(Settled(p, ok)) /\ Settled(p, ok) \in Tables
<1> DEFINE k == pass[p].key
           u == Settled(p, ok)
<1>1. /\ u \in Tables /\ table \in Tables
      /\ k \in Keys
      /\ table[k].status = "PROCESSING"
      /\ \A j \in Keys \ {k} : u[j] = table[j]
      /\ u[k].status \in {"COMPLETED", "FAILED"}
      BY SettledFacts DEF IInv, LoopTable, TypeOK
<1>2. u[k].createdAt = table[k].createdAt
      BY <1>1 DEF Settled, MarkComplete, MarkFailed, Tables, Rows
<1>3. k \in Present(table)
      BY <1>1 DEF Present
<1>4. \A j \in Keys : table[j].status = "PENDING" => ~(table[j].createdAt < table[k].createdAt)
      BY <1>1, <1>3 DEF Ordered, Present
<1> HIDE DEF u, k
<1>5. Ordered(u)
      BY <1>1, <1>2, <1>3, <1>4, StatusOrdered
<1> QED
      BY <1>1, <1>5 DEF u

LEMMA LoopOrdered ==
    ASSUME NEW t \in Tables, Ordered(t), NEW p, NEW n, LoopHead(p, t, n)
    PROVE  Ordered(table')
<1>1. CASE table' = t
      BY <1>1
<1>2. CASE \E k \in Keys : IsNext(t, k) /\ table' = Claim(t, k)
      BY <1>2, ClaimOrdered
<1> QED
      BY <1>1, <1>2 DEF LoopHead, ClaimAndPost, EndOfPass

LEMMA OrderStep == IInv /\ OrderInv /\ [Next]_vars => OrderInv'
<1> SUFFICES ASSUME IInv, OrderInv, [Next]_vars PROVE OrderInv'
      OBVIOUS
<1>0. table \in Tables
      BY DEF IInv, TypeOK
<1>1. ASSUME NEW p \in Passes, Boot(p) PROVE OrderInv'
  <2>1. PICK stale \in SUBSET WithStatus(table, "PROCESSING") :
           table' = RequeueStaleProcessing(table, stale)
        BY <1>1 DEF Boot
  <2>2. Present(table') = Present(table)
        BY <1>0, <2>1 DEF Present, RequeueStaleProcessing, Tables, Rows
  <2> QED
        BY <1>1, <2>2 DEF Boot, OrderInv, Ordered
<1>2. ASSUME NEW p \in Passes, ProbeReturns(p) PROVE OrderInv'
      BY <1>0, <1>2, LoopOrdered DEF ProbeReturns, LoopHead, OrderInv
<1>3. ASSUME NEW p \in Passes, Holding(p), NEW ok \in BOOLEAN, Resume(p, ok), up,
             UNCHANGED <<up, crashes>>
      PROVE  OrderInv'
  <2>1. LoopHead(p, Settled(p, ok), pass[p].delivered + 1)
        BY <1>3 DEF Resume, LoopHead
  <2> QED
        BY <1>3, <2>1, SettledOrdered, LoopOrdered DEF OrderInv
<1>4. ASSUME NEW p \in Passes, AnswerReturns(p) PROVE OrderInv'
  <2> DEFINE ok == pass[p].answer \in HttpOk
  <2>1. ok \in BOOLEAN /\ Holding(p) /\ Resume(p, ok) /\ up /\ UNCHANGED <<up, crashes>>
        BY <1>4 DEF AnswerReturns, Holding
  <2> HIDE DEF ok
  <2> QED
        BY <1>3, <2>1
<1>5. ASSUME NEW p \in Passes, PostTimesOut(p) PROVE OrderInv'
      BY <1>3, <1>5 DEF PostTimesOut
<1>6. ASSUME NEW p \in Passes, NEW k \in Keys, NEW payload \in Payloads,
             Enqueue(p, k, payload)
      PROVE  OrderInv'
      BY <1>0, <1>6, InsertOrdered DEF Enqueue, OrderInv
<1>7. CASE Crash
      BY <1>7 DEF Crash, ProcessLost, OrderInv, IInv, TypeOK
<1>8. CASE UNCHANGED <<table, up, crashes>>
      BY <1>8 DEF OrderInv, Ordered, Present
<1> QED
      BY <1>1, <1>2, <1>4, <1>5, <1>6, <1>7, <1>8
         DEF Next, Turn, PassStep, TimerFlush, BrokerAnswers, LatePacket, ReadStatus,
             BrokerTime, vars

(* Until the process dies for the first time, no action is tried while an  *)
(* older one still waits for its first attempt (store.ts:231-233).         *)
THEOREM OldestGoesFirst == Spec => []FirstAttemptsInOrder
<1>1. Init => OrderInv
  <2>1. Init => Present(table) = {}
        BY DEF Init, Present, EmptyTable
  <2> QED
        BY <2>1 DEF OrderInv, Ordered
<1>2. OrderInv => FirstAttemptsInOrder
      BY DEF OrderInv, Ordered, FirstAttemptsInOrder
<1> QED
      BY <1>1, <1>2, OrderStep, Invariance, PTL DEF Spec

-----------------------------------------------------------------------------
(* The two ways a claim is left behind: a restart within the 30 s of       *)
(* staleness, and a pass that makes its last permitted delivery.           *)
BelowCeiling ==
    \A p \in Passes : Holding(p) => pass[p].delivered + 1 < FlushCeiling

(* What a pass leaves PROCESSING, it holds.                                *)
Attended(t, S) ==
    \A k \in WithStatus(t, "PROCESSING") : \E p \in S : Holding(p) /\ pass[p].key = k

LEMMA LoopAttends ==
    ASSUME TypeOK, NEW p \in Passes, NEW t \in Tables, NEW n \in Nat, n < FlushCeiling,
           LoopHead(p, t, n), up, Attended(t, Passes \ {p})
    PROVE  NoStrandedClaim'
<1>1. ~(n >= FlushCeiling)
      BY SyncEngineAssumption
<1>2. \A q \in Passes \ {p} : pass'[q] = pass[q]
      BY DEF TypeOK, LoopHead, ClaimAndPost, EndOfPass
<1>3. \A k \in WithStatus(t, "PROCESSING") :
         \E q \in Passes : Holding(q)' /\ pass'[q].key = k
      BY <1>2 DEF Attended, Holding
<1>4. CASE EndOfPass(p, t, n)
      BY <1>1, <1>3, <1>4 DEF EndOfPass, NoStrandedClaim
<1>5. CASE ClaimAndPost(p, t, n)
  <2>1. PICK k \in Keys : table' = Claim(t, k) /\ pass' = [pass EXCEPT ![p] = Posting(k, n)]
        BY <1>5 DEF ClaimAndPost
  <2>2. Holding(p)' /\ pass'[p].key = k
        BY <2>1 DEF TypeOK, Holding, Posting
  <2>3. WithStatus(table', "PROCESSING") \subseteq WithStatus(t, "PROCESSING") \cup {k}
        BY <2>1 DEF WithStatus, Claim, Tables, Rows
  <2> QED
        BY <1>3, <2>2, <2>3 DEF NoStrandedClaim
<1> QED
      BY <1>4, <1>5 DEF LoopHead

LEMMA ResumeAttends ==
    ASSUME IInv, BelowCeiling, NoStrandedClaim, NEW p \in Passes, Holding(p),
           NEW ok \in BOOLEAN, Resume(p, ok), up
    PROVE  NoStrandedClaim'
<1> DEFINE t == Settled(p, ok)
           n == pass[p].delivered + 1
           key == pass[p].key
<1>1. /\ t \in Tables
      /\ key \in Keys
      /\ \A j \in Keys \ {key} : t[j] = table[j]
      /\ t[key].status \in {"COMPLETED", "FAILED"}
      BY SettledFacts DEF IInv, LoopTable
<1>2. n \in Nat /\ n < FlushCeiling
      BY SyncEngineAssumption DEF IInv, TypeOK, PassStates, BelowCeiling
<1>3. LoopHead(p, t, n)
      BY DEF Resume, LoopHead
<1>4. WithStatus(t, "PROCESSING") \subseteq WithStatus(table, "PROCESSING") \ {key}
      BY <1>1 DEF WithStatus
<1> HIDE DEF t, n
<1>5. Attended(t, Passes \ {p})
      BY <1>4 DEF Attended, NoStrandedClaim
<1> QED
      BY <1>1, <1>2, <1>3, <1>5, LoopAttends DEF IInv

LEMMA AttendedStep ==
    ASSUME ~PromptRestart
    PROVE  IInv /\ BelowCeiling /\ NoStrandedClaim /\ [Next]_vars => NoStrandedClaim'
<1> SUFFICES ASSUME IInv, BelowCeiling, NoStrandedClaim, [Next]_vars
             PROVE  NoStrandedClaim'
      OBVIOUS
<1>0. table \in Tables /\ pass \in [Passes -> PassStates]
      BY DEF IInv, TypeOK
<1>1. ASSUME NEW p \in Passes, Boot(p) PROVE NoStrandedClaim'
  <2>1. table' = RequeueStaleProcessing(table, WithStatus(table, "PROCESSING"))
        BY <1>1 DEF Boot
  <2>2. WithStatus(table', "PROCESSING") = {}
        BY <1>0, <2>1 DEF WithStatus, RequeueStaleProcessing, Tables, Rows
  <2> QED
        BY <2>2 DEF NoStrandedClaim
<1>2. ASSUME NEW p \in Passes, TimerFlush(p) PROVE NoStrandedClaim'
  <2>1. \A q \in Passes : Holding(q) => Holding(q)' /\ pass'[q] = pass[q]
        BY <1>0, <1>2 DEF TimerFlush, Holding
  <2> QED
        BY <1>2, <2>1 DEF TimerFlush, NoStrandedClaim
<1>3. ASSUME NEW p \in Passes, NEW k \in Keys, NEW payload \in Payloads,
             Enqueue(p, k, payload)
      PROVE  NoStrandedClaim'
  <2>1. \A q \in Passes : Holding(q) => Holding(q)' /\ pass'[q] = pass[q]
        BY <1>0, <1>3 DEF Enqueue, Holding
  <2>2. WithStatus(table', "PROCESSING") \subseteq WithStatus(table, "PROCESSING")
        BY <1>0, <1>3 DEF Enqueue, Insert, WithStatus, Tables
  <2> QED
        BY <1>3, <2>1, <2>2 DEF Enqueue, NoStrandedClaim
<1>4. ASSUME NEW p \in Passes, ProbeReturns(p) PROVE NoStrandedClaim'
  <2>1. 0 < FlushCeiling
        BY SyncEngineAssumption
  <2>2. Attended(table, Passes \ {p})
        BY <1>4 DEF ProbeReturns, Attended, NoStrandedClaim, Holding
  <2> QED
        BY <1>0, <1>4, <2>1, <2>2, LoopAttends DEF ProbeReturns, LoopHead, IInv
<1>5. ASSUME NEW p \in Passes, BrokerAnswers(p) PROVE NoStrandedClaim'
  <2>1. \A q \in Passes : (Holding(q) => Holding(q)') /\ pass'[q].key = pass[q].key
        BY <1>0, <1>5 DEF BrokerAnswers, Holding, PassStates
  <2> QED
        BY <1>5, <2>1 DEF BrokerAnswers, NoStrandedClaim
<1>6. ASSUME NEW p \in Passes, AnswerReturns(p) PROVE NoStrandedClaim'
  <2> DEFINE ok == pass[p].answer \in HttpOk
  <2>1. ok \in BOOLEAN /\ Holding(p) /\ Resume(p, ok) /\ up
        BY <1>6 DEF AnswerReturns, Holding
  <2> HIDE DEF ok
  <2> QED
        BY <2>1, ResumeAttends
<1>7. ASSUME NEW p \in Passes, PostTimesOut(p) PROVE NoStrandedClaim'
      BY <1>7, ResumeAttends DEF PostTimesOut
<1>8. CASE Crash
      BY <1>8 DEF Crash, ProcessLost, NoStrandedClaim
<1>9. CASE UNCHANGED <<table, up, pass>>
      BY <1>9 DEF NoStrandedClaim, Holding
<1> QED
      BY <1>1, <1>2, <1>3, <1>4, <1>5, <1>6, <1>7, <1>8, <1>9
         DEF Next, Turn, PassStep, LatePacket, ReadStatus, BrokerTime, vars

(* No claim is stranded unless a restart was prompt or a pass spent its    *)
(* ceiling: there is no third way (sync.ts:98-107, store.ts:271-280).      *)
THEOREM NoThirdWayToStrand ==
    ASSUME ~PromptRestart
    PROVE  Spec /\ []BelowCeiling => []NoStrandedClaim
<1>1. Init => NoStrandedClaim
      BY DEF Init, NoStrandedClaim
<1>2. IInv /\ BelowCeiling /\ NoStrandedClaim /\ [Next]_vars => NoStrandedClaim'
      BY AttendedStep
<1> QED
      BY <1>1, <1>2, Invariance, PTL DEF Spec
=============================================================================
