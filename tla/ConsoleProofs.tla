--------------------------- MODULE ConsoleProofs ----------------------------
(***************************************************************************)
(* What holds of the sync engine and the lock bridge over one table, for   *)
(* any number of passes, encodes, drains and rows: no row is in two hands, *)
(* the retry budget is shared, a completed row was published or is on a    *)
(* card, and a settled row stays as it is.                                 *)
(***************************************************************************)
EXTENDS Console, OfflineStoreProofs

(* The variables the argument is about have their types.                   *)
ConsoleTypes ==
    /\ table \in Tables
    /\ pass \in [Passes -> Sync!PassStates]
    /\ session \in [Locks!Sessions -> Locks!SessionStates]

(* Whoever holds a row holds one of the table.                             *)
HandsHoldRows == \A h \in Holders : HeldBy(h) \in Keys

(* With the process everything in hand is gone.                            *)
DownHoldsNothing == ~up => Holders = {}

(* The two ways a row may come to be completed: the broker's 202 has been  *)
(* preceded by the publication, the encoder's OK by the card.              *)
AcceptedWasPublished ==
    \A p \in Passes :
       pass[p].pc = "answered" /\ pass[p].answer \in Sync!HttpOk => pass[p].key \in published

OkMeansWritten ==
    \A r \in Drains :
       /\ session[r].pc = "written" => session[r].req \in written
       /\ Locks!Awaiting(r) => table[session[r].key].payload = session[r].req

(* What waits for an encoder can be queued.                                *)
AwaitsRequest ==
    \A s \in Locks!Sessions : Locks!Awaiting(s) =>
       session[s].req \in Requests /\ session[s].req.device \in Registered

CInv ==
    /\ ConsoleTypes
    /\ OneHolder
    /\ SharedRetryBudget
    /\ CompletedWasDone
    /\ HandsHoldRows
    /\ DownHoldsNothing
    /\ AcceptedWasPublished
    /\ OkMeansWritten
    /\ AwaitsRequest

(* What a step must leave alone.                                           *)
KeepsSettled == \A k \in Keys : Terminal(table, k) => table'[k] = table[k]

-----------------------------------------------------------------------------
(* The two modules mean the same table and the same statements.            *)
LEMMA SyncStatements ==
    ASSUME NEW t, NEW k, NEW x
    PROVE  /\ Sync!Insert(t, k, x) = Insert(t, k, x)
           /\ Sync!Candidates(t) = Candidates(t)
           /\ Sync!IsNext(t, k) <=> IsNext(t, k)
           /\ Sync!Claim(t, k) = Claim(t, k)
           /\ Sync!MarkComplete(t, k) = MarkComplete(t, k)
           /\ Sync!MarkFailed(t, k) = MarkFailed(t, k)
           /\ Sync!RequeueStaleProcessing(t, x) = RequeueStaleProcessing(t, x)
           /\ Sync!WithStatus(t, x) = WithStatus(t, x)
           /\ Sync!EmptyTable = EmptyTable
<1>1. Sync!Present(t) = Present(t) /\ \A st : Sync!WithStatus(t, st) = WithStatus(t, st)
      BY DEF Sync!Present, Present, Sync!WithStatus, WithStatus
<1>2. Sync!Retryable(t) = Retryable(t)
      BY <1>1 DEF Sync!Retryable, Retryable
<1>3. Sync!Candidates(t) = Candidates(t)
      BY <1>1, <1>2 DEF Sync!Candidates, Candidates
<1>4. Sync!IsNext(t, k) <=> IsNext(t, k)
      BY <1>3 DEF Sync!IsNext, IsNext
<1>5. Sync!Insert(t, k, x) = Insert(t, k, x)
  <2>1. Sync!Cardinality(Present(t)) = Cardinality(Present(t))
        BY DEF Sync!Cardinality, Cardinality
  <2> QED
        BY <1>1, <2>1 DEF Sync!Insert, Insert
<1>6. Sync!Claim(t, k) = Claim(t, k) /\ Sync!MarkComplete(t, k) = MarkComplete(t, k)
      BY DEF Sync!Claim, Claim, Sync!MarkComplete, MarkComplete
<1>7. Sync!MarkFailed(t, k) = MarkFailed(t, k)
      BY DEF Sync!MarkFailed, MarkFailed
<1>8. Sync!RequeueStaleProcessing(t, x) = RequeueStaleProcessing(t, x)
      BY DEF Sync!RequeueStaleProcessing, RequeueStaleProcessing
<1>9. Sync!EmptyTable = EmptyTable
      BY DEF Sync!EmptyTable, EmptyTable
<1> QED
      BY <1>1, <1>3, <1>4, <1>5, <1>6, <1>7, <1>8, <1>9

LEMMA LockStatements ==
    ASSUME NEW t, NEW k, NEW x
    PROVE  /\ Locks!Insert(t, k, x) = Insert(t, k, x)
           /\ Locks!Candidates(t) = Candidates(t)
           /\ Locks!IsNext(t, k) <=> IsNext(t, k)
           /\ Locks!Claim(t, k) = Claim(t, k)
           /\ Locks!MarkComplete(t, k) = MarkComplete(t, k)
           /\ Locks!MarkFailed(t, k) = MarkFailed(t, k)
<1>1. Locks!Present(t) = Present(t) /\ \A st : Locks!WithStatus(t, st) = WithStatus(t, st)
      BY DEF Locks!Present, Present, Locks!WithStatus, WithStatus
<1>2. Locks!Retryable(t) = Retryable(t)
      BY <1>1 DEF Locks!Retryable, Retryable
<1>3. Locks!Candidates(t) = Candidates(t)
      BY <1>1, <1>2 DEF Locks!Candidates, Candidates
<1>4. Locks!IsNext(t, k) <=> IsNext(t, k)
      BY <1>3 DEF Locks!IsNext, IsNext
<1>5. Locks!Insert(t, k, x) = Insert(t, k, x)
  <2>1. Locks!Cardinality(Present(t)) = Cardinality(Present(t))
        BY DEF Locks!Cardinality, Cardinality
  <2> QED
        BY <1>1, <2>1 DEF Locks!Insert, Insert
<1>6. Locks!Claim(t, k) = Claim(t, k) /\ Locks!MarkComplete(t, k) = MarkComplete(t, k)
      BY DEF Locks!Claim, Claim, Locks!MarkComplete, MarkComplete
<1>7. Locks!MarkFailed(t, k) = MarkFailed(t, k)
      BY DEF Locks!MarkFailed, MarkFailed
<1> QED
      BY <1>3, <1>4, <1>5, <1>6, <1>7

-----------------------------------------------------------------------------
(* The holders after a step in which only a can have let go of a row or    *)
(* taken one hold different rows, if the others' rows are left alone and a *)
(* took one that nobody else had.                                          *)
LEMMA HandsFacts ==
    ASSUME CInv, NEW a,
           \A h \in Holders' \ {a} : h \in Holders /\ HeldBy(h)' = HeldBy(h),
           \A h \in Holders \ {a} : table'[HeldBy(h)].status = "PROCESSING",
           a \in Holders' => /\ HeldBy(a)' \in Keys
                             /\ table'[HeldBy(a)'].status = "PROCESSING"
                             /\ \A h \in Holders \ {a} : HeldBy(h) # HeldBy(a)'
    PROVE  OneHolder' /\ HandsHoldRows'
<1>1. \A h \in Holders' : HeldBy(h)' \in Keys /\ table'[HeldBy(h)'].status = "PROCESSING"
      BY DEF CInv, HandsHoldRows
<1>2. \A g, h \in Holders' : g # h => HeldBy(g)' # HeldBy(h)'
      BY DEF CInv, OneHolder
<1> QED
      BY <1>1, <1>2 DEF OneHolder, HandsHoldRows

(* In a step of the engine the drains hold what they held, in a step of    *)
(* the bridge the passes do.                                               *)
LEMMA PassStepHands ==
    ASSUME NEW p \in Passes, UNCHANGED lockVars,
           \A q \in Passes \ {p} : pass'[q] = pass[q]
    PROVE  /\ \A h \in Holders' \ {p} : h \in Holders /\ HeldBy(h)' = HeldBy(h)
           /\ p \in Holders' <=> Sync!Holding(p)'
           /\ HeldBy(p)' = pass'[p].key
           /\ \A r \in Drains : r \in Holders <=> Locks!Awaiting(r)
           /\ \A r \in Drains : HeldBy(r) = session[r].key
BY ConsoleAssumption DEF Holders, HeldBy, Sync!Holding, Locks!Awaiting, lockVars

LEMMA LockStepHands ==
    ASSUME NEW s \in Locks!Sessions, UNCHANGED pass,
           \A x \in Locks!Sessions \ {s} : session'[x] = session[x]
    PROVE  /\ \A h \in Holders' \ {s} : h \in Holders /\ HeldBy(h)' = HeldBy(h)
           /\ s \in Holders' <=> s \in Drains /\ Locks!Awaiting(s)'
           /\ s \in Holders <=> s \in Drains /\ Locks!Awaiting(s)
           /\ s \in Drains => HeldBy(s)' = session'[s].key /\ HeldBy(s) = session[s].key
<1>1. Holders' = {p \in Passes : Sync!Holding(p)} \cup {r \in Drains : Locks!Awaiting(r)'}
      BY DEF Holders, Sync!Holding
<1>2. \A h : HeldBy(h)' = IF h \in Passes THEN pass[h].key ELSE session'[h].key
      BY DEF HeldBy
<1>3. \A r \in Drains \ {s} : /\ session'[r] = session[r]
                              /\ Locks!Awaiting(r)' <=> Locks!Awaiting(r)
      BY DEF Locks!Sessions, Locks!Awaiting
<1>4. ASSUME NEW h \in Holders' \ {s} PROVE h \in Holders /\ HeldBy(h)' = HeldBy(h)
      BY <1>1, <1>2, <1>3, ConsoleAssumption DEF Holders, HeldBy
<1>5. s \notin Passes
      BY ConsoleAssumption DEF Locks!Sessions
<1>6. s \in Holders' <=> s \in Drains /\ Locks!Awaiting(s)'
      BY <1>1, <1>5
<1>7. s \in Holders <=> s \in Drains /\ Locks!Awaiting(s)
      BY <1>5 DEF Holders
<1>8. HeldBy(s)' = session'[s].key /\ HeldBy(s) = session[s].key
      BY <1>2, <1>5 DEF HeldBy
<1> QED
      BY <1>4, <1>6, <1>7, <1>8

-----------------------------------------------------------------------------
(* t is what the table may become at the hands of a: the rows of the other *)
(* holders and the settled rows are as they were, and a row is completed   *)
(* only when it was published or is on a card.                             *)
Settles(a, t) ==
    /\ t \in Tables
    /\ WithinBudget(t)
    /\ \A h \in Holders \ {a} : t[HeldBy(h)] = table[HeldBy(h)]
    /\ \A k \in Keys :
          /\ Terminal(table, k) => t[k] = table[k]
          /\ table[k].status # "ABSENT" => t[k].payload = table[k].payload
          /\ t[k].status = "COMPLETED" => k \in published \/ t[k].payload \in written

(* A row that nobody else holds.                                           *)
Free(a, k) == \A h \in Holders \ {a} : HeldBy(h) # k

LEMMA UntouchedSettles ==
    ASSUME CInv, NEW a
    PROVE  Settles(a, table)
BY DEF Settles, CInv, ConsoleTypes, SharedRetryBudget, CompletedWasDone, WithStatus

(* The row claimNext finds is in nobody's hands, and may be claimed.       *)
LEMMA ClaimSettles ==
    ASSUME CInv, NEW a, NEW t, Settles(a, t), NEW k \in Keys, IsNext(t, k)
    PROVE  /\ Settles(a, Claim(t, k))
           /\ Claim(t, k)[k].status = "PROCESSING"
           /\ Free(a, k)
<1>1. t \in Tables /\ Claim(t, k) \in Tables /\ WithinBudget(Claim(t, k))
      BY ClaimType, ClaimBudget DEF Settles
<1>2. t[k].status \in {"PENDING", "FAILED"} /\ ~Exhausted(t, k)
      BY <1>1, NextWaits, OfflineStoreAssumption DEF Exhausted, Tables, Rows
<1>3. Claim(t, k)[k] = [t[k] EXCEPT !.status = "PROCESSING"]
      BY <1>1 DEF Claim, Tables
<1>4. \A j \in Keys \ {k} : Claim(t, k)[j] = t[j]
      BY <1>1 DEF Claim, Tables
<1>5. Free(a, k)
  <2>1. \A h \in Holders \ {a} : t[HeldBy(h)].status = "PROCESSING"
        BY DEF CInv, OneHolder, Settles
  <2> QED
        BY <1>2, <2>1 DEF Free
<1>6. \A h \in Holders \ {a} : Claim(t, k)[HeldBy(h)] = table[HeldBy(h)]
      BY <1>4, <1>5 DEF Free, Settles, CInv, HandsHoldRows
<1>7. ~Terminal(table, k)
      BY <1>2 DEF Settles, Terminal, Exhausted
<1>8. /\ Claim(t, k)[k].payload = t[k].payload
      /\ Claim(t, k)[k].status = "PROCESSING"
      BY <1>1, <1>3 DEF Tables, Rows
<1> QED
      BY <1>1, <1>4, <1>5, <1>6, <1>7, <1>8 DEF Settles

LEMMA FailSettles ==
    ASSUME CInv, NEW a, NEW t, Settles(a, t), NEW k \in Keys,
           t[k].status = "PROCESSING", Free(a, k)
    PROVE  Settles(a, MarkFailed(t, k))
<1>1. t \in Tables /\ MarkFailed(t, k) \in Tables /\ WithinBudget(MarkFailed(t, k))
      BY MarkFailedType, MarkFailedBudget DEF Settles
<1>2. \A j \in Keys \ {k} : MarkFailed(t, k)[j] = t[j]
      BY <1>1 DEF MarkFailed, Tables
<1>3. \A h \in Holders \ {a} : MarkFailed(t, k)[HeldBy(h)] = table[HeldBy(h)]
      BY <1>2 DEF Free, Settles, CInv, HandsHoldRows
<1>4. ~Terminal(table, k)
      BY DEF Settles, Terminal, Exhausted
<1>5. /\ MarkFailed(t, k)[k].payload = t[k].payload
      /\ MarkFailed(t, k)[k].status = "FAILED"
      BY <1>1 DEF MarkFailed, Tables, Rows
<1> QED
      BY <1>1, <1>2, <1>3, <1>4, <1>5 DEF Settles

LEMMA CompleteSettles ==
    ASSUME CInv, NEW a, NEW t, Settles(a, t), NEW k \in Keys,
           t[k].status = "PROCESSING", Free(a, k),
           k \in published \/ t[k].payload \in written
    PROVE  Settles(a, MarkComplete(t, k))
<1>1. t \in Tables /\ MarkComplete(t, k) \in Tables /\ WithinBudget(MarkComplete(t, k))
      BY MarkCompleteType, MarkCompleteBudget DEF Settles
<1>2. \A j \in Keys \ {k} : MarkComplete(t, k)[j] = t[j]
      BY <1>1 DEF MarkComplete, Tables
<1>3. \A h \in Holders \ {a} : MarkComplete(t, k)[HeldBy(h)] = table[HeldBy(h)]
      BY <1>2 DEF Free, Settles, CInv, HandsHoldRows
<1>4. ~Terminal(table, k)
      BY DEF Settles, Terminal, Exhausted
<1>5. MarkComplete(t, k)[k].payload = t[k].payload
      BY <1>1 DEF MarkComplete, Tables, Rows
<1> QED
      BY <1>1, <1>2, <1>3, <1>4, <1>5 DEF Settles

LEMMA InsertSettles ==
    ASSUME CInv, NEW a, NEW k \in Keys, NEW payload \in Payloads
    PROVE  Settles(a, Insert(table, k, payload))
<1>1. table \in Tables /\ WithinBudget(table) /\ Settles(a, table)
      BY UntouchedSettles DEF CInv, ConsoleTypes, SharedRetryBudget
<1>2. CASE k \in Present(table)
      BY <1>1, <1>2 DEF Insert
<1>3. CASE k \notin Present(table)
  <2> DEFINE t == Insert(table, k, payload)
  <2>1. t \in Tables /\ WithinBudget(t)
        BY <1>1, InsertType, InsertBudget
  <2>2. table[k].status = "ABSENT"
        BY <1>3 DEF Present
  <2>3. t[k].status = "PENDING" /\ \A j \in Keys \ {k} : t[j] = table[j]
        BY <1>1, <1>3 DEF Insert, Tables
  <2>4. \A h \in Holders : HeldBy(h) \in Keys \ {k}
        BY <2>2 DEF CInv, OneHolder, HandsHoldRows
  <2> HIDE DEF t
  <2>5. ~Terminal(table, k)
        BY <2>2 DEF Terminal, Exhausted
  <2>6. Settles(a, t)
        BY <1>1, <2>1, <2>2, <2>3, <2>4, <2>5 DEF Settles
  <2> QED
        BY <2>6 DEF t
<1> QED
      BY <1>2, <1>3

(* With nobody holding anything, what was left PROCESSING may be requeued. *)
LEMMA RequeueSettles ==
    ASSUME CInv, Holders = {}, NEW a, NEW stale
    PROVE  Settles(a, RequeueStaleProcessing(table, stale))
<1> DEFINE t == RequeueStaleProcessing(table, stale)
<1>1. table \in Tables /\ WithinBudget(table) /\ Settles(a, table)
      BY UntouchedSettles DEF CInv, ConsoleTypes, SharedRetryBudget
<1>2. t \in Tables /\ WithinBudget(t)
      BY <1>1, RequeueType, RequeueBudget
<1>3. \A k \in Keys : /\ Terminal(table, k) => t[k] = table[k]
                      /\ t[k].payload = table[k].payload
                      /\ t[k].status = "COMPLETED" => table[k].status = "COMPLETED"
      BY <1>1 DEF RequeueStaleProcessing, Terminal, Exhausted, Tables, Rows
<1> HIDE DEF t
<1>4. Settles(a, t)
      BY <1>1, <1>2, <1>3 DEF Settles
<1> QED
      BY <1>4 DEF t

(* What follows from the table having moved in that way.                   *)
LEMMA TableMoves ==
    ASSUME CInv, NEW a, Settles(a, table'),
           published \subseteq published', written \subseteq written',
           \A h \in Holders' \ {a} : h \in Holders /\ HeldBy(h)' = HeldBy(h),
           a \in Holders' => /\ HeldBy(a)' \in Keys
                             /\ table'[HeldBy(a)'].status = "PROCESSING"
                             /\ Free(a, HeldBy(a)')
    PROVE  /\ table' \in Tables
           /\ OneHolder' /\ SharedRetryBudget' /\ CompletedWasDone' /\ HandsHoldRows'
           /\ KeepsSettled
<1>1. OneHolder' /\ HandsHoldRows'
      BY HandsFacts DEF Settles, CInv, OneHolder, Free
<1>2. table' \in Tables /\ SharedRetryBudget' /\ KeepsSettled
      BY DEF Settles, SharedRetryBudget, KeepsSettled
<1>3. CompletedWasDone'
      BY DEF Settles, CompletedWasDone, WithStatus
<1> QED
      BY <1>1, <1>2, <1>3

-----------------------------------------------------------------------------
(* The engine.  A pass that has settled its row, in t, claims the next one *)
(* and posts it, or ends.                                                  *)
LEMMA PassStateTypes ==
    ASSUME NEW k \in Keys, NEW n \in 0..FlushCeiling
    PROVE  /\ Sync!Idle \in Sync!PassStates /\ Sync!Probing \in Sync!PassStates
           /\ Sync!Posting(k, n) \in Sync!PassStates
<1>1. 0 \in 0..FlushCeiling
      BY ConsoleAssumption
<1> QED
      BY <1>1 DEF Sync!Idle, Sync!Probing, Sync!Posting, Sync!PassStates

(* What the pass has in hand after a step is in nobody else's, and a 202   *)
(* has been published.                                                     *)
TakesOver(p) ==
    /\ Settles(p, table')
    /\ pass'[p] \in Sync!PassStates
    /\ Sync!Holding(p)' => /\ pass'[p].key \in Keys
                          /\ table'[pass'[p].key].status = "PROCESSING"
                          /\ Free(p, pass'[p].key)
    /\ pass'[p].pc = "answered" /\ pass'[p].answer \in Sync!HttpOk
          => pass'[p].key \in published'

(* A step that moves the table by Settles and no session keeps what is     *)
(* known of the sessions.                                                  *)
LEMMA SessionsKept ==
    ASSUME CInv, UNCHANGED lockVars, NEW p \in Passes, Settles(p, table')
    PROVE  OkMeansWritten' /\ AwaitsRequest'
<1>1. ASSUME NEW r \in Drains, Locks!Awaiting(r)
      PROVE  table'[session[r].key].payload = session[r].req
  <2>1. r \in Holders \ {p} /\ HeldBy(r) = session[r].key
        BY <1>1, ConsoleAssumption DEF Holders, HeldBy
  <2> QED
        BY <1>1, <2>1 DEF Settles, CInv, OkMeansWritten
<1> QED
      BY <1>1 DEF CInv, OkMeansWritten, AwaitsRequest, Locks!Awaiting, lockVars, Locks!Sessions

LEMMA PassKeeps ==
    ASSUME CInv, up', NEW p \in Passes, TakesOver(p),
           pass' = [pass EXCEPT ![p] = pass'[p]],
           UNCHANGED lockVars, published \subseteq published'
    PROVE  CInv' /\ KeepsSettled
<1>1. /\ pass \in [Passes -> Sync!PassStates]
      /\ pass' \in [Passes -> Sync!PassStates]
      /\ \A q \in Passes \ {p} : pass'[q] = pass[q]
  <2>1. pass \in [Passes -> Sync!PassStates] /\ pass'[p] \in Sync!PassStates
        BY DEF CInv, ConsoleTypes, TakesOver
  <2> QED
        BY <2>1
<1>2. /\ \A h \in Holders' \ {p} : h \in Holders /\ HeldBy(h)' = HeldBy(h)
      /\ p \in Holders' <=> Sync!Holding(p)'
      /\ HeldBy(p)' = pass'[p].key
      BY <1>1, PassStepHands
<1>3. /\ table' \in Tables
      /\ OneHolder' /\ SharedRetryBudget' /\ CompletedWasDone' /\ HandsHoldRows'
      /\ KeepsSettled
      BY <1>2, TableMoves DEF TakesOver, lockVars
<1>4. ConsoleTypes'
      BY <1>1, <1>3 DEF ConsoleTypes, lockVars, CInv
<1>5. DownHoldsNothing'
      BY DEF DownHoldsNothing
<1>6. AcceptedWasPublished'
      BY <1>1 DEF AcceptedWasPublished, TakesOver, CInv
<1>7. OkMeansWritten' /\ AwaitsRequest'
      BY SessionsKept DEF TakesOver
<1> QED
      BY <1>3, <1>4, <1>5, <1>6, <1>7 DEF CInv

LEMMA PassMoves ==
    ASSUME CInv, up', NEW p \in Passes, NEW t, NEW n \in Nat, Settles(p, t),
           Sync!ClaimAndPost(p, t, n) \/ Sync!EndOfPass(p, t, n),
           UNCHANGED <<lockVars, published>>
    PROVE  CInv' /\ KeepsSettled
<1>1. /\ \/ table' = t /\ pass'[p] = Sync!Idle
         \/ \E k \in Keys : /\ IsNext(t, k)
                            /\ table' = Claim(t, k)
                            /\ \/ pass'[p] = Sync!Idle
                               \/ pass'[p] = Sync!Posting(k, n) /\ n < FlushCeiling
      /\ pass' = [pass EXCEPT ![p] = pass'[p]]
  <2>1. \A k : Sync!IsNext(t, k) <=> IsNext(t, k)
        BY SyncStatements
  <2>2. \A k : Sync!Claim(t, k) = Claim(t, k)
        BY SyncStatements
  <2>3. pass \in [Passes -> Sync!PassStates]
        BY DEF CInv, ConsoleTypes
  <2> QED
        BY <2>1, <2>2, <2>3 DEF Sync!ClaimAndPost, Sync!EndOfPass
<1>2. TakesOver(p)
  <2>1. Sync!Idle \in Sync!PassStates /\ Sync!Idle.pc = "idle"
        BY ConsoleAssumption DEF Sync!Idle, Sync!PassStates
  <2>2. CASE table' = t /\ pass'[p] = Sync!Idle
        BY <2>1, <2>2 DEF TakesOver, Sync!Holding
  <2>3. ASSUME NEW k \in Keys, IsNext(t, k), table' = Claim(t, k),
               \/ pass'[p] = Sync!Idle
               \/ pass'[p] = Sync!Posting(k, n) /\ n < FlushCeiling
        PROVE  TakesOver(p)
    <3>1. Settles(p, table') /\ table'[k].status = "PROCESSING" /\ Free(p, k)
          BY <2>3, ClaimSettles
    <3>2. CASE pass'[p] = Sync!Idle
          BY <2>1, <3>1, <3>2 DEF TakesOver, Sync!Holding
    <3>3. CASE pass'[p] = Sync!Posting(k, n) /\ n < FlushCeiling
      <4>1. n \in 0..FlushCeiling
            BY <3>3, ConsoleAssumption
      <4>2. Sync!Posting(k, n) \in Sync!PassStates
            BY <4>1, PassStateTypes
      <4> QED
            BY <3>1, <3>3, <4>2 DEF TakesOver, Sync!Posting, Sync!Holding
    <3> QED
          BY <2>3, <3>2, <3>3
  <2> QED
        BY <1>1, <2>2, <2>3
<1> QED
      BY <1>1, <1>2, PassKeeps

(* A step that leaves the table and everybody's hands as they are.         *)
LEMMA NothingMoves ==
    ASSUME CInv, UNCHANGED <<table, up, pass, session>>,
           published \subseteq published', written \subseteq written'
    PROVE  CInv' /\ KeepsSettled
<1>1. Holders' = Holders /\ \A h : HeldBy(h)' = HeldBy(h)
      BY DEF Holders, HeldBy, Sync!Holding, Locks!Awaiting
<1>2. ConsoleTypes' /\ OneHolder' /\ SharedRetryBudget' /\ HandsHoldRows' /\ DownHoldsNothing'
      BY <1>1 DEF CInv, ConsoleTypes, OneHolder, SharedRetryBudget, HandsHoldRows,
                  DownHoldsNothing
<1>3. CompletedWasDone'
      BY DEF CInv, CompletedWasDone
<1>4. AcceptedWasPublished' /\ OkMeansWritten' /\ AwaitsRequest'
      BY DEF CInv, AcceptedWasPublished, OkMeansWritten, AwaitsRequest, Locks!Awaiting
<1> QED
      BY <1>2, <1>3, <1>4 DEF CInv, KeepsSettled

(* The actions of the engine, one by one.                                  *)
LEMMA TimerFlushKeeps ==
    ASSUME CInv, NEW p \in Passes, Sync!TimerFlush(p), UNCHANGED lockVars
    PROVE  CInv' /\ KeepsSettled
<1>1. TakesOver(p)
  <2>1. Sync!Probing \in Sync!PassStates /\ Sync!Probing.pc = "probing"
        BY ConsoleAssumption DEF Sync!Probing, Sync!PassStates
  <2>2. pass'[p] = Sync!Probing /\ table' = table
        BY DEF Sync!TimerFlush, CInv, ConsoleTypes
  <2> QED
        BY <2>1, <2>2, UntouchedSettles DEF TakesOver, Sync!Holding
<1>2. pass' = [pass EXCEPT ![p] = pass'[p]]
      BY DEF Sync!TimerFlush, CInv, ConsoleTypes
<1> QED
      BY <1>1, <1>2, PassKeeps DEF Sync!TimerFlush, Sync!brokerVars

LEMMA EnqueueKeeps ==
    ASSUME CInv, NEW p \in Passes, NEW k \in Keys, NEW payload \in Payloads,
           Sync!Enqueue(p, k, payload), UNCHANGED lockVars
    PROVE  CInv' /\ KeepsSettled
<1>1. TakesOver(p)
  <2>1. Sync!Probing \in Sync!PassStates /\ Sync!Probing.pc = "probing"
        BY ConsoleAssumption DEF Sync!Probing, Sync!PassStates
  <2>2. pass'[p] = Sync!Probing /\ table' = Insert(table, k, payload)
        BY SyncStatements DEF Sync!Enqueue, CInv, ConsoleTypes
  <2> QED
        BY <2>1, <2>2, InsertSettles DEF TakesOver, Sync!Holding
<1>2. pass' = [pass EXCEPT ![p] = pass'[p]]
      BY DEF Sync!Enqueue, CInv, ConsoleTypes
<1> QED
      BY <1>1, <1>2, PassKeeps DEF Sync!Enqueue, Sync!brokerVars

(* The broker publishes more and more, and a 202 says that it did.         *)
LEMMA PacketPublishes ==
    ASSUME NEW k, NEW content, Sync!Broker!HandlePacket(k, content)
    PROVE  /\ published \subseteq published'
           /\ Sync!Broker!StatusOf(k, content) \in Sync!Broker!Answers
           /\ Sync!Broker!StatusOf(k, content) \in Sync!HttpOk => k \in published'
<1>1. Sync!Broker!StatusOf(k, content) \in Sync!Broker!Answers
      BY DEF Sync!Broker!StatusOf, Sync!Broker!Answers, Sync!Broker!Accepted,
             Sync!Broker!Deduplicated, Sync!Broker!Invalid, Sync!Broker!RateLimited
<1>2. Sync!Broker!StatusOf(k, content) \in Sync!HttpOk
         => Sync!Broker!StatusOf(k, content) = Sync!Broker!Accepted
      BY <1>1 DEF Sync!HttpOk, Sync!Broker!Answers, Sync!Broker!Accepted,
                  Sync!Broker!Deduplicated, Sync!Broker!Invalid, Sync!Broker!RateLimited
<1> QED
      BY <1>1, <1>2 DEF Sync!Broker!HandlePacket, Sync!Broker!PublishIfAccepted,
                        Sync!Broker!Publish

(* Nobody else holds what a holder holds.                                  *)
LEMMA HeldIsFree ==
    ASSUME CInv, NEW a \in Holders
    PROVE  /\ HeldBy(a) \in Keys
           /\ table[HeldBy(a)].status = "PROCESSING"
           /\ Free(a, HeldBy(a))
BY DEF CInv, OneHolder, HandsHoldRows, Free

LEMMA BrokerAnswersKeeps ==
    ASSUME CInv, NEW p \in Passes, Sync!BrokerAnswers(p), UNCHANGED lockVars
    PROVE  CInv' /\ KeepsSettled
<1> DEFINE k == pass[p].key
           answer == Sync!Broker!StatusOf(k, Sync!Content(k))
<1>1. /\ p \in Holders /\ HeldBy(p) = k
      /\ pass[p] \in Sync!PassStates /\ DOMAIN pass = Passes
      /\ pass \in [Passes -> Sync!PassStates]
      BY DEF Sync!BrokerAnswers, Holders, HeldBy, Sync!Holding, CInv, ConsoleTypes
<1>2. k \in Keys /\ table[k].status = "PROCESSING" /\ Free(p, k)
      BY <1>1, HeldIsFree
<1>3. /\ published \subseteq published'
      /\ answer \in Sync!Broker!Answers
      /\ answer \in Sync!HttpOk => k \in published'
      BY PacketPublishes DEF Sync!BrokerAnswers
<1>4. pass' = [pass EXCEPT ![p] = [pass[p] EXCEPT !.pc = "answered", !.answer = answer]]
      BY <1>1 DEF Sync!BrokerAnswers
<1> HIDE DEF answer
<1>5. /\ pass'[p] = [pass[p] EXCEPT !.pc = "answered", !.answer = answer]
      /\ pass' = [pass EXCEPT ![p] = pass'[p]]
      BY <1>1, <1>4
<1>6. /\ pass'[p] \in Sync!PassStates
      /\ pass'[p].key = k /\ pass'[p].answer = answer
      BY <1>1, <1>3, <1>5 DEF Sync!PassStates
<1>7. table' = table
      BY DEF Sync!BrokerAnswers
<1>8. TakesOver(p)
      BY <1>2, <1>3, <1>6, <1>7, UntouchedSettles DEF TakesOver
<1> QED
      BY <1>3, <1>5, <1>8, PassKeeps DEF Sync!BrokerAnswers

LEMMA ProbeReturnsKeeps ==
    ASSUME CInv, NEW p \in Passes, Sync!ProbeReturns(p), UNCHANGED lockVars
    PROVE  CInv' /\ KeepsSettled
BY UntouchedSettles, PassMoves DEF Sync!ProbeReturns, Sync!brokerVars

(* A pass settles the row it holds: completed only after a 202.            *)
LEMMA PassSettles ==
    ASSUME CInv, NEW p \in Passes, Sync!Holding(p), NEW ok \in BOOLEAN,
           ok => pass[p].key \in published
    PROVE  Settles(p, Sync!Settled(p, ok)) /\ pass[p].delivered + 1 \in Nat
<1>1. p \in Holders /\ HeldBy(p) = pass[p].key
      BY DEF Holders, HeldBy
<1>2. Settles(p, MarkFailed(table, pass[p].key))
      BY <1>1, HeldIsFree, UntouchedSettles, FailSettles
<1>3. ok => Settles(p, MarkComplete(table, pass[p].key))
      BY <1>1, HeldIsFree, UntouchedSettles, CompleteSettles
<1>4. pass[p].delivered \in 0..FlushCeiling
      BY DEF CInv, ConsoleTypes, Sync!PassStates
<1>5. pass[p].delivered + 1 \in Nat
      BY <1>4, ConsoleAssumption
<1> QED
      BY <1>2, <1>3, <1>5, SyncStatements DEF Sync!Settled

LEMMA ResumeKeeps ==
    ASSUME CInv, up', NEW p \in Passes, Sync!Holding(p), NEW ok \in BOOLEAN,
           ok => pass[p].key \in published,
           Sync!Resume(p, ok), UNCHANGED <<lockVars, published>>
    PROVE  CInv' /\ KeepsSettled
<1> DEFINE t == Sync!Settled(p, ok)
           n == pass[p].delivered + 1
<1>1. Settles(p, t) /\ n \in Nat
      BY PassSettles
<1>2. Sync!ClaimAndPost(p, t, n) \/ Sync!EndOfPass(p, t, n)
      BY DEF Sync!Resume
<1> HIDE DEF t, n
<1> QED
      BY <1>1, <1>2, PassMoves

LEMMA AnswerReturnsKeeps ==
    ASSUME CInv, NEW p \in Passes, Sync!AnswerReturns(p), UNCHANGED lockVars
    PROVE  CInv' /\ KeepsSettled
<1> DEFINE ok == pass[p].answer \in Sync!HttpOk
<1>1. ok \in BOOLEAN /\ (ok => pass[p].key \in published) /\ Sync!Holding(p)
      BY DEF CInv, AcceptedWasPublished, Sync!AnswerReturns, Sync!Holding
<1>2. up' /\ Sync!Resume(p, ok) /\ UNCHANGED <<lockVars, published>>
      BY DEF Sync!AnswerReturns, Sync!brokerVars
<1> HIDE DEF ok
<1> QED
      BY <1>1, <1>2, ResumeKeeps

LEMMA PostTimesOutKeeps ==
    ASSUME CInv, NEW p \in Passes, Sync!PostTimesOut(p), UNCHANGED lockVars
    PROVE  CInv' /\ KeepsSettled
BY ResumeKeeps DEF Sync!PostTimesOut, Sync!brokerVars

LEMMA SyncTurnKeeps ==
    ASSUME CInv, SyncTurn
    PROVE  CInv' /\ KeepsSettled
<1>1. Sync!Turn /\ UNCHANGED lockVars
      BY DEF SyncTurn
<1>2. ASSUME NEW p \in Passes, Sync!TimerFlush(p) \/ Sync!PassStep(p)
      PROVE  CInv' /\ KeepsSettled
      BY <1>1, <1>2, TimerFlushKeeps, ProbeReturnsKeeps, BrokerAnswersKeeps,
         AnswerReturnsKeeps, PostTimesOutKeeps DEF Sync!PassStep
<1>3. ASSUME NEW p \in Passes, NEW k \in Keys, NEW payload \in Payloads,
             Sync!Enqueue(p, k, payload)
      PROVE  CInv' /\ KeepsSettled
      BY <1>1, <1>3, EnqueueKeeps
<1>4. ASSUME NEW k \in Keys, Sync!LatePacket(k)
      PROVE  CInv' /\ KeepsSettled
  <2>1. published \subseteq published'
        BY <1>4, PacketPublishes DEF Sync!LatePacket, Sync!brokerVars
  <2> QED
        BY <1>1, <1>4, <2>1, NothingMoves DEF Sync!LatePacket, lockVars
<1>5. ASSUME Sync!ReadStatus
      PROVE  CInv' /\ KeepsSettled
      BY <1>1, <1>5, NothingMoves DEF Sync!ReadStatus, Sync!brokerVars, lockVars
<1> QED
      BY <1>1, <1>2, <1>3, <1>4, <1>5 DEF Sync!Turn

LEMMA TimeKeeps ==
    ASSUME CInv, Time
    PROVE  CInv' /\ KeepsSettled
<1>1. published' = published
      BY DEF Time, Sync!BrokerTime, Sync!Broker!Refill, Sync!Broker!Forget
<1> QED
      BY <1>1, NothingMoves DEF Time, Sync!BrokerTime, lockVars

LEMMA BootKeeps ==
    ASSUME CInv, Boot
    PROVE  CInv' /\ KeepsSettled
<1>1. PICK p \in Passes : Sync!Boot(p)
      BY DEF Boot
<1>2. PICK stale : table' = RequeueStaleProcessing(table, stale)
      BY <1>1, SyncStatements DEF Sync!Boot
<1>3. Holders = {}
      BY <1>1 DEF Sync!Boot, CInv, DownHoldsNothing
<1>4. pass'[p] = Sync!Probing /\ pass' = [pass EXCEPT ![p] = pass'[p]]
      BY <1>1 DEF Sync!Boot, CInv, ConsoleTypes
<1>5. Sync!Probing \in Sync!PassStates /\ Sync!Probing.pc = "probing"
      BY ConsoleAssumption DEF Sync!Probing, Sync!PassStates
<1>6. TakesOver(p)
      BY <1>2, <1>3, <1>4, <1>5, RequeueSettles DEF TakesOver, Sync!Holding
<1> QED
      BY <1>1, <1>4, <1>6, PassKeeps DEF Boot, Sync!Boot, Sync!brokerVars

-----------------------------------------------------------------------------
(* The bridge.  What a session has in hand after a step is in nobody       *)
(* else's, and a card that is reported is written.                         *)
TakesCard(s) ==
    /\ Settles(s, table')
    /\ session'[s] \in Locks!SessionStates
    /\ Locks!Awaiting(s)' => /\ session'[s].req \in Requests
                             /\ session'[s].req.device \in Registered
    /\ s \in Drains /\ Locks!Awaiting(s)' =>
          /\ session'[s].key \in Keys
          /\ table'[session'[s].key].status = "PROCESSING"
          /\ table'[session'[s].key].payload = session'[s].req
          /\ Free(s, session'[s].key)
    /\ s \in Drains /\ session'[s].pc = "written" => session'[s].req \in written'

LEMMA SessionKeeps ==
    ASSUME CInv, up, NEW s \in Locks!Sessions, TakesCard(s),
           session' = [session EXCEPT ![s] = session'[s]],
           UNCHANGED <<up, syncVars>>, written \subseteq written'
    PROVE  CInv' /\ KeepsSettled
<1>1. /\ session \in [Locks!Sessions -> Locks!SessionStates]
      /\ session' \in [Locks!Sessions -> Locks!SessionStates]
      /\ \A x \in Locks!Sessions \ {s} : session'[x] = session[x]
  <2>1. /\ session \in [Locks!Sessions -> Locks!SessionStates]
        /\ session'[s] \in Locks!SessionStates
        BY DEF CInv, ConsoleTypes, TakesCard
  <2> QED
        BY <2>1
<1>2. pass' = pass /\ published' = published /\ up'
      BY DEF syncVars
<1>3. /\ \A h \in Holders' \ {s} : h \in Holders /\ HeldBy(h)' = HeldBy(h)
      /\ s \in Holders' <=> s \in Drains /\ Locks!Awaiting(s)'
      /\ s \in Drains => HeldBy(s)' = session'[s].key
      BY <1>1, <1>2, LockStepHands
<1>4. /\ table' \in Tables
      /\ OneHolder' /\ SharedRetryBudget' /\ CompletedWasDone' /\ HandsHoldRows'
      /\ KeepsSettled
      BY <1>2, <1>3, TableMoves DEF TakesCard
<1>5. ConsoleTypes'
      BY <1>1, <1>2, <1>4 DEF ConsoleTypes, CInv
<1>6. DownHoldsNothing' /\ AcceptedWasPublished'
      BY <1>2 DEF DownHoldsNothing, AcceptedWasPublished, CInv
<1>7. AwaitsRequest'
      BY <1>1 DEF AwaitsRequest, Locks!Awaiting, TakesCard, CInv
<1>8. ASSUME NEW r \in Drains
      PROVE  /\ session'[r].pc = "written" => session'[r].req \in written'
             /\ Locks!Awaiting(r)' => table'[session'[r].key].payload = session'[r].req
  <2>1. CASE r = s
        BY <2>1 DEF TakesCard
  <2>2. CASE r # s
    <3>1. session'[r] = session[r] /\ (Locks!Awaiting(r)' <=> Locks!Awaiting(r))
          BY <1>1, <2>2 DEF Locks!Sessions, Locks!Awaiting
    <3>2. ASSUME Locks!Awaiting(r)
          PROVE  table'[session[r].key].payload = session[r].req
      <4>1. r \in Holders \ {s} /\ HeldBy(r) = session[r].key
            BY <2>2, <3>2, ConsoleAssumption DEF Holders, HeldBy
      <4> QED
            BY <3>2, <4>1 DEF TakesCard, Settles, CInv, OkMeansWritten
    <3> QED
          BY <3>1, <3>2 DEF CInv, OkMeansWritten
  <2> QED
        BY <2>1, <2>2
<1> QED
      BY <1>4, <1>5, <1>6, <1>7, <1>8 DEF CInv, OkMeansWritten

(* The table moves at nobody's hands.                                      *)
LEMMA TableAloneMoves ==
    ASSUME CInv, UNCHANGED <<up, pass, session, published, written>>,
           Settles(NoSession, table')
    PROVE  CInv' /\ KeepsSettled
<1>1. NoSession \notin Holders
      BY ConsoleAssumption DEF Holders
<1>2. Holders' = Holders /\ \A h : HeldBy(h)' = HeldBy(h)
      BY DEF Holders, HeldBy, Sync!Holding, Locks!Awaiting
<1>3. /\ table' \in Tables
      /\ OneHolder' /\ SharedRetryBudget' /\ CompletedWasDone' /\ HandsHoldRows'
      /\ KeepsSettled
      BY <1>1, <1>2, TableMoves
<1>4. ConsoleTypes' /\ DownHoldsNothing' /\ AcceptedWasPublished' /\ AwaitsRequest'
      BY <1>2, <1>3 DEF CInv, ConsoleTypes, DownHoldsNothing, AcceptedWasPublished,
                        AwaitsRequest, Locks!Awaiting
<1>5. ASSUME NEW r \in Drains, Locks!Awaiting(r)
      PROVE  table'[session[r].key].payload = session[r].req
  <2>1. r \in Holders \ {NoSession} /\ HeldBy(r) = session[r].key
        BY <1>5, ConsoleAssumption DEF Holders, HeldBy
  <2> QED
        BY <1>5, <2>1 DEF Settles, CInv, OkMeansWritten
<1>6. OkMeansWritten'
      BY <1>5 DEF CInv, OkMeansWritten, Locks!Awaiting
<1> QED
      BY <1>3, <1>4, <1>6 DEF CInv

(* persistOffline() inserts a row of the bridge.                           *)
LEMMA PersistSettles ==
    ASSUME CInv, NEW a, NEW req \in Requests, req.device \in Registered,
           Locks!PersistOffline(req)
    PROVE  Settles(a, table')
<1>1. req \in Payloads /\ LockKey[req.device, req.room] \in Keys
      BY ConsoleAssumption, LockKeyAssumption
<1>2. table' = Insert(table, LockKey[req.device, req.room], req)
      BY LockStatements DEF Locks!PersistOffline
<1> QED
      BY <1>1, <1>2, InsertSettles

(* The actions of the bridge, one by one.                                  *)
LEMMA FastFailKeeps ==
    ASSUME CInv, NEW req \in Requests, Locks!FastFail(req), UNCHANGED <<up, syncVars>>
    PROVE  CInv' /\ KeepsSettled
<1>1. Settles(NoSession, table')
      BY PersistSettles DEF Locks!FastFail
<1> QED
      BY <1>1, TableAloneMoves DEF Locks!FastFail, syncVars

LEMMA StartEncodeKeeps ==
    ASSUME CInv, up, NEW c \in Calls, NEW req \in Requests, Locks!StartEncode(c, req),
           UNCHANGED <<up, syncVars>>
    PROVE  CInv' /\ KeepsSettled
<1>1. c \in Locks!Sessions /\ c \notin Drains
      BY ConsoleAssumption DEF Locks!Sessions
<1>2. /\ session'[c] = Locks!Encoding(req, NoKey)
      /\ session' = [session EXCEPT ![c] = session'[c]]
      BY <1>1 DEF Locks!StartEncode, CInv, ConsoleTypes
<1>3. Locks!Encoding(req, NoKey) \in Locks!SessionStates
      BY DEF Locks!Encoding, Locks!SessionStates
<1>4. TakesCard(c)
      BY <1>1, <1>2, <1>3, UntouchedSettles
         DEF TakesCard, Locks!Encoding, Locks!StartEncode
<1> QED
      BY <1>1, <1>2, <1>4, SessionKeeps DEF Locks!StartEncode

(* A session that goes on without a row.                                   *)
LEMMA EmptyHanded ==
    /\ Locks!NotActive \in Locks!SessionStates /\ Locks!NotActive.pc = "idle"
    /\ Locks!Running \in Locks!SessionStates /\ Locks!Running.pc = "running"
BY DEF Locks!NotActive, Locks!Running, Locks!SessionStates

LEMMA LetsGoKeeps ==
    ASSUME CInv, up, NEW s \in Locks!Sessions, Settles(s, table'),
           \/ session' = [session EXCEPT ![s] = Locks!NotActive]
           \/ session' = [session EXCEPT ![s] = Locks!Running],
           UNCHANGED <<up, syncVars, written>>
    PROVE  CInv' /\ KeepsSettled
<1>1. /\ session'[s] \in {Locks!NotActive, Locks!Running}
      /\ session' = [session EXCEPT ![s] = session'[s]]
      BY DEF CInv, ConsoleTypes
<1>2. TakesCard(s)
      BY <1>1, EmptyHanded DEF TakesCard, Locks!Awaiting
<1> QED
      BY <1>1, <1>2, SessionKeeps

LEMMA CallStepKeeps ==
    ASSUME CInv, up, NEW c \in Calls, Locks!CallStep(c), UNCHANGED <<up, syncVars>>
    PROVE  CInv' /\ KeepsSettled
<1>1. c \in Locks!Sessions
      BY DEF Locks!Sessions
<1>2. CASE Locks!EncodeSucceeds(c)
      BY <1>1, <1>2, UntouchedSettles, LetsGoKeeps DEF Locks!EncodeSucceeds
<1>3. CASE Locks!EncodeFails(c)
  <2>1. session[c].req \in Requests /\ session[c].req.device \in Registered
        BY <1>1, <1>3 DEF Locks!EncodeFails, CInv, AwaitsRequest
  <2>2. Settles(c, table')
        BY <1>3, <2>1, PersistSettles DEF Locks!EncodeFails
  <2> QED
        BY <1>1, <1>3, <2>2, LetsGoKeeps DEF Locks!EncodeFails
<1> QED
      BY <1>2, <1>3 DEF Locks!CallStep

LEMMA EncoderWritesKeeps ==
    ASSUME CInv, up, NEW s \in Locks!Sessions, Locks!EncoderWrites(s),
           UNCHANGED <<up, syncVars>>
    PROVE  CInv' /\ KeepsSettled
<1>1. /\ session[s] \in Locks!SessionStates /\ DOMAIN session = Locks!Sessions
      /\ session \in [Locks!Sessions -> Locks!SessionStates]
      /\ Locks!Awaiting(s)
      BY DEF Locks!EncoderWrites, CInv, ConsoleTypes, Locks!Awaiting
<1>2. /\ session'[s] = [session[s] EXCEPT !.pc = "written"]
      /\ session' = [session EXCEPT ![s] = session'[s]]
      BY <1>1 DEF Locks!EncoderWrites
<1>3. /\ session'[s] \in Locks!SessionStates
      /\ session'[s].req = session[s].req /\ session'[s].key = session[s].key
      BY <1>1, <1>2 DEF Locks!SessionStates
<1>4. s \in Drains => /\ session[s].key \in Keys
                      /\ table[session[s].key].status = "PROCESSING"
                      /\ table[session[s].key].payload = session[s].req
                      /\ Free(s, session[s].key)
  <2>1. s \in Drains => s \in Holders /\ HeldBy(s) = session[s].key
        BY <1>1, ConsoleAssumption DEF Holders, HeldBy
  <2> QED
        BY <1>1, <2>1, HeldIsFree DEF CInv, OkMeansWritten
<1>5. session[s].req \in Requests /\ session[s].req.device \in Registered
      BY <1>1 DEF CInv, AwaitsRequest
<1>6. table' = table /\ written' = written \cup {session[s].req}
      BY DEF Locks!EncoderWrites
<1>7. TakesCard(s)
      BY <1>3, <1>4, <1>5, <1>6, UntouchedSettles DEF TakesCard
<1> QED
      BY <1>2, <1>6, <1>7, SessionKeeps

LEMMA DrainRejectsKeeps ==
    ASSUME CInv, NEW r \in Drains, Locks!DrainRejects(r), UNCHANGED <<up, syncVars>>
    PROVE  CInv' /\ KeepsSettled
<1>1. PICK k \in Keys : IsNext(table, k) /\ table' = MarkFailed(Claim(table, k), k)
      BY LockStatements DEF Locks!DrainRejects
<1>2. /\ Settles(NoSession, Claim(table, k))
      /\ Claim(table, k)[k].status = "PROCESSING"
      /\ Free(NoSession, k)
      BY <1>1, UntouchedSettles, ClaimSettles
<1>3. Settles(NoSession, table')
      BY <1>1, <1>2, FailSettles
<1> QED
      BY <1>3, TableAloneMoves DEF Locks!DrainRejects, Locks!lockVars, syncVars

LEMMA DrainEncodesKeeps ==
    ASSUME CInv, up, NEW r \in Drains, Locks!DrainEncodes(r), UNCHANGED <<up, syncVars>>
    PROVE  CInv' /\ KeepsSettled
<1>1. PICK k \in Keys : /\ IsNext(table, k) /\ Locks!Encodable(k)
                        /\ table' = Claim(table, k)
                        /\ session' = [session EXCEPT ![r] =
                                          Locks!Encoding(table[k].payload, k)]
      BY LockStatements DEF Locks!DrainEncodes
<1>2. r \in Locks!Sessions
      BY DEF Locks!Sessions
<1> DEFINE req == table[k].payload
<1>3. /\ session'[r] = Locks!Encoding(req, k)
      /\ session' = [session EXCEPT ![r] = session'[r]]
      BY <1>1, <1>2 DEF CInv, ConsoleTypes
<1>4. req \in Requests /\ req.device \in Registered
      BY <1>1 DEF Locks!Encodable, Locks!IsLockRow
<1>5. Settles(r, table') /\ table'[k].status = "PROCESSING" /\ Free(r, k)
      BY <1>1, UntouchedSettles, ClaimSettles
<1>6. table'[k].payload = req
      BY <1>1 DEF CInv, ConsoleTypes, Claim, Tables, Rows
<1> HIDE DEF req
<1>7. Locks!Encoding(req, k) \in Locks!SessionStates
      BY <1>4 DEF Locks!Encoding, Locks!SessionStates
<1>8. TakesCard(r)
      BY <1>3, <1>4, <1>5, <1>6, <1>7 DEF TakesCard, Locks!Encoding
<1> QED
      BY <1>2, <1>3, <1>8, SessionKeeps DEF Locks!DrainEncodes

LEMMA DrainStepKeeps ==
    ASSUME CInv, up, NEW r \in Drains, Locks!StartDrain(r) \/ Locks!DrainStep(r),
           UNCHANGED <<up, syncVars>>
    PROVE  CInv' /\ KeepsSettled
<1>1. r \in Locks!Sessions
      BY DEF Locks!Sessions
<1>2. CASE Locks!StartDrain(r) \/ Locks!DrainEnds(r)
      BY <1>1, <1>2, UntouchedSettles, LetsGoKeeps
         DEF Locks!StartDrain, Locks!DrainEnds
<1>3. ASSUME Locks!Awaiting(r)
      PROVE  /\ session[r].key \in Keys
             /\ table[session[r].key].status = "PROCESSING"
             /\ Free(r, session[r].key)
  <2>1. r \in Holders /\ HeldBy(r) = session[r].key
        BY <1>3, ConsoleAssumption DEF Holders, HeldBy
  <2> QED
        BY <2>1, HeldIsFree
<1>4. CASE Locks!DrainSucceeds(r)
  <2>1. Locks!Awaiting(r) /\ table[session[r].key].payload \in written
        BY <1>4 DEF Locks!DrainSucceeds, Locks!Awaiting, CInv, OkMeansWritten
  <2>2. Settles(r, table')
        BY <1>3, <1>4, <2>1, UntouchedSettles, CompleteSettles, LockStatements
           DEF Locks!DrainSucceeds
  <2> QED
        BY <1>1, <1>4, <2>2, LetsGoKeeps DEF Locks!DrainSucceeds
<1>5. CASE Locks!DrainFails(r)
  <2>1. Settles(r, table')
        BY <1>3, <1>5, UntouchedSettles, FailSettles, LockStatements
           DEF Locks!DrainFails
  <2> QED
        BY <1>1, <1>5, <2>1, LetsGoKeeps DEF Locks!DrainFails
<1> QED
      BY <1>2, <1>4, <1>5, DrainRejectsKeeps, DrainEncodesKeeps DEF Locks!DrainStep

LEMMA LockTurnKeeps ==
    ASSUME CInv, LockTurn
    PROVE  CInv' /\ KeepsSettled
<1>1. up /\ UNCHANGED <<up, syncVars>> /\ Locks!LockNext
      BY DEF LockTurn
<1>2. ASSUME NEW d \in Devices, Locks!Cooldown(d)
      PROVE  CInv' /\ KeepsSettled
      BY <1>1, <1>2, NothingMoves DEF Locks!Cooldown, syncVars
<1> QED
      BY <1>1, <1>2, FastFailKeeps, StartEncodeKeeps, CallStepKeeps, EncoderWritesKeeps,
         DrainStepKeeps DEF Locks!LockNext

-----------------------------------------------------------------------------
(* What a dying process leaves on disk is what some handler was making of  *)
(* the table.                                                              *)
LEMMA CrashSettles ==
    ASSUME CInv, Crash
    PROVE  \E a : Settles(a, table')
<1>1. CASE table' = table
      BY <1>1, UntouchedSettles
<1>2. ASSUME NEW p \in Passes, Sync!Holding(p), NEW ok \in BOOLEAN,
             ok => pass[p].pc = "answered" /\ pass[p].answer \in Sync!HttpOk,
             table' = Sync!Settled(p, ok)
      PROVE  \E a : Settles(a, table')
      BY <1>2, PassSettles DEF CInv, AcceptedWasPublished
<1>3. ASSUME NEW k \in Keys, IsNext(table, k), table' = Claim(table, k)
      PROVE  \E a : Settles(a, table')
      BY <1>3, UntouchedSettles, ClaimSettles
<1>4. CASE table' \in Sync!CrashTables
  <2>1. CASE \E p \in Passes : Sync!Holding(p) /\ table' = Sync!Settled(p, FALSE)
        BY <1>2, <2>1
  <2>2. CASE \E p \in Passes : /\ pass[p].pc = "answered"
                               /\ pass[p].answer \in Sync!HttpOk
                               /\ table' = Sync!Settled(p, TRUE)
        BY <1>2, <2>2 DEF Sync!Holding
  <2> QED
        BY <1>1, <1>4, <2>1, <2>2 DEF Sync!CrashTables
<1>5. CASE table' \in Locks!CrashTables
      BY <1>1, <1>3, <1>5, LockStatements DEF Locks!CrashTables
<1> QED
      BY <1>4, <1>5 DEF Crash

LEMMA CrashKeeps ==
    ASSUME CInv, Crash
    PROVE  CInv' /\ KeepsSettled
<1>1. PICK a : Settles(a, table')
      BY CrashSettles
<1>2. /\ up' = FALSE /\ published' = published /\ written' = written
      /\ pass' = [p \in Passes |-> Sync!Idle]
      /\ session' = [s \in Locks!Sessions |-> Locks!NotActive]
      BY DEF Crash, Sync!ProcessLost, Locks!ProcessLost, Sync!Broker!BrokerLost
<1>3. /\ Sync!Idle \in Sync!PassStates /\ Sync!Idle.pc = "idle"
      BY ConsoleAssumption DEF Sync!Idle, Sync!PassStates
<1>4. Holders' = {}
      BY <1>2, <1>3, EmptyHanded
         DEF Holders, Sync!Holding, Locks!Awaiting, Locks!Sessions
<1>5. /\ table' \in Tables
      /\ OneHolder' /\ SharedRetryBudget' /\ CompletedWasDone' /\ HandsHoldRows'
      /\ KeepsSettled
      BY <1>1, <1>2, <1>4, TableMoves
<1>6. ConsoleTypes' /\ DownHoldsNothing'
      BY <1>2, <1>3, <1>4, <1>5, EmptyHanded DEF ConsoleTypes, DownHoldsNothing
<1>7. AcceptedWasPublished' /\ OkMeansWritten' /\ AwaitsRequest'
      BY <1>2, <1>3, EmptyHanded
         DEF AcceptedWasPublished, OkMeansWritten, AwaitsRequest, Locks!Awaiting,
             Locks!Sessions
<1> QED
      BY <1>5, <1>6, <1>7 DEF CInv

-----------------------------------------------------------------------------
LEMMA CInvInit == Init => CInv
<1> SUFFICES ASSUME Init PROVE CInv
    OBVIOUS
<1>1. /\ table = EmptyTable
      /\ pass = [p \in Passes |-> Sync!Idle]
      /\ session = [s \in Locks!Sessions |-> Locks!NotActive]
      BY SyncStatements DEF Init, Sync!Init, Locks!LockInit
<1>2. Sync!Idle \in Sync!PassStates /\ Sync!Idle.pc = "idle"
      BY ConsoleAssumption DEF Sync!Idle, Sync!PassStates
<1>3. Holders = {}
      BY <1>1, <1>2, EmptyHanded
         DEF Holders, Sync!Holding, Locks!Awaiting, Locks!Sessions
<1>4. OneHolder /\ HandsHoldRows /\ DownHoldsNothing
      BY <1>3 DEF OneHolder, HandsHoldRows, DownHoldsNothing
<1>5. table \in Tables /\ SharedRetryBudget
      BY <1>1, EmptyTableFacts DEF SharedRetryBudget
<1>6. CompletedWasDone
      BY <1>1 DEF CompletedWasDone, WithStatus, EmptyTable
<1>7. ConsoleTypes
      BY <1>1, <1>2, <1>5, EmptyHanded DEF ConsoleTypes
<1>8. AcceptedWasPublished /\ OkMeansWritten /\ AwaitsRequest
      BY <1>1, <1>2, EmptyHanded
         DEF AcceptedWasPublished, OkMeansWritten, AwaitsRequest, Locks!Awaiting,
             Locks!Sessions
<1> QED
      BY <1>4, <1>5, <1>6, <1>7, <1>8 DEF CInv

LEMMA CInvStep == CInv /\ [Next]_vars => CInv' /\ KeepsSettled
<1> SUFFICES ASSUME CInv, [Next]_vars PROVE CInv' /\ KeepsSettled
    OBVIOUS
<1>1. CASE UNCHANGED vars
      BY <1>1, NothingMoves DEF vars, syncVars, lockVars
<1> QED
      BY <1>1, SyncTurnKeeps, LockTurnKeeps, TimeKeeps, BootKeeps, CrashKeeps DEF Next

LEMMA CInvAlways == Spec => []CInv
BY CInvInit, CInvStep, PTL DEF Spec

(* The two consumers never have one row in hand at once (store.ts:219-224, *)
(* index.ts:210-220).                                                      *)
THEOREM OneHolderAlways == Spec => []OneHolder
<1>1. CInv => OneHolder
      BY DEF CInv
<1> QED
      BY <1>1, CInvAlways, PTL

(* The two consumers together try a row no more often than its budget      *)
(* allows (store.ts:42, 263-269).                                          *)
THEOREM OneBudgetForBoth == Spec => []SharedRetryBudget
<1>1. CInv => SharedRetryBudget
      BY DEF CInv
<1> QED
      BY <1>1, CInvAlways, PTL

(* A completed row was published or is on a card, whichever of the two     *)
(* completed it and wherever the process died (sync.ts:103,                *)
(* lockBridge.ts:424).                                                     *)
THEOREM CompletionIsDeserved == Spec => []CompletedWasDone
<1>1. CInv => CompletedWasDone
      BY DEF CInv
<1> QED
      BY <1>1, CInvAlways, PTL

(* No handler, crash or boot touches a settled row (store.ts:191-280).     *)
THEOREM SettledStaysSettled == Spec => SettledIsFinal
<1>1. CInv /\ [Next]_vars =>
         [\A k \in Keys : Terminal(table, k) => table'[k] = table[k]]_vars
      BY CInvStep DEF KeepsSettled
<1> QED
      BY <1>1, CInvAlways, PTL DEF Spec, SettledIsFinal

-----------------------------------------------------------------------------
(* The shared queue.  What it can see of a table.                          *)
SameQueue(t, u) ==
    /\ Sync!StateIn(u) = Sync!StateIn(t)
    /\ Sync!AttemptsIn(u) = Sync!AttemptsIn(t)
    /\ \A k \in Keys : u[k].payload = t[k].payload

(* Packets on the wire are of rows.                                        *)
QInv == CInv /\ late \subseteq Present(table)

LEMMA NothingToQueue ==
    ASSUME SameQueue(table, table'), UNCHANGED <<published, written>>
    PROVE  UNCHANGED Queue!queueVars
BY DEF SameQueue, Queue!queueVars

LEMMA ClaimIsInvisible ==
    ASSUME NEW t \in Tables, NEW k \in Keys, IsNext(t, k)
    PROVE  SameQueue(t, Claim(t, k))
BY NextWaits DEF SameQueue, Sync!StateIn, Sync!AttemptsIn, Claim, Tables, Rows

LEMMA RequeueIsInvisible ==
    ASSUME NEW t \in Tables, NEW stale
    PROVE  SameQueue(t, RequeueStaleProcessing(t, stale))
BY DEF SameQueue, Sync!StateIn, Sync!AttemptsIn, RequeueStaleProcessing, Tables, Rows

(* A pass goes on to its next row.                                         *)
LEMMA GoingOnIsInvisible ==
    ASSUME NEW t \in Tables, NEW p, NEW n, Sync!ClaimAndPost(p, t, n) \/ Sync!EndOfPass(p, t, n)
    PROVE  SameQueue(t, table')
<1>1. CASE table' = t
      BY <1>1 DEF SameQueue
<1>2. CASE \E k \in Keys : IsNext(t, k) /\ table' = Claim(t, k)
      BY <1>2, ClaimIsInvisible
<1>3. table' = t \/ \E k \in Keys : Sync!IsNext(t, k) /\ table' = Sync!Claim(t, k)
      BY DEF Sync!ClaimAndPost, Sync!EndOfPass
<1> QED
      BY <1>1, <1>2, <1>3, SyncStatements

(* A failed attempt, of the pass or the drain that has the row.            *)
LEMMA FailIsAQueueStep ==
    ASSUME NEW t \in Tables, SameQueue(table, t), NEW k \in Keys,
           t[k].status = "PROCESSING", t[k].retryCount < MaxRetryCount,
           SameQueue(MarkFailed(t, k), table'), UNCHANGED <<published, written>>
    PROVE  Queue!QueueNext
<1>1. Sync!StateIn(t)[k] = "open" /\ Sync!AttemptsIn(t)[k] = t[k].retryCount
      BY DEF Sync!StateIn, Sync!AttemptsIn
<1>2. Queue!Live(k)
      BY <1>1 DEF Queue!Live, SameQueue
<1>3. /\ Sync!StateIn(MarkFailed(t, k)) = Sync!StateIn(t)
      /\ Sync!AttemptsIn(MarkFailed(t, k)) = [Sync!AttemptsIn(t) EXCEPT ![k] = @ + 1]
      /\ \A j \in Keys : MarkFailed(t, k)[j].payload = t[j].payload
      BY DEF Sync!StateIn, Sync!AttemptsIn, MarkFailed, Tables, Rows
<1>4. Queue!Fail(k)
      BY <1>2, <1>3 DEF Queue!Fail, SameQueue
<1> QED
      BY <1>4 DEF Queue!QueueNext

LEMMA CompleteIsAQueueStep ==
    ASSUME table \in Tables, NEW k \in Keys,
           table[k].status = "PROCESSING", table[k].retryCount < MaxRetryCount,
           k \in published \/ table[k].payload \in written,
           SameQueue(MarkComplete(table, k), table'), UNCHANGED <<published, written>>
    PROVE  Queue!QueueNext
<1>1. Sync!StateIn(table)[k] = "open" /\ Sync!AttemptsIn(table)[k] = table[k].retryCount
      BY DEF Sync!StateIn, Sync!AttemptsIn
<1>2. Queue!Live(k)
      BY <1>1 DEF Queue!Live
<1>3. /\ Sync!StateIn(MarkComplete(table, k)) = [Sync!StateIn(table) EXCEPT ![k] = "done"]
      /\ Sync!AttemptsIn(MarkComplete(table, k)) = Sync!AttemptsIn(table)
      /\ \A j \in Keys : MarkComplete(table, k)[j].payload = table[j].payload
      BY DEF Sync!StateIn, Sync!AttemptsIn, MarkComplete, Tables, Rows
<1>4. Queue!Finish(k)
      BY <1>2, <1>3 DEF Queue!Finish, SameQueue
<1> QED
      BY <1>4 DEF Queue!QueueNext

(* INSERT OR IGNORE submits an item, or does nothing.                      *)
LEMMA InsertIsAQueueStep ==
    ASSUME table \in Tables, NEW k \in Keys, NEW payload \in Payloads,
           table' = Insert(table, k, payload), UNCHANGED <<published, written>>
    PROVE  Queue!QueueNext \/ UNCHANGED Queue!queueVars
<1>1. CASE k \in Present(table)
      BY <1>1, NothingToQueue DEF Insert, SameQueue
<1>2. CASE k \notin Present(table)
  <2>1. table[k].status = "ABSENT"
        BY <1>2 DEF Present
  <2>2. /\ table'[k].status = "PENDING" /\ table'[k].retryCount = 0
        /\ table'[k].payload = payload
        /\ \A j \in Keys \ {k} : table'[j] = table[j]
        BY <1>2 DEF Insert, Tables
  <2>3. Sync!StateIn(table') = [Sync!StateIn(table) EXCEPT ![k] = "open"]
        BY <2>2 DEF Sync!StateIn
  <2>4. Sync!AttemptsIn(table') = Sync!AttemptsIn(table)
        BY <2>1, <2>2 DEF Sync!AttemptsIn
  <2>5. [j \in Keys |-> table'[j].payload]
           = [[j \in Keys |-> table[j].payload] EXCEPT ![k] = payload]
        BY <2>2
  <2>6. Queue!Submit(k, payload)
        BY <2>1, <2>3, <2>4, <2>5 DEF Queue!Submit, Sync!StateIn
  <2> QED
        BY <2>6 DEF Queue!QueueNext
<1> QED
      BY <1>1, <1>2

(* A packet is a publication or nothing.                                   *)
LEMMA PacketIsAQueueStep ==
    ASSUME NEW k \in Keys, table[k].status # "ABSENT", NEW content,
           Sync!Broker!HandlePacket(k, content), UNCHANGED <<table, written>>
    PROVE  Queue!QueueNext \/ UNCHANGED Queue!queueVars
<1>1. published' = published \/ published' = published \cup {k}
      BY DEF Sync!Broker!HandlePacket, Sync!Broker!PublishIfAccepted, Sync!Broker!Publish
<1>2. CASE published' = published
      BY <1>2, NothingToQueue DEF SameQueue
<1>3. CASE published' = published \cup {k}
  <2>1. Queue!Publish(k)
        BY <1>3 DEF Queue!Publish, Sync!StateIn
  <2> QED
        BY <2>1 DEF Queue!QueueNext
<1> QED
      BY <1>1, <1>2, <1>3

(* Whoever holds a row may still try it.                                   *)
LEMMA HeldIsLive ==
    ASSUME CInv, NEW a \in Holders
    PROVE  /\ table \in Tables
           /\ HeldBy(a) \in Keys
           /\ table[HeldBy(a)].status = "PROCESSING"
           /\ table[HeldBy(a)].retryCount < MaxRetryCount
BY HeldIsFree DEF CInv, ConsoleTypes, SharedRetryBudget, WithinBudget

(* A pass settles its row and goes on, or dies in between.                 *)
LEMMA SettlingIsAQueueStep ==
    ASSUME CInv, NEW p \in Passes, Sync!Holding(p), NEW ok \in BOOLEAN,
           ok => pass[p].key \in published,
           SameQueue(Sync!Settled(p, ok), table'), UNCHANGED <<published, written>>
    PROVE  Queue!QueueNext
<1>1. /\ table \in Tables /\ pass[p].key \in Keys
      /\ table[pass[p].key].status = "PROCESSING"
      /\ table[pass[p].key].retryCount < MaxRetryCount
  <2>1. p \in Holders /\ HeldBy(p) = pass[p].key
        BY DEF Holders, HeldBy
  <2> QED
        BY <2>1, HeldIsLive
<1>2. CASE ok
      BY <1>1, <1>2, SyncStatements, CompleteIsAQueueStep DEF Sync!Settled
<1>3. CASE ~ok
  <2>1. SameQueue(table, table)
        BY DEF SameQueue
  <2> QED
        BY <1>1, <1>3, <2>1, SyncStatements, FailIsAQueueStep DEF Sync!Settled
<1> QED
      BY <1>2, <1>3

LEMMA ResumeIsAQueueStep ==
    ASSUME CInv, NEW p \in Passes, Sync!Holding(p), NEW ok \in BOOLEAN,
           ok => pass[p].key \in published,
           Sync!Resume(p, ok), UNCHANGED <<published, written>>
    PROVE  Queue!QueueNext
<1> DEFINE t == Sync!Settled(p, ok)
           n == pass[p].delivered + 1
<1>1. t \in Tables
      BY PassSettles DEF Settles
<1>2. Sync!ClaimAndPost(p, t, n) \/ Sync!EndOfPass(p, t, n)
      BY DEF Sync!Resume
<1> HIDE DEF n
<1>3. SameQueue(t, table')
      BY <1>1, <1>2, GoingOnIsInvisible
<1> QED
      BY <1>3, SettlingIsAQueueStep

LEMMA SyncTurnIsAQueueStep ==
    ASSUME QInv, SyncTurn
    PROVE  Queue!QueueNext \/ UNCHANGED Queue!queueVars
<1>1. Sync!Turn /\ written' = written /\ CInv /\ table \in Tables
      BY DEF SyncTurn, lockVars, QInv, CInv, ConsoleTypes
<1>2. ASSUME UNCHANGED <<table, published>> PROVE UNCHANGED Queue!queueVars
      BY <1>1, <1>2, NothingToQueue DEF SameQueue
<1>3. ASSUME NEW p \in Passes, Sync!TimerFlush(p)
      PROVE  UNCHANGED Queue!queueVars
      BY <1>2, <1>3 DEF Sync!TimerFlush, Sync!brokerVars
<1>4. ASSUME NEW p \in Passes, Sync!ProbeReturns(p)
      PROVE  UNCHANGED Queue!queueVars
      BY <1>1, <1>4, GoingOnIsInvisible, NothingToQueue DEF Sync!ProbeReturns, Sync!brokerVars
<1>5. ASSUME NEW p \in Passes, Sync!BrokerAnswers(p)
      PROVE  Queue!QueueNext \/ UNCHANGED Queue!queueVars
  <2>1. p \in Holders /\ HeldBy(p) = pass[p].key
        BY <1>5 DEF Sync!BrokerAnswers, Holders, HeldBy, Sync!Holding
  <2>2. pass[p].key \in Keys /\ table[pass[p].key].status # "ABSENT"
        BY <1>1, <2>1, HeldIsLive
  <2> QED
        BY <1>1, <1>5, <2>2, PacketIsAQueueStep DEF Sync!BrokerAnswers
<1>6. ASSUME NEW p \in Passes, Sync!AnswerReturns(p)
      PROVE  Queue!QueueNext
  <2> DEFINE ok == pass[p].answer \in Sync!HttpOk
  <2>1. /\ ok \in BOOLEAN /\ (ok => pass[p].key \in published) /\ Sync!Holding(p)
        /\ Sync!Resume(p, ok) /\ published' = published
        BY <1>1, <1>6 DEF CInv, AcceptedWasPublished, Sync!AnswerReturns, Sync!Holding,
                          Sync!brokerVars
  <2> HIDE DEF ok
  <2> QED
        BY <1>1, <2>1, ResumeIsAQueueStep
<1>7. ASSUME NEW p \in Passes, Sync!PostTimesOut(p)
      PROVE  Queue!QueueNext
      BY <1>1, <1>7, ResumeIsAQueueStep DEF Sync!PostTimesOut, Sync!brokerVars
<1>8. ASSUME NEW p \in Passes, NEW k \in Keys, NEW payload \in Payloads,
             Sync!Enqueue(p, k, payload)
      PROVE  Queue!QueueNext \/ UNCHANGED Queue!queueVars
      BY <1>1, <1>8, SyncStatements, InsertIsAQueueStep DEF Sync!Enqueue, Sync!brokerVars
<1>9. ASSUME NEW k \in Keys, Sync!LatePacket(k)
      PROVE  Queue!QueueNext \/ UNCHANGED Queue!queueVars
  <2>1. table[k].status # "ABSENT" /\ table' = table
        BY <1>9 DEF Sync!LatePacket, QInv, Present
  <2>2. CASE Sync!Broker!HandlePacket(k, Sync!Content(k))
        BY <1>1, <2>1, <2>2, PacketIsAQueueStep
  <2>3. CASE UNCHANGED Sync!brokerVars
        BY <1>2, <2>1, <2>3 DEF Sync!brokerVars
  <2> QED
        BY <1>9, <2>2, <2>3 DEF Sync!LatePacket
<1>10. ASSUME Sync!ReadStatus
       PROVE  UNCHANGED Queue!queueVars
       BY <1>2, <1>10 DEF Sync!ReadStatus, Sync!brokerVars
<1> QED
      BY <1>1, <1>3, <1>4, <1>5, <1>6, <1>7, <1>8, <1>9, <1>10 DEF Sync!Turn, Sync!PassStep

(* The bridge inserts rows of its own.                                     *)
LEMMA PersistIsAQueueStep ==
    ASSUME CInv, NEW req \in Requests, req.device \in Registered,
           Locks!PersistOffline(req), UNCHANGED <<published, written>>
    PROVE  Queue!QueueNext \/ UNCHANGED Queue!queueVars
<1>1. req \in Payloads /\ LockKey[req.device, req.room] \in Keys
      BY ConsoleAssumption, LockKeyAssumption
<1>2. table' = Insert(table, LockKey[req.device, req.room], req)
      BY LockStatements DEF Locks!PersistOffline
<1> QED
      BY <1>1, <1>2, InsertIsAQueueStep DEF CInv, ConsoleTypes

(* A drain settles what it claims: at once, when it cannot be encoded now, *)
(* or when the encoder has answered.                                       *)
LEMMA DrainIsAQueueStep ==
    ASSUME CInv, NEW r \in Drains, Locks!StartDrain(r) \/ Locks!DrainStep(r),
           published' = published
    PROVE  Queue!QueueNext \/ UNCHANGED Queue!queueVars
<1>1. table \in Tables /\ written' = written /\ SameQueue(table, table)
      BY DEF CInv, ConsoleTypes, SameQueue, Locks!StartDrain, Locks!DrainStep, Locks!DrainEnds,
             Locks!DrainRejects, Locks!DrainEncodes, Locks!DrainSucceeds, Locks!DrainFails,
             Locks!lockVars
<1>2. CASE Locks!StartDrain(r) \/ Locks!DrainEnds(r)
      BY <1>1, <1>2, NothingToQueue DEF Locks!StartDrain, Locks!DrainEnds
<1>3. CASE Locks!DrainRejects(r)
  <2>1. PICK k \in Keys : IsNext(table, k) /\ table' = MarkFailed(Claim(table, k), k)
        BY <1>3, LockStatements DEF Locks!DrainRejects
  <2>2. /\ Settles(NoSession, Claim(table, k))
        /\ Claim(table, k)[k].status = "PROCESSING"
        BY <2>1, UntouchedSettles, ClaimSettles
  <2>3. Claim(table, k) \in Tables /\ Claim(table, k)[k].retryCount < MaxRetryCount
        BY <2>2 DEF Settles, WithinBudget
  <2>4. SameQueue(table, Claim(table, k)) /\ SameQueue(MarkFailed(Claim(table, k), k), table')
        BY <1>1, <2>1, ClaimIsInvisible DEF SameQueue
  <2> QED
        BY <1>1, <2>2, <2>3, <2>4, FailIsAQueueStep
<1>4. CASE Locks!DrainEncodes(r)
  <2>1. PICK k \in Keys : IsNext(table, k) /\ table' = Claim(table, k)
        BY <1>4, LockStatements DEF Locks!DrainEncodes
  <2> QED
        BY <1>1, <2>1, ClaimIsInvisible, NothingToQueue
<1>5. ASSUME Locks!Awaiting(r)
      PROVE  /\ session[r].key \in Keys
             /\ table[session[r].key].status = "PROCESSING"
             /\ table[session[r].key].retryCount < MaxRetryCount
  <2>1. r \in Holders /\ HeldBy(r) = session[r].key
        BY <1>5, ConsoleAssumption DEF Holders, HeldBy
  <2> QED
        BY <2>1, HeldIsLive
<1>6. CASE Locks!DrainSucceeds(r)
  <2>1. /\ Locks!Awaiting(r) /\ table[session[r].key].payload \in written
        /\ table' = MarkComplete(table, session[r].key)
        BY <1>6, LockStatements
           DEF Locks!DrainSucceeds, Locks!Awaiting, CInv, OkMeansWritten
  <2>2. SameQueue(MarkComplete(table, session[r].key), table')
        BY <2>1 DEF SameQueue
  <2> QED
        BY <1>1, <1>5, <2>1, <2>2, CompleteIsAQueueStep
<1>7. CASE Locks!DrainFails(r)
  <2>1. Locks!Awaiting(r) /\ table' = MarkFailed(table, session[r].key)
        BY <1>7, LockStatements DEF Locks!DrainFails
  <2>2. SameQueue(MarkFailed(table, session[r].key), table')
        BY <2>1 DEF SameQueue
  <2> QED
        BY <1>1, <1>5, <2>1, <2>2, FailIsAQueueStep
<1> QED
      BY <1>2, <1>3, <1>4, <1>6, <1>7 DEF Locks!DrainStep

LEMMA LockTurnIsAQueueStep ==
    ASSUME CInv, LockTurn
    PROVE  Queue!QueueNext \/ UNCHANGED Queue!queueVars
<1>1. Locks!LockNext /\ published' = published
      BY DEF LockTurn, syncVars
<1>2. ASSUME UNCHANGED <<table, written>> PROVE UNCHANGED Queue!queueVars
      BY <1>1, <1>2, NothingToQueue DEF SameQueue
<1>3. ASSUME NEW req \in Requests, Locks!FastFail(req)
      PROVE  Queue!QueueNext \/ UNCHANGED Queue!queueVars
      BY <1>1, <1>3, PersistIsAQueueStep DEF Locks!FastFail
<1>4. ASSUME NEW c \in Calls, NEW req \in Requests, Locks!StartEncode(c, req)
      PROVE  UNCHANGED Queue!queueVars
      BY <1>2, <1>4 DEF Locks!StartEncode
<1>5. ASSUME NEW c \in Calls, Locks!CallStep(c)
      PROVE  Queue!QueueNext \/ UNCHANGED Queue!queueVars
  <2>1. CASE Locks!EncodeSucceeds(c)
        BY <1>2, <2>1 DEF Locks!EncodeSucceeds
  <2>2. CASE Locks!EncodeFails(c)
    <3>1. session[c].req \in Requests /\ session[c].req.device \in Registered
          BY <2>2 DEF Locks!EncodeFails, CInv, AwaitsRequest, Locks!Sessions
    <3> QED
          BY <1>1, <2>2, <3>1, PersistIsAQueueStep DEF Locks!EncodeFails
  <2> QED
        BY <1>5, <2>1, <2>2 DEF Locks!CallStep
<1>6. ASSUME NEW s \in Locks!Sessions, Locks!EncoderWrites(s)
      PROVE  Queue!QueueNext
  <2>1. session[s].req \in Payloads
        BY <1>6, ConsoleAssumption DEF Locks!EncoderWrites, Locks!Awaiting, CInv, AwaitsRequest
  <2>2. Queue!Write(session[s].req)
        BY <1>1, <1>6 DEF Locks!EncoderWrites, Queue!Write
  <2> QED
        BY <2>1, <2>2 DEF Queue!QueueNext
<1>7. ASSUME NEW r \in Drains, Locks!StartDrain(r) \/ Locks!DrainStep(r)
      PROVE  Queue!QueueNext \/ UNCHANGED Queue!queueVars
      BY <1>1, <1>7, DrainIsAQueueStep
<1>8. ASSUME NEW d \in Devices, Locks!Cooldown(d)
      PROVE  UNCHANGED Queue!queueVars
      BY <1>2, <1>8 DEF Locks!Cooldown
<1> QED
      BY <1>1, <1>3, <1>4, <1>5, <1>6, <1>7, <1>8 DEF Locks!LockNext

(* A dying process settles at most one row on its way out.                 *)
LEMMA CrashIsAQueueStep ==
    ASSUME CInv, Crash
    PROVE  Queue!QueueNext \/ UNCHANGED Queue!queueVars
<1>1. /\ UNCHANGED <<published, written>>
      /\ table \in Tables /\ SameQueue(table', table')
      BY DEF Crash, Sync!ProcessLost, Locks!ProcessLost, Sync!Broker!BrokerLost, CInv,
             ConsoleTypes, SameQueue
<1>2. CASE table' = table
      BY <1>1, <1>2, NothingToQueue
<1>3. ASSUME NEW p \in Passes, Sync!Holding(p), NEW ok \in BOOLEAN,
             ok => pass[p].pc = "answered" /\ pass[p].answer \in Sync!HttpOk,
             table' = Sync!Settled(p, ok)
      PROVE  Queue!QueueNext
  <2>1. (ok => pass[p].key \in published) /\ SameQueue(Sync!Settled(p, ok), table')
        BY <1>1, <1>3 DEF CInv, AcceptedWasPublished
  <2> QED
        BY <1>1, <1>3, <2>1, SettlingIsAQueueStep
<1>4. CASE table' \in Sync!CrashTables
  <2>1. CASE \E p \in Passes : Sync!Holding(p) /\ table' = Sync!Settled(p, FALSE)
        BY <1>3, <2>1
  <2>2. CASE \E p \in Passes : /\ pass[p].pc = "answered"
                               /\ pass[p].answer \in Sync!HttpOk
                               /\ table' = Sync!Settled(p, TRUE)
        BY <1>3, <2>2 DEF Sync!Holding
  <2> QED
        BY <1>2, <1>4, <2>1, <2>2 DEF Sync!CrashTables
<1>5. CASE table' \in Locks!CrashTables
  <2>1. CASE \E k \in Keys : IsNext(table, k) /\ table' = Claim(table, k)
        BY <1>1, <2>1, ClaimIsInvisible, NothingToQueue
  <2> QED
        BY <1>2, <1>5, <2>1, LockStatements DEF Locks!CrashTables
<1> QED
      BY <1>4, <1>5 DEF Crash

LEMMA StepIsAQueueStep == QInv /\ [Next]_vars => [Queue!QueueNext]_(Queue!queueVars)
<1> SUFFICES ASSUME QInv, [Next]_vars
             PROVE  Queue!QueueNext \/ UNCHANGED Queue!queueVars
    OBVIOUS
<1>1. CInv /\ table \in Tables
      BY DEF QInv, CInv, ConsoleTypes
<1>2. ASSUME UNCHANGED <<table, published, written>> PROVE UNCHANGED Queue!queueVars
      BY <1>2, NothingToQueue DEF SameQueue
<1>3. CASE Time
      BY <1>2, <1>3 DEF Time, Sync!BrokerTime, Sync!Broker!Refill, Sync!Broker!Forget, lockVars
<1>4. CASE Boot
  <2>1. PICK stale : table' = RequeueStaleProcessing(table, stale)
        BY <1>4, SyncStatements DEF Boot, Sync!Boot
  <2>2. UNCHANGED <<published, written>>
        BY <1>4 DEF Boot, Sync!Boot, Sync!brokerVars, lockVars
  <2> QED
        BY <1>1, <2>1, <2>2, RequeueIsInvisible, NothingToQueue
<1>5. CASE UNCHANGED vars
      BY <1>2, <1>5 DEF vars, syncVars, lockVars
<1> QED
      BY <1>1, <1>3, <1>4, <1>5, SyncTurnIsAQueueStep, LockTurnIsAQueueStep, CrashIsAQueueStep
         DEF Next

(* A queue step takes no row away.                                         *)
LEMMA RowsStay ==
    ASSUME [Queue!QueueNext]_(Queue!queueVars)
    PROVE  Present(table) \subseteq Present(table')
<1>1. \A k \in Keys : Sync!StateIn(table')[k] = "none" => Sync!StateIn(table)[k] = "none"
      BY DEF Queue!QueueNext, Queue!Submit, Queue!Publish, Queue!Fail, Queue!Finish,
             Queue!Write, Queue!queueVars, Sync!StateIn
<1> QED
      BY <1>1 DEF Sync!StateIn, Present

LEMMA QInvStep == QInv /\ [Next]_vars => QInv'
<1> SUFFICES ASSUME QInv, [Next]_vars PROVE QInv'
    OBVIOUS
<1>1. CInv' /\ Present(table) \subseteq Present(table')
      BY CInvStep, StepIsAQueueStep, RowsStay DEF QInv
<1>2. late' \subseteq late \cup {pass[p].key : p \in {q \in Passes : Sync!Holding(q)}}
      BY DEF Next, SyncTurn, Sync!Turn, Sync!PassStep, Sync!TimerFlush, Sync!ProbeReturns,
             Sync!BrokerAnswers, Sync!AnswerReturns, Sync!PostTimesOut, Sync!Enqueue,
             Sync!LatePacket, Sync!ReadStatus, LockTurn, Time, Sync!BrokerTime, Boot,
             Sync!Boot, Crash, Sync!ProcessLost, vars, syncVars
<1>3. \A p \in Passes : Sync!Holding(p) => pass[p].key \in Present(table)
  <2>1. \A p \in Passes : Sync!Holding(p) => p \in Holders /\ HeldBy(p) = pass[p].key
        BY DEF Holders, HeldBy
  <2> QED
        BY <2>1, HeldIsLive DEF QInv, Present
<1> QED
      BY <1>1, <1>2, <1>3 DEF QInv

(* The table with its two consumers implements the shared queue: nothing   *)
(* any interleaving, timeout or crash does to it is more than submitting,  *)
(* publishing, writing a card, failing once or finishing (store.ts:30-36). *)
THEOREM QueueRefinement == Spec => ImplementsQueue
<1>1. Init => Queue!QueueInit
  <2>1. Init => table = EmptyTable /\ published = {} /\ written = {}
        BY SyncStatements DEF Init, Sync!Init, Sync!Broker!BrokerInit, Locks!LockInit
  <2> QED
        BY <2>1 DEF Queue!QueueInit, Sync!StateIn, Sync!AttemptsIn, EmptyTable
<1>2. Init => QInv
      BY CInvInit DEF QInv, Init, Sync!Init
<1>3. QInv /\ [Next]_vars => [Queue!QueueNext]_(Queue!queueVars)
      BY StepIsAQueueStep
<1> QED
      BY <1>1, <1>2, <1>3, QInvStep, PTL DEF Spec, ImplementsQueue, Queue!QueueSpec
=============================================================================
