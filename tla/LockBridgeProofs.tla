-------------------------- MODULE LockBridgeProofs --------------------------
(***************************************************************************)
(* What holds of the door-lock bridge for any encoders, requests, encodes  *)
(* and drains: types, drains with rows of their own, a retry loop for      *)
(* every open breaker, and that only a written card completes a row.       *)
(***************************************************************************)
EXTENDS LockBridge, OfflineStoreProofs

(* Whoever waits for an encoder asks for an encode on a registered one.    *)
AwaitsRequest ==
    \A s \in Sessions : Awaiting(s) =>
       session[s].req \in Requests /\ session[s].req.device \in Registered

(* A session whose encoder has answered OK has its request on a card.      *)
OkMeansWritten ==
    \A s \in Sessions : session[s].pc = "written" => session[s].req \in written

(* Drains are started by the retry timer only, and the timer is never      *)
(* switched off while the process lives (lockBridge.ts:380-384).           *)
DrainsHaveRetryLoop ==
    \A r \in Drains : session[r].pc # "idle" => loopOn

LInv ==
    /\ BridgeTypeOK
    /\ DrainsHoldTheirRows
    /\ OpenBreakerHasRetryLoop
    /\ CompletedWasWritten
    /\ AwaitsRequest
    /\ OkMeansWritten
    /\ DrainsHaveRetryLoop

-----------------------------------------------------------------------------
(* The three operations of a breaker keep its type, and only a failure     *)
(* opens it (lockBridge.ts: class CircuitBreaker).                         *)
LEMMA ClosedFacts == Closed \in Breakers /\ Closed.state = "CLOSED"
<1>1. Threshold \in Nat \ {0}
      BY LockBridgeAssumption
<1> QED
      BY <1>1 DEF Closed, Breakers

LEMMA BreakerFacts ==
    ASSUME NEW b \in Breakers
    PROVE  /\ AfterAllow(b) \in Breakers
           /\ AfterSuccess(b) = Closed
           /\ AfterFailure(b) \in Breakers
           /\ AfterAllow(b).state = "OPEN" => b.state = "OPEN"
<1>1. Threshold \in Nat \ {0}
      BY LockBridgeAssumption
<1>2. Closed \in Breakers /\ Closed.state = "CLOSED"
      BY ClosedFacts
<1>3. /\ AfterAllow(b) \in Breakers
      /\ AfterAllow(b).state = "OPEN" => b.state = "OPEN"
      BY <1>2 DEF AfterAllow
<1>4. AfterFailure(b) \in Breakers
  <2>1. CASE b.failures + 1 >= Threshold
        BY <1>1, <2>1 DEF AfterFailure, Breakers
  <2>2. CASE ~(b.failures + 1 >= Threshold)
    <3>1. b.failures + 1 \in 0..Threshold
          BY <1>1, <2>2 DEF Breakers
    <3> QED
          BY <2>2, <3>1 DEF AfterFailure, Breakers
  <2> QED
        BY <2>1, <2>2
<1> QED
      BY <1>3, <1>4 DEF AfterSuccess

(* The states a session moves to have their type.                          *)
LEMMA SessionTypes ==
    ASSUME NEW req \in Requests, NEW k \in Keys \cup {NoKey}
    PROVE  /\ NotActive \in SessionStates
           /\ Running \in SessionStates
           /\ Encoding(req, k) \in SessionStates
BY DEF NotActive, Running, Encoding, SessionStates

(* An encode of a request on a registered encoder can be queued.           *)
LEMMA PersistFacts ==
    ASSUME BridgeTypeOK, NEW req \in Requests, req.device \in Registered,
           PersistOffline(req)
    PROVE  /\ table' \in Tables
           /\ promised' \subseteq Requests
           /\ \A k \in Keys : \/ table'[k] = table[k]
                              \/ table[k].status = "ABSENT" /\ table'[k].status = "PENDING"
<1> DEFINE key == LockKey[req.device, req.room]
<1>1. key \in Keys /\ req \in Payloads
      BY LockBridgeAssumption
<1>2. table' = Insert(table, key, req) /\ promised' = promised \cup {req}
      BY DEF PersistOffline
<1> HIDE DEF key
<1>3. table' \in Tables
      BY <1>1, <1>2, InsertType DEF BridgeTypeOK
<1> QED
      BY <1>1, <1>2, <1>3 DEF BridgeTypeOK, Insert, Tables, Present

(* A session waiting for an encoder is not a drain that has the thread.    *)
LEMMA NoSessionFacts == NoSession \notin Drains /\ Calls \cap Drains = {}
BY LockBridgeAssumption DEF Sessions

-----------------------------------------------------------------------------
(* The invariant holds when the bridge is built (BridgeInit).              *)
LEMMA LInvInit == BridgeInit => LInv
<1> SUFFICES ASSUME BridgeInit PROVE LInv
    OBVIOUS
<1> USE DEF BridgeInit, LockInit
<1>1. table \in Tables
      BY EmptyTableFacts
<1>2. breaker \in [Devices -> Breakers]
      BY ClosedFacts
<1>3. session \in [Sessions -> SessionStates]
      BY DEF NotActive, SessionStates
<1>4. BridgeTypeOK
      BY <1>1, <1>2, <1>3 DEF BridgeTypeOK
<1>5. DrainsHoldTheirRows
      BY NoSessionFacts DEF DrainsHoldTheirRows, Awaiting, NotActive, Sessions
<1>6. OpenBreakerHasRetryLoop /\ CompletedWasWritten
      BY DEF OpenBreakerHasRetryLoop, CompletedWasWritten, Closed, WithStatus, EmptyTable
<1>7. AwaitsRequest /\ OkMeansWritten /\ DrainsHaveRetryLoop
      BY DEF AwaitsRequest, OkMeansWritten, DrainsHaveRetryLoop, Awaiting, NotActive, Sessions
<1> QED
      BY <1>4, <1>5, <1>6, <1>7 DEF LInv

(* One lemma per action: it preserves the invariant.                       *)
LEMMA FastFailInv ==
    ASSUME LInv, NEW req \in Requests, FastFail(req) PROVE LInv'
<1> USE DEF LInv, FastFail
<1>1. /\ table' \in Tables
      /\ promised' \subseteq Requests
      /\ \A k \in Keys : \/ table'[k] = table[k]
                         \/ table[k].status = "ABSENT" /\ table'[k].status = "PENDING"
      BY PersistFacts
<1>2. BridgeTypeOK'
      BY <1>1 DEF BridgeTypeOK
<1>3. DrainsHoldTheirRows'
      BY <1>1 DEF DrainsHoldTheirRows, Awaiting
<1>4. CompletedWasWritten'
      BY <1>1 DEF CompletedWasWritten, WithStatus
<1> QED
      BY <1>2, <1>3, <1>4 DEF OpenBreakerHasRetryLoop, AwaitsRequest, OkMeansWritten,
                              DrainsHaveRetryLoop, Awaiting

LEMMA StartEncodeInv ==
    ASSUME LInv, NEW c \in Calls, NEW req \in Requests, StartEncode(c, req) PROVE LInv'
<1> USE DEF LInv, StartEncode
<1>1. c \in Sessions /\ c \notin Drains
      BY NoSessionFacts DEF Sessions
<1>2. req.device \in Devices /\ breaker[req.device] \in Breakers
      BY LockBridgeAssumption DEF BridgeTypeOK
<1>3. Encoding(req, NoKey) \in SessionStates
      BY SessionTypes
<1>4. /\ session' \in [Sessions -> SessionStates]
      /\ session'[c] = Encoding(req, NoKey)
      /\ \A s \in Sessions \ {c} : session'[s] = session[s]
      BY <1>1, <1>3 DEF BridgeTypeOK
<1>5. /\ breaker' \in [Devices -> Breakers]
      /\ \A d \in Devices : breaker'[d].state = "OPEN" => breaker[d].state = "OPEN"
      BY <1>2, BreakerFacts DEF BridgeTypeOK
<1>6. BridgeTypeOK'
      BY <1>4, <1>5 DEF BridgeTypeOK
<1>7. \A r \in Drains : session'[r] = session[r]
      BY <1>1, <1>4 DEF Sessions
<1>8. DrainsHoldTheirRows' /\ DrainsHaveRetryLoop'
      BY <1>7 DEF DrainsHoldTheirRows, DrainsHaveRetryLoop, Awaiting
<1>9. OpenBreakerHasRetryLoop' /\ CompletedWasWritten'
      BY <1>5 DEF OpenBreakerHasRetryLoop, CompletedWasWritten
<1>10. AwaitsRequest' /\ OkMeansWritten'
      BY <1>4 DEF AwaitsRequest, OkMeansWritten, Awaiting, Encoding
<1> QED
      BY <1>6, <1>8, <1>9, <1>10

LEMMA EncoderWritesInv == ASSUME LInv, NEW s \in Sessions, EncoderWrites(s) PROVE LInv'
<1> USE DEF LInv, EncoderWrites
<1> DEFINE next == [session[s] EXCEPT !.pc = "written"]
<1>1. Awaiting(s) /\ session[s].req \in Requests /\ session[s].req.device \in Registered
      BY DEF AwaitsRequest, Awaiting
<1>2. session[s] \in SessionStates
      BY DEF BridgeTypeOK
<1>3. /\ next \in SessionStates
      /\ next.pc = "written" /\ next.req = session[s].req /\ next.key = session[s].key
      BY <1>2 DEF SessionStates
<1>4. session' = [session EXCEPT ![s] = next]
      BY DEF BridgeTypeOK
<1> HIDE DEF next
<1>5. /\ session' \in [Sessions -> SessionStates]
      /\ session'[s] = next
      /\ \A x \in Sessions \ {s} : session'[x] = session[x]
      BY <1>3, <1>4 DEF BridgeTypeOK
<1>6. BridgeTypeOK'
      BY <1>1, <1>5 DEF BridgeTypeOK
<1>7. \A x \in Sessions : /\ (session'[x].pc \in {"encoding", "written"}) <=> Awaiting(x)
                          /\ session'[x].req = session[x].req
                          /\ session'[x].key = session[x].key
                          /\ (session'[x].pc = "running") <=> (session[x].pc = "running")
                          /\ session'[x].pc # "idle" => session[x].pc # "idle"
      BY <1>1, <1>3, <1>5 DEF Awaiting
<1>8. DrainsHoldTheirRows'
      BY <1>7 DEF DrainsHoldTheirRows, Awaiting, Sessions
<1>9. OpenBreakerHasRetryLoop' /\ CompletedWasWritten' /\ DrainsHaveRetryLoop'
      BY <1>7 DEF OpenBreakerHasRetryLoop, CompletedWasWritten, DrainsHaveRetryLoop, Sessions
<1>10. AwaitsRequest' /\ OkMeansWritten'
      BY <1>3, <1>5, <1>7 DEF AwaitsRequest, OkMeansWritten, Awaiting
<1> QED
      BY <1>6, <1>8, <1>9, <1>10

LEMMA EncodeSucceedsInv == ASSUME LInv, NEW c \in Calls, EncodeSucceeds(c) PROVE LInv'
<1> USE DEF LInv, EncodeSucceeds
<1> DEFINE d == session[c].req.device
<1>1. c \in Sessions /\ c \notin Drains
      BY NoSessionFacts DEF Sessions
<1>2. session[c].req \in Requests
      BY <1>1 DEF AwaitsRequest, Awaiting
<1>3. d \in Devices
      BY <1>2, LockBridgeAssumption
<1> HIDE DEF d
<1>4. breaker' = [breaker EXCEPT ![d] = Closed]
      BY DEF d, AfterSuccess
<1>5. /\ breaker' \in [Devices -> Breakers]
      /\ \A e \in Devices : breaker'[e].state = "OPEN" => breaker[e].state = "OPEN"
      BY <1>3, <1>4, ClosedFacts DEF BridgeTypeOK
<1>6. NotActive \in SessionStates
      BY <1>2, SessionTypes
<1>7. /\ session' \in [Sessions -> SessionStates]
      /\ session'[c] = NotActive
      /\ \A s \in Sessions \ {c} : session'[s] = session[s]
      BY <1>1, <1>6 DEF BridgeTypeOK
<1>8. BridgeTypeOK'
      BY <1>5, <1>7 DEF BridgeTypeOK
<1>9. \A r \in Drains : session'[r] = session[r]
      BY <1>1, <1>7 DEF Sessions
<1>10. DrainsHoldTheirRows' /\ DrainsHaveRetryLoop'
      BY <1>9 DEF DrainsHoldTheirRows, DrainsHaveRetryLoop, Awaiting
<1>11. OpenBreakerHasRetryLoop' /\ CompletedWasWritten'
      BY <1>5 DEF OpenBreakerHasRetryLoop, CompletedWasWritten
<1>12. AwaitsRequest' /\ OkMeansWritten'
      BY <1>7 DEF AwaitsRequest, OkMeansWritten, Awaiting, NotActive
<1> QED
      BY <1>8, <1>10, <1>11, <1>12

LEMMA EncodeFailsInv == ASSUME LInv, NEW c \in Calls, EncodeFails(c) PROVE LInv'
<1> USE DEF LInv, EncodeFails
<1> DEFINE req == session[c].req
<1>1. c \in Sessions /\ c \notin Drains
      BY NoSessionFacts DEF Sessions
<1>2. req \in Requests /\ req.device \in Registered
      BY <1>1 DEF AwaitsRequest
<1>3. req.device \in Devices /\ breaker[req.device] \in Breakers
      BY <1>2, LockBridgeAssumption DEF BridgeTypeOK
<1>4. /\ table' \in Tables
      /\ promised' \subseteq Requests
      /\ \A k \in Keys : \/ table'[k] = table[k]
                         \/ table[k].status = "ABSENT" /\ table'[k].status = "PENDING"
      BY <1>2, PersistFacts
<1>5. NotActive \in SessionStates
      BY <1>2, SessionTypes
<1>6. /\ session' \in [Sessions -> SessionStates]
      /\ session'[c] = NotActive
      /\ \A s \in Sessions \ {c} : session'[s] = session[s]
      BY <1>1, <1>5 DEF BridgeTypeOK
<1>7. breaker' \in [Devices -> Breakers]
      BY <1>3, BreakerFacts DEF BridgeTypeOK
<1>8. BridgeTypeOK'
      BY <1>4, <1>6, <1>7 DEF BridgeTypeOK
<1>9. \A r \in Drains : session'[r] = session[r]
      BY <1>1, <1>6 DEF Sessions
<1>10. DrainsHoldTheirRows'
      BY <1>4, <1>9 DEF DrainsHoldTheirRows, Awaiting
<1>11. OpenBreakerHasRetryLoop' /\ DrainsHaveRetryLoop'
      BY DEF OpenBreakerHasRetryLoop, DrainsHaveRetryLoop
<1>12. CompletedWasWritten'
      BY <1>4 DEF CompletedWasWritten, WithStatus
<1>13. AwaitsRequest' /\ OkMeansWritten'
      BY <1>6 DEF AwaitsRequest, OkMeansWritten, Awaiting, NotActive
<1> QED
      BY <1>8, <1>10, <1>11, <1>12, <1>13

LEMMA StartDrainInv == ASSUME LInv, NEW r \in Drains, StartDrain(r) PROVE LInv'
<1> USE DEF LInv, StartDrain
<1>1. r \in Sessions
      BY DEF Sessions
<1>2. Running \in SessionStates
      BY DEF Running, SessionStates
<1>3. /\ session' \in [Sessions -> SessionStates]
      /\ session'[r] = Running
      /\ \A s \in Sessions \ {r} : session'[s] = session[s]
      BY <1>1, <1>2 DEF BridgeTypeOK
<1>4. BridgeTypeOK'
      BY <1>3 DEF BridgeTypeOK
<1>5. DrainsHoldTheirRows'
      BY <1>3, NoSessionFacts
         DEF DrainsHoldTheirRows, Awaiting, Running, LoopFree, Sessions
<1>6. OpenBreakerHasRetryLoop' /\ CompletedWasWritten' /\ DrainsHaveRetryLoop'
      BY DEF OpenBreakerHasRetryLoop, CompletedWasWritten, DrainsHaveRetryLoop
<1>7. AwaitsRequest' /\ OkMeansWritten'
      BY <1>3 DEF AwaitsRequest, OkMeansWritten, Awaiting, Running
<1> QED
      BY <1>4, <1>5, <1>6, <1>7

LEMMA DrainEndsInv == ASSUME LInv, NEW r \in Drains, DrainEnds(r) PROVE LInv'
<1> USE DEF LInv, DrainEnds
<1>1. r \in Sessions
      BY DEF Sessions
<1>2. NotActive \in SessionStates
      BY DEF NotActive, SessionStates
<1>3. /\ session' \in [Sessions -> SessionStates]
      /\ session'[r] = NotActive
      /\ \A s \in Sessions \ {r} : session'[s] = session[s]
      BY <1>1, <1>2 DEF BridgeTypeOK
<1>4. BridgeTypeOK'
      BY <1>3 DEF BridgeTypeOK
<1>5. DrainsHoldTheirRows'
      BY <1>3, NoSessionFacts DEF DrainsHoldTheirRows, Awaiting, NotActive, Sessions
<1>6. OpenBreakerHasRetryLoop' /\ CompletedWasWritten'
      BY DEF OpenBreakerHasRetryLoop, CompletedWasWritten
<1>7. AwaitsRequest' /\ OkMeansWritten' /\ DrainsHaveRetryLoop'
      BY <1>3 DEF AwaitsRequest, OkMeansWritten, DrainsHaveRetryLoop, Awaiting, NotActive,
                  Sessions
<1> QED
      BY <1>4, <1>5, <1>6, <1>7

(* What a drain fails without an await was waiting, so nobody held it      *)
(* (lockBridge.ts:391-416).                                                *)
LEMMA RejectedRow ==
    ASSUME NEW t \in Tables, NEW k \in Keys, IsNext(t, k)
    PROVE  /\ MarkFailed(Claim(t, k), k) \in Tables
           /\ t[k].status \notin {"PROCESSING", "COMPLETED", "ABSENT"}
           /\ MarkFailed(Claim(t, k), k)[k].status = "FAILED"
           /\ \A j \in Keys \ {k} : MarkFailed(Claim(t, k), k)[j] = t[j]
<1>1. Claim(t, k) \in Tables
      BY ClaimType
<1>2. /\ MarkFailed(Claim(t, k), k) \in Tables
      /\ MarkFailed(Claim(t, k), k)[k].status = "FAILED"
      /\ \A j \in Keys \ {k} : MarkFailed(Claim(t, k), k)[j] = Claim(t, k)[j]
  <2>1. Claim(t, k)[k] \in Rows
        BY <1>1 DEF Tables
  <2> QED
        BY <1>1, <2>1, MarkFailedType DEF MarkFailed, Tables, Rows
<1>3. \A j \in Keys \ {k} : Claim(t, k)[j] = t[j]
      BY DEF Claim, Tables
<1> QED
      BY <1>2, <1>3, NextWaits

LEMMA DrainRejectsInv == ASSUME LInv, NEW r \in Drains, DrainRejects(r) PROVE LInv'
<1> USE DEF LInv, DrainRejects, lockVars
<1>1. PICK k \in Keys : IsNext(table, k) /\ table' = MarkFailed(Claim(table, k), k)
      OBVIOUS
<1>2. /\ table' \in Tables
      /\ table[k].status \notin {"PROCESSING", "COMPLETED", "ABSENT"}
      /\ table'[k].status = "FAILED"
      /\ \A j \in Keys \ {k} : table'[j] = table[j]
      BY <1>1, RejectedRow DEF BridgeTypeOK
<1>3. BridgeTypeOK'
      BY <1>2 DEF BridgeTypeOK
<1>4. DrainsHoldTheirRows' /\ CompletedWasWritten'
      BY <1>2 DEF DrainsHoldTheirRows, CompletedWasWritten, WithStatus, Awaiting
<1> QED
      BY <1>3, <1>4 DEF OpenBreakerHasRetryLoop, AwaitsRequest, OkMeansWritten,
                        DrainsHaveRetryLoop, Awaiting

LEMMA DrainEncodesInv == ASSUME LInv, NEW r \in Drains, DrainEncodes(r) PROVE LInv'
<1> USE DEF LInv, DrainEncodes
<1>1. PICK k \in Keys :
         /\ IsNext(table, k)
         /\ Encodable(k)
         /\ table' = Claim(table, k)
         /\ breaker' = [breaker EXCEPT ![table[k].payload.device] = AfterAllow(@)]
         /\ session' = [session EXCEPT ![r] = Encoding(table[k].payload, k)]
      OBVIOUS
<1> DEFINE req == table[k].payload
<1>2. req \in Requests /\ req.device \in Registered /\ req.device \in Devices
      BY <1>1, LockBridgeAssumption DEF Encodable, IsLockRow
<1>3. r \in Sessions /\ Encoding(req, k) \in SessionStates
      BY <1>2, SessionTypes DEF Sessions
<1>4. /\ table' \in Tables
      /\ table'[k].status = "PROCESSING" /\ table'[k].payload = req
      /\ \A j \in Keys \ {k} : table'[j] = table[j]
      BY <1>1, ClaimType DEF BridgeTypeOK, Claim, Tables, Rows
<1>5. table[k].status # "PROCESSING" /\ table[k].status # "COMPLETED"
      BY <1>1, NextWaits DEF BridgeTypeOK
<1>6. breaker[req.device] \in Breakers
      BY <1>2 DEF BridgeTypeOK
<1> HIDE DEF req
<1>7. /\ session' \in [Sessions -> SessionStates]
      /\ session'[r] = Encoding(req, k)
      /\ \A s \in Sessions \ {r} : session'[s] = session[s]
      BY <1>1, <1>3 DEF BridgeTypeOK, req
<1>8. /\ breaker' \in [Devices -> Breakers]
      /\ \A d \in Devices : breaker'[d].state = "OPEN" => breaker[d].state = "OPEN"
      BY <1>1, <1>2, <1>6, BreakerFacts DEF BridgeTypeOK, req
<1>9. BridgeTypeOK'
      BY <1>4, <1>7, <1>8 DEF BridgeTypeOK
<1>10. \A q \in Drains : Awaiting(q) => session[q].key # k
      BY <1>5 DEF DrainsHoldTheirRows
<1>11. DrainsHoldTheirRows'
  <2>1. \A q \in Drains \ {r} : session'[q] = session[q]
        BY <1>7 DEF Sessions
  <2>2. ASSUME NEW q \in Drains, Awaiting(q)'
        PROVE  /\ session'[q].key \in Keys
               /\ table'[session'[q].key].status = "PROCESSING"
               /\ table'[session'[q].key].payload = session'[q].req
    <3>1. CASE q = r
          BY <1>4, <1>7, <3>1 DEF Encoding
    <3>2. CASE q # r
          BY <1>4, <1>10, <2>1, <2>2, <3>2 DEF DrainsHoldTheirRows, Awaiting
    <3> QED
          BY <3>1, <3>2
  <2>3. \A p, q \in Drains :
           Awaiting(p)' /\ Awaiting(q)' /\ p # q => session'[p].key # session'[q].key
        BY <1>7, <1>10, <2>1 DEF DrainsHoldTheirRows, Awaiting, Encoding
  <2>4. \A q \in Drains : session'[q].pc = "running" <=> thread' = q
        BY <1>7, <2>1, NoSessionFacts DEF DrainsHoldTheirRows, Encoding
  <2> QED
        BY <2>2, <2>3, <2>4 DEF DrainsHoldTheirRows
<1>12. OpenBreakerHasRetryLoop'
      BY <1>8 DEF OpenBreakerHasRetryLoop
<1>13. CompletedWasWritten'
      BY <1>4 DEF CompletedWasWritten, WithStatus
<1>14. AwaitsRequest' /\ OkMeansWritten'
      BY <1>2, <1>7 DEF AwaitsRequest, OkMeansWritten, Awaiting, Encoding
<1>15. DrainsHaveRetryLoop'
  <2>1. session[r].pc # "idle"
        BY DEF DrainsHoldTheirRows
  <2> QED
        BY <1>7, <2>1 DEF DrainsHaveRetryLoop, Sessions
<1> QED
      BY <1>9, <1>11, <1>12, <1>13, <1>14, <1>15

(* What the end of an encode does to a drain: it has the thread again, and *)
(* its row is nobody's (lockBridge.ts:420-437).                            *)
LEMMA DrainResumes ==
    ASSUME LInv, NEW r \in Drains, Awaiting(r), LoopFree,
           session' = [session EXCEPT ![r] = Running], thread' = r,
           table' \in Tables,
           \A j \in Keys \ {session[r].key} : table'[j] = table[j]
    PROVE  /\ session' \in [Sessions -> SessionStates]
           /\ session'[r] = Running
           /\ \A s \in Sessions \ {r} : session'[s] = session[s]
           /\ DrainsHoldTheirRows'
           /\ session[r].key \in Keys
           /\ table[session[r].key].status = "PROCESSING"
           /\ table[session[r].key].payload = session[r].req
           /\ session[r].req \in Requests
           /\ session[r].req.device \in Devices
           /\ loopOn
<1>1. r \in Sessions /\ Running \in SessionStates
      BY DEF Sessions, Running, SessionStates
<1>2. /\ session' \in [Sessions -> SessionStates]
      /\ session'[r] = Running
      /\ \A s \in Sessions \ {r} : session'[s] = session[s]
      BY <1>1 DEF LInv, BridgeTypeOK
<1>3. /\ session[r].key \in Keys
      /\ table[session[r].key].status = "PROCESSING"
      /\ table[session[r].key].payload = session[r].req
      BY DEF LInv, DrainsHoldTheirRows
<1>4. session[r].req \in Requests /\ session[r].req.device \in Devices
      BY <1>1, LockBridgeAssumption DEF LInv, AwaitsRequest
<1>5. loopOn
      BY DEF LInv, DrainsHaveRetryLoop, Awaiting
<1>6. \A q \in Drains \ {r} : session'[q] = session[q]
      BY <1>2 DEF Sessions
<1>7. DrainsHoldTheirRows'
  <2>1. ASSUME NEW q \in Drains, Awaiting(q)'
        PROVE  /\ q # r /\ Awaiting(q) /\ session'[q] = session[q]
               /\ session'[q].key \in Keys
               /\ table'[session'[q].key] = table[session[q].key]
        BY <1>2, <1>6, <2>1 DEF LInv, DrainsHoldTheirRows, Awaiting, Running
  <2>2. \A q \in Drains : session'[q].pc = "running" <=> thread' = q
        BY <1>2, <1>6, NoSessionFacts
           DEF LInv, DrainsHoldTheirRows, Running, LoopFree
  <2> QED
        BY <2>1, <2>2 DEF LInv, DrainsHoldTheirRows
<1> QED
      BY <1>2, <1>3, <1>4, <1>5, <1>7

LEMMA DrainSucceedsInv == ASSUME LInv, NEW r \in Drains, DrainSucceeds(r) PROVE LInv'
<1> USE DEF DrainSucceeds
<1> DEFINE k == session[r].key
           d == session[r].req.device
<1>1. Awaiting(r)
      BY DEF Awaiting
<1>2. k \in Keys /\ table \in Tables
      BY <1>1 DEF LInv, DrainsHoldTheirRows, BridgeTypeOK
<1>3. /\ table' \in Tables
      /\ \A j \in Keys \ {k} : table'[j] = table[j]
      /\ table'[k].payload = table[k].payload
  <2>1. table[k] \in Rows
        BY <1>2 DEF Tables
  <2> QED
        BY <1>2, <2>1, MarkCompleteType DEF MarkComplete, Tables, Rows
<1>4. /\ session' \in [Sessions -> SessionStates]
      /\ session'[r] = Running
      /\ \A s \in Sessions \ {r} : session'[s] = session[s]
      /\ DrainsHoldTheirRows'
      /\ table[k].payload = session[r].req
      /\ d \in Devices
      /\ loopOn
      BY <1>1, <1>3, DrainResumes
<1> HIDE DEF k, d
<1>5. breaker' = [breaker EXCEPT ![d] = Closed]
      BY DEF d, AfterSuccess
<1>6. breaker' \in [Devices -> Breakers]
      BY <1>4, <1>5, ClosedFacts DEF LInv, BridgeTypeOK
<1>7. BridgeTypeOK'
      BY <1>3, <1>4, <1>6 DEF LInv, BridgeTypeOK
<1>8. OpenBreakerHasRetryLoop' /\ DrainsHaveRetryLoop'
      BY <1>4 DEF OpenBreakerHasRetryLoop, DrainsHaveRetryLoop
<1>9. CompletedWasWritten'
  <2>1. session[r].req \in written
        BY DEF LInv, OkMeansWritten, Sessions
  <2> QED
        BY <1>3, <1>4, <2>1 DEF LInv, CompletedWasWritten, WithStatus
<1>10. AwaitsRequest' /\ OkMeansWritten'
      BY <1>4 DEF LInv, AwaitsRequest, OkMeansWritten, Awaiting, Running
<1> QED
      BY <1>4, <1>7, <1>8, <1>9, <1>10 DEF LInv

LEMMA DrainFailsInv == ASSUME LInv, NEW r \in Drains, DrainFails(r) PROVE LInv'
<1> USE DEF DrainFails
<1> DEFINE k == session[r].key
           d == session[r].req.device
<1>1. k \in Keys /\ table \in Tables
      BY DEF LInv, DrainsHoldTheirRows, BridgeTypeOK
<1>2. /\ table' \in Tables
      /\ \A j \in Keys \ {k} : table'[j] = table[j]
      /\ table'[k].status = "FAILED"
  <2>1. table[k] \in Rows
        BY <1>1 DEF Tables
  <2> QED
        BY <1>1, <2>1, MarkFailedType DEF MarkFailed, Tables, Rows
<1>3. /\ session' \in [Sessions -> SessionStates]
      /\ session'[r] = Running
      /\ \A s \in Sessions \ {r} : session'[s] = session[s]
      /\ DrainsHoldTheirRows'
      /\ d \in Devices
      /\ loopOn
      BY <1>2, DrainResumes
<1> HIDE DEF k, d
<1>4. breaker' \in [Devices -> Breakers]
  <2>1. breaker[d] \in Breakers
        BY <1>3 DEF LInv, BridgeTypeOK
  <2>2. breaker' = [breaker EXCEPT ![d] = AfterFailure(breaker[d])]
        BY DEF d
  <2> QED
        BY <1>3, <2>1, <2>2, BreakerFacts DEF LInv, BridgeTypeOK
<1>5. BridgeTypeOK'
      BY <1>2, <1>3, <1>4 DEF LInv, BridgeTypeOK
<1>6. OpenBreakerHasRetryLoop' /\ DrainsHaveRetryLoop'
      BY <1>3 DEF OpenBreakerHasRetryLoop, DrainsHaveRetryLoop
<1>7. CompletedWasWritten'
      BY <1>2 DEF LInv, CompletedWasWritten, WithStatus
<1>8. AwaitsRequest' /\ OkMeansWritten'
      BY <1>3 DEF LInv, AwaitsRequest, OkMeansWritten, Awaiting, Running
<1> QED
      BY <1>3, <1>5, <1>6, <1>7, <1>8 DEF LInv

LEMMA CooldownInv == ASSUME LInv, NEW d \in Devices, Cooldown(d) PROVE LInv'
<1> USE DEF LInv, Cooldown
<1>1. breaker[d] \in Breakers
      BY DEF BridgeTypeOK
<1>2. [breaker[d] EXCEPT !.cooled = TRUE] \in Breakers
      BY <1>1 DEF Breakers
<1>3. breaker' = [breaker EXCEPT ![d] = [breaker[d] EXCEPT !.cooled = TRUE]]
      BY DEF BridgeTypeOK
<1>4. [breaker[d] EXCEPT !.cooled = TRUE].state = breaker[d].state
      BY <1>1 DEF Breakers
<1>5. /\ breaker' \in [Devices -> Breakers]
      /\ \A e \in Devices : breaker'[e].state = breaker[e].state
      BY <1>2, <1>3, <1>4 DEF BridgeTypeOK
<1>6. BridgeTypeOK'
      BY <1>5 DEF BridgeTypeOK
<1>7. OpenBreakerHasRetryLoop'
      BY <1>5 DEF OpenBreakerHasRetryLoop
<1> QED
      BY <1>6, <1>7 DEF DrainsHoldTheirRows, CompletedWasWritten, AwaitsRequest,
                        OkMeansWritten, DrainsHaveRetryLoop, Awaiting

LEMMA OtherEnqueueInv ==
    ASSUME LInv, NEW k \in Keys, NEW payload \in Payloads, OtherEnqueue(k, payload)
    PROVE  LInv'
<1> USE DEF LInv, OtherEnqueue, lockVars
<1>1. table' \in Tables
      BY InsertType DEF BridgeTypeOK
<1>2. \A j \in Keys : \/ table'[j] = table[j]
                      \/ table[j].status = "ABSENT" /\ table'[j].status = "PENDING"
      BY DEF BridgeTypeOK, Insert, Tables, Present
<1>3. BridgeTypeOK'
      BY <1>1 DEF BridgeTypeOK
<1>4. DrainsHoldTheirRows' /\ CompletedWasWritten'
      BY <1>2 DEF DrainsHoldTheirRows, CompletedWasWritten, WithStatus, Awaiting
<1> QED
      BY <1>3, <1>4 DEF OpenBreakerHasRetryLoop, AwaitsRequest, OkMeansWritten,
                        DrainsHaveRetryLoop, Awaiting

LEMMA RestartInv == ASSUME LInv, Restart PROVE LInv'
<1> USE DEF LInv, Restart, ProcessLost
<1>1. PICK t \in CrashTables : \E stale \in SUBSET WithStatus(t, "PROCESSING") :
         table' = RequeueStaleProcessing(t, stale)
      OBVIOUS
<1>2. /\ t \in Tables
      /\ \A k \in Keys : t[k].status = "COMPLETED" => t[k] = table[k]
  <2>1. CASE t = table
        BY <2>1 DEF BridgeTypeOK
  <2>2. CASE \E k \in Keys : IsNext(table, k) /\ t = Claim(table, k)
        BY <2>2, ClaimType DEF BridgeTypeOK, Claim, Tables, Rows
  <2> QED
        BY <2>1, <2>2 DEF CrashTables
<1>3. table' \in Tables
      BY <1>1, <1>2, RequeueType
<1>4. \A k \in Keys : table'[k].status = "COMPLETED" => table'[k] = table[k]
  <2>1. ASSUME NEW k \in Keys, table'[k].status = "COMPLETED"
        PROVE  t[k].status = "COMPLETED" /\ table'[k] = t[k]
        BY <1>1, <1>2, <2>1 DEF RequeueStaleProcessing, Tables, Rows
  <2> QED
        BY <1>2, <2>1
<1>5. \A s \in Sessions : session'[s] = NotActive
      OBVIOUS
<1>6. BridgeTypeOK'
      BY <1>3, ClosedFacts DEF BridgeTypeOK, NotActive, SessionStates
<1>7. DrainsHoldTheirRows'
      BY <1>5, NoSessionFacts DEF DrainsHoldTheirRows, Awaiting, NotActive, Sessions
<1>8. OpenBreakerHasRetryLoop'
      BY ClosedFacts DEF OpenBreakerHasRetryLoop
<1>9. CompletedWasWritten'
      BY <1>4 DEF CompletedWasWritten, WithStatus
<1>10. AwaitsRequest' /\ OkMeansWritten' /\ DrainsHaveRetryLoop'
      BY <1>5 DEF AwaitsRequest, OkMeansWritten, DrainsHaveRetryLoop, Awaiting, NotActive,
                  Sessions
<1> QED
      BY <1>6, <1>7, <1>8, <1>9, <1>10

LEMMA BridgeStutterInv == LInv /\ UNCHANGED BridgeVars => LInv'
BY DEF LInv, BridgeVars, lockVars, BridgeTypeOK, DrainsHoldTheirRows,
       OpenBreakerHasRetryLoop, CompletedWasWritten, AwaitsRequest, OkMeansWritten,
       DrainsHaveRetryLoop, Awaiting

(* Every step of the bridge and of what surrounds it keeps the invariant.  *)
LEMMA LInvNext == LInv /\ [BridgeNext]_BridgeVars => LInv'
<1> SUFFICES ASSUME LInv, [BridgeNext]_BridgeVars PROVE LInv'
    OBVIOUS
<1>1. CASE \E req \in Requests : FastFail(req)
      BY <1>1, FastFailInv
<1>2. CASE \E c \in Calls, req \in Requests : StartEncode(c, req)
      BY <1>2, StartEncodeInv
<1>3. CASE \E c \in Calls : CallStep(c)
      BY <1>3, EncodeSucceedsInv, EncodeFailsInv DEF CallStep
<1>4. CASE \E s \in Sessions : EncoderWrites(s)
      BY <1>4, EncoderWritesInv
<1>5. CASE \E r \in Drains : StartDrain(r) \/ DrainStep(r)
      BY <1>5, StartDrainInv, DrainEndsInv, DrainRejectsInv, DrainEncodesInv,
         DrainSucceedsInv, DrainFailsInv DEF DrainStep
<1>6. CASE \E d \in Devices : Cooldown(d)
      BY <1>6, CooldownInv
<1>7. CASE \E k \in Keys, payload \in Payloads : OtherEnqueue(k, payload)
      BY <1>7, OtherEnqueueInv
<1>8. CASE Restart
      BY <1>8, RestartInv
<1>9. CASE UNCHANGED BridgeVars
      BY <1>9, BridgeStutterInv
<1> QED
      BY <1>1, <1>2, <1>3, <1>4, <1>5, <1>6, <1>7, <1>8, <1>9 DEF BridgeNext, LockNext

LEMMA BridgeInvariance == BridgeSpec => []LInv
BY LInvInit, LInvNext, PTL DEF BridgeSpec

-----------------------------------------------------------------------------
(* The state of every variable keeps its type, for any encoders, sessions, *)
(* requests and threshold.                                                 *)
THEOREM BridgeTypeCorrectness == BridgeSpec => []BridgeTypeOK
BY BridgeInvariance, PTL DEF LInv

(* However many drains overlap, each waits for its encoder with a row of   *)
(* its own that is PROCESSING (lockBridge.ts:390-420).                     *)
THEOREM DrainsAreExclusive == BridgeSpec => []DrainsHoldTheirRows
BY BridgeInvariance, PTL DEF LInv

(* While a breaker is open, the retry loop runs: a request that is failed  *)
(* fast and queued is not forgotten (lockBridge.ts:321-342).               *)
THEOREM QueueHasItsLoop == BridgeSpec => []OpenBreakerHasRetryLoop
BY BridgeInvariance, PTL DEF LInv

(* The bridge completes a row only when its request is on a card           *)
(* (lockBridge.ts:420-427).                                                *)
THEOREM CompletionIsOnACard == BridgeSpec => []CompletedWasWritten
BY BridgeInvariance, PTL DEF LInv
=============================================================================
