----------------------------- MODULE LockBridge -----------------------------
(***************************************************************************)
(* The door-lock bridge (apps/console/src/main/hardware/lockBridge.ts):    *)
(* live encodes asked for over IPC, one circuit breaker per encoder, and   *)
(* the background drain that retries queued encodes out of the shared      *)
(* offline_actions table.                                                  *)
(*                                                                         *)
(* A session is one activation of encode() or of drainRetryQueue().  It    *)
(* gives up the JavaScript thread only while the encoder works.  A drain   *)
(* claims and fails any number of rows without an await, so it keeps the   *)
(* thread over several steps: thread names the drain that runs, and no     *)
(* other handler of the process acts until it is NoSession.                *)
(***************************************************************************)
EXTENDS OfflineStore

CONSTANTS
    Devices,        \* encoders a request may name
    Registered,     \* the encoders registered at boot
    Calls,          \* encode() activations at once (a bound of the model)
    Drains,         \* drainRetryQueue() activations at once (a bound)
    NoSession,      \* nobody holds the thread
    NoRequest,      \* a session without an encode
    Requests,       \* payloads that ask for an encode: records with a
                    \* device, a room and a credential
    LockKey,        \* the key lock:<deviceId>:<roomNumber>, by device and room
    Threshold       \* consecutive failures that open a breaker, 3 in the code

Sessions == Calls \cup Drains

ASSUME LockBridgeAssumption ==
    /\ Registered \subseteq Devices
    /\ Calls \cap Drains = {}
    /\ NoSession \notin Sessions
    /\ Requests \subseteq Payloads
    /\ NoRequest \notin Payloads
    /\ \A req \in Requests :
          /\ req.device \in Devices
          /\ req.device \in Registered => LockKey[req.device, req.room] \in Keys
    /\ Threshold \in Nat \ {0}

VARIABLES
    table,      \* offline_actions
    breaker,    \* one CircuitBreaker per device
    session,    \* the activations of encode() and drainRetryQueue()
    thread,     \* the drain that is running between two awaits
    loopOn,     \* retryTimer # null
    written,    \* history: the requests an encoder has put on a card
    promised    \* history: requests answered queued_offline

lockVars == <<breaker, session, thread, loopOn, written, promised>>

-----------------------------------------------------------------------------
(* CircuitBreaker.  cooled says that the cooldown since openedAt is over.  *)
(* PAUSED is left out: nothing in the console calls pause().               *)
Breakers == [state : {"CLOSED", "OPEN"}, failures : 0..Threshold, cooled : BOOLEAN]

Closed == [state |-> "CLOSED", failures |-> 0, cooled |-> FALSE]

Allows(b) == b.state = "CLOSED" \/ b.cooled

(* allow() closes an OPEN breaker whose cooldown is over; it does not      *)
(* remember that the attempt is a probe.                                   *)
AfterAllow(b) == IF b.state = "OPEN" /\ b.cooled THEN Closed ELSE b

AfterSuccess(b) == Closed

AfterFailureStaysClosed(b) ==           \* broken form of AfterFailure: never OPEN
    [b EXCEPT !.failures = @ + 1]

(* Failures are counted up to the threshold; a failure reported late       *)
(* restarts the cooldown.                                                  *)
AfterFailure(b) ==
    IF b.failures + 1 >= Threshold
    THEN [state |-> "OPEN", failures |-> Threshold, cooled |-> FALSE]
    ELSE [b EXCEPT !.failures = @ + 1]

-----------------------------------------------------------------------------
SessionStates ==
    [pc  : {"idle", "running", "encoding", "written"},
     req : Requests \cup {NoRequest},
     key : Keys \cup {NoKey}]

NotActive == [pc |-> "idle",    req |-> NoRequest, key |-> NoKey]
Running   == [pc |-> "running", req |-> NoRequest, key |-> NoKey]

Encoding(req, k) == [pc |-> "encoding", req |-> req, key |-> k]

Awaiting(s) == session[s].pc \in {"encoding", "written"}

IsLockRow(t, k) == t[k].payload \in Requests

LoopFree == thread = NoSession

(* The keys persistOffline() makes; the renderer's keys are random UUIDs.  *)
LockKeys == {LockKey[d] : d \in DOMAIN LockKey}

LockInit ==
    /\ breaker = [d \in Devices |-> Closed]
    /\ session = [s \in Sessions |-> NotActive]
    /\ thread = NoSession
    /\ loopOn = FALSE
    /\ written = {}
    /\ promised = {}

(* persistOffline(): the request joins the shared table under the key of   *)
(* its encoder and room, unless that key already has a row.                *)
PersistOffline(req) ==
    /\ table' = Insert(table, LockKey[req.device, req.room], req)
    /\ promised' = promised \cup {req}

(* encode() with the breaker open: queued at once, the wire untouched and  *)
(* the retry loop left as it is.                                           *)
FastFail(req) ==
    /\ LoopFree
    /\ req.device \in Registered
    /\ ~Allows(breaker[req.device])
    /\ PersistOffline(req)
    /\ UNCHANGED <<breaker, session, thread, loopOn, written>>

(* encode() up to its await.                                               *)
StartEncode(c, req) ==
    /\ LoopFree
    /\ session[c].pc = "idle"
    /\ req.device \in Registered
    /\ Allows(breaker[req.device])
    /\ breaker' = [breaker EXCEPT ![req.device] = AfterAllow(@)]
    /\ session' = [session EXCEPT ![c] = Encoding(req, NoKey)]
    /\ UNCHANGED <<table, thread, loopOn, written, promised>>

(* The encoder puts the request on a card; its OK is still on the wire.    *)
EncoderWrites(s) ==
    /\ session[s].pc = "encoding"
    /\ session' = [session EXCEPT ![s].pc = "written"]
    /\ written' = written \cup {session[s].req}
    /\ UNCHANGED <<table, breaker, thread, loopOn, promised>>

(* encode() after its await, on OK ...                                     *)
EncodeSucceeds(c) ==
    /\ LoopFree
    /\ session[c].pc = "written"
    /\ breaker' = [breaker EXCEPT ![session[c].req.device] = AfterSuccess(@)]
    /\ session' = [session EXCEPT ![c] = NotActive]
    /\ UNCHANGED <<table, thread, loopOn, written, promised>>

EncodeFailsUnwatched(c) ==              \* broken form of EncodeFails: no ensureRetryLoop
    /\ LoopFree
    /\ Awaiting(c)
    /\ breaker' = [breaker EXCEPT ![session[c].req.device] = AfterFailure(@)]
    /\ PersistOffline(session[c].req)
    /\ session' = [session EXCEPT ![c] = NotActive]
    /\ UNCHANGED <<thread, loopOn, written>>

(* ... and on a NACK, an error or 5 s without an answer.                   *)
EncodeFails(c) ==
    /\ LoopFree
    /\ Awaiting(c)
    /\ breaker' = [breaker EXCEPT ![session[c].req.device] = AfterFailure(@)]
    /\ PersistOffline(session[c].req)
    /\ loopOn' = TRUE
    /\ session' = [session EXCEPT ![c] = NotActive]
    /\ UNCHANGED <<thread, written>>

-----------------------------------------------------------------------------
(* The 10 s timer enters drainRetryQueue(); an earlier drain may still be  *)
(* waiting for its encoder.                                                *)
StartDrain(r) ==
    /\ LoopFree
    /\ loopOn
    /\ session[r].pc = "idle"
    /\ session' = [session EXCEPT ![r] = Running]
    /\ thread' = r
    /\ UNCHANGED <<table, breaker, loopOn, written, promised>>

(* One round of its loop.  Nothing claimable: the drain ends.              *)
DrainEnds(r) ==
    /\ thread = r
    /\ Candidates(table) = {}
    /\ session' = [session EXCEPT ![r] = NotActive]
    /\ thread' = NoSession
    /\ UNCHANGED <<table, breaker, loopOn, written, promised>>

(* The claimed row can be encoded now: it asks for an encode on a          *)
(* registered encoder whose breaker lets it pass.                          *)
Encodable(k) ==
    /\ IsLockRow(table, k)
    /\ table[k].payload.device \in Registered
    /\ Allows(breaker[table[k].payload.device])

(* Any other row is marked failed and the loop claims again.               *)
DrainRejects(r) ==
    /\ thread = r
    /\ \E k \in Keys : /\ IsNext(table, k)
                       /\ ~Encodable(k)
                       /\ table' = MarkFailed(Claim(table, k), k)
    /\ UNCHANGED lockVars

DrainEncodes(r) ==
    /\ thread = r
    /\ \E k \in Keys :
          /\ IsNext(table, k)
          /\ Encodable(k)
          /\ table' = Claim(table, k)
          /\ breaker' = [breaker EXCEPT ![table[k].payload.device] = AfterAllow(@)]
          /\ session' = [session EXCEPT ![r] = Encoding(table[k].payload, k)]
    /\ thread' = NoSession
    /\ UNCHANGED <<loopOn, written, promised>>

DrainBelieves(r) ==                     \* broken form of DrainSucceeds: any answer is OK
    /\ LoopFree
    /\ Awaiting(r)
    /\ breaker' = [breaker EXCEPT ![session[r].req.device] = AfterSuccess(@)]
    /\ table' = MarkComplete(table, session[r].key)
    /\ session' = [session EXCEPT ![r] = Running]
    /\ thread' = r
    /\ UNCHANGED <<loopOn, written, promised>>

(* The await of the drain returns; it settles its row and goes on claiming. *)
DrainSucceeds(r) ==
    /\ LoopFree
    /\ session[r].pc = "written"
    /\ breaker' = [breaker EXCEPT ![session[r].req.device] = AfterSuccess(@)]
    /\ table' = MarkComplete(table, session[r].key)
    /\ session' = [session EXCEPT ![r] = Running]
    /\ thread' = r
    /\ UNCHANGED <<loopOn, written, promised>>

DrainFails(r) ==
    /\ LoopFree
    /\ Awaiting(r)
    /\ breaker' = [breaker EXCEPT ![session[r].req.device] = AfterFailure(@)]
    /\ table' = MarkFailed(table, session[r].key)
    /\ session' = [session EXCEPT ![r] = Running]
    /\ thread' = r
    /\ UNCHANGED <<loopOn, written, promised>>

(* Date.now() - openedAt reaches cooldownMs.                               *)
Cooldown(d) ==
    /\ breaker[d].state = "OPEN"
    /\ ~breaker[d].cooled
    /\ breaker' = [breaker EXCEPT ![d].cooled = TRUE]
    /\ UNCHANGED <<table, session, thread, loopOn, written, promised>>

(* What a dead process leaves behind: a drain with the thread may die      *)
(* between claiming a row and settling it.                                 *)
CrashTables ==
    {table} \cup {Claim(table, k) : k \in {j \in Keys : ~LoopFree /\ IsNext(table, j)}}

(* What the bridge loses with the process: everything but its rows, and    *)
(* the cards.                                                              *)
ProcessLost ==
    /\ breaker' = [d \in Devices |-> Closed]
    /\ session' = [s \in Sessions |-> NotActive]
    /\ thread' = NoSession
    /\ loopOn' = FALSE
    /\ UNCHANGED <<written, promised>>

CallStep(c) == EncodeSucceeds(c) \/ EncodeFails(c)

DrainStep(r) == \/ DrainEnds(r) \/ DrainRejects(r) \/ DrainEncodes(r)
                \/ DrainSucceeds(r) \/ DrainFails(r)

SessionStep(s) == (s \in Calls /\ CallStep(s)) \/ (s \in Drains /\ DrainStep(s))

LockNext ==
    \/ \E req \in Requests : FastFail(req)
    \/ \E c \in Calls, req \in Requests : StartEncode(c, req)
    \/ \E c \in Calls : CallStep(c)
    \/ \E s \in Sessions : EncoderWrites(s)
    \/ \E r \in Drains : StartDrain(r) \/ DrainStep(r)
    \/ \E d \in Devices : Cooldown(d)

-----------------------------------------------------------------------------
(* The bridge with what surrounds it reduced to the rows it sees: other    *)
(* handlers insert rows of any kind, and the console is restarted, which   *)
(* requeues some of the rows left PROCESSING.                              *)
OtherEnqueue(k, payload) ==
    /\ LoopFree
    /\ k \notin LockKeys
    /\ table' = Insert(table, k, payload)
    /\ UNCHANGED lockVars

Restart ==
    /\ \E t \in CrashTables :
         \E stale \in SUBSET WithStatus(t, "PROCESSING") :
            table' = RequeueStaleProcessing(t, stale)
    /\ ProcessLost

BridgeInit == table = EmptyTable /\ LockInit

BridgeNext ==
    \/ LockNext
    \/ \E k \in Keys, payload \in Payloads : OtherEnqueue(k, payload)
    \/ Restart

BridgeVars == <<table, lockVars>>

BridgeSpec == BridgeInit /\ [][BridgeNext]_BridgeVars

(* The encode promise settles within 5 s, setInterval keeps firing, and    *)
(* the event loop runs every callback that is ready, although a drain that *)
(* has the thread holds it up again and again.                             *)
BridgeFairness ==
    /\ \A s \in Sessions : SF_BridgeVars(SessionStep(s))
    /\ SF_BridgeVars(\E r \in Drains : StartDrain(r))

FairBridgeSpec == BridgeSpec /\ BridgeFairness

-----------------------------------------------------------------------------
(* The state of every variable keeps the shape the code gives it.          *)
BridgeTypeOK ==
    /\ table \in Tables
    /\ breaker \in [Devices -> Breakers]
    /\ session \in [Sessions -> SessionStates]
    /\ thread \in Drains \cup {NoSession}
    /\ loopOn \in BOOLEAN
    /\ written \subseteq Requests
    /\ promised \subseteq Requests

(* Overlapping drains wait for the encoder with different rows, each of    *)
(* them PROCESSING; and the drain that has the thread is not waiting       *)
(* (lockBridge.ts:390, 397, 420).                                          *)
DrainsHoldTheirRows ==
    /\ \A r \in Drains : Awaiting(r) =>
          /\ session[r].key \in Keys
          /\ table[session[r].key].status = "PROCESSING"
          /\ table[session[r].key].payload = session[r].req
    /\ \A q, r \in Drains :
          Awaiting(q) /\ Awaiting(r) /\ q # r => session[q].key # session[r].key
    /\ \A r \in Drains : session[r].pc = "running" <=> thread = r

(* A fast-failed encode is queued without starting the retry loop          *)
(* (lockBridge.ts:321-329): that is right only because a breaker can open  *)
(* in no other way than by a failure that has started the loop (342).      *)
OpenBreakerHasRetryLoop ==
    \A d \in Devices : breaker[d].state = "OPEN" => loopOn

(* The bridge completes a row only after an encoder has put its request    *)
(* on a card; it never completes a row of another kind.                    *)
CompletedWasWritten ==
    \A k \in WithStatus(table, "COMPLETED") : table[k].payload \in written

(* A drain that took the thread gives it back: its loop of claims and      *)
(* failures cannot freeze the console.                                     *)
ThreadIsReleased == thread # NoSession ~> thread = NoSession

(* While the retry loop is on, a queued encode is written or given up; a   *)
(* restart turns the loop off.                                             *)
QueuedEncodeSettles ==
    \A k \in Keys :
       (loopOn /\ table[k].status = "PENDING") ~> (Terminal(table, k) \/ ~loopOn)
=============================================================================
