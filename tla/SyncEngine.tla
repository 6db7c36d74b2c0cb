----------------------------- MODULE SyncEngine -----------------------------
(***************************************************************************)
(* The background flusher of the offline queue                             *)
(* (apps/console/src/main/offline/sync.ts, class OfflineSyncEngine), the   *)
(* table it drains and the local broker it delivers to.                    *)
(*                                                                         *)
(* flush() is asynchronous and nothing stops two of them from running at   *)
(* once: the 30 s timer, every enqueue and the boot each start a pass.  A  *)
(* pass is suspended only at its two awaits, the health probe and the POST *)
(* of a packet, so an action here is what runs from one await to the next: *)
(* settling the row just answered AND claiming the following one is a      *)
(* single step.                                                            *)
(***************************************************************************)
EXTENDS OfflineStore

CONSTANTS
    Passes,         \* flush passes that may run at once (a bound of the model)
    FlushCeiling,   \* deliveries per pass, 500 in the code
    UnknownTypes,   \* payloads whose action maps to no event type (etimsInvoice)
    Burst,          \* packets the broker takes at once, 8 in the code
    MaxCrashes,     \* process deaths (a bound of the model)
    PromptRestart   \* may the console come back within the 30 s of staleness?

ASSUME SyncEngineAssumption ==
    /\ FlushCeiling \in Nat \ {0}
    /\ Burst \in Nat \ {0}
    /\ MaxCrashes \in Nat
    /\ PromptRestart \in BOOLEAN

VARIABLES
    table,      \* offline_actions, the only durable state
    up,         \* the console process is running
    crashes,    \* process deaths so far
    pass,       \* the flush passes
    late,       \* packets whose POST was given up but may still arrive
    online,     \* outcome of the last probe
    badge,      \* the SyncStatus last pushed to the renderer
    window, tokens, published, repeated     \* the broker

Broker == INSTANCE LocalBroker WITH PacketKeys <- Keys

brokerVars == <<window, tokens, published, repeated>>
passVars == <<pass, late>>
vars == <<table, up, crashes, pass, late, online, badge,
          window, tokens, published, repeated>>

-----------------------------------------------------------------------------
NoAnswer == 0

(* A pass: suspended in the probe, waiting for its POST, or with the answer *)
(* of its POST not yet delivered to it.                                    *)
PassStates ==
    [pc        : {"idle", "probing", "posting", "answered"},
     key       : Keys \cup {NoKey},
     delivered : 0..FlushCeiling,
     answer    : Broker!Answers \cup {NoAnswer}]

Idle    == [pc |-> "idle",    key |-> NoKey, delivered |-> 0, answer |-> NoAnswer]
Probing == [pc |-> "probing", key |-> NoKey, delivered |-> 0, answer |-> NoAnswer]

Posting(k, n) ==
    [pc |-> "posting", key |-> k, delivered |-> n, answer |-> NoAnswer]

Holding(p) == pass[p].pc \in {"posting", "answered"}

HttpAnything == {200, 201, 202, 204, 400, 429}     \* broken form of HttpOk

(* HTTP_OK: of the broker's answers, only 202 is in the set.               *)
HttpOk == {200, 201, 202, 204}

(* status(), the snapshot that emitChanged pushes.                         *)
Status(t, on) ==
    LET counts == CountByStatus(t)
    IN  [queued     |-> counts.pending + counts.processing,
         failed     |-> counts.failed,
         processing |-> counts.processing,
         online     |-> on,
         oldest     |-> OldestPending(t)]

NoBadge == [queued |-> 0, failed |-> 0, processing |-> 0,
            online |-> FALSE, oldest |-> {}]

-----------------------------------------------------------------------------
Init ==
    /\ table = EmptyTable
    /\ up = FALSE
    /\ crashes = 0
    /\ pass = [p \in Passes |-> Idle]
    /\ late = {}
    /\ online = FALSE
    /\ badge = NoBadge
    /\ Broker!BrokerInit

(* The head of the while loop, run on table t after n deliveries: the claim *)
(* comes first and the ceiling is looked at second, so the pass that stops *)
(* at the ceiling has claimed a row that it drops.                         *)
ClaimAndPost(p, t, n) ==
    /\ n < FlushCeiling
    /\ \E k \in Keys : /\ IsNext(t, k)
                       /\ table' = Claim(t, k)
                       /\ pass' = [pass EXCEPT ![p] = Posting(k, n)]

EndOfPass(p, t, n) ==
    /\ \/ /\ Candidates(t) = {}
          /\ table' = t
       \/ /\ n >= FlushCeiling
          /\ \E k \in Keys : IsNext(t, k) /\ table' = Claim(t, k)
    /\ pass' = [pass EXCEPT ![p] = Idle]

(* start(): requeue what was left PROCESSING long enough ago, then flush.  *)
Boot(p) ==
    /\ ~up
    /\ up' = TRUE
    /\ \E stale \in SUBSET WithStatus(table, "PROCESSING") :
          /\ PromptRestart \/ stale = WithStatus(table, "PROCESSING")
          /\ table' = RequeueStaleProcessing(table, stale)
    /\ pass' = [pass EXCEPT ![p] = Probing]
    /\ UNCHANGED <<crashes, late, online, badge>>
    /\ UNCHANGED brokerVars

(* enqueue(): the row is durable before the renderer hears of it.          *)
Enqueue(p, k, payload) ==
    /\ up
    /\ pass[p].pc = "idle"
    /\ table' = Insert(table, k, payload)
    /\ badge' = Status(table', online)
    /\ pass' = [pass EXCEPT ![p] = Probing]
    /\ UNCHANGED <<up, crashes, late, online>>
    /\ UNCHANGED brokerVars

(* The renderer asks for the status once, when it mounts (sync:status).    *)
ReadStatus ==
    /\ up
    /\ badge' = Status(table, online)
    /\ UNCHANGED <<table, up, crashes, pass, late, online>>
    /\ UNCHANGED brokerVars

(* The 30 s timer.                                                         *)
TimerFlush(p) ==
    /\ up
    /\ pass[p].pc = "idle"
    /\ pass' = [pass EXCEPT ![p] = Probing]
    /\ UNCHANGED <<table, up, crashes, late, online, badge>>
    /\ UNCHANGED brokerVars

(* The probe answers or times out, and the pass goes on whatever it said.  *)
ProbeReturns(p) ==
    /\ up
    /\ pass[p].pc = "probing"
    /\ online' \in BOOLEAN
    /\ badge' = IF online' # online THEN Status(table, online') ELSE badge
    /\ ClaimAndPost(p, table, 0) \/ EndOfPass(p, table, 0)
    /\ UNCHANGED <<up, crashes, late>>
    /\ UNCHANGED brokerVars

(* deliver() posts the payload of the row under an event type it looks up; *)
(* a payload is written once, so the packet always carries what the row    *)
(* holds.                                                                  *)
Content(k) == table[k].payload

(* The packet reaches the broker, in the event loop of the same process.   *)
BrokerAnswers(p) ==
    /\ up
    /\ pass[p].pc = "posting"
    /\ Broker!HandlePacket(pass[p].key, Content(pass[p].key))
    /\ pass' = [pass EXCEPT ![p].pc = "answered",
                            ![p].answer = Broker!StatusOf(pass[p].key, Content(pass[p].key))]
    /\ UNCHANGED <<table, up, crashes, late, online, badge>>

(* What the pass does with its row once deliver() has returned ok ...       *)
Settled(p, ok) ==
    IF ok THEN MarkComplete(table, pass[p].key) ELSE MarkFailed(table, pass[p].key)

ResumeSilently(p, ok) ==                \* broken form of Resume: no emitChanged
    LET t == Settled(p, ok)
        n == pass[p].delivered + 1
    IN  (ClaimAndPost(p, t, n) \/ EndOfPass(p, t, n)) /\ UNCHANGED badge

(* ... before it claims the next one, or ends and pushes the status.       *)
Resume(p, ok) ==
    LET t == Settled(p, ok)
        n == pass[p].delivered + 1
    IN  \/ /\ ClaimAndPost(p, t, n)
           /\ UNCHANGED badge
        \/ /\ EndOfPass(p, t, n)
           /\ badge' = Status(table', online)

(* deliver() returns with a status ...                                     *)
AnswerReturns(p) ==
    /\ up
    /\ pass[p].pc = "answered"
    /\ Resume(p, pass[p].answer \in HttpOk)
    /\ UNCHANGED <<up, crashes, late, online>>
    /\ UNCHANGED brokerVars

(* ... or is given up after 8 s, before the broker saw the packet (which   *)
(* may still be on the wire) or after it, when the answer is lost.         *)
PostTimesOut(p) ==
    /\ up
    /\ Holding(p)
    /\ late' = IF pass[p].pc = "posting" THEN late \cup {pass[p].key} ELSE late
    /\ Resume(p, FALSE)
    /\ UNCHANGED <<up, crashes, online>>
    /\ UNCHANGED brokerVars

(* A packet that was given up arrives after all, or never does.            *)
LatePacket(k) ==
    /\ up
    /\ k \in late
    /\ late' = late \ {k}
    /\ \/ Broker!HandlePacket(k, Content(k))
       \/ UNCHANGED brokerVars
    /\ UNCHANGED <<table, up, crashes, pass, online, badge>>

(* Time at the broker.                                                     *)
BrokerTime ==
    /\ up
    /\ Broker!Refill \/ \E k \in Keys : Broker!Forget(k)
    /\ UNCHANGED <<table, up, crashes, pass, late, online, badge>>

(* What a process that dies leaves on disk: the table as it is, or with    *)
(* one more row settled when it dies between two statements of Resume.     *)
CrashTables ==
    {table}
    \cup {Settled(p, FALSE) : p \in {q \in Passes : Holding(q)}}
    \cup {Settled(p, TRUE) : p \in {q \in Passes : /\ pass[q].pc = "answered"
                                                   /\ pass[q].answer \in HttpOk}}

(* The process dies (a quit is no different: before-quit waits for no      *)
(* pass) and takes everything but the table with it.                       *)
ProcessLost ==
    /\ up
    /\ up' = FALSE
    /\ crashes < MaxCrashes
    /\ crashes' = crashes + 1
    /\ pass' = [p \in Passes |-> Idle]
    /\ late' = {}
    /\ online' = FALSE
    /\ badge' = NoBadge
    /\ Broker!BrokerLost

Crash == ProcessLost /\ table' \in CrashTables

PassStep(p) == ProbeReturns(p) \/ BrokerAnswers(p) \/ AnswerReturns(p) \/ PostTimesOut(p)

(* What the event loop of a running console runs for the engine.           *)
Turn ==
    \/ \E p \in Passes : TimerFlush(p) \/ PassStep(p)
    \/ \E p \in Passes, k \in Keys, payload \in Payloads : Enqueue(p, k, payload)
    \/ \E k \in Keys : LatePacket(k)
    \/ ReadStatus

Next ==
    \/ Turn
    \/ BrokerTime
    \/ \E p \in Passes : Boot(p)
    \/ Crash

Spec == Init /\ [][Next]_vars

(* setInterval keeps firing, a fetch always returns (its AbortSignal fires *)
(* after 4 s or 8 s), and a console that went down is started again.       *)
Fairness ==
    /\ \A p \in Passes : WF_vars(PassStep(p))
    /\ WF_vars(\E p \in Passes : TimerFlush(p))
    /\ WF_vars(\E p \in Passes : Boot(p))

FairSpec == Spec /\ Fairness
-----------------------------------------------------------------------------
(* The state of every variable keeps the shape the code gives it.          *)
TypeOK ==
    /\ table \in Tables
    /\ up \in BOOLEAN
    /\ crashes \in 0..MaxCrashes
    /\ pass \in [Passes -> PassStates]
    /\ late \subseteq Keys
    /\ online \in BOOLEAN
    /\ badge \in [queued : Nat, failed : Nat, processing : Nat,
                  online : BOOLEAN, oldest : SUBSET Keys]
    /\ Broker!BrokerTypeOK

(* A row is in the hands of at most one pass, and is PROCESSING while it   *)
(* is: overlapping passes never send the same action side by side          *)
(* (store.ts:219-224, the claim is atomic).                                *)
ExclusiveClaim ==
    /\ \A p \in Passes : Holding(p) =>
          /\ pass[p].key \in Keys
          /\ table[pass[p].key].status = "PROCESSING"
    /\ \A p, q \in Passes :
          Holding(p) /\ Holding(q) /\ p # q => pass[p].key # pass[q].key

(* No action fails more often than MAX_RETRY_COUNT allows, whatever passes *)
(* overlap and wherever the process dies; one that may still be attempted  *)
(* has a retry left (store.ts:42, 225-235, 263-269).                       *)
RetryBudget == WithinBudget(table)

(* What the store reports COMPLETED has been published on the event bus,   *)
(* even when answers are lost, packets arrive late or the broker forgets.  *)
CompletedWasPublished == WithStatus(table, "COMPLETED") \subseteq published

(* When no pass is running, the badge last pushed to the renderer is the   *)
(* truth on disk (sync.ts:15-17).  While a pass runs it may be behind.     *)
BadgeTrueAtRest ==
    up /\ badge # NoBadge /\ (\A p \in Passes : pass[p].pc = "idle")
       => badge = Status(table, online)

(* The first attempts of the actions of one process life are made in the   *)
(* order in which they were enqueued (store.ts:231-233): no later action   *)
(* has been tried while an earlier one is still PENDING.                   *)
FirstAttemptsInOrder ==
    crashes = 0 =>
       \A j, k \in Present(table) :
          /\ table[j].status = "PENDING"
          /\ table[j].createdAt < table[k].createdAt
          => table[k].status = "PENDING"

(* Every PROCESSING row of a running console is in the hands of a pass, so *)
(* it will be settled: holds when restarts take longer than the 30 s of    *)
(* staleness and no pass reaches the ceiling (store.ts:220-223).           *)
NoStrandedClaim ==
    up => \A k \in WithStatus(table, "PROCESSING") :
             \E p \in Passes : Holding(p) /\ pass[p].key = k

(* A settled row is never touched again: no late answer, second pass or    *)
(* restart reopens or reverses it.                                         *)
TerminalIsFinal ==
    [][\A k \in Keys : Terminal(table, k) => table'[k] = table[k]]_vars

(* A retry of a packet that the broker has accepted already is safe        *)
(* (server.ts:30-31): the answer to it, that the packet was deduplicated,  *)
(* completes the action.                                                   *)
RetryIsSafe ==
    [][\A p \in Passes :
          AnswerReturns(p) /\ pass[p].answer = Broker!Deduplicated
             => table'[pass[p].key].status = "COMPLETED"]_vars

(* Every enqueued action is completed or visibly given up.                 *)
EveryActionSettles ==
    \A k \in Keys : table[k].status = "PENDING" ~> Terminal(table, k)

(* The queue seen as an outbox: a row is open until it is COMPLETED.       *)
StateIn(t) ==
    [k \in Keys |-> IF t[k].status = "ABSENT" THEN "none"
                    ELSE IF t[k].status = "COMPLETED" THEN "done" ELSE "open"]

AttemptsIn(t) ==
    [k \in Keys |-> IF t[k].status = "ABSENT" THEN 0 ELSE t[k].retryCount]

Outbox == INSTANCE DurableOutbox
             WITH Items <- Keys, MaxAttempts <- MaxRetryCount,
                  state <- StateIn(table), attempts <- AttemptsIn(table),
                  sent <- published, again <- repeated, known <- window

(* With its passes, claims, lost answers and crashes the engine does       *)
(* nothing that an outbox may not do: no row is lost, reopened, completed  *)
(* unpublished or attempted beyond its budget (store.ts:30-36), and it is  *)
(* published again only once the broker has forgotten it.  That is less    *)
(* than store.ts:219-222 and sync.ts:12-13 say: the process may die after  *)
(* the broker's 202, the boot requeues the row, and the window of the      *)
(* broker has died with the process, so the packet is published twice.     *)
ImplementsOutbox == Outbox!OutboxSpec
=============================================================================
