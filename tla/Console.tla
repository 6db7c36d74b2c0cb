------------------------------ MODULE Console -------------------------------
(***************************************************************************)
(* The console's main process (apps/console/src/main/index.ts): the sync   *)
(* engine and the lock bridge over one offline_actions table, in one event *)
(* loop.  A handler of either runs alone; only a drain of the bridge keeps *)
(* the thread over several steps.  The process dies as a whole and boots   *)
(* with the sync engine first.                                             *)
(***************************************************************************)
EXTENDS OfflineStore

CONSTANTS
    Passes, FlushCeiling, UnknownTypes, Burst, MaxCrashes, PromptRestart,
    Devices, Registered, Calls, Drains, NoSession, NoRequest, Requests,
    LockKey, Threshold

ASSUME ConsoleAssumption ==
    /\ FlushCeiling \in Nat \ {0}
    /\ Calls \cap Drains = {} /\ Passes \cap (Calls \cup Drains) = {}
    /\ NoSession \notin Passes \cup Calls \cup Drains
    /\ Requests \subseteq Payloads

ASSUME LockKeyAssumption ==
    \A req \in Requests :
       req.device \in Registered => LockKey[req.device, req.room] \in Keys

VARIABLES
    table, up, crashes,
    pass, late, online, badge, window, tokens, published, repeated,
    breaker, session, thread, loopOn, written, promised

syncVars == <<pass, late, online, badge, window, tokens, published, repeated>>
lockVars == <<breaker, session, thread, loopOn, written, promised>>
vars == <<table, up, crashes, syncVars, lockVars>>

Sync  == INSTANCE SyncEngine
Locks == INSTANCE LockBridge

-----------------------------------------------------------------------------
Init == Sync!Init /\ Locks!LockInit

(* The engine's handlers wait for the thread like everybody else, and what *)
(* is enqueued through them never has a key of the bridge.                 *)
SyncTurn ==
    /\ Locks!LoopFree
    /\ Sync!Turn
    /\ Present(table') \cap Locks!LockKeys \subseteq Present(table)
    /\ UNCHANGED lockVars

LockTurn ==
    /\ up
    /\ Locks!LockNext
    /\ UNCHANGED <<up, crashes, syncVars>>

Time ==
    /\ Sync!BrokerTime
    /\ UNCHANGED lockVars

(* app.whenReady: the engine requeues and flushes, then the bridge is      *)
(* built, with its breakers closed and its retry loop not running.         *)
Boot ==
    /\ \E p \in Passes : Sync!Boot(p)
    /\ UNCHANGED lockVars

Crash ==
    /\ Sync!ProcessLost
    /\ Locks!ProcessLost
    /\ table' \in IF Locks!LoopFree THEN Sync!CrashTables ELSE Locks!CrashTables

Next == SyncTurn \/ LockTurn \/ Time \/ Boot \/ Crash

Spec == Init /\ [][Next]_vars

-----------------------------------------------------------------------------
(* The rows in somebody's hands, by holder.                                *)
HeldBy(h) == IF h \in Passes THEN pass[h].key ELSE session[h].key

Holders == {p \in Passes : Sync!Holding(p)} \cup {r \in Drains : Locks!Awaiting(r)}

(* Passes and drains claim out of one table and still never hold the same  *)
(* row (index.ts:210-220, store.ts:219-224).                               *)
OneHolder ==
    /\ \A h \in Holders : table[HeldBy(h)].status = "PROCESSING"
    /\ \A g, h \in Holders : g # h => HeldBy(g) # HeldBy(h)

(* The budget of a row holds for the two consumers together.               *)
SharedRetryBudget == WithinBudget(table)

(* A row is completed by the consumer that did what it asks: it was        *)
(* published, or its request is on a card.                                 *)
CompletedWasDone ==
    \A k \in WithStatus(table, "COMPLETED") :
       k \in published \/ table[k].payload \in written

(* No step of either consumer touches a settled row.                       *)
SettledIsFinal ==
    [][\A k \in Keys : Terminal(table, k) => table'[k] = table[k]]_vars

(* The table as the queue both consumers share.                            *)
Queue == INSTANCE SharedQueue
            WITH Items <- Keys, Tasks <- Payloads, NoTask <- NoPayload,
                 MaxAttempts <- MaxRetryCount,
                 state <- Sync!StateIn(table), attempts <- Sync!AttemptsIn(table),
                 task <- [k \in Keys |-> table[k].payload]

(* Whatever passes, drains, live encodes, crashes and boots do to the one  *)
(* table, it is a step the shared queue may take: no row is lost, changes  *)
(* what it asks for, gets an attempt back or is done undone, and no step   *)
(* settles two (store.ts:30-36, 191-280, lockBridge.ts:387-433).           *)
ImplementsQueue == Queue!QueueSpec

(* A key card that encode() answered queued_offline is in the queue or on  *)
(* a card (lockBridge.ts:25-26): its row is not completed without a card.  *)
KeyCardGuaranteed ==
    \A req \in promised :
       table[LockKey[req.device, req.room]].status = "COMPLETED" => req \in written
=============================================================================
