---------------------------- MODULE IpcHandlers -----------------------------
(***************************************************************************)
(* What the handlers of the console's main process share: the database     *)
(* loader (apps/console/src/main/db.ts) and the offline queue they write   *)
(* to (sync:enqueue).  A handler never throws: wrapIpc turns what goes     *)
(* wrong into an answer with success = false.                              *)
(*                                                                         *)
(* The queue is only appended to here; OfflineStore and SyncEngine model   *)
(* what becomes of its rows.  The renderer draws a fresh idempotency key   *)
(* for every row, so no two calls share one.                               *)
(***************************************************************************)
EXTENDS RoomInventory, Sequences

VARIABLES
    loader,     \* how far the loading of the database client has come
    queue       \* the rows of the offline queue, oldest first

ipcVars == <<loader, queue>>

(* "bare" is a console without DATABASE_URL or without the query engine    *)
(* that has not tried yet; getDb remembers for good how it ended.          *)
IpcInit ==
    /\ loader \in {"fresh", "bare"}
    /\ queue = <<>>

(* isDbAvailable: nothing has failed yet.                                  *)
IsDbAvailable == loader # "failed"

Loaded == IF loader \in {"fresh", "ready"} THEN "ready" ELSE "failed"

(* A handler that needs the database: DATABASE_UNAVAILABLE without it.     *)
WithDb(query, unavailable) ==
    /\ loader' = Loaded
    /\ IF Loaded = "ready" THEN query ELSE unavailable

(* sync:enqueue takes the row or, if SQLite fails, answers with an error.  *)
Enqueue(taken, row) == queue' = IF taken THEN Append(queue, row) ELSE queue

Queued(row) == \E n \in DOMAIN queue : queue[n] = row
=============================================================================
