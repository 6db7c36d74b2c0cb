---------------------------- MODULE EventStream -----------------------------
(***************************************************************************)
(* GET /stream of apps/console/src/main/server.ts: the sockets of the      *)
(* broker's SSE clients and the bus they subscribe to.  An event is named  *)
(* by its place in log; what a socket has on its wire are such places.     *)
(***************************************************************************)
EXTENDS Integers, Sequences, SequencesExt, FiniteSetsExt

CONSTANTS
    Registered,     \* event names of the registry
    Orders,         \* what the events are about
    Sockets,        \* the connections alive at one time
    MaxEvents       \* bound: events published

ASSUME EventStreamAssumption == MaxEvents \in Nat

VARIABLES
    log,        \* history: the events published, in order
    sock        \* the connections, seen from the broker and from the network

streamVars == <<log, sock>>

Events == [name : Registered, order : Orders]

(* A response is "open", "destroyed" (its 'close' event has yet to come)   *)
(* or "ended"; client says that the other end still reads.                 *)
Free == [server |-> "free", wants |-> {}, client |-> FALSE, wire |-> <<>>]

StreamInit ==
    /\ log = <<>>
    /\ sock = [s \in Sockets |-> Free]

-----------------------------------------------------------------------------
(* The handlers of a connection are on the bus until its cleanup.          *)
Subscribed(s) == sock[s].server \in {"open", "destroyed"}

(* Broken: a new client is sent what has been published so far.            *)
AcceptWithReplay(s, requested) ==
    /\ sock[s] = Free
    /\ sock' = [sock EXCEPT ![s] =
                  [server |-> IF requested \subseteq Registered THEN "open" ELSE "ended",
                   wants  |-> requested \cap Registered,
                   client |-> TRUE,
                   wire   |-> [n \in DOMAIN log |-> n]]]

(* The request of a client reaches the handler: a filter with a name that  *)
(* the registry does not hold is answered by an error frame and the end of *)
(* the stream; an empty filter wants everything.                           *)
Accept(s, requested) ==
    /\ sock[s] = Free
    /\ sock' = [sock EXCEPT ![s] =
                  [server |-> IF requested \subseteq Registered THEN "open" ELSE "ended",
                   wants  |-> IF requested = {} THEN Registered ELSE requested \cap Registered,
                   client |-> TRUE,
                   wire   |-> <<>>]]

(* bus.publish: every open response whose filter has the name is written   *)
(* to; what is written to a client that is gone goes nowhere.              *)
Receives(s, name) == sock[s].server = "open" /\ sock[s].client /\ name \in sock[s].wants

Publish(name, order) ==
    /\ Len(log) < MaxEvents
    /\ log' = Append(log, [name |-> name, order |-> order])
    /\ sock' = [s \in Sockets |->
                  IF Receives(s, name) THEN [sock[s] EXCEPT !.wire = Append(@, Len(log'))]
                                       ELSE sock[s]]

(* res.destroy() and the death of the process drop what is still buffered; *)
(* a prefix may be with the client already.                                *)
Cut(s, server) ==
    \E kept \in Prefixes(sock[s].wire) :
       sock' = [sock EXCEPT ![s].server = server, ![s].wire = kept]

(* The ping of every 15 s: taken, it changes nothing ...                   *)
HeartbeatTaken(s) == sock[s].server = "open" /\ UNCHANGED streamVars

(* ... and not taken (res.write is false or throws), for a client that is  *)
(* slow or gone, it destroys the response.                                 *)
HeartbeatFails(s) ==
    /\ sock[s].server = "open"
    /\ sock[s].wire # <<>> \/ ~sock[s].client
    /\ Cut(s, "destroyed")
    /\ UNCHANGED log

(* Broken: the handlers of a client that closed stay on the bus.           *)
CleanupDestroyed(s) ==
    /\ sock[s].server = "destroyed"
    /\ sock' = [sock EXCEPT ![s].server = "ended"]
    /\ UNCHANGED log

(* The 'close' event of a response that was destroyed or whose client is   *)
(* gone: its handlers leave the bus.                                       *)
Cleanup(s) ==
    /\ \/ sock[s].server = "destroyed"
       \/ sock[s].server = "open" /\ ~sock[s].client
    /\ sock' = [sock EXCEPT ![s].server = "ended"]
    /\ UNCHANGED log

(* Both ends are done with the connection.                                 *)
Release(s) ==
    /\ sock[s].server = "ended" /\ ~sock[s].client
    /\ sock' = [sock EXCEPT ![s] = Free]
    /\ UNCHANGED log

(* The console dies and starts again: the bus and all connections are new. *)
ConsoleLost ==
    /\ \E kept \in [Sockets -> UNION {Prefixes(sock[s].wire) : s \in Sockets}] :
          /\ \A s \in Sockets : kept[s] \in Prefixes(sock[s].wire)
          /\ sock' = [s \in Sockets |->
                        IF sock[s] = Free THEN Free
                        ELSE [sock[s] EXCEPT !.server = "ended", !.wire = kept[s]]]
    /\ UNCHANGED log
=============================================================================
