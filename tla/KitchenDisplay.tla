-------------------------- MODULE KitchenDisplay ----------------------------
(***************************************************************************)
(* The kitchen display, apps/kds/app/page.tsx, reading the event stream of *)
(* the console: one loop of connect(), the frames it is sent and the board *)
(* it makes of them.                                                       *)
(***************************************************************************)
EXTENDS EventStream

CONSTANTS
    SUBSCRIBED,     \* the event names the page asks for
    MaxFaults,      \* bound: lost connections, restarts and reloads
    None            \* no socket, no card

Columns == {"pending", "preparing", "ready"}

(* The events that handleFrame knows: SUBSCRIBED is a literal list of them. *)
HandledNames == {"order.placed", "order.confirmed", "order.preparing", "order.ready",
                 "order.cancelled", "order.completed"}

ASSUME KitchenDisplayAssumption ==
    /\ MaxFaults \in Nat
    /\ None \notin Sockets \cup Columns
    /\ SUBSCRIBED # {} /\ SUBSCRIBED \subseteq HandledNames

VARIABLES
    page,       \* where connect() is: its fetch, its read loop, its timer
    psock,      \* the connection of the fetch or the loop
    connected,  \* what the page shows: Live or not
    board,      \* the column of each order's card
    seen,       \* history: the events of the frames handled since the load
    faults      \* counts the faults

pageVars == <<page, psock, connected, board, seen>>
vars == <<streamVars, pageVars, faults>>

NoCards == [o \in Orders |-> None]

-----------------------------------------------------------------------------
(* Broken: an order that is placed again keeps its column.                 *)
HandleFrameOnce(cards, e) ==
    CASE e.name = "order.placed"    -> [cards EXCEPT ![e.order] = IF @ = None THEN "pending" ELSE @]
      [] e.name = "order.preparing" -> [cards EXCEPT ![e.order] = IF @ = None THEN @ ELSE "preparing"]
      [] e.name = "order.completed" -> [cards EXCEPT ![e.order] = None]
      [] OTHER                      -> cards

(* handleFrame: a placed order gets a card, whether it has one or not; a   *)
(* card that is there is moved or removed; other frames are ignored.       *)
Moved(cards, o, column) == [cards EXCEPT ![o] = IF @ = None THEN None ELSE column]

HandleFrame(cards, e) ==
    CASE e.name = "order.placed"    -> [cards EXCEPT ![e.order] = "pending"]
      [] e.name = "order.confirmed" -> Moved(cards, e.order, "pending")
      [] e.name = "order.preparing" -> Moved(cards, e.order, "preparing")
      [] e.name = "order.ready"     -> Moved(cards, e.order, "ready")
      [] e.name \in {"order.cancelled", "order.completed"} -> [cards EXCEPT ![e.order] = None]
      [] OTHER                      -> cards

Init ==
    /\ StreamInit
    /\ page = "fetching" /\ psock = None
    /\ connected = FALSE
    /\ board = NoCards
    /\ seen = {}
    /\ faults = 0

Fault == faults < MaxFaults /\ faults' = faults + 1

(* The page lets go of its connection, if it has one.                      *)
HangUp == sock' = [s \in Sockets |-> IF s = psock THEN [sock[s] EXCEPT !.client = FALSE, !.wire = <<>>]
                                                  ELSE sock[s]]

(* The connection is over: back to the 3 s timer.                          *)
TryLater ==
    /\ page' = "retry" /\ psock' = None
    /\ connected' = FALSE
    /\ HangUp
    /\ UNCHANGED <<log, board, seen>>

-----------------------------------------------------------------------------
FetchArrives(s) ==
    /\ page = "fetching" /\ psock = None
    /\ Accept(s, SUBSCRIBED)
    /\ psock' = s
    /\ UNCHANGED <<log, page, connected, board, seen, faults>>

(* The headers are flushed before the filter is looked at, so the page     *)
(* shows Live whatever the answer.                                         *)
HeadersReturn ==
    /\ page = "fetching" /\ psock # None
    /\ page' = "reading"
    /\ connected' = TRUE
    /\ UNCHANGED <<streamVars, psock, board, seen, faults>>

(* reader.read: the next whole frame of the buffer is handled.             *)
ReadFrame ==
    /\ page = "reading"
    /\ sock[psock].wire # <<>>
    /\ LET n == Head(sock[psock].wire)
       IN  /\ board' = HandleFrame(board, log[n])
           /\ seen' = seen \cup {n}
    /\ sock' = [sock EXCEPT ![psock].wire = Tail(@)]
    /\ UNCHANGED <<log, page, psock, connected, faults>>

(* Broken: the end of the stream does not set the timer.                   *)
StreamEndsForGood ==
    /\ page = "reading"
    /\ sock[psock].server # "open" /\ sock[psock].wire = <<>>
    /\ connected' = FALSE
    /\ HangUp
    /\ UNCHANGED <<log, page, psock, board, seen, faults>>

(* The stream has ended and is read to its end, or a reset of it.          *)
StreamEnds ==
    /\ page = "reading"
    /\ sock[psock].server # "open" /\ sock[psock].wire = <<>>
    /\ TryLater
    /\ UNCHANGED faults

(* The fetch is refused, is answered 401 or breaks before its headers, or  *)
(* the connection breaks while it is read.                                 *)
ConnectionBreaks ==
    /\ page \in {"fetching", "reading"}
    /\ TryLater
    /\ Fault

RetryTimer ==
    /\ page = "retry"
    /\ page' = "fetching"
    /\ UNCHANGED <<streamVars, psock, connected, board, seen, faults>>

(* The page is loaded anew, with an empty board.                           *)
Reload ==
    /\ page' = "fetching" /\ psock' = None
    /\ connected' = FALSE
    /\ board' = NoCards
    /\ seen' = {}
    /\ HangUp
    /\ Fault
    /\ UNCHANGED log

Stream ==
    /\ \/ \E name \in Registered, o \in Orders : Publish(name, o)
       \/ \E s \in Sockets : HeartbeatTaken(s) \/ HeartbeatFails(s) \/ Cleanup(s) \/ Release(s)
    /\ UNCHANGED <<pageVars, faults>>

ConsoleRestarts == ConsoleLost /\ Fault /\ UNCHANGED pageVars

Next ==
    \/ \E s \in Sockets : FetchArrives(s)
    \/ HeadersReturn
    \/ ReadFrame
    \/ StreamEnds
    \/ ConnectionBreaks
    \/ RetryTimer
    \/ Reload
    \/ Stream
    \/ ConsoleRestarts

(* The page's timer and its reads go on, requests arrive, and Node reports *)
(* a connection that is over.                                              *)
Fairness ==
    /\ WF_vars(\E s \in Sockets : FetchArrives(s))
    /\ WF_vars(HeadersReturn)
    /\ WF_vars(ReadFrame)
    /\ WF_vars(StreamEnds)
    /\ WF_vars(RetryTimer)
    /\ \A s \in Sockets : /\ WF_vars(Cleanup(s) /\ UNCHANGED <<pageVars, faults>>)
                          /\ WF_vars(Release(s) /\ UNCHANGED <<pageVars, faults>>)

Spec == Init /\ [][Next]_vars /\ Fairness

-----------------------------------------------------------------------------
(* A card is where the events have put it, unless the page has missed one  *)
(* of those that count: an order's events since it was last placed.  Any   *)
(* drop, restart or slow read may lose frames, and nothing else may        *)
(* (server.ts:240-266, page.tsx:68-79, 135-175).                           *)
Concerns(o) ==
    {n \in DOMAIN log :
        /\ log[n].order = o /\ log[n].name \in SUBSCRIBED
        /\ \A m \in DOMAIN log : m > n /\ log[m].order = o => log[m].name # "order.placed"}

ColumnFor(name) == CASE name = "order.preparing" -> "preparing"
                     [] name = "order.ready"     -> "ready"
                     [] OTHER                    -> "pending"

TrueColumn(o) ==
    LET names == {log[n].name : n \in Concerns(o)}
    IN  IF "order.placed" \notin names \/ names \cap {"order.cancelled", "order.completed"} # {}
        THEN None
        ELSE ColumnFor(log[Max(Concerns(o))].name)

CompleteBoardIsTrue ==
    \A o \in Orders : Concerns(o) \subseteq seen => board[o] = TrueColumn(o)

(* However often the page reconnects, frames are handled in the order the  *)
(* events were published, and none twice.                                  *)
FramesMoveForward ==
    [][\A n \in seen' \ seen : \A m \in seen : m < n]_vars

(* The page always comes back to a stream it is subscribed to, which the   *)
(* registry is there to ensure: "a mistyped event type can never silently  *)
(* break real-time streams" (registry.ts:3-7).                             *)
Listening == page = "reading" /\ sock[psock].server = "open"

StreamIsRestored == []<>Listening

(* The handlers of a client that is gone leave the bus                     *)
(* (server.ts:298-301, 314-324).                                           *)
GoneClientsLeaveTheBus ==
    \A s \in Sockets : Subscribed(s) /\ ~sock[s].client ~> ~Subscribed(s)
=============================================================================
