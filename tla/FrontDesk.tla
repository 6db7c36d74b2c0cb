----------------------------- MODULE FrontDesk ------------------------------
(***************************************************************************)
(* The front desk page (apps/console/src/renderer/views/FrontDesk.tsx) and *)
(* the handler of its board, pms:board (main/pms.ts).                      *)
(*                                                                         *)
(* The board is put together from queries that share no transaction.  The  *)
(* page reads it whenever its room changes, and a reply that comes late    *)
(* still looks at the room it was asked for.  A check-in writes two rows   *)
(* to the offline queue and encodes a key, one call after the other.       *)
(***************************************************************************)
EXTENDS IpcHandlers, Bags

CONSTANTS
    CheckIns,   \* clicks of the check-in button
    Fallback,   \* the room numbers the page knows by itself
    Initial,    \* the first of them, selected at first
    FirstRoom,  \* the first room of every board
    Watched,    \* the guests whose place on the boards is followed
    MaxReads    \* bound: board reads under way at a time

ASSUME FrontDeskAssumption ==
    /\ Initial \in Fallback /\ FirstRoom \in Rooms
    /\ Watched \subseteq Buyers
    /\ MaxReads \in Nat \ {0}

VARIABLES
    selected,   \* the page's room
    deskBusy,   \* the check-in that has the button off, if any
    board,      \* the board every view shows: appStore.board
    reads,      \* the bag of board reads under way
    checkIn,    \* where each check-in is, and its room
    encoded     \* keys handed to the lock bridge: the check-in and the room

deskVars == <<selected, deskBusy, board, reads, checkIn, encoded>>

NoBoard == [shown |-> FALSE, inHouse |-> {}, arrivals |-> {}]
NoCheckIn == [pc |-> "new", room |-> None]

(* A read knows the room the page had when it was asked for, or None if    *)
(* that page is gone.                                                      *)
ReadFor(room) == SetToBag({[pc |-> "asked", room |-> room, board |-> NoBoard]})

DeskInit ==
    /\ selected = Initial
    /\ deskBusy = None
    /\ board = NoBoard
    /\ reads = EmptyBag
    /\ checkIn = [c \in CheckIns |-> NoCheckIn]
    /\ encoded = {}

-----------------------------------------------------------------------------
(* refreshBoard, sent.  It needs the property id of the configuration.     *)
AskForBoard(room, configured) ==
    /\ BagCardinality(reads) < MaxReads
    /\ reads' = IF configured THEN reads (+) ReadFor(room) ELSE reads

(* Another room is another refreshBoard, which the effect calls at once.   *)
SelectRoom(room, configured) ==
    /\ room \in IF board.shown THEN Rooms ELSE Fallback
    /\ room # selected
    /\ selected' = room
    /\ AskForBoard(room, configured)
    /\ UNCHANGED <<deskBusy, board, checkIn, encoded>>

RefreshBoard ==
    /\ AskForBoard(selected, TRUE)
    /\ UNCHANGED <<selected, deskBusy, board, checkIn, encoded>>

Staying == {b \in Watched : booking[b].status = "CHECKED_IN"}
Arriving == {b \in Watched : booking[b].status = "CONFIRMED"}

(* The database may fail a query; "Board unavailable" leaves the last one. *)
ReadGoesOn(r, after) ==
    /\ \E rest \in {SetToBag({after}), EmptyBag} : reads' = (reads (-) SetToBag({r})) (+) rest
    /\ UNCHANGED <<queue, selected, deskBusy, board, checkIn, encoded>>

ReadFails(r) ==
    /\ reads' = reads (-) SetToBag({r})
    /\ UNCHANGED <<queue, selected, deskBusy, board, checkIn, encoded>>

(* Broken: the arrivals are read first and the rooms afterwards.           *)
QueryRoomsLast(n, b) ==
    IF n = 1 THEN [b EXCEPT !.arrivals = Arriving]
             ELSE [b EXCEPT !.shown = TRUE, !.inHouse = Staying]

(* frontDeskBoard asks for the rooms, with whoever stays in them, and then *)
(* for today's arrivals.  Departures are in their rooms as well.           *)
Query(n, b) ==
    IF n = 1 THEN [b EXCEPT !.inHouse = Staying]
             ELSE [b EXCEPT !.shown = TRUE, !.arrivals = Arriving]

FirstQuery(r) ==
    /\ r.pc = "asked"
    /\ WithDb(ReadGoesOn(r, [r EXCEPT !.pc = "half", !.board = Query(1, @)]), ReadFails(r))

SecondQuery(r) ==
    /\ r.pc = "half"
    /\ ReadGoesOn(r, [r EXCEPT !.pc = "back", !.board = Query(2, @)])
    /\ UNCHANGED loader

(* The reply is published to every view.  If the room it was asked for is  *)
(* not on the board, the page takes the board's first room, whatever its   *)
(* room is by now; that is another room and another read.                  *)
BoardReturns(r) ==
    LET moves == r.room \notin Rooms \cup {None}
    IN  /\ r.pc = "back"
        /\ board' = r.board
        /\ selected' = IF moves THEN FirstRoom ELSE selected
        /\ reads' = (reads (-) SetToBag({r}))
                    (+) (IF selected' # selected THEN ReadFor(FirstRoom) ELSE EmptyBag)
        /\ UNCHANGED <<queue, loader, deskBusy, checkIn, encoded>>

-----------------------------------------------------------------------------
CheckInAt(c, pc) == checkIn' = [checkIn EXCEPT ![c].pc = pc]

CheckInRow(c) == [action |-> "checkin", by |-> c, room |-> checkIn[c].room]
KeyRow(c) == [action |-> "roomKeyGenerate", by |-> c, room |-> checkIn[c].room]
Key(c) == [by |-> c, room |-> checkIn[c].room]

(* checkIn: each step makes a call, and the main process handles it; the   *)
(* next step is taken when the answer is back.  An error ends it, and what *)
(* was queued before stays queued.                                         *)
ClickCheckIn(c) ==
    /\ deskBusy = None /\ checkIn[c] = NoCheckIn
    /\ deskBusy' = c
    /\ \E pc \in {"key", "refused"} :
          /\ checkIn' = [checkIn EXCEPT ![c] = [pc |-> pc, room |-> selected]]
          /\ Enqueue(pc = "key", [action |-> "checkin", by |-> c, room |-> selected])
    /\ UNCHANGED <<loader, selected, board, reads, encoded>>

EnqueueKey(c) ==
    /\ checkIn[c].pc = "key"
    /\ \E pc \in {"encode", "refused"} : CheckInAt(c, pc) /\ Enqueue(pc = "encode", KeyRow(c))
    /\ UNCHANGED <<loader, selected, deskBusy, board, reads, encoded>>

(* Broken: the key is for the room that is selected by now.                *)
EncodeKeySelected(c) ==
    /\ checkIn[c].pc = "encode"
    /\ encoded' = encoded \cup {[by |-> c, room |-> selected]}
    /\ \E pc \in {"encoded", "refused"} : CheckInAt(c, pc)
    /\ UNCHANGED <<loader, queue, selected, deskBusy, board, reads>>

(* lock:encode: the lock bridge writes the key, queues it or throws.       *)
EncodeKey(c) ==
    /\ checkIn[c].pc = "encode"
    /\ encoded' = encoded \cup {Key(c)}
    /\ \E pc \in {"encoded", "refused"} : CheckInAt(c, pc)
    /\ UNCHANGED <<loader, queue, selected, deskBusy, board, reads>>

(* The toast, "Check-in queued" or "Check-in failed", and the button.      *)
CheckInEnds(c) ==
    /\ \/ checkIn[c].pc = "encoded" /\ CheckInAt(c, "told")
       \/ checkIn[c].pc = "refused" /\ CheckInAt(c, "done")
    /\ deskBusy' = IF deskBusy = c THEN None ELSE deskBusy
    /\ UNCHANGED <<queue, loader, selected, board, reads, encoded>>

-----------------------------------------------------------------------------
(* The page is mounted anew: its state is the initial one, and it reads.   *)
(* What an earlier one asked for goes on and no longer sets its state.     *)
Orphans == LET Orphan(r) == [r EXCEPT !.room = None]
           IN  [s \in {Orphan(r) : r \in BagToSet(reads)} |->
                   BagCardinality([r \in {q \in BagToSet(reads) : Orphan(q) = s} |-> reads[r]])]

LeaveDesk ==
    /\ reads' = Orphans
    /\ deskBusy' = None
    /\ selected' = Initial
    /\ UNCHANGED <<board, checkIn, encoded>>

EnterDesk(configured) ==
    /\ AskForBoard(Initial, configured)
    /\ UNCHANGED <<selected, deskBusy, board, checkIn, encoded>>

(* The window is reloaded: whatever awaits an answer in it is gone.        *)
ReloadDesk ==
    /\ selected' = Initial
    /\ deskBusy' = None
    /\ board' = NoBoard
    /\ reads' = EmptyBag
    /\ checkIn' = [c \in CheckIns |-> IF checkIn[c].pc \in {"new", "told"} THEN checkIn[c]
                                      ELSE [checkIn[c] EXCEPT !.pc = "done"]]
    /\ UNCHANGED encoded

DeskStep ==
    \/ \E r \in BagToSet(reads) : FirstQuery(r) \/ SecondQuery(r) \/ BoardReturns(r)
    \/ \E c \in CheckIns : EnqueueKey(c) \/ EncodeKey(c) \/ CheckInEnds(c)

-----------------------------------------------------------------------------
(* A key is made for the room of its check-in, which was queued before it, *)
(* although the board moves the page to another room in between, views are *)
(* switched and each of the three calls may fail (FrontDesk.tsx:82).       *)
KeyFollowsCheckIn ==
    /\ \A n \in DOMAIN queue :
          queue[n].action = "roomKeyGenerate" =>
             \E m \in 1..(n - 1) : queue[m] = [queue[n] EXCEPT !.action = "checkin"]
    /\ \A k \in encoded :
          \E m \in DOMAIN queue : queue[m] = [action |-> "roomKeyGenerate",
                                              by |-> k.by, room |-> k.room]

(* The board's queries share no transaction (pms.ts:158), yet nobody is on *)
(* it both as an arrival and in a room: a guest moves from the one to the  *)
(* other, and the rooms are read first.  The price of that order, which    *)
(* the model has too, is that a guest who moves between the queries is on  *)
(* neither list of this board.                                             *)
NobodyShownTwice == board.inHouse \cap board.arrivals = {}

(* "Check-in queued" is true: both rows are in the queue, the key went to  *)
(* the bridge.                                                             *)
CheckInsToldAreKept ==
    \A c \in CheckIns : checkIn[c].pc = "told" =>
       Queued(CheckInRow(c)) /\ Queued(KeyRow(c)) /\ Key(c) \in encoded
=============================================================================
