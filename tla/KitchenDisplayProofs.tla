------------------------ MODULE KitchenDisplayProofs ------------------------
(***************************************************************************)
(* What holds of the kitchen display for any orders, sockets, registry and *)
(* numbers of events and faults: frames are handled in the order of their  *)
(* events and none twice, and a card whose events were all seen is where   *)
(* they have put it.                                                       *)
(***************************************************************************)
EXTENDS KitchenDisplay, TLAPS

Connections ==
    [server : {"free", "open", "destroyed", "ended"},
     wants  : SUBSET Registered,
     client : BOOLEAN,
     wire   : Seq(Nat)]

KitchenTypes ==
    /\ log \in Seq(Events)
    /\ sock \in [Sockets -> Connections]
    /\ psock \in Sockets \cup {None}
    /\ page = "reading" => psock \in Sockets
    /\ board \in [Orders -> Columns \cup {None}]
    /\ seen \subseteq DOMAIN log

(* On a wire are events the page asked for, in the order of the log l.     *)
GoodWire(l, w) ==
    /\ w \in Seq(Nat)
    /\ \A k \in DOMAIN w : w[k] \in DOMAIN l /\ l[w[k]].name \in SUBSCRIBED
    /\ \A j, k \in DOMAIN w : j < k => w[j] < w[k]

GoodSockets ==
    \A s \in Sockets : sock[s].wants \subseteq SUBSCRIBED /\ GoodWire(log, sock[s].wire)

(* What the page has handled is behind what is on its wire.                *)
SeenIsBehind ==
    /\ \A n \in seen : log[n].name \in SUBSCRIBED
    /\ psock \in Sockets =>
          \A n \in seen, k \in DOMAIN sock[psock].wire : n < sock[psock].wire[k]

Places(l, n, o) == l[n].order = o /\ l[n].name = "order.placed"

(* An order that was ever placed was placed a last time.                   *)
LastPlacement ==
    \A o \in Orders : (\E n \in DOMAIN log : Places(log, n, o)) =>
       \E p \in DOMAIN log : /\ Places(log, p, o)
                             /\ \A m \in DOMAIN log : m > p => ~Places(log, m, o)

(* A card is there if the last placement seen is open, in the column of    *)
(* the last event seen.                                                    *)
Own(o) == {n \in seen : log[n].order = o}
Ends(n) == log[n].name \in {"order.cancelled", "order.completed"}

CardIsEarned(o) ==
    \E p, l \in Own(o) :
       /\ log[p].name = "order.placed" /\ p <= l
       /\ \A n \in Own(o) : n <= l /\ (n > p => ~Ends(n) /\ log[n].name # "order.placed")
       /\ board[o] = ColumnFor(log[l].name)

NoCardIsDue(o) ==
    \A p \in Own(o) : log[p].name = "order.placed" => \E n \in Own(o) : n > p /\ Ends(n)

BoardFollowsFrames ==
    \A o \in Orders : IF board[o] # None THEN CardIsEarned(o) ELSE NoCardIsDue(o)

KitchenInv ==
    KitchenTypes /\ GoodSockets /\ SeenIsBehind /\ LastPlacement /\ BoardFollowsFrames

-----------------------------------------------------------------------------
(* Wires: nothing, a prefix, the rest, one event more, a longer log.       *)
LEMMA EmptyWire == ASSUME NEW l PROVE GoodWire(l, <<>>)
    BY DEF GoodWire

LEMMA PrefixWire ==
    ASSUME NEW l, NEW w, GoodWire(l, w), NEW p \in Prefixes(w)
    PROVE  GoodWire(l, p) /\ \A k \in DOMAIN p : k \in DOMAIN w /\ p[k] = w[k]
<1>1. w \in Seq(Nat) /\ Len(w) \in Nat /\ DOMAIN w = 1..Len(w)
      BY DEF GoodWire
<1>2. PICK n \in 0..Len(w) : p = SubSeq(w, 1, n)
      BY DEF Prefixes
<1>3. n \in Nat /\ n <= Len(w)
      BY <1>1
<1>4. p \in Seq(Nat) /\ DOMAIN p = 1..n /\ \A k \in 1..n : p[k] = w[k]
      BY <1>1, <1>2, <1>3
<1>5. DOMAIN p \subseteq DOMAIN w /\ \A k \in DOMAIN p : p[k] = w[k]
      BY <1>1, <1>3, <1>4
<1> QED
    BY <1>4, <1>5 DEF GoodWire

LEMMA RestOfWire ==
    ASSUME NEW l, NEW w, GoodWire(l, w), w # <<>>
    PROVE  /\ Head(w) \in DOMAIN l /\ l[Head(w)].name \in SUBSCRIBED
           /\ GoodWire(l, Tail(w))
           /\ 1 \in DOMAIN w /\ Head(w) = w[1]
           /\ \A k \in DOMAIN Tail(w) : Head(w) < Tail(w)[k]
           /\ \A k \in DOMAIN Tail(w) : \E j \in DOMAIN w : Tail(w)[k] = w[j]
<1>1. /\ w \in Seq(Nat) /\ Len(w) \in Nat /\ Len(w) > 0 /\ DOMAIN w = 1..Len(w)
      /\ Tail(w) \in Seq(Nat) /\ DOMAIN Tail(w) = 1..(Len(w) - 1)
      /\ \A k \in 1..(Len(w) - 1) : Tail(w)[k] = w[k + 1]
      /\ Head(w) = w[1]
      BY DEF GoodWire
<1>2. \A k \in DOMAIN Tail(w) : k \in Nat /\ k + 1 \in DOMAIN w /\ 1 < k + 1 /\ Tail(w)[k] = w[k + 1]
      BY <1>1
<1>3. 1 \in DOMAIN w
      BY <1>1
<1>4. \A j, k \in DOMAIN Tail(w) : j < k => Tail(w)[j] < Tail(w)[k]
  <2> SUFFICES ASSUME NEW j \in DOMAIN Tail(w), NEW k \in DOMAIN Tail(w), j < k
               PROVE  Tail(w)[j] < Tail(w)[k]
      OBVIOUS
  <2>1. j + 1 < k + 1
        BY <1>2
  <2> QED
      BY <1>2, <2>1 DEF GoodWire
<1> QED
    BY <1>1, <1>2, <1>3, <1>4 DEF GoodWire

LEMMA LogGrows ==
    ASSUME NEW l \in Seq(Events), NEW e \in Events
    PROVE  LET m == Append(l, e)
           IN  /\ m \in Seq(Events)
               /\ Len(l) \in Nat /\ Len(m) = Len(l) + 1
               /\ DOMAIN l = 1..Len(l) /\ DOMAIN m = 1..(Len(l) + 1)
               /\ DOMAIN m = DOMAIN l \cup {Len(m)}
               /\ \A n \in DOMAIN l : n \in Nat /\ n < Len(m) /\ ~(n > Len(m)) /\ m[n] = l[n]
               /\ m[Len(m)] = e
    OBVIOUS

LEMMA WireOfLongerLog ==
    ASSUME NEW l \in Seq(Events), NEW e \in Events, NEW w, GoodWire(l, w)
    PROVE  GoodWire(Append(l, e), w)
<1>1. \A n \in DOMAIN l : n \in DOMAIN Append(l, e) /\ Append(l, e)[n] = l[n]
      BY LogGrows
<1> QED
    BY <1>1 DEF GoodWire

LEMMA WireTakesEvent ==
    ASSUME NEW l \in Seq(Events), NEW e \in Events, NEW w, GoodWire(l, w), e.name \in SUBSCRIBED
    PROVE  LET v == Append(w, Len(Append(l, e)))
           IN  /\ GoodWire(Append(l, e), v)
               /\ \A k \in DOMAIN v : v[k] = Len(Append(l, e)) \/ (k \in DOMAIN w /\ v[k] = w[k])
<1>1. PICK m : m = Append(l, e)
      OBVIOUS
<1>2. /\ m \in Seq(Events) /\ Len(m) \in Nat /\ Len(m) \in DOMAIN m
      /\ \A n \in DOMAIN l : n \in Nat /\ n < Len(m) /\ n \in DOMAIN m /\ m[n] = l[n]
      /\ m[Len(m)] = e
      BY <1>1, LogGrows
<1>3. PICK v : v = Append(w, Len(m))
      OBVIOUS
<1>4. PICK last : last = Len(w) + 1
      OBVIOUS
<1>5. /\ v \in Seq(Nat) /\ DOMAIN v = DOMAIN w \cup {last}
      /\ \A k \in DOMAIN w : k < last /\ ~(last < k) /\ v[k] = w[k]
      /\ v[last] = Len(m)
      BY <1>2, <1>3, <1>4 DEF GoodWire
<1>6. \A k \in DOMAIN v : v[k] \in DOMAIN m /\ m[v[k]].name \in SUBSCRIBED
      BY <1>2, <1>5 DEF GoodWire
<1>7. ~(last < last)
      BY <1>4 DEF GoodWire
<1>8. \A j, k \in DOMAIN v : j < k => v[j] < v[k]
      BY <1>2, <1>5, <1>7 DEF GoodWire
<1> QED
    BY <1>1, <1>3, <1>5, <1>6, <1>8 DEF GoodWire

-----------------------------------------------------------------------------
(* A step that publishes nothing and shows nothing: wires get shorter.     *)
Shortens(w, v) == \A k \in DOMAIN w : k \in DOMAIN v /\ w[k] = v[k]

Quiet ==
    /\ UNCHANGED <<log, board, seen>>
    /\ sock' \in [Sockets -> Connections]
    /\ psock' \in Sockets \cup {None} /\ (page' = "reading" => psock' \in Sockets)
    /\ \A s \in Sockets : sock'[s].wants \subseteq SUBSCRIBED /\ GoodWire(log, sock'[s].wire)
    /\ psock' \in Sockets => \/ sock'[psock'].wire = <<>>
                             \/ psock' = psock /\ Shortens(sock'[psock].wire, sock[psock].wire)

LEMMA QuietKeepsKitchenInv ==
    ASSUME KitchenInv, Quiet PROVE KitchenInv'
<1>0. KitchenTypes /\ GoodSockets /\ SeenIsBehind /\ LastPlacement /\ BoardFollowsFrames
      BY DEF KitchenInv
<1>1. KitchenTypes'
      BY <1>0 DEF Quiet, KitchenTypes
<1>2. GoodSockets'
  <2>1. \A s \in Sockets : sock'[s].wants \subseteq SUBSCRIBED /\ GoodWire(log', sock'[s].wire)
        BY DEF Quiet
  <2> QED
      BY <2>1 DEF GoodSockets, GoodWire
<1>3. SeenIsBehind'
  <2>1. \A n \in seen' : log'[n].name \in SUBSCRIBED
        BY <1>0 DEF SeenIsBehind, Quiet
  <2>2. ASSUME psock' \in Sockets, NEW n \in seen', NEW k \in DOMAIN sock'[psock'].wire
        PROVE  n < sock'[psock'].wire[k]
    <3>1. CASE sock'[psock'].wire = <<>>
          BY <2>2, <3>1
    <3>2. CASE psock' = psock /\ Shortens(sock'[psock].wire, sock[psock].wire)
          BY <1>0, <2>2, <3>2 DEF Shortens, SeenIsBehind, Quiet
    <3> QED
        BY <2>2, <3>1, <3>2 DEF Quiet
  <2> QED
      BY <2>1, <2>2 DEF SeenIsBehind
<1>4. LastPlacement'
      BY <1>0 DEF Quiet, LastPlacement, Places
<1>5. BoardFollowsFrames'
  <2>1. UNCHANGED <<log, board, seen>>
        BY DEF Quiet
  <2> QED
      BY <1>0, <2>1 DEF BoardFollowsFrames, CardIsEarned, NoCardIsDue, Own, Ends
<1> QED
    BY <1>1, <1>2, <1>3, <1>4, <1>5 DEF KitchenInv

(* What happens to one socket while the page stays with its own.           *)
LEMMA SocketKeepsKitchenInv ==
    ASSUME KitchenInv, NEW s \in Sockets, NEW c \in Connections,
           sock' = [sock EXCEPT ![s] = c],
           c.wants \subseteq SUBSCRIBED, GoodWire(log, c.wire), Shortens(c.wire, sock[s].wire),
           UNCHANGED <<log, board, seen, psock, page>>
    PROVE  KitchenInv'
<1>1. KitchenTypes /\ GoodSockets
      BY DEF KitchenInv
<1>2. /\ sock' \in [Sockets -> Connections] /\ sock'[s] = c
      /\ \A t \in Sockets : t # s => sock'[t] = sock[t]
      BY <1>1 DEF KitchenTypes
<1>3. \A t \in Sockets : sock'[t].wants \subseteq SUBSCRIBED /\ GoodWire(log, sock'[t].wire)
      BY <1>1, <1>2 DEF GoodSockets
<1>4. \A t \in Sockets : Shortens(sock'[t].wire, sock[t].wire)
      BY <1>2 DEF Shortens
<1>5. Quiet
      BY <1>1, <1>2, <1>3, <1>4 DEF Quiet, KitchenTypes
<1> QED
    BY <1>5, QuietKeepsKitchenInv

-----------------------------------------------------------------------------
(* The broker's side of a connection.                                      *)
LEMMA HeartbeatKeepsKitchenInv ==
    ASSUME KitchenInv, NEW s \in Sockets, HeartbeatFails(s), UNCHANGED pageVars PROVE KitchenInv'
<1>1. KitchenTypes /\ GoodSockets /\ sock[s] \in Connections
      BY DEF KitchenInv, KitchenTypes
<1>2. PICK kept \in Prefixes(sock[s].wire) :
         sock' = [sock EXCEPT ![s].server = "destroyed", ![s].wire = kept]
      BY DEF HeartbeatFails, Cut
<1>3. GoodWire(log, kept) /\ Shortens(kept, sock[s].wire)
      BY <1>1, PrefixWire DEF GoodSockets, Shortens
<1>4. PICK c : c = [sock[s] EXCEPT !.server = "destroyed", !.wire = kept]
      OBVIOUS
<1>5. c \in Connections /\ c.wire = kept /\ c.wants = sock[s].wants
      BY <1>1, <1>3, <1>4 DEF Connections, GoodWire
<1>6. sock' = [sock EXCEPT ![s] = c]
      BY <1>1, <1>2, <1>4 DEF KitchenTypes
<1> QED
    BY <1>1, <1>3, <1>5, <1>6, SocketKeepsKitchenInv DEF HeartbeatFails, pageVars, GoodSockets

LEMMA CleanupKeepsKitchenInv ==
    ASSUME KitchenInv, NEW s \in Sockets, Cleanup(s), UNCHANGED pageVars PROVE KitchenInv'
<1>1. KitchenTypes /\ GoodSockets /\ sock[s] \in Connections
      BY DEF KitchenInv, KitchenTypes
<1>2. PICK c : c = [sock[s] EXCEPT !.server = "ended"]
      OBVIOUS
<1>3. c \in Connections /\ c.wire = sock[s].wire /\ c.wants = sock[s].wants
      BY <1>1, <1>2 DEF Connections
<1>4. sock' = [sock EXCEPT ![s] = c]
      BY <1>1, <1>2 DEF Cleanup, KitchenTypes
<1> QED
    BY <1>1, <1>3, <1>4, SocketKeepsKitchenInv DEF Cleanup, pageVars, GoodSockets, Shortens

LEMMA ReleaseKeepsKitchenInv ==
    ASSUME KitchenInv, NEW s \in Sockets, Release(s), UNCHANGED pageVars PROVE KitchenInv'
<1>1. Free \in Connections /\ Free.wire = <<>> /\ Free.wants = {}
      BY DEF Free, Connections
<1>2. GoodWire(log, Free.wire) /\ Shortens(Free.wire, sock[s].wire)
      BY <1>1, EmptyWire DEF Shortens
<1> QED
    BY <1>1, <1>2, SocketKeepsKitchenInv DEF Release, pageVars

LEMMA ConsoleLostKeepsKitchenInv ==
    ASSUME KitchenInv, ConsoleRestarts PROVE KitchenInv'
<1>1. KitchenTypes /\ GoodSockets
      BY DEF KitchenInv
<1>2. UNCHANGED <<log, board, seen, psock, page>>
      BY DEF ConsoleRestarts, ConsoleLost, pageVars
<1>3. PICK kept :
         /\ \A s \in Sockets : kept[s] \in Prefixes(sock[s].wire)
         /\ sock' = [s \in Sockets |->
                       IF sock[s] = Free THEN Free
                       ELSE [sock[s] EXCEPT !.server = "ended", !.wire = kept[s]]]
      BY DEF ConsoleRestarts, ConsoleLost
<1>4. ASSUME NEW s \in Sockets
      PROVE  /\ sock'[s] \in Connections
             /\ sock'[s].wants \subseteq SUBSCRIBED /\ GoodWire(log, sock'[s].wire)
             /\ Shortens(sock'[s].wire, sock[s].wire)
  <2>1. sock[s] \in Connections /\ sock[s].wants \subseteq SUBSCRIBED /\ GoodWire(log, sock[s].wire)
        BY <1>1 DEF KitchenTypes, GoodSockets
  <2>2. CASE sock[s] = Free
    <3>1. sock'[s] = sock[s]
          BY <1>3, <2>2
    <3> QED
        BY <2>1, <3>1 DEF Shortens
  <2>3. CASE sock[s] # Free
    <3>1. sock'[s] = [sock[s] EXCEPT !.server = "ended", !.wire = kept[s]]
          BY <1>3, <2>3
    <3>2. GoodWire(log, kept[s]) /\ Shortens(kept[s], sock[s].wire)
      <4>1. kept[s] \in Prefixes(sock[s].wire)
            BY <1>3
      <4>2. \A k \in DOMAIN kept[s] : k \in DOMAIN sock[s].wire /\ kept[s][k] = sock[s].wire[k]
            BY <2>1, <4>1, PrefixWire
      <4> QED
          BY <2>1, <4>1, <4>2, PrefixWire DEF Shortens
    <3>3. /\ sock'[s] \in Connections
          /\ sock'[s].wire = kept[s] /\ sock'[s].wants = sock[s].wants
          BY <2>1, <3>1, <3>2 DEF Connections, GoodWire
    <3> QED
        BY <2>1, <3>2, <3>3
  <2> QED
      BY <2>2, <2>3
<1>5. sock' \in [Sockets -> Connections]
  <2>1. DOMAIN sock' = Sockets /\ sock' = [s \in Sockets |-> sock'[s]]
        BY <1>3
  <2> QED
      BY <1>4, <2>1
<1>6. Quiet
      BY <1>1, <1>2, <1>4, <1>5 DEF Quiet, KitchenTypes
<1> QED
    BY <1>6, QuietKeepsKitchenInv

(* An event is published: it joins the log and the wires that want it.     *)
LEMMA PublishKeepsKitchenInv ==
    ASSUME KitchenInv, NEW name \in Registered, NEW o \in Orders, Publish(name, o),
           UNCHANGED pageVars
    PROVE  KitchenInv'
<1>0. KitchenTypes /\ GoodSockets /\ SeenIsBehind /\ LastPlacement /\ BoardFollowsFrames
      BY DEF KitchenInv
<1>1. PICK e : e = [name |-> name, order |-> o]
      OBVIOUS
<1>2. e \in Events /\ e.name = name /\ e.order = o
      BY <1>1 DEF Events
<1>3. PICK new : new = Len(log')
      OBVIOUS
<1>4. /\ log \in Seq(Events) /\ log' = Append(log, e)
      /\ \A s \in Sockets :
            sock'[s] = IF Receives(s, name) THEN [sock[s] EXCEPT !.wire = Append(@, new)] ELSE sock[s]
      /\ DOMAIN sock' = Sockets /\ sock' = [s \in Sockets |-> sock'[s]]
      /\ UNCHANGED <<board, seen, psock, page>>
      BY <1>0, <1>1, <1>3 DEF Publish, KitchenTypes, pageVars
<1>5. /\ log' \in Seq(Events) /\ new \in Nat /\ new \in DOMAIN log'
      /\ DOMAIN log' = DOMAIN log \cup {new}
      /\ \A n \in DOMAIN log : n \in Nat /\ n < new /\ ~(n > new) /\ log'[n] = log[n]
      /\ log'[new] = e
      BY <1>2, <1>3, <1>4, LogGrows
<1>6. ASSUME NEW s \in Sockets
      PROVE  /\ sock'[s] \in Connections
             /\ sock'[s].wants \subseteq SUBSCRIBED /\ GoodWire(log', sock'[s].wire)
             /\ \A k \in DOMAIN sock'[s].wire :
                   \/ sock'[s].wire[k] = new
                   \/ k \in DOMAIN sock[s].wire /\ sock'[s].wire[k] = sock[s].wire[k]
  <2>1. sock[s] \in Connections /\ sock[s].wants \subseteq SUBSCRIBED /\ GoodWire(log, sock[s].wire)
        BY <1>0 DEF KitchenTypes, GoodSockets
  <2>2. CASE Receives(s, name)
    <3>1. PICK v : v = Append(sock[s].wire, new)
          OBVIOUS
    <3>2. sock'[s] = [sock[s] EXCEPT !.wire = v]
          BY <1>4, <2>2, <3>1
    <3>3. name \in SUBSCRIBED
          BY <2>1, <2>2 DEF Receives
    <3>4. /\ GoodWire(log', v)
          /\ \A k \in DOMAIN v : v[k] = new \/ (k \in DOMAIN sock[s].wire /\ v[k] = sock[s].wire[k])
          BY <1>2, <1>3, <1>4, <2>1, <3>1, <3>3, WireTakesEvent
    <3>5. sock'[s] \in Connections /\ sock'[s].wire = v /\ sock'[s].wants = sock[s].wants
          BY <2>1, <3>2, <3>4 DEF Connections, GoodWire
    <3> QED
        BY <2>1, <3>4, <3>5
  <2>3. CASE ~Receives(s, name)
    <3>1. sock'[s] = sock[s]
          BY <1>4, <2>3
    <3> QED
        BY <1>2, <1>4, <2>1, <3>1, WireOfLongerLog
  <2> QED
      BY <2>2, <2>3
<1>7. KitchenTypes'
      BY <1>0, <1>4, <1>5, <1>6 DEF KitchenTypes
<1>8. GoodSockets'
      BY <1>6 DEF GoodSockets, GoodWire
<1>9. \A n \in seen : n \in DOMAIN log
      BY <1>0 DEF KitchenTypes
<1>10. SeenIsBehind'
  <2>1. \A n \in seen : log'[n].name \in SUBSCRIBED
        BY <1>0, <1>5, <1>9 DEF SeenIsBehind
  <2>2. ASSUME psock \in Sockets, NEW n \in seen, NEW k \in DOMAIN sock'[psock].wire
        PROVE  n < sock'[psock].wire[k]
    <3>1. CASE sock'[psock].wire[k] = new
          BY <1>5, <1>9, <3>1
    <3>2. CASE k \in DOMAIN sock[psock].wire /\ sock'[psock].wire[k] = sock[psock].wire[k]
          BY <1>0, <2>2, <3>2 DEF SeenIsBehind
    <3> QED
        BY <1>6, <2>2, <3>1, <3>2
  <2> QED
      BY <1>4, <2>1, <2>2 DEF SeenIsBehind
<1>11. LastPlacement'
  <2> SUFFICES ASSUME NEW x \in Orders, \E n \in DOMAIN log' : Places(log', n, x)
               PROVE  \E p \in DOMAIN log' : /\ Places(log', p, x)
                                             /\ \A m \in DOMAIN log' : m > p => ~Places(log', m, x)
      BY DEF LastPlacement, Places
  <2>1. \A n \in DOMAIN log : Places(log', n, x) <=> Places(log, n, x)
        BY <1>5 DEF Places
  <2>2. CASE Places(log', new, x)
    <3>1. \A m \in DOMAIN log' : ~(m > new)
          BY <1>5
    <3> QED
        BY <1>5, <2>2, <3>1
  <2>3. CASE ~Places(log', new, x)
    <3>1. \E n \in DOMAIN log : Places(log, n, x)
          BY <1>5, <2>1, <2>3
    <3>2. PICK p \in DOMAIN log : /\ Places(log, p, x)
                                  /\ \A m \in DOMAIN log : m > p => ~Places(log, m, x)
          BY <1>0, <3>1 DEF LastPlacement
    <3> QED
        BY <1>5, <2>1, <2>3, <3>2
  <2> QED
      BY <2>2, <2>3
<1>12. BoardFollowsFrames'
  <2> SUFFICES ASSUME NEW x \in Orders
               PROVE  (IF board[x] # None THEN CardIsEarned(x) ELSE NoCardIsDue(x))'
      BY DEF BoardFollowsFrames
  <2>1. \A n \in seen : log'[n] = log[n]
        BY <1>5, <1>9
  <2>2. Own(x)' = Own(x) /\ \A n \in Own(x) : n \in seen
        BY <1>4, <2>1 DEF Own
  <2>3. \A n \in seen : Ends(n)' <=> Ends(n)
        BY <2>1 DEF Ends
  <2>4. CASE board[x] # None
    <3>1. CardIsEarned(x)
          BY <1>0, <2>4 DEF BoardFollowsFrames
    <3>2. PICK p \in Own(x), l \in Own(x) :
             /\ log[p].name = "order.placed" /\ p <= l
             /\ \A n \in Own(x) : n <= l /\ (n > p => ~Ends(n) /\ log[n].name # "order.placed")
             /\ board[x] = ColumnFor(log[l].name)
          BY <3>1 DEF CardIsEarned
    <3>3. /\ log'[p].name = "order.placed" /\ p <= l
          /\ \A n \in Own(x) : n <= l /\ (n > p => ~Ends(n)' /\ log'[n].name # "order.placed")
          /\ board'[x] = ColumnFor(log'[l].name)
      <4>1. \A n \in Own(x) : log'[n] = log[n] /\ (Ends(n)' <=> Ends(n))
            BY <2>1, <2>2, <2>3
      <4>2. log'[l] = log[l] /\ log'[p] = log[p] /\ board' = board
            BY <1>4, <4>1
      <4> QED
          BY <3>2, <4>1, <4>2
    <3>4. CardIsEarned(x)'
          BY <2>2, <3>3 DEF CardIsEarned
    <3> QED
        BY <1>4, <2>4, <3>4
  <2>5. CASE board[x] = None
    <3>1. NoCardIsDue(x)
          BY <1>0, <2>5 DEF BoardFollowsFrames
    <3>2. NoCardIsDue(x)'
          BY <1>4, <2>1, <2>2, <2>3, <3>1 DEF NoCardIsDue
    <3> QED
        BY <1>4, <2>5, <3>2
  <2> QED
      BY <2>4, <2>5
<1> QED
    BY <1>7, <1>8, <1>10, <1>11, <1>12 DEF KitchenInv

-----------------------------------------------------------------------------
(* The page's side.                                                        *)
LEMMA FetchKeepsKitchenInv ==
    ASSUME KitchenInv, NEW s \in Sockets, FetchArrives(s) PROVE KitchenInv'
<1>1. KitchenTypes /\ GoodSockets
      BY DEF KitchenInv
<1>2. PICK c : c = [server |-> IF SUBSCRIBED \subseteq Registered THEN "open" ELSE "ended",
                    wants  |-> IF SUBSCRIBED = {} THEN Registered ELSE SUBSCRIBED \cap Registered,
                    client |-> TRUE,
                    wire   |-> <<>>]
      OBVIOUS
<1>3. /\ sock' = [sock EXCEPT ![s] = c]
      /\ psock' = s
      /\ UNCHANGED <<log, page, board, seen>>
      BY <1>2 DEF FetchArrives, Accept
<1>4. c \in Connections /\ c.wire = <<>> /\ c.wants \subseteq SUBSCRIBED
      BY <1>2, KitchenDisplayAssumption DEF Connections
<1>5. /\ sock' \in [Sockets -> Connections] /\ sock'[s] = c
      /\ \A t \in Sockets : t # s => sock'[t] = sock[t]
      BY <1>1, <1>3, <1>4 DEF KitchenTypes
<1>6. \A t \in Sockets : sock'[t].wants \subseteq SUBSCRIBED /\ GoodWire(log, sock'[t].wire)
      BY <1>1, <1>4, <1>5, EmptyWire DEF GoodSockets
<1>7. Quiet
      BY <1>3, <1>4, <1>5, <1>6 DEF Quiet
<1> QED
    BY <1>7, QuietKeepsKitchenInv

LEMMA HangUpFacts ==
    ASSUME KitchenInv, HangUp
    PROVE  /\ sock' \in [Sockets -> Connections]
           /\ \A s \in Sockets : sock'[s].wants \subseteq SUBSCRIBED /\ GoodWire(log, sock'[s].wire)
<1>1. KitchenTypes /\ GoodSockets
      BY DEF KitchenInv
<1>2. ASSUME NEW s \in Sockets
      PROVE  /\ sock'[s] \in Connections
             /\ sock'[s].wants \subseteq SUBSCRIBED /\ GoodWire(log, sock'[s].wire)
  <2>1. sock[s] \in Connections /\ sock[s].wants \subseteq SUBSCRIBED /\ GoodWire(log, sock[s].wire)
        BY <1>1 DEF KitchenTypes, GoodSockets
  <2>2. CASE s = psock
    <3>1. sock'[s] = [sock[s] EXCEPT !.client = FALSE, !.wire = <<>>]
          BY <2>2 DEF HangUp
    <3>2. PICK rest : rest = <<>> /\ rest \in Seq(Nat)
      <4>1. <<>> \in Seq(Nat)
            OBVIOUS
      <4> QED
          BY <4>1
    <3>3. sock'[s] = [sock[s] EXCEPT !.client = FALSE, !.wire = rest]
          BY <3>1, <3>2
    <3>4. sock'[s] \in Connections /\ sock'[s].wire = rest /\ sock'[s].wants = sock[s].wants
      <4>1. sock'[s] = [server |-> sock[s].server, wants |-> sock[s].wants,
                        client |-> FALSE, wire |-> rest]
            BY <2>1, <3>3 DEF Connections
      <4>2. sock[s].server \in {"free", "open", "destroyed", "ended"} /\ sock[s].wants \subseteq Registered
            BY <2>1 DEF Connections
      <4> QED
          BY <3>2, <4>1, <4>2 DEF Connections
    <3> QED
        BY <2>1, <3>2, <3>4, EmptyWire
  <2>3. CASE s # psock
    <3>1. sock'[s] = sock[s]
          BY <2>3 DEF HangUp
    <3> QED
        BY <2>1, <3>1
  <2> QED
      BY <2>2, <2>3
<1>3. sock' = [s \in Sockets |-> sock'[s]]
      BY DEF HangUp
<1> QED
    BY <1>2, <1>3

LEMMA TryLaterKeepsKitchenInv ==
    ASSUME KitchenInv, TryLater PROVE KitchenInv'
<1>1. /\ sock' \in [Sockets -> Connections]
      /\ \A s \in Sockets : sock'[s].wants \subseteq SUBSCRIBED /\ GoodWire(log, sock'[s].wire)
      BY HangUpFacts DEF TryLater
<1>2. psock' = None /\ page' = "retry" /\ UNCHANGED <<log, board, seen>> /\ None \notin Sockets
      BY KitchenDisplayAssumption DEF TryLater
<1>3. Quiet
      BY <1>1, <1>2 DEF Quiet
<1> QED
    BY <1>3, QuietKeepsKitchenInv

(* The page steps that leave the sockets alone.                            *)
LEMMA PageKeepsKitchenInv ==
    ASSUME KitchenInv, HeadersReturn \/ RetryTimer PROVE KitchenInv'
<1>1. KitchenTypes /\ GoodSockets
      BY DEF KitchenInv
<1>2. UNCHANGED <<log, sock, board, seen, psock>> /\ (page' = "reading" => psock \in Sockets)
      BY <1>1 DEF HeadersReturn, RetryTimer, streamVars, KitchenTypes
<1>3. Quiet
      BY <1>1, <1>2 DEF Quiet, KitchenTypes, GoodSockets, Shortens
<1> QED
    BY <1>3, QuietKeepsKitchenInv

(* A page that was loaded anew has seen nothing and shows nothing.         *)
LEMMA ReloadKeepsKitchenInv ==
    ASSUME KitchenInv, Reload PROVE KitchenInv'
<1>0. KitchenTypes /\ GoodSockets /\ SeenIsBehind /\ LastPlacement
      BY DEF KitchenInv
<1>1. /\ sock' \in [Sockets -> Connections]
      /\ \A s \in Sockets : sock'[s].wants \subseteq SUBSCRIBED /\ GoodWire(log, sock'[s].wire)
      BY HangUpFacts DEF Reload
<1>2. /\ psock' = None /\ page' = "fetching" /\ None \notin Sockets
      /\ log' = log /\ board' = NoCards /\ seen' = {}
      BY KitchenDisplayAssumption DEF Reload
<1>3. KitchenTypes'
      BY <1>0, <1>1, <1>2 DEF KitchenTypes, NoCards
<1>4. GoodSockets'
      BY <1>1, <1>2 DEF GoodSockets
<1>5. SeenIsBehind'
      BY <1>2 DEF SeenIsBehind
<1>6. LastPlacement'
      BY <1>0, <1>2 DEF LastPlacement, Places
<1>7. BoardFollowsFrames'
      BY <1>2 DEF BoardFollowsFrames, NoCardIsDue, Own, NoCards
<1> QED
    BY <1>3, <1>4, <1>5, <1>6, <1>7 DEF KitchenInv

(* The next frame is newer than all that were handled.                     *)
LEMMA NextFrame ==
    ASSUME KitchenInv, ReadFrame
    PROVE  \E n \in DOMAIN log :
              /\ \A m \in seen : m < n
              /\ seen' = seen \cup {n} /\ log[n].name \in SUBSCRIBED
              /\ board' = HandleFrame(board, log[n])
              /\ n = Head(sock[psock].wire) /\ psock \in Sockets
              /\ sock[psock].wire # <<>> /\ GoodWire(log, sock[psock].wire)
<1>1. KitchenTypes /\ GoodSockets /\ SeenIsBehind
      BY DEF KitchenInv
<1>2. psock \in Sockets /\ sock[psock].wire # <<>>
      BY <1>1 DEF ReadFrame, KitchenTypes
<1>3. PICK w : w = sock[psock].wire
      OBVIOUS
<1>4. GoodWire(log, w) /\ w # <<>>
      BY <1>1, <1>2, <1>3 DEF GoodSockets
<1>5. PICK n : n = Head(w)
      OBVIOUS
<1>6. /\ n \in DOMAIN log /\ log[n].name \in SUBSCRIBED
      /\ 1 \in DOMAIN w /\ n = w[1]
      BY <1>4, <1>5, RestOfWire
<1>7. \A m \in seen : m < n
      BY <1>1, <1>2, <1>3, <1>6 DEF SeenIsBehind
<1>8. seen' = seen \cup {n} /\ board' = HandleFrame(board, log[n])
      BY <1>3, <1>5 DEF ReadFrame
<1> QED
    BY <1>2, <1>3, <1>4, <1>5, <1>6, <1>7, <1>8

(* A frame on the board: it is the last of its order that was seen.        *)
LEMMA FrameKeepsBoard ==
    ASSUME KitchenTypes, BoardFollowsFrames,
           NEW n \in DOMAIN log, \A m \in seen : m < n,
           log' = log, seen' = seen \cup {n}, log[n].name \in SUBSCRIBED,
           board' = HandleFrame(board, log[n])
    PROVE  BoardFollowsFrames' /\ board' \in [Orders -> Columns \cup {None}]
<1>1. PICK e : e = log[n]
      OBVIOUS
<1>2. /\ e \in Events /\ e.order \in Orders /\ e.name \in HandledNames
      /\ \A m \in seen : m \in Nat /\ m \in DOMAIN log /\ m < n /\ ~(m > n)
      /\ n \in Nat
  <2>1. e \in Events /\ n \in Nat /\ \A m \in seen : m \in Nat /\ m \in DOMAIN log
        BY <1>1 DEF KitchenTypes
  <2> QED
      BY <1>1, <2>1, KitchenDisplayAssumption DEF Events
<1>3. None \notin Columns
      BY KitchenDisplayAssumption
<1>4. /\ board \in [Orders -> Columns \cup {None}]
      /\ board' = HandleFrame(board, e)
      BY <1>1 DEF KitchenTypes
(* What handleFrame does to the card of the order, and to no other.        *)
<1>5. /\ e.name = "order.placed" => board' = [board EXCEPT ![e.order] = "pending"]
      /\ e.name \in {"order.cancelled", "order.completed"} => board' = [board EXCEPT ![e.order] = None]
      /\ e.name \in {"order.confirmed", "order.preparing", "order.ready"} =>
            board' = [board EXCEPT ![e.order] = IF board[e.order] = None
                                                THEN None ELSE ColumnFor(e.name)]
      BY <1>2, <1>4 DEF HandleFrame, HandledNames, Moved, ColumnFor
<1>6. /\ \A o \in Orders : o # e.order => board'[o] = board[o]
      /\ board'[e.order] = IF e.name = "order.placed" THEN "pending"
                           ELSE IF \/ e.name \in {"order.cancelled", "order.completed"}
                                   \/ board[e.order] = None
                           THEN None ELSE ColumnFor(e.name)
      /\ board' \in [Orders -> Columns \cup {None}]
      BY <1>2, <1>4, <1>5 DEF HandledNames, Columns, ColumnFor
<1>7. /\ \A o \in Orders : Own(o)' = IF o = e.order THEN Own(o) \cup {n} ELSE Own(o)
      /\ \A o : Own(o) \subseteq seen
      BY <1>1 DEF Own
<1>8. \A m : Ends(m)' <=> Ends(m)
      BY DEF Ends
<1>9. ASSUME NEW o \in Orders
      PROVE  (IF board[o] # None THEN CardIsEarned(o) ELSE NoCardIsDue(o))'
  <2>1. IF board[o] # None THEN CardIsEarned(o) ELSE NoCardIsDue(o)
        BY DEF BoardFollowsFrames
  <2>2. CASE o # e.order
    <3>1. Own(o)' = Own(o) /\ board'[o] = board[o]
          BY <1>6, <1>7, <2>2
    <3>2. CardIsEarned(o) => CardIsEarned(o)'
          BY <1>8, <3>1 DEF CardIsEarned
    <3>3. NoCardIsDue(o) => NoCardIsDue(o)'
          BY <1>8, <3>1 DEF NoCardIsDue
    <3> QED
        BY <2>1, <3>1, <3>2, <3>3
  <2>3. CASE o = e.order
    <3>1. /\ Own(o)' = Own(o) \cup {n} /\ n \notin Own(o)
          /\ \A m \in Own(o) : m \in Nat /\ m < n /\ ~(m > n) /\ m <= n
          BY <1>2, <1>7, <2>3
    <3>2. log[n].name = e.name /\ n <= n /\ ~(n > n)
          BY <1>1, <1>2
    <3>3. CASE e.name = "order.placed"
      <4>1. board'[o] = "pending" /\ ColumnFor(log[n].name) = "pending" /\ "pending" # None
            BY <1>3, <1>6, <2>3, <3>2, <3>3 DEF ColumnFor, Columns
      <4>2. \A m \in Own(o)' : m <= n /\ ~(m > n)
            BY <3>1, <3>2
      <4>3. CardIsEarned(o)'
        <5>1. n \in Own(o)' /\ log'[n].name = "order.placed"
              BY <3>1, <3>2, <3>3
        <5> QED
            BY <3>2, <4>1, <4>2, <5>1 DEF CardIsEarned
      <4> QED
          BY <4>1, <4>3
    <3>4. CASE e.name \in {"order.cancelled", "order.completed"}
      <4>1. board'[o] = None
            BY <1>6, <2>3, <3>4
      <4>2. Ends(n) /\ log[n].name # "order.placed"
            BY <3>2, <3>4 DEF Ends
      <4>3. \A m \in Own(o)' : log[m].name = "order.placed" => n > m
            BY <3>1, <4>2
      <4>4. NoCardIsDue(o)'
            BY <1>8, <3>1, <4>2, <4>3 DEF NoCardIsDue
      <4> QED
          BY <4>1, <4>4
    <3>5. CASE e.name \in {"order.confirmed", "order.preparing", "order.ready"} /\ board[o] = None
      <4>1. board'[o] = None /\ log[n].name # "order.placed"
            BY <1>6, <2>3, <3>2, <3>5
      <4>2. NoCardIsDue(o)
            BY <2>1, <3>5
      <4>3. NoCardIsDue(o)'
            BY <1>8, <3>1, <4>1, <4>2 DEF NoCardIsDue
      <4> QED
          BY <4>1, <4>3
    <3>6. CASE e.name \in {"order.confirmed", "order.preparing", "order.ready"} /\ board[o] # None
      <4>1. board'[o] = ColumnFor(log[n].name) /\ board'[o] # None
            BY <1>3, <1>6, <2>3, <3>2, <3>6 DEF ColumnFor, Columns
      <4>2. ~Ends(n) /\ log[n].name # "order.placed"
            BY <3>2, <3>6 DEF Ends
      <4>3. PICK p \in Own(o), l \in Own(o) :
               /\ log[p].name = "order.placed" /\ p <= l
               /\ \A m \in Own(o) : m <= l /\ (m > p => ~Ends(m) /\ log[m].name # "order.placed")
            BY <2>1, <3>6 DEF CardIsEarned
      <4>4. p <= n /\ n \in Own(o)' /\ p \in Own(o)'
            BY <3>1
      <4>5. \A m \in Own(o)' : m <= n /\ (m > p => ~Ends(m) /\ log[m].name # "order.placed")
            BY <3>1, <3>2, <4>2, <4>3
      <4>6. CardIsEarned(o)'
        <5>1. \A m \in Own(o)' : m <= n /\ (m > p => ~Ends(m)' /\ log'[m].name # "order.placed")
              BY <1>8, <4>5
        <5>2. log'[p].name = "order.placed" /\ board'[o] = ColumnFor(log'[n].name)
              BY <4>1, <4>3
        <5> QED
            BY <4>4, <5>1, <5>2 DEF CardIsEarned
      <4> QED
          BY <4>1, <4>6
    <3> QED
        BY <1>2, <3>3, <3>4, <3>5, <3>6, <2>3 DEF HandledNames
  <2> QED
      BY <2>2, <2>3
<1> QED
    BY <1>6, <1>9 DEF BoardFollowsFrames

LEMMA ReadKeepsKitchenInv ==
    ASSUME KitchenInv, ReadFrame PROVE KitchenInv'
<1>0. KitchenTypes /\ GoodSockets /\ SeenIsBehind /\ LastPlacement /\ BoardFollowsFrames
      BY DEF KitchenInv
<1>1. PICK n \in DOMAIN log :
         /\ \A m \in seen : m < n
         /\ seen' = seen \cup {n} /\ log[n].name \in SUBSCRIBED
         /\ board' = HandleFrame(board, log[n])
         /\ n = Head(sock[psock].wire) /\ psock \in Sockets
         /\ sock[psock].wire # <<>> /\ GoodWire(log, sock[psock].wire)
      BY NextFrame
<1>2. PICK rest : rest = Tail(sock[psock].wire)
      OBVIOUS
<1>3. /\ GoodWire(log, rest)
      /\ \A k \in DOMAIN rest : n < rest[k] /\ \E j \in DOMAIN sock[psock].wire : rest[k] = sock[psock].wire[j]
      BY <1>1, <1>2, RestOfWire
<1>4. PICK c : c = [sock[psock] EXCEPT !.wire = rest]
      OBVIOUS
<1>5. /\ sock' = [sock EXCEPT ![psock] = c]
      /\ UNCHANGED <<log, page, psock>>
      BY <1>2, <1>4 DEF ReadFrame
<1>6. c \in Connections /\ c.wire = rest /\ c.wants = sock[psock].wants
  <2>1. sock[psock] \in Connections /\ rest \in Seq(Nat)
        BY <1>0, <1>1, <1>3 DEF KitchenTypes, GoodWire
  <2> QED
      BY <1>4, <2>1 DEF Connections
<1>7. /\ sock' \in [Sockets -> Connections] /\ sock'[psock] = c
      /\ \A t \in Sockets : t # psock => sock'[t] = sock[t]
      BY <1>0, <1>1, <1>5, <1>6 DEF KitchenTypes
<1>8. BoardFollowsFrames' /\ board' \in [Orders -> Columns \cup {None}]
      BY <1>0, <1>1, <1>5, FrameKeepsBoard
<1>9. KitchenTypes'
      BY <1>0, <1>1, <1>5, <1>7, <1>8 DEF KitchenTypes
<1>10. GoodSockets'
  <2>1. \A t \in Sockets : sock'[t].wants \subseteq SUBSCRIBED /\ GoodWire(log, sock'[t].wire)
        BY <1>0, <1>1, <1>3, <1>6, <1>7 DEF GoodSockets
  <2> QED
      BY <1>5, <2>1 DEF GoodSockets
<1>11. SeenIsBehind'
  <2>1. \A m \in seen' : log[m].name \in SUBSCRIBED
        BY <1>0, <1>1 DEF SeenIsBehind
  <2>2. ASSUME NEW m \in seen', NEW k \in DOMAIN rest PROVE m < rest[k]
    <3>1. CASE m \in seen
          BY <1>0, <1>1, <1>3, <3>1 DEF SeenIsBehind
    <3>2. CASE m = n
          BY <1>3, <3>2
    <3> QED
        BY <1>1, <3>1, <3>2
  <2> QED
      BY <1>5, <1>6, <1>7, <2>1, <2>2 DEF SeenIsBehind
<1>12. LastPlacement'
      BY <1>0, <1>5 DEF LastPlacement, Places
<1> QED
    BY <1>8, <1>9, <1>10, <1>11, <1>12 DEF KitchenInv

-----------------------------------------------------------------------------
LEMMA KitchenInvInit == Init => KitchenInv
<1> SUFFICES ASSUME Init PROVE KitchenInv
    OBVIOUS
<1>1. /\ log = <<>> /\ sock = [s \in Sockets |-> Free] /\ page = "fetching" /\ psock = None
      /\ board = NoCards /\ seen = {} /\ None \notin Sockets
      BY KitchenDisplayAssumption DEF Init, StreamInit
<1>2. Free \in Connections /\ Free.wire = <<>> /\ Free.wants = {}
      BY DEF Free, Connections
<1>3. log \in Seq(Events) /\ DOMAIN log = {}
      BY <1>1
<1>4. KitchenTypes
      BY <1>1, <1>2, <1>3 DEF KitchenTypes, NoCards
<1>5. GoodSockets
      BY <1>1, <1>2, EmptyWire DEF GoodSockets
<1>6. SeenIsBehind /\ LastPlacement
      BY <1>1, <1>3 DEF SeenIsBehind, LastPlacement
<1>7. BoardFollowsFrames
      BY <1>1 DEF BoardFollowsFrames, NoCardIsDue, Own, NoCards
<1> QED
    BY <1>4, <1>5, <1>6, <1>7 DEF KitchenInv

LEMMA StandStillKeepsKitchenInv ==
    ASSUME KitchenInv, UNCHANGED <<streamVars, pageVars>> PROVE KitchenInv'
<1>1. KitchenTypes /\ GoodSockets
      BY DEF KitchenInv
<1>2. UNCHANGED <<log, sock, page, psock, board, seen>>
      BY DEF streamVars, pageVars
<1>3. Quiet
      BY <1>1, <1>2 DEF Quiet, KitchenTypes, GoodSockets, Shortens
<1> QED
    BY <1>3, QuietKeepsKitchenInv

LEMMA KitchenInvStep == KitchenInv /\ [Next]_vars => KitchenInv'
<1> SUFFICES ASSUME KitchenInv, [Next]_vars PROVE KitchenInv'
    OBVIOUS
<1>1. CASE \E s \in Sockets : FetchArrives(s)
      BY <1>1, FetchKeepsKitchenInv
<1>2. CASE HeadersReturn \/ RetryTimer
      BY <1>2, PageKeepsKitchenInv
<1>3. CASE ReadFrame
      BY <1>3, ReadKeepsKitchenInv
<1>4. CASE StreamEnds \/ ConnectionBreaks
      BY <1>4, TryLaterKeepsKitchenInv DEF StreamEnds, ConnectionBreaks
<1>5. CASE Reload
      BY <1>5, ReloadKeepsKitchenInv
<1>6. CASE Stream
  <2>1. UNCHANGED pageVars
        BY <1>6 DEF Stream
  <2>2. CASE \E name \in Registered, o \in Orders : Publish(name, o)
        BY <2>1, <2>2, PublishKeepsKitchenInv
  <2>3. ASSUME NEW s \in Sockets, HeartbeatTaken(s) PROVE KitchenInv'
        BY <2>1, <2>3, StandStillKeepsKitchenInv DEF HeartbeatTaken
  <2>4. ASSUME NEW s \in Sockets, HeartbeatFails(s) PROVE KitchenInv'
        BY <2>1, <2>4, HeartbeatKeepsKitchenInv
  <2>5. ASSUME NEW s \in Sockets, Cleanup(s) PROVE KitchenInv'
        BY <2>1, <2>5, CleanupKeepsKitchenInv
  <2>6. ASSUME NEW s \in Sockets, Release(s) PROVE KitchenInv'
        BY <2>1, <2>6, ReleaseKeepsKitchenInv
  <2> QED
      BY <1>6, <2>2, <2>3, <2>4, <2>5, <2>6 DEF Stream
<1>7. CASE ConsoleRestarts
      BY <1>7, ConsoleLostKeepsKitchenInv
<1>8. CASE UNCHANGED vars
      BY <1>8, StandStillKeepsKitchenInv DEF vars
<1> QED
    BY <1>1, <1>2, <1>3, <1>4, <1>5, <1>6, <1>7, <1>8 DEF Next

(* The inductive invariant holds of every state the display reaches        *)
(* (server.ts: GET /stream, page.tsx: connect and handleFrame).            *)
THEOREM KitchenInvariance == Spec => []KitchenInv
<1> QED
    BY KitchenInvInit, KitchenInvStep, PTL DEF Spec

(* Frames are handled in the order of their events and none twice, however *)
(* often the page reconnects (server.ts: bus.subscribe, page.tsx: consume).*)
THEOREM FramesAreInOrder == Spec => FramesMoveForward
<1>1. KitchenInv /\ [Next]_vars => [\A n \in seen' \ seen : \A m \in seen : m < n]_vars
  <2> SUFFICES ASSUME KitchenInv, [Next]_vars
               PROVE  \A n \in seen' \ seen : \A m \in seen : m < n
      OBVIOUS
  <2>1. CASE ReadFrame
        BY <2>1, NextFrame
  <2>2. CASE seen' \subseteq seen
        BY <2>2
  <2>3. ReadFrame \/ seen' \subseteq seen
    <3>1. CASE \E s \in Sockets : FetchArrives(s)
          BY <3>1 DEF FetchArrives
    <3>2. CASE HeadersReturn \/ RetryTimer
          BY <3>2 DEF HeadersReturn, RetryTimer
    <3>3. CASE StreamEnds \/ ConnectionBreaks
          BY <3>3 DEF StreamEnds, ConnectionBreaks, TryLater
    <3>4. CASE Reload
          BY <3>4 DEF Reload
    <3>5. CASE Stream \/ ConsoleRestarts \/ UNCHANGED vars
          BY <3>5 DEF Stream, ConsoleRestarts, vars, pageVars
    <3> QED
        BY <3>1, <3>2, <3>3, <3>4, <3>5 DEF Next
  <2> QED
      BY <2>1, <2>2, <2>3
<1> QED
    BY <1>1, KitchenInvariance, PTL DEF Spec, FramesMoveForward

(* A card is where the events have put it if the page has seen all that    *)
(* count (server.ts: GET /stream, page.tsx: handleFrame).                  *)
THEOREM BoardIsTrue == Spec => []CompleteBoardIsTrue
<1>1. ASSUME KitchenInv PROVE CompleteBoardIsTrue
  <2>0. KitchenTypes /\ SeenIsBehind /\ LastPlacement /\ BoardFollowsFrames
        BY <1>1 DEF KitchenInv
  <2> SUFFICES ASSUME NEW o \in Orders, Concerns(o) \subseteq seen
               PROVE  board[o] = TrueColumn(o)
      BY DEF CompleteBoardIsTrue
  <2> DEFINE names == {log[n].name : n \in Concerns(o)}
  <2>1. \A n \in DOMAIN log : n \in Nat
        BY <2>0 DEF KitchenTypes
  <2>2. /\ Concerns(o) \subseteq Own(o) /\ Own(o) \subseteq DOMAIN log
        /\ \A n \in Own(o) : log[n].name \in SUBSCRIBED /\ log[n].order = o
        BY <2>0 DEF Concerns, Own, KitchenTypes, SeenIsBehind
  (* What a placement makes of the events behind it.                       *)
  <2>3. ASSUME NEW q \in Concerns(o), log[q].name = "order.placed"
        PROVE  /\ \A n \in Own(o) : n >= q => n \in Concerns(o)
               /\ \A n \in Concerns(o) : n >= q
    <3>1. \A m \in DOMAIN log : m > q /\ log[m].order = o => log[m].name # "order.placed"
          BY DEF Concerns
    <3>2. q \in DOMAIN log /\ log[q].order = o
          BY DEF Concerns
    <3>3. ASSUME NEW n \in Own(o), n >= q PROVE n \in Concerns(o)
      <4>1. \A m \in DOMAIN log : m > n => m > q
            BY <2>1, <2>2, <3>2, <3>3
      <4> QED
          BY <2>2, <3>1, <4>1 DEF Concerns
    <3>4. ASSUME NEW n \in Concerns(o) PROVE n >= q
      <4>1. n \in DOMAIN log /\ ~(q > n)
            BY <2>3, <3>2 DEF Concerns
      <4> QED
          BY <2>1, <3>2, <4>1
    <3> QED
        BY <3>3, <3>4
  <2>4. CASE "order.placed" \notin names
    <3>1. TrueColumn(o) = None
          BY <2>4 DEF TrueColumn
    <3>2. ASSUME board[o] # None PROVE FALSE
      <4>1. PICK p \in Own(o) : log[p].name = "order.placed"
            BY <2>0, <3>2 DEF BoardFollowsFrames, CardIsEarned
      <4>2. PICK q \in DOMAIN log : /\ Places(log, q, o)
                                    /\ \A m \in DOMAIN log : m > q => ~Places(log, m, o)
            BY <2>0, <2>2, <4>1 DEF LastPlacement, Places
      <4>3. q \in Concerns(o) /\ log[q].name = "order.placed"
            BY <2>2, <4>1, <4>2 DEF Concerns, Places
      <4> QED
          BY <2>4, <4>3
    <3> QED
        BY <3>1, <3>2
  <2>5. CASE "order.placed" \in names
    <3>1. PICK q \in Concerns(o) : log[q].name = "order.placed"
          BY <2>5
    <3>2. /\ \A n \in Own(o) : n >= q => n \in Concerns(o)
          /\ \A n \in Concerns(o) : n >= q
          /\ q \in Own(o) /\ q \in Nat
          BY <2>1, <2>2, <2>3, <3>1
    <3>3. CASE names \cap {"order.cancelled", "order.completed"} # {}
      <4>1. TrueColumn(o) = None
            BY <3>3 DEF TrueColumn
      <4>2. PICK n \in Concerns(o) : Ends(n)
            BY <3>3 DEF Ends
      <4>3. ASSUME board[o] # None PROVE FALSE
        <5>1. PICK p \in Own(o) :
                 /\ log[p].name = "order.placed"
                 /\ \A m \in Own(o) : m > p => ~Ends(m) /\ log[m].name # "order.placed"
              BY <2>0, <4>3 DEF BoardFollowsFrames, CardIsEarned
        <5>2. p \in Nat /\ n \in Nat /\ n \in Own(o) /\ n >= q
              BY <2>1, <2>2, <3>2
        <5>3. ~(q > p) /\ ~(n > p)
              BY <3>1, <3>2, <4>2, <5>1, <5>2
        <5>4. p >= q
              BY <3>2, <5>2, <5>3
        <5>5. p \in Concerns(o)
              BY <3>2, <5>4
        <5>6. n >= p
              BY <2>3, <5>1, <5>5
        <5>7. n = p
              BY <5>2, <5>3, <5>6
        <5> QED
            BY <4>2, <5>1, <5>7 DEF Ends
      <4> QED
          BY <4>1, <4>3
    <3>4. CASE names \cap {"order.cancelled", "order.completed"} = {}
      <4>1. board[o] # None
        <5> SUFFICES ASSUME board[o] = None PROVE FALSE
            OBVIOUS
        <5>1. PICK n \in Own(o) : n > q /\ Ends(n)
              BY <2>0, <3>1, <3>2 DEF BoardFollowsFrames, NoCardIsDue
        <5>2. n >= q
              BY <2>1, <2>2, <3>2, <5>1
        <5>3. n \in Concerns(o)
              BY <3>2, <5>2
        <5> QED
            BY <3>4, <5>1, <5>3 DEF Ends
      <4>2. PICK p \in Own(o), l \in Own(o) :
               /\ log[p].name = "order.placed" /\ p <= l
               /\ \A n \in Own(o) : n <= l /\ (n > p => ~Ends(n) /\ log[n].name # "order.placed")
               /\ board[o] = ColumnFor(log[l].name)
            BY <2>0, <4>1 DEF BoardFollowsFrames, CardIsEarned
      <4>3. l \in Concerns(o)
        <5>1. l >= q /\ l \in Nat
              BY <2>1, <2>2, <3>2, <4>2
        <5> QED
            BY <3>2, <5>1
      <4>4. \A n \in Concerns(o) : n \in Nat /\ l >= n
            BY <2>1, <2>2, <4>2
      <4>5. Max(Concerns(o)) = l
            BY <4>3, <4>4 DEF Max
      <4>6. TrueColumn(o) = ColumnFor(log[Max(Concerns(o))].name)
            BY <2>5, <3>4 DEF TrueColumn
      <4> QED
          BY <4>2, <4>5, <4>6
    <3> QED
        BY <3>3, <3>4
  <2> QED
      BY <2>4, <2>5
<1> QED
    BY <1>1, KitchenInvariance, PTL
=============================================================================
