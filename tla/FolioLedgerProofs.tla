------------------------- MODULE FolioLedgerProofs --------------------------
(***************************************************************************)
(* What holds of the folio ledger for any number of transactions, folios   *)
(* and days: types, what overlapping transactions may repeat, what a       *)
(* closed day refuses, what its report counts and what a reversal cancels. *)
(***************************************************************************)
EXTENDS FolioLedger, FiniteSetTheorems, TLAPS

-----------------------------------------------------------------------------
(* What is true of each transaction u, at whatever stage it is.            *)

(* What it saw when it began had committed.                                *)
SawThePast(u) == before[u] \subseteq Committed

(* Its row is written when it commits, and says what the transaction did.  *)
WritesWhenDone(u) ==
    /\ item[u] # None => u \in Committed
    /\ u \in Committed /\ txn[u].does = "reverse" =>
          item[u] # None /\ item[u].kind = "REVERSAL" /\ item[u].reverses = txn[u].line
    /\ u \in Committed /\ txn[u].does = "close" => Closed(txn[u].date)

(* What it is about is a row, and what it reverses a charge.               *)
IsAboutARow(u) ==
    /\ txn[u].does \in {"reverse", "move"} => txn[u].line \in Posted
    /\ txn[u].does = "reverse" => item[txn[u].line].kind = "CHARGE"

(* It repeats nothing that it could see had been done.                     *)
RepeatsNothing(u) == \A t \in before[u] : ~SameWork(t, u)

(* It writes under guard to no day that it could see was closed.           *)
HeedsTheCloses(u) ==
    /\ txn[u].stage = "asserted" => ~txn[u].explicit
    /\ \A c \in before[u] : txn[c].does = "close" => ~WritesDay(u, txn[c].date)

(* An audit that has summed counts the items of its day that it could see. *)
CountsItsDay(u) ==
    txn[u].does = "close" /\ txn[u].stage \in {"summed", "committed"} =>
       /\ txn[u].items \subseteq ItemsOn(txn[u].date)
       /\ ItemsOn(txn[u].date) \cap before[u] \subseteq txn[u].items

(* If it wrote a reversal, that cancels a charge.                          *)
Cancels(u) ==
    item[u] # None /\ item[u].kind = "REVERSAL" =>
       /\ item[u].reverses \in Posted
       /\ item[item[u].reverses].kind = "CHARGE"
       /\ item[item[u].reverses].folio = item[u].folio
       /\ item[item[u].reverses].total + item[u].total = 0

Orderly(u) ==
    /\ SawThePast(u)
    /\ WritesWhenDone(u)
    /\ IsAboutARow(u)
    /\ RepeatsNothing(u)
    /\ HeedsTheCloses(u)
    /\ CountsItsDay(u)
    /\ Cancels(u)

(* The report of a day is that of an audit that has committed.             *)
ReportIsAnAudits ==
    \A d \in Days : report[d] # None =>
       LET t == report[d].by
       IN  /\ t \in Committed
           /\ txn[t].does = "close" /\ txn[t].date = d
           /\ report[d].items = txn[t].items

FInv ==
    /\ TypeOK
    /\ \A u \in Txns : Orderly(u)
    /\ ReportIsAnAudits

-----------------------------------------------------------------------------
(* A step of transaction t, which has not committed: it touches no record  *)
(* of another one and reopens no day.                                      *)
StepOf(t) ==
    /\ t \notin Committed
    /\ \A u \in Txns \ {t} : /\ txn'[u] = txn[u]
                            /\ before'[u] = before[u]
                            /\ item'[u] = item[u]
    /\ \A d \in Days : Closed(d) => Closed(d)'

(* Such a step adds at most one row and one commit.                        *)
LEMMA StepFacts ==
    ASSUME FInv, NEW t \in Txns, StepOf(t)
    PROVE  /\ item[t] = None
           /\ Posted \subseteq Posted' /\ Posted' \subseteq Posted \cup {t}
           /\ Committed \subseteq Committed' /\ Committed' \subseteq Committed \cup {t}
           /\ \A i \in Posted : i # t /\ item'[i] = item[i]
           /\ \A d : /\ ItemsOn(d) \subseteq ItemsOn(d)'
                     /\ ItemsOn(d)' \subseteq ItemsOn(d) \cup {t}
<1>1. item[t] = None
      BY DEF FInv, Orderly, WritesWhenDone, StepOf
<1>2. Posted \subseteq Posted' /\ Posted' \subseteq Posted \cup {t}
      BY <1>1 DEF Posted, StepOf
<1>3. Committed \subseteq Committed' /\ Committed' \subseteq Committed \cup {t}
      BY DEF Committed, StepOf
<1>4. \A i \in Posted : i # t /\ item'[i] = item[i]
      BY <1>1 DEF Posted, StepOf
<1>5. \A d : ItemsOn(d) \subseteq ItemsOn(d)' /\ ItemsOn(d)' \subseteq ItemsOn(d) \cup {t}
      BY <1>2, <1>4 DEF ItemsOn
<1> QED
      BY <1>1, <1>2, <1>3, <1>4, <1>5

LEMMA OthersStayOrderly ==
    ASSUME FInv, NEW t \in Txns, StepOf(t), NEW u \in Txns, u # t
    PROVE  Orderly(u)'
<1>1. /\ Posted \subseteq Posted' /\ Posted' \subseteq Posted \cup {t}
      /\ Committed \subseteq Committed' /\ Committed' \subseteq Committed \cup {t}
      /\ \A i \in Posted : i # t /\ item'[i] = item[i]
      /\ \A d : /\ ItemsOn(d) \subseteq ItemsOn(d)'
                /\ ItemsOn(d)' \subseteq ItemsOn(d) \cup {t}
      BY StepFacts
<1>2. txn'[u] = txn[u] /\ before'[u] = before[u] /\ item'[u] = item[u]
      BY DEF StepOf
<1>3. Orderly(u) /\ t \notin Committed /\ Committed \subseteq Txns /\ Posted \subseteq Txns
      BY DEF FInv, StepOf, Committed, Posted
<1>4. u \in Committed' <=> u \in Committed
      BY <1>1
<1>5. \A c \in before[u] : c \in Txns \ {t} /\ txn'[c] = txn[c]
      BY <1>3 DEF Orderly, SawThePast, StepOf
<1>6. SawThePast(u)'
      BY <1>1, <1>2, <1>3 DEF Orderly, SawThePast
<1>7. WritesWhenDone(u)'
  <2>1. u \in Committed /\ txn[u].does = "close" => txn[u].date \in Days
        BY DEF FInv, TypeOK, Committed, Works, Posts, Charges, Reverses, Moves, Closes,
               NotBegun
  <2> QED
        BY <1>2, <1>3, <1>4, <2>1 DEF Orderly, WritesWhenDone, StepOf
<1>8. IsAboutARow(u)'
      BY <1>1, <1>2, <1>3 DEF Orderly, IsAboutARow
<1>9. RepeatsNothing(u)'
      BY <1>2, <1>3, <1>5 DEF Orderly, RepeatsNothing, SameWork
<1>10. HeedsTheCloses(u)'
  <2>1. \A d : WritesDay(u, d)' => WritesDay(u, d)
        BY <1>1, <1>2, <1>3 DEF WritesDay, Orderly, IsAboutARow
  <2> QED
        BY <1>2, <1>3, <1>5, <2>1 DEF Orderly, HeedsTheCloses
<1>11. CountsItsDay(u)'
      BY <1>1, <1>2, <1>3, <1>5 DEF Orderly, CountsItsDay
<1>12. Cancels(u)'
  <2>1. item[u] # None /\ item[u].kind = "REVERSAL" =>
           item[u].reverses \in Posted /\ item'[item[u].reverses] = item[item[u].reverses]
        BY <1>1, <1>3 DEF Orderly, Cancels
  <2> QED
        BY <1>1, <1>2, <1>3, <2>1 DEF Orderly, Cancels
<1> QED
      BY <1>6, <1>7, <1>8, <1>9, <1>10, <1>11, <1>12 DEF Orderly

LEMMA ReportsStay ==
    ASSUME FInv, NEW t \in Txns, StepOf(t), report' = report
    PROVE  ReportIsAnAudits'
<1>1. Committed \subseteq Committed' /\ t \notin Committed /\ Committed \subseteq Txns
      BY StepFacts DEF StepOf, Committed
<1>2. \A u \in Committed : txn'[u] = txn[u]
      BY <1>1 DEF StepOf
<1> QED
      BY <1>1, <1>2 DEF FInv, ReportIsAnAudits

(* So it is enough to look at t itself.                                    *)
LEMMA StepKeeps ==
    ASSUME FInv, NEW t \in Txns, StepOf(t), TypeOK', Orderly(t)', ReportIsAnAudits'
    PROVE  FInv'
BY OthersStayOrderly DEF FInv

-----------------------------------------------------------------------------
(* What a transaction is at a stage.                                       *)
LEMMA WorkAt ==
    ASSUME TypeOK, NEW t \in Txns
    PROVE  /\ txn[t].stage \in {"asserted", "dated"} => txn[t] \in Posts
           /\ txn[t].stage = "checked" => txn[t] \in Reverses \cup Moves
           /\ txn[t].does = "reverse" => txn[t] \in Reverses
           /\ txn[t].does = "move" => txn[t] \in Moves
           /\ txn[t].stage \in {"found", "summed"} => txn[t] \in Closes
           /\ txn[t] = NotBegun => t \notin Committed
BY DEF TypeOK, Works, Posts, Charges, Reverses, Moves, Closes, NotBegun, Committed

(* A transaction begins: it has seen what has committed.                   *)
LEMMA BeginFacts ==
    ASSUME FInv, NEW t \in Txns, NEW work, Begin(t, work),
           \A u \in Txns \ {t} : item'[u] = item[u], UNCHANGED day
    PROVE  /\ StepOf(t)
           /\ txn' = [txn EXCEPT ![t] = work]
           /\ txn'[t] = work /\ before'[t] = Committed
           /\ before' \in [Txns -> SUBSET Txns]
           /\ SawThePast(t)'
           /\ \A u \in Committed : u \in Txns \ {t} /\ txn'[u] = txn[u]
<1>1. t \notin Committed /\ Committed \subseteq Txns
      BY WorkAt DEF FInv, Begin, Committed
<1>2. /\ txn' = [txn EXCEPT ![t] = work] /\ before' = [before EXCEPT ![t] = Committed]
      /\ DOMAIN txn = Txns /\ before \in [Txns -> SUBSET Txns]
      BY DEF Begin, FInv, TypeOK
<1>3. StepOf(t)
      BY <1>1, <1>2 DEF StepOf, Closed
<1>4. before'[t] \subseteq Committed'
      BY <1>2, <1>3, StepFacts
<1> QED
      BY <1>1, <1>2, <1>3, <1>4 DEF SawThePast, StepOf

(* A committed close has closed its day, a committed reversal is on file.  *)
LEMMA WhatCommittedMeans ==
    ASSUME FInv, NEW t \in Committed
    PROVE  /\ txn[t].does = "close" => Closed(txn[t].date)
           /\ txn[t].does = "reverse" => Reversed(txn[t].line)
BY DEF FInv, Orderly, WritesWhenDone, Reversed, Posted, Committed

LEMMA BeginPostKeeps ==
    ASSUME FInv, NEW t \in Txns, NEW f \in Folios, NEW total \in Totals,
           NEW explicit \in BOOLEAN, BeginPost(t, f, total, explicit)
    PROVE  FInv'
<1>1. PICK d \in IF explicit THEN Calendar ELSE {now} :
         /\ BusinessDayOpen(d)
         /\ Begin(t, [does |-> "post", stage |-> IF explicit THEN "dated" ELSE "asserted",
                      folio |-> f, total |-> total, date |-> d, explicit |-> explicit])
      BY DEF BeginPost
<1> DEFINE work == [does |-> "post", stage |-> IF explicit THEN "dated" ELSE "asserted",
                    folio |-> f, total |-> total, date |-> d, explicit |-> explicit]
<1>2. d \in Days /\ total \in Int
      BY FolioLedgerAssumption DEF FInv, TypeOK, Calendar
<1>3. /\ work \in Posts /\ work.does = "post" /\ work.date = d
      /\ work.stage \in {"dated", "asserted"}
      /\ work.stage = "asserted" => ~work.explicit
      BY <1>2 DEF Posts
<1>4. Begin(t, work)
      BY <1>1
<1> HIDE DEF work
<1>5. /\ StepOf(t)
      /\ txn' = [txn EXCEPT ![t] = work]
      /\ txn'[t] = work /\ before'[t] = Committed
      /\ before' \in [Txns -> SUBSET Txns]
      /\ SawThePast(t)'
      /\ \A u \in Committed : u \in Txns \ {t} /\ txn'[u] = txn[u]
      BY <1>4, BeginFacts DEF BeginPost
<1>6. item' = item /\ item[t] = None
      BY <1>5, StepFacts DEF BeginPost
<1>7. TypeOK'
      BY <1>3, <1>5 DEF BeginPost, FInv, TypeOK, Works
<1>8. \A c \in Committed : txn[c].does = "close" => txn[c].date # d
      BY <1>1, WhatCommittedMeans DEF BusinessDayOpen
<1>9. HeedsTheCloses(t)'
      BY <1>3, <1>5, <1>8 DEF HeedsTheCloses, WritesDay
<1>10. Orderly(t)'
      BY <1>3, <1>5, <1>6, <1>9
         DEF Orderly, WritesWhenDone, IsAboutARow, RepeatsNothing, SameWork, CountsItsDay,
             Cancels, Committed
<1> QED
      BY <1>5, <1>7, <1>10, ReportsStay, StepKeeps DEF BeginPost

LEMMA BeginReverseKeeps ==
    ASSUME FInv, NEW t \in Txns, NEW i \in Txns, BeginReverse(t, i)
    PROVE  FInv'
<1> DEFINE work == [does |-> "reverse", stage |-> "checked", line |-> i, date |-> now]
<1>1. work \in Reverses /\ work.does = "reverse" /\ work.stage = "checked" /\ work.line = i
      BY DEF Reverses, FInv, TypeOK
<1>2. Begin(t, work)
      BY DEF BeginReverse
<1> HIDE DEF work
<1>3. /\ StepOf(t)
      /\ txn' = [txn EXCEPT ![t] = work]
      /\ txn'[t] = work /\ before'[t] = Committed
      /\ before' \in [Txns -> SUBSET Txns]
      /\ SawThePast(t)'
      /\ \A u \in Committed : u \in Txns \ {t} /\ txn'[u] = txn[u]
      BY <1>2, BeginFacts DEF BeginReverse
<1>4. item' = item /\ item[t] = None /\ Posted' = Posted /\ t \notin Committed'
      BY <1>1, <1>3, StepFacts DEF BeginReverse, Posted, Committed
<1>5. TypeOK'
      BY <1>1, <1>3 DEF BeginReverse, FInv, TypeOK, Works
<1>6. i \in Posted /\ item[i].kind = "CHARGE"
      BY DEF BeginReverse, FInv, TypeOK, Posted, Items
<1>7. RepeatsNothing(t)'
  <2>1. \A u \in Committed : txn[u].does = "reverse" => txn[u].line # i
        BY WhatCommittedMeans DEF BeginReverse
  <2> QED
        BY <1>1, <1>3, <2>1 DEF RepeatsNothing, SameWork
<1>8. Orderly(t)'
      BY <1>1, <1>3, <1>4, <1>6, <1>7
         DEF Orderly, WritesWhenDone, IsAboutARow, HeedsTheCloses, WritesDay, CountsItsDay,
             Cancels
<1> QED
      BY <1>3, <1>5, <1>8, ReportsStay, StepKeeps DEF BeginReverse

LEMMA BeginMoveKeeps ==
    ASSUME FInv, NEW t \in Txns, NEW i \in Txns, NEW f \in Folios, NEW g \in Folios,
           BeginMove(t, i, f, g)
    PROVE  FInv'
<1> DEFINE work == [does |-> "move", stage |-> "checked", line |-> i, from |-> f, to |-> g]
<1>1. work \in Moves /\ work.does = "move" /\ work.stage = "checked" /\ work.line = i
      BY DEF Moves
<1>2. Begin(t, work)
      BY DEF BeginMove
<1> HIDE DEF work
<1>3. /\ StepOf(t)
      /\ txn' = [txn EXCEPT ![t] = work]
      /\ txn'[t] = work /\ before'[t] = Committed
      /\ before' \in [Txns -> SUBSET Txns]
      /\ SawThePast(t)'
      /\ \A u \in Committed : u \in Txns \ {t} /\ txn'[u] = txn[u]
      BY <1>2, BeginFacts DEF BeginMove
<1>4. item' = item /\ item[t] = None /\ Posted' = Posted /\ t \notin Committed'
      BY <1>1, <1>3, StepFacts DEF BeginMove, Posted, Committed
<1>5. TypeOK'
      BY <1>1, <1>3 DEF BeginMove, FInv, TypeOK, Works
<1>6. HeedsTheCloses(t)'
  <2>1. \A c \in Committed : txn[c].does = "close" => txn[c].date # item[i].day
        BY WhatCommittedMeans DEF BeginMove, BusinessDayOpen
  <2> QED
        BY <1>1, <1>3, <1>4, <2>1 DEF HeedsTheCloses, WritesDay
<1>7. Orderly(t)'
      BY <1>1, <1>3, <1>4, <1>6
         DEF Orderly, WritesWhenDone, IsAboutARow, RepeatsNothing, SameWork, CountsItsDay,
             Cancels, BeginMove
<1> QED
      BY <1>3, <1>5, <1>7, ReportsStay, StepKeeps DEF BeginMove

LEMMA BeginCloseKeeps ==
    ASSUME FInv, NEW t \in Txns, NEW d \in Calendar, BeginClose(t, d)
    PROVE  FInv'
<1> DEFINE work == [does |-> "close", stage |-> "found", date |-> d, items |-> {}]
<1>1. work \in Closes /\ work.does = "close" /\ work.stage = "found" /\ work.date = d
      BY FolioLedgerAssumption DEF Closes
<1>2. Begin(t, work)
      BY DEF BeginClose
<1> HIDE DEF work
<1>3. /\ StepOf(t)
      /\ txn' = [txn EXCEPT ![t] = work]
      /\ txn'[t] = work /\ before'[t] = Committed
      /\ before' \in [Txns -> SUBSET Txns]
      /\ SawThePast(t)'
      /\ \A u \in Committed : u \in Txns \ {t} /\ txn'[u] = txn[u]
      BY <1>2, BeginFacts DEF BeginClose
<1>4. item' = item /\ item[t] = None /\ t \notin Committed'
      BY <1>1, <1>3, StepFacts DEF BeginClose, Committed
<1>5. TypeOK'
      BY <1>1, <1>3 DEF BeginClose, FInv, TypeOK, Works
<1>6. RepeatsNothing(t)'
  <2>1. \A u \in Committed : txn[u].does = "close" => txn[u].date # d
        BY WhatCommittedMeans DEF BeginClose
  <2> QED
        BY <1>1, <1>3, <2>1 DEF RepeatsNothing, SameWork
<1>7. Orderly(t)'
      BY <1>1, <1>3, <1>4, <1>6
         DEF Orderly, WritesWhenDone, IsAboutARow, HeedsTheCloses, WritesDay, CountsItsDay,
             Cancels
<1> QED
      BY <1>3, <1>5, <1>7, ReportsStay, StepKeeps DEF BeginClose

(* A charge is a row of the ledger, and is none of None.                   *)
LEMMA RowTypes ==
    ASSUME TypeOK, NEW f \in Folios, NEW total \in Int, NEW d \in Days
    PROVE  /\ Charge(f, total, d) \in Items /\ Charge(f, total, d).kind = "CHARGE"
           /\ Charge(f, total, d) # None
           /\ \A i \in Posted : /\ item[i] \in Items /\ ReversalOf(i, d) \in Items
                               /\ ReversalOf(i, d) # None
<1>1. Charge(f, total, d) \in Items /\ Charge(f, total, d).kind = "CHARGE"
      BY DEF Charge, Items
<1>2. ASSUME NEW i \in Posted
      PROVE  item[i] \in Items /\ ReversalOf(i, d) \in Items
  <2>1. item[i] \in Items /\ i \in Txns
        BY DEF Posted, TypeOK
  <2>2. item[i].total \in Int /\ -item[i].total \in Int /\ item[i].folio \in Folios
        BY <2>1 DEF Items
  <2> QED
        BY <2>1, <2>2 DEF ReversalOf, Items
<1> QED
      BY <1>1, <1>2, NoneAssumption

LEMMA PosChargeKeeps ==
    ASSUME FInv, NEW t \in Txns, NEW f \in Folios, NEW total \in Totals,
           PosCharge(t, f, total)
    PROVE  FInv'
<1> DEFINE work == [does |-> "charge", stage |-> "committed"]
           row == Charge(f, total, now)
<1>1. /\ work \in Charges /\ work.does = "charge" /\ work.stage = "committed"
      /\ total \in Int /\ now \in Days
      BY FolioLedgerAssumption DEF Charges, FInv, TypeOK
<1>2. row \in Items /\ row.kind = "CHARGE" /\ row # None
      BY <1>1, RowTypes DEF FInv
<1>3. Begin(t, work) /\ item' = [item EXCEPT ![t] = row]
      BY DEF PosCharge
<1> HIDE DEF work, row
<1>4. item \in [Txns -> Items \cup {None}]
      BY DEF FInv, TypeOK
<1>5. /\ item' \in [Txns -> Items \cup {None}]
      /\ item'[t] = row /\ \A u \in Txns \ {t} : item'[u] = item[u]
      BY <1>2, <1>3, <1>4
<1>6. /\ StepOf(t)
      /\ txn' = [txn EXCEPT ![t] = work]
      /\ txn'[t] = work /\ before'[t] = Committed
      /\ before' \in [Txns -> SUBSET Txns]
      /\ SawThePast(t)'
      /\ \A u \in Committed : u \in Txns \ {t} /\ txn'[u] = txn[u]
      BY <1>3, <1>5, BeginFacts DEF PosCharge
<1>7. balance' \in [Folios -> Int]
      BY <1>1 DEF PosCharge, FInv, TypeOK
<1>8. TypeOK'
      BY <1>1, <1>5, <1>6, <1>7 DEF PosCharge, FInv, TypeOK, Works
<1>9. t \in Committed'
      BY <1>1, <1>6 DEF Committed
<1>10. Orderly(t)'
      BY <1>1, <1>2, <1>5, <1>6, <1>9
         DEF Orderly, WritesWhenDone, IsAboutARow, RepeatsNothing, SameWork, HeedsTheCloses,
             WritesDay, CountsItsDay, Cancels
<1> QED
      BY <1>6, <1>8, <1>10, ReportsStay, StepKeeps DEF PosCharge

-----------------------------------------------------------------------------
(* A transaction goes on to its next stage.                                *)
LEMMA AdvanceFacts ==
    ASSUME FInv, NEW t \in Txns, t \notin Committed, NEW work \in Works \cup {NotBegun},
           txn' = [txn EXCEPT ![t] = work], before' = before,
           \A u \in Txns \ {t} : item'[u] = item[u],
           \A d \in Days : Closed(d) => Closed(d)'
    PROVE  /\ StepOf(t)
           /\ txn'[t] = work /\ txn' \in [Txns -> Works \cup {NotBegun}]
           /\ SawThePast(t)'
           /\ \A u \in before[t] : u \in Txns \ {t} /\ txn'[u] = txn[u]
<1>1. txn \in [Txns -> Works \cup {NotBegun}]
      BY DEF FInv, TypeOK
<1>2. /\ txn'[t] = work /\ txn' \in [Txns -> Works \cup {NotBegun}]
      /\ \A u \in Txns \ {t} : txn'[u] = txn[u]
      BY <1>1
<1>3. StepOf(t)
      BY <1>2 DEF StepOf
<1>4. before[t] \subseteq Committed /\ Committed \subseteq Txns
      BY DEF FInv, Orderly, SawThePast, Committed
<1>5. SawThePast(t)'
      BY <1>3, <1>4, StepFacts DEF SawThePast
<1> QED
      BY <1>2, <1>3, <1>4, <1>5

LEMMA PickDayKeeps ==
    ASSUME FInv, NEW t \in Txns, PickDay(t)
    PROVE  FInv'
<1>1. PICK d \in Days : txn' = [txn EXCEPT ![t].stage = "dated", ![t].date = d]
      BY DEF PickDay
<1> DEFINE work == [txn[t] EXCEPT !.stage = "dated", !.date = d]
<1>2. txn[t] \in Posts /\ t \notin Committed
      BY WorkAt DEF FInv, PickDay, Committed
<1>3. /\ work \in Posts /\ work.stage = "dated" /\ work.does = "post"
      /\ work.explicit = txn[t].explicit
      BY <1>2 DEF Posts
<1>4. ~txn[t].explicit
      BY DEF FInv, Orderly, HeedsTheCloses, PickDay
<1>5. txn' = [txn EXCEPT ![t] = work]
      BY <1>1 DEF FInv, TypeOK
<1> HIDE DEF work
<1>6. work \in Works
      BY <1>3 DEF Works
<1>7. /\ StepOf(t)
      /\ txn'[t] = work /\ txn' \in [Txns -> Works \cup {NotBegun}]
      /\ SawThePast(t)'
      /\ \A u \in before[t] : u \in Txns \ {t} /\ txn'[u] = txn[u]
      BY <1>2, <1>5, <1>6, AdvanceFacts DEF PickDay, Closed
<1>8. item' = item /\ item[t] = None /\ t \notin Committed'
      BY <1>3, <1>7, StepFacts DEF PickDay, Committed
<1>9. TypeOK'
      BY <1>7 DEF PickDay, FInv, TypeOK
<1>10. Orderly(t)'
      BY <1>3, <1>4, <1>7, <1>8
         DEF Orderly, WritesWhenDone, IsAboutARow, RepeatsNothing, SameWork, HeedsTheCloses,
             WritesDay, CountsItsDay, Cancels
<1> QED
      BY <1>7, <1>9, <1>10, ReportsStay, StepKeeps DEF PickDay

LEMMA CommitPostKeeps ==
    ASSUME FInv, NEW t \in Txns, CommitPost(t)
    PROVE  FInv'
<1> DEFINE work == [txn[t] EXCEPT !.stage = "committed"]
           row == Charge(txn[t].folio, txn[t].total, txn[t].date)
<1>1. txn[t] \in Posts /\ t \notin Committed
      BY WorkAt DEF FInv, CommitPost, Committed
<1>2. /\ work \in Posts /\ work.stage = "committed" /\ work.does = "post"
      /\ work.explicit = txn[t].explicit /\ work.date = txn[t].date
      /\ txn[t].folio \in Folios /\ txn[t].total \in Int /\ txn[t].date \in Days
      /\ txn[t].does = "post"
      BY <1>1 DEF Posts
<1>3. row \in Items /\ row.kind = "CHARGE" /\ row # None
      BY <1>2, RowTypes DEF FInv
<1>4. /\ txn' = [txn EXCEPT ![t] = work] /\ item' = [item EXCEPT ![t] = row]
      /\ item \in [Txns -> Items \cup {None}]
      BY DEF CommitPost, Advance, FInv, TypeOK
<1> HIDE DEF work, row
<1>5. /\ item' \in [Txns -> Items \cup {None}]
      /\ item'[t] = row /\ \A u \in Txns \ {t} : item'[u] = item[u]
      BY <1>3, <1>4
<1>6. work \in Works
      BY <1>2 DEF Works
<1>7. /\ StepOf(t)
      /\ txn'[t] = work /\ txn' \in [Txns -> Works \cup {NotBegun}]
      /\ SawThePast(t)'
      /\ \A u \in before[t] : u \in Txns \ {t} /\ txn'[u] = txn[u]
      BY <1>1, <1>4, <1>5, <1>6, AdvanceFacts DEF CommitPost, Closed
<1>8. t \in Committed'
      BY <1>2, <1>7 DEF Committed
<1>9. balance' \in [Folios -> Int]
      BY <1>2 DEF CommitPost, FInv, TypeOK
<1>10. TypeOK'
      BY <1>5, <1>7, <1>9 DEF CommitPost, FInv, TypeOK
<1>11. HeedsTheCloses(t)'
      BY <1>2, <1>7 DEF FInv, Orderly, HeedsTheCloses, WritesDay, CommitPost
<1>12. Orderly(t)'
      BY <1>2, <1>3, <1>5, <1>7, <1>8, <1>11
         DEF Orderly, WritesWhenDone, IsAboutARow, RepeatsNothing, SameWork,
             CountsItsDay, Cancels
<1> QED
      BY <1>7, <1>10, <1>12, ReportsStay, StepKeeps DEF CommitPost

LEMMA CommitReverseKeeps ==
    ASSUME FInv, NEW t \in Txns, CommitReverse(t)
    PROVE  FInv'
<1> DEFINE work == [txn[t] EXCEPT !.stage = "committed"]
           i == txn[t].line
<1>1. txn[t] \in Reverses /\ t \notin Committed
      BY WorkAt DEF FInv, CommitReverse, Committed
<1>2. /\ work \in Reverses /\ work.stage = "committed" /\ work.does = "reverse"
      /\ work.line = i /\ txn[t].does = "reverse" /\ txn[t].date \in Calendar
      BY <1>1 DEF Reverses
<1>3. i \in Posted /\ item[i].kind = "CHARGE"
      BY <1>2 DEF FInv, Orderly, IsAboutARow
<1>4. PICK d \in txn[t].date .. now : item' = [item EXCEPT ![t] = ReversalOf(i, d)]
      BY DEF CommitReverse
<1> DEFINE row == ReversalOf(i, d)
<1>5. d \in Days
  <2>1. d \in Calendar
        BY <1>2, FolioLedgerAssumption DEF Calendar, FInv, TypeOK
  <2> QED
        BY <2>1, FolioLedgerAssumption
<1>6. item[i] \in Items /\ row \in Items /\ row # None
  <2>1. item[i].folio \in Folios /\ item[i].total \in Int
        BY <1>3 DEF FInv, TypeOK, Posted, Items
  <2> QED
        BY <1>3, <1>5, <2>1, RowTypes DEF FInv
<1>7. /\ row.kind = "REVERSAL" /\ row.reverses = i /\ row.folio = item[i].folio
      /\ item[i].total + row.total = 0
  <2>1. item[i].total \in Int
        BY <1>6 DEF Items
  <2> QED
        BY <2>1 DEF ReversalOf
<1>8. /\ txn' = [txn EXCEPT ![t] = work] /\ item' = [item EXCEPT ![t] = row]
      /\ item \in [Txns -> Items \cup {None}]
      BY <1>4 DEF CommitReverse, Advance, FInv, TypeOK
<1>9. balance' \in [Folios -> Int]
      BY <1>6 DEF CommitReverse, FInv, TypeOK, Items
<1> HIDE DEF work, row, i
<1>10. /\ item' \in [Txns -> Items \cup {None}]
       /\ item'[t] = row /\ \A u \in Txns \ {t} : item'[u] = item[u]
      BY <1>6, <1>8
<1>11. work \in Works
      BY <1>2 DEF Works
<1>12. /\ StepOf(t)
       /\ txn'[t] = work /\ txn' \in [Txns -> Works \cup {NotBegun}]
       /\ SawThePast(t)'
       /\ \A u \in before[t] : u \in Txns \ {t} /\ txn'[u] = txn[u]
      BY <1>1, <1>8, <1>10, <1>11, AdvanceFacts DEF CommitReverse, Closed
<1>13. t \in Committed' /\ before' = before
      BY <1>2, <1>12 DEF Committed, CommitReverse
<1>14. TypeOK'
      BY <1>9, <1>10, <1>12 DEF CommitReverse, FInv, TypeOK
<1>15. i \in Posted' /\ item'[i] = item[i]
      BY <1>3, <1>12, StepFacts
<1>16. RepeatsNothing(t)'
      BY <1>2, <1>12, <1>13 DEF FInv, Orderly, RepeatsNothing, SameWork, i
<1>17. Cancels(t)'
      BY <1>3, <1>7, <1>10, <1>15 DEF Cancels
<1>18. WritesWhenDone(t)' /\ IsAboutARow(t)'
      BY <1>2, <1>3, <1>6, <1>7, <1>10, <1>12, <1>13, <1>15
         DEF WritesWhenDone, IsAboutARow
<1>19. HeedsTheCloses(t)' /\ CountsItsDay(t)'
      BY <1>2, <1>12 DEF HeedsTheCloses, WritesDay, CountsItsDay
<1>20. Orderly(t)'
      BY <1>12, <1>16, <1>17, <1>18, <1>19 DEF Orderly
<1> QED
      BY <1>12, <1>14, <1>20, ReportsStay, StepKeeps DEF CommitReverse

LEMMA CommitMoveKeeps ==
    ASSUME FInv, NEW t \in Txns, CommitMove(t)
    PROVE  FInv'
<1> DEFINE work == [txn[t] EXCEPT !.stage = "committed"]
           move == [from |-> txn[t].from, to |-> txn[t].to, line |-> txn[t].line]
<1>1. txn[t] \in Moves /\ t \notin Committed
      BY WorkAt DEF FInv, CommitMove, Committed
<1>2. /\ work \in Moves /\ work.stage = "committed" /\ work.does = "move"
      /\ work.line = txn[t].line /\ txn[t].does = "move"
      /\ txn[t].from \in Folios /\ txn[t].to \in Folios /\ move \in FolioTransfers
      BY <1>1 DEF Moves, FolioTransfers
<1>3. txn[t].line \in Posted
      BY <1>2 DEF FInv, Orderly, IsAboutARow
<1>4. item[txn[t].line].total \in Int
      BY <1>3 DEF FInv, TypeOK, Posted, Items
<1>5. balance' \in [Folios -> Int]
      BY <1>2, <1>4 DEF CommitMove, FInv, TypeOK
<1>6. transfer' \in [Txns -> FolioTransfers \cup {None}]
      BY <1>2 DEF CommitMove, FInv, TypeOK
<1>7. txn' = [txn EXCEPT ![t] = work] /\ item' = item
      BY DEF CommitMove, Advance, FInv, TypeOK
<1> HIDE DEF work, move
<1>8. work \in Works
      BY <1>2 DEF Works
<1>9. /\ StepOf(t)
      /\ txn'[t] = work /\ txn' \in [Txns -> Works \cup {NotBegun}]
      /\ SawThePast(t)'
      /\ \A u \in before[t] : u \in Txns \ {t} /\ txn'[u] = txn[u]
      BY <1>1, <1>7, <1>8, AdvanceFacts DEF CommitMove, Closed
<1>10. /\ item[t] = None /\ Posted' = Posted /\ before' = before
      BY <1>7, <1>9, StepFacts DEF Posted, CommitMove
<1>11. TypeOK'
      BY <1>5, <1>6, <1>9 DEF CommitMove, FInv, TypeOK
<1>12. HeedsTheCloses(t)'
      BY <1>2, <1>7, <1>9, <1>10 DEF FInv, Orderly, HeedsTheCloses, WritesDay
<1>13. Orderly(t)'
      BY <1>2, <1>3, <1>7, <1>9, <1>10, <1>12
         DEF Orderly, WritesWhenDone, IsAboutARow, RepeatsNothing, SameWork, CountsItsDay,
             Cancels
<1> QED
      BY <1>9, <1>11, <1>13, ReportsStay, StepKeeps DEF CommitMove

LEMMA SumItemsKeeps ==
    ASSUME FInv, NEW t \in Txns, SumItems(t)
    PROVE  FInv'
<1> DEFINE work == [txn[t] EXCEPT !.stage = "summed", !.items = ItemsOn(txn[t].date)]
<1>1. txn[t] \in Closes /\ t \notin Committed
      BY WorkAt DEF FInv, SumItems, Committed
<1>2. ItemsOn(txn[t].date) \in SUBSET Txns
      BY DEF ItemsOn, Posted
<1>3. /\ work \in Closes /\ work.stage = "summed" /\ work.does = "close"
      /\ work.date = txn[t].date /\ work.items = ItemsOn(txn[t].date)
      /\ txn[t].does = "close"
      BY <1>1, <1>2 DEF Closes
<1>4. txn' = [txn EXCEPT ![t] = work]
      BY DEF SumItems, FInv, TypeOK
<1> HIDE DEF work
<1>5. work \in Works
      BY <1>3 DEF Works
<1>6. /\ StepOf(t)
      /\ txn'[t] = work /\ txn' \in [Txns -> Works \cup {NotBegun}]
      /\ SawThePast(t)'
      /\ \A u \in before[t] : u \in Txns \ {t} /\ txn'[u] = txn[u]
      BY <1>1, <1>4, <1>5, AdvanceFacts DEF SumItems, Closed
<1>7. /\ item' = item /\ item[t] = None /\ before' = before /\ t \notin Committed'
      /\ \A d : ItemsOn(d)' = ItemsOn(d)
      BY <1>3, <1>6, StepFacts DEF Posted, SumItems, Committed, ItemsOn
<1>8. TypeOK'
      BY <1>6 DEF SumItems, FInv, TypeOK
<1>9. RepeatsNothing(t)'
      BY <1>3, <1>6, <1>7 DEF FInv, Orderly, RepeatsNothing, SameWork
<1>10. CountsItsDay(t)'
      BY <1>3, <1>6, <1>7 DEF CountsItsDay
<1>11. Orderly(t)'
      BY <1>3, <1>6, <1>7, <1>9, <1>10
         DEF Orderly, WritesWhenDone, IsAboutARow, HeedsTheCloses, WritesDay, Cancels
<1> QED
      BY <1>6, <1>8, <1>11, ReportsStay, StepKeeps DEF SumItems

LEMMA CommitCloseKeeps ==
    ASSUME FInv, NEW t \in Txns, CommitClose(t)
    PROVE  FInv'
<1> DEFINE work == [txn[t] EXCEPT !.stage = "committed"]
           audit == [by |-> t, items |-> txn[t].items]
<1>1. txn[t] \in Closes /\ t \notin Committed
      BY WorkAt DEF FInv, CommitClose, Committed
<1>2. /\ work \in Closes /\ work.stage = "committed" /\ work.does = "close"
      /\ work.date = txn[t].date /\ work.items = txn[t].items
      /\ txn[t].does = "close" /\ txn[t].date \in Days /\ audit \in Reports
      BY <1>1 DEF Closes, Reports
<1>3. /\ day' = [day EXCEPT ![txn[t].date] = "CLOSED"]
      /\ day \in [Days -> {"NONE", "OPEN", "CLOSED"}]
      BY DEF CommitClose, FInv, TypeOK
<1>4. /\ day' \in [Days -> {"NONE", "OPEN", "CLOSED"}]
      /\ day'[txn[t].date] = "CLOSED" /\ \A d \in Days : Closed(d) => Closed(d)'
      BY <1>2, <1>3 DEF Closed
<1>5. /\ txn' = [txn EXCEPT ![t] = work]
      /\ report' = [report EXCEPT ![txn[t].date] = audit]
      /\ report \in [Days -> Reports \cup {None}]
      BY DEF CommitClose, Advance, FInv, TypeOK
<1>6. audit.by = t /\ audit.items = txn[t].items
      OBVIOUS
<1> HIDE DEF work, audit
<1>7. /\ report' \in [Days -> Reports \cup {None}]
      /\ report'[txn[t].date] = audit
      /\ \A d \in Days \ {txn[t].date} : report'[d] = report[d]
      BY <1>2, <1>5
<1>8. work \in Works
      BY <1>2 DEF Works
<1>9. /\ StepOf(t)
      /\ txn'[t] = work /\ txn' \in [Txns -> Works \cup {NotBegun}]
      /\ SawThePast(t)'
      /\ \A u \in before[t] : u \in Txns \ {t} /\ txn'[u] = txn[u]
      BY <1>1, <1>4, <1>5, <1>8, AdvanceFacts DEF CommitClose
<1>10. /\ item' = item /\ item[t] = None /\ before' = before /\ t \in Committed'
       /\ \A d : ItemsOn(d)' = ItemsOn(d)
      BY <1>2, <1>9, StepFacts DEF Posted, CommitClose, Committed, ItemsOn
<1>11. TypeOK'
      BY <1>4, <1>7, <1>9 DEF CommitClose, FInv, TypeOK
<1>12. RepeatsNothing(t)'
      BY <1>2, <1>9, <1>10 DEF FInv, Orderly, RepeatsNothing, SameWork
<1>13. CountsItsDay(t)'
      BY <1>2, <1>9, <1>10 DEF FInv, Orderly, CountsItsDay, CommitClose
<1>14. Orderly(t)'
      BY <1>2, <1>4, <1>9, <1>10, <1>12, <1>13
         DEF Orderly, WritesWhenDone, IsAboutARow, HeedsTheCloses, WritesDay, Cancels, Closed
<1>15. ReportIsAnAudits'
  <2>1. ASSUME NEW d \in Days, d # txn[t].date, report[d] # None
        PROVE  /\ report[d].by \in Committed' /\ txn'[report[d].by] = txn[report[d].by]
    <3>1. report[d].by \in Committed /\ Committed \subseteq Txns \ {t}
          BY <1>1, <2>1 DEF FInv, ReportIsAnAudits, Committed
    <3> QED
          BY <1>9, <3>1, StepFacts DEF StepOf
  <2> QED
        BY <1>2, <1>6, <1>7, <1>9, <1>10, <2>1 DEF FInv, ReportIsAnAudits
<1> QED
      BY <1>9, <1>11, <1>14, <1>15, StepKeeps

LEMMA RollbackKeeps ==
    ASSUME FInv, NEW t \in Txns, Rollback(t)
    PROVE  FInv'
<1>1. /\ t \notin Committed
      /\ txn \in [Txns -> Works \cup {NotBegun}] /\ before \in [Txns -> SUBSET Txns]
      BY DEF Rollback, Committed, FInv, TypeOK
<1>2. /\ txn' \in [Txns -> Works \cup {NotBegun}] /\ before' \in [Txns -> SUBSET Txns]
      /\ txn'[t] = NotBegun /\ before'[t] = {}
      /\ \A u \in Txns \ {t} : txn'[u] = txn[u] /\ before'[u] = before[u]
      BY <1>1 DEF Rollback
<1>3. StepOf(t)
      BY <1>1, <1>2 DEF StepOf, Rollback, Closed
<1>4. item' = item /\ item[t] = None /\ t \notin Committed'
      BY <1>2, <1>3, StepFacts DEF Rollback, Committed, NotBegun
<1>5. TypeOK'
      BY <1>2 DEF Rollback, FInv, TypeOK
<1>6. Orderly(t)'
      BY <1>2, <1>4
         DEF Orderly, SawThePast, WritesWhenDone, IsAboutARow, RepeatsNothing,
             HeedsTheCloses, CountsItsDay, Cancels, NotBegun
<1> QED
      BY <1>3, <1>5, <1>6, ReportsStay, StepKeeps DEF Rollback

(* Time and whoever opens the day touch no record.                         *)
LEMMA ClockKeeps ==
    ASSUME FInv, OpenToday \/ Midnight \/ UNCHANGED vars
    PROVE  FInv'
<1>1. UNCHANGED <<report, item, transfer, balance, txn, before>>
      BY DEF OpenToday, Midnight, vars
<1>2. TypeOK' /\ \A d \in Days : Closed(d) => Closed(d)'
  <2>1. now' \in Calendar
        BY FolioLedgerAssumption DEF OpenToday, Midnight, vars, FInv, TypeOK, Calendar
  <2>2. day' \in [Days -> {"NONE", "OPEN", "CLOSED"}] /\ \A d \in Days : Closed(d) => Closed(d)'
        BY DEF OpenToday, Midnight, vars, FInv, TypeOK, Closed
  <2> QED
        BY <1>1, <2>1, <2>2 DEF FInv, TypeOK
<1>3. Posted' = Posted /\ Committed' = Committed /\ \A d : ItemsOn(d)' = ItemsOn(d)
      BY <1>1 DEF Posted, Committed, ItemsOn
<1>4. ASSUME NEW u \in Txns PROVE Orderly(u)'
  <2>1. u \in Committed /\ txn[u].does = "close" => txn[u].date \in Days
        BY DEF FInv, TypeOK, Committed, Works, Posts, Charges, Reverses, Moves, Closes,
               NotBegun
  <2> QED
        BY <1>1, <1>2, <1>3, <2>1
           DEF FInv, Orderly, SawThePast, WritesWhenDone, IsAboutARow, RepeatsNothing,
               SameWork, HeedsTheCloses, WritesDay, CountsItsDay, Cancels
<1>5. ReportIsAnAudits'
      BY <1>1, <1>3 DEF FInv, ReportIsAnAudits
<1> QED
      BY <1>2, <1>4, <1>5 DEF FInv

-----------------------------------------------------------------------------
LEMMA FInvInit == Init => FInv
<1> SUFFICES ASSUME Init PROVE FInv
      OBVIOUS
<1>1. TypeOK
      BY FolioLedgerAssumption DEF Init, TypeOK, Calendar
<1>2. ASSUME NEW u \in Txns PROVE Orderly(u)
      BY DEF Init, Orderly, SawThePast, WritesWhenDone, IsAboutARow, RepeatsNothing,
             HeedsTheCloses, CountsItsDay, Cancels, NotBegun, Committed
<1>3. ReportIsAnAudits
      BY DEF Init, ReportIsAnAudits
<1> QED
      BY <1>1, <1>2, <1>3 DEF FInv

LEMMA FInvStep == FInv /\ [Next]_vars => FInv'
<1> SUFFICES ASSUME FInv, [Next]_vars PROVE FInv'
      OBVIOUS
<1> QED
      BY BeginPostKeeps, PosChargeKeeps, BeginReverseKeeps, BeginMoveKeeps, BeginCloseKeeps,
         PickDayKeeps, CommitPostKeeps, CommitReverseKeeps, CommitMoveKeeps, SumItemsKeeps,
         CommitCloseKeeps, RollbackKeeps, ClockKeeps DEF Next, Quiet

LEMMA FInvAlways == Spec => []FInv
BY FInvInit, FInvStep, PTL DEF Spec

(* Every variable keeps its type; a posting is dated on a calendar day.    *)
THEOREM LedgerTypeCorrectness == Spec => []TypeOK
<1>1. FInv => TypeOK
      BY DEF FInv
<1> QED
      BY <1>1, FInvAlways, PTL

(* An item is reversed twice, or a day closed twice, only by transactions  *)
(* that overlapped (ledger.ts:143-153, 260-265).                           *)
THEOREM OnlyOverlapsRepeat == Spec => []RepeatsOverlap
<1>1. FInv => RepeatsOverlap
      BY DEF FInv, Orderly, RepeatsNothing, RepeatsOverlap, Committed
<1> QED
      BY <1>1, FInvAlways, PTL

(* A guarded write that began after the close of its day had committed     *)
(* never commits, for any number of folios and days (ledger.ts:56-64,      *)
(* 251-253).                                                               *)
THEOREM ClosedDayRefuses == Spec => []ClosedDayRefusesGuardedWrites
<1>1. FInv => ClosedDayRefusesGuardedWrites
      BY DEF FInv, Orderly, HeedsTheCloses, ClosedDayRefusesGuardedWrites, Committed
<1> QED
      BY <1>1, FInvAlways, PTL

(* The report of a closed day has every item of the day that had committed *)
(* when its audit began (ledger.ts:266-287).                               *)
THEOREM ReportCountsTheDay == Spec => []ReportIsComplete
<1>1. ASSUME FInv, NEW d \in Days, report[d] # None
      PROVE  /\ report[d].items \subseteq ItemsOn(d)
             /\ ItemsOn(d) \cap before[report[d].by] \subseteq report[d].items
  <2> DEFINE t == report[d].by
  <2>1. /\ t \in Txns /\ txn[t].stage = "committed" /\ txn[t].does = "close"
        /\ txn[t].date = d /\ report[d].items = txn[t].items
        BY <1>1 DEF FInv, ReportIsAnAudits, Committed
  <2>2. CountsItsDay(t)
        BY <1>1, <2>1 DEF FInv, Orderly
  <2> QED
        BY <2>1, <2>2 DEF CountsItsDay
<1>2. FInv => ReportIsComplete
      BY <1>1 DEF ReportIsComplete
<1> QED
      BY <1>2, FInvAlways, PTL

(* A reversal cancels a charge of its own folio, and none is reversed      *)
(* itself (ledger.ts:135-139, 155-170).                                    *)
THEOREM ReversalsCancel == Spec => []ReversalsCancelCharges
<1>1. FInv => ReversalsCancelCharges
      BY DEF FInv, Orderly, Cancels, ReversalsCancelCharges, Posted
<1> QED
      BY <1>1, FInvAlways, PTL

-----------------------------------------------------------------------------
(* Sums over finite sets.                                                  *)

(* A set of subsets of a finite set has a member that includes no other.   *)
LEMMA SmallestSubset ==
    ASSUME NEW S, IsFiniteSet(S), NEW C \in SUBSET SUBSET S, C # {}
    PROVE  \E m \in C : \A T \in C : T \subseteq m => T = m
<1> DEFINE R == StrictSubsetOrdering(S)
<1>1. C \subseteq FiniteSubsetsOf(S)
      BY FS_FiniteSubsetsOfFinite
<1>2. IsWellFoundedOn(R, FiniteSubsetsOf(S))
      BY FS_StrictSubsetOrderingWellFounded
<1> HIDE DEF R
<1>3. PICK m \in C : \A T \in C : ~ (<<T, m>> \in R)
      BY <1>1, <1>2, WFMin
<1>4. \A T \in C : T \subseteq m => T = m
      BY <1>3 DEF R, StrictSubsetOrdering
<1> QED
      BY <1>4

(* What the community module's sum computes, one element after another.    *)
Chosen(s) == CHOOSE x \in s : TRUE
Rest(s) == s \ {Chosen(s)}
Adds(f, g, S) ==
    g = [s \in SUBSET S |-> IF s = {} THEN 0 ELSE f[Chosen(s)] + g[Rest(s)]]

SumBy(f, S) == (CHOOSE a : Adds(f, a, S))[S]

LEMMA SumIs ==
    ASSUME NEW f, NEW S
    PROVE  SumFunctionOnSet(f, S) = SumBy(f, S)
BY DEF SumFunctionOnSet, FoldFunctionOnSet, MapThenFoldSet, Adds, Chosen, Rest, SumBy

LEMMA AddsAt ==
    ASSUME NEW f, NEW g, NEW S, Adds(f, g, S), NEW s \in SUBSET S
    PROVE  /\ s = {} => g[s] = 0
           /\ s # {} => /\ Chosen(s) \in s /\ Rest(s) \in SUBSET s /\ Rest(s) # s
                        /\ g[s] = f[Chosen(s)] + g[Rest(s)]
<1>1. g[s] = IF s = {} THEN 0 ELSE f[Chosen(s)] + g[Rest(s)]
      BY DEF Adds
<1>2. s # {} => Chosen(s) \in s
      BY DEF Chosen
<1> QED
      BY <1>1, <1>2 DEF Rest

LEMMA AddsAgree ==
    ASSUME NEW f, NEW h, NEW S, NEW T, IsFiniteSet(S), NEW g, NEW k, Adds(f, g, S), Adds(h, k, T),
           S \subseteq T, \A x \in S : f[x] = h[x]
    PROVE  \A s \in SUBSET S : g[s] = k[s]
<1> DEFINE C == {s \in SUBSET S : g[s] # k[s]}
<1>1. SUFFICES ASSUME C # {} PROVE FALSE
      OBVIOUS
<1>2. PICK m \in C : \A s \in C : s \subseteq m => s = m
  <2>1. C \in SUBSET SUBSET S
        OBVIOUS
  <2> HIDE DEF C
  <2> QED
        BY <1>1, <2>1, SmallestSubset
<1>3. m \in SUBSET S /\ m \in SUBSET T /\ g[m] # k[m]
      BY <1>2
<1>4. m # {} /\ Chosen(m) \in m /\ Rest(m) \in SUBSET m /\ Rest(m) # m
      BY <1>3, AddsAt
<1>5. g[m] = f[Chosen(m)] + g[Rest(m)] /\ k[m] = h[Chosen(m)] + k[Rest(m)]
      BY <1>3, <1>4, AddsAt
<1>6. g[Rest(m)] = k[Rest(m)]
      BY <1>2, <1>3, <1>4
<1> QED
      BY <1>3, <1>4, <1>5, <1>6

LEMMA AddsExists ==
    ASSUME NEW f, NEW S, IsFiniteSet(S)
    PROVE  Adds(f, CHOOSE a : Adds(f, a, S), S)
<1> DEFINE C == {s \in SUBSET S : ~ \E g : Adds(f, g, s)}
<1>1. SUFFICES ASSUME C # {} PROVE FALSE
  <2>1. S \notin C => \E g : Adds(f, g, S)
        OBVIOUS
  <2> QED
        BY <2>1
<1>2. PICK m \in C : \A s \in C : s \subseteq m => s = m
  <2>1. C \in SUBSET SUBSET S
        OBVIOUS
  <2> HIDE DEF C
  <2> QED
        BY <1>1, <2>1, SmallestSubset
<1>3. m \in SUBSET S
      BY <1>2
<1> DEFINE sum == [s \in SUBSET m |-> IF s = {} THEN 0 ELSE f[Chosen(s)] + SumBy(f, Rest(s))]
<1>4. ASSUME NEW s \in SUBSET m, s # m
      PROVE  Adds(f, CHOOSE a : Adds(f, a, s), s)
  <2>1. s \notin C
        BY <1>2, <1>4
  <2>2. \E g : Adds(f, g, s)
        BY <1>3, <2>1
  <2> QED
        BY <2>2
<1>5. ASSUME NEW s \in SUBSET m, s # m
      PROVE  sum[s] = SumBy(f, s)
  <2> DEFINE g == CHOOSE a : Adds(f, a, s)
             k == CHOOSE a : Adds(f, a, Rest(s))
  <2>1. Adds(f, g, s)
        BY <1>4, <1>5
  <2>2. CASE s = {}
    <3>1. g[s] = 0
          BY <2>1, <2>2, AddsAt
    <3> QED
          BY <2>2, <3>1 DEF SumBy
  <2>3. CASE s # {}
    <3>1. Chosen(s) \in s /\ Rest(s) \in SUBSET s /\ Rest(s) # s /\ g[s] = f[Chosen(s)] + g[Rest(s)]
          BY <2>1, <2>3, AddsAt
    <3>2. Rest(s) \in SUBSET m /\ Rest(s) # m
          BY <3>1
    <3>3. Adds(f, k, Rest(s))
          BY <1>4, <3>2
    <3>4. IsFiniteSet(Rest(s))
          BY <1>3, <3>2, FS_Subset
    <3> HIDE DEF g, k
    <3>5. k[Rest(s)] = g[Rest(s)]
          BY <2>1, <3>1, <3>3, <3>4, AddsAgree
    <3>6. SumBy(f, s) = g[s] /\ SumBy(f, Rest(s)) = k[Rest(s)]
          BY DEF SumBy, g, k
    <3> QED
          BY <2>3, <3>1, <3>5, <3>6
  <2> QED
        BY <2>2, <2>3
<1>6. Adds(f, sum, m)
  <2>1. ASSUME NEW s \in SUBSET m
        PROVE  sum[s] = IF s = {} THEN 0 ELSE f[Chosen(s)] + sum[Rest(s)]
    <3>1. CASE s = {}
          BY <3>1
    <3>2. CASE s # {}
      <4>1. Chosen(s) \in s
            BY <3>2 DEF Chosen
      <4>2. Rest(s) \in SUBSET m /\ Rest(s) # m
            BY <4>1 DEF Rest
      <4>3. sum[Rest(s)] = SumBy(f, Rest(s))
            BY <4>2, <1>5
      <4> QED
            BY <3>2, <4>3
    <3> QED
          BY <3>1, <3>2
  <2>2. sum = [s \in SUBSET m |-> sum[s]]
        OBVIOUS
  <2> HIDE DEF sum
  <2> QED
        BY <2>1, <2>2 DEF Adds
<1> QED
      BY <1>2, <1>6

(* A sum over nothing, and over what has an element.                       *)
LEMMA SumRule ==
    ASSUME NEW f, NEW S, IsFiniteSet(S)
    PROVE  /\ S = {} => SumBy(f, S) = 0
           /\ S # {} => /\ Chosen(S) \in S /\ Rest(S) \in SUBSET S /\ Rest(S) # S
                        /\ SumBy(f, S) = f[Chosen(S)] + SumBy(f, Rest(S))
<1> DEFINE g == CHOOSE a : Adds(f, a, S)
           k == CHOOSE a : Adds(f, a, Rest(S))
<1>1. Adds(f, g, S) /\ SumBy(f, S) = g[S]
      BY AddsExists DEF SumBy
<1>2. CASE S = {}
      BY <1>1, <1>2, AddsAt
<1>3. CASE S # {}
  <2>1. Chosen(S) \in S /\ Rest(S) \in SUBSET S /\ Rest(S) # S /\ g[S] = f[Chosen(S)] + g[Rest(S)]
        BY <1>1, <1>3, AddsAt
  <2>2. IsFiniteSet(Rest(S))
        BY <2>1, FS_Subset
  <2>3. Adds(f, k, Rest(S)) /\ SumBy(f, Rest(S)) = k[Rest(S)]
        BY <2>2, AddsExists DEF SumBy
  <2> HIDE DEF g, k
  <2>4. k[Rest(S)] = g[Rest(S)]
    <3>1. \A s \in SUBSET Rest(S) : k[s] = g[s]
      <4>1. Rest(S) \subseteq S /\ \A x \in Rest(S) : f[x] = f[x]
            BY <2>1
      <4> QED
            BY <1>1, <2>2, <2>3, <4>1, AddsAgree
    <3> QED
          BY <3>1
  <2> QED
        BY <1>1, <1>3, <2>1, <2>3, <2>4
<1> QED
      BY <1>2, <1>3

(* Two functions that agree on a set have one sum over it.                 *)
LEMMA SumsAgree ==
    ASSUME NEW f, NEW h, NEW S, IsFiniteSet(S), \A x \in S : f[x] = h[x]
    PROVE  SumFunctionOnSet(f, S) = SumFunctionOnSet(h, S)
<1> DEFINE g == CHOOSE a : Adds(f, a, S)
           k == CHOOSE a : Adds(h, a, S)
<1>1. Adds(f, g, S) /\ Adds(h, k, S)
      BY AddsExists
<1>2. SumBy(f, S) = g[S] /\ SumBy(h, S) = k[S]
      BY DEF SumBy
<1> HIDE DEF g, k
<1>3. \A s \in SUBSET S : g[s] = k[s]
      BY <1>1, AddsAgree
<1> QED
      BY <1>2, <1>3, SumIs

(* The order in which the elements are taken does not matter.              *)
LEMMA SumOfElement ==
    ASSUME NEW S, IsFiniteSet(S), NEW f, \A x \in S : f[x] \in Int
    PROVE  /\ SumBy(f, S) \in Int
           /\ \A x \in S : SumBy(f, S) = f[x] + SumBy(f, S \ {x})
<1> DEFINE Good(T) == /\ SumBy(f, T) \in Int
                      /\ \A x \in T : SumBy(f, T) = f[x] + SumBy(f, T \ {x})
           C == {T \in SUBSET S : ~Good(T)}
<1>1. SUFFICES ASSUME C # {} PROVE FALSE
      OBVIOUS
<1>2. PICK m \in C : \A T \in C : T \subseteq m => T = m
  <2>1. C \in SUBSET SUBSET S
        OBVIOUS
  <2> HIDE DEF C
  <2> QED
        BY <1>1, <2>1, SmallestSubset
<1>3. m \in SUBSET S /\ IsFiniteSet(m) /\ ~Good(m)
      BY <1>2, FS_Subset
<1>4. \A T \in SUBSET m : T # m => Good(T)
      BY <1>2, <1>3
<1> HIDE DEF C
<1>5. CASE m = {}
  <2>1. SumBy(f, m) = 0
        BY <1>3, <1>5, SumRule
  <2> QED
        BY <1>3, <1>5, <2>1
<1>6. CASE m # {}
  <2> DEFINE y == Chosen(m)
             n == m \ {y}
  <2>1. y \in m /\ SumBy(f, m) = f[y] + SumBy(f, n)
        BY <1>3, <1>6, SumRule DEF Rest
  <2>2. n \in SUBSET m /\ n # m /\ f[y] \in Int
        BY <1>3, <2>1
  <2> HIDE DEF y
  <2>3. Good(n)
        BY <1>4, <2>2
  <2>4. SumBy(f, m) \in Int
        BY <2>1, <2>2, <2>3
  <2>5. ASSUME NEW x \in m PROVE SumBy(f, m) = f[x] + SumBy(f, m \ {x})
    <3>1. CASE x = y
          BY <2>1, <3>1
    <3>2. CASE x # y
      <4>1. f[x] \in Int /\ x \in n /\ y \in m \ {x} /\ m \ {x} \in SUBSET m /\ m \ {x} # m
            BY <1>3, <2>1, <3>2
      <4>2. (m \ {x}) \ {y} = n \ {x}
            OBVIOUS
      <4>3. SumBy(f, n) = f[x] + SumBy(f, n \ {x})
            BY <2>3, <4>1
      <4>4. Good(m \ {x})
            BY <1>4, <4>1
      <4>5. SumBy(f, m \ {x}) = f[y] + SumBy(f, (m \ {x}) \ {y})
            BY <4>1, <4>4
      <4>6. SumBy(f, n \ {x}) \in Int
        <5>1. n \ {x} \in SUBSET m /\ n \ {x} # m
              BY <2>2
        <5> QED
              BY <1>4, <5>1
      <4> HIDE DEF n
      <4>7. SumBy(f, n) = f[x] + SumBy(f, n \ {x}) /\ SumBy(f, m \ {x}) = f[y] + SumBy(f, n \ {x})
            BY <4>2, <4>3, <4>5
      <4> QED
            BY <2>1, <2>2, <4>1, <4>6, <4>7
    <3> QED
          BY <3>1, <3>2
  <2> QED
        BY <1>3, <2>4, <2>5
<1> QED
      BY <1>5, <1>6

LEMMA SumPlus ==
    ASSUME NEW S, IsFiniteSet(S), NEW f, \A x \in S : f[x] \in Int,
           NEW x \in S
    PROVE  /\ SumFunctionOnSet(f, S) \in Int
           /\ SumFunctionOnSet(f, S \ {x}) \in Int
           /\ SumFunctionOnSet(f, S) = SumFunctionOnSet(f, S \ {x}) + f[x]
<1>1. IsFiniteSet(S \ {x})
      BY FS_Subset
<1>2. SumBy(f, S) \in Int /\ SumBy(f, S \ {x}) \in Int /\ SumBy(f, S) = f[x] + SumBy(f, S \ {x})
      BY <1>1, SumOfElement
<1> QED
      BY <1>2, SumIs

(* One element more.                                                       *)
LEMMA SumAfter ==
    ASSUME NEW f, NEW h, NEW S, NEW x, IsFiniteSet(S), x \notin S,
           \A y \in S : f[y] \in Int /\ h[y] = f[y], h[x] \in Int
    PROVE  SumFunctionOnSet(h, S \cup {x}) = SumFunctionOnSet(f, S) + h[x]
<1> DEFINE T == S \cup {x}
<1>1. IsFiniteSet(T) /\ x \in T /\ T \ {x} = S
      BY FS_AddElement
<1>2. \A y \in T : h[y] \in Int
      OBVIOUS
<1> HIDE DEF T
<1>3. /\ SumFunctionOnSet(h, S) \in Int
      /\ SumFunctionOnSet(h, T) = SumFunctionOnSet(h, S) + h[x]
  <2>1. /\ SumFunctionOnSet(h, T \ {x}) \in Int
        /\ SumFunctionOnSet(h, T) = SumFunctionOnSet(h, T \ {x}) + h[x]
        BY <1>1, <1>2, SumPlus
  <2> QED
        BY <1>1, <2>1
<1>4. SumFunctionOnSet(f, S) = SumFunctionOnSet(h, S)
      BY SumsAgree
<1> QED
      BY <1>3, <1>4 DEF T

-----------------------------------------------------------------------------
(* What has been added up.                                                 *)
OwnedBy(f) == {i \in Posted : item[i].folio = f}
MovedTo(f) == {t \in Transfers : transfer[t].to = f}
MovedFrom(f) == {t \in Transfers : transfer[t].from = f}

(* A transfer is of a transaction that has committed, and moves a row.     *)
TransfersAreDone ==
    \A t \in Transfers : t \in Committed /\ transfer[t].line \in Posted

AccountsInv == TransfersAreDone /\ BalanceIsAccounted

LEMMA AccountTypes ==
    ASSUME FInv, TransfersAreDone, NEW f \in Folios
    PROVE  /\ IsFiniteSet(OwnedBy(f)) /\ IsFiniteSet(MovedTo(f)) /\ IsFiniteSet(MovedFrom(f))
           /\ \A i \in Posted : item[i].total \in Int /\ Total[i] = item[i].total
           /\ \A t \in Transfers : Moved[t] = item[transfer[t].line].total /\ Moved[t] \in Int
           /\ SumFunctionOnSet(Total, OwnedBy(f)) \in Int
           /\ SumFunctionOnSet(Moved, MovedTo(f)) \in Int
           /\ SumFunctionOnSet(Moved, MovedFrom(f)) \in Int
<1>1. OwnedBy(f) \in SUBSET Txns /\ MovedTo(f) \in SUBSET Txns /\ MovedFrom(f) \in SUBSET Txns
      BY DEF OwnedBy, MovedTo, MovedFrom, Posted, Transfers
<1>2. IsFiniteSet(OwnedBy(f)) /\ IsFiniteSet(MovedTo(f)) /\ IsFiniteSet(MovedFrom(f))
      BY <1>1, FS_Subset, FolioLedgerAssumption
<1>3. \A i \in Posted : item[i].total \in Int /\ Total[i] = item[i].total
      BY DEF FInv, TypeOK, Posted, Items, Total
<1>4. \A t \in Transfers : Moved[t] = item[transfer[t].line].total /\ Moved[t] \in Int
      BY <1>3 DEF TransfersAreDone, Moved
<1>5. /\ \A i \in OwnedBy(f) : Total[i] \in Int
      /\ \A t \in MovedTo(f) : Moved[t] \in Int
      /\ \A t \in MovedFrom(f) : Moved[t] \in Int
      BY <1>3, <1>4 DEF OwnedBy, MovedTo, MovedFrom
<1>6. SumFunctionOnSet(Total, OwnedBy(f)) \in Int
      BY <1>2, <1>5, SumOfElement, SumIs
<1>7. SumFunctionOnSet(Moved, MovedTo(f)) \in Int
      BY <1>2, <1>5, SumOfElement, SumIs
<1>8. SumFunctionOnSet(Moved, MovedFrom(f)) \in Int
      BY <1>2, <1>5, SumOfElement, SumIs
<1> QED
      BY <1>2, <1>3, <1>4, <1>6, <1>7, <1>8

(* A step that writes no row and no transfer and moves no balance.         *)
LEMMA NothingAdded ==
    ASSUME AccountsInv, UNCHANGED <<item, transfer, balance>>, Committed \subseteq Committed'
    PROVE  AccountsInv'
<1>1. Posted' = Posted /\ Transfers' = Transfers
      BY DEF Posted, Transfers
<1>2. TransfersAreDone'
      BY <1>1 DEF AccountsInv, TransfersAreDone
<1>3. Total' = Total /\ Moved' = Moved
      BY <1>1 DEF Total, Moved
<1>4. BalanceIsAccounted'
      BY <1>1, <1>3 DEF AccountsInv, BalanceIsAccounted
<1> QED
      BY <1>2, <1>4 DEF AccountsInv

(* A row is posted and its folio's balance raised by its total.            *)
LEMMA PostingIsAdded ==
    ASSUME FInv, FInv', AccountsInv, NEW t \in Txns, NEW row \in Items, row # None,
           item[t] = None, item' = [item EXCEPT ![t] = row], UNCHANGED transfer,
           balance' = [balance EXCEPT ![row.folio] = @ + row.total],
           Committed \subseteq Committed'
    PROVE  AccountsInv'
<1>1. /\ row.folio \in Folios /\ row.total \in Int
      /\ item'[t] = row /\ \A i \in Txns \ {t} : item'[i] = item[i]
      /\ balance \in [Folios -> Int]
      BY DEF Items, FInv, TypeOK
<1>2. /\ Posted' = Posted \cup {t} /\ t \notin Posted
      /\ \A i \in Posted : i \in Txns \ {t} /\ item'[i] = item[i]
      /\ Transfers' = Transfers
      BY <1>1 DEF Posted, Transfers
<1>3. TransfersAreDone'
      BY <1>2 DEF AccountsInv, TransfersAreDone
<1>4. ASSUME NEW f \in Folios
      PROVE  balance'[f] = SumFunctionOnSet(Total, OwnedBy(f))'
                           + SumFunctionOnSet(Moved, MovedTo(f))'
                           - SumFunctionOnSet(Moved, MovedFrom(f))'
  <2>1. /\ IsFiniteSet(OwnedBy(f))
        /\ \A i \in Posted : item[i].total \in Int /\ Total[i] = item[i].total
        /\ \A u \in Transfers : Moved[u] = item[transfer[u].line].total /\ Moved[u] \in Int
        /\ SumFunctionOnSet(Total, OwnedBy(f)) \in Int
        /\ SumFunctionOnSet(Moved, MovedTo(f)) \in Int
        /\ SumFunctionOnSet(Moved, MovedFrom(f)) \in Int
        BY AccountTypes DEF AccountsInv
  <2>2. \A i \in Posted' : Total'[i] = item'[i].total
        BY DEF Total
  <2>3. Moved' = Moved /\ MovedTo(f)' = MovedTo(f) /\ MovedFrom(f)' = MovedFrom(f)
        BY <1>2 DEF Moved, MovedTo, MovedFrom, AccountsInv, TransfersAreDone
  <2>4. \A i \in OwnedBy(f) : i \in Posted /\ Total'[i] = Total[i] /\ Total[i] \in Int
        BY <1>2, <2>1, <2>2 DEF OwnedBy
  <2>5. balance[f] = SumFunctionOnSet(Total, OwnedBy(f)) + SumFunctionOnSet(Moved, MovedTo(f))
                     - SumFunctionOnSet(Moved, MovedFrom(f))
        BY DEF AccountsInv, BalanceIsAccounted, OwnedBy, MovedTo, MovedFrom
  <2>6. CASE f = row.folio
    <3>1. OwnedBy(f)' = OwnedBy(f) \cup {t} /\ t \notin OwnedBy(f)
          BY <1>1, <1>2, <2>6 DEF OwnedBy
    <3>2. Total'[t] = row.total
          BY <1>1, <1>2, <2>2
    <3> DEFINE h == Total'
    <3>3. /\ \A i \in OwnedBy(f) : Total[i] \in Int /\ h[i] = Total[i]
          /\ h[t] \in Int /\ h[t] = row.total
          BY <1>1, <2>4, <3>2
    <3>4. SumFunctionOnSet(Total, OwnedBy(f))' = SumFunctionOnSet(h, OwnedBy(f) \cup {t})
          BY <3>1
    <3> HIDE DEF h
    <3>5. SumFunctionOnSet(h, OwnedBy(f) \cup {t})
             = SumFunctionOnSet(Total, OwnedBy(f)) + h[t]
      <4>1. /\ IsFiniteSet(OwnedBy(f)) /\ t \notin OwnedBy(f) /\ h[t] \in Int
            /\ \A i \in OwnedBy(f) : Total[i] \in Int /\ h[i] = Total[i]
            BY <2>1, <3>1, <3>3
      <4> QED
            BY <4>1, SumAfter
    <3>6. balance'[f] = balance[f] + row.total
          BY <1>1, <2>6
    <3> QED
          BY <1>1, <2>1, <2>3, <2>5, <3>3, <3>4, <3>5, <3>6
  <2>7. CASE f # row.folio
    <3>1. OwnedBy(f)' = OwnedBy(f)
          BY <1>1, <1>2, <2>7 DEF OwnedBy
    <3> DEFINE h == Total'
    <3>2. \A i \in OwnedBy(f) : h[i] = Total[i]
          BY <2>4
    <3>3. SumFunctionOnSet(Total, OwnedBy(f))' = SumFunctionOnSet(h, OwnedBy(f))
          BY <3>1
    <3> HIDE DEF h
    <3>4. SumFunctionOnSet(Total, OwnedBy(f)) = SumFunctionOnSet(h, OwnedBy(f))
          BY <2>1, <3>2, SumsAgree
    <3>5. balance'[f] = balance[f]
          BY <1>1, <2>7
    <3> QED
          BY <2>3, <2>5, <3>3, <3>4, <3>5
  <2> QED
        BY <2>6, <2>7
<1> QED
      BY <1>3, <1>4 DEF AccountsInv, BalanceIsAccounted, OwnedBy, MovedTo, MovedFrom

(* What a set of transfers adds up to, with one more or none.              *)
LEMMA TransferIsAdded ==
    ASSUME NEW old, NEW new, NEW S, NEW t, IsFiniteSet(S), t \notin S,
           \A u \in S : old[u] \in Int /\ new[u] = old[u], new[t] \in Int
    PROVE  \A T : T = S \/ T = S \cup {t} =>
              SumFunctionOnSet(new, T)
                 = SumFunctionOnSet(old, S) + (IF t \in T THEN new[t] ELSE 0)
<1>1. SumFunctionOnSet(new, S \cup {t}) = SumFunctionOnSet(old, S) + new[t]
      BY SumAfter
<1>2. SumFunctionOnSet(old, S) = SumFunctionOnSet(new, S)
      BY SumsAgree
<1>3. SumFunctionOnSet(old, S) \in Int
      BY SumOfElement, SumIs
<1>4. ASSUME NEW T, T = S \cup {t}
      PROVE  SumFunctionOnSet(new, T)
                = SumFunctionOnSet(old, S) + (IF t \in T THEN new[t] ELSE 0)
  <2>1. t \in T
        BY <1>4
  <2> QED
        BY <1>1, <1>4, <2>1
<1>5. ASSUME NEW T, T = S
      PROVE  SumFunctionOnSet(new, T)
                = SumFunctionOnSet(old, S) + (IF t \in T THEN new[t] ELSE 0)
      BY <1>2, <1>3, <1>5
<1> QED
      BY <1>4, <1>5

LEMMA MoveIsAdded ==
    ASSUME FInv, FInv', AccountsInv, NEW t \in Txns, CommitMove(t)
    PROVE  AccountsInv'
<1> DEFINE from == txn[t].from
           to == txn[t].to
           amount == item[txn[t].line].total
           move == [from |-> from, to |-> to, line |-> txn[t].line]
<1>1. txn[t] \in Moves /\ t \notin Committed
      BY WorkAt DEF FInv, CommitMove, Committed
<1>2. from \in Folios /\ to \in Folios /\ move \in FolioTransfers /\ txn[t].does = "move"
      BY <1>1 DEF Moves, FolioTransfers
<1>3. txn[t].line \in Posted /\ amount \in Int
  <2>1. txn[t].line \in Posted
        BY <1>2 DEF FInv, Orderly, IsAboutARow
  <2> QED
        BY <2>1 DEF FInv, TypeOK, Posted, Items
<1>4. /\ transfer' = [transfer EXCEPT ![t] = move] /\ item' = item
      /\ balance' = [[balance EXCEPT ![from] = @ - amount] EXCEPT ![to] = @ + amount]
      /\ DOMAIN transfer = Txns /\ balance \in [Folios -> Int]
      BY DEF CommitMove, FInv, TypeOK
<1>5. t \in Committed' /\ Committed \subseteq Committed'
      BY DEF CommitMove, Advance, Committed, FInv, TypeOK
<1>6. move # None /\ move.from = from /\ move.to = to /\ move.line = txn[t].line
      BY <1>2, NoneAssumption
<1>7. \A f \in Folios : balance'[f] = balance[f] - (IF f = from THEN amount ELSE 0)
                                                 + (IF f = to THEN amount ELSE 0)
      BY <1>2, <1>3, <1>4
<1> HIDE DEF from, to, amount, move
<1>8. /\ Transfers' = Transfers \cup {t} /\ t \notin Transfers /\ Posted' = Posted
      /\ transfer'[t] = move /\ \A u \in Transfers : transfer'[u] = transfer[u]
      BY <1>1, <1>4, <1>6 DEF Transfers, Posted, AccountsInv, TransfersAreDone
<1>9. TransfersAreDone'
      BY <1>3, <1>5, <1>6, <1>8 DEF AccountsInv, TransfersAreDone
<1>10. ASSUME NEW f \in Folios
       PROVE  balance'[f] = SumFunctionOnSet(Total, OwnedBy(f))'
                            + SumFunctionOnSet(Moved, MovedTo(f))'
                            - SumFunctionOnSet(Moved, MovedFrom(f))'
  <2>1. /\ IsFiniteSet(MovedTo(f)) /\ IsFiniteSet(MovedFrom(f))
        /\ \A u \in Transfers : Moved[u] = item[transfer[u].line].total /\ Moved[u] \in Int
        /\ SumFunctionOnSet(Total, OwnedBy(f)) \in Int
        /\ SumFunctionOnSet(Moved, MovedTo(f)) \in Int
        /\ SumFunctionOnSet(Moved, MovedFrom(f)) \in Int
        BY AccountTypes DEF AccountsInv
  <2>2. Total' = Total /\ OwnedBy(f)' = OwnedBy(f)
        BY <1>4, <1>8 DEF Total, OwnedBy
  <2> DEFINE new == Moved'
             newTo == MovedTo(f)'
             newFrom == MovedFrom(f)'
  <2>3. new[t] = amount /\ \A u \in Transfers : new[u] = Moved[u]
        BY <1>4, <1>6, <1>8 DEF Moved, amount
  <2>4. /\ \A u \in MovedTo(f) : Moved[u] \in Int /\ new[u] = Moved[u]
        /\ \A u \in MovedFrom(f) : Moved[u] \in Int /\ new[u] = Moved[u]
        BY <2>1, <2>3 DEF MovedTo, MovedFrom
  <2>5. /\ t \notin MovedTo(f) /\ t \notin MovedFrom(f)
        /\ newTo = MovedTo(f) \/ newTo = MovedTo(f) \cup {t}
        /\ newFrom = MovedFrom(f) \/ newFrom = MovedFrom(f) \cup {t}
        /\ t \in newTo <=> f = to
        /\ t \in newFrom <=> f = from
        BY <1>6, <1>8 DEF MovedTo, MovedFrom
  <2>6. balance[f] = SumFunctionOnSet(Total, OwnedBy(f)) + SumFunctionOnSet(Moved, MovedTo(f))
                     - SumFunctionOnSet(Moved, MovedFrom(f))
        BY DEF AccountsInv, BalanceIsAccounted, OwnedBy, MovedTo, MovedFrom
  <2> DEFINE newInto == SumFunctionOnSet(new, newTo)
             newOut == SumFunctionOnSet(new, newFrom)
  <2>7. /\ SumFunctionOnSet(Moved, MovedTo(f))' = newInto
        /\ SumFunctionOnSet(Moved, MovedFrom(f))' = newOut
        OBVIOUS
  <2> HIDE DEF new, newTo, newFrom
  <2>8. newInto = SumFunctionOnSet(Moved, MovedTo(f)) + (IF t \in newTo THEN amount ELSE 0)
    <3>1. /\ amount \in Int /\ IsFiniteSet(MovedTo(f)) /\ t \notin MovedTo(f) /\ new[t] = amount
          /\ \A u \in MovedTo(f) : Moved[u] \in Int /\ new[u] = Moved[u]
          /\ newTo = MovedTo(f) \/ newTo = MovedTo(f) \cup {t}
          BY <1>3, <2>1, <2>3, <2>4, <2>5 DEF amount
    <3> QED
          BY <3>1, TransferIsAdded
  <2>9. newOut = SumFunctionOnSet(Moved, MovedFrom(f)) + (IF t \in newFrom THEN amount ELSE 0)
    <3>1. /\ amount \in Int /\ IsFiniteSet(MovedFrom(f)) /\ t \notin MovedFrom(f) /\ new[t] = amount
          /\ \A u \in MovedFrom(f) : Moved[u] \in Int /\ new[u] = Moved[u]
          /\ newFrom = MovedFrom(f) \/ newFrom = MovedFrom(f) \cup {t}
          BY <1>3, <2>1, <2>3, <2>4, <2>5 DEF amount
    <3> QED
          BY <3>1, TransferIsAdded
  <2> HIDE DEF newInto, newOut
  <2>10. balance'[f] = balance[f] - (IF f = from THEN amount ELSE 0)
                                  + (IF f = to THEN amount ELSE 0)
        BY <1>7
  <2>11. amount \in Int
        BY <1>3 DEF amount
  <2>12. balance'[f] = SumFunctionOnSet(Total, OwnedBy(f)) + newInto - newOut
        BY <2>1, <2>5, <2>6, <2>8, <2>9, <2>10, <2>11
  <2> QED
        BY <2>2, <2>7, <2>12
<1> QED
      BY <1>9, <1>10 DEF AccountsInv, BalanceIsAccounted, OwnedBy, MovedTo, MovedFrom

LEMMA AccountsInit == Init => AccountsInv
<1> SUFFICES ASSUME Init PROVE AccountsInv
      OBVIOUS
<1>1. Posted = {} /\ Transfers = {}
      BY DEF Init, Posted, Transfers
<1>2. \A f : SumFunctionOnSet(f, {}) = 0
      BY FS_EmptySet, SumRule, SumIs
<1>3. \A f \in Folios : balance[f] = 0
      BY DEF Init
<1>4. \A f \in Folios : /\ {i \in Posted : item[i].folio = f} = {}
                        /\ {t \in Transfers : transfer[t].to = f} = {}
                        /\ {t \in Transfers : transfer[t].from = f} = {}
      BY <1>1
<1> QED
      BY <1>1, <1>2, <1>3, <1>4 DEF AccountsInv, TransfersAreDone, BalanceIsAccounted

LEMMA AccountsStep == FInv /\ FInv' /\ AccountsInv /\ [Next]_vars => AccountsInv'
<1> SUFFICES ASSUME FInv, FInv', AccountsInv, [Next]_vars PROVE AccountsInv'
      OBVIOUS
<1>1. txn \in [Txns -> Works \cup {NotBegun}]
      BY DEF FInv, TypeOK
<1>2. ASSUME NEW t \in Txns, NEW work, Begin(t, work), UNCHANGED <<item, transfer, balance>>
      PROVE  AccountsInv'
      BY <1>1, <1>2, NothingAdded DEF Begin, Committed, NotBegun
<1>4. CASE \E t \in Txns, f \in Folios, total \in Totals :
              \E explicit \in BOOLEAN : BeginPost(t, f, total, explicit)
      BY <1>2, <1>4 DEF BeginPost
<1>5. CASE \E t \in Txns, f \in Folios, total \in Totals : PosCharge(t, f, total)
  <2>1. PICK t \in Txns, f \in Folios, total \in Totals : PosCharge(t, f, total)
        BY <1>5
  <2>2. t \notin Committed /\ Committed \subseteq Committed'
        BY <1>1, <2>1 DEF PosCharge, Begin, Committed, NotBegun
  <2>3. item[t] = None
        BY <2>2 DEF FInv, Orderly, WritesWhenDone
  <2>4. now \in Days
        BY FolioLedgerAssumption DEF FInv, TypeOK
  <2>5. /\ Charge(f, total, now) \in Items /\ Charge(f, total, now) # None
        /\ Charge(f, total, now).folio = f /\ Charge(f, total, now).total = total
        BY <2>4, FolioLedgerAssumption, NoneAssumption DEF Charge, Items
  <2> QED
        BY <2>1, <2>2, <2>3, <2>5, PostingIsAdded DEF PosCharge
<1>6. CASE \E t, i \in Txns : BeginReverse(t, i)
      BY <1>2, <1>6 DEF BeginReverse
<1>7. CASE \E t, i \in Txns, f, g \in Folios : BeginMove(t, i, f, g)
      BY <1>2, <1>7 DEF BeginMove
<1>8. CASE \E t \in Txns, d \in Calendar : BeginClose(t, d)
      BY <1>2, <1>8 DEF BeginClose
<1>9. CASE \E t \in Txns : PickDay(t) \/ SumItems(t) \/ CommitClose(t) \/ Rollback(t)
  <2>1. PICK t \in Txns : PickDay(t) \/ SumItems(t) \/ CommitClose(t) \/ Rollback(t)
        BY <1>9
  <2>2. Committed \subseteq Committed'
    <3>1. t \notin Committed
          BY <2>1 DEF PickDay, SumItems, CommitClose, Rollback, Committed
    <3>2. \A u \in Txns \ {t} : txn'[u] = txn[u]
          BY <1>1, <2>1 DEF PickDay, SumItems, CommitClose, Rollback, Advance
    <3> QED
          BY <3>1, <3>2 DEF Committed
  <2> QED
        BY <2>1, <2>2, NothingAdded DEF PickDay, SumItems, CommitClose, Rollback
<1>10. CASE \E t \in Txns : CommitPost(t)
  <2>1. PICK t \in Txns : CommitPost(t)
        BY <1>10
  <2>2. t \notin Committed /\ Committed \subseteq Committed' /\ txn[t] \in Posts
        BY <1>1, <2>1, WorkAt DEF CommitPost, Advance, Committed, FInv
  <2>3. item[t] = None
        BY <2>2 DEF FInv, Orderly, WritesWhenDone
  <2> DEFINE row == Charge(txn[t].folio, txn[t].total, txn[t].date)
  <2>4. row \in Items /\ row # None /\ row.folio = txn[t].folio /\ row.total = txn[t].total
        BY <2>2, NoneAssumption DEF Charge, Items, Posts
  <2> QED
        BY <2>1, <2>2, <2>3, <2>4, PostingIsAdded DEF CommitPost
<1>11. CASE \E t \in Txns : CommitReverse(t)
  <2>1. PICK t \in Txns : CommitReverse(t)
        BY <1>11
  <2>2. t \notin Committed /\ Committed \subseteq Committed' /\ txn[t] \in Reverses
        BY <1>1, <2>1, WorkAt DEF CommitReverse, Advance, Committed, FInv
  <2>3. item[t] = None /\ txn[t].line \in Posted
        BY <2>1, <2>2 DEF FInv, Orderly, WritesWhenDone, IsAboutARow, CommitReverse
  <2> DEFINE i == txn[t].line
  <2>4. PICK d \in txn[t].date .. now : item' = [item EXCEPT ![t] = ReversalOf(i, d)]
        BY <2>1 DEF CommitReverse
  <2> DEFINE row == ReversalOf(i, d)
  <2>5. item[i].folio \in Folios /\ item[i].total \in Int
        BY <2>3 DEF FInv, TypeOK, Posted, Items
  <2>6. row \in Items /\ row # None
    <3>1. item[i].folio \in Folios /\ d \in Days
      <4>1. txn[t].date \in Int /\ now \in Int /\ FirstDay <= txn[t].date /\ now <= LastDay
            BY <2>2, FolioLedgerAssumption DEF Reverses, Calendar, FInv, TypeOK
      <4> QED
            BY <2>5, <4>1, FolioLedgerAssumption DEF Calendar
    <3> QED
          BY <2>3, <2>5, <3>1, RowTypes DEF FInv
  <2>7. row.folio = item[i].folio /\ row.total = -item[i].total
        BY DEF ReversalOf
  <2>8. balance' = [balance EXCEPT ![row.folio] = @ + row.total]
        BY <2>1, <2>5, <2>7 DEF CommitReverse, FInv, TypeOK
  <2> HIDE DEF row
  <2> QED
        BY <2>1, <2>2, <2>3, <2>4, <2>6, <2>8, PostingIsAdded DEF CommitReverse, row
<1>12. CASE \E t \in Txns : CommitMove(t)
      BY <1>12, MoveIsAdded
<1>13. CASE OpenToday \/ Midnight \/ UNCHANGED vars
      BY <1>13, NothingAdded DEF OpenToday, Midnight, vars, Committed
<1> QED
      BY <1>4, <1>5, <1>6, <1>7, <1>8, <1>9, <1>10, <1>11, <1>12, <1>13 DEF Next, Quiet

(* A folio's balance is what its items and transfers add up to, however    *)
(* many transactions post, reverse and move at once, and whichever are     *)
(* rolled back (ledger.ts:113-116, 172-175, 228-237, pms.ts:420-424).      *)
THEOREM BalancesAddUp == Spec => []BalanceIsAccounted
<1>1. AccountsInv => BalanceIsAccounted
      BY DEF AccountsInv
<1>2. Spec => []AccountsInv
      BY FInvInit, FInvStep, AccountsInit, AccountsStep, PTL DEF Spec
<1> QED
      BY <1>1, <1>2, PTL
=============================================================================
