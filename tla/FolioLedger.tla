---------------------------- MODULE FolioLedger -----------------------------
(***************************************************************************)
(* The folio ledger: postLineItem, reverseLineItem, transferFolioItem and  *)
(* closeBusinessDay of packages/database/src/ledger.ts, and posPostCharge  *)
(* of apps/console/src/main/pms.ts, run by several callers against one     *)
(* PostgreSQL database.                                                    *)
(*                                                                         *)
(* The functions of ledger.ts run at the database's default isolation,     *)
(* READ COMMITTED: every statement reads what is committed when it runs,   *)
(* and nothing a transaction writes is seen before it commits.  Balances   *)
(* are changed by increments under a row lock held to the commit, so all   *)
(* the writes of a transaction are one action and the reads that decide    *)
(* about them are the actions before it.                                   *)
(***************************************************************************)
EXTENDS Integers, FiniteSets, Functions

CONSTANTS
    Txns,           \* transactions, also the ids of the items they create
    Folios,
    OpenFolios,     \* folios with status OPEN; no function changes it
    Totals,         \* totals of the charges posted
    FirstDay, LastDay,  \* the calendar days the model runs through
    MonthStart,     \* the first day of the month of a day
    None            \* no item, no transfer, no report

Days == DOMAIN MonthStart
Calendar == FirstDay .. LastDay

ASSUME FolioLedgerAssumption ==
    /\ IsFiniteSet(Txns)
    /\ OpenFolios \subseteq Folios
    /\ Totals \subseteq Int
    /\ FirstDay \in Int /\ LastDay \in Int /\ FirstDay <= LastDay
    /\ Calendar \subseteq Days
    /\ None \notin Txns \cup Folios

VARIABLES
    now,        \* the calendar day of the server's clock
    day,        \* the status of the business_days row of a day
    report,     \* the items the night audit of a day has summed
    item,       \* folio_line_items, by the transaction that wrote the row
    transfer,   \* folio_transfers, likewise
    balance,    \* folios.balance
    txn,        \* what each transaction is and how far it is
    before      \* history: what had committed when a transaction began

vars == <<now, day, report, item, transfer, balance, txn, before>>

-----------------------------------------------------------------------------
Posted == {i \in Txns : item[i] # None}
Transfers == {t \in Txns : transfer[t] # None}
Closed(d) == day[d] = "CLOSED"
ItemsOn(d) == {i \in Posted : item[i].day = d}

Items == [kind : {"CHARGE", "REVERSAL"}, folio : Folios, total : Int,
          day : Days, reverses : Txns \cup {None}]

FolioTransfers == [from : Folios, to : Folios, line : Txns]

Reports == [by : Txns, items : SUBSET Txns]

(* None is none of them.                                                   *)
ASSUME NoneAssumption == None \notin Items \cup FolioTransfers \cup Reports

Charge(f, total, d) ==
    [kind |-> "CHARGE", folio |-> f, total |-> total, day |-> d, reverses |-> None]

ReversalOf(i, d) ==
    [kind |-> "REVERSAL", folio |-> item[i].folio, total |-> -item[i].total,
     day |-> d, reverses |-> i]

(* Broken: only a reversal of today counts.                                *)
ReversedToday(i) ==
    \E r \in Posted : item[r].kind = "REVERSAL" /\ item[r].reverses = i /\ item[r].day = now

(* A committed reversal refers to the item.                                *)
Reversed(i) == \E r \in Posted : item[r].kind = "REVERSAL" /\ item[r].reverses = i

(* The day BusinessDay.findFirst(status OPEN, businessDate desc) returns.  *)
IsActive(d) == day[d] = "OPEN" /\ \A e \in Days : day[e] = "OPEN" => e <= d

(* Date.setDate: the same day of the month, in the month of d, and beyond  *)
(* its end if the month is too short.                                      *)
SetDate(d, e) == MonthStart[d] + (e - MonthStart[e])

-----------------------------------------------------------------------------
(* A transaction names what it is about and passes the stages of its       *)
(* function; stage "none" is one that has not begun.                       *)
NotBegun == [does |-> "nothing", stage |-> "none"]

Posts == [does : {"post"}, stage : {"asserted", "dated", "committed"},
          folio : Folios, total : Int, date : Days, explicit : BOOLEAN]
Charges == [does : {"charge"}, stage : {"committed"}]
Reverses == [does : {"reverse"}, stage : {"checked", "committed"}, line : Txns,
             date : Calendar]
Moves == [does : {"move"}, stage : {"checked", "committed"}, line : Txns,
          from : Folios, to : Folios]
Closes == [does : {"close"}, stage : {"found", "summed", "committed"}, date : Days,
           items : SUBSET Txns]

Works == Posts \cup Charges \cup Reverses \cup Moves \cup Closes

Committed == {t \in Txns : txn[t].stage = "committed"}

Init ==
    /\ now = FirstDay
    /\ day = [d \in Days |-> "NONE"]
    /\ report = [d \in Days |-> None]
    /\ item = [i \in Txns |-> None]
    /\ transfer = [t \in Txns |-> None]
    /\ balance = [f \in Folios |-> 0]
    /\ txn = [t \in Txns |-> NotBegun]
    /\ before = [t \in Txns |-> {}]

Begin(t, work) ==
    /\ txn[t] = NotBegun
    /\ txn' = [txn EXCEPT ![t] = work]
    /\ before' = [before EXCEPT ![t] = Committed]

Advance(t, stage) == txn' = [txn EXCEPT ![t].stage = stage]

(* Broken: the guard looks at today, not at the date of the write.         *)
TodayOpen(d) == ~Closed(now)

(* assertBusinessDayOpen, on a connection of its own.                      *)
BusinessDayOpen(d) == ~Closed(d)

-----------------------------------------------------------------------------
(* postLineItem: the folio is OPEN and the business date, the caller's or  *)
(* else today, is not CLOSED.                                              *)
BeginPost(t, f, total, explicit) ==
    /\ f \in OpenFolios
    /\ \E d \in IF explicit THEN Calendar ELSE {now} :
          /\ BusinessDayOpen(d)
          /\ Begin(t, [does |-> "post", stage |-> IF explicit THEN "dated" ELSE "asserted",
                       folio |-> f, total |-> total, date |-> d, explicit |-> explicit])
    /\ UNCHANGED <<now, day, report, item, transfer, balance>>

(* Broken: no active day leaves the posting without a date.                *)
PickDayOrNone(t) ==
    /\ txn[t].stage = "asserted"
    /\ LET active == {d \in Days : IsActive(d)}
       IN  \E d \in IF active = {} THEN {None} ELSE active :
              txn' = [txn EXCEPT ![t].stage = "dated", ![t].date = d]
    /\ UNCHANGED <<now, day, report, item, transfer, balance, before>>

(* Without a date from the caller the posting is moved to the active day,  *)
(* by the day of the month.                                                *)
PickDay(t) ==
    /\ txn[t].stage = "asserted"
    /\ LET active == {d \in Days : IsActive(d)}
           dates  == {SetDate(txn[t].date, d) : d \in active}
       IN  \E d \in IF active = {} THEN {txn[t].date} ELSE dates :
              /\ d \in Days
              /\ txn' = [txn EXCEPT ![t].stage = "dated", ![t].date = d]
    /\ UNCHANGED <<now, day, report, item, transfer, balance, before>>

CommitPost(t) ==
    /\ txn[t].stage = "dated"
    /\ item' = [item EXCEPT ![t] = Charge(txn[t].folio, txn[t].total, txn[t].date)]
    /\ balance' = [balance EXCEPT ![txn[t].folio] = @ + txn[t].total]
    /\ Advance(t, "committed")
    /\ UNCHANGED <<now, day, report, transfer, before>>

(* posPostCharge: one serializable transaction that charges an open folio  *)
(* of the stay (a folio it creates starts with balance 0 like any other)   *)
(* on today's date; the business day is not looked at.                     *)
PosCharge(t, f, total) ==
    /\ f \in OpenFolios
    /\ Begin(t, [does |-> "charge", stage |-> "committed"])
    /\ item' = [item EXCEPT ![t] = Charge(f, total, now)]
    /\ balance' = [balance EXCEPT ![f] = @ + total]
    /\ UNCHANGED <<now, day, report, transfer>>

(* Broken: a reversal may be reversed.                                     *)
BeginReverseAny(t, i) ==
    /\ i \in Posted
    /\ ~Reversed(i)
    /\ Begin(t, [does |-> "reverse", stage |-> "checked", line |-> i, date |-> now])
    /\ UNCHANGED <<now, day, report, item, transfer, balance>>

(* reverseLineItem: a charge that no committed reversal refers to ...      *)
BeginReverse(t, i) ==
    /\ i \in Posted
    /\ item[i].kind # "REVERSAL"
    /\ ~Reversed(i)
    /\ Begin(t, [does |-> "reverse", stage |-> "checked", line |-> i, date |-> now])
    /\ UNCHANGED <<now, day, report, item, transfer, balance>>

(* ... is reversed in its folio, on the day the row is written: any day    *)
(* since the check.                                                        *)
CommitReverse(t) ==
    /\ txn[t].does = "reverse" /\ txn[t].stage = "checked"
    /\ LET i == txn[t].line
       IN  /\ \E d \in txn[t].date .. now : item' = [item EXCEPT ![t] = ReversalOf(i, d)]
           /\ balance' = [balance EXCEPT ![item[i].folio] = @ - item[i].total]
    /\ Advance(t, "committed")
    /\ UNCHANGED <<now, day, report, transfer, before>>

(* transferFolioItem: the source is whatever folio the caller names, and   *)
(* the row of the item keeps its folio.                                    *)
BeginMove(t, i, f, g) ==
    /\ i \in Posted
    /\ item[i].folio # g
    /\ BusinessDayOpen(item[i].day)
    /\ Begin(t, [does |-> "move", stage |-> "checked", line |-> i, from |-> f, to |-> g])
    /\ UNCHANGED <<now, day, report, item, transfer, balance>>

(* Broken: the balance is taken from the folio of the item.                *)
CommitMoveFromOwner(t) ==
    /\ txn[t].does = "move" /\ txn[t].stage = "checked"
    /\ transfer' = [transfer EXCEPT ![t] = [from |-> txn[t].from, to |-> txn[t].to,
                                            line |-> txn[t].line]]
    /\ LET i == txn[t].line
           taken == [balance EXCEPT ![item[i].folio] = @ - item[i].total]
       IN  balance' = [taken EXCEPT ![txn[t].to] = @ + item[i].total]
    /\ Advance(t, "committed")
    /\ UNCHANGED <<now, day, report, item, before>>

(* The amount leaves the balance of the one and enters that of the other.  *)
CommitMove(t) ==
    /\ txn[t].does = "move" /\ txn[t].stage = "checked"
    /\ transfer' = [transfer EXCEPT ![t] = [from |-> txn[t].from, to |-> txn[t].to,
                                            line |-> txn[t].line]]
    /\ LET taken == [balance EXCEPT ![txn[t].from] = @ - item[txn[t].line].total]
       IN  balance' = [taken EXCEPT ![txn[t].to] = @ + item[txn[t].line].total]
    /\ Advance(t, "committed")
    /\ UNCHANGED <<now, day, report, item, before>>

(* closeBusinessDay: a day that is not CLOSED ...                          *)
BeginClose(t, d) ==
    /\ ~Closed(d)
    /\ Begin(t, [does |-> "close", stage |-> "found", date |-> d, items |-> {}])
    /\ UNCHANGED <<now, day, report, item, transfer, balance>>

(* Broken: only the charges are summed.                                    *)
SumCharges(t) ==
    /\ txn[t].stage = "found"
    /\ txn' = [txn EXCEPT ![t].stage = "summed",
                          ![t].items = {i \in ItemsOn(txn[t].date) : item[i].kind = "CHARGE"}]
    /\ UNCHANGED <<now, day, report, item, transfer, balance, before>>

(* ... has its items summed ...                                            *)
SumItems(t) ==
    /\ txn[t].stage = "found"
    /\ txn' = [txn EXCEPT ![t].stage = "summed", ![t].items = ItemsOn(txn[t].date)]
    /\ UNCHANGED <<now, day, report, item, transfer, balance, before>>

(* ... and its row upserted; another audit may have done so meanwhile.     *)
CommitClose(t) ==
    /\ txn[t].stage = "summed"
    /\ day' = [day EXCEPT ![txn[t].date] = "CLOSED"]
    /\ report' = [report EXCEPT ![txn[t].date] = [by |-> t, items |-> txn[t].items]]
    /\ Advance(t, "committed")
    /\ UNCHANGED <<now, item, transfer, balance, before>>

(* A transaction is rolled back, by a deadlock, Prisma's 5 s limit, a lost *)
(* connection or a crash of the caller, and may be tried again.            *)
Rollback(t) ==
    /\ txn[t].stage \in {"asserted", "dated", "checked", "found", "summed"}
    /\ txn' = [txn EXCEPT ![t] = NotBegun]
    /\ before' = [before EXCEPT ![t] = {}]
    /\ UNCHANGED <<now, day, report, item, transfer, balance>>

(* No function of the repository opens a business day; whoever runs the    *)
(* property does, on the day.                                              *)
OpenToday ==
    /\ day[now] = "NONE"
    /\ day' = [day EXCEPT ![now] = "OPEN"]
    /\ UNCHANGED <<now, report, item, transfer, balance, txn, before>>

Midnight ==
    /\ now < LastDay
    /\ now' = now + 1
    /\ UNCHANGED <<day, report, item, transfer, balance, txn, before>>

(* All transactions of the model are used up.                              *)
Quiet == Committed = Txns /\ UNCHANGED vars

Next ==
    \/ \E t \in Txns, f \in Folios, total \in Totals :
          \/ \E explicit \in BOOLEAN : BeginPost(t, f, total, explicit)
          \/ PosCharge(t, f, total)
    \/ \E t, i \in Txns : BeginReverse(t, i)
    \/ \E t, i \in Txns, f, g \in Folios : BeginMove(t, i, f, g)
    \/ \E t \in Txns, d \in Calendar : BeginClose(t, d)
    \/ \E t \in Txns : \/ PickDay(t) \/ CommitPost(t) \/ CommitReverse(t)
                       \/ CommitMove(t) \/ SumItems(t) \/ CommitClose(t)
                       \/ Rollback(t)
    \/ OpenToday
    \/ Midnight
    \/ Quiet

Spec == Init /\ [][Next]_vars

-----------------------------------------------------------------------------
(* The state of every variable keeps the shape the code gives it.          *)
TypeOK ==
    /\ now \in Calendar
    /\ day \in [Days -> {"NONE", "OPEN", "CLOSED"}]
    /\ report \in [Days -> Reports \cup {None}]
    /\ item \in [Txns -> Items \cup {None}]
    /\ transfer \in [Txns -> FolioTransfers \cup {None}]
    /\ balance \in [Folios -> Int]
    /\ txn \in [Txns -> Works \cup {NotBegun}]
    /\ before \in [Txns -> SUBSET Txns]

(* What each item and each transfer amounts to.                            *)
Total == [i \in Posted |-> item[i].total]
Moved == [t \in Transfers |-> item[transfer[t].line].total]

(* Every folio's balance is what its items and transfers add up to, for    *)
(* any interleaving and any rollback (ledger.ts:113-116, 172-175, 228-237, *)
(* pms.ts:420-424).                                                        *)
BalanceIsAccounted ==
    \A f \in Folios :
       balance[f] = SumFunctionOnSet(Total, {i \in Posted : item[i].folio = f})
                    + SumFunctionOnSet(Moved, {t \in Transfers : transfer[t].to = f})
                    - SumFunctionOnSet(Moved, {t \in Transfers : transfer[t].from = f})

(* What must be done once is done twice only by transactions that overlap: *)
(* a second reversal of an item or a second close of a day that begins     *)
(* after the first has committed is refused (ledger.ts:143-153, 260-265).  *)
SameWork(t, u) ==
    \/ txn[t].does = "reverse" /\ txn[u].does = "reverse" /\ txn[t].line = txn[u].line
    \/ txn[t].does = "close" /\ txn[u].does = "close" /\ txn[t].date = txn[u].date

RepeatsOverlap ==
    \A t, u \in Committed : t # u /\ SameWork(t, u) => t \notin before[u]

(* A guarded write to a day, a posting dated by its caller or a transfer,  *)
(* that began after the close of that day had committed does not commit    *)
(* (ledger.ts:56-64, 251-253).                                             *)
WritesDay(t, d) ==
    \/ txn[t].does = "post" /\ txn[t].explicit /\ txn[t].date = d
    \/ txn[t].does = "move" /\ item[txn[t].line].day = d

ClosedDayRefusesGuardedWrites ==
    \A t, c \in Committed :
       txn[c].does = "close" /\ WritesDay(t, txn[c].date) => c \notin before[t]

(* The report of a closed day counts every item of that day that was       *)
(* committed when the audit began, and only items of that day.             *)
ReportIsComplete ==
    \A d \in Days : report[d] # None =>
       /\ report[d].items \subseteq ItemsOn(d)
       /\ ItemsOn(d) \cap before[report[d].by] \subseteq report[d].items

(* A reversal cancels a charge, in the folio of the charge; a reversal is  *)
(* never reversed (ledger.ts:135-139, 155-170).                            *)
ReversalsCancelCharges ==
    \A r \in Posted : item[r].kind = "REVERSAL" =>
       /\ item[r].reverses \in Posted
       /\ item[item[r].reverses].kind = "CHARGE"
       /\ item[item[r].reverses].folio = item[r].folio
       /\ item[item[r].reverses].total + item[r].total = 0

(* Once the night audit has closed a day, no write to that date is         *)
(* accepted (ledger.ts:51-52, 251-253).                                    *)
ClosedDayIsFrozen ==
    [][\A d \in Days : Closed(d) => ItemsOn(d)' = ItemsOn(d)]_vars
=============================================================================
