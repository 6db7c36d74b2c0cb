---------------------------- MODULE PaymentDesk -----------------------------
(***************************************************************************)
(* The Reconciliation page of the console                                  *)
(* (apps/console/src/renderer/views/Reconciliation.tsx), the payments:*    *)
(* handlers of its main process and the ledger behind them.                *)
(*                                                                         *)
(* The page and the main process are two processes joined by a pipe each   *)
(* way.  The handlers have no await of their own, so requests are answered *)
(* in the order they were sent.  The operator may leave the page while a   *)
(* request is under way; the page that comes next knows nothing of it.     *)
(***************************************************************************)
EXTENDS PaymentLedger

CONSTANTS
    Operator,       \* the operatorId the page sends with a manual match
    Uuids,          \* what the schema of an operatorId accepts
    MaxCalls,       \* bound: forms sent
    MaxMounts,      \* bound: times the page is opened
    MaxPending      \* bound: requests under way when a refresh is added

ASSUME PaymentDeskAssumption ==
    {MaxCalls, MaxMounts, MaxPending} \subseteq Nat /\ MaxMounts > 0

VARIABLES
    ledger,
    requests,   \* sent by a page, not yet handled
    answers,    \* given by the main process, not yet seen
    mount,      \* which page this is
    busy,       \* the page's buttons are off
    list,       \* the rows the page shows, by id
    summary,    \* the chips it shows; no chips before the first answer
    filed,      \* history: bills and receipts the operator saw recorded
    calls       \* counts the forms sent; a form's key is its number

deskVars == <<mount, busy, list, summary, filed, calls>>
vars == <<ledger, requests, answers, deskVars>>

NoChips == [pendingIntents |-> 0, unmatchedConfirmations |-> 0, matched |-> 0]
NoRows == [i \in {} |-> <<>>]

Read(ends) == [op |-> "read", mount |-> mount, ends |-> ends]
Send(request) == requests' = Append(requests, request)

Init ==
    /\ ledger = <<>>
    /\ mount = 1
    /\ requests = <<[op |-> "read", mount |-> 1, ends |-> FALSE]>>
    /\ answers = <<>>
    /\ busy = FALSE
    /\ list = NoRows /\ summary = NoChips
    /\ filed = {} /\ calls = 0

-----------------------------------------------------------------------------
(* Every button of the page is off while it is busy, and a call switches   *)
(* it busy before it is sent.                                              *)
Call(request) ==
    /\ ~busy
    /\ busy' = TRUE
    /\ Send(request)
    /\ UNCHANGED <<ledger, answers, mount, list, summary, filed>>

(* A form is filled in for what the operator has not seen recorded; every  *)
(* sending draws a key of its own.  What is typed may be refused: an       *)
(* amount that is no number, a receipt with a dash, a long phone tail.     *)
Form(op, about, valid) ==
    /\ calls < MaxCalls
    /\ calls' = calls + 1
    /\ about \notin filed
    /\ Call([op |-> op, mount |-> mount, about |-> about, key |-> calls', valid |-> valid])

SubmitIntent == \E b \in Bills, v \in BOOLEAN : Form("intent", b, v)
SubmitConfirmation == \E r \in Receipts, v \in BOOLEAN : Form("confirm", r, v)

OfferedTwice(i, c) ==           \* broken form of Offered: of any status
    /\ list[i].kind = "INTENT"
    /\ PriceOf[list[i].about] = PriceOf[list[c].about]

(* The button of an unmatched confirmation takes the first, that is the    *)
(* newest, pending intent of its price in the list, and is a toast if      *)
(* there is none.                                                          *)
Offered(i, c) ==
    /\ list[i].kind = "INTENT" /\ list[i].status = "PENDING"
    /\ PriceOf[list[i].about] = PriceOf[list[c].about]

ClickMatch(c) ==
    /\ list[c].kind = "CONFIRMATION" /\ list[c].status = "UNMATCHED"
    /\ \E i \in DOMAIN list :
          /\ Offered(i, c)
          /\ \A k \in DOMAIN list : Offered(k, c) => k <= i
          /\ Call([op |-> "match", mount |-> mount, conf |-> c, intent |-> i,
                   valid |-> Operator \in Uuids])
    /\ UNCHANGED calls

(* The refresh button does not make the page busy.                         *)
ClickRefresh ==
    /\ ~busy
    /\ Len(requests) + Len(answers) < MaxPending
    /\ Send(Read(FALSE))
    /\ UNCHANGED <<ledger, answers, deskVars>>

-----------------------------------------------------------------------------
(* The main process: validation, one transaction of the store, the answer. *)
Handled(after, answer) ==
    /\ ledger' = after
    /\ requests' = Tail(requests)
    /\ answers' = Append(answers, answer)
    /\ UNCHANGED deskVars

Refused == [ok |-> FALSE, ledger |-> ledger]

Transacted(q, result, about) ==
    LET taken == IF q.valid THEN result ELSE Refused
    IN  Handled(taken.ledger, [op |-> q.op, mount |-> q.mount, ok |-> taken.ok, about |-> about])

HandleWrite ==
    /\ requests # <<>>
    /\ LET q == Head(requests)
       IN  \/ /\ q.op = "intent"
              /\ Transacted(q, RecordIntent(ledger, q.key, q.about), q.about)
           \/ /\ q.op = "confirm"
              /\ Transacted(q, RecordConfirmation(ledger, q.key, q.about), q.about)
           \/ /\ q.op = "match"
              /\ Transacted(q, MatchConfirmation(ledger, q.conf, q.intent), q.conf)

(* payments:list and payments:summary, sent and handled side by side.      *)
HandleRead ==
    /\ requests # <<>> /\ Head(requests).op = "read"
    /\ LET q == Head(requests)
       IN  Handled(ledger, [op |-> "read", mount |-> q.mount, ok |-> TRUE, ends |-> q.ends,
                            list |-> ListLedger(ledger), summary |-> LedgerSummary(ledger)])

-----------------------------------------------------------------------------
Answer == Head(answers)
Fresh == answers # <<>> /\ Answer.mount = mount

(* The operator sees the toast of a form that was taken.                   *)
Noted(seen) ==
    filed' = IF seen /\ Answer.ok /\ Answer.op \in {"intent", "confirm"}
             THEN filed \cup {Answer.about} ELSE filed

(* Broken: the list is read again after a form only.                       *)
AnswerReturnsUnread ==
    /\ Fresh /\ Answer.op # "read"
    /\ answers' = Tail(answers)
    /\ Noted(TRUE)
    /\ IF Answer.ok /\ Answer.op # "match"
       THEN Send(Read(TRUE)) /\ UNCHANGED busy
       ELSE busy' = FALSE /\ UNCHANGED requests
    /\ UNCHANGED <<ledger, mount, list, summary, calls>>

(* The continuation of a call: a toast and, if it was taken, refresh().    *)
AnswerReturns ==
    /\ Fresh /\ Answer.op # "read"
    /\ answers' = Tail(answers)
    /\ Noted(TRUE)
    /\ IF Answer.ok
       THEN Send(Read(TRUE)) /\ UNCHANGED busy
       ELSE busy' = FALSE /\ UNCHANGED requests
    /\ UNCHANGED <<ledger, mount, list, summary, calls>>

(* Broken: what was read is a reason to read again.                        *)
ReadReturnsLooping ==
    /\ Fresh /\ Answer.op = "read"
    /\ answers' = Tail(answers)
    /\ list' = Answer.list /\ summary' = Answer.summary
    /\ Send(Read(Answer.ends))
    /\ UNCHANGED <<ledger, mount, busy, filed, calls>>

(* refresh() has both its answers; if it was the last part of a call, the  *)
(* finally of the call follows.                                            *)
ReadReturns ==
    /\ Fresh /\ Answer.op = "read"
    /\ answers' = Tail(answers)
    /\ list' = Answer.list /\ summary' = Answer.summary
    /\ busy' = (busy /\ ~Answer.ends)
    /\ UNCHANGED <<ledger, requests, mount, filed, calls>>

(* The continuation of a page that is gone sets no state.  Its toast is    *)
(* still shown if only the view was switched, and missed if the window was *)
(* reloaded or nobody looked; what it reads again is of no effect.         *)
LateAnswer ==
    /\ answers # <<>> /\ Answer.mount # mount
    /\ answers' = Tail(answers)
    /\ \E seen \in BOOLEAN : Noted(seen)
    /\ UNCHANGED <<ledger, requests, mount, busy, list, summary, calls>>

(* The operator switches views and comes back, or reloads the window: the  *)
(* page starts anew and reads.                                             *)
Reopen ==
    /\ mount < MaxMounts
    /\ mount' = mount + 1
    /\ busy' = FALSE
    /\ list' = NoRows /\ summary' = NoChips
    /\ Send([op |-> "read", mount |-> mount', ends |-> FALSE])
    /\ UNCHANGED <<ledger, answers, filed, calls>>

Next ==
    \/ SubmitIntent
    \/ SubmitConfirmation
    \/ \E c \in DOMAIN list : ClickMatch(c)
    \/ ClickRefresh
    \/ HandleWrite
    \/ HandleRead
    \/ AnswerReturns
    \/ ReadReturns
    \/ LateAnswer
    \/ Reopen

Spec == Init /\ [][Next]_vars

(* The main process handles what it is sent and the page's awaits end.     *)
FairSpec ==
    /\ Spec
    /\ WF_vars(HandleWrite \/ HandleRead)
    /\ WF_vars(AnswerReturns \/ ReadReturns \/ LateAnswer)

-----------------------------------------------------------------------------
(* The state of every variable keeps the shape the code gives it.          *)
TypeOK ==
    /\ ledger \in Seq(Rows)
    /\ \A n \in DOMAIN requests : requests[n].op \in {"intent", "confirm", "match", "read"}
    /\ \A n \in DOMAIN answers : answers[n].ok \in BOOLEAN
    /\ mount \in 1..MaxMounts /\ calls \in 0..MaxCalls
    /\ busy \in BOOLEAN
    /\ DOMAIN list \subseteq DOMAIN ledger /\ \A i \in DOMAIN list : list[i] \in Rows
    /\ summary \in [{"pendingIntents", "unmatchedConfirmations", "matched"} -> Nat]
    /\ filed \subseteq Bills \cup Receipts

(* A matched row has a partner of the other kind and the same price that   *)
(* points back at it.  The store checks none of this for a manual match    *)
(* (store.ts:419): it rests on the one page that asks for matches, on its  *)
(* busy flag and on what it read after the last write.                     *)
MatchesArePairs ==
    \A i \in DOMAIN ledger : ledger[i].status = "MATCHED" => ArePartners(ledger, i)

(* "A single receipt can never be double-posted" (store.ts:357): however   *)
(* often a receipt is sent, under a fresh key each time, it is one row.    *)
(* What the operator saw recorded is there.                                *)
ReceiptPostedOnce ==
    /\ \A r \in Receipts : Cardinality(RowsOf(ledger, r)) <= 1
    /\ \A x \in filed : RowsOf(ledger, x) # {}

(* When nothing is under way, the list and the chips are those of the      *)
(* ledger: no answer that came late is left on the page.                   *)
PageTrueAtRest ==
    ~busy /\ requests = <<>> /\ answers = <<>> =>
       list = ListLedger(ledger) /\ summary = LedgerSummary(ledger)

(* A match is never undone, taken over or lost: no later confirmation of   *)
(* the same price, manual match from a list read earlier, or receipt sent  *)
(* again changes a matched row (store.ts:403-415, 429-438).                *)
MatchIsFinal ==
    [][/\ Len(ledger) <= Len(ledger')
       /\ \A i \in DOMAIN ledger :
             ledger[i].status = "MATCHED" => ledger'[i] = ledger[i]]_vars

(* Whatever the store answers, the buttons of the page come back.          *)
BusyEnds == []<>~busy
=============================================================================
