--------------------------- MODULE PaymentLedger ----------------------------
(***************************************************************************)
(* The mpesa_ledger table of the console's SQLite file                     *)
(* (apps/console/src/main/offline/store.ts): what hotel staff say is to be *)
(* paid (intents) and what a payment service says was paid                 *)
(* (confirmations), and the links between the two.                         *)
(*                                                                         *)
(* A ledger is a sequence of rows in the order of recorded_at; the id of a *)
(* row is its place and 0 is NULL.  Method and amount_minor together are   *)
(* the price: the statements only ask whether both agree.  Every operator  *)
(* is one transaction and yields the ledger after it and whether it threw. *)
(***************************************************************************)
EXTENDS Naturals, Sequences, FiniteSets

CONSTANTS
    Bills,      \* what a guest owes: the guest and room of an intent
    Receipts,   \* receipt numbers of the payment service
    PriceOf,    \* the method and amount of each
    ListLimit   \* rows listLedger returns, 100 in the code

ASSUME PaymentLedgerAssumption ==
    /\ DOMAIN PriceOf = Bills \cup Receipts
    /\ Bills \cap Receipts = {}
    /\ ListLimit \in Nat \ {0}

Rows == [kind    : {"INTENT", "CONFIRMATION"},
         status  : {"PENDING", "UNMATCHED", "MATCHED"},
         about   : Bills \cup Receipts,
         key     : Nat,
         matched : Nat]

Done(l) == [ok |-> TRUE, ledger |-> l]

-----------------------------------------------------------------------------
(* Broken forms: the unique index on receipts is missing; a candidate need *)
(* not be pending; a link sets a status of its own.                        *)
KeyIsTakenOnly(l, key, receipt) == \E i \in DOMAIN l : l[i].key = key

CandidatesOfAnyStatus(l, price) ==
    {i \in DOMAIN l : l[i].kind = "INTENT" /\ PriceOf[l[i].about] = price}

LinkAsSettled(l, c, i) ==
    [l EXCEPT ![c].status = "SETTLED", ![c].matched = i,
              ![i].status = "SETTLED", ![i].matched = c]

-----------------------------------------------------------------------------
(* INSERT OR IGNORE: the row of a key that is there stays as it is.        *)
RecordIntent(l, key, bill) ==
    IF \E i \in DOMAIN l : l[i].key = key
    THEN Done(l)
    ELSE Done(Append(l, [kind |-> "INTENT", status |-> "PENDING", about |-> bill,
                         key |-> key, matched |-> 0]))

(* The two unique constraints a confirmation may meet.                     *)
IsTaken(l, key, receipt) ==
    \E i \in DOMAIN l :
       \/ l[i].key = key
       \/ l[i].kind = "CONFIRMATION" /\ l[i].about = receipt

(* findIntent, without its LIMIT of 2: it is only asked whether it is one. *)
Candidates(l, price) ==
    {i \in DOMAIN l :
       /\ l[i].kind = "INTENT" /\ l[i].status = "PENDING"
       /\ PriceOf[l[i].about] = price}

(* Both rows MATCHED and pointing at each other, whatever they were.  An   *)
(* UPDATE of an id that is not there changes nothing.                      *)
Link(l, c, i) ==
    [k \in DOMAIN l |->
        CASE k = i -> [l[k] EXCEPT !.status = "MATCHED", !.matched = c]
          [] k = c -> [l[k] EXCEPT !.status = "MATCHED", !.matched = i]
          [] OTHER -> l[k]]

(* The insert is ignored when the key or the receipt is there; a row of    *)
(* the key is then read back, and there is none when the receipt was       *)
(* recorded under another key: rowToPayment throws.  Otherwise the row is  *)
(* matched if exactly one intent can be meant.                             *)
RecordConfirmation(l, key, receipt) ==
    LET m == IF IsTaken(l, key, receipt)
             THEN l
             ELSE Append(l, [kind |-> "CONFIRMATION", status |-> "UNMATCHED",
                             about |-> receipt, key |-> key, matched |-> 0])
        own  == {c \in DOMAIN m : m[c].key = key}
        sole == Candidates(m, PriceOf[receipt])
    IN  IF own = {} THEN [ok |-> FALSE, ledger |-> l]
        ELSE IF Cardinality(sole) = 1
        THEN Done(Link(m, CHOOSE c \in own : TRUE, CHOOSE i \in sole : TRUE))
        ELSE Done(m)

(* The manual link looks at the kind of the confirmation and at nothing    *)
(* else: neither at a status nor at the intent.  It does not throw.        *)
MatchConfirmation(l, c, i) ==
    IF c \in DOMAIN l /\ l[c].kind = "CONFIRMATION" THEN Done(Link(l, c, i)) ELSE Done(l)

(* The newest rows, by id.                                                 *)
ListLedger(l) == [i \in {k \in DOMAIN l : k + ListLimit > Len(l)} |-> l[i]]

Count(l, kinds, status) ==
    Cardinality({i \in DOMAIN l : l[i].kind \in kinds /\ l[i].status = status})

(* The chips: a match counts twice, once for each of its rows.  Nothing    *)
(* sets REVERSED, and no page shows the totals of the day.                 *)
LedgerSummary(l) ==
    [pendingIntents         |-> Count(l, {"INTENT"}, "PENDING"),
     unmatchedConfirmations |-> Count(l, {"CONFIRMATION"}, "UNMATCHED"),
     matched                |-> Count(l, {"INTENT", "CONFIRMATION"}, "MATCHED")]

-----------------------------------------------------------------------------
(* Vocabulary of the properties.                                           *)
ArePartners(l, i) ==
    LET p == l[i].matched
    IN  /\ p \in DOMAIN l
        /\ l[p].status = "MATCHED" /\ l[p].matched = i
        /\ l[p].kind # l[i].kind
        /\ PriceOf[l[p].about] = PriceOf[l[i].about]

RowsOf(l, x) == {i \in DOMAIN l : l[i].about = x}
=============================================================================
