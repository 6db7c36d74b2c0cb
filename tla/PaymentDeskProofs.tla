------------------------- MODULE PaymentDeskProofs --------------------------
(***************************************************************************)
(* What holds of the reconciliation page, its handlers and the ledger      *)
(* behind them, for any bills, receipts, prices and numbers of forms and   *)
(* pages: matched rows are pairs, a receipt is posted once, and the page   *)
(* at rest shows the ledger.                                               *)
(***************************************************************************)
EXTENDS PaymentDesk, FiniteSetTheorems, TLAPS

(* A ledger: what kind of row is about what, a receipt has one row, and    *)
(* matched rows are partners.                                              *)
KindsAreRight(l) ==
    \A i \in DOMAIN l : IF l[i].kind = "INTENT" THEN l[i].about \in Bills
                                                ELSE l[i].about \in Receipts

ReceiptsAreUnique(l) ==
    \A i, j \in DOMAIN l :
       l[i].kind = "CONFIRMATION" /\ l[j].kind = "CONFIRMATION" /\ l[i].about = l[j].about
          => i = j

Paired(l) == \A i \in DOMAIN l : l[i].status = "MATCHED" => ArePartners(l, i)

Sound(l) == l \in Seq(Rows) /\ KindsAreRight(l) /\ ReceiptsAreUnique(l) /\ Paired(l)

(* No statement deletes a row, changes what it is about or touches one     *)
(* that is matched.                                                        *)
Extends(m, l) ==
    /\ Len(l) <= Len(m)
    /\ \A i \in DOMAIN l : /\ m[i].kind = l[i].kind
                           /\ m[i].about = l[i].about
                           /\ m[i].key = l[i].key
                           /\ l[i].status = "MATCHED" => m[i] = l[i]

(* What a match may be asked for: an unmatched confirmation and a pending  *)
(* intent of its price.                                                    *)
Matchable(l, c, i) ==
    /\ {c, i} \subseteq DOMAIN l
    /\ l[c].kind = "CONFIRMATION" /\ l[c].status = "UNMATCHED"
    /\ l[i].kind = "INTENT" /\ l[i].status = "PENDING"
    /\ PriceOf[l[i].about] = PriceOf[l[c].about]

-----------------------------------------------------------------------------
(* What Append and Tail do to the places of a sequence.                    *)
LEMMA AppendFacts ==
    ASSUME NEW S, NEW s \in Seq(S), NEW x \in S
    PROVE  /\ Append(s, x) \in Seq(S)
           /\ Len(s) \in Nat /\ Len(Append(s, x)) = Len(s) + 1
           /\ DOMAIN s = 1..Len(s) /\ DOMAIN Append(s, x) = 1..(Len(s) + 1)
           /\ \A n \in 1..Len(s) : Append(s, x)[n] = s[n]
           /\ Append(s, x)[Len(s) + 1] = x
    OBVIOUS

LEMMA TailFacts ==
    ASSUME NEW S, NEW s \in Seq(S), s # <<>>
    PROVE  /\ Tail(s) \in Seq(S)
           /\ Len(s) \in Nat /\ Len(s) > 0 /\ Len(Tail(s)) = Len(s) - 1
           /\ DOMAIN s = 1..Len(s) /\ DOMAIN Tail(s) = 1..(Len(s) - 1)
           /\ \A n \in 1..(Len(s) - 1) : Tail(s)[n] = s[n + 1]
           /\ Head(s) = s[1] /\ Head(s) \in S
    OBVIOUS

LEMMA MatchedRow ==
    ASSUME NEW r \in Rows, NEW n \in Nat
    PROVE  LET m == [r EXCEPT !.status = "MATCHED", !.matched = n]
           IN  /\ m \in Rows
               /\ m.status = "MATCHED" /\ m.matched = n
               /\ m.kind = r.kind /\ m.about = r.about /\ m.key = r.key
    BY DEF Rows

(* Two rows that are free for each other become a pair, and no other pair  *)
(* is parted (store.ts: matchBoth).                                        *)
LEMMA LinkFacts ==
    ASSUME NEW l, Sound(l), NEW c, NEW i, Matchable(l, c, i)
    PROVE  Sound(Link(l, c, i)) /\ Extends(Link(l, c, i), l)
<1> DEFINE m == Link(l, c, i)
<1>1. /\ l \in Seq(Rows) /\ Len(l) \in Nat /\ DOMAIN l = 1..Len(l)
      /\ c \in DOMAIN l /\ i \in DOMAIN l /\ c # i
      BY DEF Sound, Matchable
<1>2. l[c] \in Rows /\ l[i] \in Rows
      BY <1>1
<1> DEFINE paidBy(k, n) == [l[k] EXCEPT !.status = "MATCHED", !.matched = n]
<1>3. m = [k \in 1..Len(l) |-> IF k = i THEN paidBy(k, c) ELSE IF k = c THEN paidBy(k, i) ELSE l[k]]
      BY <1>1 DEF Link
<1>4. \A k \in {c, i}, n \in {c, i} :
         /\ paidBy(k, n) \in Rows
         /\ paidBy(k, n).status = "MATCHED" /\ paidBy(k, n).matched = n
         /\ paidBy(k, n).kind = l[k].kind /\ paidBy(k, n).about = l[k].about
         /\ paidBy(k, n).key = l[k].key
  <2> TAKE k \in {c, i}, n \in {c, i}
  <2>1. l[k] \in Rows /\ n \in Nat
        BY <1>1, <1>2
  <2> QED
      BY <2>1, MatchedRow
<1> HIDE DEF paidBy, m
<1>5. m \in Seq(Rows) /\ Len(m) = Len(l) /\ DOMAIN m = DOMAIN l
  <2>1. m \in [1..Len(l) -> Rows]
        BY <1>1, <1>3, <1>4
  <2> QED
      BY <1>1, <2>1
<1>6. /\ m[i].status = "MATCHED" /\ m[i].matched = c
      /\ m[c].status = "MATCHED" /\ m[c].matched = i
      /\ \A k \in DOMAIN l : k \notin {c, i} => m[k] = l[k]
      /\ \A k \in DOMAIN l : /\ m[k].kind = l[k].kind
                             /\ m[k].about = l[k].about
                             /\ m[k].key = l[k].key
      BY <1>1, <1>3, <1>4
<1>7. Extends(m, l)
  <2>1. \A k \in DOMAIN l : l[k].status = "MATCHED" => m[k] = l[k]
    <3>1. l[c].status # "MATCHED" /\ l[i].status # "MATCHED"
          BY DEF Matchable
    <3> QED
        BY <1>6, <3>1
  <2> QED
      BY <1>1, <1>5, <1>6, <2>1 DEF Extends
<1>8. KindsAreRight(m) /\ ReceiptsAreUnique(m)
      BY <1>5, <1>6 DEF Sound, KindsAreRight, ReceiptsAreUnique
<1>9. ASSUME NEW k \in DOMAIN m, m[k].status = "MATCHED" PROVE ArePartners(m, k)
  <2>1. CASE k \in {c, i}
        BY <1>1, <1>5, <1>6, <2>1 DEF Matchable, ArePartners
  <2>2. CASE k \notin {c, i}
    <3>1. ArePartners(l, k) /\ m[k] = l[k]
          BY <1>5, <1>6, <1>9, <2>2 DEF Sound, Paired
    <3>2. l[k].matched \notin {c, i}
          BY <3>1 DEF ArePartners, Matchable
    <3> QED
        BY <1>5, <1>6, <3>1, <3>2 DEF ArePartners
  <2> QED
      BY <2>1, <2>2
<1> QED
    BY <1>5, <1>7, <1>8, <1>9 DEF Sound, Paired, m

(* A row of its own bill or receipt joins the ledger.                      *)
LEMMA NewRowFacts ==
    ASSUME NEW l, Sound(l), NEW row \in Rows, row.status # "MATCHED",
           IF row.kind = "INTENT" THEN row.about \in Bills ELSE row.about \in Receipts,
           row.kind = "CONFIRMATION" =>
              \A k \in DOMAIN l : ~(l[k].kind = "CONFIRMATION" /\ l[k].about = row.about)
    PROVE  /\ Sound(Append(l, row)) /\ Extends(Append(l, row), l)
           /\ Len(l) \in Nat /\ DOMAIN l = 1..Len(l)
           /\ DOMAIN Append(l, row) = 1..(Len(l) + 1)
           /\ \A k \in DOMAIN l : Append(l, row)[k] = l[k]
           /\ Append(l, row)[Len(l) + 1] = row
<1> DEFINE m == Append(l, row)
<1>1. /\ m \in Seq(Rows)
      /\ Len(l) \in Nat /\ Len(m) = Len(l) + 1
      /\ DOMAIN l = 1..Len(l) /\ DOMAIN m = 1..(Len(l) + 1)
      /\ \A n \in 1..Len(l) : m[n] = l[n]
      /\ m[Len(l) + 1] = row
      BY AppendFacts DEF Sound
<1> HIDE DEF m
<1>2. \A n \in DOMAIN m : n \in DOMAIN l \/ m[n] = row
      BY <1>1
<1>3. Extends(m, l)
      BY <1>1 DEF Extends
<1>4. KindsAreRight(m)
      BY <1>1, <1>2 DEF Sound, KindsAreRight
<1>5. ReceiptsAreUnique(m)
  <2> SUFFICES ASSUME NEW i \in DOMAIN m, NEW j \in DOMAIN m,
                      m[i].kind = "CONFIRMATION", m[j].kind = "CONFIRMATION",
                      m[i].about = m[j].about
               PROVE  i = j
      BY DEF ReceiptsAreUnique
  <2>1. CASE i \in DOMAIN l /\ j \in DOMAIN l
        BY <1>1, <2>1 DEF Sound, ReceiptsAreUnique
  <2>2. CASE i \notin DOMAIN l /\ j \in DOMAIN l
        BY <1>1, <1>2, <2>2
  <2>3. CASE i \in DOMAIN l /\ j \notin DOMAIN l
        BY <1>1, <1>2, <2>3
  <2>4. CASE i \notin DOMAIN l /\ j \notin DOMAIN l
        BY <1>1, <2>4
  <2> QED
      BY <2>1, <2>2, <2>3, <2>4
<1>6. ASSUME NEW k \in DOMAIN m, m[k].status = "MATCHED" PROVE ArePartners(m, k)
  <2>1. k \in DOMAIN l /\ m[k] = l[k]
        BY <1>1, <1>2, <1>6
  <2>2. ArePartners(l, k)
        BY <1>6, <2>1 DEF Sound, Paired
  <2> QED
      BY <1>1, <2>1, <2>2 DEF ArePartners
<1>7. Sound(m)
      BY <1>1, <1>4, <1>5, <1>6 DEF Sound, Paired
<1> QED
    BY <1>1, <1>3, <1>7 DEF m

LEMMA ExtendsTransitive ==
    ASSUME NEW l, NEW m, NEW n, Sound(l), Sound(m), Sound(n), Extends(m, l), Extends(n, m)
    PROVE  Extends(n, l)
<1>1. /\ Len(l) \in Nat /\ Len(m) \in Nat /\ Len(n) \in Nat
      /\ DOMAIN l = 1..Len(l) /\ DOMAIN m = 1..Len(m)
      BY DEF Sound
<1>2. DOMAIN l \subseteq DOMAIN m
      BY <1>1 DEF Extends
<1> QED
    BY <1>1, <1>2 DEF Extends

(* What a transaction of the store answers: a form that was taken has its  *)
(* row, one that was refused changes nothing, and keys come from forms.    *)
KeysWithin(m, l, key) ==
    \A i \in DOMAIN m : m[i].key = key \/ \E j \in DOMAIN l : m[i].key = l[j].key

Outcome(r, l, key, about) ==
    /\ r.ok \in BOOLEAN
    /\ Sound(r.ledger) /\ Extends(r.ledger, l)
    /\ KeysWithin(r.ledger, l, key)
    /\ r.ok => RowsOf(r.ledger, about) # {}
    /\ ~r.ok => r.ledger = l

LEMMA RecordIntentFacts ==
    ASSUME NEW l, Sound(l), NEW key \in Nat, NEW bill \in Bills,
           \A i \in DOMAIN l : l[i].key # key
    PROVE  Outcome(RecordIntent(l, key, bill), l, key, bill)
<1> DEFINE row == [kind |-> "INTENT", status |-> "PENDING", about |-> bill,
                   key |-> key, matched |-> 0]
           m == Append(l, row)
<1>1. /\ row \in Rows /\ row.kind = "INTENT" /\ row.status = "PENDING"
      /\ row.about = bill /\ row.key = key
      BY DEF Rows
<1>2. RecordIntent(l, key, bill) = [ok |-> TRUE, ledger |-> m]
      BY DEF RecordIntent, Done
<1> HIDE DEF row
<1>3. /\ Sound(m) /\ Extends(m, l)
      /\ Len(l) \in Nat /\ DOMAIN l = 1..Len(l) /\ DOMAIN m = 1..(Len(l) + 1)
      /\ \A k \in DOMAIN l : m[k] = l[k]
      /\ m[Len(l) + 1] = row
      BY <1>1, NewRowFacts
<1> HIDE DEF m
<1>4. KeysWithin(m, l, key) /\ RowsOf(m, bill) # {}
      BY <1>1, <1>3 DEF KeysWithin, RowsOf
<1> QED
    BY <1>2, <1>3, <1>4 DEF Outcome

(* A confirmation: a receipt that is there is an error and changes         *)
(* nothing; a new one is recorded, and matched if one intent can be meant  *)
(* (store.ts: recordConfirmation).                                         *)
LEMMA RecordConfirmationFacts ==
    ASSUME NEW l, Sound(l), NEW key \in Nat, NEW receipt \in Receipts,
           \A i \in DOMAIN l : l[i].key # key
    PROVE  Outcome(RecordConfirmation(l, key, receipt), l, key, receipt)
<1> DEFINE row == [kind |-> "CONFIRMATION", status |-> "UNMATCHED", about |-> receipt,
                   key |-> key, matched |-> 0]
           m == Append(l, row)
           r == RecordConfirmation(l, key, receipt)
<1>1. CASE \E i \in DOMAIN l : l[i].kind = "CONFIRMATION" /\ l[i].about = receipt
  <2>1. IsTaken(l, key, receipt)
        BY <1>1 DEF IsTaken
  <2>2. r = [ok |-> FALSE, ledger |-> l]
        BY <2>1 DEF RecordConfirmation
  <2>3. Extends(l, l) /\ KeysWithin(l, l, key)
        BY DEF Extends, KeysWithin, Sound
  <2> QED
      BY <2>2, <2>3 DEF Outcome
<1>2. CASE ~\E i \in DOMAIN l : l[i].kind = "CONFIRMATION" /\ l[i].about = receipt
  <2>1. ~IsTaken(l, key, receipt)
        BY <1>2 DEF IsTaken
  <2>2. /\ row \in Rows /\ row.kind = "CONFIRMATION" /\ row.status = "UNMATCHED"
        /\ row.about = receipt /\ row.key = key
        BY DEF Rows
  <2> HIDE DEF row
  <2>3. /\ Sound(m) /\ Extends(m, l)
        /\ Len(l) \in Nat /\ DOMAIN l = 1..Len(l) /\ DOMAIN m = 1..(Len(l) + 1)
        /\ \A k \in DOMAIN l : m[k] = l[k]
        /\ m[Len(l) + 1] = row
        BY <1>2, <2>2, NewRowFacts
  <2> DEFINE c == Len(l) + 1
             own == {k \in DOMAIN m : m[k].key = key}
             sole == Candidates(m, PriceOf[receipt])
  <2>4. own = {c}
        BY <2>2, <2>3
  <2>5. r = IF Cardinality(sole) = 1
            THEN [ok |-> TRUE, ledger |-> Link(m, CHOOSE k \in own : TRUE, CHOOSE i \in sole : TRUE)]
            ELSE [ok |-> TRUE, ledger |-> m]
        BY <2>1, <2>4 DEF RecordConfirmation, Done, row
  <2> HIDE DEF r, m, own, sole
  <2>6. KeysWithin(m, l, key) /\ RowsOf(m, receipt) # {}
        BY <2>2, <2>3 DEF KeysWithin, RowsOf
  <2>7. CASE Cardinality(sole) = 1
    <3>1. sole # {}
          BY <2>7, FS_EmptySet
    <3>2. PICK i : i = CHOOSE x \in sole : TRUE
          OBVIOUS
    <3>3. i \in sole
          BY <3>1, <3>2
    <3>4. (CHOOSE k \in own : TRUE) = c
          BY <2>4
    <3>5. r = [ok |-> TRUE, ledger |-> Link(m, c, i)]
          BY <2>5, <2>7, <3>2, <3>4
    <3>6. Matchable(m, c, i)
          BY <2>2, <2>3, <3>3 DEF sole, Candidates, Matchable
    <3>7. Sound(Link(m, c, i)) /\ Extends(Link(m, c, i), m)
          BY <2>3, <3>6, LinkFacts
    <3>8. Extends(Link(m, c, i), l)
          BY <2>3, <3>7, ExtendsTransitive
    <3>9. DOMAIN Link(m, c, i) = DOMAIN m
          BY DEF Link
    <3>10. KeysWithin(Link(m, c, i), l, key) /\ RowsOf(Link(m, c, i), receipt) # {}
          BY <2>6, <3>7, <3>9 DEF KeysWithin, RowsOf, Extends
    <3> QED
        BY <3>5, <3>7, <3>8, <3>10 DEF Outcome, r
  <2>8. CASE Cardinality(sole) # 1
        BY <2>3, <2>5, <2>6, <2>8 DEF Outcome, r
  <2> QED
      BY <2>7, <2>8
<1> QED
    BY <1>1, <1>2

-----------------------------------------------------------------------------
(* What goes through the two pipes.                                        *)
Forms == {"intent", "confirm"}
Chips == [{"pendingIntents", "unmatchedConfirmations", "matched"} -> Nat]
Lists == UNION {[D -> Rows] : D \in SUBSET Nat}

Requests ==
    [op : {"read"}, mount : Nat, ends : BOOLEAN]
    \cup [op : {"intent"}, mount : Nat, about : Bills, key : Nat, valid : BOOLEAN]
    \cup [op : {"confirm"}, mount : Nat, about : Receipts, key : Nat, valid : BOOLEAN]
    \cup [op : {"match"}, mount : Nat, conf : Nat, intent : Nat, valid : BOOLEAN]

Answers ==
    [op : {"read"}, mount : Nat, ok : {TRUE}, ends : BOOLEAN, list : Lists, summary : Chips]
    \cup [op : Forms, mount : Nat, ok : BOOLEAN, about : Bills \cup Receipts]
    \cup [op : {"match"}, mount : Nat, ok : BOOLEAN, about : Nat]

ShowsRows(shown) == shown \in Lists /\ DOMAIN shown \subseteq DOMAIN ledger

DeskTypes ==
    /\ Sound(ledger)
    /\ requests \in Seq(Requests) /\ answers \in Seq(Answers)
    /\ mount \in 1..MaxMounts /\ calls \in 0..MaxCalls
    /\ busy \in BOOLEAN
    /\ ShowsRows(list) /\ summary \in Chips
    /\ filed \subseteq Bills \cup Receipts
    /\ \A n \in DOMAIN answers : answers[n].op = "read" => ShowsRows(answers[n].list)

(* An earlier page has sent everything it ever sends, and is answered      *)
(* before a later one.                                                     *)
InOrder ==
    /\ \A n \in DOMAIN requests : requests[n].mount <= mount
    /\ \A n \in DOMAIN answers : answers[n].mount <= mount
    /\ \A k, n \in DOMAIN requests : k < n => requests[k].mount <= requests[n].mount
    /\ \A k, n \in DOMAIN answers : k < n => answers[k].mount <= answers[n].mount
    /\ \A k \in DOMAIN answers, n \in DOMAIN requests : answers[k].mount <= requests[n].mount

(* The call of the page is under way once at most, be it the call itself,  *)
(* its answer or the read at its end; and the page is busy with it.        *)
IsCall(x) == x.mount = mount /\ (x.op = "read" => x.ends)

CallsAlone ==
    /\ \A k, n \in DOMAIN requests : IsCall(requests[k]) /\ IsCall(requests[n]) => k = n
    /\ \A k, n \in DOMAIN answers : IsCall(answers[k]) /\ IsCall(answers[n]) => k = n
    /\ \A k \in DOMAIN answers, n \in DOMAIN requests : ~(IsCall(answers[k]) /\ IsCall(requests[n]))
    /\ ~busy => /\ \A n \in DOMAIN requests : ~IsCall(requests[n])
                /\ \A n \in DOMAIN answers : ~IsCall(answers[n])

(* While a request of an earlier page is to be handled, this page shows    *)
(* nothing, and its first read is behind.                                  *)
EarlierFirst ==
    \A n \in DOMAIN requests : requests[n].mount < mount =>
       /\ list = NoRows
       /\ \E k \in DOMAIN requests : requests[k].op = "read" /\ requests[k].mount = mount

(* What was read is true, or a write has been answered after it.           *)
Wrote(a) == a.op # "read" /\ a.ok
Tells(shown, chips) == shown = ListLedger(ledger) /\ chips = LedgerSummary(ledger)

ReadsAreTrue ==
    \A n \in DOMAIN answers : answers[n].op = "read" =>
       \/ Tells(answers[n].list, answers[n].summary)
       \/ \E k \in DOMAIN answers : n < k /\ Wrote(answers[k])

(* What the page shows is true, or what makes it true is under way.        *)
Refreshes(a) == a.mount = mount /\ (Wrote(a) \/ (a.op = "read" /\ Tells(a.list, a.summary)))

PageIsRefreshed ==
    \/ Tells(list, summary)
    \/ \E n \in DOMAIN requests : requests[n].op = "read" /\ requests[n].mount = mount
    \/ \E n \in DOMAIN answers : Refreshes(answers[n])

(* Its list is not behind unless the call has been taken and is not over.  *)
Ending ==
    \/ \E n \in DOMAIN requests : IsCall(requests[n]) /\ requests[n].op = "read"
    \/ \E n \in DOMAIN answers : IsCall(answers[n]) /\ (answers[n].op = "read" \/ answers[n].ok)

ListIsTrue == list = NoRows \/ list = ListLedger(ledger) \/ Ending

(* A match that was asked for still makes a pair when its turn comes.      *)
MatchesAreSafe ==
    \A n \in DOMAIN requests : requests[n].op = "match" =>
       /\ Matchable(ledger, requests[n].conf, requests[n].intent)
       /\ \A k \in DOMAIN requests : k < n => requests[k].op = "read"

(* The key of a form is new to the ledger when its turn comes.             *)
KeysAreFresh ==
    /\ \A i \in DOMAIN ledger : ledger[i].key <= calls
    /\ \A n \in DOMAIN requests : requests[n].op \in Forms =>
          /\ requests[n].key <= calls
          /\ \A i \in DOMAIN ledger : ledger[i].key < requests[n].key
          /\ \A k \in DOMAIN requests :
                k < n /\ requests[k].op \in Forms => requests[k].key < requests[n].key

(* What was or will be seen recorded is there.                             *)
FiledAreThere ==
    /\ \A x \in filed : RowsOf(ledger, x) # {}
    /\ \A n \in DOMAIN answers :
          answers[n].op \in Forms /\ answers[n].ok => RowsOf(ledger, answers[n].about) # {}

DeskInv ==
    /\ DeskTypes
    /\ InOrder /\ CallsAlone /\ EarlierFirst
    /\ ReadsAreTrue /\ PageIsRefreshed /\ ListIsTrue
    /\ MatchesAreSafe /\ KeysAreFresh /\ FiledAreThere

-----------------------------------------------------------------------------
(* What the two reads of the ledger answer (store.ts: listLedger,          *)
(* ledgerSummary).                                                         *)
LEMMA CountFacts ==
    ASSUME NEW l, Sound(l), NEW kinds, NEW status PROVE Count(l, kinds, status) \in Nat
<1> DEFINE counted == {i \in DOMAIN l : l[i].kind \in kinds /\ l[i].status = status}
<1>1. counted \subseteq 1..Len(l) /\ Len(l) \in Nat
      BY DEF Sound
<1>2. IsFiniteSet(1..Len(l))
      BY <1>1, FS_Interval
<1>3. IsFiniteSet(counted)
      BY <1>1, <1>2, FS_Subset
<1> QED
    BY <1>3, FS_CardinalityType DEF Count

LEMMA ReadFacts ==
    ASSUME NEW l, Sound(l)
    PROVE  /\ ListLedger(l) \in Lists /\ DOMAIN ListLedger(l) \subseteq DOMAIN l
           /\ \A i \in DOMAIN ListLedger(l) : ListLedger(l)[i] = l[i]
           /\ LedgerSummary(l) \in Chips
<1> DEFINE newest == {k \in DOMAIN l : k + ListLimit > Len(l)}
<1>1. newest \in SUBSET Nat /\ newest \subseteq DOMAIN l /\ \A i \in newest : l[i] \in Rows
      BY DEF Sound
<1>2. ListLedger(l) = [i \in newest |-> l[i]]
      BY DEF ListLedger
<1> HIDE DEF newest
<1>3. ListLedger(l) \in [newest -> Rows]
      BY <1>1, <1>2
<1>4. ListLedger(l) \in Lists
      BY <1>1, <1>3 DEF Lists
<1>5. \A kinds, status : Count(l, kinds, status) \in Nat
      BY CountFacts
<1>6. LedgerSummary(l) \in Chips
      BY <1>5 DEF LedgerSummary, Chips
<1> QED
    BY <1>1, <1>2, <1>4, <1>6

LEMMA NothingShown == NoRows \in Lists /\ DOMAIN NoRows = {} /\ NoChips \in Chips
<1>1. NoRows \in [{} -> Rows] /\ {} \in SUBSET Nat /\ DOMAIN NoRows = {}
      BY DEF NoRows
<1>2. NoRows \in Lists
      BY <1>1 DEF Lists
<1>3. NoChips \in Chips
      BY DEF NoChips, Chips
<1> QED
    BY <1>1, <1>2, <1>3

-----------------------------------------------------------------------------
(* The page sends: a call, when it is not busy, or a read of the refresh   *)
(* button.                                                                 *)
MaySend(q) ==
    /\ q \in Requests /\ q.mount = mount /\ ~busy
    /\ \/ q.op = "read" /\ ~q.ends /\ UNCHANGED <<busy, calls>>
       \/ q.op \in Forms /\ q.key = calls + 1 /\ busy' = TRUE /\ calls' = calls + 1 /\ calls < MaxCalls
       \/ /\ q.op = "match" /\ busy' = TRUE /\ UNCHANGED calls
          /\ Matchable(ledger, q.conf, q.intent)
          /\ \A k \in DOMAIN requests : requests[k].op = "read"

LEMMA PipeTypes ==
    ASSUME DeskTypes
    PROVE  /\ mount \in Nat /\ mount >= 1 /\ calls \in Nat
           /\ Len(requests) \in Nat /\ DOMAIN requests = 1..Len(requests)
           /\ Len(answers) \in Nat /\ DOMAIN answers = 1..Len(answers)
           /\ \A n \in DOMAIN requests :
                 /\ requests[n] \in Requests /\ requests[n].mount \in Nat
                 /\ requests[n].op \in Forms \cup {"match", "read"}
                 /\ requests[n].op \in Forms => requests[n].key \in Nat
                 /\ requests[n].op = "read" => requests[n].ends \in BOOLEAN
           /\ \A n \in DOMAIN answers :
                 /\ answers[n] \in Answers /\ answers[n].mount \in Nat
                 /\ answers[n].op \in Forms \cup {"match", "read"}
                 /\ answers[n].ok \in BOOLEAN
           /\ \A i \in DOMAIN ledger : ledger[i].key \in Nat
<1>1. /\ mount \in Nat /\ mount >= 1 /\ calls \in Nat
      /\ Len(requests) \in Nat /\ DOMAIN requests = 1..Len(requests)
      /\ Len(answers) \in Nat /\ DOMAIN answers = 1..Len(answers)
      /\ \A n \in DOMAIN requests : requests[n] \in Requests
      /\ \A n \in DOMAIN answers : answers[n] \in Answers
      /\ \A i \in DOMAIN ledger : ledger[i] \in Rows
      BY PaymentDeskAssumption DEF DeskTypes, Sound
<1>2. \A q \in Requests :
         /\ q.mount \in Nat /\ q.op \in Forms \cup {"match", "read"}
         /\ q.op \in Forms => q.key \in Nat
         /\ q.op = "read" => q.ends \in BOOLEAN
      BY DEF Requests, Forms
<1>3. \A a \in Answers :
         /\ a.mount \in Nat /\ a.op \in Forms \cup {"match", "read"} /\ a.ok \in BOOLEAN
      BY DEF Answers, Forms
<1>4. \A r \in Rows : r.key \in Nat
      BY DEF Rows
<1> QED
    BY <1>1, <1>2, <1>3, <1>4

LEMMA Sending ==
    ASSUME DeskInv, NEW q, MaySend(q), Send(q),
           UNCHANGED <<ledger, answers, mount, list, summary, filed>>
    PROVE  DeskInv'
<1>0. /\ DeskTypes /\ InOrder /\ CallsAlone /\ EarlierFirst /\ ReadsAreTrue /\ PageIsRefreshed
      /\ ListIsTrue /\ MatchesAreSafe /\ KeysAreFresh /\ FiledAreThere
      BY DEF DeskInv
<1>1. PICK last : last = Len(requests) + 1
      OBVIOUS
<1>2. /\ requests' \in Seq(Requests)
      /\ DOMAIN requests' = DOMAIN requests \cup {last}
      /\ \A n \in DOMAIN requests : n < last /\ ~(last < n) /\ n # last /\ requests'[n] = requests[n]
      /\ requests'[last] = q
      BY <1>0, <1>1, AppendFacts DEF DeskTypes, Send, MaySend
<1>3. /\ q \in Requests /\ q.mount = mount /\ ~busy
      /\ mount \in Nat /\ calls \in Nat /\ calls' \in 0..MaxCalls /\ calls <= calls'
      /\ busy' \in BOOLEAN
  <2>1. /\ q \in Requests /\ q.mount = mount /\ ~busy /\ busy' \in {busy, TRUE}
        /\ calls' = calls \/ (calls' = calls + 1 /\ calls < MaxCalls)
        BY DEF MaySend
  <2>2. MaxCalls \in Nat /\ calls \in 0..MaxCalls /\ mount \in Nat /\ busy \in BOOLEAN
        BY <1>0, PaymentDeskAssumption, PipeTypes DEF DeskTypes
  <2>3. calls \in Nat /\ calls' \in 0..MaxCalls /\ calls <= calls'
    <3>1. calls \in Nat /\ calls <= MaxCalls
          BY <2>2
    <3>2. CASE calls' = calls
          BY <2>2, <3>1, <3>2
    <3>3. CASE calls' = calls + 1 /\ calls < MaxCalls
          BY <2>2, <3>1, <3>3
    <3> QED
        BY <2>1, <3>2, <3>3
  <2>4. busy' \in BOOLEAN
        BY <2>1, <2>2
  <2> QED
      BY <2>1, <2>2, <2>3, <2>4
<1>4. DeskTypes'
      BY <1>0, <1>2, <1>3 DEF DeskTypes, ShowsRows
<1>5. InOrder'
      BY <1>0, <1>2, <1>3, PipeTypes DEF InOrder
<1>6. CallsAlone'
  <2>1. /\ \A n \in DOMAIN requests : ~IsCall(requests[n])
        /\ \A n \in DOMAIN answers : ~IsCall(answers[n])
        BY <1>0, <1>3 DEF CallsAlone
  <2>2. \A x : IsCall(x)' <=> IsCall(x)
        BY DEF IsCall
  <2>3. ~busy' => ~IsCall(q)
        BY <1>3 DEF MaySend, IsCall
  <2> QED
      BY <1>2, <2>1, <2>2, <2>3 DEF CallsAlone, IsCall
<1>7. EarlierFirst'
  <2>1. \A n \in DOMAIN requests' : requests'[n].mount < mount =>
           n \in DOMAIN requests /\ requests[n].mount < mount
        BY <1>2, <1>3
  <2> QED
      BY <1>0, <1>2, <2>1 DEF EarlierFirst
<1>8. ReadsAreTrue'
      BY <1>0 DEF ReadsAreTrue, Tells, Wrote
<1>9. PageIsRefreshed'
      BY <1>0, <1>2 DEF PageIsRefreshed, Tells, Refreshes, Wrote
<1>10. ListIsTrue'
      BY <1>0, <1>2 DEF ListIsTrue, Ending, IsCall
<1>11. MatchesAreSafe'
  <2>1. q.op = "match" => /\ Matchable(ledger, q.conf, q.intent)
                          /\ \A k \in DOMAIN requests : requests[k].op = "read"
        BY DEF MaySend, Forms
  <2>2. ASSUME NEW n \in DOMAIN requests', requests'[n].op = "match"
        PROVE  /\ Matchable(ledger', requests'[n].conf, requests'[n].intent)
               /\ \A k \in DOMAIN requests' : k < n => requests'[k].op = "read"
    <3>1. CASE n \in DOMAIN requests
          BY <1>0, <1>2, <2>2, <3>1 DEF MatchesAreSafe
    <3>2. CASE n = last
      <4>1. \A k \in DOMAIN requests' : k < n => k \in DOMAIN requests
            BY <1>1, <1>2, <3>2
      <4> QED
          BY <1>2, <2>1, <2>2, <3>2, <4>1
    <3> QED
        BY <1>2, <3>1, <3>2
  <2> QED
      BY <2>2 DEF MatchesAreSafe
<1>12. KeysAreFresh'
  <2>1. CASE q.op \in Forms
    <3>1. q.key = calls + 1 /\ calls' = calls + 1
          BY <2>1 DEF MaySend, Forms
    <3>2. \A i \in DOMAIN ledger : ledger[i].key \in Nat /\ ledger[i].key <= calls
          BY <1>0, PipeTypes DEF KeysAreFresh
    <3>3. \A n \in DOMAIN requests : requests[n].op \in Forms =>
             requests[n].key \in Nat /\ requests[n].key <= calls
          BY <1>0, PipeTypes DEF KeysAreFresh
    <3>4. ASSUME NEW n \in DOMAIN requests', requests'[n].op \in Forms
          PROVE  /\ requests'[n].key <= calls'
                 /\ \A i \in DOMAIN ledger : ledger[i].key < requests'[n].key
                 /\ \A k \in DOMAIN requests' :
                       k < n /\ requests'[k].op \in Forms => requests'[k].key < requests'[n].key
      <4>1. CASE n \in DOMAIN requests
            BY <1>0, <1>2, <1>3, <3>1, <3>3, <3>4, <4>1 DEF KeysAreFresh
      <4>2. CASE n = last
        <5>1. \A k \in DOMAIN requests' : k < n => k \in DOMAIN requests
              BY <1>1, <1>2, <4>2
        <5> QED
            BY <1>2, <1>3, <3>1, <3>2, <3>3, <4>2, <5>1
      <4> QED
          BY <1>2, <4>1, <4>2
    <3> QED
        BY <1>3, <3>1, <3>2, <3>4 DEF KeysAreFresh
  <2>2. CASE q.op \notin Forms
        BY <1>0, <1>2, <1>3, <2>2, PipeTypes DEF KeysAreFresh
  <2> QED
      BY <2>1, <2>2
<1>13. FiledAreThere'
      BY <1>0 DEF FiledAreThere
<1> QED
    BY <1>4, <1>5, <1>6, <1>7, <1>8, <1>9, <1>10, <1>11, <1>12, <1>13 DEF DeskInv

-----------------------------------------------------------------------------
(* The main process handles the first request: the answer belongs to the   *)
(* same page, and the ledger is as the transaction left it.                *)
Handles(q, a) ==
    /\ requests # <<>> /\ q = requests[1]
    /\ requests' = Tail(requests) /\ answers' = Append(answers, a)
    /\ UNCHANGED deskVars
    /\ a \in Answers /\ a.op = q.op /\ a.mount = q.mount
    /\ Sound(ledger') /\ Extends(ledger', ledger)
    /\ ~Wrote(a) => ledger' = ledger
    /\ a.op = "read" => a.ends = q.ends /\ Tells(a.list, a.summary)
    /\ a.op \in Forms /\ a.ok => RowsOf(ledger', a.about) # {}
    /\ \A i \in DOMAIN ledger' :
          \/ q.op \in Forms /\ ledger'[i].key = q.key
          \/ \E j \in DOMAIN ledger : ledger'[i].key = ledger[j].key

LEMMA GrowthFacts ==
    ASSUME Sound(ledger), Sound(ledger'), Extends(ledger', ledger)
    PROVE  /\ DOMAIN ledger \subseteq DOMAIN ledger'
           /\ \A x : RowsOf(ledger, x) # {} => RowsOf(ledger', x) # {}
           /\ \A shown : ShowsRows(shown) => ShowsRows(shown)'
<1>1. DOMAIN ledger \subseteq DOMAIN ledger'
  <2>1. DOMAIN ledger = 1..Len(ledger) /\ DOMAIN ledger' = 1..Len(ledger')
        BY DEF Sound
  <2>2. Len(ledger) \in Nat /\ Len(ledger') \in Nat /\ Len(ledger) <= Len(ledger')
        BY DEF Sound, Extends
  <2> QED
      BY <2>1, <2>2
<1> QED
    BY <1>1 DEF Extends, RowsOf, ShowsRows

LEMMA Handling ==
    ASSUME DeskInv, NEW q, NEW a, Handles(q, a) PROVE DeskInv'
<1>0. /\ DeskTypes /\ InOrder /\ CallsAlone /\ EarlierFirst /\ ReadsAreTrue /\ PageIsRefreshed
      /\ ListIsTrue /\ MatchesAreSafe /\ KeysAreFresh /\ FiledAreThere
      BY DEF DeskInv
<1>1. PICK last : last = Len(answers) + 1
      OBVIOUS
<1>2. /\ answers' \in Seq(Answers)
      /\ DOMAIN answers' = DOMAIN answers \cup {last}
      /\ \A n \in DOMAIN answers : n < last /\ ~(last < n) /\ n # last /\ answers'[n] = answers[n]
      /\ answers'[last] = a
      BY <1>0, <1>1, AppendFacts DEF DeskTypes, Handles
<1>3. /\ requests' \in Seq(Requests)
      /\ \A n \in DOMAIN requests' : n + 1 \in DOMAIN requests /\ n + 1 # 1
                                     /\ requests'[n] = requests[n + 1]
      /\ \A n \in DOMAIN requests : n = 1 \/ (n - 1 \in DOMAIN requests' /\ requests'[n - 1] = requests[n])
      /\ 1 \in DOMAIN requests /\ requests[1] = q
      /\ DOMAIN requests' \subseteq Nat /\ DOMAIN requests \subseteq Nat
      /\ \A n \in DOMAIN requests' : 1 < n + 1
      BY <1>0, TailFacts DEF DeskTypes, Handles
<1>4. /\ UNCHANGED <<mount, busy, list, summary, filed, calls>>
      /\ a \in Answers /\ a.op = q.op /\ a.mount = q.mount
      /\ a.op = "read" => a.ends = q.ends
      BY DEF Handles, deskVars
<1>5. /\ Sound(ledger') /\ DOMAIN ledger \subseteq DOMAIN ledger'
      /\ \A x : RowsOf(ledger, x) # {} => RowsOf(ledger', x) # {}
      /\ \A shown : ShowsRows(shown) => ShowsRows(shown)'
      BY <1>0, GrowthFacts DEF DeskTypes, Handles
<1>6. ledger' = ledger \/ Wrote(a)
      BY DEF Handles
<1>7. a.op = "read" => ledger' = ledger /\ Tells(a.list, a.summary)
      BY DEF Handles, Wrote
<1>8. \A x : IsCall(x)' <=> IsCall(x)
      BY <1>4 DEF IsCall
<1>9. DeskTypes'
  <2>1. a.op = "read" => ShowsRows(a.list)'
        BY <1>0, <1>5, <1>7, ReadFacts DEF DeskTypes, Tells, ShowsRows
  <2> QED
      BY <1>0, <1>2, <1>3, <1>4, <1>5, <2>1 DEF DeskTypes
<1>9a. a.mount \in Nat /\ mount \in Nat /\ a.mount <= mount
      BY <1>0, <1>3, <1>4, PipeTypes DEF InOrder
<1>9b. \A n \in DOMAIN requests' : a.mount <= requests'[n].mount
  <2> TAKE n \in DOMAIN requests'
  <2>1. n + 1 \in DOMAIN requests /\ 1 < n + 1 /\ requests'[n] = requests[n + 1]
        BY <1>3
  <2>2. requests[1].mount <= requests[n + 1].mount
        BY <1>0, <1>3, <2>1 DEF InOrder
  <2> QED
      BY <1>3, <1>4, <2>1, <2>2
<1>10. InOrder'
  <2>1. \A n \in DOMAIN requests' : requests'[n].mount <= mount
        BY <1>0, <1>3 DEF InOrder
  <2>2. \A n \in DOMAIN answers' : answers'[n].mount <= mount
        BY <1>0, <1>2, <1>9a DEF InOrder
  <2>3. ASSUME NEW k \in DOMAIN requests', NEW n \in DOMAIN requests', k < n
        PROVE  requests'[k].mount <= requests'[n].mount
    <3>1. /\ k + 1 \in DOMAIN requests /\ n + 1 \in DOMAIN requests /\ k \in Nat /\ n \in Nat
          /\ requests'[k] = requests[k + 1] /\ requests'[n] = requests[n + 1]
          BY <1>3
    <3>2. k + 1 < n + 1
          BY <2>3, <3>1
    <3> QED
        BY <1>0, <3>1, <3>2 DEF InOrder
  <2>4. \A k \in DOMAIN answers : answers[k].mount <= a.mount
        BY <1>0, <1>3, <1>4 DEF InOrder
  <2>5. ASSUME NEW k \in DOMAIN answers', NEW n \in DOMAIN answers', k < n
        PROVE  answers'[k].mount <= answers'[n].mount
    <3>1. k \in DOMAIN answers
          BY <1>1, <1>2, <2>5, PipeTypes, <1>0
    <3>2. CASE n \in DOMAIN answers
          BY <1>0, <1>2, <2>5, <3>1, <3>2 DEF InOrder
    <3>3. CASE n = last
          BY <1>2, <2>4, <3>1, <3>3
    <3> QED
        BY <1>2, <3>2, <3>3
  <2>6. ASSUME NEW k \in DOMAIN answers', NEW n \in DOMAIN requests'
        PROVE  answers'[k].mount <= requests'[n].mount
    <3>1. CASE k \in DOMAIN answers
          BY <1>0, <1>2, <1>3, <3>1 DEF InOrder
    <3>2. CASE k = last
          BY <1>2, <1>9b, <3>2
    <3> QED
        BY <1>2, <3>1, <3>2
  <2> QED
      BY <1>4, <2>1, <2>2, <2>3, <2>5, <2>6 DEF InOrder
<1>11. CallsAlone'
  <2>1. IsCall(a) <=> IsCall(q)
        BY <1>4 DEF IsCall
  <2> QED
      BY <1>0, <1>2, <1>3, <1>4, <1>8, <2>1 DEF CallsAlone
<1>12a. a.mount # mount =>
         /\ list = NoRows
         /\ \E k \in DOMAIN requests' : requests'[k].op = "read" /\ requests'[k].mount = mount
  <2> SUFFICES ASSUME a.mount # mount
               PROVE  /\ list = NoRows
                      /\ \E k \in DOMAIN requests' :
                            requests'[k].op = "read" /\ requests'[k].mount = mount
      OBVIOUS
  <2>1. requests[1].mount < mount
        BY <1>3, <1>4, <1>9a
  <2>2. /\ list = NoRows
        /\ \E k \in DOMAIN requests : requests[k].op = "read" /\ requests[k].mount = mount
        BY <1>0, <1>3, <2>1 DEF EarlierFirst
  <2>3. PICK k \in DOMAIN requests : requests[k].op = "read" /\ requests[k].mount = mount
        BY <2>2
  <2>4. k # 1
        BY <1>3, <1>4, <2>3
  <2>5. k - 1 \in DOMAIN requests' /\ requests'[k - 1] = requests[k]
        BY <1>3, <2>4
  <2> QED
      BY <2>2, <2>3, <2>5
<1>12. EarlierFirst'
  <2> SUFFICES ASSUME NEW n \in DOMAIN requests', requests'[n].mount < mount
               PROVE  /\ list = NoRows
                      /\ \E k \in DOMAIN requests' :
                            requests'[k].op = "read" /\ requests'[k].mount = mount
      BY <1>4 DEF EarlierFirst
  <2>1. a.mount <= requests'[n].mount /\ requests'[n].mount \in Nat
        BY <1>0, <1>3, <1>9b, PipeTypes
  <2>2. a.mount # mount
        BY <1>9a, <2>1
  <2> QED
      BY <1>12a, <2>2
<1>13. ReadsAreTrue'
      BY <1>0, <1>2, <1>6, <1>7 DEF ReadsAreTrue, Tells
<1>14. PageIsRefreshed'
  <2>0. /\ last \in DOMAIN answers' /\ answers'[last] = a
        /\ \A n \in DOMAIN answers : n \in DOMAIN answers' /\ answers'[n] = answers[n]
        /\ list' = list /\ summary' = summary /\ mount' = mount
        BY <1>2, <1>4
  <2>1. CASE a.mount # mount
        BY <1>12a, <2>0, <2>1 DEF PageIsRefreshed
  <2>2. CASE a.mount = mount /\ Wrote(a)
        BY <2>0, <2>2 DEF PageIsRefreshed, Refreshes, Wrote
  <2>3. CASE a.mount = mount /\ ledger' = ledger
    <3>1. CASE Tells(list, summary)
          BY <2>0, <2>3, <3>1 DEF PageIsRefreshed, Tells
    <3>2. CASE \E n \in DOMAIN requests : requests[n].op = "read" /\ requests[n].mount = mount
      <4>1. PICK n \in DOMAIN requests : requests[n].op = "read" /\ requests[n].mount = mount
            BY <3>2
      <4>2. CASE n = 1
        <5>1. a.op = "read" /\ Tells(a.list, a.summary)
              BY <1>3, <1>4, <1>7, <4>1, <4>2
        <5> QED
            BY <2>0, <2>3, <5>1 DEF PageIsRefreshed, Refreshes, Tells
      <4>3. CASE n # 1
            BY <1>3, <2>0, <4>1, <4>3 DEF PageIsRefreshed
      <4> QED
          BY <4>2, <4>3
    <3>3. CASE \E n \in DOMAIN answers : Refreshes(answers[n])
          BY <2>0, <2>3, <3>3 DEF PageIsRefreshed, Refreshes, Tells, Wrote
    <3> QED
        BY <1>0, <3>1, <3>2, <3>3 DEF PageIsRefreshed
  <2> QED
      BY <1>6, <2>1, <2>2, <2>3
<1>15. ListIsTrue'
  <2>0. /\ last \in DOMAIN answers' /\ answers'[last] = a
        /\ \A n \in DOMAIN answers : n \in DOMAIN answers' /\ answers'[n] = answers[n]
        /\ list' = list /\ mount' = mount
        BY <1>2, <1>4
  <2>1. CASE a.mount # mount
        BY <1>12a, <2>0, <2>1 DEF ListIsTrue
  <2>2. CASE a.mount = mount /\ Wrote(a)
        BY <2>0, <2>2 DEF ListIsTrue, Ending, Wrote, IsCall
  <2>3. CASE ledger' = ledger
    <3>1. CASE list = NoRows \/ list = ListLedger(ledger)
          BY <2>0, <2>3, <3>1 DEF ListIsTrue
    <3>2. CASE \E n \in DOMAIN requests : IsCall(requests[n]) /\ requests[n].op = "read"
      <4>1. PICK n \in DOMAIN requests : IsCall(requests[n]) /\ requests[n].op = "read"
            BY <3>2
      <4>2. CASE n = 1
        <5>1. IsCall(a) /\ a.op = "read"
              BY <1>3, <1>4, <4>1, <4>2 DEF IsCall
        <5> QED
            BY <1>8, <2>0, <5>1 DEF ListIsTrue, Ending
      <4>3. CASE n # 1
            BY <1>3, <1>8, <4>1, <4>3 DEF ListIsTrue, Ending
      <4> QED
          BY <4>2, <4>3
    <3>3. CASE \E n \in DOMAIN answers : IsCall(answers[n]) /\ (answers[n].op = "read" \/ answers[n].ok)
          BY <1>8, <2>0, <3>3 DEF ListIsTrue, Ending
    <3> QED
        BY <1>0, <3>1, <3>2, <3>3 DEF ListIsTrue, Ending
  <2> QED
      BY <1>6, <2>1, <2>2, <2>3
<1>16. MatchesAreSafe'
      BY <1>0, <1>3, <1>4, <1>7 DEF MatchesAreSafe
<1>17. KeysAreFresh'
  <2>1. \A i \in DOMAIN ledger' : \/ q.op \in Forms /\ ledger'[i].key = q.key
                                 \/ \E j \in DOMAIN ledger : ledger'[i].key = ledger[j].key
        BY DEF Handles
  <2>2. \A i \in DOMAIN ledger' : ledger'[i].key <= calls
        BY <1>0, <1>3, <2>1 DEF KeysAreFresh
  <2>3. ASSUME NEW n \in DOMAIN requests', requests'[n].op \in Forms
        PROVE  /\ requests'[n].key <= calls
               /\ \A i \in DOMAIN ledger' : ledger'[i].key < requests'[n].key
               /\ \A k \in DOMAIN requests' :
                     k < n /\ requests'[k].op \in Forms => requests'[k].key < requests'[n].key
    <3>1. n + 1 \in DOMAIN requests /\ 1 < n + 1 /\ requests'[n] = requests[n + 1] /\ n \in Nat
          BY <1>3
    <3>2. /\ requests[n + 1].key <= calls
          /\ \A i \in DOMAIN ledger : ledger[i].key < requests[n + 1].key
          /\ \A k \in DOMAIN requests :
                k < n + 1 /\ requests[k].op \in Forms => requests[k].key < requests[n + 1].key
          BY <1>0, <2>3, <3>1 DEF KeysAreFresh
    <3>3. \A i \in DOMAIN ledger' : ledger'[i].key < requests'[n].key
          BY <1>3, <2>1, <3>1, <3>2
    <3>4. ASSUME NEW k \in DOMAIN requests', k < n, requests'[k].op \in Forms
          PROVE  requests'[k].key < requests'[n].key
      <4>1. k + 1 \in DOMAIN requests /\ requests'[k] = requests[k + 1] /\ k \in Nat
            BY <1>3
      <4>2. k + 1 < n + 1
            BY <3>1, <3>4, <4>1
      <4> QED
          BY <3>1, <3>2, <3>4, <4>1, <4>2
    <3> QED
        BY <3>1, <3>2, <3>3, <3>4
  <2> QED
      BY <1>4, <2>2, <2>3 DEF KeysAreFresh
<1>18. FiledAreThere'
      BY <1>0, <1>2, <1>4, <1>5 DEF FiledAreThere, Handles
<1> QED
    BY <1>9, <1>10, <1>11, <1>12, <1>13, <1>14, <1>15, <1>16, <1>17, <1>18 DEF DeskInv

-----------------------------------------------------------------------------
(* The actions of the page.                                                *)
LEMMA FormKeepsDeskInv ==
    ASSUME DeskInv, NEW op \in Forms, NEW about, NEW valid \in BOOLEAN,
           op = "intent" => about \in Bills, op = "confirm" => about \in Receipts,
           Form(op, about, valid)
    PROVE  DeskInv'
<1>1. PICK q : q = [op |-> op, mount |-> mount, about |-> about, key |-> calls + 1, valid |-> valid]
      OBVIOUS
<1>2. /\ calls < MaxCalls /\ calls' = calls + 1 /\ ~busy /\ busy' = TRUE
      /\ requests' = Append(requests, q)
      /\ UNCHANGED <<ledger, answers, mount, list, summary, filed>>
      BY <1>1 DEF Form, Call, Send
<1>3. mount \in Nat /\ calls + 1 \in Nat
      BY PipeTypes DEF DeskInv
<1>4. q \in Requests /\ q.op = op /\ q.mount = mount /\ q.key = calls + 1
      BY <1>1, <1>3 DEF Requests, Forms
<1>5. MaySend(q) /\ Send(q)
      BY <1>2, <1>4 DEF MaySend, Send
<1> QED
    BY <1>2, <1>5, Sending

LEMMA RefreshKeepsDeskInv ==
    ASSUME DeskInv, ClickRefresh PROVE DeskInv'
<1>1. PICK q : q = Read(FALSE)
      OBVIOUS
<1>2. /\ ~busy /\ requests' = Append(requests, q)
      /\ UNCHANGED <<ledger, answers, mount, busy, list, summary, filed, calls>>
      BY <1>1 DEF ClickRefresh, Send, deskVars
<1>3. mount \in Nat
      BY PipeTypes DEF DeskInv
<1>4. q \in Requests /\ q.op = "read" /\ q.mount = mount /\ ~q.ends
      BY <1>1, <1>3 DEF Requests, Read
<1>5. MaySend(q) /\ Send(q)
      BY <1>2, <1>4 DEF MaySend, Send
<1> QED
    BY <1>2, <1>5, Sending

(* A page that is not busy and shows rows has the list of the ledger, and  *)
(* nothing but reads is under way: what the button asks for can be done.   *)
LEMMA MatchKeepsDeskInv ==
    ASSUME DeskInv, NEW c \in DOMAIN list, ClickMatch(c) PROVE DeskInv'
<1>0. /\ DeskTypes /\ InOrder /\ CallsAlone /\ EarlierFirst /\ ListIsTrue
      BY DEF DeskInv
<1>1. PICK i \in DOMAIN list :
         /\ Offered(i, c)
         /\ Call([op |-> "match", mount |-> mount, conf |-> c, intent |-> i,
                  valid |-> Operator \in Uuids])
      BY DEF ClickMatch
<1>2. PICK q : q = [op |-> "match", mount |-> mount, conf |-> c, intent |-> i,
                    valid |-> Operator \in Uuids]
      OBVIOUS
<1>3. /\ ~busy /\ busy' = TRUE /\ calls' = calls
      /\ requests' = Append(requests, q)
      /\ UNCHANGED <<ledger, answers, mount, list, summary, filed>>
      /\ list[c].kind = "CONFIRMATION" /\ list[c].status = "UNMATCHED"
      BY <1>1, <1>2 DEF ClickMatch, Call, Send
<1>4. mount \in Nat /\ c \in Nat /\ i \in Nat
      BY <1>0, PipeTypes DEF DeskTypes, ShowsRows, Sound
<1>5. /\ q \in Requests /\ q.op = "match" /\ q.mount = mount
      /\ q.conf = c /\ q.intent = i
      BY <1>2, <1>4 DEF Requests
<1>6. list # NoRows
      BY NothingShown
<1>7. ~Ending
      BY <1>0, <1>3 DEF CallsAlone, Ending
<1>8. list = ListLedger(ledger)
      BY <1>0, <1>6, <1>7 DEF ListIsTrue
<1>9. Matchable(ledger, c, i)
      BY <1>0, <1>1, <1>3, <1>8, ReadFacts DEF DeskTypes, Offered, Matchable
<1>10. ASSUME NEW k \in DOMAIN requests PROVE requests[k].op = "read"
  <2>1. requests[k].mount <= mount /\ requests[k].mount \in Nat
        BY <1>0, PipeTypes DEF InOrder
  <2>2. ~(requests[k].mount < mount)
        BY <1>0, <1>6 DEF EarlierFirst
  <2>3. requests[k].mount = mount
        BY <1>4, <2>1, <2>2
  <2> QED
      BY <1>0, <1>3, <2>3 DEF CallsAlone, IsCall
<1>11. MaySend(q) /\ Send(q)
      BY <1>3, <1>5, <1>9, <1>10 DEF MaySend, Send
<1> QED
    BY <1>3, <1>11, Sending

-----------------------------------------------------------------------------
(* The actions of the main process.                                        *)
LEMMA SoundExtendsItself == ASSUME NEW l, Sound(l) PROVE Extends(l, l)
    BY DEF Extends, Sound

LEMMA ReadKeepsDeskInv ==
    ASSUME DeskInv, HandleRead PROVE DeskInv'
<1>1. PICK q : q = Head(requests)
      OBVIOUS
<1>2. PICK a : a = [op |-> "read", mount |-> q.mount, ok |-> TRUE, ends |-> q.ends,
                    list |-> ListLedger(ledger), summary |-> LedgerSummary(ledger)]
      OBVIOUS
<1>3. /\ requests # <<>> /\ q.op = "read"
      /\ ledger' = ledger /\ requests' = Tail(requests) /\ answers' = Append(answers, a)
      /\ UNCHANGED deskVars
      BY <1>1, <1>2 DEF HandleRead, Handled
<1>4. DeskTypes /\ Sound(ledger)
      BY DEF DeskInv, DeskTypes
<1>5. q = requests[1] /\ 1 \in DOMAIN requests
      BY <1>1, <1>3, <1>4, TailFacts DEF DeskTypes
<1>6. q.mount \in Nat /\ q.ends \in BOOLEAN
      BY <1>3, <1>4, <1>5, PipeTypes
<1>7. ListLedger(ledger) \in Lists /\ LedgerSummary(ledger) \in Chips
      BY <1>4, ReadFacts
<1>8. /\ a \in Answers /\ a.op = "read" /\ a.mount = q.mount /\ a.ends = q.ends
      /\ a.list = ListLedger(ledger) /\ a.summary = LedgerSummary(ledger)
      BY <1>2, <1>6, <1>7 DEF Answers
<1>9. Extends(ledger', ledger) /\ Sound(ledger')
      BY <1>3, <1>4, SoundExtendsItself
<1>10. Handles(q, a)
      BY <1>3, <1>5, <1>8, <1>9 DEF Handles, Tells, Wrote, Forms
<1> QED
    BY <1>10, Handling

(* A transaction with the outcome it should have.                          *)
LEMMA TransactionKeepsDeskInv ==
    ASSUME DeskInv, NEW q, NEW result, NEW about, requests # <<>>, q = Head(requests),
           q.op \in Forms => about \in Bills \cup Receipts,
           q.op = "match" => about \in Nat,
           q.op # "read",
           q.valid \in BOOLEAN,
           result.ok \in BOOLEAN, Sound(result.ledger), Extends(result.ledger, ledger),
           ~result.ok => result.ledger = ledger,
           q.op \in Forms /\ result.ok => RowsOf(result.ledger, about) # {},
           \A i \in DOMAIN result.ledger :
              \/ q.op \in Forms /\ result.ledger[i].key = q.key
              \/ \E j \in DOMAIN ledger : result.ledger[i].key = ledger[j].key,
           Transacted(q, result, about)
    PROVE  DeskInv' /\ Extends(ledger', ledger)
<1>1. PICK taken : taken = IF q.valid THEN result ELSE Refused
      OBVIOUS
<1>2. PICK a : a = [op |-> q.op, mount |-> q.mount, ok |-> taken.ok, about |-> about]
      OBVIOUS
<1>3. /\ ledger' = taken.ledger /\ requests' = Tail(requests) /\ answers' = Append(answers, a)
      /\ UNCHANGED deskVars
      BY <1>1, <1>2 DEF Transacted, Handled
<1>4. DeskTypes /\ Sound(ledger)
      BY DEF DeskInv, DeskTypes
<1>5. q = requests[1] /\ 1 \in DOMAIN requests
      BY <1>4, TailFacts DEF DeskTypes
<1>6. q.mount \in Nat /\ q.op \in Forms \cup {"match"}
      BY <1>4, <1>5, PipeTypes
<1>7. /\ taken.ok \in BOOLEAN
      /\ Sound(taken.ledger) /\ Extends(taken.ledger, ledger)
      /\ ~taken.ok => taken.ledger = ledger
      /\ q.op \in Forms /\ taken.ok => RowsOf(taken.ledger, about) # {}
      /\ \A i \in DOMAIN taken.ledger :
            \/ q.op \in Forms /\ taken.ledger[i].key = q.key
            \/ \E j \in DOMAIN ledger : taken.ledger[i].key = ledger[j].key
  <2>1. CASE q.valid
    <3>1. taken = result
          BY <1>1, <2>1
    <3> QED
        BY <3>1
  <2>2. CASE ~q.valid
    <3>1. taken.ok = FALSE /\ taken.ledger = ledger
          BY <1>1, <2>2 DEF Refused
    <3> QED
        BY <1>4, <3>1, SoundExtendsItself
  <2> QED
      BY <2>1, <2>2
<1>8. a \in Answers /\ a.op = q.op /\ a.mount = q.mount /\ a.ok = taken.ok /\ a.about = about
      BY <1>2, <1>6, <1>7 DEF Answers, Forms
<1>9. Handles(q, a)
      BY <1>3, <1>5, <1>6, <1>7, <1>8 DEF Handles, Wrote, Forms
<1> QED
    BY <1>9, Handling DEF Handles

LEMMA WriteKeepsDeskInv ==
    ASSUME DeskInv, HandleWrite PROVE DeskInv' /\ Extends(ledger', ledger)
<1>1. PICK q : q = Head(requests)
      OBVIOUS
<1>2. requests # <<>>
      BY DEF HandleWrite
<1>3. DeskTypes /\ Sound(ledger) /\ MatchesAreSafe /\ KeysAreFresh
      BY DEF DeskInv, DeskTypes
<1>4. q = requests[1] /\ 1 \in DOMAIN requests /\ q \in Requests
      BY <1>1, <1>2, <1>3, TailFacts DEF DeskTypes
<1>5. q.op \in Forms =>
         q.key \in Nat /\ q.valid \in BOOLEAN /\ \A i \in DOMAIN ledger : ledger[i].key # q.key
  <2> SUFFICES ASSUME q.op \in Forms
               PROVE  q.key \in Nat /\ q.valid \in BOOLEAN
                      /\ \A i \in DOMAIN ledger : ledger[i].key # q.key
      OBVIOUS
  <2>1. q.key \in Nat /\ \A i \in DOMAIN ledger : ledger[i].key \in Nat
        BY <1>3, <1>4, PipeTypes
  <2>2. \A i \in DOMAIN ledger : ledger[i].key < q.key
        BY <1>3, <1>4 DEF KeysAreFresh
  <2>3. q.valid \in BOOLEAN
        BY <1>4 DEF Requests, Forms
  <2> QED
      BY <2>1, <2>2, <2>3
<1>6. CASE q.op = "intent" /\ Transacted(q, RecordIntent(ledger, q.key, q.about), q.about)
  <2>1. q.about \in Bills
        BY <1>4, <1>6 DEF Requests
  <2>2. PICK r : r = RecordIntent(ledger, q.key, q.about)
        OBVIOUS
  <2>3. Outcome(r, ledger, q.key, q.about)
        BY <1>3, <1>5, <1>6, <2>1, <2>2, RecordIntentFacts DEF Forms
  <2>4. Transacted(q, r, q.about)
        BY <1>6, <2>2
  <2> QED
      BY <1>1, <1>2, <1>5, <1>6, <2>1, <2>3, <2>4, TransactionKeepsDeskInv
         DEF Outcome, KeysWithin, Forms
<1>7. CASE q.op = "confirm" /\ Transacted(q, RecordConfirmation(ledger, q.key, q.about), q.about)
  <2>1. q.about \in Receipts
        BY <1>4, <1>7 DEF Requests
  <2>2. PICK r : r = RecordConfirmation(ledger, q.key, q.about)
        OBVIOUS
  <2>3. Outcome(r, ledger, q.key, q.about)
        BY <1>3, <1>5, <1>7, <2>1, <2>2, RecordConfirmationFacts DEF Forms
  <2>4. Transacted(q, r, q.about)
        BY <1>7, <2>2
  <2> QED
      BY <1>1, <1>2, <1>5, <1>7, <2>1, <2>3, <2>4, TransactionKeepsDeskInv
         DEF Outcome, KeysWithin, Forms
<1>8. CASE q.op = "match" /\ Transacted(q, MatchConfirmation(ledger, q.conf, q.intent), q.conf)
  <2>1. q.conf \in Nat /\ q.valid \in BOOLEAN
        BY <1>4, <1>8 DEF Requests
  <2>2. Matchable(ledger, q.conf, q.intent)
        BY <1>3, <1>4, <1>8 DEF MatchesAreSafe
  <2>3. PICK m : m = Link(ledger, q.conf, q.intent)
        OBVIOUS
  <2>4. Sound(m) /\ Extends(m, ledger)
        BY <1>3, <2>2, <2>3, LinkFacts
  <2>5. DOMAIN m = DOMAIN ledger
        BY <2>3 DEF Link
  <2>6. PICK r : r = MatchConfirmation(ledger, q.conf, q.intent)
        OBVIOUS
  <2>7. r.ok = TRUE /\ r.ledger = m
        BY <2>2, <2>3, <2>6 DEF MatchConfirmation, Matchable, Done
  <2>8. \A i \in DOMAIN r.ledger : \E j \in DOMAIN ledger : r.ledger[i].key = ledger[j].key
        BY <2>4, <2>5, <2>7 DEF Extends
  <2>9. Transacted(q, r, q.conf)
        BY <1>8, <2>6
  <2> QED
      BY <1>1, <1>2, <1>8, <2>1, <2>4, <2>7, <2>8, <2>9, TransactionKeepsDeskInv DEF Forms
<1> QED
    BY <1>1, <1>6, <1>7, <1>8 DEF HandleWrite

-----------------------------------------------------------------------------
(* The page takes an answer, and may read again.                           *)
Takes(a) ==
    /\ answers # <<>> /\ a = answers[1] /\ answers' = Tail(answers)
    /\ UNCHANGED <<ledger, mount, calls>>

Asks(q) == q \in Requests /\ q.op = "read" /\ requests' = Append(requests, q)

LEMMA TakenFacts ==
    ASSUME DeskInv, NEW a, Takes(a)
    PROVE  /\ answers' \in Seq(Answers)
           /\ \A n \in DOMAIN answers' : /\ n \in Nat /\ n + 1 \in DOMAIN answers /\ n + 1 # 1
                                         /\ answers'[n] = answers[n + 1]
           /\ \A n \in DOMAIN answers : n = 1 \/ (n - 1 \in DOMAIN answers' /\ answers'[n - 1] = answers[n])
           /\ 1 \in DOMAIN answers /\ a \in Answers
           /\ a.mount \in Nat /\ mount \in Nat /\ a.mount <= mount
           /\ a.op \in Forms \cup {"match", "read"} /\ a.ok \in BOOLEAN
           /\ ReadsAreTrue'
           /\ \A k, n \in DOMAIN answers' : k < n => answers'[k].mount <= answers'[n].mount
<1>0. DeskTypes /\ InOrder /\ ReadsAreTrue
      BY DEF DeskInv
<1>1. /\ answers' \in Seq(Answers)
      /\ \A n \in DOMAIN answers' : /\ n \in Nat /\ n + 1 \in DOMAIN answers /\ n + 1 # 1
                                    /\ answers'[n] = answers[n + 1]
      /\ \A n \in DOMAIN answers :
            n = 1 \/ (n - 1 \in DOMAIN answers' /\ n \in Nat /\ answers'[n - 1] = answers[n])
      /\ 1 \in DOMAIN answers /\ a = answers[1]
      BY <1>0, TailFacts DEF DeskTypes, Takes
<1>2. /\ a \in Answers /\ a.mount \in Nat /\ mount \in Nat /\ a.mount <= mount
      /\ a.op \in Forms \cup {"match", "read"} /\ a.ok \in BOOLEAN
      BY <1>0, <1>1, PipeTypes DEF InOrder
<1>3. ASSUME NEW n \in DOMAIN answers', answers'[n].op = "read"
      PROVE  \/ Tells(answers'[n].list, answers'[n].summary)
             \/ \E k \in DOMAIN answers' : n < k /\ Wrote(answers'[k])
  <2>1. n \in Nat /\ n + 1 \in DOMAIN answers /\ answers'[n] = answers[n + 1]
        BY <1>1
  <2>2. CASE Tells(answers[n + 1].list, answers[n + 1].summary)
        BY <2>1, <2>2
  <2>3. CASE \E k \in DOMAIN answers : n + 1 < k /\ Wrote(answers[k])
    <3>1. PICK k \in DOMAIN answers : n + 1 < k /\ Wrote(answers[k])
          BY <2>3
    <3>2. k # 1 /\ k \in Nat
          BY <1>0, <2>1, <3>1, PipeTypes
    <3>3. k - 1 \in DOMAIN answers' /\ answers'[k - 1] = answers[k]
          BY <1>1, <3>2
    <3>4. n < k - 1
          BY <2>1, <3>1, <3>2
    <3> QED
        BY <3>1, <3>3, <3>4
  <2> QED
      BY <1>0, <1>3, <2>1, <2>2, <2>3 DEF ReadsAreTrue
<1>4. ReadsAreTrue'
      BY <1>3 DEF ReadsAreTrue, Takes, Tells, Wrote
<1>5. ASSUME NEW k \in DOMAIN answers', NEW n \in DOMAIN answers', k < n
      PROVE  answers'[k].mount <= answers'[n].mount
  <2>1. /\ k \in Nat /\ n \in Nat /\ k + 1 \in DOMAIN answers /\ n + 1 \in DOMAIN answers
        /\ answers'[k] = answers[k + 1] /\ answers'[n] = answers[n + 1]
        BY <1>1
  <2>2. k + 1 < n + 1
        BY <1>5, <2>1
  <2> QED
      BY <1>0, <2>1, <2>2 DEF InOrder
<1> QED
    BY <1>1, <1>2, <1>4, <1>5

LEMMA AskedFacts ==
    ASSUME DeskInv, NEW q, Asks(q), UNCHANGED <<ledger, calls>>
    PROVE  /\ requests' \in Seq(Requests)
           /\ \E last \in DOMAIN requests' :
                 /\ DOMAIN requests' = DOMAIN requests \cup {last}
                 /\ last \notin DOMAIN requests /\ requests'[last] = q
                 /\ \A n \in DOMAIN requests : n < last /\ ~(last < n) /\ requests'[n] = requests[n]
           /\ MatchesAreSafe' /\ KeysAreFresh'
<1>0. DeskTypes /\ MatchesAreSafe /\ KeysAreFresh
      BY DEF DeskInv
<1>1. PICK last : last = Len(requests) + 1
      OBVIOUS
<1>2. /\ requests' \in Seq(Requests)
      /\ last \in DOMAIN requests' /\ DOMAIN requests' = DOMAIN requests \cup {last}
      /\ last \notin DOMAIN requests /\ requests'[last] = q
      /\ \A n \in DOMAIN requests : n < last /\ ~(last < n) /\ requests'[n] = requests[n]
      BY <1>0, <1>1, AppendFacts DEF DeskTypes, Asks
<1>3. q.op = "read"
      BY DEF Asks
<1>4. MatchesAreSafe'
  <2>1. \A n \in DOMAIN requests' : requests'[n].op = "match" => n \in DOMAIN requests
        BY <1>2, <1>3
  <2>2. \A n \in DOMAIN requests' : n \in DOMAIN requests \/ requests'[n].op = "read"
        BY <1>2, <1>3
  <2> QED
      BY <1>0, <1>2, <2>1, <2>2 DEF MatchesAreSafe
<1>5. KeysAreFresh'
  <2>1. \A n \in DOMAIN requests' : requests'[n].op \in Forms => n \in DOMAIN requests
        BY <1>2, <1>3 DEF Forms
  <2> QED
      BY <1>0, <1>2, <2>1 DEF KeysAreFresh
<1> QED
    BY <1>2, <1>4, <1>5

(* What the operator is told is there.                                     *)
LEMMA NotedFacts ==
    ASSUME DeskInv, NEW a, Takes(a), Answer = a, NEW seen, Noted(seen)
    PROVE  filed' \subseteq Bills \cup Receipts /\ FiledAreThere'
<1>0. DeskTypes /\ FiledAreThere
      BY DEF DeskInv
<1>1. /\ a \in Answers /\ a = answers[1] /\ 1 \in DOMAIN answers
      /\ \A n \in DOMAIN answers' : n + 1 \in DOMAIN answers /\ answers'[n] = answers[n + 1]
      /\ ledger' = ledger
      BY TakenFacts DEF Takes
<1>2. filed' = filed \/ (filed' = filed \cup {a.about} /\ a.ok /\ a.op \in Forms)
      BY DEF Noted, Forms
<1>3. a.op \in Forms /\ a.ok => a.about \in Bills \cup Receipts /\ RowsOf(ledger, a.about) # {}
  <2>1. a.op \in Forms => a.about \in Bills \cup Receipts
        BY <1>1 DEF Answers, Forms
  <2> QED
      BY <1>0, <1>1, <2>1 DEF FiledAreThere
<1>4. \A n \in DOMAIN answers' :
         answers'[n].op \in Forms /\ answers'[n].ok => RowsOf(ledger, answers'[n].about) # {}
      BY <1>0, <1>1 DEF FiledAreThere
<1>5. \A x \in filed' : RowsOf(ledger, x) # {}
      BY <1>0, <1>2, <1>3 DEF FiledAreThere
<1> QED
    BY <1>0, <1>1, <1>2, <1>3, <1>4, <1>5 DEF DeskTypes, FiledAreThere

(* A call of the page has come back: it was its only one.                  *)
LEMMA AnswerKeepsDeskInv ==
    ASSUME DeskInv, AnswerReturns PROVE DeskInv'
<1>0. /\ DeskTypes /\ InOrder /\ CallsAlone /\ EarlierFirst /\ PageIsRefreshed
      /\ ListIsTrue /\ MatchesAreSafe /\ KeysAreFresh
      BY DEF DeskInv
<1>1. PICK a : a = answers[1]
      OBVIOUS
<1>2. Answer = a /\ Takes(a) /\ a.mount = mount /\ a.op # "read"
  <2>1. answers # <<>> /\ Head(answers) = answers[1]
        BY <1>0, TailFacts DEF AnswerReturns, Fresh, DeskTypes
  <2> QED
      BY <1>1, <2>1 DEF AnswerReturns, Fresh, Answer, Takes
<1>3. /\ ledger' = ledger /\ mount' = mount /\ list' = list /\ summary' = summary /\ calls' = calls
      /\ Noted(TRUE)
      BY DEF AnswerReturns
<1>4. /\ answers' \in Seq(Answers)
      /\ \A n \in DOMAIN answers' : /\ n + 1 \in DOMAIN answers /\ n + 1 # 1
                                    /\ answers'[n] = answers[n + 1]
      /\ \A n \in DOMAIN answers : n = 1 \/ (n - 1 \in DOMAIN answers' /\ answers'[n - 1] = answers[n])
      /\ 1 \in DOMAIN answers /\ a \in Answers /\ a.ok \in BOOLEAN /\ mount \in Nat
      /\ ReadsAreTrue'
      /\ \A k, n \in DOMAIN answers' : k < n => answers'[k].mount <= answers'[n].mount
      BY <1>2, TakenFacts
<1>5. filed' \subseteq Bills \cup Receipts /\ FiledAreThere'
      BY <1>2, <1>3, NotedFacts
<1>6. IsCall(a) /\ busy
      BY <1>0, <1>1, <1>2, <1>4 DEF CallsAlone, IsCall
<1>7. \A n \in DOMAIN requests : ~IsCall(requests[n])
      BY <1>0, <1>1, <1>4, <1>6 DEF CallsAlone
<1>8. \A n \in DOMAIN answers' : ~IsCall(answers'[n])
      BY <1>0, <1>1, <1>4, <1>6 DEF CallsAlone
<1>9. \A x : IsCall(x)' <=> IsCall(x)
      BY <1>3 DEF IsCall
<1>10. \A n \in DOMAIN requests : requests[n].mount = mount
  <2> TAKE n \in DOMAIN requests
  <2>1. requests[n].mount <= mount /\ mount <= requests[n].mount /\ requests[n].mount \in Nat
        BY <1>0, <1>1, <1>2, <1>4, PipeTypes DEF InOrder
  <2> QED
      BY <1>4, <2>1
<1>11. \A n \in DOMAIN answers' : answers'[n].mount <= mount
      BY <1>0, <1>4 DEF InOrder
<1>12. \A n \in DOMAIN answers' : answers'[n].op = "read" => ShowsRows(answers'[n].list)
      BY <1>0, <1>3, <1>4 DEF DeskTypes, ShowsRows
<1>13. CASE a.ok
  <2>1. PICK q : q = Read(TRUE)
        OBVIOUS
  <2>2. /\ requests' = Append(requests, q) /\ busy' = busy
        /\ q \in Requests /\ q.op = "read" /\ q.mount = mount /\ q.ends = TRUE
        BY <1>2, <1>4, <1>13, <2>1 DEF AnswerReturns, Send, Read, Requests
  <2>3. Asks(q)
        BY <2>2 DEF Asks
  <2>4. requests' \in Seq(Requests) /\ MatchesAreSafe' /\ KeysAreFresh'
        BY <1>3, <2>3, AskedFacts
  <2>5. PICK last \in DOMAIN requests' :
           /\ DOMAIN requests' = DOMAIN requests \cup {last}
           /\ last \notin DOMAIN requests /\ requests'[last] = q
           /\ \A n \in DOMAIN requests : n < last /\ ~(last < n) /\ requests'[n] = requests[n]
        BY <1>3, <2>3, AskedFacts
  <2>6. \A n \in DOMAIN requests' : requests'[n].mount = mount
        BY <1>10, <2>2, <2>5
  <2>7. IsCall(q)
        BY <2>2 DEF IsCall
  <2>8. DeskTypes'
        BY <1>0, <1>3, <1>4, <1>5, <1>12, <2>2, <2>4 DEF DeskTypes, ShowsRows
  <2>9. InOrder'
        BY <1>3, <1>4, <1>11, <2>6 DEF InOrder
  <2>10. CallsAlone'
        BY <1>6, <1>7, <1>8, <1>9, <2>2, <2>5, <2>7 DEF CallsAlone
  <2>11. EarlierFirst'
        BY <1>3, <1>4, <2>6 DEF EarlierFirst
  <2>12. PageIsRefreshed'
        BY <1>3, <2>2, <2>5 DEF PageIsRefreshed
  <2>13. ListIsTrue'
        BY <1>9, <2>2, <2>5, <2>7 DEF ListIsTrue, Ending
  <2> QED
      BY <1>4, <1>5, <2>4, <2>8, <2>9, <2>10, <2>11, <2>12, <2>13 DEF DeskInv
<1>14. CASE ~a.ok
  <2>1. requests' = requests /\ busy' = FALSE
        BY <1>2, <1>14 DEF AnswerReturns
  <2>2. DeskTypes'
        BY <1>0, <1>3, <1>4, <1>5, <1>12, <2>1 DEF DeskTypes, ShowsRows
  <2>3. InOrder'
        BY <1>0, <1>3, <1>4, <1>10, <1>11, <2>1 DEF InOrder
  <2>4. CallsAlone'
        BY <1>7, <1>8, <1>9, <2>1 DEF CallsAlone
  <2>5. EarlierFirst'
        BY <1>3, <1>4, <1>10, <2>1 DEF EarlierFirst
  <2>6. ~Refreshes(a)
        BY <1>2, <1>14 DEF Refreshes, Wrote
  <2>7. PageIsRefreshed'
    <3>1. CASE Tells(list, summary)
          BY <1>3, <3>1 DEF PageIsRefreshed, Tells
    <3>2. CASE \E n \in DOMAIN requests : requests[n].op = "read" /\ requests[n].mount = mount
          BY <1>3, <2>1, <3>2 DEF PageIsRefreshed
    <3>3. CASE \E n \in DOMAIN answers : Refreshes(answers[n])
      <4>1. PICK n \in DOMAIN answers : Refreshes(answers[n])
            BY <3>3
      <4>2. n - 1 \in DOMAIN answers' /\ answers'[n - 1] = answers[n]
            BY <1>1, <1>4, <2>6, <4>1
      <4> QED
          BY <1>3, <4>1, <4>2 DEF PageIsRefreshed, Refreshes, Tells, Wrote
    <3> QED
        BY <1>0, <3>1, <3>2, <3>3 DEF PageIsRefreshed
  <2>8. ~Ending
    <3>1. \A n \in DOMAIN answers : IsCall(answers[n]) => answers[n] = a
          BY <1>1, <1>4, <1>8
    <3> QED
        BY <1>2, <1>7, <1>14, <3>1 DEF Ending
  <2>9. ListIsTrue'
        BY <1>0, <1>3, <2>8 DEF ListIsTrue
  <2>10. MatchesAreSafe' /\ KeysAreFresh'
        BY <1>0, <1>3, <2>1 DEF MatchesAreSafe, KeysAreFresh
  <2> QED
      BY <1>4, <1>5, <2>2, <2>3, <2>4, <2>5, <2>7, <2>9, <2>10 DEF DeskInv
<1> QED
    BY <1>4, <1>13, <1>14

(* A refresh has come back: what it read is true, or the answer of this    *)
(* page's own call, behind it, has made it old.                            *)
LEMMA RefreshedKeepsDeskInv ==
    ASSUME DeskInv, ReadReturns PROVE DeskInv'
<1>0. /\ DeskTypes /\ InOrder /\ CallsAlone /\ EarlierFirst /\ ReadsAreTrue
      /\ MatchesAreSafe /\ KeysAreFresh /\ FiledAreThere
      BY DEF DeskInv
<1>1. PICK a : a = answers[1]
      OBVIOUS
<1>2. Answer = a /\ Takes(a) /\ a.mount = mount /\ a.op = "read"
  <2>1. answers # <<>> /\ Head(answers) = answers[1]
        BY <1>0, TailFacts DEF ReadReturns, Fresh, DeskTypes
  <2> QED
      BY <1>1, <2>1 DEF ReadReturns, Fresh, Answer, Takes
<1>3. /\ ledger' = ledger /\ mount' = mount /\ filed' = filed /\ calls' = calls
      /\ requests' = requests
      /\ list' = a.list /\ summary' = a.summary /\ busy' = (busy /\ ~a.ends)
      BY <1>2 DEF ReadReturns
<1>4. /\ answers' \in Seq(Answers)
      /\ \A n \in DOMAIN answers' : /\ n \in Nat /\ n + 1 \in DOMAIN answers /\ n + 1 # 1
                                    /\ answers'[n] = answers[n + 1]
      /\ \A n \in DOMAIN answers : n = 1 \/ (n - 1 \in DOMAIN answers' /\ answers'[n - 1] = answers[n])
      /\ 1 \in DOMAIN answers /\ a \in Answers /\ a.ok \in BOOLEAN /\ mount \in Nat
      /\ ReadsAreTrue'
      /\ \A k, n \in DOMAIN answers' : k < n => answers'[k].mount <= answers'[n].mount
      BY <1>2, TakenFacts
<1>5. a.list \in Lists /\ DOMAIN a.list \subseteq DOMAIN ledger /\ a.summary \in Chips
  <2>1. ShowsRows(a.list)
        BY <1>0, <1>1, <1>2, <1>4 DEF DeskTypes
  <2>2. a.summary \in Chips
        BY <1>2, <1>4 DEF Answers, Forms
  <2> QED
      BY <2>1, <2>2 DEF ShowsRows
<1>6. busy' \in BOOLEAN
      BY <1>3
<1>7. \A x : IsCall(x)' <=> IsCall(x)
      BY <1>3 DEF IsCall
<1>8. DeskTypes'
  <2>1. \A n \in DOMAIN answers' : answers'[n].op = "read" =>
           answers'[n].list \in Lists /\ DOMAIN answers'[n].list \subseteq DOMAIN ledger
        BY <1>0, <1>4 DEF DeskTypes, ShowsRows
  <2> QED
      BY <1>0, <1>3, <1>4, <1>5, <1>6, <2>1 DEF DeskTypes, ShowsRows
<1>9. InOrder'
  <2>1. \A n \in DOMAIN answers' : answers'[n].mount <= mount
        BY <1>0, <1>4 DEF InOrder
  <2>2. \A k \in DOMAIN answers', n \in DOMAIN requests : answers'[k].mount <= requests[n].mount
        BY <1>0, <1>4 DEF InOrder
  <2> QED
      BY <1>0, <1>3, <1>4, <2>1, <2>2 DEF InOrder
<1>10. CallsAlone'
  <2>1. \A k, n \in DOMAIN answers' : IsCall(answers'[k]) /\ IsCall(answers'[n]) => k = n
    <3> SUFFICES ASSUME NEW k \in DOMAIN answers', NEW n \in DOMAIN answers',
                        IsCall(answers'[k]), IsCall(answers'[n])
                 PROVE  k = n
        OBVIOUS
    <3>1. /\ k \in Nat /\ k + 1 \in DOMAIN answers /\ answers'[k] = answers[k + 1]
          /\ n \in Nat /\ n + 1 \in DOMAIN answers /\ answers'[n] = answers[n + 1]
          BY <1>4
    <3>2. k + 1 = n + 1
          BY <1>0, <3>1 DEF CallsAlone
    <3> QED
        BY <3>1, <3>2
  <2>2. \A k \in DOMAIN answers', n \in DOMAIN requests : ~(IsCall(answers'[k]) /\ IsCall(requests[n]))
        BY <1>0, <1>4 DEF CallsAlone
  <2>3. ~busy' => /\ \A n \in DOMAIN requests : ~IsCall(requests[n])
                  /\ \A n \in DOMAIN answers' : ~IsCall(answers'[n])
    <3>1. CASE a.ends
      <4>1. IsCall(a)
            BY <1>2, <3>1 DEF IsCall
      <4> QED
          BY <1>0, <1>1, <1>4, <4>1 DEF CallsAlone
    <3>2. CASE ~a.ends
          BY <1>0, <1>3, <1>4, <3>2 DEF CallsAlone
    <3> QED
        BY <3>1, <3>2
  <2> QED
      BY <1>0, <1>3, <1>7, <2>1, <2>2, <2>3 DEF CallsAlone
<1>11. EarlierFirst'
  <2>1. ASSUME NEW n \in DOMAIN requests PROVE ~(requests[n].mount < mount)
    <3>1. mount <= requests[n].mount /\ requests[n].mount \in Nat
          BY <1>0, <1>1, <1>2, <1>4, PipeTypes DEF InOrder
    <3> QED
        BY <1>4, <3>1
  <2> QED
      BY <1>3, <2>1 DEF EarlierFirst
<1>12. \/ Tells(a.list, a.summary)
       \/ \E n \in DOMAIN answers' : Wrote(answers'[n]) /\ answers'[n].mount = mount
  <2>1. CASE Tells(a.list, a.summary)
        BY <2>1
  <2>2. CASE \E k \in DOMAIN answers : 1 < k /\ Wrote(answers[k])
    <3>1. PICK k \in DOMAIN answers : 1 < k /\ Wrote(answers[k])
          BY <2>2
    <3>2. k # 1
          BY <1>0, <3>1, PipeTypes
    <3>3. k - 1 \in DOMAIN answers' /\ answers'[k - 1] = answers[k]
          BY <1>4, <3>2
    <3>4. answers[k].mount <= mount /\ mount <= answers[k].mount /\ answers[k].mount \in Nat
          BY <1>0, <1>1, <1>2, <1>4, <3>1, PipeTypes DEF InOrder
    <3> QED
        BY <1>4, <3>1, <3>3, <3>4
  <2> QED
      BY <1>0, <1>1, <1>2, <1>4, <2>1, <2>2 DEF ReadsAreTrue
<1>13. PageIsRefreshed'
      BY <1>3, <1>12 DEF PageIsRefreshed, Refreshes, Tells, Wrote
<1>14. ListIsTrue'
      BY <1>3, <1>12 DEF ListIsTrue, Ending, IsCall, Tells, Wrote
<1>15. MatchesAreSafe' /\ KeysAreFresh'
      BY <1>0, <1>3 DEF MatchesAreSafe, KeysAreFresh
<1>16. FiledAreThere'
      BY <1>0, <1>3, <1>4 DEF FiledAreThere
<1> QED
    BY <1>4, <1>8, <1>9, <1>10, <1>11, <1>13, <1>14, <1>15, <1>16 DEF DeskInv

(* An answer for a page that is gone changes nothing that is shown.        *)
LEMMA LateKeepsDeskInv ==
    ASSUME DeskInv, LateAnswer PROVE DeskInv'
<1>0. /\ DeskTypes /\ InOrder /\ CallsAlone /\ EarlierFirst /\ PageIsRefreshed
      /\ ListIsTrue /\ MatchesAreSafe /\ KeysAreFresh
      BY DEF DeskInv
<1>1. PICK a : a = answers[1]
      OBVIOUS
<1>2. Answer = a /\ Takes(a) /\ a.mount # mount
  <2>1. answers # <<>> /\ Head(answers) = answers[1]
        BY <1>0, TailFacts DEF LateAnswer, DeskTypes
  <2> QED
      BY <1>1, <2>1 DEF LateAnswer, Answer, Takes
<1>3. /\ ledger' = ledger /\ mount' = mount /\ calls' = calls
      /\ requests' = requests /\ list' = list /\ summary' = summary /\ busy' = busy
      BY DEF LateAnswer
<1>4. /\ answers' \in Seq(Answers)
      /\ \A n \in DOMAIN answers' : /\ n \in Nat /\ n + 1 \in DOMAIN answers /\ n + 1 # 1
                                    /\ answers'[n] = answers[n + 1]
      /\ \A n \in DOMAIN answers : n = 1 \/ (n - 1 \in DOMAIN answers' /\ answers'[n - 1] = answers[n])
      /\ 1 \in DOMAIN answers /\ a \in Answers
      /\ ReadsAreTrue'
      /\ \A k, n \in DOMAIN answers' : k < n => answers'[k].mount <= answers'[n].mount
      BY <1>2, TakenFacts
<1>5. filed' \subseteq Bills \cup Receipts /\ FiledAreThere'
  <2>1. PICK seen \in BOOLEAN : Noted(seen)
        BY DEF LateAnswer
  <2> QED
      BY <1>2, <2>1, NotedFacts
<1>6. \A x : IsCall(x)' <=> IsCall(x)
      BY <1>3 DEF IsCall
<1>7. DeskTypes'
  <2>1. \A n \in DOMAIN answers' : answers'[n].op = "read" =>
           answers'[n].list \in Lists /\ DOMAIN answers'[n].list \subseteq DOMAIN ledger
        BY <1>0, <1>4 DEF DeskTypes, ShowsRows
  <2> QED
      BY <1>0, <1>3, <1>4, <1>5, <2>1 DEF DeskTypes, ShowsRows
<1>8. InOrder'
  <2>1. \A n \in DOMAIN answers' : answers'[n].mount <= mount
        BY <1>0, <1>4 DEF InOrder
  <2>2. \A k \in DOMAIN answers', n \in DOMAIN requests : answers'[k].mount <= requests[n].mount
        BY <1>0, <1>4 DEF InOrder
  <2> QED
      BY <1>0, <1>3, <1>4, <2>1, <2>2 DEF InOrder
<1>9. CallsAlone'
  <2>1. \A k, n \in DOMAIN answers' : IsCall(answers'[k]) /\ IsCall(answers'[n]) => k = n
    <3> SUFFICES ASSUME NEW k \in DOMAIN answers', NEW n \in DOMAIN answers',
                        IsCall(answers'[k]), IsCall(answers'[n])
                 PROVE  k = n
        OBVIOUS
    <3>1. /\ k \in Nat /\ k + 1 \in DOMAIN answers /\ answers'[k] = answers[k + 1]
          /\ n \in Nat /\ n + 1 \in DOMAIN answers /\ answers'[n] = answers[n + 1]
          BY <1>4
    <3>2. k + 1 = n + 1
          BY <1>0, <3>1 DEF CallsAlone
    <3> QED
        BY <3>1, <3>2
  <2>2. \A k \in DOMAIN answers', n \in DOMAIN requests : ~(IsCall(answers'[k]) /\ IsCall(requests[n]))
        BY <1>0, <1>4 DEF CallsAlone
  <2>3. ~busy => \A n \in DOMAIN answers' : ~IsCall(answers'[n])
        BY <1>0, <1>4 DEF CallsAlone
  <2> QED
      BY <1>0, <1>3, <1>6, <2>1, <2>2, <2>3 DEF CallsAlone
<1>10. EarlierFirst'
      BY <1>0, <1>3 DEF EarlierFirst
<1>11. \A n \in DOMAIN answers : answers[n].mount = mount =>
          \E k \in DOMAIN answers' : answers'[k] = answers[n]
      BY <1>1, <1>2, <1>4
<1>12. PageIsRefreshed'
  <2>1. CASE Tells(list, summary)
        BY <1>3, <2>1 DEF PageIsRefreshed, Tells
  <2>2. CASE \E n \in DOMAIN requests : requests[n].op = "read" /\ requests[n].mount = mount
        BY <1>3, <2>2 DEF PageIsRefreshed
  <2>3. CASE \E n \in DOMAIN answers : Refreshes(answers[n])
    <3>1. PICK n \in DOMAIN answers : Refreshes(answers[n])
          BY <2>3
    <3>2. PICK k \in DOMAIN answers' : answers'[k] = answers[n]
          BY <1>11, <3>1 DEF Refreshes
    <3> QED
        BY <1>3, <3>1, <3>2 DEF PageIsRefreshed, Refreshes, Tells, Wrote
  <2> QED
      BY <1>0, <2>1, <2>2, <2>3 DEF PageIsRefreshed
<1>13. ListIsTrue'
  <2>1. CASE list = NoRows \/ list = ListLedger(ledger)
        BY <1>3, <2>1 DEF ListIsTrue
  <2>2. CASE \E n \in DOMAIN requests : IsCall(requests[n]) /\ requests[n].op = "read"
        BY <1>3, <1>6, <2>2 DEF ListIsTrue, Ending
  <2>3. CASE \E n \in DOMAIN answers : IsCall(answers[n]) /\ (answers[n].op = "read" \/ answers[n].ok)
    <3>1. PICK n \in DOMAIN answers : IsCall(answers[n]) /\ (answers[n].op = "read" \/ answers[n].ok)
          BY <2>3
    <3>2. PICK k \in DOMAIN answers' : answers'[k] = answers[n]
          BY <1>11, <3>1 DEF IsCall
    <3> QED
        BY <1>6, <3>1, <3>2 DEF ListIsTrue, Ending
  <2> QED
      BY <1>0, <2>1, <2>2, <2>3 DEF ListIsTrue, Ending
<1>14. MatchesAreSafe' /\ KeysAreFresh'
      BY <1>0, <1>3 DEF MatchesAreSafe, KeysAreFresh
<1> QED
    BY <1>4, <1>5, <1>7, <1>8, <1>9, <1>10, <1>12, <1>13, <1>14 DEF DeskInv

(* The page is opened anew: whatever is under way belongs to an earlier    *)
(* one, and its first read is sent behind it.                              *)
LEMMA ReopenKeepsDeskInv ==
    ASSUME DeskInv, Reopen PROVE DeskInv'
<1>0. /\ DeskTypes /\ InOrder /\ ReadsAreTrue /\ FiledAreThere
      BY DEF DeskInv
<1>1. PICK q : q = [op |-> "read", mount |-> mount + 1, ends |-> FALSE]
      OBVIOUS
<1>2. /\ mount < MaxMounts /\ mount' = mount + 1 /\ busy' = FALSE
      /\ list' = NoRows /\ summary' = NoChips
      /\ requests' = Append(requests, q)
      /\ ledger' = ledger /\ answers' = answers /\ filed' = filed /\ calls' = calls
      BY <1>1 DEF Reopen, Send
<1>3. mount \in Nat /\ mount' \in Nat /\ mount' \in 1..MaxMounts
  <2>1. mount \in Nat /\ MaxMounts \in Nat
        BY <1>0, PipeTypes, PaymentDeskAssumption
  <2> QED
      BY <1>2, <2>1
<1>4. q \in Requests /\ q.op = "read" /\ q.mount = mount' /\ q.ends = FALSE
      BY <1>1, <1>2, <1>3 DEF Requests
<1>5. Asks(q)
      BY <1>2, <1>4 DEF Asks
<1>6. requests' \in Seq(Requests) /\ MatchesAreSafe' /\ KeysAreFresh'
      BY <1>2, <1>5, AskedFacts
<1>7. PICK last \in DOMAIN requests' :
         /\ DOMAIN requests' = DOMAIN requests \cup {last}
         /\ last \notin DOMAIN requests /\ requests'[last] = q
         /\ \A n \in DOMAIN requests : n < last /\ ~(last < n) /\ requests'[n] = requests[n]
      BY <1>2, <1>5, AskedFacts
<1>8. \A n \in DOMAIN requests : requests[n].mount < mount'
  <2> TAKE n \in DOMAIN requests
  <2>1. requests[n].mount <= mount /\ requests[n].mount \in Nat
        BY <1>0, PipeTypes DEF InOrder
  <2> QED
      BY <1>2, <1>3, <2>1
<1>9. \A n \in DOMAIN answers : answers[n].mount < mount'
  <2> TAKE n \in DOMAIN answers
  <2>1. answers[n].mount <= mount /\ answers[n].mount \in Nat
        BY <1>0, PipeTypes DEF InOrder
  <2> QED
      BY <1>2, <1>3, <2>1
<1>10. DeskTypes'
  <2>1. list' \in Lists /\ DOMAIN list' \subseteq DOMAIN ledger /\ summary' \in Chips
        BY <1>2, NothingShown
  <2> QED
      BY <1>0, <1>2, <1>3, <1>6, <2>1 DEF DeskTypes, ShowsRows
<1>11. InOrder'
  <2>1. /\ \A n \in DOMAIN requests : requests[n].mount <= mount'
        /\ \A n \in DOMAIN answers : answers[n].mount <= mount'
    <3>1. /\ \A n \in DOMAIN requests : requests[n].mount \in Nat
          /\ \A n \in DOMAIN answers : answers[n].mount \in Nat
          BY <1>0, PipeTypes
    <3> QED
        BY <1>3, <1>8, <1>9, <3>1
  <2>2. \A n \in DOMAIN requests' : requests'[n].mount <= mount'
        BY <1>3, <1>4, <1>7, <2>1
  <2>3. ASSUME NEW k \in DOMAIN requests', NEW n \in DOMAIN requests', k < n
        PROVE  requests'[k].mount <= requests'[n].mount
    <3>1. CASE n \in DOMAIN requests
      <4>1. k \in DOMAIN requests
            BY <1>7, <2>3, <3>1
      <4> QED
          BY <1>0, <1>7, <2>3, <3>1, <4>1 DEF InOrder
    <3>2. CASE n = last
          BY <1>4, <1>7, <2>2, <3>2
    <3> QED
        BY <1>7, <3>1, <3>2
  <2>4. \A k \in DOMAIN answers, n \in DOMAIN requests' : answers[k].mount <= requests'[n].mount
        BY <1>0, <1>4, <1>7, <2>1 DEF InOrder
  <2> QED
      BY <1>0, <1>2, <2>1, <2>2, <2>3, <2>4 DEF InOrder
<1>12. CallsAlone'
  <2>1. \A n \in DOMAIN requests' : ~(requests'[n].mount = mount'
                                      /\ (requests'[n].op = "read" => requests'[n].ends))
    <3> TAKE n \in DOMAIN requests'
    <3>1. CASE n \in DOMAIN requests
      <4>1. requests[n].mount # mount'
        <5>1. requests[n].mount \in Nat /\ requests[n].mount < mount'
              BY <1>0, <1>8, <3>1, PipeTypes
        <5> QED
            BY <1>3, <5>1
      <4> QED
          BY <1>7, <3>1, <4>1
    <3>2. CASE n = last
          BY <1>4, <1>7, <3>2
    <3> QED
        BY <1>7, <3>1, <3>2
  <2>2. \A n \in DOMAIN answers : answers[n].mount # mount'
    <3> TAKE n \in DOMAIN answers
    <3>1. answers[n].mount \in Nat /\ answers[n].mount < mount'
          BY <1>0, <1>9, PipeTypes
    <3> QED
        BY <1>3, <3>1
  <2> QED
      BY <1>2, <2>1, <2>2 DEF CallsAlone, IsCall
<1>13. EarlierFirst'
      BY <1>2, <1>4, <1>7 DEF EarlierFirst
<1>14. ReadsAreTrue'
      BY <1>0, <1>2 DEF ReadsAreTrue, Tells, Wrote
<1>15. PageIsRefreshed'
      BY <1>4, <1>7 DEF PageIsRefreshed
<1>16. ListIsTrue'
      BY <1>2 DEF ListIsTrue
<1>17. FiledAreThere'
      BY <1>0, <1>2 DEF FiledAreThere
<1> QED
    BY <1>6, <1>10, <1>11, <1>12, <1>13, <1>14, <1>15, <1>16, <1>17 DEF DeskInv

-----------------------------------------------------------------------------
LEMMA DeskInvInit == Init => DeskInv
<1> SUFFICES ASSUME Init PROVE DeskInv
    OBVIOUS
<1>1. PICK q : q = [op |-> "read", mount |-> 1, ends |-> FALSE]
      OBVIOUS
<1>2. /\ ledger = <<>> /\ mount = 1 /\ requests = <<q>> /\ answers = <<>>
      /\ busy = FALSE /\ list = NoRows /\ summary = NoChips /\ filed = {} /\ calls = 0
      BY <1>1 DEF Init
<1>3. q \in Requests /\ q.op = "read" /\ q.mount = 1 /\ q.ends = FALSE
      BY <1>1 DEF Requests
<1>4. /\ requests \in Seq(Requests) /\ DOMAIN requests = {1} /\ requests[1] = q
      /\ answers \in Seq(Answers) /\ DOMAIN answers = {}
      /\ DOMAIN ledger = {} /\ ledger \in Seq(Rows)
      BY <1>2, <1>3
<1>5. Sound(ledger)
      BY <1>4 DEF Sound, KindsAreRight, ReceiptsAreUnique, Paired
<1>6. DeskTypes
  <2>1. mount \in 1..MaxMounts /\ calls \in 0..MaxCalls
        BY <1>2, PaymentDeskAssumption
  <2> QED
      BY <1>2, <1>4, <1>5, <2>1, NothingShown DEF DeskTypes, ShowsRows
<1>7. InOrder
      BY <1>2, <1>3, <1>4 DEF InOrder
<1>8. CallsAlone
      BY <1>2, <1>3, <1>4 DEF CallsAlone, IsCall
<1>9. EarlierFirst
      BY <1>2, <1>3, <1>4 DEF EarlierFirst
<1>10. ReadsAreTrue /\ PageIsRefreshed /\ ListIsTrue
      BY <1>2, <1>3, <1>4 DEF ReadsAreTrue, PageIsRefreshed, ListIsTrue
<1>11. MatchesAreSafe /\ KeysAreFresh /\ FiledAreThere
      BY <1>2, <1>3, <1>4 DEF MatchesAreSafe, KeysAreFresh, FiledAreThere, Forms
<1> QED
    BY <1>6, <1>7, <1>8, <1>9, <1>10, <1>11 DEF DeskInv

LEMMA DeskInvStutter ==
    ASSUME DeskInv, UNCHANGED vars PROVE DeskInv'
<1>1. UNCHANGED <<ledger, requests, answers, mount, busy, list, summary, filed, calls>>
      BY DEF vars, deskVars
<1>2. (DeskTypes /\ InOrder)'
      BY <1>1 DEF DeskInv, DeskTypes, ShowsRows, InOrder
<1>3. (CallsAlone /\ EarlierFirst)'
      BY <1>1 DEF DeskInv, CallsAlone, IsCall, EarlierFirst
<1>4. (ReadsAreTrue /\ PageIsRefreshed /\ ListIsTrue)'
      BY <1>1 DEF DeskInv, ReadsAreTrue, PageIsRefreshed, ListIsTrue, Ending, IsCall,
                  Refreshes, Tells, Wrote
<1>5. (MatchesAreSafe /\ KeysAreFresh /\ FiledAreThere)'
      BY <1>1 DEF DeskInv, MatchesAreSafe, KeysAreFresh, FiledAreThere
<1> QED
    BY <1>2, <1>3, <1>4, <1>5 DEF DeskInv

LEMMA DeskInvStep == DeskInv /\ [Next]_vars => DeskInv'
<1> SUFFICES ASSUME DeskInv, [Next]_vars PROVE DeskInv'
    OBVIOUS
<1>1. CASE SubmitIntent
      BY <1>1, FormKeepsDeskInv DEF SubmitIntent, Forms
<1>2. CASE SubmitConfirmation
      BY <1>2, FormKeepsDeskInv DEF SubmitConfirmation, Forms
<1>3. CASE \E c \in DOMAIN list : ClickMatch(c)
      BY <1>3, MatchKeepsDeskInv
<1>4. CASE ClickRefresh
      BY <1>4, RefreshKeepsDeskInv
<1>5. CASE HandleWrite
      BY <1>5, WriteKeepsDeskInv
<1>6. CASE HandleRead
      BY <1>6, ReadKeepsDeskInv
<1>7. CASE AnswerReturns
      BY <1>7, AnswerKeepsDeskInv
<1>8. CASE ReadReturns
      BY <1>8, RefreshedKeepsDeskInv
<1>9. CASE LateAnswer
      BY <1>9, LateKeepsDeskInv
<1>10. CASE Reopen
      BY <1>10, ReopenKeepsDeskInv
<1>11. CASE UNCHANGED vars
      BY <1>11, DeskInvStutter
<1> QED
    BY <1>1, <1>2, <1>3, <1>4, <1>5, <1>6, <1>7, <1>8, <1>9, <1>10, <1>11 DEF Next

(* The inductive invariant holds of every state the page and the main      *)
(* process reach (Reconciliation.tsx, main/index.ts, store.ts).            *)
THEOREM DeskInvariance == Spec => []DeskInv
<1> QED
    BY DeskInvInit, DeskInvStep, PTL DEF Spec

(* Every variable keeps the shape the code gives it.                       *)
THEOREM DeskTypesHold == Spec => []TypeOK
<1>1. DeskInv => TypeOK
  <2> SUFFICES ASSUME DeskInv PROVE TypeOK
      OBVIOUS
  <2>1. DeskTypes
        BY DEF DeskInv
  <2>2. ledger \in Seq(Rows)
        BY <2>1 DEF DeskTypes, Sound
  <2>3. \A n \in DOMAIN requests : requests[n].op \in {"intent", "confirm", "match", "read"}
        BY <2>1, PipeTypes DEF Forms
  <2>4. \A n \in DOMAIN answers : answers[n].ok \in BOOLEAN
        BY <2>1, PipeTypes
  <2>5. DOMAIN list \subseteq DOMAIN ledger /\ \A i \in DOMAIN list : list[i] \in Rows
    <3>1. list \in Lists
          BY <2>1 DEF DeskTypes, ShowsRows
    <3>2. PICK D \in SUBSET Nat : list \in [D -> Rows]
          BY <3>1 DEF Lists
    <3> QED
        BY <2>1, <3>2 DEF DeskTypes, ShowsRows
  <2> QED
      BY <2>1, <2>2, <2>3, <2>4, <2>5 DEF TypeOK, DeskTypes, Chips
<1> QED
    BY <1>1, DeskInvariance, PTL

(* A matched row has a partner that points back at it, of the other kind   *)
(* and the same price, though the store checks none of it for a manual     *)
(* match (store.ts: matchConfirmation): what the page shows while its      *)
(* buttons are on is the ledger.                                           *)
THEOREM MatchesHold == Spec => []MatchesArePairs
<1>1. DeskInv => MatchesArePairs
      BY DEF DeskInv, DeskTypes, Sound, Paired, MatchesArePairs
<1> QED
    BY <1>1, DeskInvariance, PTL

(* Only the handlers write to the ledger, and what they are asked for      *)
(* spares what is matched: a match that was requested for rows free at the *)
(* time still finds them free (Reconciliation.tsx, store.ts:419).          *)
THEOREM MatchesAreKept == Spec => MatchIsFinal
<1>1. DeskInv /\ [Next]_vars =>
         [/\ Len(ledger) <= Len(ledger')
          /\ \A i \in DOMAIN ledger :
                ledger[i].status = "MATCHED" => ledger'[i] = ledger[i]]_vars
  <2> SUFFICES ASSUME DeskInv, [Next]_vars
               PROVE  /\ Len(ledger) <= Len(ledger')
                      /\ \A i \in DOMAIN ledger :
                            ledger[i].status = "MATCHED" => ledger'[i] = ledger[i]
      OBVIOUS
  <2>1. Sound(ledger)
        BY DEF DeskInv, DeskTypes
  <2>2. HandleWrite => Extends(ledger', ledger)
        BY WriteKeepsDeskInv
  <2>3. ~HandleWrite => ledger' = ledger
        BY DEF Next, vars, SubmitIntent, SubmitConfirmation, Form, ClickMatch, Call,
               ClickRefresh, HandleRead, Handled, AnswerReturns, ReadReturns, LateAnswer,
               Reopen
  <2>4. ledger' = ledger => Extends(ledger', ledger)
        BY <2>1, SoundExtendsItself
  <2> QED
      BY <2>2, <2>3, <2>4 DEF Extends
<1> QED
    BY <1>1, DeskInvariance, PTL DEF Spec, MatchIsFinal

(* A receipt is one row at most however often it is sent, and what the     *)
(* operator saw recorded is there (store.ts: recordConfirmation).          *)
THEOREM ReceiptsHold == Spec => []ReceiptPostedOnce
<1>1. DeskInv => ReceiptPostedOnce
  <2> SUFFICES ASSUME DeskInv PROVE ReceiptPostedOnce
      OBVIOUS
  <2>1. Sound(ledger) /\ FiledAreThere
        BY DEF DeskInv, DeskTypes
  <2>2. ASSUME NEW r \in Receipts PROVE Cardinality(RowsOf(ledger, r)) <= 1
    <3>1. \A i \in RowsOf(ledger, r) : i \in DOMAIN ledger /\ ledger[i].about = r
          BY DEF RowsOf
    <3>2. \A i \in RowsOf(ledger, r) : ledger[i].kind = "CONFIRMATION"
      <4> TAKE i \in RowsOf(ledger, r)
      <4>1. ledger[i].kind \in {"INTENT", "CONFIRMATION"}
        <5>1. ledger[i] \in Rows
              BY <2>1, <3>1 DEF Sound
        <5> QED
            BY <5>1 DEF Rows
      <4>2. r \notin Bills
            BY PaymentLedgerAssumption
      <4> QED
          BY <2>1, <3>1, <4>1, <4>2 DEF Sound, KindsAreRight
    <3>3. \A i, j \in RowsOf(ledger, r) : i = j
          BY <2>1, <3>1, <3>2 DEF Sound, ReceiptsAreUnique
    <3>4. CASE RowsOf(ledger, r) = {}
          BY <3>4, FS_EmptySet
    <3>5. CASE RowsOf(ledger, r) # {}
      <4>1. PICK i : i \in RowsOf(ledger, r)
            BY <3>5
      <4>2. RowsOf(ledger, r) = {i}
            BY <3>3, <4>1
      <4> QED
          BY <4>2, FS_Singleton
    <3> QED
        BY <3>4, <3>5
  <2> QED
      BY <2>1, <2>2 DEF ReceiptPostedOnce, FiledAreThere
<1> QED
    BY <1>1, DeskInvariance, PTL

(* When nothing is under way, the list and the chips are those of the      *)
(* ledger (Reconciliation.tsx: refresh).                                   *)
THEOREM PageHolds == Spec => []PageTrueAtRest
<1>1. DeskInv => PageTrueAtRest
  <2> SUFFICES ASSUME DeskInv, requests = <<>>, answers = <<>>
               PROVE  list = ListLedger(ledger) /\ summary = LedgerSummary(ledger)
      BY DEF PageTrueAtRest
  <2>1. DOMAIN requests = {} /\ DOMAIN answers = {}
        OBVIOUS
  <2> QED
      BY <2>1 DEF DeskInv, PageIsRefreshed, Tells
<1> QED
    BY <1>1, DeskInvariance, PTL
=============================================================================
