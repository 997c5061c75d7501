------------------------ MODULE PaymentSerial_proofs ------------------------
(***************************************************************************)
(* What Payment keeps when requests do not overlap (one slot), wherever a  *)
(* request is interrupted, while dues are created, locks expire, accounts  *)
(* are switched and the gateway decides and repeats its reports.           *)
(***************************************************************************)
EXTENDS Payment_proofs

OneAtATime == \A s, z \in Slots : s = z

(* The columns of a due agree, and a due that is not there has no receipt. *)
Reconciled(d) ==
    /\ Exists(d) =>
         /\ due[d].paid = receipts[d]
         /\ due[d].balance = IF due[d].total > due[d].paid THEN due[d].total - due[d].paid ELSE 0
         /\ due[d].status = IF due[d].balance = 0 THEN "PAID"
                            ELSE IF due[d].paid > 0 THEN "PARTIAL" ELSE "UNPAID"
    /\ ~Exists(d) => receipts[d] = 0

(* A payment that may be settled: there is nothing to book, or it was      *)
(* booked, or what it pays for was paid already.                           *)
Accounted(x) ==
    \/ txn[x].due = None /\ lines[x] = NoLines
    \/ /\ txn[x].status = "SUCCESS"
       /\ \/ booked[x] = 1
          \/ \A d \in Dues : d = txn[x].due \/ lines[x][d] > 0 => due[d].status = "PAID"

TxnOK(x) ==
    /\ booked[x] <= 1
    /\ txn[x].status # "SUCCESS" => booked[x] = 0
    /\ txn[x].status = "none" => lines[x] = NoLines
    /\ \A d \in DuesOf(lines[x]) : Exists(d)
    /\ txn[x].due # None => Exists(txn[x].due) /\ txn[x].amount > 0 /\ lines[x] = NoLines
    /\ x \in settlement => Accounted(x)

(* What the handler remembers is still so.                                 *)
Fresh(s) ==
    LET q == req[s]
        x == q.txn
    IN  /\ q.h = "collectDue" => /\ q.seen[q.due] = due[q.due] /\ q.amount > 0
                                 /\ Exists(q.due) /\ due[q.due].status # "PAID"
        /\ q.h = "editDue" => /\ q.seen[q.due] = due[q.due] /\ q.amount > 0
                              /\ due[q.due].status = "UNPAID"
        /\ q.h = "deleteDue" => due[q.due].status = "UNPAID"
        /\ q.h = "createSingle" => q.amount > 0
        /\ q.h = "linkDues" => txn[x].due = None
        /\ q.h \in {"verify", "fail", "cancel", "process", "apply"} => txn[x].status = "INITIATED"
        /\ q.h \in {"verify", "process"} => q.due = txn[x].due /\ q.amount = txn[x].amount
        /\ q.h = "apply" =>
             /\ q.lines = IF txn[x].due = None THEN lines[x] ELSE Only(txn[x].due, txn[x].amount)
             /\ q.lines # NoLines
             /\ \A d \in DuesOf(q.lines) : Exists(d) /\ q.seen[d] = due[d]
        /\ q.h = "settle" => Accounted(x)

(* The inductive invariant, besides that of Payment_proofs.                *)
SerialInv ==
    /\ \A d \in Dues : Reconciled(d)
    /\ \A x \in Txns : TxnOK(x)
    /\ \A s \in Slots : Fresh(s)

-----------------------------------------------------------------------------
(* A step of slot s concerns no other slot.                                *)
RowsFit == (\A d \in Dues : Reconciled(d)) /\ (\A x \in Txns : TxnOK(x))
Keeps(s) == RowsFit' /\ Fresh(s)'

LEMMA KeepsSerial ==
    ASSUME OneAtATime, NEW s \in Slots, Keeps(s) PROVE SerialInv'
BY DEF OneAtATime, Keeps, RowsFit, SerialInv

LEMMA RowsStay ==
    ASSUME SerialInv, UNCHANGED <<due, receipts, txn, lines, booked, settlement>> PROVE RowsFit'
BY DEF SerialInv, RowsFit, Reconciled, TxnOK, Accounted, Exists

LEMMA IdleIsFresh ==
    ASSUME TypeOK, NEW s \in Slots, Done(s) PROVE Fresh(s)'
<1>1. req'[s] = Idle BY DEF Done, TypeOK
<1> QED BY <1>1, IdleType DEF Fresh

(* Every line of a payment is 0 or an amount to book.                      *)
LEMMA LinesFacts ==
    ASSUME NEW f \in Amounts
    PROVE  /\ f = NoLines <=> DuesOf(f) = {}
           /\ \A d \in Dues : f[d] \in Nat
<1>1. DuesOf(f) = {} => \A d \in Dues : f[d] = 0 BY DEF DuesOf, Amounts
<1>2. (\A d \in Dues : f[d] = 0) => f = NoLines BY DEF NoLines, Amounts
<1>3. f = NoLines => DuesOf(f) = {} BY DEF NoLines, DuesOf
<1>4. \A d \in Dues : f[d] \in Nat BY DEF Amounts
<1> QED BY <1>1, <1>2, <1>3, <1>4

LEMMA OnlyFacts ==
    ASSUME NEW c \in Dues, NEW a \in Nat, a > 0
    PROVE  Only(c, a) # NoLines /\ DuesOf(Only(c, a)) = {c} /\ Only(c, a)[c] = a
           /\ Only(c, a) \in Amounts
<1>1. Only(c, a) = [d \in Dues |-> IF d = c THEN a ELSE 0] BY DEF Only, NoLines
<1>2. Only(c, a)[c] = a /\ NoLines[c] = 0 BY <1>1 DEF NoLines
<1>3. DuesOf(Only(c, a)) = {c} BY <1>1 DEF DuesOf
<1> QED BY <1>1, <1>2, <1>3 DEF Amounts

(* A payment computed from the row as it is keeps the columns agreeing.    *)
LEMMA PaymentReconciles ==
    ASSUME TypeOK, NEW d \in Dues, Reconciled(d), Exists(d), NEW a \in Nat, a > 0,
           due'[d] = AfterPayment(due[d], due[d], a), receipts'[d] = receipts[d] + a
    PROVE  Reconciled(d)' /\ Exists(d)'
<1>1. due[d] \in DueRow /\ receipts[d] \in Nat /\ due[d].paid \in Nat /\ due[d].total \in Nat
      /\ due[d].balance \in Nat
  BY DEF TypeOK, Amounts, DueRow
<1> DEFINE left == Remaining(due[d], a)
<1>2. left \in Nat /\ left = IF due[d].balance > a THEN due[d].balance - a ELSE 0
  BY <1>1 DEF Remaining
<1>3. due'[d] = [due[d] EXCEPT !.paid = due[d].paid + a, !.balance = left,
                               !.status = IF left = 0 THEN "PAID" ELSE "PARTIAL"]
  BY DEF AfterPayment
<1> HIDE DEF left
<1>4. /\ due'[d].paid = due[d].paid + a /\ due'[d].balance = left /\ due'[d].total = due[d].total
      /\ due'[d].status = IF left = 0 THEN "PAID" ELSE "PARTIAL"
  BY <1>1, <1>3 DEF DueRow
<1>5. due[d].paid = receipts[d]
      /\ due[d].balance = IF due[d].total > due[d].paid THEN due[d].total - due[d].paid ELSE 0
  BY DEF Reconciled
<1>6. due'[d].paid > 0 /\ due'[d].paid = receipts'[d] BY <1>1, <1>4, <1>5
<1>7. left = IF due[d].total > due[d].paid + a THEN due[d].total - (due[d].paid + a) ELSE 0
  BY <1>1, <1>2, <1>5
<1>8. Exists(d)' BY <1>4 DEF Exists, Present
<1> QED BY <1>4, <1>6, <1>7, <1>8 DEF Reconciled

(* Dues change, but none that exists goes, and none that is paid is undone. *)
LEMMA TxnsStay ==
    ASSUME SerialInv, UNCHANGED <<txn, lines, booked, settlement>>,
           \A d \in Dues : Exists(d) => Exists(d)',
           \A d \in Dues : due[d].status = "PAID" => due'[d].status = "PAID",
           TypeOK
    PROVE  \A x \in Txns : TxnOK(x)'
<1> SUFFICES ASSUME NEW x \in Txns PROVE TxnOK(x)' OBVIOUS
<1>1. TxnOK(x) BY DEF SerialInv
<1>2. txn[x].due # None => txn[x].due \in Dues BY DEF TypeOK, TxnRow, Opt
<1>3. Accounted(x) => Accounted(x)' BY DEF Accounted
<1>4. \A d \in DuesOf(lines[x]) : d \in Dues BY DEF DuesOf
<1> QED BY <1>1, <1>2, <1>3, <1>4 DEF TxnOK

-----------------------------------------------------------------------------
(* What both invariants say of the slot that acts.                         *)
LEMMA ActingAlone ==
    ASSUME IInv, SerialInv, NEW s \in Slots
    PROVE  /\ TypeOK /\ SlotOK(s) /\ Fresh(s) /\ RowsFit /\ req[s] \in Request
           /\ req[s].amount \in Nat /\ req[s].lines \in Amounts
           /\ req[s].seen \in [Dues -> DueRow]
BY Acting DEF SerialInv, RowsFit

(* A handler remembers r; the rows stay.                                   *)
LEMMA ReadsFresh ==
    ASSUME IInv, SerialInv, NEW s \in Slots, Reads(s) PROVE Keeps(s)
<1>t. TypeOK /\ req \in [Slots -> Request] BY DEF IInv, TypeOK
<1>i. Idle \in Request BY IdleType
<1>r. UNCHANGED rows
  BY DEF Reads, CollectDueRead, EditDueRead, DeleteDueRead, InitiatePaymentRead,
         MakePaymentCheckLock, WebhookRead
<1>f. RowsFit' BY <1>r, RowsStay DEF rows
<1>1. ASSUME NEW d \in Dues, NEW n \in 1..MaxAmount, CollectDueRead(s, d, n) PROVE Fresh(s)'
  <2>1. req'[s] = [Idle EXCEPT !.h = "collectDue", !.due = d, !.amount = n, !.seen = Seen({d})]
    BY <1>1, <1>t DEF CollectDueRead, Remember
  <2>2. Seen({d})[d] = due[d] /\ n > 0 BY AmountAssumption DEF Seen
  <2>3. req'[s].h = "collectDue" /\ req'[s].due = d /\ req'[s].amount = n /\ req'[s].seen = Seen({d})
    BY <1>i, <2>1 DEF Request
  <2>4. Exists(d) /\ due[d].status # "PAID" BY <1>1 DEF CollectDueRead, Payable
  <2> QED BY <1>r, <2>2, <2>3, <2>4 DEF Fresh, rows, Exists
<1>2. ASSUME NEW d \in Dues, NEW n \in 1..MaxAmount, EditDueRead(s, d, n) PROVE Fresh(s)'
  <2>1. req'[s] = [Idle EXCEPT !.h = "editDue", !.due = d, !.amount = n, !.seen = Seen({d})]
    BY <1>2, <1>t DEF EditDueRead, Remember
  <2>2. Seen({d})[d] = due[d] /\ n > 0 BY AmountAssumption DEF Seen
  <2>3. req'[s].h = "editDue" /\ req'[s].due = d /\ req'[s].amount = n /\ req'[s].seen = Seen({d})
    BY <1>i, <2>1 DEF Request
  <2>4. due[d].status = "UNPAID" BY <1>2 DEF EditDueRead
  <2> QED BY <1>r, <2>2, <2>3, <2>4 DEF Fresh, rows
<1>3. ASSUME NEW d \in Dues, DeleteDueRead(s, d) PROVE Fresh(s)'
  <2>1. req'[s] = [Idle EXCEPT !.h = "deleteDue", !.due = d]
    BY <1>3, <1>t DEF DeleteDueRead, Remember
  <2>2. req'[s].h = "deleteDue" /\ req'[s].due = d BY <1>i, <2>1 DEF Request
  <2>3. due[d].status = "UNPAID" BY <1>3 DEF DeleteDueRead
  <2> QED BY <1>r, <2>2, <2>3 DEF Fresh, rows
<1>4. ASSUME NEW d \in Dues, InitiatePaymentRead(s, d) PROVE Fresh(s)'
  <2>1. req'[s] = [Idle EXCEPT !.h = "createSingle", !.due = d, !.amount = due[d].balance,
                               !.salt = salt]
    BY <1>4, <1>t DEF InitiatePaymentRead, Remember
  <2>2. req'[s].h = "createSingle" /\ req'[s].amount = due[d].balance BY <1>i, <2>1 DEF Request
  <2>3. due[d].balance > 0 BY <1>4 DEF InitiatePaymentRead, Payable
  <2> QED BY <2>2, <2>3 DEF Fresh
<1>5. ASSUME NEW f \in [Dues -> 0..MaxAmount], MakePaymentCheckLock(s, f) PROVE Fresh(s)'
  <2>1. req'[s] = [Idle EXCEPT !.h = "validateDues", !.lines = f]
    BY <1>5, <1>t DEF MakePaymentCheckLock, Remember
  <2>2. req'[s].h = "validateDues" BY <1>i, <2>1 DEF Request
  <2> QED BY <2>2 DEF Fresh
<1>6. ASSUME NEW x \in Txns, WebhookRead(s, x) PROVE Fresh(s)'
  <2>1. req'[s] = [Idle EXCEPT !.h = "verify", !.txn = x, !.due = txn[x].due,
                               !.amount = txn[x].amount]
    BY <1>6, <1>t DEF WebhookRead, Remember
  <2>2. req'[s].h = "verify" /\ req'[s].txn = x /\ req'[s].due = txn[x].due
        /\ req'[s].amount = txn[x].amount
    BY <1>i, <2>1 DEF Request
  <2>3. txn[x].status = "INITIATED" BY <1>6 DEF WebhookRead, Processed
  <2> QED BY <1>r, <2>2, <2>3 DEF Fresh, rows
<1> QED BY <1>f, <1>1, <1>2, <1>3, <1>4, <1>5, <1>6 DEF Reads, Keeps

LEMMA CollectDueSerial ==
    ASSUME IInv, SerialInv, NEW s \in Slots, CollectDueCommit(s) PROVE Keeps(s)
<1> DEFINE q == req[s]
           c == q.due
           a == q.amount
<1>1. /\ Done(s) /\ receipts' = [receipts EXCEPT ![c] = @ + a]
      /\ due' = [due EXCEPT ![c] = AfterPayment(@, q.seen[c], a)]
      /\ UNCHANGED <<txn, lines, booked, settlement>>
  BY DEF CollectDueCommit
<1>2. /\ c \in Dues /\ q.seen[c] = due[c] /\ a \in Nat /\ a > 0 /\ Exists(c)
      /\ due[c].status # "PAID" /\ TypeOK
  BY ActingAlone DEF CollectDueCommit, At, SlotOK, Fresh
<1>3. due'[c] = AfterPayment(due[c], due[c], a) /\ receipts'[c] = receipts[c] + a
      /\ \A d \in Dues : d # c => due'[d] = due[d] /\ receipts'[d] = receipts[d]
  BY <1>1, <1>2 DEF TypeOK, Amounts
<1> HIDE DEF q, c, a
<1>4. \A d \in Dues : Reconciled(d)' /\ (Exists(d) => Exists(d)')
      /\ (due[d].status = "PAID" => due'[d].status = "PAID")
  <2> SUFFICES ASSUME NEW d \in Dues
               PROVE  Reconciled(d)' /\ (Exists(d) => Exists(d)')
                      /\ (due[d].status = "PAID" => due'[d].status = "PAID")
    OBVIOUS
  <2>1. CASE d = c
    <3>1. due'[d] = AfterPayment(due[d], due[d], a) /\ receipts'[d] = receipts[d] + a
      BY <1>3, <2>1
    <3>2. Exists(d) /\ due[d].status # "PAID" BY <1>2, <2>1
    <3> QED BY <1>2, <3>1, <3>2, PaymentReconciles DEF SerialInv
  <2>2. CASE d # c
    <3>1. due'[d] = due[d] /\ receipts'[d] = receipts[d] BY <1>3, <2>2
    <3> QED BY <3>1 DEF SerialInv, Reconciled, Exists
  <2> QED BY <2>1, <2>2
<1>5. \A x \in Txns : TxnOK(x)' BY <1>1, <1>2, <1>4, TxnsStay
<1> QED BY <1>1, <1>2, <1>4, <1>5, IdleIsFresh DEF Keeps, RowsFit

LEMMA EditDueSerial ==
    ASSUME IInv, SerialInv, NEW s \in Slots, EditDueCommit(s) PROVE Keeps(s)
<1> DEFINE q == req[s]
           c == q.due
           paid == q.seen[c].paid
           left == IF q.amount > paid THEN q.amount - paid ELSE 0
<1>1. /\ Done(s) /\ due' = [due EXCEPT ![c].total = q.amount, ![c].balance = left]
      /\ UNCHANGED <<receipts, txn, lines, booked, settlement>>
  BY DEF EditDueCommit
<1>2. /\ c \in Dues /\ q.seen[c] = due[c] /\ q.amount \in Nat /\ q.amount > 0
      /\ due[c].status = "UNPAID" /\ TypeOK /\ Reconciled(c)
  BY ActingAlone DEF EditDueCommit, At, SlotOK, Fresh, RowsFit
<1>3. due[c] \in DueRow /\ due[c].paid \in Nat /\ receipts[c] \in Nat
  BY <1>2 DEF TypeOK, DueRow, Amounts
<1>4. Exists(c) /\ due[c].paid = 0 /\ receipts[c] = 0
  BY <1>2, <1>3 DEF Exists, Present, Reconciled
<1>5. left = q.amount BY <1>2, <1>4
<1> HIDE DEF left, paid
<1>6. /\ due'[c] = [due[c] EXCEPT !.total = q.amount, !.balance = left]
      /\ \A d \in Dues : d # c => due'[d] = due[d]
  BY <1>1, <1>2 DEF TypeOK
<1>7. due'[c].total = q.amount /\ due'[c].balance = q.amount /\ due'[c].paid = 0
      /\ due'[c].status = "UNPAID"
  BY <1>2, <1>3, <1>4, <1>5, <1>6 DEF DueRow
<1> HIDE DEF q, c
<1>8. ASSUME NEW d \in Dues PROVE Reconciled(d)'
  <2>1. CASE d = c
    <3>1. due'[d].total > 0 /\ due'[d].balance = due'[d].total /\ due'[d].paid = 0
          /\ due'[d].status = "UNPAID" /\ receipts'[d] = 0 /\ due'[d].total \in Nat
      BY <1>1, <1>2, <1>4, <1>7, <2>1
    <3>2. Exists(d)' BY <3>1 DEF Exists, Present
    <3> QED BY <3>1, <3>2 DEF Reconciled
  <2>2. CASE d # c
    <3>1. due'[d] = due[d] /\ receipts'[d] = receipts[d] BY <1>1, <1>6, <2>2
    <3> QED BY <3>1 DEF SerialInv, Reconciled, Exists
  <2> QED BY <2>1, <2>2
<1>9. \A d \in Dues : (Exists(d) => Exists(d)') /\ (due[d].status = "PAID" => due'[d].status = "PAID")
  BY <1>2, <1>6, <1>7 DEF Exists, Present
<1>10. \A x \in Txns : TxnOK(x)' BY <1>1, <1>2, <1>9, TxnsStay
<1> QED BY <1>1, <1>2, <1>8, <1>10, IdleIsFresh DEF Keeps, RowsFit

LEMMA DeleteDueSerial ==
    ASSUME IInv, SerialInv, NEW s \in Slots, DeleteDueCommit(s) PROVE Keeps(s)
<1> DEFINE c == req[s].due
           gone == [NoDue EXCEPT !.status = "deleted"]
<1>1. /\ Done(s) /\ due' = [due EXCEPT ![c] = gone]
      /\ txn' = [x \in Txns |-> IF txn[x].due = c THEN [txn[x] EXCEPT !.due = None] ELSE txn[x]]
      /\ UNCHANGED <<receipts, lines, booked, settlement>>
      /\ receipts[c] = 0 /\ \A x \in Txns : lines[x][c] = 0
  BY DEF DeleteDueCommit, Deletable
<1>2. /\ c \in Dues /\ due[c].status = "UNPAID" /\ TypeOK
  BY ActingAlone DEF DeleteDueCommit, At, SlotOK, Fresh
<1>3. gone.status = "deleted" BY DEF NoDue
<1> HIDE DEF gone, c
<1>4. due'[c] = gone /\ \A d \in Dues : d # c => due'[d] = due[d] BY <1>1, <1>2 DEF TypeOK
<1>5. \A d \in Dues : Reconciled(d)'
  BY <1>1, <1>3, <1>4 DEF SerialInv, Reconciled, Exists, Present
<1>6. \A d \in Dues : d # c => (Exists(d)' <=> Exists(d)) BY <1>4 DEF Exists
<1>7. \A x \in Txns : TxnOK(x)'
  <2> SUFFICES ASSUME NEW x \in Txns PROVE TxnOK(x)' OBVIOUS
  <2>1. TxnOK(x) /\ txn[x] \in TxnRow /\ lines[x] \in Amounts
    BY <1>2 DEF SerialInv, TypeOK
  <2>2. /\ txn'[x].status = txn[x].status /\ txn'[x].amount = txn[x].amount
        /\ txn'[x].due = IF txn[x].due = c THEN None ELSE txn[x].due
    BY <1>1, <2>1 DEF TxnRow
  <2>3. txn[x].due # None => txn[x].due \in Dues BY <2>1 DEF TxnRow, Opt
  <2>4. \A d \in DuesOf(lines[x]) : d # c /\ d \in Dues BY <1>1 DEF DuesOf
  <2>5. Accounted(x) => Accounted(x)'
    <3>1. CASE txn[x].due = None BY <1>1, <1>2, <1>4, <2>2, <3>1 DEF Accounted
    <3>2. CASE txn[x].due # None BY <1>1, <1>2, <1>4, <2>2, <2>3, <3>2 DEF Accounted
    <3> QED BY <3>1, <3>2
  <2> QED BY <1>1, <1>6, <2>1, <2>2, <2>3, <2>4, <2>5 DEF TxnOK
<1> QED BY <1>1, <1>2, <1>5, <1>7, IdleIsFresh DEF Keeps, RowsFit

-----------------------------------------------------------------------------
(* A new transaction has no lines and is not settled.                      *)
LEMMA TxnCreated ==
    ASSUME IInv, SerialInv, NEW x \in Txns, txn[x] = NoTxn, NEW row \in TxnRow,
           row.status = "INITIATED",
           row.due # None => Exists(row.due) /\ row.amount > 0,
           txn' = [txn EXCEPT ![x] = row],
           UNCHANGED <<due, receipts, lines, booked, settlement>>
    PROVE  RowsFit'
<1>1. TypeOK /\ txn[x].status = "none" BY DEF IInv, NoTxn
<1>2. x \notin settlement BY <1>1 DEF IInv, RowsOK
<1>3. TxnOK(x) /\ lines[x] = NoLines /\ booked[x] = 0
  BY <1>1 DEF SerialInv, TxnOK
<1>4. \A y \in Txns : txn'[y] = IF y = x THEN row ELSE txn[y] BY <1>1 DEF TypeOK
<1>5. ASSUME NEW y \in Txns PROVE TxnOK(y)'
  <2>1. CASE y = x
    BY <1>2, <1>3, <1>4, <2>1 DEF TxnOK, Exists
  <2>2. CASE y # x
    <3>1. TxnOK(y) /\ txn'[y] = txn[y] BY <1>4, <2>2 DEF SerialInv
    <3> QED BY <3>1 DEF TxnOK, Accounted, Exists
  <2> QED BY <2>1, <2>2
<1>6. \A d \in Dues : Reconciled(d)' BY DEF SerialInv, Reconciled, Exists
<1> QED BY <1>5, <1>6 DEF RowsFit

LEMMA BuildingSerial ==
    ASSUME IInv, SerialInv, NEW s \in Slots,
           MakePaymentValidate(s) \/ MakePaymentCreate(s) \/ MakePaymentLock(s)
           \/ InitiatePaymentCreate(s) \/ InitiatePaymentOpen(s)
    PROVE  Keeps(s)
<1>t. TypeOK /\ req \in [Slots -> Request] /\ req[s] \in Request BY DEF IInv, TypeOK
<1>1. CASE MakePaymentValidate(s)
  <2>1. req'[s] = [req[s] EXCEPT !.h = "createMulti", !.salt = salt] /\ UNCHANGED rows
    BY <1>1, <1>t DEF MakePaymentValidate, Remember
  <2>2. req'[s].h = "createMulti" BY <1>t, <2>1 DEF Request
  <2>3. Fresh(s)' BY <2>2 DEF Fresh
  <2> QED BY <2>1, <2>3, RowsStay DEF Keeps, rows
<1>2. CASE MakePaymentCreate(s)
  <2>1. PICK x \in Txns :
          /\ txn[x] = NoTxn
          /\ NewTxn(x, [status |-> "INITIATED", due |-> None, amount |-> 0, salt |-> req[s].salt])
          /\ Remember(s, [req[s] EXCEPT !.h = "linkDues", !.txn = x])
    BY <1>2 DEF MakePaymentCreate
  <2> DEFINE row == [status |-> "INITIATED", due |-> None, amount |-> 0, salt |-> req[s].salt]
  <2>2. row \in TxnRow /\ row.status = "INITIATED" /\ row.due = None
    BY <1>t DEF TxnRow, Request, Opt
  <2>3. txn' = [txn EXCEPT ![x] = row] /\ UNCHANGED <<due, receipts, lines, booked, settlement>>
    BY <1>2, <2>1 DEF NewTxn, MakePaymentCreate
  <2> HIDE DEF row
  <2>4. RowsFit' BY <2>1, <2>2, <2>3, TxnCreated
  <2>5. req'[s] = [req[s] EXCEPT !.h = "linkDues", !.txn = x] BY <1>t, <2>1 DEF Remember
  <2>6. req'[s].h = "linkDues" /\ req'[s].txn = x BY <1>t, <2>5 DEF Request
  <2>7. txn'[x].due = None BY <1>t, <2>2, <2>3 DEF TypeOK
  <2>8. Fresh(s)' BY <2>6, <2>7 DEF Fresh
  <2> QED BY <2>4, <2>8 DEF Keeps
<1>3. CASE InitiatePaymentCreate(s)
  <2>1. PICK x \in Txns :
          /\ txn[x] = NoTxn
          /\ NewTxn(x, [status |-> "INITIATED", due |-> req[s].due, amount |-> req[s].amount,
                        salt |-> req[s].salt])
          /\ Remember(s, [req[s] EXCEPT !.h = "openPayment", !.txn = x])
    BY <1>3 DEF InitiatePaymentCreate
  <2> DEFINE row == [status |-> "INITIATED", due |-> req[s].due, amount |-> req[s].amount,
                     salt |-> req[s].salt]
  <2>2. row \in TxnRow /\ row.status = "INITIATED" /\ row.due = req[s].due
        /\ row.amount = req[s].amount
    BY <1>t DEF TxnRow, Request, Opt
  <2>3. txn' = [txn EXCEPT ![x] = row] /\ UNCHANGED <<due, receipts, lines, booked, settlement>>
    BY <1>3, <2>1 DEF NewTxn, InitiatePaymentCreate
  <2>4. Exists(req[s].due) /\ req[s].amount > 0
    BY <1>3, ActingAlone DEF InitiatePaymentCreate, At, Fresh
  <2> HIDE DEF row
  <2>5. RowsFit' BY <2>1, <2>2, <2>3, <2>4, TxnCreated
  <2>6. req'[s] = [req[s] EXCEPT !.h = "openPayment", !.txn = x] BY <1>t, <2>1 DEF Remember
  <2>7. req'[s].h = "openPayment" BY <1>t, <2>6 DEF Request
  <2>8. Fresh(s)' BY <2>7 DEF Fresh
  <2> QED BY <2>5, <2>8 DEF Keeps
<1>4. CASE MakePaymentLock(s) \/ InitiatePaymentOpen(s)
  <2>1. Done(s) /\ UNCHANGED <<due, receipts, txn, lines, booked, settlement>>
    BY <1>4 DEF MakePaymentLock, InitiatePaymentOpen
  <2> QED BY <1>t, <2>1, IdleIsFresh, RowsStay DEF Keeps
<1> QED BY <1>1, <1>2, <1>3, <1>4

(* Lines are written before the gateway knows of the payment.              *)
LEMMA LinkSerial ==
    ASSUME IInv, SerialInv, NEW s \in Slots, MakePaymentLink(s) PROVE Keeps(s)
<1> DEFINE q == req[s]
           x == q.txn
<1>t. TypeOK /\ req \in [Slots -> Request] /\ q \in Request /\ q.lines \in Amounts
  BY DEF IInv, TypeOK, Request
<1>1. /\ q.h = "linkDues" /\ \A d \in DuesOf(q.lines) : Exists(d)
      /\ lines' = [lines EXCEPT ![x] = q.lines]
      /\ req'[s] = [q EXCEPT !.h = "lockPayment"]
      /\ UNCHANGED <<due, receipts, txn, booked, settlement>>
  BY <1>t DEF MakePaymentLink, At, Goto, Remember
<1>2. x \in Txns /\ gateway[x] = "none" /\ txn[x].status # "none" /\ txn[x].due = None
  BY <1>1, ActingAlone DEF SlotOK, Building, Fresh
<1>3. x \notin settlement BY <1>2 DEF IInv, RowsOK
<1>4. \A y \in Txns : lines'[y] = IF y = x THEN q.lines ELSE lines[y]
  BY <1>1, <1>2, <1>t DEF TypeOK
<1>5. req'[s].h = "lockPayment" BY <1>t, <1>1 DEF Request
<1>6. Fresh(s)' BY <1>5 DEF Fresh
<1> HIDE DEF x, q
<1>7. ASSUME NEW y \in Txns PROVE TxnOK(y)'
  <2>0. TxnOK(y) BY DEF SerialInv
  <2>1. CASE y = x
    <3>1. lines'[y] = q.lines /\ y \notin settlement' /\ txn'[y].due = None
          /\ txn'[y].status # "none" /\ booked'[y] = booked[y] /\ txn'[y] = txn[y]
      BY <1>1, <1>2, <1>3, <1>4, <2>1
    <3>2. \A d \in DuesOf(lines'[y]) : Exists(d)' BY <1>1, <3>1 DEF Exists
    <3> QED BY <2>0, <3>1, <3>2 DEF TxnOK, DuesOf
  <2>2. CASE y # x
    <3>1. lines'[y] = lines[y] /\ txn'[y] = txn[y] /\ booked'[y] = booked[y]
          /\ (y \in settlement' => y \in settlement) /\ UNCHANGED due
      BY <1>1, <1>4, <2>2
    <3> QED BY <2>0, <3>1 DEF TxnOK, Accounted, Exists, DuesOf
  <2> QED BY <2>1, <2>2
<1>8. \A d \in Dues : Reconciled(d)' BY <1>1 DEF SerialInv, Reconciled, Exists
<1> QED BY <1>6, <1>7, <1>8 DEF Keeps, RowsFit

-----------------------------------------------------------------------------
(* A report: what it read is still so when it is applied.                  *)
LEMMA WebhookVerifySerial ==
    ASSUME IInv, SerialInv, NEW s \in Slots, WebhookVerify(s) PROVE Keeps(s)
<1> DEFINE q == req[s]
           x == q.txn
           next == IF salt # txn[x].salt THEN "fail"
                   ELSE IF gateway[x] = "success" THEN "process"
                   ELSE IF gateway[x] = "usercancelled" THEN "cancel" ELSE "fail"
<1>1. /\ q.h = "verify" /\ req'[s] = [q EXCEPT !.h = next] /\ UNCHANGED rows /\ q \in Request
  BY DEF WebhookVerify, At, Goto, Remember, IInv, TypeOK
<1>2. next \in {"fail", "cancel", "process"} OBVIOUS
<1> HIDE DEF next
<1>3. req'[s].h = next /\ req'[s].txn = x /\ req'[s].due = q.due /\ req'[s].amount = q.amount
  BY <1>1 DEF Request
<1>4. txn[x].status = "INITIATED" /\ q.due = txn[x].due /\ q.amount = txn[x].amount
  BY <1>1, ActingAlone DEF Fresh
<1>5. Fresh(s)' BY <1>1, <1>2, <1>3, <1>4 DEF Fresh, rows
<1> QED BY <1>1, <1>5, RowsStay DEF Keeps, rows

LEMMA WebhookCloseSerial ==
    ASSUME IInv, SerialInv, NEW s \in Slots, WebhookClose(s) PROVE Keeps(s)
<1> DEFINE x == req[s].txn
           status == IF At(s, "cancel") THEN "CANCELLED" ELSE "FAILED"
<1>1. /\ Done(s) /\ txn' = [txn EXCEPT ![x].status = status]
      /\ UNCHANGED <<due, receipts, lines, booked, settlement>>
  BY DEF WebhookClose, WithStatus
<1>2. x \in Txns /\ txn[x].status = "INITIATED" /\ TypeOK
  BY ActingAlone DEF WebhookClose, At, SlotOK, Reporting, Fresh
<1>3. status \in {"CANCELLED", "FAILED"} OBVIOUS
<1> HIDE DEF status
<1>4. /\ txn'[x].status = status /\ txn'[x].due = txn[x].due /\ txn'[x].amount = txn[x].amount
      /\ \A y \in Txns : y # x => txn'[y] = txn[y]
  BY <1>1, <1>2 DEF TypeOK, TxnRow
<1> HIDE DEF x
<1>5. ASSUME NEW y \in Txns PROVE TxnOK(y)'
  <2>0. TxnOK(y) BY DEF SerialInv
  <2>1. CASE y = x
    <3>1. txn[y].status = "INITIATED" /\ txn'[y].status \in {"CANCELLED", "FAILED"}
          /\ txn'[y].due = txn[y].due /\ txn'[y].amount = txn[y].amount
      BY <1>2, <1>3, <1>4, <2>1
    <3> QED BY <1>1, <2>0, <3>1 DEF TxnOK, Accounted, Exists
  <2>2. CASE y # x
    <3>1. txn'[y] = txn[y] BY <1>4, <2>2
    <3> QED BY <1>1, <2>0, <3>1 DEF TxnOK, Accounted, Exists
  <2> QED BY <2>1, <2>2
<1>6. \A d \in Dues : Reconciled(d)' BY <1>1 DEF SerialInv, Reconciled, Exists
<1> QED BY <1>1, <1>2, <1>5, <1>6, IdleIsFresh DEF Keeps, RowsFit

LEMMA ProcessSuccessfulPaymentSerial ==
    ASSUME IInv, SerialInv, NEW s \in Slots, ProcessSuccessfulPayment(s) PROVE Keeps(s)
<1> DEFINE q == req[s]
           x == q.txn
           f == Orders(q)
<1>1. q.h = "process" /\ q \in Request /\ TypeOK
  BY DEF ProcessSuccessfulPayment, At, IInv, TypeOK
<1>2. x \in Txns /\ txn[x].status = "INITIATED" /\ q.due = txn[x].due /\ q.amount = txn[x].amount
      /\ TxnOK(x)
  BY <1>1, ActingAlone DEF SlotOK, Reporting, Paying, Fresh, RowsFit
<1>3. AfterOrders(f) \in {"settle", "apply"} BY DEF AfterOrders
<1>4. req'[s] = [q EXCEPT !.h = AfterOrders(f), !.lines = f, !.seen = Seen(DuesOf(f))]
      /\ UNCHANGED rows
  BY <1>1, <1>3 DEF ProcessSuccessfulPayment, Remember, TypeOK
<1>5. /\ req'[s].h = AfterOrders(f) /\ req'[s].txn = x /\ req'[s].lines = f
      /\ req'[s].seen = Seen(DuesOf(f))
  BY <1>1, <1>4 DEF Request
<1>6. f = IF txn[x].due = None THEN lines[x] ELSE Only(txn[x].due, txn[x].amount)
  BY <1>2 DEF Orders, TxnOK
<1>7. \A d \in DuesOf(f) : Exists(d) /\ Seen(DuesOf(f))[d] = due[d]
  <2>1. \A d \in DuesOf(f) : d \in Dues BY DEF DuesOf
  <2>2. CASE txn[x].due = None BY <1>2, <1>6, <2>1, <2>2 DEF TxnOK, Seen
  <2>3. CASE txn[x].due # None
    <3>1. txn[x].due \in Dues /\ txn[x].amount \in Nat BY <1>1, <1>2, <2>3 DEF TypeOK, TxnRow, Opt
    <3>2. DuesOf(f) = {txn[x].due} BY <1>2, <1>6, <2>3, <3>1, OnlyFacts DEF TxnOK
    <3>3. Exists(txn[x].due) BY <1>2, <2>3 DEF TxnOK
    <3> QED BY <2>1, <3>2, <3>3 DEF Seen
  <2> QED BY <2>2, <2>3
<1>8. f = NoLines => txn[x].due = None /\ lines[x] = NoLines
  <2>1. ASSUME txn[x].due # None PROVE f # NoLines
    <3>1. txn[x].due \in Dues /\ txn[x].amount \in Nat BY <1>1, <1>2, <2>1 DEF TypeOK, TxnRow, Opt
    <3> QED BY <1>2, <1>6, <2>1, <3>1, OnlyFacts DEF TxnOK
  <2> QED BY <1>6, <2>1
<1>9. UNCHANGED <<due, txn, lines, booked>> BY <1>4 DEF rows
<1> HIDE DEF f, x, q
<1>10. CASE AfterOrders(f) = "settle"
  <2>1. f = NoLines BY <1>10 DEF AfterOrders
  <2>2. req'[s].h = "settle" /\ txn'[x].due = None /\ lines'[x] = NoLines
    BY <1>5, <1>8, <1>9, <1>10, <2>1
  <2>3. Fresh(s)' BY <1>5, <2>2 DEF Fresh, Accounted
  <2> QED BY <1>4, <2>3, RowsStay DEF Keeps, rows
<1>11. CASE AfterOrders(f) = "apply"
  <2>1. f # NoLines BY <1>11 DEF AfterOrders
  <2>2. /\ req'[s].h = "apply" /\ txn'[x].status = "INITIATED"
        /\ f = IF txn'[x].due = None THEN lines'[x] ELSE Only(txn'[x].due, txn'[x].amount)
    BY <1>2, <1>5, <1>6, <1>9, <1>11
  <2>3. \A d \in DuesOf(f) : Exists(d)' /\ Seen(DuesOf(f))[d] = due'[d]
    BY <1>7, <1>9 DEF Exists
  <2>4. Fresh(s)' BY <1>5, <2>1, <2>2, <2>3 DEF Fresh
  <2> QED BY <1>4, <2>4, RowsStay DEF Keeps, rows
<1> QED BY <1>3, <1>10, <1>11

LEMMA ApplyPaymentSerial ==
    ASSUME IInv, SerialInv, NEW s \in Slots, ApplyPayment(s) PROVE Keeps(s)
<1> DEFINE q == req[s]
           x == q.txn
           f == q.lines
           D == ToBook(q)
<1>1. /\ q.h = "apply" /\ q \in Request /\ TypeOK /\ f \in Amounts
      /\ receipts' = [d \in Dues |-> IF d \in D THEN receipts[d] + f[d] ELSE receipts[d]]
      /\ due' = [d \in Dues |-> IF d \in D THEN AfterPayment(due[d], q.seen[d], f[d]) ELSE due[d]]
      /\ booked' = [booked EXCEPT ![x] = IF D = {} THEN @ ELSE @ + 1]
      /\ txn' = [txn EXCEPT ![x].status = "SUCCESS"]
      /\ req'[s] = [q EXCEPT !.h = "settle"]
      /\ UNCHANGED <<lines, settlement>>
  BY ActingAlone DEF ApplyPayment, At, Receipted, Marked, WithStatus, Goto, Remember, IInv, TypeOK
<1>2. /\ x \in Txns /\ txn[x].status = "INITIATED" /\ TxnOK(x)
      /\ f = (IF txn[x].due = None THEN lines[x] ELSE Only(txn[x].due, txn[x].amount))
      /\ \A d \in DuesOf(f) : Exists(d) /\ q.seen[d] = due[d]
  BY <1>1, ActingAlone DEF SlotOK, Reporting, Paying, Fresh, RowsFit
<1>3. \A d \in Dues : d \in D <=> f[d] > 0 /\ due[d].status # "PAID"
  BY <1>2 DEF ToBook, DuesOf
<1>4. booked[x] = 0 BY <1>2 DEF TxnOK
<1>5. /\ txn'[x].status = "SUCCESS" /\ txn'[x].due = txn[x].due /\ txn'[x].amount = txn[x].amount
      /\ \A y \in Txns : y # x => txn'[y] = txn[y] /\ booked'[y] = booked[y]
      /\ booked'[x] = IF D = {} THEN 0 ELSE 1
  BY <1>1, <1>2, <1>4 DEF TypeOK, TxnRow
<1>6. req'[s].h = "settle" /\ req'[s].txn = x BY <1>1 DEF Request
<1>7. txn[x].due # None => txn[x].due \in Dues /\ f[txn[x].due] > 0 /\ lines[x] = NoLines
  <2> SUFFICES ASSUME txn[x].due # None
               PROVE  txn[x].due \in Dues /\ f[txn[x].due] > 0 /\ lines[x] = NoLines
    OBVIOUS
  <2>1. txn[x].due \in Dues /\ txn[x].amount \in Nat BY <1>1, <1>2 DEF TypeOK, TxnRow, Opt
  <2> QED BY <1>2, <2>1, OnlyFacts DEF TxnOK
<1> HIDE DEF D, f, x
<1>8. ASSUME NEW d \in Dues
      PROVE  Reconciled(d)' /\ (Exists(d) => Exists(d)')
             /\ (due[d].status = "PAID" => due'[d].status = "PAID")
  <2>1. Reconciled(d) /\ f[d] \in Nat BY <1>1 DEF SerialInv, Amounts
  <2>2. CASE d \in D
    <3>1. f[d] > 0 /\ Exists(d) /\ q.seen[d] = due[d] /\ due[d].status # "PAID"
      BY <1>2, <1>3, <2>2 DEF DuesOf
    <3>2. due'[d] = AfterPayment(due[d], due[d], f[d]) /\ receipts'[d] = receipts[d] + f[d]
      BY <1>1, <2>2, <3>1
    <3>3. PICK a \in Nat : a = f[d] BY <2>1
    <3> QED BY <1>1, <2>1, <3>1, <3>2, <3>3, PaymentReconciles
  <2>3. CASE d \notin D
    <3>1. due'[d] = due[d] /\ receipts'[d] = receipts[d] BY <1>1, <2>3
    <3> QED BY <2>1, <3>1 DEF Reconciled, Exists
  <2> QED BY <2>2, <2>3
<1>9. \/ booked'[x] = 1
      \/ \A d \in Dues : d = txn'[x].due \/ lines'[x][d] > 0 => due'[d].status = "PAID"
  <2>1. ASSUME D = {} PROVE \A d \in Dues : d = txn'[x].due \/ lines'[x][d] > 0 => due'[d].status = "PAID"
    <3> SUFFICES ASSUME NEW d \in Dues, d = txn[x].due \/ lines[x][d] > 0
                 PROVE  due[d].status = "PAID"
      BY <1>1, <1>5, <1>8
    <3>1. f[d] > 0
      <4>1. CASE txn[x].due = None
        <5>1. d # None BY NoneAssumption
        <5> QED BY <1>2, <4>1, <5>1
      <4>2. CASE txn[x].due # None
        <5>1. NoLines[d] = 0 BY DEF NoLines
        <5> QED BY <1>7, <4>2, <5>1
      <4> QED BY <4>1, <4>2
    <3> QED BY <1>3, <2>1, <3>1
  <2> QED BY <1>5, <2>1
<1>10. ASSUME NEW y \in Txns PROVE TxnOK(y)' /\ (y = x => Accounted(y)')
  <2>0. TxnOK(y) BY DEF SerialInv
  <2>1. txn[y].due # None => txn[y].due \in Dues BY <1>1 DEF TypeOK, TxnRow, Opt
  <2>2. \A d \in DuesOf(lines[y]) : d \in Dues BY DEF DuesOf
  <2>3. CASE y = x
    <3>1. Accounted(y)' BY <1>5, <1>9, <2>3 DEF Accounted
    <3>2. booked'[y] <= 1 /\ txn'[y].status = "SUCCESS" /\ txn'[y].due = txn[y].due
          /\ txn'[y].amount = txn[y].amount /\ lines'[y] = lines[y]
      BY <1>1, <1>5, <2>3
    <3> QED BY <1>8, <2>0, <2>1, <2>2, <3>1, <3>2 DEF TxnOK
  <2>4. CASE y # x
    <3>1. txn'[y] = txn[y] /\ booked'[y] = booked[y] /\ lines'[y] = lines[y]
          /\ (y \in settlement' => y \in settlement)
      BY <1>1, <1>5, <2>4
    <3>2. Accounted(y) => Accounted(y)' BY <1>8, <3>1 DEF Accounted
    <3> QED BY <1>8, <2>0, <2>1, <2>2, <2>4, <3>1, <3>2 DEF TxnOK
  <2> QED BY <2>3, <2>4
<1>11. Fresh(s)'
  <2>1. x \in Txns BY <1>2
  <2>2. PICK y \in Txns : y = x BY <2>1
  <2>3. Accounted(y)' /\ req'[s].txn = y BY <1>6, <1>10, <2>2
  <2> QED BY <1>6, <2>3 DEF Fresh, Accounted
<1> QED BY <1>8, <1>10, <1>11 DEF Keeps, RowsFit

LEMMA SettlementCreateSerial ==
    ASSUME IInv, SerialInv, NEW s \in Slots, SettlementCreate(s) PROVE Keeps(s)
<1> DEFINE x == req[s].txn
<1>1. /\ req[s].h = "settle" /\ settlement' = settlement \cup {x}
      /\ req'[s] = [req[s] EXCEPT !.h = "credit"]
      /\ UNCHANGED <<due, receipts, txn, lines, booked>>
  BY ActingAlone DEF SettlementCreate, At, Goto, Remember, TypeOK
<1>2. Accounted(x) BY <1>1, ActingAlone DEF Fresh
<1>3. req'[s].h = "credit" BY <1>1, ActingAlone DEF Request
<1>4. Fresh(s)' BY <1>3 DEF Fresh
<1> HIDE DEF x
<1>5. ASSUME NEW y \in Txns PROVE TxnOK(y)'
  <2>1. TxnOK(y) /\ (y \in settlement' => Accounted(y)) BY <1>1, <1>2 DEF SerialInv, TxnOK
  <2> QED BY <1>1, <2>1 DEF TxnOK, Accounted, Exists
<1>6. \A d \in Dues : Reconciled(d)' BY <1>1 DEF SerialInv, Reconciled, Exists
<1> QED BY <1>4, <1>5, <1>6 DEF Keeps, RowsFit

LEMMA EndsSerial ==
    ASSUME IInv, SerialInv, NEW s \in Slots, LedgerUpsert(s) \/ Refused(s) \/ Abort(s)
    PROVE  Keeps(s)
<1>1. Done(s) /\ UNCHANGED <<due, receipts, txn, lines, booked, settlement>>
  BY DEF LedgerUpsert, Refused, Abort, rows
<1> QED BY <1>1, IdleIsFresh, RowsStay, ActingAlone DEF Keeps

LEMMA StepsSerial ==
    ASSUME IInv, SerialInv, NEW s \in Slots, Reads(s) \/ Steps(s) \/ Abort(s)
    PROVE  Keeps(s)
<1>1. CASE Reads(s) BY <1>1, ReadsFresh
<1>2. CASE Abort(s) BY <1>2, EndsSerial
<1>3. CASE Steps(s)
  BY <1>3, CollectDueSerial, EditDueSerial, DeleteDueSerial, BuildingSerial, LinkSerial,
     WebhookVerifySerial, WebhookCloseSerial, ProcessSuccessfulPaymentSerial,
     ApplyPaymentSerial, SettlementCreateSerial, EndsSerial
     DEF Steps
<1> QED BY <1>1, <1>2, <1>3

-----------------------------------------------------------------------------
(* A new due is none that a handler or a payment could know of.            *)
LEMMA CreateDueSerial ==
    ASSUME IInv, SerialInv, NEW c \in Dues, NEW n \in 1..MaxAmount, CreateDue(c, n)
    PROVE  SerialInv'
<1> DEFINE row == [status |-> "UNPAID", total |-> n, paid |-> 0, balance |-> n]
<1>1. /\ due[c] = NoDue /\ due' = [due EXCEPT ![c] = row] /\ TypeOK
      /\ UNCHANGED <<receipts, txn, lines, booked, settlement, req>>
  BY DEF CreateDue, IInv
<1>2. ~Exists(c) /\ receipts[c] = 0 /\ due[c].status = "none"
  BY <1>1 DEF SerialInv, Reconciled, Exists, Present, NoDue
<1>3. due'[c] = row /\ \A d \in Dues : d # c => due'[d] = due[d] BY <1>1 DEF TypeOK
<1>4. row.status = "UNPAID" /\ row.total = n /\ row.paid = 0 /\ row.balance = n
      /\ n \in Nat /\ n > 0
  BY AmountAssumption
<1> HIDE DEF row
<1>5. ASSUME NEW d \in Dues PROVE Reconciled(d)'
  <2>1. CASE d = c
    <3>1. due'[d] = row /\ receipts'[d] = 0 BY <1>1, <1>2, <1>3, <2>1
    <3>2. Exists(d)' BY <1>4, <3>1 DEF Exists, Present
    <3> QED BY <1>4, <3>1, <3>2 DEF Reconciled
  <2>2. CASE d # c
    <3>1. due'[d] = due[d] /\ receipts'[d] = receipts[d] BY <1>1, <1>3, <2>2
    <3> QED BY <3>1 DEF SerialInv, Reconciled, Exists
  <2> QED BY <2>1, <2>2
<1>6. \A d \in Dues : Exists(d) \/ due[d].status \in {"UNPAID", "PAID"} => d # c /\ due'[d] = due[d]
  BY <1>2, <1>3
<1>7. \A x \in Txns : TxnOK(x)'
  <2>1. \A d \in Dues : Exists(d) => Exists(d)' BY <1>6 DEF Exists
  <2>2. \A d \in Dues : due[d].status = "PAID" => due'[d].status = "PAID" BY <1>6
  <2> QED BY <1>1, <2>1, <2>2, TxnsStay
<1>8. ASSUME NEW s \in Slots PROVE Fresh(s)'
  <2>1. Fresh(s) /\ SlotOK(s) /\ req[s] \in Request BY ActingAlone
  <2>2. Accounted(req[s].txn) => Accounted(req[s].txn)' BY <1>1, <1>6 DEF Accounted
  <2>3. \A d \in DuesOf(req[s].lines) : d \in Dues BY DEF DuesOf
  <2>4. req[s].h \in {"collectDue", "editDue", "deleteDue"} => req[s].due \in Dues
    BY <2>1 DEF SlotOK
  <2>5. req[s].h = "collectDue" => due'[req[s].due] = due[req[s].due]
    BY <1>6, <2>1, <2>4 DEF Fresh
  <2>6. req[s].h \in {"editDue", "deleteDue"} => due'[req[s].due] = due[req[s].due]
    BY <1>6, <2>1, <2>4 DEF Fresh
  <2>7. req[s].h = "apply" => \A d \in DuesOf(req[s].lines) : due'[d] = due[d]
    BY <1>6, <2>1, <2>3 DEF Fresh
  <2> QED BY <1>1, <2>1, <2>2, <2>5, <2>6, <2>7 DEF Fresh, Exists
<1> QED BY <1>5, <1>7, <1>8 DEF SerialInv

LEMMA SerialStays ==
    ASSUME SerialInv, UNCHANGED <<due, receipts, txn, lines, booked, settlement, req>>
    PROVE  SerialInv'
BY DEF SerialInv, Reconciled, TxnOK, Fresh, Accounted, Exists

LEMMA SerialInit == Init => SerialInv
<1> SUFFICES ASSUME Init PROVE SerialInv OBVIOUS
<1>1. \A d \in Dues : Reconciled(d) BY DEF Init, Reconciled, Exists, Present, NoDue
<1>2. \A x \in Txns : lines[x] = NoLines /\ txn[x] = NoTxn /\ booked[x] = 0 /\ settlement = {}
  BY DEF Init
<1>3. NoTxn.status = "none" /\ NoTxn.due = None /\ DuesOf(NoLines) = {}
  BY DEF NoTxn, DuesOf, NoLines
<1>4. \A x \in Txns : TxnOK(x) BY <1>2, <1>3 DEF TxnOK
<1>5. \A s \in Slots : Fresh(s) BY IdleType DEF Init, Fresh
<1> QED BY <1>1, <1>4, <1>5 DEF SerialInv

(* The strengthened invariant holds in every state that requests reach one *)
(* after the other.                                                        *)
THEOREM SerialInductive == ASSUME OneAtATime PROVE Spec => []SerialInv
<1>1. IInv /\ SerialInv /\ [Next]_vars => SerialInv'
  <2> SUFFICES ASSUME IInv, SerialInv, [Next]_vars PROVE SerialInv' OBVIOUS
  <2>1. ASSUME NEW s \in Slots, Reads(s) \/ Steps(s) \/ Abort(s) PROVE SerialInv'
    BY <2>1, StepsSerial, KeepsSerial
  <2>2. CASE \/ \E D \in SUBSET Dues : LockExpires(D)
             \/ \E x \in Txns, outcome \in Outcomes : GatewayDecides(x, outcome)
             \/ \E v \in Salts : UpdateConfig(v)
             \/ UNCHANGED vars
    BY <2>2, SerialStays DEF LockExpires, GatewayDecides, UpdateConfig, vars
  <2> QED BY <2>1, <2>2, CreateDueSerial DEF Next
<1> QED BY <1>1, SerialInit, Inductive, PTL DEF Spec

(* While requests do not overlap, wherever they are interrupted, paid,     *)
(* balance and status of every due follow from its total and from its      *)
(* DuePayment rows, for any amounts, edits and overpayments.               *)
THEOREM DuesReconcile == ASSUME OneAtATime PROVE Spec => []DueReconciles
<1>1. SerialInv => DueReconciles BY DEF SerialInv, Reconciled, DueReconciles
<1> QED BY <1>1, SerialInductive, PTL

(* While requests do not overlap, handleWebhook books a transaction at     *)
(* most once, whatever reports the gateway repeats and however many of     *)
(* them die on the way.                                                    *)
THEOREM BookedAtMostOnce == ASSUME OneAtATime PROVE Spec => []BookedOnce
<1>1. SerialInv => BookedOnce BY DEF SerialInv, TxnOK, BookedOnce
<1> QED BY <1>1, SerialInductive, PTL

(* While requests do not overlap, no settlement row is written for money   *)
(* that is neither booked to the dues it was paid for nor paid beyond what *)
(* they asked for.                                                         *)
THEOREM SettledMoneyBooked == ASSUME OneAtATime PROVE Spec => []SettledIsBooked
<1>1. TypeOK /\ SerialInv => SettledIsBooked
  BY DEF TypeOK, SerialInv, TxnOK, Accounted, SettledIsBooked
<1> QED BY <1>1, SerialInductive, TypeCorrect, PTL
=============================================================================
