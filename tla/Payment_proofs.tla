---------------------------- MODULE Payment_proofs ----------------------------
(***************************************************************************)
(* Proofs about Payment for all values of its constants: any number of     *)
(* overlapping requests, repeated reports and interruptions.               *)
(***************************************************************************)
EXTENDS Payment, TLAPS

(* Stages between the creation of a transaction and its payment link, and  *)
(* stages of a report of success.                                          *)
Building == {"linkDues", "lockPayment", "openPayment"}
Paying == {"process", "apply", "settle", "credit"}
Reporting == Paying \cup {"verify", "fail", "cancel"}

(* What the handler in a slot relies on.                                   *)
SlotOK(s) ==
    /\ req[s].h \in {"collectDue", "editDue", "deleteDue", "createSingle"} => req[s].due \in Dues
    /\ req[s].h \in Building \cup Reporting => req[s].txn \in Txns
    /\ req[s].h \in Building => /\ txn[req[s].txn].status # "none"
                                /\ gateway[req[s].txn] = "none"
    /\ req[s].h \in Paying => gateway[req[s].txn] = "success"
    /\ req[s].h = "credit" => req[s].txn \in settlement /\ credited[req[s].txn] = 0
    /\ \A d \in Dues : req[s].seen[d].paid <= receipts[d]

(* One handler builds a transaction and one credits it.                    *)
Alone ==
    \A s, z \in Slots :
        /\ req[s].txn = req[z].txn
        /\ \/ req[s].h \in Building /\ req[z].h \in Building
           \/ req[s].h = "credit" /\ req[z].h = "credit"
        => s = z

RowsOK ==
    /\ \A x \in Txns : /\ gateway[x] # "none" => txn[x].status # "none"
                       /\ x \in settlement => gateway[x] = "success"
                       /\ x \notin settlement => credited[x] = 0
    /\ PaidIsReceipted

(* The inductive invariant.                                                *)
IInv == TypeOK /\ (\A s \in Slots : SlotOK(s)) /\ Alone /\ RowsOK

-----------------------------------------------------------------------------
(* Types of the operators the actions are built from.                      *)

LEMMA IdleType == /\ Idle \in Request
                  /\ Idle.h = "idle"
                  /\ \A d \in Dues : Idle.seen[d].paid = 0
BY DEF Idle, Request, Opt, NoLines, NoDue, Amounts, DueRow

LEMMA AfterPaymentType ==
    \A row \in DueRow, old \in DueRow, a \in Nat :
        /\ AfterPayment(row, old, a) \in DueRow
        /\ AfterPayment(row, old, a).paid = old.paid + a
<1> TAKE row \in DueRow, old \in DueRow, a \in Nat
<1> DEFINE left == Remaining(old, a)
<1>1. left \in Nat BY DEF Remaining, DueRow
<1>2. old.paid + a \in Nat BY DEF DueRow
<1>3. AfterPayment(row, old, a) =
        [row EXCEPT !.paid = old.paid + a, !.balance = left,
                    !.status = IF left = 0 THEN "PAID" ELSE "PARTIAL"]
  BY DEF AfterPayment
<1> HIDE DEF left
<1> QED BY <1>1, <1>2, <1>3 DEF DueRow, Present

LEMMA SeenType ==
    ASSUME TypeOK, NEW D PROVE Seen(D) \in [Dues -> DueRow]
BY DEF Seen, TypeOK, NoDue, DueRow

LEMMA SeenReceipted ==
    ASSUME TypeOK, PaidIsReceipted, NEW D, NEW d \in Dues
    PROVE  Seen(D)[d].paid <= receipts[d]
BY DEF Seen, TypeOK, NoDue, PaidIsReceipted, DueRow, Amounts

LEMMA OrdersType ==
    ASSUME TypeOK, NEW s \in Slots, req[s].txn \in Txns
    PROVE  Orders(req[s]) \in Amounts
<1>1. lines[req[s].txn] \in Amounts BY DEF TypeOK
<1>2. NoLines \in Amounts BY DEF NoLines, Amounts
<1>3. ASSUME req[s].due # None PROVE Only(req[s].due, req[s].amount) \in Amounts
  BY <1>3, <1>2 DEF Only, TypeOK, Request, Opt, Amounts, NoLines
<1> QED BY <1>1, <1>2, <1>3 DEF Orders

-----------------------------------------------------------------------------
(* What a step of the handler in slot s leaves true for the others.        *)
Frame(s) ==
    /\ \A z \in Slots : z # s => req'[z] = req[z]
    /\ \A x \in Txns : txn[x].status # "none" => txn'[x].status # "none"
    /\ \A x \in Txns : gateway[x] = "success" => gateway'[x] = "success"
    /\ settlement \subseteq settlement'
    /\ \A d \in Dues : receipts[d] <= receipts'[d]
    /\ \A z \in Slots : z # s =>
         /\ req[z].h \in Building => gateway'[req[z].txn] = gateway[req[z].txn]
         /\ req[z].h = "credit" => credited'[req[z].txn] = credited[req[z].txn]

LEMMA OthersOK ==
    ASSUME IInv, NEW s \in Slots, Frame(s), TypeOK', NEW z \in Slots, z # s
    PROVE  SlotOK(z)'
<1>1. SlotOK(z) /\ req'[z] = req[z] BY DEF IInv, Frame
<1>2. \A d \in Dues : /\ req[z].seen[d].paid \in Nat
                      /\ receipts[d] \in Nat /\ receipts'[d] \in Nat
                      /\ receipts[d] <= receipts'[d]
  BY DEF Frame, TypeOK, Request, Amounts, DueRow, IInv
<1>3. \A d \in Dues : req'[z].seen[d].paid <= receipts'[d]
  BY <1>1, <1>2 DEF SlotOK
<1>4. req[z].h \in Building =>
        txn'[req[z].txn].status # "none" /\ gateway'[req[z].txn] = "none"
  BY <1>1 DEF SlotOK, Frame
<1>5. req[z].h \in Paying => gateway'[req[z].txn] = "success"
  BY <1>1 DEF SlotOK, Frame, Reporting
<1>6. req[z].h = "credit" => req[z].txn \in settlement' /\ credited'[req[z].txn] = 0
  BY <1>1 DEF SlotOK, Frame
<1> QED BY <1>1, <1>3, <1>4, <1>5, <1>6 DEF SlotOK

(* A handler that stops leaves everything as it was.                       *)
LEMMA DoneOK ==
    ASSUME TypeOK, TypeOK', NEW s \in Slots, Done(s)
    PROVE  SlotOK(s)' /\ req'[s].h = "idle"
<1>1. req'[s] = Idle BY DEF Done, TypeOK
<1>2. \A d \in Dues : receipts'[d] \in Nat BY DEF TypeOK, Amounts
<1> QED BY <1>1, <1>2, IdleType DEF SlotOK, Building, Reporting, Paying

(* The goal of every action of slot s.                                     *)
Good(s) == TypeOK' /\ Frame(s) /\ SlotOK(s)' /\ Alone' /\ RowsOK'

LEMMA GoodIsInv ==
    ASSUME IInv, NEW s \in Slots, Good(s) PROVE IInv'
BY OthersOK DEF IInv, Good

(* Alone is disturbed only by entering one of its stages.                  *)
LEMMA StillAlone ==
    ASSUME IInv, NEW s \in Slots, \A z \in Slots : z # s => req'[z] = req[z],
           req'[s].h \in Building =>
             req[s].h \in Building /\ req'[s].txn = req[s].txn,
           req'[s].h # "credit"
    PROVE  Alone'
BY DEF IInv, Alone, Building

LEMMA Finishes ==
    ASSUME IInv, NEW s \in Slots, Done(s), TypeOK', Frame(s), RowsOK' PROVE Good(s)
<1>1. SlotOK(s)' /\ req'[s].h = "idle" BY DoneOK DEF IInv
<1>2. Alone' BY <1>1, StillAlone DEF Frame, Building
<1> QED BY <1>1, <1>2 DEF Good

LEMMA RowsUnchanged ==
    ASSUME IInv, NEW s \in Slots, UNCHANGED rows,
           \A z \in Slots : z # s => req'[z] = req[z]
    PROVE  Frame(s) /\ RowsOK'
<1>1. \A d \in Dues : receipts[d] \in Nat BY DEF IInv, TypeOK, Amounts
<1>2. Frame(s) BY <1>1 DEF Frame, rows
<1>3. RowsOK' BY DEF IInv, RowsOK, PaidIsReceipted, rows
<1> QED BY <1>2, <1>3

(* A step that only remembers r.                                           *)
LEMMA Remembers ==
    ASSUME IInv, NEW s \in Slots, UNCHANGED rows, NEW STATE r, Remember(s, r), r \in Request,
           r.h \notin Building \cup {"credit"},
           r.h \in {"collectDue", "editDue", "deleteDue", "createSingle"} => r.due \in Dues,
           r.h \in Reporting => r.txn \in Txns,
           r.h \in Paying => gateway[r.txn] = "success",
           \A d \in Dues : r.seen[d].paid <= receipts[d]
    PROVE  Good(s)
<1>1. req'[s] = r /\ \A z \in Slots : z # s => req'[z] = req[z]
  BY DEF Remember, IInv, TypeOK
<1>2. TypeOK' BY DEF IInv, TypeOK, rows, Remember
<1>3. Frame(s) /\ RowsOK' BY <1>1, RowsUnchanged
<1>4. SlotOK(s)' BY <1>1 DEF SlotOK, rows
<1>5. Alone' BY <1>1, StillAlone
<1> QED BY <1>2, <1>3, <1>4, <1>5 DEF Good

(* A handler that ends without writing.                                    *)
LEMMA Ends ==
    ASSUME IInv, NEW s \in Slots, UNCHANGED rows, Done(s) PROVE Good(s)
<1>1. Remember(s, Idle) BY DEF Remember, Done
<1>2. \A d \in Dues : receipts[d] \in Nat BY DEF IInv, TypeOK, Amounts
<1> QED BY <1>1, <1>2, Remembers, IdleType DEF Building, Reporting, Paying

-----------------------------------------------------------------------------
LEMMA ReadsGood ==
    ASSUME IInv, NEW s \in Slots, Reads(s) PROVE Good(s)
<1>t. TypeOK /\ PaidIsReceipted BY DEF IInv, RowsOK
<1>z. \A d \in Dues : receipts[d] \in Nat BY <1>t DEF TypeOK, Amounts
<1> USE <1>t
<1>1. ASSUME NEW d \in Dues, NEW n \in 1..MaxAmount, CollectDueRead(s, d, n) PROVE Good(s)
  <2> DEFINE r == [Idle EXCEPT !.h = "collectDue", !.due = d, !.amount = n, !.seen = Seen({d})]
  <2>1. Remember(s, r) /\ UNCHANGED rows BY <1>1 DEF CollectDueRead
  <2>s. Seen({d}) \in [Dues -> DueRow] BY SeenType
  <2>n. n \in Nat BY AmountAssumption
  <2>2. /\ r \in Request
        /\ r.h = "collectDue" /\ r.due = d /\ r.seen = Seen({d})
    BY <2>s, <2>n, IdleType DEF Request, Stages, Opt
  <2>3. \A x \in Dues : r.seen[x].paid <= receipts[x] BY <2>2, SeenReceipted
  <2> HIDE DEF r
  <2> QED BY <2>1, <2>2, <2>3, Remembers DEF Building, Reporting, Paying
<1>2. ASSUME NEW d \in Dues, NEW n \in 1..MaxAmount, EditDueRead(s, d, n) PROVE Good(s)
  <2> DEFINE r == [Idle EXCEPT !.h = "editDue", !.due = d, !.amount = n, !.seen = Seen({d})]
  <2>1. Remember(s, r) /\ UNCHANGED rows BY <1>2 DEF EditDueRead
  <2>s. Seen({d}) \in [Dues -> DueRow] BY SeenType
  <2>n. n \in Nat BY AmountAssumption
  <2>2. /\ r \in Request
        /\ r.h = "editDue" /\ r.due = d /\ r.seen = Seen({d})
    BY <2>s, <2>n, IdleType DEF Request, Stages, Opt
  <2>3. \A x \in Dues : r.seen[x].paid <= receipts[x] BY <2>2, SeenReceipted
  <2> HIDE DEF r
  <2> QED BY <2>1, <2>2, <2>3, Remembers DEF Building, Reporting, Paying
<1>3. ASSUME NEW d \in Dues, DeleteDueRead(s, d) PROVE Good(s)
  <2> DEFINE r == [Idle EXCEPT !.h = "deleteDue", !.due = d]
  <2>1. Remember(s, r) /\ UNCHANGED rows BY <1>3 DEF DeleteDueRead
  <2>2. /\ r \in Request
        /\ r.h = "deleteDue" /\ r.due = d /\ r.seen = Idle.seen
    BY IdleType DEF Request, Stages, Opt
  <2>3. \A x \in Dues : r.seen[x].paid <= receipts[x] BY <2>2, <1>z, IdleType
  <2> HIDE DEF r
  <2> QED BY <2>1, <2>2, <2>3, Remembers DEF Building, Reporting, Paying
<1>4. ASSUME NEW d \in Dues, InitiatePaymentRead(s, d) PROVE Good(s)
  <2> DEFINE r == [Idle EXCEPT !.h = "createSingle", !.due = d, !.amount = due[d].balance,
                               !.salt = salt]
  <2>1. Remember(s, r) /\ UNCHANGED rows BY <1>4 DEF InitiatePaymentRead
  <2>2. due[d].balance \in Nat /\ salt \in Opt(Salts) BY DEF TypeOK, DueRow, Opt
  <2>3. /\ r \in Request
        /\ r.h = "createSingle" /\ r.due = d /\ r.seen = Idle.seen
    BY <2>2, IdleType DEF Request, Stages, Opt
  <2>4. \A x \in Dues : r.seen[x].paid <= receipts[x] BY <2>3, <1>z, IdleType
  <2> HIDE DEF r
  <2> QED BY <2>1, <2>3, <2>4, Remembers DEF Building, Reporting, Paying
<1>5. ASSUME NEW f \in [Dues -> 0..MaxAmount], MakePaymentCheckLock(s, f) PROVE Good(s)
  <2> DEFINE r == [Idle EXCEPT !.h = "validateDues", !.lines = f]
  <2>1. Remember(s, r) /\ UNCHANGED rows BY <1>5 DEF MakePaymentCheckLock
  <2>2. f \in Amounts BY AmountAssumption DEF Amounts
  <2>3. /\ r \in Request
        /\ r.h = "validateDues" /\ r.seen = Idle.seen
    BY <2>2, IdleType DEF Request, Stages
  <2>4. \A x \in Dues : r.seen[x].paid <= receipts[x] BY <2>3, <1>z, IdleType
  <2> HIDE DEF r
  <2> QED BY <2>1, <2>3, <2>4, Remembers DEF Building, Reporting, Paying
<1>6. ASSUME NEW x \in Txns, WebhookRead(s, x) PROVE Good(s)
  <2> DEFINE r == [Idle EXCEPT !.h = "verify", !.txn = x, !.due = txn[x].due,
                               !.amount = txn[x].amount]
  <2>1. Remember(s, r) /\ UNCHANGED rows BY <1>6 DEF WebhookRead
  <2>2. txn[x].due \in Opt(Dues) /\ txn[x].amount \in Nat /\ x \in Opt(Txns)
    BY DEF TypeOK, TxnRow, Opt
  <2>3. /\ r \in Request
        /\ r.h = "verify" /\ r.txn = x /\ r.seen = Idle.seen
    BY <2>2, IdleType DEF Request, Stages
  <2>4. \A d \in Dues : r.seen[d].paid <= receipts[d] BY <2>3, <1>z, IdleType
  <2> HIDE DEF r
  <2> QED BY <2>1, <2>3, <2>4, Remembers DEF Building, Reporting, Paying
<1> QED BY <1>1, <1>2, <1>3, <1>4, <1>5, <1>6 DEF Reads

-----------------------------------------------------------------------------
(* Facts about the slot that acts, used by every step below.               *)
LEMMA Acting ==
    ASSUME IInv, NEW s \in Slots
    PROVE  /\ TypeOK /\ RowsOK /\ Alone /\ SlotOK(s) /\ req[s] \in Request
           /\ req[s].amount \in Nat /\ req[s].lines \in Amounts
           /\ req[s].seen \in [Dues -> DueRow]
           /\ due \in [Dues -> DueRow] /\ receipts \in [Dues -> Nat]
BY DEF IInv, TypeOK, Request, Amounts

LEMMA CollectDueGood ==
    ASSUME IInv, NEW s \in Slots, CollectDueCommit(s) PROVE Good(s)
<1> DEFINE q == req[s]
           old == q.seen[q.due]
           new == AfterPayment(due[q.due], old, q.amount)
<1>1. q.due \in Dues /\ Done(s) BY Acting DEF CollectDueCommit, At, SlotOK
<1>2. /\ due' = [due EXCEPT ![q.due] = new]
      /\ receipts' = [receipts EXCEPT ![q.due] = @ + q.amount]
      /\ UNCHANGED <<txn, lines, booked, settlement, credited, locks, salt, gateway>>
  BY DEF CollectDueCommit
<1>3. old \in DueRow /\ due[q.due] \in DueRow /\ q.amount \in Nat BY <1>1, Acting
<1>4. new \in DueRow /\ new.paid = old.paid + q.amount BY <1>3, AfterPaymentType
<1>5. old.paid <= receipts[q.due] /\ old.paid \in Nat BY <1>1, <1>3, Acting DEF SlotOK, DueRow
<1> HIDE DEF new, old
<1>6. due' \in [Dues -> DueRow] /\ receipts' \in [Dues -> Nat]
  BY <1>1, <1>2, <1>3, <1>4, Acting
<1>7. TypeOK'
  BY <1>1, <1>2, <1>6, Acting, IdleType DEF TypeOK, Done, Amounts
<1>8. Frame(s)
  <2>1. \A d \in Dues : receipts[d] <= receipts'[d] BY <1>2, <1>3, Acting
  <2> QED BY <2>1, <1>1, <1>2, Acting DEF Frame, Done
<1>9. RowsOK'
  <2>1. \A d \in Dues : due'[d].paid <= receipts'[d]
    BY <1>1, <1>2, <1>3, <1>4, <1>5, Acting DEF RowsOK, PaidIsReceipted, DueRow
  <2> QED BY <2>1, <1>2, Acting DEF RowsOK, PaidIsReceipted
<1> QED BY <1>1, <1>7, <1>8, <1>9, Finishes

LEMMA EditDueGood ==
    ASSUME IInv, NEW s \in Slots, EditDueCommit(s) PROVE Good(s)
<1> DEFINE q == req[s]
           paid == q.seen[q.due].paid
           left == IF q.amount > paid THEN q.amount - paid ELSE 0
<1>1. q.due \in Dues /\ Done(s) BY Acting DEF EditDueCommit, At, SlotOK
<1>2. /\ due' = [due EXCEPT ![q.due].total = q.amount, ![q.due].balance = left]
      /\ UNCHANGED <<receipts, txn, lines, booked, settlement, credited, locks, salt, gateway>>
  BY DEF EditDueCommit
<1>3. paid \in Nat /\ q.amount \in Nat BY <1>1, Acting DEF DueRow
<1>4. left \in Nat BY <1>3
<1> HIDE DEF left
<1>5. /\ due' \in [Dues -> DueRow]
      /\ \A d \in Dues : due'[d].paid = due[d].paid
  BY <1>1, <1>2, <1>3, <1>4, Acting DEF DueRow
<1>6. TypeOK' BY <1>1, <1>2, <1>5, Acting, IdleType DEF TypeOK, Done
<1>7. Frame(s) BY <1>1, <1>2, Acting DEF Frame, Done
<1>8. RowsOK' BY <1>2, <1>5, Acting DEF RowsOK, PaidIsReceipted
<1> QED BY <1>1, <1>6, <1>7, <1>8, Finishes

LEMMA DeleteDueGood ==
    ASSUME IInv, NEW s \in Slots, DeleteDueCommit(s) PROVE Good(s)
<1> DEFINE d == req[s].due
           gone == [NoDue EXCEPT !.status = "deleted"]
<1>1. d \in Dues /\ Done(s) BY Acting DEF DeleteDueCommit, At, SlotOK
<1>2. /\ due' = [due EXCEPT ![d] = gone]
      /\ txn' = [x \in Txns |-> IF txn[x].due = d THEN [txn[x] EXCEPT !.due = None] ELSE txn[x]]
      /\ UNCHANGED <<receipts, lines, booked, settlement, credited, locks, salt, gateway>>
  BY DEF DeleteDueCommit
<1>3. gone \in DueRow /\ gone.paid = 0 BY DEF NoDue, DueRow
<1> HIDE DEF gone
<1>4. due' \in [Dues -> DueRow] BY <1>1, <1>2, <1>3, Acting
<1>5. /\ txn' \in [Txns -> TxnRow]
      /\ \A x \in Txns : txn'[x].status = txn[x].status
  BY <1>2, Acting DEF TypeOK, TxnRow, Opt
<1>6. TypeOK' BY <1>1, <1>2, <1>4, <1>5, Acting, IdleType DEF TypeOK, Done
<1>7. Frame(s) BY <1>1, <1>2, <1>5, Acting DEF Frame, Done
<1>8. RowsOK' BY <1>1, <1>2, <1>3, <1>5, Acting DEF RowsOK, PaidIsReceipted
<1> QED BY <1>1, <1>6, <1>7, <1>8, Finishes

(* A fresh transaction belongs to the handler that inserts it.             *)
LEMMA Created ==
    ASSUME IInv, NEW s \in Slots, NEW x \in Txns, txn[x] = NoTxn,
           NEW STATE row, row \in TxnRow, row.status = "INITIATED",
           NEW STATE r, r \in Request, r.h \in {"linkDues", "openPayment"}, r.txn = x,
           r.seen = req[s].seen,
           txn' = [txn EXCEPT ![x] = row], Remember(s, r),
           UNCHANGED <<due, receipts, lines, booked, settlement, credited, locks, salt, gateway>>
    PROVE  Good(s)
<1>1. req'[s] = r /\ \A z \in Slots : z # s => req'[z] = req[z]
  BY Acting DEF Remember, TypeOK
<1>2. TypeOK' BY Acting DEF TypeOK, Remember
<1>3. txn[x].status = "none" BY DEF NoTxn
<1>4. gateway[x] = "none" BY <1>3, Acting DEF RowsOK
<1>5. txn'[x].status = "INITIATED" BY Acting DEF TypeOK
<1>6. Frame(s) BY <1>1, <1>3, <1>5, Acting DEF Frame, TypeOK
<1>7. RowsOK' BY <1>3, <1>4, <1>5, Acting DEF RowsOK, PaidIsReceipted, TypeOK
<1>8. SlotOK(s)'
  BY <1>1, <1>4, <1>5, Acting DEF SlotOK, Building, Reporting, Paying
<1>9. \A z \in Slots : req[z].h \in Building => req[z].txn # x
  BY <1>3 DEF IInv, SlotOK
<1>10. Alone' BY <1>1, <1>9, Acting DEF Alone, Building
<1> QED BY <1>2, <1>6, <1>7, <1>8, <1>10 DEF Good

(* A handler that creates, links or opens a transaction keeps it to itself. *)
LEMMA CreateMultiGood ==
    ASSUME IInv, NEW s \in Slots, MakePaymentCreate(s) PROVE Good(s)
<1>1. PICK x \in Txns :
        /\ txn[x] = NoTxn
        /\ NewTxn(x, [status |-> "INITIATED", due |-> None, amount |-> 0, salt |-> req[s].salt])
        /\ Remember(s, [req[s] EXCEPT !.h = "linkDues", !.txn = x])
  BY DEF MakePaymentCreate
<1> DEFINE row == [status |-> "INITIATED", due |-> None, amount |-> 0, salt |-> req[s].salt]
           r == [req[s] EXCEPT !.h = "linkDues", !.txn = x]
<1>2. row \in TxnRow /\ row.status = "INITIATED"
  BY Acting DEF TxnRow, Request, Opt
<1>3. /\ r \in Request /\ r.h = "linkDues" /\ r.txn = x
      /\ r.seen = req[s].seen
  BY Acting DEF Request, Stages, Opt
<1>4. UNCHANGED <<due, receipts, lines, booked, settlement, credited, locks, salt, gateway>>
  BY DEF MakePaymentCreate
<1> HIDE DEF row, r
<1> QED BY <1>1, <1>2, <1>3, <1>4, Created DEF row, r, NewTxn

LEMMA CreateSingleGood ==
    ASSUME IInv, NEW s \in Slots, InitiatePaymentCreate(s) PROVE Good(s)
<1>1. PICK x \in Txns :
        /\ txn[x] = NoTxn
        /\ NewTxn(x, [status |-> "INITIATED", due |-> req[s].due, amount |-> req[s].amount,
                       salt |-> req[s].salt])
        /\ Remember(s, [req[s] EXCEPT !.h = "openPayment", !.txn = x])
  BY DEF InitiatePaymentCreate
<1> DEFINE row == [status |-> "INITIATED", due |-> req[s].due, amount |-> req[s].amount,
                   salt |-> req[s].salt]
           r == [req[s] EXCEPT !.h = "openPayment", !.txn = x]
<1>2. row \in TxnRow /\ row.status = "INITIATED"
  BY Acting DEF TxnRow, Request, Opt
<1>3. /\ r \in Request /\ r.h = "openPayment" /\ r.txn = x
      /\ r.seen = req[s].seen
  BY Acting DEF Request, Stages, Opt
<1>4. UNCHANGED <<due, receipts, lines, booked, settlement, credited, locks, salt, gateway>>
  BY DEF InitiatePaymentCreate
<1> HIDE DEF row, r
<1> QED BY <1>1, <1>2, <1>3, <1>4, Created DEF row, r, NewTxn

LEMMA LinkGood ==
    ASSUME IInv, NEW s \in Slots, MakePaymentLink(s) PROVE Good(s)
<1> DEFINE r == [req[s] EXCEPT !.h = "lockPayment"]
<1>1. req[s].h = "linkDues" /\ req[s].txn \in Txns
  BY Acting DEF MakePaymentLink, At, SlotOK, Building
<1>2. /\ r \in Request /\ r.h = "lockPayment" /\ r.txn = req[s].txn
      /\ r.seen = req[s].seen
  BY Acting DEF Request, Stages
<1>3. /\ req' = [req EXCEPT ![s] = r]
      /\ lines' = [lines EXCEPT ![req[s].txn] = req[s].lines]
      /\ UNCHANGED <<due, receipts, txn, booked, settlement, credited, locks, salt, gateway>>
  BY DEF MakePaymentLink, Goto, Remember
<1> HIDE DEF r
<1>4. req'[s] = r /\ \A z \in Slots : z # s => req'[z] = req[z]
  BY <1>3, Acting DEF TypeOK
<1>5. TypeOK' BY <1>1, <1>2, <1>3, Acting DEF TypeOK
<1>6. Frame(s) BY <1>3, <1>4, Acting DEF Frame
<1>7. RowsOK' BY <1>3, Acting DEF RowsOK, PaidIsReceipted
<1>8. SlotOK(s)'
  BY <1>1, <1>2, <1>3, <1>4, Acting DEF SlotOK, Building, Reporting, Paying
<1>9. Alone' BY <1>1, <1>2, <1>4, StillAlone DEF Building
<1> QED BY <1>5, <1>6, <1>7, <1>8, <1>9 DEF Good

LEMMA OpenGood ==
    ASSUME IInv, NEW s \in Slots, MakePaymentLock(s) \/ InitiatePaymentOpen(s) PROVE Good(s)
<1> DEFINE x == req[s].txn
<1>1. /\ req[s].h \in Building /\ Done(s)
      /\ gateway' = [gateway EXCEPT ![x] = "open"]
      /\ locks' \subseteq SUBSET Dues
      /\ UNCHANGED <<due, receipts, txn, lines, booked, settlement, credited, salt>>
  BY Acting DEF MakePaymentLock, InitiatePaymentOpen, At, Building, DuesOf, TypeOK
<1>2. x \in Txns /\ txn[x].status # "none" /\ gateway[x] = "none"
  BY <1>1, Acting DEF SlotOK
<1>3. TypeOK' BY <1>1, <1>2, Acting, IdleType DEF TypeOK, Done
<1>4. \A z \in Slots : z # s /\ req[z].h \in Building => req[z].txn # x
  BY <1>1, Acting DEF Alone
<1>5. \A z \in Slots : req[z].h \in Building => req[z].txn \in Txns
  BY DEF IInv, SlotOK
<1>6. Frame(s) BY <1>1, <1>2, <1>4, <1>5, Acting DEF Frame, Done, TypeOK
<1>7. RowsOK' BY <1>1, <1>2, Acting DEF RowsOK, PaidIsReceipted, TypeOK
<1> QED BY <1>1, <1>3, <1>6, <1>7, Finishes

LEMMA MakePaymentValidateGood ==
    ASSUME IInv, NEW s \in Slots, MakePaymentValidate(s) PROVE Good(s)
<1> DEFINE r == [req[s] EXCEPT !.h = "createMulti", !.salt = salt]
<1>1. Remember(s, r) /\ UNCHANGED rows BY DEF MakePaymentValidate
<1>2. salt \in Opt(Salts) BY Acting DEF TypeOK, Opt
<1>3. /\ r \in Request
      /\ r.h = "createMulti" /\ r.seen = req[s].seen
  BY <1>2, Acting DEF Request, Stages
<1>4. \A d \in Dues : r.seen[d].paid <= receipts[d] BY <1>3, Acting DEF SlotOK
<1> HIDE DEF r
<1> QED BY <1>1, <1>3, <1>4, Remembers DEF Building, Reporting, Paying

LEMMA WebhookVerifyGood ==
    ASSUME IInv, NEW s \in Slots, WebhookVerify(s) PROVE Good(s)
<1> DEFINE x == req[s].txn
           next == IF salt # txn[x].salt THEN "fail"
                   ELSE IF gateway[x] = "success" THEN "process"
                   ELSE IF gateway[x] = "usercancelled" THEN "cancel" ELSE "fail"
           r == [req[s] EXCEPT !.h = next]
<1>1. Remember(s, r) /\ UNCHANGED rows /\ x \in Txns
  BY Acting DEF WebhookVerify, Goto, At, SlotOK, Reporting
<1>2. next \in {"fail", "cancel"} \/ (next = "process" /\ gateway[x] = "success")
  OBVIOUS
<1> HIDE DEF next
<1>3. /\ r \in Request
      /\ r.h = next /\ r.txn = x /\ r.seen = req[s].seen
  BY <1>2, Acting DEF Request, Stages
<1>4. \A d \in Dues : r.seen[d].paid <= receipts[d] BY <1>3, Acting DEF SlotOK
<1> HIDE DEF r
<1> QED BY <1>1, <1>2, <1>3, <1>4, Remembers DEF Building, Reporting, Paying

LEMMA WebhookCloseGood ==
    ASSUME IInv, NEW s \in Slots, WebhookClose(s) PROVE Good(s)
<1> DEFINE x == req[s].txn
           status == IF At(s, "cancel") THEN "CANCELLED" ELSE "FAILED"
<1>1. x \in Txns /\ Done(s) BY Acting DEF WebhookClose, At, SlotOK, Reporting
<1>2. /\ txn' = [txn EXCEPT ![x].status = status]
      /\ UNCHANGED <<due, receipts, lines, booked, settlement, credited, locks, salt, gateway>>
  BY DEF WebhookClose, WithStatus
<1>3. status \in {"CANCELLED", "FAILED"} OBVIOUS
<1> HIDE DEF status
<1>4. /\ txn' \in [Txns -> TxnRow]
      /\ \A y \in Txns : txn[y].status # "none" => txn'[y].status # "none"
  BY <1>1, <1>2, <1>3, Acting DEF TypeOK, TxnRow
<1>5. TypeOK' BY <1>1, <1>2, <1>4, Acting, IdleType DEF TypeOK, Done
<1>6. Frame(s) BY <1>1, <1>2, <1>4, Acting DEF Frame, Done
<1>7. RowsOK' BY <1>2, <1>4, Acting DEF RowsOK, PaidIsReceipted
<1> QED BY <1>1, <1>5, <1>6, <1>7, Finishes

LEMMA ProcessSuccessfulPaymentGood ==
    ASSUME IInv, NEW s \in Slots, ProcessSuccessfulPayment(s) PROVE Good(s)
<1> DEFINE f == Orders(req[s])
           r == [req[s] EXCEPT !.h = AfterOrders(f), !.lines = f, !.seen = Seen(DuesOf(f))]
<1>1. req[s].txn \in Txns /\ gateway[req[s].txn] = "success"
  BY Acting DEF ProcessSuccessfulPayment, At, SlotOK, Reporting, Paying
<1>2. f \in Amounts BY <1>1, Acting, OrdersType
<1> HIDE DEF f
<1>3. AfterOrders(f) \in {"settle", "apply"} BY DEF AfterOrders
<1>4. Remember(s, r) /\ UNCHANGED rows
  BY <1>3 DEF ProcessSuccessfulPayment, f
<1>5. Seen(DuesOf(f)) \in [Dues -> DueRow] BY Acting, SeenType
<1>6. /\ r \in Request
      /\ r.h = AfterOrders(f) /\ r.txn = req[s].txn /\ r.seen = Seen(DuesOf(f))
  BY <1>2, <1>3, <1>5, Acting DEF Request, Stages
<1>7. \A d \in Dues : r.seen[d].paid <= receipts[d]
  BY <1>6, Acting, SeenReceipted DEF RowsOK
<1> HIDE DEF r
<1> QED BY <1>1, <1>3, <1>4, <1>6, <1>7, Remembers DEF Building, Reporting, Paying

(* A payment sets paid to a value that was receipted when it was read.     *)
LEMMA ApplyPaymentGood ==
    ASSUME IInv, NEW s \in Slots, ApplyPayment(s) PROVE Good(s)
<1> DEFINE q == req[s]
           D == ToBook(q)
           r == [req[s] EXCEPT !.h = "settle"]
<1>1. q.txn \in Txns /\ gateway[q.txn] = "success"
  BY Acting DEF ApplyPayment, At, SlotOK, Reporting, Paying
<1>2. /\ receipts' = [d \in Dues |-> IF d \in D THEN receipts[d] + q.lines[d] ELSE receipts[d]]
      /\ due' = [d \in Dues |-> IF d \in D THEN AfterPayment(due[d], q.seen[d], q.lines[d])
                                            ELSE due[d]]
      /\ booked' = [booked EXCEPT ![q.txn] = IF D = {} THEN @ ELSE @ + 1]
      /\ txn' = [txn EXCEPT ![q.txn].status = "SUCCESS"]
      /\ req' = [req EXCEPT ![s] = r]
      /\ UNCHANGED <<lines, settlement, credited, locks, salt, gateway>>
  BY DEF ApplyPayment, Receipted, Marked, WithStatus, Goto, Remember
<1> HIDE DEF D
<1>3. /\ r \in Request /\ r.h = "settle" /\ r.txn = q.txn
      /\ r.seen = q.seen
  BY Acting DEF Request, Stages
<1> HIDE DEF r
<1>4. \A d \in Dues : /\ due[d] \in DueRow /\ q.seen[d] \in DueRow
                      /\ q.lines[d] \in Nat /\ receipts[d] \in Nat
                      /\ q.seen[d].paid \in Nat /\ q.seen[d].paid <= receipts[d]
                      /\ due[d].paid <= receipts[d]
  BY Acting DEF Amounts, DueRow, SlotOK, RowsOK, PaidIsReceipted
<1>5. \A d \in Dues : /\ AfterPayment(due[d], q.seen[d], q.lines[d]) \in DueRow
                      /\ AfterPayment(due[d], q.seen[d], q.lines[d]).paid
                           = q.seen[d].paid + q.lines[d]
  BY <1>4, AfterPaymentType
<1>6. /\ due' \in [Dues -> DueRow] /\ receipts' \in [Dues -> Nat]
      /\ \A d \in Dues : due'[d].paid <= receipts'[d] /\ receipts[d] <= receipts'[d]
  BY <1>2, <1>4, <1>5
<1>7. /\ txn' \in [Txns -> TxnRow]
      /\ \A y \in Txns : txn[y].status # "none" => txn'[y].status # "none"
  BY <1>1, <1>2, Acting DEF TypeOK, TxnRow
<1>8. booked' \in [Txns -> Nat] BY <1>1, <1>2, Acting DEF TypeOK
<1>9. TypeOK' BY <1>2, <1>3, <1>6, <1>7, <1>8, Acting DEF TypeOK, Amounts
<1>10. req'[s] = r /\ \A z \in Slots : z # s => req'[z] = req[z]
  BY <1>2, Acting DEF TypeOK
<1>11. Frame(s) BY <1>2, <1>6, <1>7, <1>10, Acting DEF Frame
<1>12. RowsOK' BY <1>2, <1>6, <1>7, Acting DEF RowsOK, PaidIsReceipted
<1>13. \A d \in Dues : q.seen[d].paid <= receipts'[d] BY <1>4, <1>6
<1>14. SlotOK(s)'
  BY <1>1, <1>2, <1>3, <1>10, <1>13 DEF SlotOK, Building, Reporting, Paying
<1>15. Alone' BY <1>3, <1>10, StillAlone DEF Building
<1> QED BY <1>9, <1>11, <1>12, <1>14, <1>15 DEF Good

(* The settlement row admits one handler per transaction to the ledger.    *)
LEMMA SettlementCreateGood ==
    ASSUME IInv, NEW s \in Slots, SettlementCreate(s) PROVE Good(s)
<1> DEFINE x == req[s].txn
           r == [req[s] EXCEPT !.h = "credit"]
<1>1. x \in Txns /\ gateway[x] = "success" /\ x \notin settlement
  BY Acting DEF SettlementCreate, Unsettled, At, SlotOK, Reporting, Paying
<1>2. /\ settlement' = settlement \cup {x}
      /\ req' = [req EXCEPT ![s] = r]
      /\ UNCHANGED <<due, receipts, txn, lines, booked, credited, locks, salt, gateway>>
  BY DEF SettlementCreate, Goto, Remember
<1>3. /\ r \in Request /\ r.h = "credit" /\ r.txn = x
      /\ r.seen = req[s].seen
  BY Acting DEF Request, Stages
<1> HIDE DEF r
<1>4. TypeOK' BY <1>1, <1>2, <1>3, Acting DEF TypeOK
<1>5. req'[s] = r /\ \A z \in Slots : z # s => req'[z] = req[z]
  BY <1>2, Acting DEF TypeOK
<1>6. Frame(s) BY <1>2, <1>5, Acting DEF Frame
<1>7. RowsOK' BY <1>1, <1>2, Acting DEF RowsOK, PaidIsReceipted
<1>8. SlotOK(s)'
  BY <1>1, <1>2, <1>3, <1>5, Acting DEF SlotOK, RowsOK, Building, Reporting, Paying
<1>9. \A z \in Slots : req[z].h = "credit" => req[z].txn # x
  BY <1>1 DEF IInv, SlotOK
<1>10. Alone' BY <1>3, <1>5, <1>9, Acting DEF Alone, Building
<1> QED BY <1>4, <1>6, <1>7, <1>8, <1>10 DEF Good

LEMMA LedgerUpsertGood ==
    ASSUME IInv, NEW s \in Slots, LedgerUpsert(s) PROVE Good(s)
<1> DEFINE x == req[s].txn
<1>1. req[s].h = "credit" /\ Done(s) BY DEF LedgerUpsert, At
<1>2. x \in Txns /\ x \in settlement
  BY <1>1, Acting DEF SlotOK, Reporting, Paying
<1>3. /\ credited' = [credited EXCEPT ![x] = @ + 1]
      /\ UNCHANGED <<due, receipts, txn, lines, booked, settlement, locks, salt, gateway>>
  BY DEF LedgerUpsert
<1>4. TypeOK' BY <1>1, <1>2, <1>3, Acting, IdleType DEF TypeOK, Done
<1>5. \A z \in Slots : z # s /\ req[z].h = "credit" => req[z].txn # x
  BY <1>1, Acting DEF Alone
<1>6. Frame(s) BY <1>1, <1>3, <1>5, Acting DEF Frame, Done, TypeOK
<1>7. RowsOK' BY <1>2, <1>3, Acting DEF RowsOK, PaidIsReceipted, TypeOK
<1> QED BY <1>1, <1>4, <1>6, <1>7, Finishes

LEMMA StepsGood ==
    ASSUME IInv, NEW s \in Slots, Reads(s) \/ Steps(s) \/ Abort(s) PROVE Good(s)
<1>1. CASE Refused(s) \/ Abort(s) BY <1>1, Ends DEF Refused, Abort
<1>2. CASE Reads(s) BY <1>2, ReadsGood
<1> QED
  BY <1>1, <1>2, CollectDueGood, EditDueGood, DeleteDueGood, MakePaymentValidateGood,
     CreateMultiGood, LinkGood, OpenGood, CreateSingleGood, WebhookVerifyGood,
     WebhookCloseGood, ProcessSuccessfulPaymentGood, ApplyPaymentGood,
     SettlementCreateGood, LedgerUpsertGood
     DEF Steps

-----------------------------------------------------------------------------
(* The rows change under the handlers as well.                             *)
LEMMA CreateDueOK ==
    ASSUME IInv, NEW d \in Dues, NEW n \in 1..MaxAmount, CreateDue(d, n) PROVE IInv'
<1> DEFINE row == [status |-> "UNPAID", total |-> n, paid |-> 0, balance |-> n]
<1>1. /\ due' = [due EXCEPT ![d] = row]
      /\ UNCHANGED <<receipts, txn, lines, booked, settlement, credited, locks, salt, gateway, req>>
  BY DEF CreateDue
<1>2. row \in DueRow /\ row.paid = 0 BY AmountAssumption DEF DueRow, Present
<1> HIDE DEF row
<1>3. TypeOK' BY <1>1, <1>2 DEF IInv, TypeOK
<1>4. \A c \in Dues : receipts[c] \in Nat BY DEF IInv, TypeOK, Amounts
<1>5. RowsOK' BY <1>1, <1>2, <1>4 DEF IInv, TypeOK, RowsOK, PaidIsReceipted
<1>6. Alone' /\ \A s \in Slots : SlotOK(s)' BY <1>1 DEF IInv, Alone, SlotOK
<1> QED BY <1>3, <1>5, <1>6 DEF IInv

LEMMA GatewayDecidesOK ==
    ASSUME IInv, NEW x \in Txns, NEW outcome \in Outcomes, GatewayDecides(x, outcome)
    PROVE  IInv'
<1>1. /\ gateway[x] = "open" /\ gateway' = [gateway EXCEPT ![x] = outcome]
      /\ UNCHANGED <<due, receipts, txn, lines, booked, settlement, credited, locks, salt, req>>
  BY DEF GatewayDecides
<1>2. TypeOK' BY <1>1 DEF IInv, TypeOK
<1>3. RowsOK' BY <1>1 DEF IInv, TypeOK, RowsOK, PaidIsReceipted
<1>4. Alone' BY <1>1 DEF IInv, Alone
<1>5. \A y \in Txns : y # x => gateway'[y] = gateway[y] BY <1>1 DEF IInv, TypeOK
<1>6. ASSUME NEW s \in Slots PROVE SlotOK(s)'
  BY <1>1, <1>5 DEF IInv, SlotOK, Reporting
<1> QED BY <1>2, <1>3, <1>4, <1>6 DEF IInv

LEMMA NextOK == ASSUME IInv, [Next]_vars PROVE IInv'
<1>1. ASSUME NEW s \in Slots, Reads(s) \/ Steps(s) \/ Abort(s) PROVE IInv'
  BY <1>1, StepsGood, GoodIsInv
<1>2. ASSUME NEW D \in SUBSET Dues, LockExpires(D) PROVE IInv'
  BY <1>2 DEF LockExpires, IInv, TypeOK, RowsOK, PaidIsReceipted, Alone, SlotOK
<1>3. ASSUME NEW v \in Salts, UpdateConfig(v) PROVE IInv'
  BY <1>3 DEF UpdateConfig, IInv, TypeOK, RowsOK, PaidIsReceipted, Alone, SlotOK
<1>4. CASE UNCHANGED vars
  BY <1>4 DEF vars, IInv, TypeOK, RowsOK, PaidIsReceipted, Alone, SlotOK
<1> QED BY <1>1, <1>2, <1>3, <1>4, CreateDueOK, GatewayDecidesOK DEF Next

LEMMA InitOK == Init => IInv
<1> SUFFICES ASSUME Init PROVE IInv OBVIOUS
<1>1. NoDue \in DueRow /\ NoDue.paid = 0 BY DEF NoDue, DueRow
<1>2. NoTxn \in TxnRow /\ NoTxn.status = "none" BY DEF NoTxn, TxnRow, Opt
<1>3. TypeOK BY <1>1, <1>2, IdleType DEF Init, TypeOK, Amounts, NoLines
<1>4. RowsOK BY <1>1 DEF Init, RowsOK, PaidIsReceipted
<1>5. ASSUME NEW s \in Slots PROVE req[s] = Idle BY DEF Init
<1>6. Alone BY <1>5, IdleType DEF Alone, Building
<1>7. ASSUME NEW s \in Slots PROVE SlotOK(s)
  <2>1. \A d \in Dues : receipts[d] = 0 BY DEF Init
  <2> QED BY <1>5, <2>1, IdleType DEF SlotOK, Building, Reporting, Paying
<1> QED BY <1>3, <1>4, <1>6, <1>7 DEF IInv

(* The inductive invariant holds in every reachable state.                 *)
THEOREM Inductive == Spec => []IInv
BY InitOK, NextOK, PTL DEF Spec

(* Every request sees well-typed rows and remembers well-typed values.     *)
THEOREM TypeCorrect == Spec => []TypeOK
BY Inductive, PTL DEF IInv

(* Whatever overlapping collections, edits and payments write over each    *)
(* other, no due claims more than its DuePayment rows add up to.           *)
THEOREM NeverOverstated == Spec => []PaidIsReceipted
BY Inductive, PTL DEF IInv, RowsOK

-----------------------------------------------------------------------------
(* What the book shows changes in three actions only.                      *)
LEMMA BookStutters ==
    ASSUME UNCHANGED <<settlement, credited, gateway>> PROVE UNCHANGED Book!vars
BY DEF Book!vars

LEMMA OpeningStutters ==
    ASSUME IInv, NEW s \in Slots, MakePaymentLock(s) \/ InitiatePaymentOpen(s)
    PROVE  UNCHANGED Book!vars
<1>1. /\ req[s].h \in Building
      /\ gateway' = [gateway EXCEPT ![req[s].txn] = "open"]
      /\ UNCHANGED <<settlement, credited>>
  BY DEF MakePaymentLock, InitiatePaymentOpen, At, Building
<1>2. req[s].txn \in Txns /\ gateway[req[s].txn] = "none" BY <1>1, Acting DEF SlotOK
<1>3. \A x \in Txns : gateway'[x] = "success" <=> gateway[x] = "success"
  BY <1>1, <1>2, Acting DEF TypeOK
<1> QED BY <1>1, <1>3 DEF Book!vars

LEMMA SettlementRecords ==
    ASSUME IInv, NEW s \in Slots, SettlementCreate(s) PROVE Book!Next
<1> DEFINE x == req[s].txn
<1>1. x \in Txns /\ gateway[x] = "success" /\ x \notin settlement
  BY Acting DEF SettlementCreate, Unsettled, At, SlotOK, Reporting, Paying
<1>2. settlement' = settlement \cup {x} /\ UNCHANGED <<credited, gateway>>
  BY DEF SettlementCreate
<1>3. Book!Record(x) BY <1>1, <1>2 DEF Book!Record
<1> QED BY <1>1, <1>3 DEF Book!Next

LEMMA LedgerCredits ==
    ASSUME IInv, NEW s \in Slots, LedgerUpsert(s) PROVE Book!Next
<1> DEFINE x == req[s].txn
<1>1. req[s].h = "credit" BY DEF LedgerUpsert, At
<1>2. x \in Txns /\ x \in settlement /\ credited[x] = 0
  BY <1>1, Acting DEF SlotOK, Reporting, Paying
<1>3. credited' = [credited EXCEPT ![x] = 1] /\ UNCHANGED <<settlement, gateway>>
  BY <1>2, Acting DEF LedgerUpsert, TypeOK
<1>4. Book!Credit(x) BY <1>2, <1>3 DEF Book!Credit
<1> QED BY <1>2, <1>4 DEF Book!Next

LEMMA GatewayPays ==
    ASSUME IInv, NEW x \in Txns, NEW outcome \in Outcomes, GatewayDecides(x, outcome)
    PROVE  [Book!Next]_(Book!vars)
<1> DEFINE took == {y \in Txns : gateway[y] = "success"}
<1>1. /\ gateway[x] = "open" /\ gateway' = [gateway EXCEPT ![x] = outcome]
      /\ UNCHANGED <<settlement, credited>>
  BY DEF GatewayDecides
<1>2. \A y \in Txns : gateway'[y] = IF y = x THEN outcome ELSE gateway[y]
  BY <1>1 DEF IInv, TypeOK
<1>3. CASE outcome = "success"
  <2>1. took' = took \cup {x} /\ x \notin took BY <1>1, <1>2, <1>3
  <2>2. Book!Pay(x) BY <1>1, <2>1 DEF Book!Pay
  <2> QED BY <2>2 DEF Book!Next
<1>4. CASE outcome # "success"
  <2>1. took' = took BY <1>1, <1>2, <1>4
  <2> QED BY <1>1, <2>1 DEF Book!vars
<1> QED BY <1>3, <1>4

LEMMA NextKeepsBook == ASSUME IInv, [Next]_vars PROVE [Book!Next]_(Book!vars)
<1>1. ASSUME NEW s \in Slots, Reads(s) \/ Steps(s) \/ Abort(s)
      PROVE  [Book!Next]_(Book!vars)
  <2>1. CASE Reads(s) \/ Refused(s) \/ Abort(s)
    BY <2>1, BookStutters
       DEF Reads, CollectDueRead, EditDueRead, DeleteDueRead, InitiatePaymentRead,
           MakePaymentCheckLock, WebhookRead, Refused, Abort, rows
  <2>2. CASE \/ CollectDueCommit(s) \/ EditDueCommit(s) \/ DeleteDueCommit(s)
             \/ MakePaymentCreate(s) \/ MakePaymentLink(s) \/ InitiatePaymentCreate(s)
             \/ WebhookClose(s) \/ ApplyPayment(s)
    BY <2>2, BookStutters
       DEF CollectDueCommit, EditDueCommit, DeleteDueCommit, MakePaymentCreate,
           MakePaymentLink, InitiatePaymentCreate, WebhookClose, ApplyPayment
  <2>3. CASE MakePaymentValidate(s) \/ WebhookVerify(s) \/ ProcessSuccessfulPayment(s)
    BY <2>3, BookStutters
       DEF MakePaymentValidate, WebhookVerify, ProcessSuccessfulPayment, rows
  <2> QED
    BY <1>1, <2>1, <2>2, <2>3, OpeningStutters, SettlementRecords, LedgerCredits DEF Steps
<1>2. CASE \/ \E d \in Dues, n \in 1..MaxAmount : CreateDue(d, n)
           \/ \E D \in SUBSET Dues : LockExpires(D)
           \/ \E v \in Salts : UpdateConfig(v)
           \/ UNCHANGED vars
  BY <1>2, BookStutters DEF CreateDue, LockExpires, UpdateConfig, vars
<1> QED BY <1>1, <1>2, GatewayPays DEF Next

(* The settlement rows and the ledger refine SettlementBook: however many  *)
(* reports of one payment run at once, and wherever a handler dies, money  *)
(* the gateway took is recorded once and credited at most once.            *)
THEOREM Refinement == Spec => ImplementsBook
<1>1. Init => Book!Init
  <2>1. ASSUME Init PROVE {x \in Txns : gateway[x] = "success"} = {} BY <2>1 DEF Init
  <2> QED BY <2>1 DEF Init, Book!Init
<1>2. IInv /\ [Next]_vars => [Book!Next]_(Book!vars) BY NextKeepsBook
<1> QED BY <1>1, <1>2, Inductive, PTL DEF Spec, ImplementsBook, Book!Spec
=============================================================================
