-------------------------------- MODULE Payment --------------------------------
(***************************************************************************)
(* The dues of a tenant in one property and the money paid for them:       *)
(* payment.service.ts with its lock cache, collectDue of due.service.ts,   *)
(* editDue and deleteDue of billing.service.ts, and the payment gateway.   *)
(*                                                                         *)
(* The gateway reports the outcome of a payment any number of times, to    *)
(* /webhook and to /success or /failure, and every report runs             *)
(* handleWebhook. Each await of a handler that reads or writes rows is an  *)
(* action of its own; req[s] holds what the handler in slot s remembers.   *)
(* A database transaction is one step: its writes are blind and the rows   *)
(* it touches stay locked until it commits.                                *)
(***************************************************************************)
EXTENDS Integers, FiniteSets

CONSTANTS
    Dues,        \* pool of TenantDue rows
    Txns,        \* pool of PaymentGatewayTransaction rows
    Slots,       \* requests in progress at the same time
    Handlers,    \* handlers that are called in this instance
    Interrupted, \* stages at which a request may fail or the process die
    Salts,       \* merchant accounts a property may be configured with
    MaxAmount,   \* bound: largest totalAmount of a due
    None         \* SQL NULL

ASSUME NoneAssumption == None \notin Dues \cup Txns \cup Salts
ASSUME SaltAssumption == Salts # {}
ASSUME AmountAssumption == MaxAmount \in Nat \ {0}

VARIABLES
    due,         \* TenantDue rows
    receipts,    \* sum of the DuePayment rows of each due
    txn,         \* PaymentGatewayTransaction rows
    lines,       \* amount of the PaymentGatewayTransactionDue rows, 0 for no row
    booked,      \* transactions' commits that inserted DuePayment rows
    settlement,  \* transactions with a SettlementTransactions row
    credited,    \* increments of PropertySettlementLedger made for a transaction
    locks,       \* sets of dues with a payment:lock key in Redis
    salt,        \* PropertyPaymentGatewayConfig.merchantSalt
    gateway,     \* what the gateway knows of each transaction
    req          \* what the handler running in each slot remembers

rows == <<due, receipts, txn, lines, booked, settlement, credited, locks, salt, gateway>>
vars == <<due, receipts, txn, lines, booked, settlement, credited, locks, salt, gateway, req>>

Opt(S) == S \cup {None}

Amounts == [Dues -> Nat]
NoLines == [d \in Dues |-> 0]
Only(d, a) == [NoLines EXCEPT ![d] = a]

(* WAIVED and OVERDUE are in the schema but never written.                 *)
Present == {"UNPAID", "PARTIAL", "PAID"}
DueRow == [status: Present \cup {"none", "deleted"}, total: Nat, paid: Nat, balance: Nat]
NoDue == [status |-> "none", total |-> 0, paid |-> 0, balance |-> 0]

(* due: the due of a single payment, NULL for one of several dues.         *)
TxnRow == [status: {"none", "INITIATED", "SUCCESS", "FAILED", "CANCELLED"},
           due: Opt(Dues), amount: Nat, salt: Opt(Salts)]
NoTxn == [status |-> "none", due |-> None, amount |-> 0, salt |-> None]

Outcomes == {"success", "failure", "usercancelled"}

Stages == {"collectDue", "editDue", "deleteDue",
           "validateDues", "createMulti", "linkDues", "lockPayment",
           "createSingle", "openPayment",
           "verify", "fail", "cancel", "process", "apply", "settle", "credit"}

Request == [h: Stages \cup {"idle"}, txn: Opt(Txns), due: Opt(Dues), amount: Nat,
            lines: Amounts, seen: [Dues -> DueRow], salt: Opt(Salts)]
Idle == [h |-> "idle", txn |-> None, due |-> None, amount |-> 0, lines |-> NoLines,
         seen |-> [d \in Dues |-> NoDue], salt |-> None]

Init ==
    /\ due = [d \in Dues |-> NoDue]
    /\ receipts = [d \in Dues |-> 0]
    /\ txn = [x \in Txns |-> NoTxn]
    /\ lines = [x \in Txns |-> NoLines]
    /\ booked = [x \in Txns |-> 0]
    /\ settlement = {}
    /\ credited = [x \in Txns |-> 0]
    /\ locks = {}
    /\ salt \in Salts
    /\ gateway = [x \in Txns |-> "none"]
    /\ req = [s \in Slots |-> Idle]

-----------------------------------------------------------------------------
(* Conditions and effects the handlers share. Operators named ...Mutant    *)
(* are wrong variants, used to show that a property fails when the code is *)
(* changed that way.                                                       *)

Begins(s, handler) == handler \in Handlers /\ req[s] = Idle
At(s, stage) == req[s].h = stage
Remember(s, r) == req' = [req EXCEPT ![s] = r]
Goto(s, stage) == Remember(s, [req[s] EXCEPT !.h = stage])
Done(s) == req' = [req EXCEPT ![s] = Idle]

Exists(d) == due[d].status \in Present
Payable(d) == Exists(d) /\ due[d].status # "PAID" /\ due[d].balance > 0
DuesOf(f) == {d \in Dues : f[d] > 0}
Seen(D) == [d \in Dues |-> IF d \in D THEN due[d] ELSE NoDue]

RemainingMutant(row, a) == row.balance - a
OverTotalMutant(row, a) == IF row.total > a THEN row.total - a ELSE 0
Remaining(row, a) == IF row.balance > a THEN row.balance - a ELSE 0

(* A payment writes absolute values computed from the row it read.         *)
AfterPayment(row, old, a) ==
    [row EXCEPT !.paid = old.paid + a,
                !.balance = Remaining(old, a),
                !.status = IF Remaining(old, a) = 0 THEN "PAID" ELSE "PARTIAL"]

ReprocessedMutant(x) == txn[x].status \in {"FAILED", "CANCELLED"}
Processed(x) == txn[x].status # "INITIATED"

NewTxn(x, r) == txn' = [txn EXCEPT ![x] = r]
WithStatus(x, status) == [txn EXCEPT ![x].status = status]

-----------------------------------------------------------------------------
(* Dues: inserted by addDueToTenant, createDueForTenant and others, edited *)
(* and deleted by the owner, collected by hand.                            *)

CreateDue(d, n) ==
    /\ "createDue" \in Handlers
    /\ due[d] = NoDue
    /\ due' = [due EXCEPT ![d] = [status |-> "UNPAID", total |-> n, paid |-> 0, balance |-> n]]
    /\ UNCHANGED <<receipts, txn, lines, booked, settlement, credited, locks, salt, gateway, req>>

CollectDueRead(s, d, a) ==
    /\ Begins(s, "collectDue")
    /\ Payable(d) /\ a <= due[d].balance
    /\ Remember(s, [Idle EXCEPT !.h = "collectDue", !.due = d, !.amount = a, !.seen = Seen({d})])
    /\ UNCHANGED rows

CollectDueCommit(s) ==
    LET q == req[s]
    IN  /\ At(s, "collectDue")
        /\ Exists(q.due)
        /\ receipts' = [receipts EXCEPT ![q.due] = @ + q.amount]
        /\ due' = [due EXCEPT ![q.due] = AfterPayment(@, q.seen[q.due], q.amount)]
        /\ Done(s)
        /\ UNCHANGED <<txn, lines, booked, settlement, credited, locks, salt, gateway>>

(* Only the amount: the due date and type are not modelled.                *)
EditDueRead(s, d, n) ==
    /\ Begins(s, "editDue")
    /\ due[d].status = "UNPAID"
    /\ Remember(s, [Idle EXCEPT !.h = "editDue", !.due = d, !.amount = n, !.seen = Seen({d})])
    /\ UNCHANGED rows

EditDueCommit(s) ==
    LET q == req[s]
        paid == q.seen[q.due].paid
    IN  /\ At(s, "editDue")
        /\ Exists(q.due)
        /\ due' = [due EXCEPT ![q.due].total = q.amount,
                              ![q.due].balance = IF q.amount > paid THEN q.amount - paid ELSE 0]
        /\ Done(s)
        /\ UNCHANGED <<receipts, txn, lines, booked, settlement, credited, locks, salt, gateway>>

DeleteDueRead(s, d) ==
    /\ Begins(s, "deleteDue")
    /\ due[d].status = "UNPAID"
    /\ Remember(s, [Idle EXCEPT !.h = "deleteDue", !.due = d])
    /\ UNCHANGED rows

(* Foreign keys: DuePayment and PaymentGatewayTransactionDue restrict the  *)
(* delete, PaymentGatewayTransaction.dueId is set to NULL.                 *)
Deletable(d) ==
    /\ Exists(d) /\ receipts[d] = 0
    /\ \A x \in Txns : lines[x][d] = 0

DeleteDueCommit(s) ==
    LET d == req[s].due
    IN  /\ At(s, "deleteDue")
        /\ Deletable(d)
        /\ due' = [due EXCEPT ![d] = [NoDue EXCEPT !.status = "deleted"]]
        /\ txn' = [x \in Txns |-> IF txn[x].due = d THEN [txn[x] EXCEPT !.due = None]
                                                    ELSE txn[x]]
        /\ Done(s)
        /\ UNCHANGED <<receipts, lines, booked, settlement, credited, locks, salt, gateway>>

-----------------------------------------------------------------------------
(* makePayment: a payment of several dues, each with an amount.            *)

Locked(D) == D \in locks

MakePaymentCheckLock(s, f) ==
    /\ Begins(s, "makePayment")
    /\ DuesOf(f) # {} /\ ~Locked(DuesOf(f))
    /\ Remember(s, [Idle EXCEPT !.h = "validateDues", !.lines = f])
    /\ UNCHANGED rows

MakePaymentValidate(s) ==
    /\ At(s, "validateDues")
    /\ \A d \in DuesOf(req[s].lines) : Payable(d) /\ req[s].lines[d] <= due[d].balance
    /\ Remember(s, [req[s] EXCEPT !.h = "createMulti", !.salt = salt])
    /\ UNCHANGED rows

MakePaymentCreate(s) ==
    /\ At(s, "createMulti")
    /\ \E x \in Txns :
        /\ txn[x] = NoTxn
        /\ NewTxn(x, [status |-> "INITIATED", due |-> None, amount |-> 0, salt |-> req[s].salt])
        /\ Remember(s, [req[s] EXCEPT !.h = "linkDues", !.txn = x])
    /\ UNCHANGED <<due, receipts, lines, booked, settlement, credited, locks, salt, gateway>>

MakePaymentLink(s) ==
    /\ At(s, "linkDues")
    /\ \A d \in DuesOf(req[s].lines) : Exists(d)
    /\ lines' = [lines EXCEPT ![req[s].txn] = req[s].lines]
    /\ Goto(s, "lockPayment")
    /\ UNCHANGED <<due, receipts, txn, booked, settlement, credited, locks, salt, gateway>>

(* The gateway has returned the payment link; the tenant gets it when the  *)
(* lock is written.                                                        *)
MakePaymentLock(s) ==
    /\ At(s, "lockPayment")
    /\ locks' = locks \cup {DuesOf(req[s].lines)}
    /\ gateway' = [gateway EXCEPT ![req[s].txn] = "open"]
    /\ Done(s)
    /\ UNCHANGED <<due, receipts, txn, lines, booked, settlement, credited, salt>>

(* The key of a lock has a time to live and is never deleted.              *)
LockExpires(D) ==
    /\ D \in locks
    /\ locks' = locks \ {D}
    /\ UNCHANGED <<due, receipts, txn, lines, booked, settlement, credited, salt, gateway, req>>

-----------------------------------------------------------------------------
(* initiatePayment: the whole balance of one due, without a lock.          *)

InitiatePaymentRead(s, d) ==
    /\ Begins(s, "initiatePayment")
    /\ Payable(d)
    /\ Remember(s, [Idle EXCEPT !.h = "createSingle", !.due = d, !.amount = due[d].balance,
                                !.salt = salt])
    /\ UNCHANGED rows

InitiatePaymentCreate(s) ==
    /\ At(s, "createSingle")
    /\ Exists(req[s].due)
    /\ \E x \in Txns :
        /\ txn[x] = NoTxn
        /\ NewTxn(x, [status |-> "INITIATED", due |-> req[s].due, amount |-> req[s].amount,
                      salt |-> req[s].salt])
        /\ Remember(s, [req[s] EXCEPT !.h = "openPayment", !.txn = x])
    /\ UNCHANGED <<due, receipts, lines, booked, settlement, credited, locks, salt, gateway>>

InitiatePaymentOpen(s) ==
    /\ At(s, "openPayment")
    /\ gateway' = [gateway EXCEPT ![req[s].txn] = "open"]
    /\ Done(s)
    /\ UNCHANGED <<due, receipts, txn, lines, booked, settlement, credited, locks, salt>>

-----------------------------------------------------------------------------
(* The gateway decides once and signs its reports with the account the     *)
(* payment was made under; the owner may switch to another account.        *)

GatewayDecides(x, outcome) ==
    /\ gateway[x] = "open"
    /\ gateway' = [gateway EXCEPT ![x] = outcome]
    /\ UNCHANGED <<due, receipts, txn, lines, booked, settlement, credited, locks, salt, req>>

UpdateConfig(v) ==
    /\ "updateConfig" \in Handlers
    /\ salt' = v
    /\ UNCHANGED <<due, receipts, txn, lines, booked, settlement, credited, locks, gateway, req>>

-----------------------------------------------------------------------------
(* handleWebhook.                                                          *)

WebhookRead(s, x) ==
    /\ req[s] = Idle
    /\ gateway[x] \in Outcomes
    /\ ~Processed(x)
    /\ Remember(s, [Idle EXCEPT !.h = "verify", !.txn = x, !.due = txn[x].due,
                                !.amount = txn[x].amount])
    /\ UNCHANGED rows

WebhookVerify(s) ==
    LET x == req[s].txn
    IN  /\ At(s, "verify")
        /\ Goto(s, IF salt # txn[x].salt THEN "fail"
                   ELSE IF gateway[x] = "success" THEN "process"
                   ELSE IF gateway[x] = "usercancelled" THEN "cancel" ELSE "fail")
        /\ UNCHANGED rows

(* A blind write, whatever the status is by now.                           *)
WebhookClose(s) ==
    /\ At(s, "fail") \/ At(s, "cancel")
    /\ txn' = WithStatus(req[s].txn, IF At(s, "cancel") THEN "CANCELLED" ELSE "FAILED")
    /\ Done(s)
    /\ UNCHANGED <<due, receipts, lines, booked, settlement, credited, locks, salt, gateway>>

(* What a transaction pays for: its due if that still exists, or its lines *)
(* when dueId was NULL.                                                    *)
Orders(q) ==
    IF q.due = None THEN lines[q.txn]
    ELSE IF Exists(q.due) THEN Only(q.due, q.amount)
    ELSE NoLines

(* Nothing to book is logged and the money is settled all the same.        *)
AfterOrdersMutant(f) == IF f = NoLines THEN "idle" ELSE "apply"
AfterOrders(f) == IF f = NoLines THEN "settle" ELSE "apply"

ProcessSuccessfulPayment(s) ==
    LET f == Orders(req[s])
    IN  /\ At(s, "process")
        /\ IF AfterOrders(f) = "idle" THEN Done(s)
           ELSE Remember(s, [req[s] EXCEPT !.h = AfterOrders(f), !.lines = f,
                                           !.seen = Seen(DuesOf(f))])
        /\ UNCHANGED rows

(* Dues that were read as PAID are skipped.                                *)
ToBook(q) == {d \in DuesOf(q.lines) : q.seen[d].status # "PAID"}

ReceiptedMutant(q) == receipts
Receipted(q) == [d \in Dues |-> IF d \in ToBook(q) THEN receipts[d] + q.lines[d] ELSE receipts[d]]

MarkedMutant(q) == IF ToBook(q) = {} THEN txn ELSE WithStatus(q.txn, "SUCCESS")
Marked(q) == WithStatus(q.txn, "SUCCESS")

ApplyPayment(s) ==
    LET q == req[s]
    IN  /\ At(s, "apply")
        /\ \A d \in ToBook(q) : Exists(d)
        /\ receipts' = Receipted(q)
        /\ due' = [d \in Dues |-> IF d \in ToBook(q) THEN AfterPayment(due[d], q.seen[d], q.lines[d])
                                                     ELSE due[d]]
        /\ booked' = [booked EXCEPT ![q.txn] = IF ToBook(q) = {} THEN @ ELSE @ + 1]
        /\ txn' = Marked(q)
        /\ Goto(s, "settle")
        /\ UNCHANGED <<lines, settlement, credited, locks, salt, gateway>>

(* paymentTransactionId is unique.                                         *)
UnsettledMutant(x) == TRUE
Unsettled(x) == x \notin settlement

SettlementCreate(s) ==
    /\ At(s, "settle")
    /\ Unsettled(req[s].txn)
    /\ settlement' = settlement \cup {req[s].txn}
    /\ Goto(s, "credit")
    /\ UNCHANGED <<due, receipts, txn, lines, booked, credited, locks, salt, gateway>>

LedgerUpsert(s) ==
    /\ At(s, "credit")
    /\ credited' = [credited EXCEPT ![req[s].txn] = @ + 1]
    /\ Done(s)
    /\ UNCHANGED <<due, receipts, txn, lines, booked, settlement, locks, salt, gateway>>

-----------------------------------------------------------------------------
(* A write that violates a constraint, misses its row, or a validation that *)
(* fails: the handler throws.                                               *)
Refused(s) ==
    LET q == req[s]
    IN  /\ \/ At(s, "collectDue") /\ ~Exists(q.due)
           \/ At(s, "editDue") /\ ~Exists(q.due)
           \/ At(s, "deleteDue") /\ ~Deletable(q.due)
           \/ At(s, "validateDues")
           \/ At(s, "linkDues") /\ \E d \in DuesOf(q.lines) : ~Exists(d)
           \/ At(s, "createSingle") /\ ~Exists(q.due)
           \/ At(s, "createSingle") /\ \A x \in Txns : txn[x] # NoTxn    \* pool used up
           \/ At(s, "createMulti") /\ \A x \in Txns : txn[x] # NoTxn
           \/ At(s, "apply") /\ \E d \in ToBook(q) : ~Exists(d)
           \/ At(s, "settle") /\ ~Unsettled(q.txn)
        /\ Done(s)
        /\ UNCHANGED rows

(* The gateway refuses the payment, the database is lost or the process    *)
(* dies.                                                                   *)
Abort(s) ==
    /\ req[s].h \in Interrupted /\ req[s] # Idle
    /\ Done(s)
    /\ UNCHANGED rows

-----------------------------------------------------------------------------
Reads(s) ==
    \/ \E d \in Dues, n \in 1..MaxAmount : CollectDueRead(s, d, n) \/ EditDueRead(s, d, n)
    \/ \E d \in Dues : DeleteDueRead(s, d) \/ InitiatePaymentRead(s, d)
    \/ \E f \in [Dues -> 0..MaxAmount] : MakePaymentCheckLock(s, f)
    \/ \E x \in Txns : WebhookRead(s, x)

Steps(s) ==
    \/ CollectDueCommit(s)
    \/ EditDueCommit(s)
    \/ DeleteDueCommit(s)
    \/ MakePaymentValidate(s)
    \/ MakePaymentCreate(s)
    \/ MakePaymentLink(s)
    \/ MakePaymentLock(s)
    \/ InitiatePaymentCreate(s)
    \/ InitiatePaymentOpen(s)
    \/ WebhookVerify(s)
    \/ WebhookClose(s)
    \/ ProcessSuccessfulPayment(s)
    \/ ApplyPayment(s)
    \/ SettlementCreate(s)
    \/ LedgerUpsert(s)
    \/ Refused(s)

Next ==
    \/ \E s \in Slots : Reads(s) \/ Steps(s) \/ Abort(s)
    \/ \E d \in Dues, n \in 1..MaxAmount : CreateDue(d, n)
    \/ \E D \in SUBSET Dues : LockExpires(D)
    \/ \E x \in Txns, outcome \in Outcomes : GatewayDecides(x, outcome)
    \/ \E v \in Salts : UpdateConfig(v)

Spec == Init /\ [][Next]_vars

(* A running handler runs on, and the gateway repeats its report while the *)
(* transaction is still INITIATED.                                         *)
Fairness ==
    /\ \A s \in Slots : WF_vars(Steps(s))
    /\ \A x \in Txns : SF_vars(\E s \in Slots : WebhookRead(s, x))

FairSpec == Spec /\ Fairness

-----------------------------------------------------------------------------
(* Type invariant.                                                         *)
TypeOK ==
    /\ due \in [Dues -> DueRow]
    /\ receipts \in Amounts
    /\ txn \in [Txns -> TxnRow]
    /\ lines \in [Txns -> Amounts]
    /\ booked \in [Txns -> Nat]
    /\ settlement \subseteq Txns
    /\ credited \in [Txns -> Nat]
    /\ locks \subseteq SUBSET Dues
    /\ salt \in Salts
    /\ gateway \in [Txns -> Outcomes \cup {"none", "open"}]
    /\ req \in [Slots -> Request]

(* However reports, handlers and crashes interleave, the settlement rows   *)
(* and the ledger keep the promise of SettlementBook: money the gateway    *)
(* took is recorded, then credited, and neither happens twice.             *)
Book == INSTANCE SettlementBook WITH
            paid <- {x \in Txns : gateway[x] = "success"},
            recorded <- settlement,
            credit <- credited
ImplementsBook == Book!Spec

(* However handlers overwrite each other's columns, a due never claims to  *)
(* be paid beyond the receipts there are for it: a lost update only loses. *)
PaidIsReceipted == \A d \in Dues : due[d].paid <= receipts[d]

(* When requests do not overlap, the columns of a due agree with each      *)
(* other and with its receipts, also after edits and overpayments.         *)
DueReconciles ==
    \A d \in Dues : Exists(d) =>
        /\ due[d].paid = receipts[d]
        /\ due[d].balance = IF due[d].total > due[d].paid THEN due[d].total - due[d].paid ELSE 0
        /\ due[d].status = IF due[d].balance = 0 THEN "PAID"
                           ELSE IF due[d].paid > 0 THEN "PARTIAL" ELSE "UNPAID"

(* What "Webhook already processed" states: however often the gateway      *)
(* repeats its report, a transaction is booked at most once.               *)
BookedOnce == \A x \in Txns : booked[x] <= 1

(* When requests do not overlap, money that is being settled is booked to  *)
(* the dues it was paid for, or those are paid in full or deleted.         *)
SettledIsBooked ==
    \A x \in settlement :
        \/ txn[x].due = None /\ lines[x] = NoLines
        \/ /\ txn[x].status = "SUCCESS"
           /\ \/ booked[x] = 1
              \/ \A d \in Dues : d = txn[x].due \/ lines[x][d] > 0 => due[d].status = "PAID"

(* If the merchant account is never switched under a payment the gateway   *)
(* took, its amount is credited to the property in the end.                *)
PaidIsCredited ==
    \A x \in Txns :
        [](txn[x] # NoTxn => salt = txn[x].salt) =>
            (gateway[x] = "success" ~> credited[x] > 0)

(* What the refusal of makePayment states: no payment is started for a due *)
(* while a payment "for one or more of the selected dues" is locked.       *)
RefusedWhileLocked ==
    [][\A s \in Slots : req[s] = Idle /\ req'[s].h = "validateDues" =>
         \A D \in locks : D \cap DuesOf(req'[s].lines) = {}]_vars
=============================================================================
