\* One request at a time: two dues, two payments, repeated reports.
SPECIFICATION Spec
CONSTANTS
    Dues = {d1, d2}
    Txns = {x1, x2}
    Slots = {s1}
    Handlers = {"createDue", "editDue", "deleteDue", "collectDue", "makePayment", "initiatePayment", "updateConfig"}
    Interrupted <- BeforeLink
    Salts = {a1}
    MaxAmount = 2
    None = None
SYMMETRY Symmetry
INVARIANT TypeOK
INVARIANT DueReconciles
INVARIANT BookedOnce
INVARIANT SettledIsBooked
