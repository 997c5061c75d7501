\* Two overlapping requests that may be interrupted anywhere.
SPECIFICATION Spec
CONSTANTS
    Dues = {d1}
    Txns = {x1, x2}
    Slots = {s1, s2}
    Handlers = {"createDue", "editDue", "deleteDue", "collectDue", "makePayment", "initiatePayment", "updateConfig"}
    Interrupted <- AllStages
    Salts = {a1, a2}
    MaxAmount = 1
    None = None
SYMMETRY Symmetry
INVARIANT PaidIsReceipted
PROPERTY ImplementsBook
