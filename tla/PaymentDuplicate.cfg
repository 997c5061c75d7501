\* Two overlapping reports of one payment.
SPECIFICATION Spec
CONSTANTS
    Dues = {d1}
    Txns = {x1}
    Slots = {s1, s2}
    Handlers = {"createDue", "initiatePayment"}
    Interrupted = {}
    Salts = {a1}
    MaxAmount = 2
    None = None
SYMMETRY Symmetry
CHECK_DEADLOCK FALSE
INVARIANT BookedOnce
