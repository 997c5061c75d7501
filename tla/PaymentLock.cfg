\* One request at a time: is a due locked by another selection of dues?
SPECIFICATION Spec
CONSTANTS
    Dues = {d1, d2}
    Txns = {x1, x2}
    Slots = {s1}
    Handlers = {"createDue", "makePayment"}
    Interrupted = {}
    Salts = {a1}
    MaxAmount = 1
    None = None
SYMMETRY Symmetry
CHECK_DEADLOCK FALSE
PROPERTY RefusedWhileLocked
