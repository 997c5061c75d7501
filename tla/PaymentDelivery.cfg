\* Two overlapping requests and fairness, no crash once the tenant has the
\* payment link: is the money credited?
SPECIFICATION FairSpec
CONSTANTS
    Dues = {d1}
    Txns = {x1}
    Slots = {s1, s2}
    Handlers = {"createDue", "editDue", "deleteDue", "collectDue", "makePayment", "initiatePayment", "updateConfig"}
    Interrupted <- BeforeLink
    Salts = {a1, a2}
    MaxAmount = 1
    None = None
PROPERTY PaidIsCredited
