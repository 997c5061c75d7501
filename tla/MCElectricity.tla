---------------------------- MODULE MCElectricity ----------------------------
(* Instances of Electricity for TLC.                                       *)
EXTENDS Electricity, TLC

CONSTANTS r1, r2, t1, t2, t3

MCInitial == [r \in Rooms |-> IF r = r1 THEN 1 ELSE 0]
MCDaysIn == [m \in Months |-> IF m = 1 THEN 3 ELSE 2]

Stays(r, day) == [active |-> TRUE, room |-> r, joined |-> day, left |-> None]
OnNotice(r, day) == [Stays(r, day) EXCEPT !.active = FALSE]
Tenants(a, b, c) == t1 :> a @@ t2 :> b @@ t3 :> c

(* Two in the metered room and a late third without a meter; everybody     *)
(* metered; the metered room vacant and a tenant of the pool leaving in    *)
(* month 2; nobody of the pool there in month 1.                           *)
Shared == Tenants(Stays(r1, 1), Stays(r1, 2), Stays(r2, 3))
AllMetered == Tenants(Stays(r1, 1), Stays(r1, 3), OnNotice(r2, 1))
Vacant == Tenants(OnNotice(r1, 1), [Stays(r2, 1) EXCEPT !.left = 4], Stays(r2, 3))
TooLate == Tenants(Stays(r1, 1), Stays(r2, 4), OnNotice(r2, 1))
Single == Tenants(OnNotice(r1, 1), Stays(r2, 1), OnNotice(r2, 1))

World(tenants, above, edited, months, ops) ==
    [population |-> tenants, above |-> above, edited |-> edited, months |-> months,
     ops |-> ops]

(* Both months, or one of them with what disturbs its bill.                *)
MCWorlds ==
    {World(tenants, above, {}, Months, {}) :
       tenants \in {Shared, AllMetered, Vacant, TooLate},
       above \in {{}, Rooms \cup Tenancies}}
    \cup {World(tenants, {}, {r1}, {1}, {}) : tenants \in {Shared, Vacant}}
    \cup {World(Vacant, {}, {}, {1}, {"makePayment"})}
    \cup {World(Single, {}, {}, {1}, {"collectDue", "makePayment"})}
    \cup {World(Single, {}, {}, {1}, {"makePayment", "initiatePayment"})}
    \cup {World(Single, {}, {}, {1}, {"metrics"})}
==============================================================================
