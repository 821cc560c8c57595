--------------------------- MODULE MCClientSession ---------------------------
(* Tab t1 makes the calls a and b beside its /users/me, tab t2, where it is *)
(* part of the instance, only its /users/me.                                *)
EXTENDS ClientSession

CONSTANTS t1, t2, a, b, me1, me2
MCTabOf == [r \in Requests |-> IF r \in {a, b, me1} THEN t1 ELSE t2]
MCMeOf == [t \in Tabs |-> IF t = t1 THEN me1 ELSE me2]
=============================================================================
