--------------------------- MODULE MCExasolSessions ---------------------------
(***************************************************************************)
(* A small instance of ExasolSessions: a callback thread and a thread that *)
(* checks or exports compete for one session, beside two rewrites of the   *)
(* profile.                                                                *)
(***************************************************************************)
EXTENDS ExasolSessions

CONSTANTS t1, o1, w1, w2, x1, x2

OneThread == {t1}
OneOther == {o1}
TwoWriters == {w1, w2}
TwoSettings == {x1, x2}
=============================================================================
