----------------------------- MODULE MCSession -----------------------------
(* The times of rkvm-net/src/lib.rs in ticks of an eighth of a second. *)
EXTENDS Session

tick == 125

MC_PING_INTERVAL == 1000 \div tick
MC_TIMEOUT       == 500 \div tick

(* The times of the code and the delays of session.cfg fit each other.      *)
ASSUME TimesAssumption == TimesFit
=============================================================================
