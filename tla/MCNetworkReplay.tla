-------------------------- MODULE MCNetworkReplay --------------------------
(* A guest of one thread that makes every call, and one of two that send. *)
EXTENDS NetworkReplay

CONSTANTS t1, t2

OneCallsAll == [threads |-> {t1}, requests |-> 4,
                calls |-> {"recv", "poll", "take_error", "shutdown", "send"}]
TwoSend == [threads |-> {t1, t2}, requests |-> 8, calls |-> {"send"}]
BothGuests == {OneCallsAll, TwoSend}
=============================================================================
