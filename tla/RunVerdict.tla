------------------------------ MODULE RunVerdict ------------------------------
(***************************************************************************)
(* What a multi-hart run promises whoever reads the exit status of         *)
(* scripts/run-qemu.sh: the copies of the benchmark end in any order, each *)
(* with a result of its own, and the run passes only when every one of     *)
(* them has ended well.  It may fail at any time, for any reason.          *)
(***************************************************************************)
CONSTANT Hart

VARIABLES result, verdict

vars == <<result, verdict>>

Init ==
    /\ result = [h \in Hart |-> "pending"]
    /\ verdict = "none"

Finish(h) ==
    /\ verdict = "none"
    /\ result[h] = "pending"
    /\ \E r \in {"ok", "failed"} : result' = [result EXCEPT ![h] = r]
    /\ UNCHANGED verdict

Pass ==
    /\ verdict = "none"
    /\ \A h \in Hart : result[h] = "ok"
    /\ verdict' = "pass"
    /\ UNCHANGED result

Fail ==
    /\ verdict = "none"
    /\ verdict' = "fail"
    /\ UNCHANGED result

Next == (\E h \in Hart : Finish(h)) \/ Pass \/ Fail

Spec == Init /\ [][Next]_vars

=============================================================================
