--------------------------- MODULE ExecutionHistory ---------------------------
(***************************************************************************)
(* What the persisted history promises: every execution is written down    *)
(* when it starts, its row is settled once, by its end or by the recovery  *)
(* from a crash, and a settled row never changes again until it is         *)
(* forgotten.                                                              *)
(***************************************************************************)
EXTENDS Naturals

CONSTANT Ids

VARIABLE status         \* status of the row with each id, "absent" before

Settled == {"success", "failed", "cancelled"}

Init == status = [i \in Ids |-> "absent"]

\* An execution starts; ids are given out in order.
Start ==
    \E i \in Ids :
        /\ \A k \in Ids : status[k] = "absent" <=> k >= i
        /\ status' = [status EXCEPT ![i] = "running"]

End(i) ==
    /\ status[i] = "running"
    /\ \E s \in Settled : status' = [status EXCEPT ![i] = s]

\* The process died: every execution it left behind has failed.
Recover ==
    status' = [i \in Ids |-> IF status[i] = "running" THEN "failed" ELSE status[i]]

\* Pruned, or the job was unregistered.
Forget ==
    \E S \in SUBSET {i \in Ids : status[i] # "absent"} :
        status' = [i \in Ids |-> IF i \in S THEN "deleted" ELSE status[i]]

Next == Start \/ Recover \/ Forget \/ \E i \in Ids : End(i)

Spec == Init /\ [][Next]_status
=============================================================================
