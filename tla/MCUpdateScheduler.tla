------------------------- MODULE MCUpdateScheduler -------------------------
(* UpdateScheduler for TLC: one source, or a source and its consumer.       *)
EXTENDS UpdateScheduler, TLC

Chain == <<"ncs_competency", "ncs_qualification">>
ChainDep == [s \in {"ncs_competency", "ncs_qualification"} |->
                IF s = "ncs_competency" THEN None ELSE "ncs_competency"]

Single == <<"job_alio">>
SingleDep == [s \in {"job_alio"} |-> None]
=============================================================================
