---------------------------- MODULE BatchImageJobs ----------------------------
(***************************************************************************)
(* The life cycle of a batch image job: its statuses and the transitions   *)
(* the repository accepts.                                                 *)
(***************************************************************************)
CONSTANT Jobs   \* batch ids

Terminal == {"completed", "failed", "cancelled", "output_deleted"}
Unsubmitted == {"created", "uploading"}
Live == {"submitted", "running", "indexing", "settling"}

\* Mutant: "any status may fail" is asked before the terminal test.
FailAnything(from, to) ==
    \/ to = "failed"
    \/ from = "created" /\ to \in {"uploading", "submitted", "cancelled"}
    \/ from = "uploading" /\ to \in {"submitted", "cancelled"}
    \/ from \in {"submitted", "running"} /\ to \in {"indexing", "cancelled", "running"}
    \/ from = "indexing" /\ to = "settling"
    \/ from = "settling" /\ to = "completed"

CanTransition(from, to) ==
    \/ from \notin Terminal /\ to = "failed"
    \/ from = "created" /\ to \in {"uploading", "submitted", "cancelled"}
    \/ from = "uploading" /\ to \in {"submitted", "cancelled"}
    \/ from \in {"submitted", "running"} /\ to \in {"indexing", "cancelled", "running"}
    \/ from = "indexing" /\ to = "settling"
    \/ from = "settling" /\ to = "completed"
    \/ from \in Terminal \ {"output_deleted"} /\ to = "output_deleted"
=============================================================================
