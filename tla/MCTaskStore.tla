------------------------------ MODULE MCTaskStore ------------------------------
(* TaskStore on small instances; the configurations give the constants.    *)
EXTENDS TaskStore

CONSTANTS s1, s2   \* surfaces

\* What src/ and its tests ask transition() for.
AllRequests == TaskState \ {"QUEUED"}

\* A short list for several surfaces: start or resume, cancel, and FAILED for the
\* code that runs the task.
FewRequests == {"RUNNING", "CANCELLED", "FAILED"}

AllCalls == {"create", "transition", "retry", "kill", "recover"}

\* Every surface is a CLI.
OffersAll == [s \in Surface |-> AllCalls]

\* s1 runs the batch calls, s2 works on single tasks.
OffersSplit == [s \in Surface |-> IF s = s1 THEN {"kill", "recover"}
                                  ELSE {"create", "transition", "retry"}]
===============================================================================
