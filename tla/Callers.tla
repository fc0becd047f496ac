-------------------------------- MODULE Callers --------------------------------
(* The processes that have the memory store and the skill registry open:   *)
(* the resident host, `xenopus reflect`, and users of the two stores.      *)
CONSTANT Caller
===============================================================================
