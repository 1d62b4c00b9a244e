-------------------------------- MODULE Task --------------------------------
(***************************************************************************)
(* What a caller of bmalloc's AsyncTask may rely on (AsyncTask.h): after   *)
(* run() the function starts once more, never twice at the same time, and  *)
(* requests made before it starts are served by one start.                 *)
(***************************************************************************)
VARIABLES requested,  \* a run() was made since the function last started
          executing   \* the function is being executed

vars == <<requested, executing>>

Init == requested = FALSE /\ executing = FALSE

Request == requested' = TRUE /\ UNCHANGED executing

Start ==
    /\ requested /\ ~executing
    /\ requested' = FALSE
    /\ executing' = TRUE

Finish ==
    /\ executing
    /\ executing' = FALSE
    /\ UNCHANGED requested

Next == Request \/ Start \/ Finish

Safety == Init /\ [][Next]_vars

\* A request is served, and a served request is not left unfinished.
Spec == Safety /\ WF_vars(Start) /\ WF_vars(Finish)
=============================================================================
