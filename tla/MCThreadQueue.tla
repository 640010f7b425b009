--------------------------- MODULE MCThreadQueue ---------------------------
(***************************************************************************)
(* Small instance of ThreadQueue: blocking and polling getters on one      *)
(* queue.                                                                  *)
(***************************************************************************)
EXTENDS ThreadQueue
============================================================================
