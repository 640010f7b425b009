----------------------------- MODULE MCHashMap -----------------------------
(***************************************************************************)
(* Small instance of HashMap: keys that collide in a table of two slots  . *)
(***************************************************************************)
EXTENDS HashMap
============================================================================
