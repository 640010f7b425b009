---------------------------- MODULE MCFileStore ----------------------------
(***************************************************************************)
(* Small instance of FileStore.                                            *)
(***************************************************************************)
EXTENDS FileStore
============================================================================
