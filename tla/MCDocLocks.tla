----------------------------- MODULE MCDocLocks -----------------------------
(* Small instance of DocLocks: one task more than keys, so that two tasks  *)
(* meet on a key while a third evicts.                                     *)
EXTENDS DocLocks
=============================================================================
