----------------------------- MODULE MCSession ------------------------------
(***************************************************************************)
(* Two connections of one vault on one document, and HTTP posts of blob    *)
(* paths in that vault and in another.                                     *)
(***************************************************************************)
EXTENDS Session, TLC

CONSTANTS c1, c2

MCVaultOf == [c \in Conns |-> "v1"]
MCSends == c1 :> {"write", "big"} @@ c2 :> {"write", "start", "other"}
=============================================================================
