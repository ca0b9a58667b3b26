---------------------------- MODULE MCRetention -----------------------------
(***************************************************************************)
(* A document, two devices of its vault and one of another vault.          *)
(***************************************************************************)
EXTENDS Retention, TLC

MCDocVault == "x1" :> "v1"
MCPeerVault == "p1" :> "v1" @@ "p2" :> "v1" @@ "p3" :> "v2"
=============================================================================
