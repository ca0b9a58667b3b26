----------------------------- MODULE MCDocSync ------------------------------
(***************************************************************************)
(* Small instances of DocSync.  The changes: a1 starts a document, a2 and  *)
(* b2 both continue it (two peers that edit at once), z1 starts an         *)
(* unrelated document.  The payloads make every relation to a stored       *)
(* document occur: from scratch, incremental, pending, disjoint, corrupt.  *)
(***************************************************************************)
EXTENDS DocSync, TLC

MCChanges == {"a1", "a2", "b2", "z1"}
MCAuthor == "a1" :> "A" @@ "a2" :> "A" @@ "b2" :> "B" @@ "z1" :> "Z"
MCDeps == "a1" :> {} @@ "a2" :> {"a1"} @@ "b2" :> {"a1"} @@ "z1" :> {}

MCPayloads == {{"a1"}, {"a2"}, {"b2"}, {"z1"}, Corrupt}
MCOnePayload == {{"a1"}}

\* Rows of an old database: sound, with a version vector that does not
\* decode, with a snapshot that does not import.
MCLegacyRows ==
    {[snapshot |-> {"a1"}, vv |-> {"a1"}, incarnation |-> 1],
     [snapshot |-> {"a1"}, vv |-> Corrupt, incarnation |-> 1],
     [snapshot |-> Corrupt, vv |-> {"a1"}, incarnation |-> 1]}
MCLegacyTombs ==
    {[hash |-> NoHash, incarnation |-> 1],
     [hash |-> [text |-> {"z1"}], incarnation |-> 1]}

ConnSymmetry == Permutations(Conns)
=============================================================================
