---------------------------- MODULE MCBlobUpload ----------------------------
(***************************************************************************)
(* Small instances of BlobUpload: a content of two units, sent in parts or *)
(* at once, right or wrong (the wrong one with its last unit right).       *)
(***************************************************************************)
EXTENDS BlobUpload, TLC

MCLength == [h \in Hashes |-> 2]
MCSegments == {<<TRUE>>, <<FALSE, TRUE>>}
MCGoodSegments == {<<TRUE>>, <<TRUE, TRUE>>}

ConnSymmetry == Permutations(Conns)
BothSymmetry == Permutations(Conns) \cup Permutations(Uploads)
=============================================================================
