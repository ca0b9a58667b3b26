----------------------------- MODULE MCBlobPaths -----------------------------
(***************************************************************************)
(* A small instance of BlobPaths: two paths, posts that tie in generation, *)
(* peer or hash, repeat each other, delete, or name an unsanitized SVG.    *)
(***************************************************************************)
EXTENDS BlobPaths, TLC

Post(p, g, s, h, w) == [path |-> p, generation |-> g, state |-> s, hash |-> h, peer |-> w]

CONSTANTS p1, p2

MCBodies ==
    {Post(p1, 1, "live", 1, 1), Post(p1, 1, "live", 1, 2), Post(p1, 1, "live", 2, 1),
     Post(p1, 2, "deleted", 0, 1), Post(p1, 2, "live", 3, 1),
     Post(p2, 1, "live", 3, 1), Post(p2, 2, "deleted", 1, 2)}

ConnSymmetry == Permutations(Conns)
=============================================================================
