------------------------------ MODULE MCAccess ------------------------------
EXTENDS Access, TLC

Symmetry == Permutations(Requests) \cup Permutations(ApiKeys) \cup Permutations(Invites)
                \cup Permutations(Peers) \cup Permutations(Names)
=============================================================================
