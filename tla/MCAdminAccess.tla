--------------------------- MODULE MCAdminAccess ---------------------------
(* Instances of AdminAccess for TLC.                                       *)
EXTENDS AdminAccess, TLC

Symmetry ==
    Permutations(Passkey) \cup Permutations(Device) \cup Permutations(Session)
    \cup Permutations(Req) \cup Permutations(Authentication)
    \cup Permutations(Registration) \cup Permutations(Recovery)
=============================================================================
