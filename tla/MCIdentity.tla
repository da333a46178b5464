----------------------------- MODULE MCIdentity -----------------------------
(* Small instances of Identity for TLC. *)
EXTENDS Identity, TLC

CONSTANTS p1, p2, p3, k0, k1, k2, o1, o2

TwoProcs   == {p1, p2}
ThreeProcs == {p1, p2, p3}
AllKeys    == {k0, k1, k2}
Moved      == {k0}
BothFiles  == {o1, o2}

\* Processes are alike, and so are the keys generated here.
Alike == Permutations(ThreeProcs) \cup Permutations({k1, k2})
=============================================================================
