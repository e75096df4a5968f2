------------------------------ MODULE MCAndroid ------------------------------
EXTENDS AndroidVpn, TLC
CONSTANTS s1, s2, j1, j2
MCServices == {s1, s2}
MCJobs == {j1, j2}
Symmetry == Permutations(MCServices) \cup Permutations(MCJobs)
=============================================================================
