------------------------ MODULE MCContactDiscoveryQueue ------------------------
(* Small instances of ContactDiscoveryQueue for TLC.                       *)
EXTENDS ContactDiscoveryQueue

CONSTANTS s1, j1, j2

Jobs == {j1, j2}

OneRetry == [j \in Job |-> IF j = j1 THEN 2 ELSE 1]

OneSite == [j \in Job |-> s1]

=============================================================================
