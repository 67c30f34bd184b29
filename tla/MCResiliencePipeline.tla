------------------------- MODULE MCResiliencePipeline -------------------------
(* Two runs of one scope, or one run for each of two targets, whose pages  *)
(* fit or exceed max_pages.                                                *)
EXTENDS ResiliencePipeline

CONSTANTS w1, t1, t2, r1, r2

OnePage == [s \in Scope |-> 1]

TwoPages == [s \in Scope |-> 2]

\* One target has more pages than max_pages = 1, the other has none.
TooManyOrNone == [s \in Scope |-> IF s.target = t1 THEN 2 ELSE 0]

OneScope == [r \in Run |-> [window |-> w1, target |-> t1]]

OneTargetEach == [r \in Run |-> [window |-> w1, target |-> IF r = r1 THEN t1 ELSE t2]]

=============================================================================
