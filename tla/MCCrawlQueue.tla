----------------------------- MODULE MCCrawlQueue -----------------------------
(* Small instances of CrawlQueue for TLC.                                  *)
EXTENDS CrawlQueue, TLC

CONSTANTS p1, p2, d1

OnePair == {p1}
TwoPairs == {p1, p2}
OneDomain == [p \in Pair |-> d1]
LimitOne == [d \in Domain |-> 1]
(* Only a failed attempt waits a tick for its retry. *)
FailureWaits == [o \in Outcome \cup {"lease_expired"} |-> IF o = "failed" THEN 1 ELSE 0]
OneTick == [o \in Outcome \cup {"lease_expired"} |-> 1]

\* Workers and pairs are told apart by nothing: one domain, one limit, one delay.
Interchangeable == Permutations(Worker) \cup Permutations(Pair)

=============================================================================
