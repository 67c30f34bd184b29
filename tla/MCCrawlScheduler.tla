--------------------------- MODULE MCCrawlScheduler ---------------------------
(* Small instances of CrawlScheduler for TLC.                              *)
EXTENDS CrawlScheduler, TLC

CONSTANTS p1, p2, d1

OnePair == {p1}
TwoPairs == {p1, p2}
OneDomain == [p \in Pair |-> d1]
LimitOne == [d \in Domain |-> 1]
OneHour == [o \in Outcome \cup {"lease_expired"} |-> 1]
(* Retries of a failed or interrupted job fall due within the hour. *)
RetryAtOnce == [o \in Outcome \cup {"lease_expired"} |->
                   IF o \in {"failed", "interrupted"} THEN 0 ELSE 1]
NoJitter == [p \in Pair |-> 0]
RecheckInOneHour == [a \in Applicability |-> 1]
Hours == 0 .. MaxHour

=============================================================================
