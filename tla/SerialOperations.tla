--------------------------- MODULE SerialOperations ---------------------------
(***************************************************************************)
(* What the commercial plane promises its callers, without locks, records  *)
(* or crashes: operations run one after the other, an operation that ended *)
(* never runs again, and no operation enters one of its stages twice.      *)
(***************************************************************************)
EXTENDS Sequences, Naturals

CONSTANTS Operation, Stage, None

VARIABLES
    current,  \* the operation that is under way
    spent,    \* the operations that ended, completed or aborted
    log       \* the protected stages that were entered, in order

vars == <<current, spent, log>>

Init == current = None /\ spent = {} /\ log = <<>>

Enter(o, s) ==
    /\ current \in {None, o}
    /\ o \notin spent
    /\ \A i \in DOMAIN log : log[i] # <<o, s>>
    /\ current' = o
    /\ log' = Append(log, <<o, s>>)
    /\ UNCHANGED spent

End ==
    /\ current # None
    /\ spent' = spent \cup {current}
    /\ current' = None
    /\ UNCHANGED log

Next == (\E o \in Operation, s \in Stage : Enter(o, s)) \/ End

Spec == Init /\ [][Next]_vars

=============================================================================
