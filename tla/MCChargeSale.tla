---------------------------- MODULE MCChargeSale ----------------------------
\* Instances of ChargeSale for TLC: the adapters of the repository and the
\* adapter the contract in providers/contracts.py allows.
EXTENDS ChargeSale, TLC

CONSTANTS s1, s2, w1, w2, c1, c2

OneSale == {s1}
TwoWorkers == {w1, w2}
OneChecker == {c1}
TwoCheckers == {c1, c2}

Profile(canCheck, needsRef, guardsSend, refEarly, truthful) ==
    [canCheck |-> canCheck, needsRef |-> needsRef, guardsSend |-> guardsSend,
     refEarly |-> refEarly, truthful |-> truthful]

\* Sky checks a charge by its task id and wraps every exception of the send.
SkyAdapter == Profile(TRUE, TRUE, TRUE, FALSE, TRUE)
\* Layan cannot check, and lets unlisted exceptions of the send escape.
LayanAdapter == Profile(FALSE, TRUE, FALSE, FALSE, TRUE)
\* The most an adapter that keeps the contract may do.
ContractAdapter == Profile(TRUE, FALSE, TRUE, TRUE, TRUE)
\* An adapter that breaks the contract in every way.
AnyAdapter == Profile(TRUE, FALSE, FALSE, TRUE, FALSE)

Symmetry == Permutations(Sale) \cup Permutations(Worker) \cup Permutations(Checker)
=============================================================================
