----------------------------- MODULE MCDarksend -----------------------------
(* Two clients make a session; a third one may come in between.  All three  *)
(* are alike, so let them ask for the first time in a given order.          *)
EXTENDS Darksend

CONSTANTS c1, c2, c3

MCClients == {c1, c2, c3}
InOrder ==
    (c2 \in started => c1 \in started) /\ (c3 \in started => c2 \in started)

\* Bound: nothing fails as long as a client is alone with the alphanode.
FailsInCompany == faults > 0 => c2 \in started

=============================================================================
