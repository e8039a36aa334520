----------------------------- MODULE MCPayments -----------------------------
(* Two alphanodes: a1, the donor, is further at even heights, and at odd    *)
(* ones they are equally far.                                               *)
EXTENDS Payments

CONSTANTS a1, a2

MCScore == [h \in 1..(MaxHeight + Ahead) |-> [a \in Alphanodes |->
    IF a = a1 THEN 1 ELSE h % 2]]

=============================================================================
