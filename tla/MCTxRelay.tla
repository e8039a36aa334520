------------------------------ MODULE MCTxRelay ------------------------------
(* Transactions for TLC: t1 and u1 spend the confirmed g, t2 spends t1 and h,  *)
(* which is confirmed too, t3 spends t2, and u2 spends u1.                     *)
EXTENDS TxRelay

CONSTANTS g, h, t1, t2, t3, u1, u2

MCInputs == [x \in Txs |->
    CASE x \in {t1, u1} -> {g}
      [] x = t2 -> {t1, h} \cap Txs
      [] x = t3 -> {t2}
      [] x = u2 -> {u1}
      [] OTHER -> {}]

=============================================================================
