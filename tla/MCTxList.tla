------------------------------ MODULE MCTxList ------------------------------
EXTENDS TxList

Tx(nonce, price, cost, gas) ==
  [nonce |-> nonce, price |-> price, cost |-> cost, gas |-> gas]

MCTxs == {Tx(1, 1, 1, 1), Tx(1, 2, 2, 1), Tx(2, 1, 2, 1), Tx(2, 2, 1, 2), Tx(3, 1, 1, 1), Tx(4, 2, 3, 1)}
=============================================================================
