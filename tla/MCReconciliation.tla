-------------------------- MODULE MCReconciliation --------------------------
(* Three accounts, three blocks and a cache of two headers for TLC.            *)
EXTENDS Reconciliation, TLC

CONSTANTS a1, a2, a3

Transfer(from, to, value, nonce, type, price, block) ==
  [from |-> from, to |-> to, value |-> value, nonce |-> nonce, type |-> type, gasLimit |-> 1,
   gasPrice |-> IF type = 0 THEN price ELSE Nil,
   maxFee |-> Nil, maxPriorityFee |-> IF type = 2 THEN price ELSE Nil, block |-> block]

\* a1 pays a2, a2 pays the coinbase a3, and a2 pays a3 again; a2 proves the first block.
ThreeBlocks == << Transfer(a1, a2, 2, 4, 0, 3, 1), Transfer(a2, a3, 1, 1, 2, 1, 2),
                  Transfer(a2, a3, 1, 2, 0, 0, 3) >>
ThreeHeaders == << [coinbase |-> a3, zkvm |-> a2], [coinbase |-> a3, zkvm |-> Nil],
                   [coinbase |-> Nil, zkvm |-> a3] >>

\* GetTransactionsForAccountInRange.
TransactionsOf == [a \in {a1, a2, a3} |-> SelectSeq(ThreeBlocks, LAMBDA tx : a \in {tx.from, tx.to})]

\* a1 cannot pay in full, a2 is held without identity, a3 is not held.
Table == (a1 :> [balance |-> 4, nonce |-> 7]) @@ (a2 :> [balance |-> 1, nonce |-> 0]) @@ (a3 :> NoAccount)
Identities == (a1 :> 7) @@ (a2 :> 0) @@ (a3 :> 9)
=============================================================================
