-------------------------------- MODULE Chain --------------------------------
(***************************************************************************)
(* The node of one chain (bitcoind or geth), as the watchers see it        *)
(* through their RPC calls: a tip that grows, blocks that a reorganisation *)
(* replaces, and the payments in them.  External to src/: modelled from    *)
(* what internal/wallet/btc/watcher.go and eth/watcher.go call.            *)
(***************************************************************************)
EXTENDS Integers, Sequences

CONSTANTS
    Payment,        \* outputs (BTC) or transactions (ETH) to deposit addresses
    TxOf,           \* TxOf[p]: the transaction payment p belongs to
    MaxHeight,      \* bound on the height of the chain
    MaxReorgs,      \* bound on the number of reorganisations
    MaxDepth        \* how many blocks a reorganisation replaces at most

ASSUME ChainAssumption == MaxHeight \in Nat /\ MaxReorgs \in Nat /\ MaxDepth \in Nat

VARIABLES
    blocks,     \* blocks[h]: which version of block h is canonical: the number
                \* of reorganisations before it was mined
    reorgs,     \* reorganisations so far
    place,      \* place[p]: height of the canonical block with p; 0: in none
    mined       \* history: records [pay, height] that ever were canonical

chainVars == <<blocks, reorgs, place, mined>>

\* What a watcher learns of a payment (types.DepositRecord).
Record == [pay : Payment, height : 1..MaxHeight]

Tip == Len(blocks)

\* The hash of the canonical block at height h; a block that is replaced is
\* replaced together with all its successors, so the hash fixes the parent.
Hash(h) == <<h, IF h = 0 THEN 0 ELSE blocks[h]>>
Hashes == (0..MaxHeight) \X (0..MaxReorgs)

ChainTypeOK ==
    /\ blocks \in Seq(0..MaxReorgs) /\ Len(blocks) <= MaxHeight
    /\ reorgs \in 0..MaxReorgs
    /\ place \in [Payment -> 0..MaxHeight]
    /\ mined \subseteq Record

ChainInit ==
    /\ blocks = <<>>
    /\ reorgs = 0
    /\ place = [p \in Payment |-> 0]
    /\ mined = {}

Canonical(where) == {r \in Record : where[r.pay] = r.height}

Together(p, q) == TxOf[p] = TxOf[q]

\* A block with the payments P, whole transactions, is mined on top.
Mine(P) ==
    /\ Tip < MaxHeight
    /\ \A p \in P : place[p] = 0 /\ \A q \in Payment : Together(p, q) => q \in P
    /\ blocks' = Append(blocks, reorgs)
    /\ place' = [p \in Payment |-> IF p \in P THEN Tip + 1 ELSE place[p]]
    /\ mined' = mined \cup Canonical(place')
    /\ UNCHANGED reorgs

\* The blocks from height h on are replaced; their payments are mined again
\* somewhere in the new blocks, or drop out for now.
Reorg(h) ==
    /\ reorgs < MaxReorgs
    /\ h \in 1..Tip /\ Tip - h < MaxDepth
    /\ reorgs' = reorgs + 1
    /\ blocks' = [i \in 1..Tip |-> IF i >= h THEN reorgs' ELSE blocks[i]]
    /\ \E again \in [Payment -> {0} \cup h..Tip] :
         /\ \A p, q \in Payment : Together(p, q) => again[p] = again[q]
         /\ place' = [p \in Payment |-> IF place[p] >= h THEN again[p] ELSE place[p]]
    /\ mined' = mined \cup Canonical(place')
=============================================================================
