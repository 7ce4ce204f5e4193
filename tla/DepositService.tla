--------------------------- MODULE DepositService ---------------------------
(***************************************************************************)
(* What both chains share on the way from a block to the deposits table:   *)
(* the address registry of each replica (wallet/types/types.go, filled by  *)
(* GenerateDepositAddress and at start), the bounded channel a watcher     *)
(* offers records to, consumeDeposits of cmd/wallet-service/main.go with   *)
(* its retries and dead letters, and the life of a replica.  BtcWatcher    *)
(* and EthWatcher extend this module with their scan loops.                *)
(***************************************************************************)
EXTENDS Chain, FiniteSets

CONSTANTS
    Node,           \* replicas of wallet-service
    Capacity,       \* capacity of the deposits channel (100 in the code)
    MaxRetries,     \* attempts to insert a record (3 in the code)
    None

ASSUME QueueAssumption == Capacity \in Nat \ {0} /\ MaxRetries \in Nat \ {0}

ASSUME NoneAssumption == None \notin Record

VARIABLES
    (* addresses; a payment stands for the address it goes to *)
    issued,         \* addresses a user was given
    saved,          \* rows of deposit_addresses
    known,          \* known[n]: the registry of replica n
    (* the channel and its consumer *)
    queue,          \* queue[n]: records in the channel of n
    hand,           \* hand[n]: the record consumeDeposits works on, or None
    tries,          \* tries[n]: failed attempts to insert it
    deposits,       \* rows of deposits
    deadLetters,    \* rows of dead_letters
    up,             \* replicas that run
    (* history *)
    offered,        \* records a watcher ever put into select ... default
    lost            \* records dropped, cut off by a crash, or refused by
                    \* dead_letters

addressVars == <<issued, saved, known>>
queueVars == <<queue, hand, tries>>
tableVars == <<deposits, deadLetters>>
serviceVars == <<addressVars, queueVars, tableVars, up, offered, lost>>

ServiceTypeOK ==
    /\ issued \subseteq Payment /\ saved \subseteq Payment
    /\ known \in [Node -> SUBSET Payment]
    /\ queue \in [Node -> Seq(Record)] /\ \A n \in Node : Len(queue[n]) <= Capacity
    /\ hand \in [Node -> Record \cup {None}]
    /\ tries \in [Node -> 0..MaxRetries]
    /\ deposits \subseteq Record /\ deadLetters \subseteq Record
    /\ up \subseteq Node
    /\ offered \subseteq Record /\ lost \subseteq Record

ServiceInit ==
    /\ issued = {} /\ saved = {}
    /\ known = [n \in Node |-> {}]
    /\ queue = [n \in Node |-> <<>>]
    /\ hand = [n \in Node |-> None]
    /\ tries = [n \in Node |-> 0]
    /\ deposits = {} /\ deadLetters = {}
    /\ up = {}
    /\ offered = {} /\ lost = {}

-----------------------------------------------------------------------------
(* Addresses.                                                              *)

\* GenerateDepositAddress on n, for a new address or for one issued before:
\* Register, then the insert (ON CONFLICT DO NOTHING), whose error is only
\* logged; the user gets the address in any case.
GenerateAddress(n, p) ==
    /\ n \in up
    /\ known' = [known EXCEPT ![n] = @ \cup {p}]
    /\ saved' \in {saved, saved \cup {p}}
    /\ issued' = issued \cup {p}
    /\ UNCHANGED <<queueVars, tableVars, up, offered, lost>>

-----------------------------------------------------------------------------
(* The channel.                                                            *)

\* select { case w.deposits <- record: default: drop }, when the address is
\* in the registry.
Offer(n, p, h) ==
    LET r == [pay |-> p, height |-> h] IN
    /\ IF p \notin known[n]
       THEN UNCHANGED <<queue, offered, lost>>
       ELSE /\ offered' = offered \cup {r}
            /\ IF Len(queue[n]) < Capacity
               THEN queue' = [queue EXCEPT ![n] = Append(@, r)] /\ UNCHANGED lost
               ELSE lost' = lost \cup {r} /\ UNCHANGED queue
    /\ UNCHANGED <<addressVars, hand, tries, tableVars, up>>

-----------------------------------------------------------------------------
(* consumeDeposits.                                                        *)

\* Mutant of Take: the next record is taken before the last one is dealt with.
TakeEarly(n) ==
    /\ queue[n] # <<>>
    /\ hand' = [hand EXCEPT ![n] = Head(queue[n])]
    /\ queue' = [queue EXCEPT ![n] = Tail(queue[n])]
    /\ tries' = [tries EXCEPT ![n] = 0]
    /\ UNCHANGED <<addressVars, tableVars, up, offered, lost>>

\* for deposit := range ch
Take(n) ==
    /\ hand[n] = None /\ queue[n] # <<>>
    /\ hand' = [hand EXCEPT ![n] = Head(queue[n])]
    /\ queue' = [queue EXCEPT ![n] = Tail(queue[n])]
    /\ tries' = [tries EXCEPT ![n] = 0]
    /\ UNCHANGED <<addressVars, tableVars, up, offered, lost>>

\* deposits.tx_id is UNIQUE.
Conflicts(r) == \E d \in deposits : TxOf[d.pay] = TxOf[r.pay]

Trying(n) == hand[n] # None /\ tries[n] < MaxRetries

\* Mutant of Stored: no UNIQUE on deposits.tx_id.
StoredAgain(n) ==
    /\ Trying(n)
    /\ deposits' = deposits \cup {hand[n]}
    /\ hand' = [hand EXCEPT ![n] = None]
    /\ UNCHANGED <<addressVars, queue, tries, deadLetters, up, offered, lost>>

Stored(n) ==
    /\ Trying(n)
    /\ ~Conflicts(hand[n])
    /\ deposits' = deposits \cup {hand[n]}
    /\ hand' = [hand EXCEPT ![n] = None]
    /\ UNCHANGED <<addressVars, queue, tries, deadLetters, up, offered, lost>>

\* The insert fails: a conflict, no database, or a row whose answer is lost.
StoreFails(n) ==
    /\ Trying(n)
    /\ tries' = [tries EXCEPT ![n] = @ + 1]
    /\ \/ UNCHANGED deposits
       \/ ~Conflicts(hand[n]) /\ deposits' = deposits \cup {hand[n]}
    /\ UNCHANGED <<addressVars, queue, hand, deadLetters, up, offered, lost>>

\* Mutant of GiveUp: the code before dead letters, which only logged.
GiveUpSilently(n) ==
    /\ hand[n] # None /\ tries[n] = MaxRetries
    /\ hand' = [hand EXCEPT ![n] = None]
    /\ UNCHANGED <<addressVars, queue, tries, tableVars, up, offered, lost>>

\* After the last attempt: CreateDeadLetter, whose error is only logged.
GiveUp(n) ==
    /\ hand[n] # None /\ tries[n] = MaxRetries
    /\ \/ deadLetters' = deadLetters \cup {hand[n]} /\ UNCHANGED lost
       \/ lost' = lost \cup {hand[n]} /\ UNCHANGED deadLetters
    /\ hand' = [hand EXCEPT ![n] = None]
    /\ UNCHANGED <<addressVars, queue, tries, deposits, up, offered>>

Consume(n) == Take(n) \/ Stored(n) \/ StoreFails(n) \/ GiveUp(n)

-----------------------------------------------------------------------------
(* The replica.                                                            *)

\* main: the registry is restored from the database, or stays empty when
\* ListAllDepositAddresses fails (a warning).
Boot(n) ==
    /\ n \notin up
    /\ up' = up \cup {n}
    /\ \E found \in {saved, {}} : known' = [known EXCEPT ![n] = found]
    /\ UNCHANGED <<issued, saved, queueVars, tableVars, offered, lost>>

InFlight(n) == {queue[n][i] : i \in DOMAIN queue[n]} \cup ({hand[n]} \ {None})

\* n stops or dies with what its channel and its consumer hold.
Stop(n) ==
    /\ n \in up
    /\ up' = up \ {n}
    /\ lost' = lost \cup InFlight(n)
    /\ known' = [known EXCEPT ![n] = {}]
    /\ queue' = [queue EXCEPT ![n] = <<>>]
    /\ hand' = [hand EXCEPT ![n] = None]
    /\ tries' = [tries EXCEPT ![n] = 0]
    /\ UNCHANGED <<issued, saved, tableVars, offered>>

-----------------------------------------------------------------------------
(* Properties.                                                             *)

\* A record that a watcher offered is in the table, among the dead letters,
\* still on its way, or one of those the code is known to drop: full channel,
\* crash, dead_letters out of reach.  A second output of a stored transaction
\* does not vanish behind the UNIQUE tx_id.
OfferedIsAccountedFor ==
    \A r \in offered :
        \/ \E d \in deposits : d.pay = r.pay
        \/ r \in deadLetters
        \/ \E n \in up : r \in InFlight(n)
        \/ r \in lost

\* The deposits table is the ledger of DepositLedger.
Ledger == INSTANCE DepositLedger WITH
    tip <- Tip, rows <- deposits, confirmed <- {},
    Required <- 0

ImplementsLedger == Ledger!LedgerSpec
=============================================================================
