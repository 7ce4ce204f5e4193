---------------------------- MODULE AddressIndex ----------------------------
(***************************************************************************)
(* GenerateDepositAddress (btc.go, eth.go): the loop over the characters   *)
(* of the user id that computes the derivation index, the path printed     *)
(* from it and parsePath (hd.go), which reads it back, and what is kept    *)
(* for the address: its user in the registry of the replica and in the     *)
(* table deposit_addresses.                                                *)
(*                                                                         *)
(* The key of an index is a function of it, so the index stands for the    *)
(* address.  Requests of one chain on one replica are followed, one after  *)
(* the other.  A uint32 is a pair of halves, so that the product with 31   *)
(* stays small.                                                            *)
(***************************************************************************)
EXTENDS Integers, SequencesExt

CONSTANTS
    Id,         \* the user ids, as sequences of their digits
    MaxUsers    \* bound on the number of answers that are remembered

IdAssumption == Id \subseteq Seq(0..9) \ {<<>>}

VARIABLES
    user,       \* the user who asks for an address, or no digits
    id,         \* the characters of her id that the loop has added
    index,      \* the local variable index
    registry,   \* AddressRegistry.data: the user of an address
    table,      \* deposit_addresses: the user of an address
    (* history *)
    told        \* who was given which address

vars == <<user, id, index, registry, table, told>>

Half == 65536
Uint32 == [hi : 0 .. Half - 1, lo : 0 .. Half - 1]
Zero == [hi |-> 0, lo |-> 0]

\* The empty map and the empty table; f with user u at address i.
Nobody == [i \in {} |-> <<>>]
Put(f, i, u) == [j \in DOMAIN f \cup {i} |-> IF j = i THEN u ELSE f[j]]

\* n * m + c in uint32, for small m and c.
TimesPlus(n, m, c) ==
    LET lo == n.lo * m + c
    IN  [hi |-> (n.hi * m + lo \div Half) % Half, lo |-> lo % Half]

Init ==
    /\ user = <<>> /\ id = <<>> /\ index = Zero
    /\ registry = Nobody /\ table = Nobody
    /\ told = {}

\* Mutant of NextIndex: too small a factor mixes the characters.
NextIndexMixed(d) == TimesPlus(index, 7, 48 + d)

\* index = index*31 + uint32(c), for the character of digit d.
NextIndex(d) == TimesPlus(index, 31, 48 + d)

\* A request arrives.
Ask ==
    /\ user = <<>> /\ user' \in Id
    /\ UNCHANGED <<id, index, registry, table, told>>

\* One round of the loop.
NextChar ==
    /\ Len(id) < Len(user)
    /\ LET d == user[Len(id) + 1]
       IN  id' = Append(id, d) /\ index' = NextIndex(d)
    /\ UNCHANGED <<user, registry, table, told>>

\* GenerateDepositAddress returns.
Return == user' = <<>> /\ id' = <<>> /\ index' = Zero

\* Register overwrites the user of the address.
Register == registry' = Put(registry, index, user)

\* The insert does nothing when the address has a row, or fails.
CreateDepositAddress ==
    \/ index \notin DOMAIN table /\ table' = Put(table, index, user)
    \/ UNCHANGED table

\* The address is returned whatever became of the insert.
Answer ==
    /\ user # <<>> /\ id = user
    /\ told' = told \cup {[user |-> user, index |-> index]}
    /\ Cardinality(told') <= MaxUsers
    /\ Register /\ CreateDepositAddress
    /\ Return

\* DerivePath returns an error, and so does the handler.
DeriveFails ==
    /\ user # <<>> /\ id = user
    /\ Return
    /\ UNCHANGED <<registry, table, told>>

\* The replica starts again: main fills the registry from the table, or logs
\* that it cannot read it.
Restart ==
    /\ registry' \in {table, Nobody}
    /\ Return
    /\ UNCHANGED <<table, told>>

Next == Ask \/ NextChar \/ Answer \/ DeriveFails \/ Restart

Spec == Init /\ [][Next]_vars

-----------------------------------------------------------------------------
(* Paths.  A digit of a path is itself; the other characters are named.    *)

Quote == 10
Slash == 11

\* A child number: a uint32 whose highest bit asks for a hardened key.
Hardened(n) == [n EXCEPT !.hi = (@ % (Half \div 2)) + Half \div 2]
Small(n) == [hi |-> 0, lo |-> n]

\* The value of a number that fits an integer of the model checker.
Number(n) == n.hi * Half + n.lo

Decimal[n \in Nat] ==
    IF n < 10 THEN <<n>> ELSE Append(Decimal[n \div 10], n % 10)

\* m/44'/0'/0'/0/index of a BTC address, without "m/".
PathBTC(n) ==
    <<4, 4, Quote, Slash, 0, Quote, Slash, 0, Quote, Slash, 0, Slash>> \o Decimal[Number(n)]

\* m/44'/60'/0'/0/index of an ETH address.
PathETH(n) ==
    <<4, 4, Quote, Slash, 6, 0, Quote, Slash, 0, Quote, Slash, 0, Slash>> \o Decimal[Number(n)]

\* One round of the loop of parsePath.
ParseChar(acc, c) ==
    IF c = Slash THEN [segments |-> Append(acc.segments, acc.current), current |-> Zero]
    ELSE [acc EXCEPT !.current =
            IF c = Quote THEN Hardened(@) ELSE TimesPlus(@, 10, c)]

ParsePath(path) ==
    LET end == FoldLeft(ParseChar, [segments |-> <<>>, current |-> Zero], path)
    IN  Append(end.segments, end.current)

-----------------------------------------------------------------------------
(* Properties.                                                             *)

\* The users to whom an address belongs: they were given it, or deposits to it
\* are credited to them.
Owners(i) ==
    {g.user : g \in {h \in told : h.index = i}}
        \cup {f[i] : f \in {g \in {registry, table} : i \in DOMAIN g}}

Given == {g.index : g \in told}

\* Only an id of more than six digits can share an address with another one:
\* below, the index does not wrap around, and neither Register nor the insert
\* hands the address of one user to another (btc.go:30-32, 61-72).
SharedOnlyWithLongId ==
    \A i \in Given : \A u, v \in Owners(i) : u = v \/ Len(u) > 6 \/ Len(v) > 6

\* The path printed for the index of an address is read back as that child, with
\* three hardened levels above it (hd.go:63-86).
PathIsReadBack ==
    LET above(coin) == <<Hardened(Small(44)), Hardened(Small(coin)), Hardened(Zero), Zero>>
    IN  \A i \in Given :
            /\ ParsePath(PathBTC(i)) = Append(above(0), i)
            /\ ParsePath(PathETH(i)) = Append(above(60), i)
=============================================================================
