------------------------------- MODULE Amounts -------------------------------
(***************************************************************************)
(* The arithmetic of BTC withdrawals (api/wallet.go): rows and sums are    *)
(* exact decimals, NUMERIC(20,8); the handler computes and compares in     *)
(* float64, writes with "%.8f" and pays what it reads back.                *)
(*                                                                         *)
(* One user withdraws, one request after the other, each reviewed before   *)
(* the next: what interleaving adds is in Withdrawals.  A decimal is a     *)
(* number of units, Scale of them in a coin.  A float is the number of     *)
(* Ulps it holds, which has at most Precision significant bits.            *)
(***************************************************************************)
EXTENDS Integers

CONSTANTS
    Precision,      \* bits of a float: 53 in the code
    Scale,          \* units in a coin: 10^8 in the code
    Finer,          \* what clients write has units / Finer
    Exponent,       \* an Ulp is a coin / 2^Exponent
    MaxUnits,       \* bound: what is deposited in a behaviour, in units
    Single,         \* maxSingleBTC, in units
    DailyLimit      \* btc_daily of the level, in units

\* The n-th power of two.
TwoTo[n \in Nat] == IF n = 0 THEN 1 ELSE 2 * TwoTo[n - 1]

\* A float is a number below Mantissa times its last bit; One is a coin in Ulps.
Mantissa == TwoTo[Precision]
One == TwoTo[Exponent]

AmountsAssumption ==
    /\ Precision \in Nat \ {0} /\ Scale \in Nat \ {0} /\ Finer \in Nat \ {0}
    /\ Exponent \in Nat \ {0} /\ MaxUnits \in Nat
    /\ Single \in Nat /\ DailyLimit \in Nat

\* The 21 million coins there are have 2^51 units.
PrecisionAssumption == Mantissa > 4 * MaxUnits

\* The program starts with limits of 2 to 200 coins (000001_init.up.sql:125-128); one
\* from 15 million coins on could be passed by a unit.
LimitAssumption == DailyLimit < MaxUnits => Mantissa > 6 * DailyLimit

\* Underflow does not occur: the smallest request has all its bits.
ExponentAssumption == One >= Mantissa * Scale * Finer

VARIABLES
    deposited,      \* sum of the confirmed rows of deposits, in units
    completed,      \* sum of the completed rows of withdrawals, in units
    pending,        \* amount of the pending row, NoRow: there is none
    paid            \* what bitcoind was told to pay, in units

vars == <<deposited, completed, pending, paid>>

NoRow == -1

\* Amounts a client may ask for.
Asked == 1 .. Finer * (MaxUnits + 1)

TypeOK ==
    /\ deposited \in 0 .. MaxUnits
    /\ completed \in Nat
    /\ pending \in Nat \cup {NoRow}
    /\ paid \in Nat

Init ==
    /\ deposited = 0
    /\ completed = 0
    /\ pending = NoRow
    /\ paid = 0

-----------------------------------------------------------------------------
(* Floats.                                                                 *)

\* a / b to the nearest integer, to the even one of two.
RoundEven(a, b) ==
    LET q == a \div b
        r == a % b
    IN  IF 2 * r > b \/ (2 * r = b /\ q % 2 = 1) THEN q + 1 ELSE q

\* The weight of the last bit of a float at n Ulps.
Step ==
    LET limit == Mantissa
        step[n \in Nat] == IF n < limit THEN 1 ELSE 2 * step[n \div 2]
    IN  step

\* The float nearest to n Ulps, n >= 0.
Nearest(n) == RoundEven(n, Step[n]) * Step[n]

\* Mutant of Parse: a float of three bits less.
ParseShort(a, b) ==
    LET step == 8 * Step[(a * One) \div b]
    IN  RoundEven(a * One, b * step) * step

\* What a decimal of a / b coins is read as: json, Sscanf("%f").
Parse(a, b) ==
    LET step == Step[(a * One) \div b]
    IN  RoundEven(a * One, b * step) * step

Request(a) == Parse(a, Scale * Finer)
FromRow(u) == Parse(u, Scale)

Minus(x, y) == IF x >= y THEN Nearest(x - y) ELSE -Nearest(y - x)

Plus(x, y) == Nearest(x + y)

\* Mutant of ToRow: the row is rounded up.
ToRowUp(x) == (x * Scale + One - 1) \div One

\* Sprintf("%.8f").
ToRow(x) == RoundEven(x * Scale, One)

\* Mutant of NewAmount: the product is cut off, not rounded.
NewAmountCut(x) == Nearest(x * Scale) \div One

\* btcutil.NewAmount: the product with 10^8, plus a half, cut off.
NewAmount(x) == Plus(Nearest(x * Scale), One \div 2) \div One

-----------------------------------------------------------------------------

\* A payment of u satoshis is written as "%.8f" of the float the node answered.
Deposit == \E u \in 1 .. MaxUnits :
    /\ deposited + u <= MaxUnits
    /\ deposited' = deposited + ToRow(FromRow(u))
    /\ UNCHANGED <<completed, pending, paid>>

OverSingle(x) == x > FromRow(Single)

Available == Minus(FromRow(deposited), FromRow(completed))

Insufficient(x) == Available < x

\* Mutant of OverLimit: what was used today is left out.
OverLimitAlone(x) == x > FromRow(DailyLimit)

OverLimit(x) == Plus(FromRow(completed), x) > FromRow(DailyLimit)

\* Withdraw in manual review: a request that is refused changes nothing.
Withdraw(a) ==
    /\ pending = NoRow
    /\ LET x == Request(a) IN
        /\ ~OverSingle(x) /\ ~Insufficient(x) /\ ~OverLimit(x)
        /\ pending' = ToRow(x)
    /\ UNCHANGED <<deposited, completed, paid>>

\* ApproveWithdrawal: the row is read back and paid.
Approve ==
    /\ pending # NoRow
    /\ LET u == NewAmount(FromRow(pending)) IN u > 0 /\ paid' = paid + u
    /\ completed' = completed + pending
    /\ pending' = NoRow
    /\ UNCHANGED deposited

\* RejectWithdrawal, or an error of bitcoind, which does not pay nothing.
Close ==
    /\ pending # NoRow
    /\ pending' = NoRow
    /\ UNCHANGED <<deposited, completed, paid>>

Next == Deposit \/ Approve \/ Close \/ \E a \in Asked : Withdraw(a)

Spec == Init /\ [][Next]_vars

-----------------------------------------------------------------------------
(* Properties.                                                             *)

Open == IF pending = NoRow THEN 0 ELSE pending

\* Rounding never creates money: whatever a request is rounded to, and however
\* the difference of two floats errs, the rows withdrawn stay covered by the rows
\* deposited (wallet.go:263, 312).
RowsAreCovered == completed + Open <= deposited

\* What bitcoind pays is what the rows say, to the unit (wallet.go:541,
\* btc/withdraw.go:24).
PaidIsRecorded == paid = completed

\* The rows of a day stay within the limit, although a float is compared with it.
RowsAreWithinLimit == completed + Open <= DailyLimit

\* What the rows leave, in the unit of requests.
Left == Finer * (deposited - completed)

\* A refusal for lack of balance errs by less than a unit: no request is refused
\* that leaves one (wallet.go:263-264).
RefusedNearTheBalance == \A a \in Asked :
    Insufficient(Request(a)) => a > Left - Finer

\* Rounding creates no money, is not paid, passes no limit and refuses little.
RoundingIsHarmless ==
    RowsAreCovered /\ PaidIsRecorded /\ RowsAreWithinLimit /\ RefusedNearTheBalance
=============================================================================
