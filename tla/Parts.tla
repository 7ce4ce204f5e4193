-------------------------------- MODULE Parts --------------------------------
(***************************************************************************)
(* The small parts, which neither call each other nor share state: the     *)
(* rate limiter, the configuration watch, the deposit addresses, the       *)
(* rotation plan and the arithmetic of amounts.  A behaviour follows one   *)
(* of them and leaves the others where they begin.                         *)
(***************************************************************************)
EXTENDS RateLimiter

CONSTANTS
    Node, Host, Env, Empty, MaxWrites, MaxBoots,                    \* ConfigWatch
    Id, MaxUsers,                                                   \* AddressIndex
    MaxBranches,                                                    \* Rotation
    Precision, Scale, Finer, Exponent, MaxUnits, Single, DailyLimit \* Amounts

VARIABLES
    part,
    stored, writes, watch, boots, queue, client, missed, refused,
    user, id, index, registry, table, told,
    branches, generation, activeBranch,
    deposited, completed, pending, paid

Config == INSTANCE ConfigWatch
Index == INSTANCE AddressIndex
Plan == INSTANCE Rotation
Money == INSTANCE Amounts

ASSUME ConfigAssumption == Config!ValueAssumption /\ Config!BoundAssumption

ASSUME ListAssumption == Index!IdAssumption /\ Plan!BranchesAssumption

ASSUME MoneyAssumption ==
    /\ Money!AmountsAssumption
    /\ Money!PrecisionAssumption
    /\ Money!LimitAssumption
    /\ Money!ExponentAssumption

configVars == <<stored, writes, watch, boots, queue, client, missed, refused>>
indexVars == <<user, id, index, registry, table, told>>
planVars == <<branches, generation, activeBranch>>
moneyVars == <<deposited, completed, pending, paid>>
partVars == <<part, vars, configVars, indexVars, planVars, moneyVars>>

PartsInit ==
    /\ part \in {"rate", "config", "index", "plan", "money"}
    /\ Init
    /\ Config!Init
    /\ Index!Init
    /\ Plan!Init
    /\ Money!Init

ConfigStep(A) ==
    /\ part = "config"
    /\ A
    /\ UNCHANGED <<part, vars, indexVars, planVars, moneyVars>>

PartsNext ==
    \/ /\ part = "rate" /\ Next
       /\ UNCHANGED <<part, configVars, indexVars, planVars, moneyVars>>
    \/ ConfigStep(Config!Next)
    \/ /\ part = "index" /\ Index!Next
       /\ UNCHANGED <<part, vars, configVars, planVars, moneyVars>>
    \/ /\ part = "plan" /\ Plan!Next
       /\ UNCHANGED <<part, vars, configVars, indexVars, moneyVars>>
    \/ /\ part = "money" /\ Money!Next
       /\ UNCHANGED <<part, vars, configVars, indexVars, planVars>>

\* The fairness of ConfigWatch!FairSpec.
PartsSpec ==
    /\ PartsInit /\ [][PartsNext]_partVars
    /\ \A n \in Node :
        /\ WF_partVars(ConfigStep(Config!OpenWatch(n)))
        /\ WF_partVars(ConfigStep(Config!Handle(n)))

-----------------------------------------------------------------------------
(* Properties of the parts.                                                *)

\* A replica that watched uses what is stored (watcher.go:43, 76, 86).
CurrentUnlessMissed == Config!CurrentUnlessMissed

\* What is written while a replica watches is used in the end (watcher.go:43-66).
WatchedIsUsed == Config!WatchedIsUsed

\* Only an id of more than six digits can share an address with another user
\* (btc.go:30-32, 61-72), and the path printed for an index is read back as its
\* child (hd.go:63-86).
AddressesAreRight ==
    part = "index" => Index!SharedOnlyWithLongId /\ Index!PathIsReadBack

\* After any sequence of calls the active generation, the active path and the list
\* agree, and only going back to it makes a deprecated branch active
\* (rotation.go:57, 80, 96).
RotationIsSafe == Plan!RotationIsSafe

\* Rounding creates no money, pays what the rows say, keeps the limit and refuses
\* less than a unit too much (wallet.go:263, 301, 312, 541).
RoundingIsHarmless == part = "money" => Money!RoundingIsHarmless
=============================================================================
