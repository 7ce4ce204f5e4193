----------------------------- MODULE Parts_proofs -----------------------------
(***************************************************************************)
(* Proofs about the small parts.                                           *)
(*                                                                         *)
(* Rate limiter, for any clients, cost, capacity and idle time that        *)
(* IdleAssumption allows: type correctness, and the refinement of          *)
(* TokenBucket, which is why deleting a bucket gives nobody a request.     *)
(*                                                                         *)
(* Rotation plan, for lists of any length: its consistency, and what makes *)
(* a deprecated branch active.                                             *)
(*                                                                         *)
(* Configuration watch, for any replicas, changes and restarts: the        *)
(* address in use is the stored one unless missed or refused.              *)
(*                                                                         *)
(* Amounts, for floats of any precision and rows of any number of          *)
(* decimals: rounding creates no money, is not paid and passes no limit.   *)
(* The functions that define floats are recursive; Recursion says that     *)
(* such an equation has a solution, and what follows for every number      *)
(* follows from the smallest counterexample.                               *)
(*                                                                         *)
(* Deposit addresses, for ids of any length: an id of up to six digits can *)
(* be read off its index, so no two of them share an address, and the      *)
(* printed path of every index is read back as the child.                  *)
(***************************************************************************)
EXTENDS Parts, SequenceTheorems, WellFoundedInduction, TLAPS

-----------------------------------------------------------------------------
(* The rate limiter.                                                       *)

\* No bucket was last looked at in the future.
Looked == \A k \in Key : buckets[k] # None => buckets[k].lastSeen <= now

IInv == TypeOK /\ Looked

LEMMA InitIInv == Init => IInv
  BY BucketAssumption DEF Init, IInv, TypeOK, Looked

\* A bucket of the type is no None, and reading it gives numbers.
LEMMA BucketFields == \A b \in Bucket :
    b # None /\ b.tokens \in 0..Capacity /\ b.lastSeen \in 0..MaxTime
  BY BucketAssumption, NoneAssumption DEF Bucket

\* What Allow computes lies between empty and full.
LEMMA RefilledType ==
    ASSUME now \in Nat, NEW b, b.tokens \in 0..Capacity, b.lastSeen \in Nat, b.lastSeen <= now
    PROVE  Refilled(b) \in 0..Capacity
  BY BucketAssumption DEF Refilled, AtMost

LEMMA TokensType == IInv => \A k \in Key : Tokens(k) \in 0..Capacity
<1> SUFFICES ASSUME IInv, NEW k \in Key PROVE Tokens(k) \in 0..Capacity
  OBVIOUS
<1> USE BucketAssumption
<1>1. CASE buckets[k] = None
  <2>1. Full.tokens = Capacity /\ Full.lastSeen = now
    BY DEF Full
  <2> QED
    BY <1>1, <2>1, RefilledType DEF Tokens, IInv, TypeOK
<1>2. CASE buckets[k] # None
  BY <1>2, BucketFields, RefilledType DEF Tokens, IInv, TypeOK, Looked
<1> QED
  BY <1>1, <1>2

\* A bucket that Allow writes.
LEMMA Written ==
    ASSUME IInv, NEW k \in Key, NEW n \in 0..Capacity,
           buckets' = [buckets EXCEPT ![k] = [tokens |-> n, lastSeen |-> now]],
           now' = now, answer' \in (Key \X BOOLEAN) \cup {None}
    PROVE  IInv'
<1> DEFINE b == [tokens |-> n, lastSeen |-> now]
<1>1. b \in Bucket /\ b.lastSeen = now
  BY DEF Bucket, IInv, TypeOK
<1>2. buckets' \in [Key -> Bucket \cup {None}]
  BY <1>1 DEF IInv, TypeOK
<1>3. \A j \in Key : buckets'[j] = IF j = k THEN b ELSE buckets[j]
  BY DEF IInv, TypeOK
<1> HIDE DEF b
<1> QED
  BY <1>1, <1>2, <1>3, BucketAssumption DEF IInv, TypeOK, Looked

LEMMA NextIInv == IInv /\ [Next]_vars => IInv'
<1> SUFFICES ASSUME IInv, [Next]_vars PROVE IInv'
  OBVIOUS
<1>1. CASE Tick
  BY <1>1, BucketAssumption, BucketFields DEF Tick, IInv, TypeOK, Looked
<1>2. CASE Cleanup
  BY <1>2 DEF Cleanup, IInv, TypeOK, Looked
<1>3. ASSUME NEW k \in Key, Grant(k) PROVE IInv'
  <2>1. Tokens(k) - Cost \in 0..Capacity
    BY <1>3, TokensType, BucketAssumption DEF Grant
  <2> QED
    BY <1>3, <2>1, Written DEF Grant
<1>4. ASSUME NEW k \in Key, Deny(k) PROVE IInv'
  BY <1>4, TokensType, Written DEF Deny
<1>5. CASE UNCHANGED vars
  BY <1>5 DEF vars, IInv, TypeOK, Looked
<1> QED
  BY <1>1, <1>2, <1>3, <1>4, <1>5 DEF Next

LEMMA SpecIInv == Spec => []IInv
  BY InitIInv, NextIInv, PTL DEF Spec

\* Buckets stay between empty and full whatever is asked, deleted and made anew.
THEOREM TypeCorrect == Spec => []TypeOK
  BY SpecIInv, PTL DEF IInv

-----------------------------------------------------------------------------
(* The refinement of TokenBucket.                                          *)

\* What Allow computes is what the bucket holds, looked at or not.
LEMMA TokensAreLevel == IInv => \A k \in Key : Tokens(k) = Level(k)
<1> SUFFICES ASSUME IInv, NEW k \in Key PROVE Tokens(k) = Level(k)
  OBVIOUS
<1>1. CASE buckets[k] = None
  <2>1. Full.tokens = Capacity /\ Full.lastSeen = now
    BY DEF Full
  <2> QED
    BY <1>1, <2>1, BucketAssumption DEF Tokens, Level, Refilled, AtMost, IInv, TypeOK
<1>2. CASE buckets[k] # None
  BY <1>2 DEF Tokens, Level
<1> QED
  BY <1>1, <1>2

\* A bucket just written holds what was written, and the others what they held.
LEMMA WrittenLevel ==
    ASSUME IInv, NEW k \in Key, NEW n \in 0..Capacity,
           buckets' = [buckets EXCEPT ![k] = [tokens |-> n, lastSeen |-> now]],
           now' = now
    PROVE  \A j \in Key : Level(j)' = IF j = k THEN n ELSE Level(j)
<1> DEFINE b == [tokens |-> n, lastSeen |-> now]
<1>1. b # None /\ b.tokens = n /\ b.lastSeen = now
  BY NoneAssumption, BucketAssumption DEF IInv, TypeOK
<1>2. \A j \in Key : buckets'[j] = IF j = k THEN b ELSE buckets[j]
  BY DEF IInv, TypeOK
<1> HIDE DEF b
<1> QED
  BY <1>1, <1>2, BucketAssumption DEF Level, Refilled, AtMost, IInv, TypeOK

\* The clock earns every bucket one unit.
LEMMA TickEarns == IInv /\ Tick => \A k \in Key : Level(k)' = AtMost(Level(k) + 1)
<1> SUFFICES ASSUME IInv, Tick, NEW k \in Key
             PROVE  Level(k)' = AtMost(Level(k) + 1)
  OBVIOUS
<1>1. CASE buckets[k] = None
  BY <1>1, BucketAssumption DEF Tick, Level, AtMost
<1>2. CASE buckets[k] # None
  BY <1>2, BucketAssumption, BucketFields
     DEF Tick, Level, Refilled, AtMost, IInv, TypeOK, Looked
<1> QED
  BY <1>1, <1>2

\* A bucket is deleted only when it was full.
LEMMA CleanupKeeps == IInv /\ Cleanup => \A k \in Key : Level(k)' = Level(k)
<1> SUFFICES ASSUME IInv, Cleanup, NEW k \in Key PROVE Level(k)' = Level(k)
  OBVIOUS
<1>1. CASE buckets[k] # None /\ Stale(buckets[k])
  <2>1. Level(k)' = Capacity
    BY <1>1 DEF Cleanup, Level
  <2>2. Refilled(buckets[k]) = Capacity
    BY <1>1, BucketAssumption, IdleAssumption, BucketFields
       DEF Stale, Refilled, AtMost, IInv, TypeOK, Looked
  <2> QED
    BY <1>1, <2>1, <2>2 DEF Level
<1>2. CASE ~(buckets[k] # None /\ Stale(buckets[k]))
  BY <1>2 DEF Cleanup, Level, Refilled
<1> QED
  BY <1>1, <1>2

LEMMA InitRefines == Init => Promise!BucketInit
  BY DEF Init, Level, Promise!BucketInit

LEMMA NextRefines == IInv /\ [Next]_vars =>
    [Promise!BucketNext]_<<[k \in Key |-> Level(k)], answer>>
<1> DEFINE level == [k \in Key |-> Level(k)]
<1> SUFFICES ASSUME IInv, [Next]_vars
             PROVE  Promise!BucketNext \/ (level' = level /\ answer' = answer)
  OBVIOUS
<1>1. CASE Tick
  <2>1. \A n : Promise!AtMost(n) = AtMost(n)
    BY DEF Promise!AtMost, AtMost
  <2>2. Promise!Earn
    BY <1>1, <2>1, TickEarns DEF Tick, Promise!Earn
  <2> QED
    BY <2>2 DEF Promise!BucketNext
<1>2. CASE Cleanup
  BY <1>2, CleanupKeeps DEF Cleanup
<1>3. ASSUME NEW k \in Key, Grant(k) PROVE Promise!LetIn(k)
  <2>1. Level(k) >= Cost /\ Level(k) - Cost \in 0..Capacity
    BY <1>3, TokensType, TokensAreLevel, BucketAssumption DEF Grant
  <2>2. \A j \in Key : Level(j)' = IF j = k THEN Level(k) - Cost ELSE Level(j)
    BY <1>3, <2>1, TokensAreLevel, WrittenLevel DEF Grant
  <2> QED
    BY <1>3, <2>1, <2>2 DEF Grant, Promise!LetIn
<1>4. ASSUME NEW k \in Key, Deny(k) PROVE Promise!Refuse(k)
  <2>1. Level(k) < Cost /\ Level(k) \in 0..Capacity
    BY <1>4, TokensType, TokensAreLevel DEF Deny
  <2>2. \A j \in Key : Level(j)' = Level(j)
    BY <1>4, <2>1, TokensAreLevel, WrittenLevel DEF Deny
  <2> QED
    BY <1>4, <2>1, <2>2 DEF Deny, Promise!Refuse
<1>5. CASE UNCHANGED vars
  BY <1>5 DEF vars, Level, Refilled
<1> QED
  BY <1>1, <1>2, <1>3, <1>4, <1>5 DEF Next, Promise!BucketNext

\* ratelimit.go implements the bucket that is filled all the time, for any burst
\* that fills no slower than cleanup deletes.
THEOREM LimiterRefinement == Spec => ImplementsTokenBucket
<1>1. Init => Promise!BucketInit
  BY InitRefines
<1>2. IInv /\ [Next]_vars => [Promise!BucketNext]_<<[k \in Key |-> Level(k)], answer>>
  BY NextRefines
<1> QED
  BY <1>1, <1>2, SpecIInv, PTL DEF Spec, ImplementsTokenBucket, Promise!BucketSpec

-----------------------------------------------------------------------------
(* The rotation plan.                                                      *)

\* DeriveNext goes up by one at most, so a branch has its generation below its
\* place; the bound on the list then bounds generations.
Ordered == \A i \in DOMAIN branches : branches[i].generation < i

PlanInv == Plan!TypeOK /\ Ordered /\ Plan!PlanIsConsistent

LEMMA BranchBound == MaxBranches \in Nat \ {0}
  BY ListAssumption DEF Plan!BranchesAssumption

LEMMA InitPlan == Plan!Init => PlanInv
<1> SUFFICES ASSUME Plan!Init PROVE PlanInv
  OBVIOUS
<1> USE BranchBound
<1>1. branches = <<[generation |-> 0, deprecated |-> FALSE]>> /\ generation = 0 /\ activeBranch = 0
  BY DEF Plan!Init
<1>2. [generation |-> 0, deprecated |-> FALSE] \in Plan!Branch
  BY DEF Plan!Branch
<1>3. branches \in Seq(Plan!Branch) /\ Len(branches) = 1 /\ DOMAIN branches = {1}
  BY <1>1, <1>2
<1>4. branches[1].generation = 0
  BY <1>1
<1> QED
  BY <1>1, <1>3, <1>4 DEF PlanInv, Plan!TypeOK, Ordered, Plan!PlanIsConsistent, Plan!Listed

\* The fields of a branch of the list.
LEMMA Entries == Plan!TypeOK => \A i \in DOMAIN branches :
    /\ branches[i] \in Plan!Branch
    /\ branches[i].generation \in 0 .. MaxBranches - 1
    /\ i \in 1 .. Len(branches)
<1> SUFFICES ASSUME Plan!TypeOK, NEW i \in DOMAIN branches
             PROVE  /\ branches[i] \in Plan!Branch
                    /\ branches[i].generation \in 0 .. MaxBranches - 1
                    /\ i \in 1 .. Len(branches)
  OBVIOUS
<1>1. branches[i] \in Plan!Branch /\ i \in 1 .. Len(branches)
  BY DEF Plan!TypeOK
<1> QED
  BY <1>1 DEF Plan!Branch

LEMMA DeriveKeeps == PlanInv /\ Plan!DeriveNext => PlanInv'
<1> SUFFICES ASSUME PlanInv, Plan!DeriveNext PROVE PlanInv'
  OBVIOUS
<1> USE BranchBound
<1> DEFINE b == [generation |-> generation + 1, deprecated |-> FALSE]
<1>1. PICK i \in DOMAIN branches : branches[i].generation = generation
  BY DEF PlanInv, Plan!PlanIsConsistent, Plan!Listed
<1>2. generation + 1 \in 0 .. MaxBranches - 1 /\ generation + 1 <= Len(branches)
  BY <1>1, Entries DEF PlanInv, Ordered, Plan!TypeOK, Plan!DeriveNext
<1>3. b \in Plan!Branch /\ b.generation = generation + 1
  BY <1>2 DEF Plan!Branch
<1>4. branches' = Append(branches, b)
  BY DEF Plan!DeriveNext
<1> HIDE DEF b
<1>5. branches' \in Seq(Plan!Branch) /\ Len(branches') = Len(branches) + 1
  BY <1>3, <1>4 DEF PlanInv, Plan!TypeOK
<1>6. \A j \in DOMAIN branches' :
        branches'[j] = IF j \in DOMAIN branches THEN branches[j] ELSE b
  BY <1>3, <1>4 DEF PlanInv, Plan!TypeOK
<1>7. DOMAIN branches' = DOMAIN branches \cup {Len(branches) + 1}
  BY <1>3, <1>4 DEF PlanInv, Plan!TypeOK
<1>8. Plan!TypeOK'
  BY <1>5 DEF PlanInv, Plan!TypeOK, Plan!DeriveNext
<1>9. Ordered'
  BY <1>2, <1>3, <1>6, <1>7, Entries DEF PlanInv, Ordered
<1>10. \A g : Plan!Listed(g) => Plan!Listed(g)'
  BY <1>6, <1>7 DEF Plan!Listed
<1>11. \A g : g = generation + 1 => Plan!Listed(g)'
  <2>1. Len(branches) + 1 \notin DOMAIN branches
    BY DEF PlanInv, Plan!TypeOK
  <2>2. /\ Len(branches) + 1 \in DOMAIN branches'
        /\ branches'[Len(branches) + 1].generation = generation + 1
    BY <2>1, <1>3, <1>6, <1>7
  <2> QED
    BY <2>2 DEF Plan!Listed
<1>12. \A g \in 0 .. generation : Plan!Listed(g)
  BY <1>1 DEF PlanInv, Plan!PlanIsConsistent
<1>13. Plan!PlanIsConsistent'
  <2>1. activeBranch' = generation' /\ Plan!Listed(generation)'
    BY <1>10 DEF PlanInv, Plan!PlanIsConsistent, Plan!DeriveNext
  <2>2. generation' = generation
    BY DEF Plan!DeriveNext
  <2>3. ASSUME NEW j \in DOMAIN branches', NEW g \in 0 .. branches'[j].generation
        PROVE  Plan!Listed(g)'
    <3>1. CASE j \in DOMAIN branches
      BY <3>1, <2>3, <1>6, <1>10 DEF PlanInv, Plan!PlanIsConsistent
    <3>2. CASE j \notin DOMAIN branches
      <4>1. g \in 0 .. generation \/ g = generation + 1
        BY <3>2, <2>3, <1>3, <1>6, <1>2 DEF PlanInv, Plan!TypeOK
      <4> QED
        BY <4>1, <1>10, <1>11, <1>12
    <3> QED
      BY <3>1, <3>2
  <2> QED
    BY <2>1, <2>2, <2>3 DEF Plan!PlanIsConsistent, Plan!Listed
<1> QED
  BY <1>8, <1>9, <1>13 DEF PlanInv

LEMMA ActivateKeeps == PlanInv => \A g \in 0..MaxBranches : Plan!ActivateBranch(g) => PlanInv'
<1> SUFFICES ASSUME PlanInv, NEW g \in 0..MaxBranches, Plan!ActivateBranch(g) PROVE PlanInv'
  OBVIOUS
<1>1. branches' = branches /\ generation' = g /\ activeBranch' = g /\ Plan!Listed(g)
  BY DEF Plan!ActivateBranch
<1>2. g \in 0 .. MaxBranches - 1
  BY <1>1, Entries DEF PlanInv, Plan!Listed
<1> QED
  BY <1>1, <1>2 DEF PlanInv, Plan!TypeOK, Ordered, Plan!PlanIsConsistent, Plan!Listed

\* Marking a branch moves none.
LEMMA DeprecateKeeps == PlanInv => \A g : Plan!DeprecateBranch(g) =>
    /\ PlanInv'
    /\ Plan!ActiveDeprecated' => Plan!ActiveDeprecated
<1> SUFFICES ASSUME PlanInv, NEW g, Plan!DeprecateBranch(g)
             PROVE  PlanInv' /\ (Plan!ActiveDeprecated' => Plan!ActiveDeprecated)
  OBVIOUS
<1>1. PICK i \in DOMAIN branches :
        /\ g # generation
        /\ branches[i].generation = g
        /\ branches' = [branches EXCEPT ![i].deprecated = TRUE]
  BY DEF Plan!DeprecateBranch, Plan!Found
<1>2. UNCHANGED <<generation, activeBranch>>
  BY DEF Plan!DeprecateBranch
<1> DEFINE b == [branches[i] EXCEPT !.deprecated = TRUE]
<1>3. b \in Plan!Branch /\ b.generation = g
  BY <1>1, Entries DEF PlanInv, Plan!Branch
<1>4. branches' = [branches EXCEPT ![i] = b]
  BY <1>1
<1> HIDE DEF b
<1>5. branches' \in Seq(Plan!Branch) /\ DOMAIN branches' = DOMAIN branches
  BY <1>3, <1>4 DEF PlanInv, Plan!TypeOK
<1>6. \A j \in DOMAIN branches : branches'[j] = IF j = i THEN b ELSE branches[j]
  BY <1>4 DEF PlanInv, Plan!TypeOK
<1>7. \A j \in DOMAIN branches : branches'[j].generation = branches[j].generation
  BY <1>1, <1>3, <1>6
<1>8. PlanInv'
  BY <1>2, <1>5, <1>7 DEF PlanInv, Plan!TypeOK, Ordered, Plan!PlanIsConsistent, Plan!Listed
<1>9. Plan!ActiveDeprecated' => Plan!ActiveDeprecated
  BY <1>1, <1>2, <1>3, <1>5, <1>6 DEF Plan!ActiveDeprecated
<1> QED
  BY <1>8, <1>9

LEMMA NextPlan == PlanInv /\ [Plan!Next]_(Plan!vars) => PlanInv'
<1> SUFFICES ASSUME PlanInv, [Plan!Next]_(Plan!vars) PROVE PlanInv'
  OBVIOUS
<1>1. CASE UNCHANGED Plan!vars
  BY <1>1 DEF Plan!vars, PlanInv, Plan!TypeOK, Ordered, Plan!PlanIsConsistent, Plan!Listed
<1> QED
  BY <1>1, DeriveKeeps, ActivateKeeps, DeprecateKeeps DEF Plan!Next

LEMMA SpecPlan ==
    Plan!Spec => []PlanInv
<1>1. Plan!Init => PlanInv
  BY InitPlan
<1>2. PlanInv /\ [Plan!Next]_(Plan!vars) => PlanInv'
  BY NextPlan
<1> QED
  BY <1>1, <1>2, PTL DEF Plan!Spec

\* Every branch of the list and the active one have a generation of the plan.
THEOREM PlanTypeCorrect ==
    Plan!Spec => []Plan!TypeOK
  BY SpecPlan, PTL DEF PlanInv

\* The active generation, the active path and the list agree after any sequence of
\* calls on a list of any length, and no generation below a listed one is missing.
THEOREM PlanConsistent ==
    Plan!Spec => []Plan!PlanIsConsistent
  BY SpecPlan, PTL DEF PlanInv

\* Only going back to it makes a deprecated branch the active one.
THEOREM ReturnRevives ==
    Plan!Spec => Plan!OnlyReturnRevives
<1>1. PlanInv /\ [Plan!Next]_(Plan!vars) =>
        [Plan!ActiveDeprecated' /\ ~Plan!ActiveDeprecated => generation' # generation]_(Plan!vars)
  <2> SUFFICES ASSUME PlanInv, Plan!Next, Plan!ActiveDeprecated', ~Plan!ActiveDeprecated
               PROVE  generation' # generation
    OBVIOUS
  <2>1. CASE Plan!DeriveNext
    <3> DEFINE b == [generation |-> generation + 1, deprecated |-> FALSE]
    <3>1. branches' = Append(branches, b) /\ ~b.deprecated
      BY <2>1 DEF Plan!DeriveNext
    <3> HIDE DEF b
    <3>2. \A j \in DOMAIN branches' :
            branches'[j] = IF j \in DOMAIN branches THEN branches[j] ELSE b
      BY <3>1 DEF PlanInv, Plan!TypeOK
    <3> QED
      BY <2>1, <3>1, <3>2 DEF Plan!ActiveDeprecated, Plan!DeriveNext
  <2>2. ASSUME NEW g \in 0..MaxBranches, Plan!ActivateBranch(g)
        PROVE  generation' # generation
    BY <2>2 DEF Plan!ActivateBranch, Plan!ActiveDeprecated
  <2> QED
    BY <2>1, <2>2, DeprecateKeeps DEF Plan!Next
<1> QED
  BY <1>1, SpecPlan, PTL DEF Plan!Spec, Plan!OnlyReturnRevives

\* The plan is safe to call in any order, beside the other parts.
THEOREM SafeRotation == PartsSpec => RotationIsSafe
<1>1. PartsSpec => Plan!Spec
  <2>1. PartsInit => Plan!Init
    BY DEF PartsInit
  <2>2. [PartsNext]_partVars => [Plan!Next]_(Plan!vars)
    BY DEF PartsNext, ConfigStep, partVars, planVars, Plan!vars
  <2> QED
    BY <2>1, <2>2, PTL DEF PartsSpec, Plan!Spec
<1> QED
  BY <1>1, PlanConsistent, ReturnRevives DEF RotationIsSafe, Plan!RotationIsSafe

-----------------------------------------------------------------------------
(* The configuration watch.                                                *)

Event == Config!Keys \X (Host \cup {Empty})

WatchTypes ==
    /\ watch \in [Node -> Config!Watches]
    /\ queue \in [Node -> Seq(Event)]
    /\ client \in [Node -> [Config!Keys -> Config!Value]]
    /\ missed \in [Node -> SUBSET Config!Keys]
    /\ refused \in [Node -> SUBSET Config!Keys]
    /\ stored \in [Config!Keys -> Host \cup {Empty}]
    /\ writes \in [Config!Keys -> Nat]

\* The events of key k that replica n has still to handle.
Waits(n, k) == \E i \in DOMAIN queue[n] : queue[n][i][1] = k

\* The last event of a key that waits carries what is stored; with none, the client
\* has it or refused it.
Follows(n, k) ==
    /\ \A i \in DOMAIN queue[n] :
          queue[n][i][1] = k /\ (\A j \in DOMAIN queue[n] : j > i => queue[n][j][1] # k)
          => queue[n][i][2] = stored[k]
    /\ ~Waits(n, k) => client[n][k] = stored[k] \/ k \in refused[n]

ConfigInv ==
    /\ WatchTypes
    /\ \A n \in Node, k \in Config!Keys :
          Config!Running(n) /\ writes[k] > 0 /\ k \notin missed[n] => Follows(n, k)

LEMMA InitConfig == Config!Init => ConfigInv
<1> SUFFICES ASSUME Config!Init PROVE ConfigInv
  OBVIOUS
<1> USE DEF Config!Init
<1>1. queue \in [Node -> Seq(Event)]
  OBVIOUS
<1> QED
  BY <1>1 DEF ConfigInv, WatchTypes, Config!Value, Config!Watches

\* What is known of a key of a replica depends on its own variables only.
LEMMA SameFollows ==
    ASSUME NEW n, NEW k, Follows(n, k), queue'[n] = queue[n], client'[n][k] = client[n][k],
           k \in refused[n] => k \in refused'[n], stored'[k] = stored[k]
    PROVE  Follows(n, k)'
  BY DEF Follows, Waits

LEMMA WriteStep ==
    ASSUME ConfigInv, NEW k \in Config!Keys, NEW v \in Host \cup {Empty}, Config!Write(k, v)
    PROVE  ConfigInv'
<1> USE DEF ConfigInv
<1>1. /\ writes' = [writes EXCEPT ![k] = @ + 1]
      /\ stored' = [stored EXCEPT ![k] = v]
      /\ queue' = [n \in Node |->
           IF watch[n] = "open" THEN Append(queue[n], <<k, v>>) ELSE queue[n]]
      /\ missed' = [n \in Node |->
           IF watch[n] = "open" THEN missed[n] \ {k} ELSE missed[n] \cup {k}]
      /\ UNCHANGED <<watch, boots, client, refused>>
  BY DEF Config!Write
<1>2. <<k, v>> \in Event
  BY DEF Event
<1>3. \A n \in Node : queue[n] \in Seq(Event)
  BY DEF WatchTypes
<1>4. WatchTypes'
  <2>1. \A n \in Node : queue'[n] \in Seq(Event)
    BY <1>1, <1>2, <1>3
  <2>2. queue' \in [Node -> Seq(Event)] /\ missed' \in [Node -> SUBSET Config!Keys]
    BY <1>1, <2>1 DEF WatchTypes
  <2>3. writes' \in [Config!Keys -> Nat] /\ stored' \in [Config!Keys -> Host \cup {Empty}]
    BY <1>1 DEF WatchTypes
  <2> QED
    BY <1>1, <2>2, <2>3 DEF WatchTypes
<1>5. ASSUME NEW n \in Node, NEW l \in Config!Keys,
             Config!Running(n)', writes'[l] > 0, l \notin missed'[n]
      PROVE  Follows(n, l)'
  <2>1. client' = client /\ refused' = refused /\ Config!Running(n)
    BY <1>1, <1>5 DEF Config!Running
  <2>2. CASE l # k
    <3>1. writes[l] > 0 /\ l \notin missed[n] /\ stored'[l] = stored[l]
      BY <1>1, <1>5, <2>2 DEF WatchTypes
    <3>2. Follows(n, l)
      BY <2>1, <3>1
    <3>3. CASE watch[n] # "open"
      <4>1. queue'[n] = queue[n]
        BY <1>1, <3>3
      <4> QED
        BY <2>1, <3>1, <3>2, <4>1, SameFollows
    <3>4. CASE watch[n] = "open"
      <4>1. queue'[n] = Append(queue[n], <<k, v>>)
        BY <1>1, <3>4
      <4>2. /\ DOMAIN queue'[n] = DOMAIN queue[n] \cup {Len(queue[n]) + 1}
            /\ \A i \in DOMAIN queue[n] : queue'[n][i] = queue[n][i]
            /\ queue'[n][Len(queue[n]) + 1][1] = k
        BY <1>2, <1>3, <4>1
      <4> QED
        BY <2>1, <2>2, <3>1, <3>2, <4>2 DEF Follows, Waits
    <3> QED
      BY <3>3, <3>4
  <2>3. CASE l = k
    <3>1. watch[n] = "open" /\ queue'[n] = Append(queue[n], <<k, v>>) /\ stored'[k] = v
      BY <1>1, <1>5, <2>3 DEF WatchTypes
    <3>2. /\ Len(queue[n]) \in Nat
          /\ DOMAIN queue'[n] = 1 .. Len(queue[n]) + 1
          /\ queue'[n][Len(queue[n]) + 1] = <<k, v>>
      BY <1>2, <1>3, <3>1
    <3>3. Len(queue[n]) + 1 \in DOMAIN queue'[n] /\ Waits(n, k)'
      BY <3>2 DEF Waits
    <3>4. ASSUME NEW i \in DOMAIN queue'[n],
                 \A j \in DOMAIN queue'[n] : j > i => queue'[n][j][1] # k
          PROVE  i = Len(queue[n]) + 1
      BY <3>2, <3>3, <3>4
    <3> QED
      BY <2>3, <3>1, <3>2, <3>3, <3>4 DEF Follows
  <2> QED
    BY <2>2, <2>3
<1> QED
  BY <1>4, <1>5

LEMMA HandleStep ==
    ASSUME ConfigInv, NEW n \in Node, Config!Handle(n)
    PROVE  ConfigInv'
<1> USE DEF ConfigInv
<1>1. PICK k \in Config!Keys, v \in Host \cup {Empty} :
        /\ queue[n] # <<>> /\ Head(queue[n]) = <<k, v>>
        /\ queue' = [queue EXCEPT ![n] = Tail(@)]
        /\ UNCHANGED <<stored, writes, watch, boots, missed>>
        /\ \/ /\ client' = [client EXCEPT ![n][k] = v]
              /\ refused' = [refused EXCEPT ![n] = @ \ {k}]
           \/ client' = client /\ refused' = [refused EXCEPT ![n] = @ \cup {k}]
  BY DEF Config!Handle, Config!UpdateBTC, Config!UpdateETH, Config!UpdateETHFails,
     Config!NextEvent, Config!Set, Config!etcdVars, Config!Keys
<1>2. queue[n] \in Seq(Event) /\ queue'[n] = Tail(queue[n])
  BY <1>1 DEF WatchTypes
<1>3. /\ Len(queue[n]) \in Nat /\ Len(queue[n]) > 0 /\ queue[n][1] = <<k, v>>
      /\ DOMAIN queue[n] = 1 .. Len(queue[n])
      /\ Tail(queue[n]) \in Seq(Event)
      /\ DOMAIN queue'[n] = 1 .. Len(queue[n]) - 1
      /\ \A i \in DOMAIN queue'[n] : queue'[n][i] = queue[n][i + 1]
  <2> DEFINE q == queue[n]
  <2>1. q \in Seq(Event) /\ q # <<>> /\ Head(q) = <<k, v>> /\ queue'[n] = Tail(q)
    BY <1>1, <1>2
  <2> HIDE DEF q
  <2>2. Len(q) \in Nat /\ Len(q) > 0 /\ q[1] = <<k, v>> /\ DOMAIN q = 1 .. Len(q)
    BY <2>1
  <2>3. /\ Tail(q) \in Seq(Event) /\ DOMAIN Tail(q) = 1 .. Len(q) - 1
        /\ \A i \in 1 .. Len(q) - 1 : Tail(q)[i] = q[i + 1]
    BY <2>1, <2>2
  <2> QED
    BY <2>1, <2>2, <2>3 DEF q
<1>4. WatchTypes'
  <2>1. queue' \in [Node -> Seq(Event)]
    BY <1>1, <1>3 DEF WatchTypes
  <2>2. v \in Config!Value
    BY DEF Config!Value
  <2>3. client' \in [Node -> [Config!Keys -> Config!Value]]
    <3>1. CASE client' = [client EXCEPT ![n][k] = v]
      BY <2>2, <3>1 DEF WatchTypes
    <3>2. CASE client' = client
      BY <3>2 DEF WatchTypes
    <3> QED
      BY <1>1, <3>1, <3>2
  <2>4. refused' \in [Node -> SUBSET Config!Keys]
    <3>1. refused[n] \ {k} \in SUBSET Config!Keys /\ refused[n] \cup {k} \in SUBSET Config!Keys
      BY DEF WatchTypes
    <3> QED
      BY <1>1, <3>1 DEF WatchTypes
  <2> QED
    BY <1>1, <2>1, <2>3, <2>4 DEF WatchTypes
<1>5. ASSUME NEW m \in Node, m # n, NEW l \in Config!Keys,
             Config!Running(m)', writes'[l] > 0, l \notin missed'[m]
      PROVE  Follows(m, l)'
  <2>1. queue'[m] = queue[m] /\ client'[m] = client[m] /\ refused'[m] = refused[m]
    BY <1>1, <1>5 DEF WatchTypes
  <2>2. Follows(m, l)
    BY <1>1, <1>5 DEF Config!Running
  <2> QED
    BY <1>1, <2>1, <2>2, SameFollows
<1>6. ASSUME NEW l \in Config!Keys, Config!Running(n)', writes'[l] > 0, l \notin missed'[n]
      PROVE  Follows(n, l)'
  <2>1. Follows(n, l)
    BY <1>1, <1>6 DEF Config!Running
  <2>2. ASSUME NEW i \in DOMAIN queue'[n], queue'[n][i][1] = l,
               \A j \in DOMAIN queue'[n] : j > i => queue'[n][j][1] # l
        PROVE  queue'[n][i][2] = stored[l]
    <3>1. i + 1 \in DOMAIN queue[n] /\ queue[n][i + 1][1] = l
      BY <1>3, <2>2
    <3>2. ASSUME NEW j \in DOMAIN queue[n], j > i + 1 PROVE queue[n][j][1] # l
      <4>1. j - 1 \in DOMAIN queue'[n] /\ j - 1 > i /\ queue'[n][j - 1] = queue[n][(j - 1) + 1]
        BY <1>3, <3>2
      <4>2. (j - 1) + 1 = j
        BY <1>3
      <4> QED
        BY <2>2, <4>1, <4>2
    <3>3. queue[n][i + 1][2] = stored[l]
      BY <2>1, <3>1, <3>2 DEF Follows
    <3> QED
      BY <1>3, <3>3
  <2>3. ASSUME ~Waits(n, l)' PROVE client'[n][l] = stored[l] \/ l \in refused'[n]
    <3>1. \A i \in DOMAIN queue[n] : i # 1 => queue[n][i][1] # l
      <4> SUFFICES ASSUME NEW i \in DOMAIN queue[n], i # 1 PROVE queue[n][i][1] # l
        OBVIOUS
      <4>1. i - 1 \in DOMAIN queue'[n] /\ queue'[n][i - 1] = queue[n][(i - 1) + 1]
        BY <1>3
      <4>2. (i - 1) + 1 = i
        BY <1>3
      <4> QED
        BY <2>3, <4>1, <4>2 DEF Waits
    <3>2. CASE l = k
      <4>1. v = stored[k]
        <5>1. 1 \in DOMAIN queue[n] /\ \A j \in DOMAIN queue[n] : j > 1 => queue[n][j][1] # l
          BY <1>3, <3>1
        <5> QED
          BY <1>3, <2>1, <3>2, <5>1 DEF Follows
      <4> QED
        BY <1>1, <3>2, <4>1 DEF WatchTypes
    <3>3. CASE l # k
      <4>1. ~Waits(n, l)
        BY <1>3, <3>1, <3>3 DEF Waits
      <4>2. client[n][l] = stored[l] \/ l \in refused[n]
        BY <2>1, <4>1 DEF Follows
      <4> QED
        BY <1>1, <3>3, <4>2 DEF WatchTypes
    <3> QED
      BY <3>2, <3>3
  <2> QED
    BY <1>1, <2>2, <2>3 DEF Follows
<1> QED
  BY <1>4, <1>5, <1>6

\* Starting, watching, losing the watch and stopping.
LEMMA LifeStep ==
    ASSUME ConfigInv, NEW n \in Node,
           Config!Boot(n) \/ Config!OpenWatch(n) \/ Config!CloseWatch(n) \/ Config!Stop(n)
    PROVE  ConfigInv'
<1> USE DEF ConfigInv, Config!etcdVars, Config!historyVars, Config!Watches
<1>1. CASE Config!Boot(n)
  <2>1. WatchTypes'
    BY <1>1 DEF Config!Boot, WatchTypes, Config!Value
  <2>2. \A k \in Config!Keys : writes'[k] > 0 => k \in missed'[n]
    BY <1>1 DEF Config!Boot, WatchTypes
  <2>3. \A m \in Node \ {n} : /\ client'[m] = client[m] /\ missed'[m] = missed[m]
                              /\ refused'[m] = refused[m] /\ watch'[m] = watch[m]
    BY <1>1 DEF Config!Boot, WatchTypes
  <2>4. UNCHANGED <<stored, writes, queue>>
    BY <1>1 DEF Config!Boot
  <2> QED
    BY <2>1, <2>2, <2>3, <2>4 DEF Follows, Waits, Config!Running
<1>2. CASE Config!OpenWatch(n)
  <2>1. UNCHANGED <<stored, writes, boots, queue, client, missed, refused>>
    BY <1>2 DEF Config!OpenWatch
  <2>2. \A m \in Node : Config!Running(m)' => Config!Running(m)
    BY <1>2 DEF Config!OpenWatch, Config!Running
  <2>3. WatchTypes'
    BY <1>2, <2>1 DEF WatchTypes, Config!OpenWatch
  <2> QED
    BY <2>1, <2>2, <2>3, SameFollows
<1>3. CASE Config!Stop(n)
  <2>1. /\ UNCHANGED <<stored, writes, client, missed, refused>>
        /\ queue' = [queue EXCEPT ![n] = <<>>]
        /\ watch' = [watch EXCEPT ![n] = "down"]
    BY <1>3 DEF Config!Stop
  <2>2. WatchTypes'
    BY <2>1 DEF WatchTypes
  <2>3. \A m \in Node : Config!Running(m)' => m # n /\ Config!Running(m)
    BY <2>1 DEF Config!Running, WatchTypes
  <2>4. \A m \in Node \ {n} : queue'[m] = queue[m]
    BY <2>1 DEF WatchTypes
  <2> QED
    BY <2>1, <2>2, <2>3, <2>4, SameFollows
<1>4. CASE Config!CloseWatch(n)
  <2>1. PICK i \in 0 .. Len(queue[n]) :
          /\ queue' = [queue EXCEPT ![n] = SubSeq(@, 1, i)]
          /\ missed' = [missed EXCEPT ![n] =
               @ \cup {queue[n][j][1] : j \in i + 1 .. Len(queue[n])}]
          /\ watch[n] = "open" /\ watch' = [watch EXCEPT ![n] = "closed"]
          /\ UNCHANGED <<stored, writes, client, refused>>
    BY <1>4 DEF Config!CloseWatch
  <2>2. queue[n] \in Seq(Event) /\ Len(queue[n]) \in Nat /\ DOMAIN queue[n] = 1 .. Len(queue[n])
    BY DEF WatchTypes
  <2>3. /\ SubSeq(queue[n], 1, i) \in Seq(Event)
        /\ DOMAIN SubSeq(queue[n], 1, i) = 1 .. i
        /\ \A j \in 1 .. i : SubSeq(queue[n], 1, i)[j] = queue[n][j]
    BY <2>2
  <2>4. queue'[n] = SubSeq(queue[n], 1, i)
    BY <2>1 DEF WatchTypes
  <2>5. \A j \in i + 1 .. Len(queue[n]) : queue[n][j][1] \in Config!Keys
    BY <2>2 DEF Event
  <2>6. WatchTypes'
    BY <2>1, <2>3, <2>5 DEF WatchTypes
  <2>7. ASSUME NEW m \in Node, m # n, NEW l \in Config!Keys,
               Config!Running(m)', writes'[l] > 0, l \notin missed'[m]
        PROVE  Follows(m, l)'
    <3>1. queue'[m] = queue[m] /\ missed'[m] = missed[m] /\ watch'[m] = watch[m]
      BY <2>1, <2>7 DEF WatchTypes
    <3>2. Follows(m, l)
      BY <2>1, <2>7, <3>1 DEF Config!Running
    <3> QED
      BY <2>1, <3>1, <3>2, SameFollows
  <2>8. ASSUME NEW l \in Config!Keys, writes'[l] > 0, l \notin missed'[n]
        PROVE  Follows(n, l)'
    <3>1. l \notin missed[n] /\ \A j \in i + 1 .. Len(queue[n]) : queue[n][j][1] # l
      BY <2>1, <2>8 DEF WatchTypes
    <3>2. Follows(n, l)
      BY <2>1, <2>8, <3>1 DEF Config!Running
    <3>3. \A j \in DOMAIN queue[n] : j \in 1 .. i \/ queue[n][j][1] # l
      BY <2>2, <3>1
    <3>4. \A j \in 1 .. i : j \in DOMAIN queue[n]
      BY <2>2
    <3>5. DOMAIN queue'[n] = 1 .. i /\ \A j \in 1 .. i : queue'[n][j] = queue[n][j]
      BY <2>3, <2>4
    <3>6. ASSUME NEW j \in 1 .. i, queue[n][j][1] = l, \A m \in 1 .. i : m > j => queue[n][m][1] # l
          PROVE  queue[n][j][2] = stored[l]
      BY <3>2, <3>3, <3>4, <3>6 DEF Follows
    <3>7. (\A j \in 1 .. i : queue[n][j][1] # l) => ~Waits(n, l)
      BY <3>3 DEF Waits
    <3>8. UNCHANGED <<stored, client, refused>>
      BY <2>1
    <3>9. Waits(n, l)' <=> \E j \in 1 .. i : queue[n][j][1] = l
      BY <3>5 DEF Waits
    <3>10. ~Waits(n, l)' => client'[n][l] = stored'[l] \/ l \in refused'[n]
      BY <3>2, <3>7, <3>8, <3>9 DEF Follows
    <3> QED
      BY <3>5, <3>6, <3>8, <3>10 DEF Follows
  <2> QED
    BY <2>6, <2>7, <2>8
<1> QED
  BY <1>1, <1>2, <1>3, <1>4

LEMMA NextConfig == ConfigInv /\ (Config!Next \/ UNCHANGED configVars) => ConfigInv'
<1>1. ConfigInv /\ UNCHANGED configVars => ConfigInv'
  BY DEF configVars, ConfigInv, WatchTypes, Follows, Waits, Config!Running
<1>2. ConfigInv /\ Config!Next => ConfigInv'
  BY WriteStep, HandleStep, LifeStep DEF Config!Next, Config!Put, Config!Delete
<1> QED
  BY <1>1, <1>2

\* A running replica with no event left uses the stored address of every key that was
\* written, unless it did not watch when it was, or could not connect to it
\* (watcher.go:43, 76, 86), for any number of replicas, changes and restarts.
THEOREM ConfigurationFollowed == PartsSpec => []CurrentUnlessMissed
<1>1. PartsInit => ConfigInv
  BY InitConfig DEF PartsInit
<1>2. ConfigInv /\ [PartsNext]_partVars => ConfigInv'
  <2>1. [PartsNext]_partVars => Config!Next \/ UNCHANGED configVars
    BY DEF PartsNext, ConfigStep, partVars
  <2> QED
    BY <2>1, NextConfig
<1>3. ConfigInv => CurrentUnlessMissed
  <2> SUFFICES ASSUME ConfigInv, NEW n \in Node, NEW k \in Config!Keys,
                      Config!Running(n), queue[n] = <<>>, writes[k] > 0, k \notin missed[n]
               PROVE  client[n][k] = stored[k] \/ k \in refused[n]
    BY DEF CurrentUnlessMissed, Config!CurrentUnlessMissed
  <2> QED
    BY DEF ConfigInv, Follows, Waits
<1>4. PartsSpec => []ConfigInv
  BY <1>1, <1>2, PTL DEF PartsSpec
<1> QED
  BY <1>3, <1>4, PTL

-----------------------------------------------------------------------------
(* Recursive functions on the naturals.                                     *)

\* A set of naturals has a smallest element.
LEMMA Smallest ==
    ASSUME NEW S \in SUBSET Nat, S # {}
    PROVE  \E x \in S : \A y \in S : x <= y
<1> DEFINE R == {ss \in Nat \X Nat : ss[1] < ss[2]}
<1>1. IsWellFoundedOn(R, Nat)
  BY NatLessThanWellFounded DEF OpToRel
<1>2. PICK x \in S : \A y \in S : <<y, x>> \notin R
  <2> HIDE DEF R
  <2> QED
    BY <1>1, WFMin
<1>3. ASSUME NEW y \in S, y < x PROVE <<y, x>> \in R
  BY <1>3
<1>4. \A y \in S : ~(y < x)
  <2> HIDE DEF R
  <2> QED
    BY <1>2, <1>3
<1> QED
  BY <1>4

\* g takes the steps of a recursion from p to next on the numbers up to n.
Steps(g, n, B, base, p, next) ==
    \A m \in 0..n : g[m] = IF m \in B THEN base[m] ELSE next[m][g[p[m]]]

\* p goes down from every number outside B.
Descends(p, B) == \A n \in Nat \ B : p[n] \in Nat /\ p[n] < n

Solves(f, B, base, p, next) == \A n \in Nat :
    f[n] = IF n \in B THEN base[n] ELSE next[n][f[p[n]]]

\* A recursion that goes down has a solution.
LEMMA Recursion ==
    ASSUME NEW B \in SUBSET Nat, NEW V, NEW base \in [Nat -> V],
           NEW p, Descends(p, B), NEW next \in [Nat -> [V -> V]]
    PROVE  \E f \in [Nat -> V] : Solves(f, B, base, p, next)
<1>a. \A n \in Nat \ B : p[n] \in Nat /\ p[n] < n
  BY DEF Descends
<1> DEFINE Up(g, n) == Steps(g, n, B, base, p, next)
           Bad == {n \in Nat : ~\E g \in [Nat -> V] : Up(g, n)}
<1>1. ASSUME NEW n \in Nat, NEW g, NEW h, Up(g, n), Up(h, n)
      PROVE  \A m \in 0..n : g[m] = h[m]
  <2> DEFINE Differ == {m \in 0..n : g[m] # h[m]}
  <2>1. SUFFICES ASSUME Differ # {} PROVE FALSE
    OBVIOUS
  <2>a. Differ \subseteq Nat
    OBVIOUS
  <2>2. PICK m \in Differ : \A k \in Differ : m <= k
    <3> HIDE DEF Differ
    <3> QED
      BY <2>1, <2>a, Smallest
  <2>3. m \notin B => p[m] \in 0..n /\ p[m] \notin Differ
    BY <2>2, <1>a
  <2> QED
    BY <1>1, <2>2, <2>3 DEF Steps
<1>2. \A n \in Nat : \E g \in [Nat -> V] : Up(g, n)
  <2>1. SUFFICES ASSUME Bad # {} PROVE FALSE
    OBVIOUS
  <2>2. PICK n \in Bad : \A k \in Bad : n <= k
    BY <2>1, Smallest
  <2>3. \A k \in 0 .. n - 1 : k \notin Bad
    BY <2>2
  <2>4. PICK g \in [Nat -> V] : n > 0 => Up(g, n - 1)
    <3>1. CASE n = 0
      BY <3>1, <2>2
    <3>2. CASE n > 0
      BY <3>2, <2>3
    <3> QED
      BY <3>1, <3>2, <2>2
  <2> DEFINE v == IF n \in B THEN base[n] ELSE next[n][g[p[n]]]
             h == [g EXCEPT ![n] = v]
  <2>5. v \in V
    BY <2>2, <1>a
  <2>6. h \in [Nat -> V] /\ h[n] = v /\ \A k \in Nat \ {n} : h[k] = g[k]
    BY <2>2, <2>5
  <2>7. ASSUME NEW m \in 0..n
        PROVE  h[m] = IF m \in B THEN base[m] ELSE next[m][h[p[m]]]
    <3>1. m \notin B => p[m] \in Nat \ {n}
      BY <2>2, <1>a
    <3>2. m \notin B => h[p[m]] = g[p[m]]
      BY <3>1, <2>6
    <3>3. CASE m = n
      BY <3>2, <3>3, <2>6
    <3>4. CASE m # n
      <4>1. n > 0 /\ m \in 0 .. n - 1 /\ m \in Nat \ {n}
        BY <3>4, <2>2
      <4>2. g[m] = IF m \in B THEN base[m] ELSE next[m][g[p[m]]]
        BY <4>1, <2>4 DEF Steps
      <4> HIDE DEF h
      <4> QED
        BY <3>2, <4>1, <4>2, <2>6
    <3> QED
      BY <3>3, <3>4
  <2> HIDE DEF h
  <2> QED
    BY <2>2, <2>6, <2>7 DEF Steps
<1> DEFINE G(n) == CHOOSE g \in [Nat -> V] : Up(g, n)
           f == [n \in Nat |-> G(n)[n]]
<1>3. \A n \in Nat : G(n) \in [Nat -> V] /\ Up(G(n), n)
  BY <1>2
<1> HIDE DEF G
<1>4. f \in [Nat -> V]
  BY <1>3
<1>5. ASSUME NEW n \in Nat
      PROVE  f[n] = IF n \in B THEN base[n] ELSE next[n][f[p[n]]]
  <2>1. f[n] = IF n \in B THEN base[n] ELSE next[n][G(n)[p[n]]]
    BY <1>3 DEF Steps
  <2>2. ASSUME n \notin B PROVE G(n)[p[n]] = f[p[n]]
    <3>1. p[n] \in Nat /\ p[n] \in 0..p[n] /\ p[n] \in 0..n /\ 0..p[n] \subseteq 0..n
      BY <2>2, <1>a
    <3>2. Up(G(n), p[n])
      BY <3>1, <1>3 DEF Steps
    <3>3. G(n)[p[n]] = G(p[n])[p[n]]
      BY <3>1, <3>2, <1>1, <1>3
    <3> QED
      BY <3>1, <3>3
  <2> QED
    BY <2>1, <2>2
<1> QED
  BY <1>4, <1>5 DEF Solves

-----------------------------------------------------------------------------
(* Powers of two.                                                           *)

\* The equation TwoTo is defined by.
LEMMA TwoToFact ==
    /\ Money!TwoTo \in [Nat -> Nat \ {0}]
    /\ Money!TwoTo[0] = 1
    /\ \A n \in Nat : Money!TwoTo[n + 1] = 2 * Money!TwoTo[n]
<1> DEFINE B == {0}
           V == Nat \ {0}
           base == [n \in Nat |-> 1]
           p == [n \in Nat |-> n - 1]
           next == [n \in Nat |-> [v \in V |-> 2 * v]]
           Is(f) == f = [n \in Nat |-> IF n = 0 THEN 1 ELSE 2 * f[n - 1]]
<1>1. Money!TwoTo = CHOOSE f : Is(f)
  BY DEF Money!TwoTo
<1>2. PICK f \in [Nat -> V] : Solves(f, B, base, p, next)
  <2>1. /\ base \in [Nat -> V]
        /\ Descends(p, B)
        /\ next \in [Nat -> [V -> V]]
        /\ B \in SUBSET Nat
    BY DEF Descends
  <2> HIDE DEF B, V, base, p, next
  <2> QED
    BY <2>1, Recursion
<1>3. ASSUME NEW n \in Nat PROVE f[n] = IF n = 0 THEN 1 ELSE 2 * f[n - 1]
  <2>1. CASE n = 0
    BY <2>1, <1>2 DEF Solves
  <2>2. CASE n # 0
    <3>1. n - 1 \in Nat /\ f[n - 1] \in V
      BY <2>2, <1>2
    <3>2. next[n][f[n - 1]] = 2 * f[n - 1]
      BY <3>1
    <3> QED
      BY <1>2, <3>1, <3>2, <2>2 DEF Solves
  <2> QED
    BY <2>1, <2>2
<1>4. f = [n \in Nat |-> IF n = 0 THEN 1 ELSE 2 * f[n - 1]]
  BY <1>2, <1>3
<1>5. Is(f)
  BY <1>4
<1>6. Is(Money!TwoTo)
  <2> HIDE DEF Is
  <2> QED
    BY <1>1, <1>5
<1> QED
  <2> DEFINE T == Money!TwoTo
  <2>1. T = [n \in Nat |-> IF n = 0 THEN 1 ELSE 2 * T[n - 1]]
    BY <1>6
  <2> HIDE DEF T
  <2>2. T[0] = 1
    BY <2>1
  <2>3. \A n \in Nat : T[n + 1] = 2 * T[n]
    BY <2>1
  <2>4. \A n \in Nat : T[n] \in V
    <3> DEFINE Bad == {n \in Nat : T[n] \notin V}
    <3>1. SUFFICES ASSUME Bad # {} PROVE FALSE
      OBVIOUS
    <3>2. PICK n \in Bad : \A k \in Bad : n <= k
      BY <3>1, Smallest
    <3>3. CASE n = 0
      BY <3>2, <3>3, <2>2
    <3>4. CASE n # 0
      <4>1. n - 1 \in Nat /\ n - 1 \notin Bad
        BY <3>2, <3>4
      <4>2. T[n] = 2 * T[n - 1]
        BY <2>1, <3>4
      <4> QED
        BY <3>2, <4>1, <4>2
    <3> QED
      BY <3>3, <3>4
  <2>5. T \in [Nat -> V]
    BY <2>1, <2>4
  <2> QED
    BY <2>2, <2>3, <2>5 DEF T

\* A power of two divides every larger one.
LEMMA Divides == \A n \in Nat : \A m \in 0..n :
    \E k \in Nat \ {0} : Money!TwoTo[n] = k * Money!TwoTo[m]
<1> DEFINE T == Money!TwoTo
           Bad == {n \in Nat : ~\A m \in 0..n : \E k \in Nat \ {0} : T[n] = k * T[m]}
<1>1. SUFFICES ASSUME Bad # {} PROVE FALSE
  OBVIOUS
<1>2. PICK n \in Bad : \A k \in Bad : n <= k
  BY <1>1, Smallest
<1>3. PICK m \in 0..n : ~\E k \in Nat \ {0} : T[n] = k * T[m]
  BY <1>2
<1>4. T[n] \in Nat /\ T[m] \in Nat
  BY <1>2, <1>3, TwoToFact
<1>5. m < n
  <2>1. T[n] = 1 * T[n]
    BY <1>4
  <2> QED
    BY <1>2, <1>3, <2>1
<1>6. n - 1 \in Nat /\ m \in 0 .. n - 1 /\ T[n] = 2 * T[n - 1]
  BY <1>2, <1>3, <1>5, TwoToFact
<1>7. PICK k \in Nat \ {0} : T[n - 1] = k * T[m]
  BY <1>2, <1>6
<1>8. T[n] = (2 * k) * T[m] /\ 2 * k \in Nat \ {0}
  <2> HIDE DEF T
  <2> QED
    BY <1>4, <1>6, <1>7
<1> QED
  BY <1>3, <1>8

\* The smaller one of two powers of two divides the other.
-----------------------------------------------------------------------------
(* Floats.                                                                  *)

P == Money!Mantissa
O == Money!One

\* What the assumptions say.
LEMMA MoneyFact ==
    /\ Precision \in Nat \ {0} /\ Scale \in Nat \ {0} /\ Finer \in Nat \ {0}
    /\ Exponent \in Nat \ {0} /\ MaxUnits \in Nat
    /\ Single \in Nat /\ DailyLimit \in Nat
    /\ P > 4 * MaxUnits
    /\ DailyLimit < MaxUnits => P > 6 * DailyLimit
    /\ O >= P * Scale * Finer
  BY MoneyAssumption DEF Money!AmountsAssumption, Money!PrecisionAssumption,
     Money!LimitAssumption, Money!ExponentAssumption, P, O

\* The mantissa and the coin are powers of two.
LEMMA PowersFact ==
    /\ P = Money!TwoTo[Precision] /\ O = Money!TwoTo[Exponent]
    /\ P \in Nat /\ P >= 2 /\ O \in Nat \ {0}
<1>1. P = Money!TwoTo[Precision] /\ O = Money!TwoTo[Exponent]
  BY DEF P, O, Money!Mantissa, Money!One
<1>2. Precision - 1 \in Nat
  BY MoneyFact
<1>3. Money!TwoTo[Precision] = 2 * Money!TwoTo[Precision - 1]
  BY <1>2, MoneyFact, TwoToFact
<1> QED
  BY <1>1, <1>2, <1>3, TwoToFact, MoneyFact

\* The equation Step is defined by.
LEMMA StepRecursion ==
    /\ Money!Step \in [Nat -> Nat \ {0}]
    /\ \A n \in Nat : Money!Step[n] = IF n < P THEN 1 ELSE 2 * Money!Step[n \div 2]
<1> DEFINE B == 0 .. P - 1
           V == Nat \ {0}
           base == [n \in Nat |-> 1]
           p == [n \in Nat |-> n \div 2]
           next == [n \in Nat |-> [v \in V |-> 2 * v]]
           Is(f) == f = [n \in Nat |-> IF n < P THEN 1 ELSE 2 * f[n \div 2]]
<1>1. Money!Step = CHOOSE f : Is(f)
  BY DEF Money!Step, P
<1>2. PICK f \in [Nat -> V] : Solves(f, B, base, p, next)
  <2>1. /\ base \in [Nat -> V]
        /\ Descends(p, B)
        /\ next \in [Nat -> [V -> V]]
        /\ B \in SUBSET Nat
    BY PowersFact DEF Descends
  <2> HIDE DEF B, V, base, p, next
  <2> QED
    BY <2>1, Recursion
<1>3. ASSUME NEW n \in Nat PROVE f[n] = IF n < P THEN 1 ELSE 2 * f[n \div 2]
  <2>1. n \in B <=> n < P
    BY PowersFact
  <2>2. n \div 2 \in Nat
    OBVIOUS
  <2>3. next[n][f[n \div 2]] = 2 * f[n \div 2] /\ base[n] = 1 /\ p[n] = n \div 2
    BY <2>2
  <2> HIDE DEF B, V, base, p, next
  <2> QED
    BY <2>1, <2>3, <1>2 DEF Solves
<1>4. Is(f)
  BY <1>2, <1>3
<1>5. Is(Money!Step)
  <2> HIDE DEF Is
  <2> QED
    BY <1>1, <1>4
<1> DEFINE S == Money!Step
<1>6. S = [n \in Nat |-> IF n < P THEN 1 ELSE 2 * S[n \div 2]]
  BY <1>5
<1> HIDE DEF S
<1>7. \A n \in Nat : S[n] = IF n < P THEN 1 ELSE 2 * S[n \div 2]
  BY <1>6
<1>8. \A n \in Nat : S[n] \in V
  <2> DEFINE Bad == {n \in Nat : S[n] \notin V}
  <2>1. SUFFICES ASSUME Bad # {} PROVE FALSE
    OBVIOUS
  <2>2. PICK n \in Bad : \A k \in Bad : n <= k
    BY <2>1, Smallest
  <2>3. ~(n < P)
    BY <2>2, <1>7
  <2>4. n \div 2 \in Nat /\ n \div 2 < n
    BY <2>2, <2>3, PowersFact
  <2>5. S[n \div 2] \in V
    BY <2>2, <2>4
  <2> QED
    BY <2>2, <2>3, <2>5, <1>7
<1>9. S \in [Nat -> V]
  BY <1>6, <1>8
<1> QED
  BY <1>7, <1>9 DEF S

\* The last bit of a float at n Ulps is the power of two that leaves it Precision
\* bits, or an Ulp.
LEMMA StepFact == \A n \in Nat :
    /\ \E s \in Nat : Money!Step[n] = Money!TwoTo[s]
    /\ n < P * Money!Step[n]
    /\ Money!Step[n] = 1 \/ P * Money!Step[n] <= 2 * n
<1> DEFINE T == Money!TwoTo
           S == Money!Step
           Good(n) == /\ \E s \in Nat : S[n] = T[s]
                      /\ n < P * S[n]
                      /\ S[n] = 1 \/ P * S[n] <= 2 * n
           Bad == {n \in Nat : ~Good(n)}
<1>a. \A n \in Nat : S[n] \in Nat /\ S[n] = IF n < P THEN 1 ELSE 2 * S[n \div 2]
  BY StepRecursion
<1>b. T[0] = 1 /\ \A n \in Nat : T[n + 1] = 2 * T[n]
  BY TwoToFact
<1> HIDE DEF T, S
<1>1. SUFFICES ASSUME Bad # {} PROVE FALSE
  BY DEF T, S
<1>2. PICK n \in Bad : \A k \in Bad : n <= k
  BY <1>1, Smallest
<1>3. ~(n < P)
  <2>1. ASSUME n < P PROVE Good(n)
    BY <2>1, <1>2, <1>a, <1>b, PowersFact
  <2> QED
    BY <1>2, <2>1
<1> DEFINE m == n \div 2
<1>4. m \in Nat /\ m < n /\ 2 * m <= n /\ n <= 2 * m + 1
  BY <1>2, <1>3, PowersFact
<1> HIDE DEF m
<1>5. S[n] = 2 * S[m]
  BY <1>2, <1>3, <1>a DEF m
<1>6. Good(m)
  <2>1. m \notin Bad
    BY <1>2, <1>4
  <2> QED
    BY <1>4, <2>1
<1>7. PICK s \in Nat : S[m] = T[s]
  BY <1>6
<1>8. S[n] = T[s + 1] /\ s + 1 \in Nat
  BY <1>5, <1>7, <1>b
<1>9. P * S[n] = 2 * (P * S[m]) /\ P * S[m] \in Nat
  BY <1>4, <1>5, <1>a, PowersFact
<1>10. n < P * S[n]
  BY <1>2, <1>4, <1>6, <1>9
<1>11. P * S[n] <= 2 * n
  <2>1. CASE S[m] = 1
    BY <2>1, <1>2, <1>3, <1>9, PowersFact
  <2>2. CASE P * S[m] <= 2 * m
    BY <2>2, <1>2, <1>4, <1>9
  <2> QED
    BY <1>6, <2>1, <2>2
<1> QED
  BY <1>2, <1>8, <1>10, <1>11

\* A power of two above a number is a multiple of its last bit when Precision bits
\* reach that far.
LEMMA StepDivides ==
    ASSUME NEW n \in Nat, NEW j \in Nat, n < P * Money!TwoTo[j]
    PROVE  \E k \in Nat \ {0} : Money!TwoTo[j] = k * Money!Step[n]
<1> DEFINE T == Money!TwoTo
           S == Money!Step
<1>1. T[j] \in Nat \ {0} /\ S[n] \in Nat \ {0}
  BY TwoToFact, StepRecursion
<1>2. CASE S[n] = 1
  <2>1. T[j] = T[j] * S[n]
    BY <1>1, <1>2
  <2> QED
    BY <1>1, <2>1
<1>3. CASE P * S[n] <= 2 * n
  <2>1. S[n] < 2 * T[j]
    <3> HIDE DEF S, T
    <3>1. n < P * T[j] /\ P * T[j] \in Nat /\ P * S[n] \in Nat
      BY <1>1, PowersFact DEF T
    <3>2. P * S[n] < P * (2 * T[j])
      BY <1>1, <1>3, <3>1, PowersFact
    <3>3. ASSUME S[n] >= 2 * T[j] PROVE P * S[n] >= P * (2 * T[j])
      BY <1>1, <3>3, PowersFact
    <3> QED
      BY <1>1, <3>2, <3>3, PowersFact
  <2>2. PICK s \in Nat : S[n] = T[s]
    BY StepFact
  <2>3. s <= j
    <3>1. ASSUME s > j PROVE FALSE
      <4>1. PICK k \in Nat \ {0} : T[s] = k * T[j + 1]
        BY <3>1, Divides
      <4>2. T[j + 1] = 2 * T[j]
        BY TwoToFact
      <4> HIDE DEF S, T
      <4>3. k * (2 * T[j]) >= 1 * (2 * T[j])
        BY <1>1, <4>1
      <4> QED
        BY <1>1, <2>1, <2>2, <4>1, <4>2, <4>3
    <3> QED
      BY <3>1
  <2> QED
    BY <2>2, <2>3, Divides
<1> QED
  BY <1>2, <1>3, StepFact

\* Division with remainder.
LEMMA Division ==
    ASSUME NEW a \in Nat, NEW b \in Nat \ {0}
    PROVE  /\ a \div b \in Nat /\ a % b \in Nat /\ a % b < b
           /\ a = (a \div b) * b + (a % b)
  OBVIOUS

\* Rounding errs by half of the divisor at most.
LEMMA RoundFact ==
    ASSUME NEW a \in Nat, NEW b \in Nat \ {0}
    PROVE  LET q == Money!RoundEven(a, b) IN
           /\ q \in Nat
           /\ 2 * (q * b) <= 2 * a + b
           /\ 2 * a <= 2 * (q * b) + b
<1> DEFINE d == a \div b
           r == a % b
           q == Money!RoundEven(a, b)
<1>1. d \in Nat /\ r \in Nat /\ r < b /\ a = d * b + r
  BY Division
<1>2. q = IF 2 * r > b \/ (2 * r = b /\ d % 2 = 1) THEN d + 1 ELSE d
  BY DEF Money!RoundEven
<1> HIDE DEF d, r, q
<1>3. CASE q = d + 1 /\ 2 * r >= b
  <2>1. q * b = d * b + b /\ d * b \in Nat
    BY <1>1, <1>3
  <2> QED
    BY <1>1, <1>3, <2>1 DEF q
<1>4. CASE q = d /\ 2 * r <= b
  <2>1. q * b = d * b /\ d * b \in Nat
    BY <1>1, <1>4
  <2> QED
    BY <1>1, <1>4, <2>1 DEF q
<1> QED
  BY <1>1, <1>2, <1>3, <1>4

\* So what lies on one side of a multiple by less than half of the divisor is
\* rounded to that side.
LEMMA RoundStays ==
    ASSUME NEW a \in Nat, NEW b \in Nat \ {0}, NEW k \in Nat
    PROVE  /\ 2 * a < 2 * (k * b) + b => Money!RoundEven(a, b) <= k
           /\ 2 * a + b > 2 * (k * b) => Money!RoundEven(a, b) >= k
<1> DEFINE q == Money!RoundEven(a, b)
<1>1. q \in Nat /\ 2 * (q * b) <= 2 * a + b /\ 2 * a <= 2 * (q * b) + b
  BY RoundFact
<1> HIDE DEF q
<1>2. q * b \in Nat /\ k * b \in Nat
  BY <1>1
<1>3. ASSUME q > k PROVE q * b >= k * b + b
  <2>1. q >= k + 1 /\ q * b >= (k + 1) * b
    BY <1>1, <1>3
  <2> QED
    BY <2>1, <1>1, <1>2
<1>4. ASSUME q < k PROVE k * b >= q * b + b
  <2>1. k >= q + 1 /\ k * b >= (q + 1) * b
    BY <1>1, <1>4
  <2> QED
    BY <2>1, <1>1, <1>2
<1>5. 2 * a < 2 * (k * b) + b => q <= k
  BY <1>1, <1>2, <1>3
<1>6. 2 * a + b > 2 * (k * b) => q >= k
  BY <1>1, <1>2, <1>4
<1> QED
  BY <1>5, <1>6 DEF q

\* The nearest float errs by one part in P at most.
LEMMA NearestFact ==
    ASSUME NEW n \in Nat
    PROVE  LET v == Money!Nearest(n) IN
           /\ v \in Nat
           /\ P * v <= P * n + n
           /\ P * n <= P * v + n
<1> DEFINE b == Money!Step[n]
           q == Money!RoundEven(n, b)
<1>1. b \in Nat \ {0} /\ (b = 1 \/ P * b <= 2 * n)
  BY StepRecursion, StepFact
<1>2. q \in Nat /\ 2 * (q * b) <= 2 * n + b /\ 2 * n <= 2 * (q * b) + b
  <2> HIDE DEF b
  <2> QED
    BY <1>1, RoundFact
<1>3. Money!Nearest(n) = q * b
  BY DEF Money!Nearest
<1> HIDE DEF b, q
<1> DEFINE v == q * b
<1>4. v \in Nat
  BY <1>1, <1>2
<1>5. 2 * v <= 2 * n + b /\ 2 * n <= 2 * v + b
  BY <1>2
<1>6. CASE b = 1
  <2>1. v = n
    <3> HIDE DEF v
    <3> QED
      BY <1>4, <1>5, <1>6
  <2>2. P * n \in Nat
    BY PowersFact
  <2> HIDE DEF v
  <2> QED
    BY <2>1, <2>2, <1>3 DEF v
<1>7. CASE P * b <= 2 * n
  <2> HIDE DEF v
  <2>1. P * (2 * v) <= P * (2 * n + b) /\ P * (2 * n) <= P * (2 * v + b)
    BY <1>1, <1>4, <1>5, PowersFact
  <2>2. /\ P * (2 * v) = 2 * (P * v) /\ P * (2 * n) = 2 * (P * n)
        /\ P * (2 * n + b) = 2 * (P * n) + P * b
        /\ P * (2 * v + b) = 2 * (P * v) + P * b
        /\ P * v \in Nat /\ P * n \in Nat /\ P * b \in Nat
    BY <1>1, <1>4, PowersFact
  <2>3. P * v <= P * n + n /\ P * n <= P * v + n
    BY <1>7, <2>1, <2>2
  <2> QED
    BY <2>3, <1>3, <1>4 DEF v
<1> QED
  BY <1>1, <1>6, <1>7

\* Multiples of a power of two that the mantissa reaches are floats: what lies
\* between two of them stays there.
LEMMA NearestStays ==
    ASSUME NEW n \in Nat, NEW j \in Nat, n < P * Money!TwoTo[j], NEW k \in Nat
    PROVE  /\ n <= k * Money!TwoTo[j] => Money!Nearest(n) <= k * Money!TwoTo[j]
           /\ n >= k * Money!TwoTo[j] => Money!Nearest(n) >= k * Money!TwoTo[j]
<1> DEFINE b == Money!Step[n]
           T == Money!TwoTo[j]
           q == Money!RoundEven(n, b)
<1>1. b \in Nat \ {0}
  BY StepRecursion
<1>2. PICK l \in Nat \ {0} : T = l * b
  BY StepDivides
<1>3. Money!Nearest(n) = q * b
  BY DEF Money!Nearest
<1> HIDE DEF b, T
<1> DEFINE m == k * l
<1>4. m \in Nat /\ k * T = m * b /\ m * b \in Nat
  BY <1>1, <1>2
<1>5. q \in Nat
  BY <1>1, RoundFact
<1> HIDE DEF m
<1>6. /\ 2 * n < 2 * (m * b) + b => q <= m
      /\ 2 * n + b > 2 * (m * b) => q >= m
  BY <1>1, <1>4, RoundStays
<1> HIDE DEF q
<1>7. (q <= m => q * b <= m * b) /\ (q >= m => q * b >= m * b)
  BY <1>1, <1>4, <1>5
<1>8. (n <= m * b => q <= m) /\ (n >= m * b => q >= m)
  BY <1>1, <1>4, <1>6
<1> QED
  BY <1>3, <1>4, <1>7, <1>8 DEF T

\* What a decimal is read as errs by one part in P at most, when a b-th of a coin
\* has all bits of a float.
LEMMA ParseFact ==
    ASSUME NEW a \in Nat, NEW b \in Nat \ {0}, P * b <= O
    PROVE  LET x == Money!Parse(a, b) IN
           /\ x \in Nat
           /\ P * (x * b) <= P * (a * O) + a * O
           /\ P * (a * O) <= P * (x * b) + a * O
<1> DEFINE e == a * O
           n == e \div b
           t == Money!Step[n]
           q == Money!RoundEven(e, b * t)
           x == q * t
<1>1. e \in Nat
  BY PowersFact
<1>2. n \in Nat /\ n * b <= e /\ e < n * b + b
  <2> HIDE DEF e
  <2>1. n \in Nat /\ e % b \in Nat /\ e % b < b /\ e = n * b + (e % b)
    BY <1>1, Division
  <2> HIDE DEF n
  <2>2. n * b \in Nat
    BY <2>1
  <2> QED
    BY <1>1, <2>1, <2>2
<1>3. Money!Parse(a, b) = x
  BY DEF Money!Parse, O
<1>4. t \in Nat \ {0} /\ n < P * t /\ (t = 1 \/ P * t <= 2 * n)
  <2> HIDE DEF n
  <2> QED
    BY <1>2, StepRecursion, StepFact
<1> HIDE DEF t
<1>5. b * t \in Nat \ {0}
  BY <1>4
<1>6. q \in Nat /\ 2 * (q * (b * t)) <= 2 * e + b * t /\ 2 * e <= 2 * (q * (b * t)) + b * t
  <2> HIDE DEF e
  <2> QED
    BY <1>1, <1>5, RoundFact
<1> HIDE DEF q
<1>7. x \in Nat /\ q * (b * t) = x * b /\ x * b \in Nat
  BY <1>4, <1>6
<1>8. P * (b * t) <= 2 * e \/ a = 0
  <2>1. CASE t = 1
    <3>1. a = 0 \/ a * O >= 1 * O
      BY PowersFact
    <3> QED
      BY <2>1, <3>1, PowersFact
  <2>2. CASE P * t <= 2 * n
    <3> HIDE DEF n, e
    <3>1. (P * t) * b <= (2 * n) * b
      BY <1>2, <1>4, <2>2, PowersFact
    <3>2. (P * t) * b = P * (b * t) /\ (2 * n) * b = 2 * (n * b)
      BY <1>2, <1>4, PowersFact
    <3> QED
      BY <1>1, <1>2, <1>4, <3>1, <3>2, PowersFact
  <2> QED
    BY <1>4, <2>1, <2>2
<1>9. CASE P * (b * t) <= 2 * e
  <2> DEFINE y == x * b
             c == b * t
  <2>1. 2 * y <= 2 * e + c /\ 2 * e <= 2 * y + c /\ y \in Nat /\ c \in Nat /\ P * c <= 2 * e
    BY <1>5, <1>6, <1>7, <1>9
  <2> HIDE DEF y, c, e, x
  <2>2. P * (2 * y) <= P * (2 * e + c) /\ P * (2 * e) <= P * (2 * y + c)
    BY <1>1, <2>1, PowersFact
  <2>3. /\ P * (2 * y) = 2 * (P * y) /\ P * (2 * e) = 2 * (P * e)
        /\ P * (2 * e + c) = 2 * (P * e) + P * c
        /\ P * (2 * y + c) = 2 * (P * y) + P * c
        /\ P * y \in Nat /\ P * e \in Nat /\ P * c \in Nat
    BY <1>1, <2>1, PowersFact
  <2>4. P * y <= P * e + e /\ P * e <= P * y + e
    BY <1>1, <2>1, <2>2, <2>3
  <2> QED
    BY <2>4, <1>3, <1>7 DEF y, e
<1>10. CASE a = 0
  <2>1. e = 0 /\ n = 0
    <3>1. e = 0
      BY <1>10, PowersFact
    <3> HIDE DEF e
    <3>2. n * b <= 0 /\ (n > 0 => n * b >= b)
      BY <1>2, <3>1
    <3> QED
      BY <1>2, <3>1, <3>2
  <2>2. t = 1
    BY <1>4, <2>1, PowersFact
  <2>3. q = 0
    <3>1. q * b \in Nat /\ 2 * (q * b) <= b /\ (q > 0 => q * b >= b)
      BY <1>6, <2>1, <2>2
    <3> QED
      BY <1>6, <3>1
  <2>4. x = 0
    BY <2>2, <2>3
  <2> QED
    BY <1>3, <1>10, <2>4, PowersFact
<1> QED
  BY <1>8, <1>9, <1>10

-----------------------------------------------------------------------------
(* Amounts.                                                                 *)

\* Factors may be added and cancelled.
LEMMA Factor ==
    ASSUME NEW c \in Nat \ {0}, NEW a \in Int, NEW b \in Int
    PROVE  (a <= b <=> c * a <= c * b) /\ (a < b <=> c * a < c * b)
<1>1. ASSUME a <= b PROVE c * a <= c * b
  BY <1>1
<1>2. ASSUME a < b PROVE c * a < c * b
  BY <1>2
<1> QED
  BY <1>1, <1>2

\* A unit, and a unit of requests, is at least a mantissa.
LEMMA ScaleFact == P * Scale <= O /\ P * (Scale * Finer) <= O /\ Scale * Finer \in Nat \ {0}
<1>1. Scale \in Nat \ {0} /\ Finer \in Nat \ {0} /\ P \in Nat /\ P >= 2 /\ O \in Nat
  BY MoneyFact, PowersFact
<1>2. (P * Scale) * Finer <= O
  BY MoneyFact
<1>3. P * Scale \in Nat /\ (P * Scale) * Finer >= P * Scale
  BY <1>1
<1>4. (P * Scale) * Finer = P * (Scale * Finer) /\ Scale * Finer \in Nat \ {0}
  BY <1>1
<1> QED
  BY <1>1, <1>2, <1>3, <1>4

\* What a row is read as differs from it by one in P at most.
LEMMA FromRowFact ==
    ASSUME NEW u \in Nat
    PROVE  LET x == Money!FromRow(u) IN
           /\ x \in Nat
           /\ P * (x * Scale) <= P * (u * O) + u * O
           /\ P * (u * O) <= P * (x * Scale) + u * O
  BY ParseFact, ScaleFact, MoneyFact DEF Money!FromRow

\* What a request is read as exceeds it by one in P at most.
LEMMA RequestFact ==
    ASSUME NEW a \in Nat
    PROVE  LET x == Money!Request(a) IN
           /\ x \in Nat
           /\ P * (x * (Scale * Finer)) <= P * (a * O) + a * O
  BY ParseFact, ScaleFact DEF Money!Request

\* Two exponents below the one of a power of two that exceeds 4.
LEMMA Quarter ==
    ASSUME NEW n \in Nat, Money!TwoTo[n] > 4
    PROVE  /\ n - 2 \in Nat
           /\ Money!TwoTo[n] = 4 * Money!TwoTo[n - 2]
           /\ Money!TwoTo[n - 2] \in Nat \ {0}
<1> DEFINE T == Money!TwoTo
<1>1. T[0] = 1 /\ \A m \in Nat : T[m] \in Nat \ {0} /\ T[m + 1] = 2 * T[m]
  BY TwoToFact
<1>2. T[0 + 1] = 2
  BY <1>1
<1>3. n # 0 /\ n # 1
  BY <1>1, <1>2
<1>4. n - 2 \in Nat /\ n - 1 \in Nat
  BY <1>3
<1> HIDE DEF T
<1>5. T[(n - 2) + 1] = 2 * T[n - 2] /\ T[(n - 1) + 1] = 2 * T[n - 1]
  BY <1>1, <1>4
<1>6. T[n - 1] = 2 * T[n - 2] /\ T[n] = 2 * T[n - 1]
  BY <1>5
<1> QED
  BY <1>1, <1>4, <1>6 DEF T

\* A row survives the way into a float and back, and into satoshis.
LEMMA RoundTrip ==
    ASSUME NEW u \in Nat, 4 * u < P
    PROVE  /\ Money!ToRow(Money!FromRow(u)) = u
           /\ Money!NewAmount(Money!FromRow(u)) = u
<1> DEFINE x == Money!FromRow(u)
           X == x * Scale
           U == u * O
<1>1. x \in Nat /\ P * X <= P * U + U /\ P * U <= P * X + U
  BY FromRowFact
<1>2. X \in Nat /\ U \in Nat
  BY <1>1, MoneyFact, PowersFact
<1> HIDE DEF x
<1>3. 4 * X < 4 * U + O /\ 4 * U < 4 * X + O
  <2>1. 4 * U < P * O
    BY PowersFact
  <2> HIDE DEF X, U
  <2>2. P * (4 * X) = 4 * (P * X) /\ P * (4 * U + O) = 4 * (P * U) + P * O
    BY <1>2, PowersFact
  <2>3. P * (4 * U) = 4 * (P * U) /\ P * (4 * X + O) = 4 * (P * X) + P * O
    BY <1>2, PowersFact
  <2>4. P * X \in Nat /\ P * U \in Nat /\ P * O \in Nat
    BY <1>2, PowersFact
  <2>5. P * (4 * X) < P * (4 * U + O) /\ P * (4 * U) < P * (4 * X + O)
    BY <1>1, <1>2, <2>1, <2>2, <2>3, <2>4
  <2> QED
    BY <1>2, <2>5, Factor, PowersFact
<1> HIDE DEF X
<1>4. Money!ToRow(x) = u
  <2>1. Money!ToRow(x) = Money!RoundEven(X, O)
    BY DEF Money!ToRow, X, O
  <2>2. Money!RoundEven(X, O) \in Nat
    BY <1>2, RoundFact, PowersFact
  <2>3. 2 * X < 2 * (u * O) + O /\ 2 * X + O > 2 * (u * O)
    <3> HIDE DEF U
    <3>1. 2 * X < 2 * U + O /\ 2 * X + O > 2 * U
      BY <1>2, <1>3, PowersFact
    <3> QED
      BY <3>1 DEF U
  <2>4. Money!RoundEven(X, O) <= u /\ Money!RoundEven(X, O) >= u
    BY <1>2, <2>3, RoundStays, PowersFact
  <2> QED
    BY <2>1, <2>2, <2>4
<1> DEFINE y == Money!Nearest(X)
           h == O \div 2
           v == Money!Nearest(y + h)
<1>5. Money!NewAmount(x) = v \div O
  BY DEF Money!NewAmount, Money!Plus, X, O
<1>6. CASE u = 0
  <2>1. X = 0
    <3>1. U = 0
      BY <1>6, PowersFact
    <3> HIDE DEF U
    <3>2. P * X <= 0
      BY <1>1, <3>1, PowersFact
    <3> QED
      BY <1>2, <3>2, PowersFact
  <2>2. y = 0
    <3>1. y \in Nat /\ P * y <= P * X + X
      BY <1>2, NearestFact
    <3> HIDE DEF y
    <3>2. P * y <= 0
      BY <2>1, <3>1, PowersFact
    <3> QED
      BY <3>1, <3>2, PowersFact
  <2>3. h \in Nat /\ 2 * h <= O
    BY PowersFact
  <2>4. v \in Nat /\ P * v <= P * h + h
    BY <2>2, <2>3, NearestFact
  <2>5. v < O
    <3> HIDE DEF v, h
    <3>1. P * (4 * v) <= P * (4 * h) + 4 * h /\ 4 * h <= 2 * O
      BY <2>3, <2>4, PowersFact
    <3>2. P * (4 * h) <= P * (2 * O) /\ 2 * O <= P * O
      BY <2>3, PowersFact
    <3>3. P * (4 * v) <= P * (3 * O)
      BY <2>3, <2>4, <3>1, <3>2, PowersFact
    <3>4. 4 * v <= 3 * O
      BY <2>4, <3>3, Factor, PowersFact
    <3> QED
      BY <2>4, <3>4, PowersFact
  <2>6. v \div O = 0
    <3> HIDE DEF v
    <3> QED
      BY <2>4, <2>5, PowersFact
  <2> QED
    BY <1>4, <1>5, <1>6, <2>6 DEF x
<1>7. CASE u # 0
  <2> DEFINE T == Money!TwoTo[Exponent - 2]
             K == Money!TwoTo[Precision - 2]
  <2>1. P > 4 /\ O > 4
    <3>1. P * Scale >= P /\ P * Scale \in Nat
      BY MoneyFact, PowersFact
    <3> QED
      BY <1>7, <3>1, ScaleFact, PowersFact
  <2>2. T \in Nat \ {0} /\ O = 4 * T /\ K \in Nat /\ P = 4 * K /\ Exponent - 2 \in Nat
    BY <2>1, Quarter, PowersFact, MoneyFact
  <2>3. u + 1 <= K
    BY <2>2
  <2>4. \A n, k \in Nat :
          /\ n < P * T /\ n <= k * T => Money!Nearest(n) <= k * T
          /\ n < P * T /\ n >= k * T => Money!Nearest(n) >= k * T
    BY <2>2, NearestStays
  <2> HIDE DEF T, K
  <2>5. U = (4 * u) * T
    BY <2>2 DEF U
  <2>6. X < U + T /\ U < X + T
    <3> HIDE DEF U
    <3> QED
      BY <1>2, <1>3, <2>2
  <2>7. /\ (4 * u + 1) * T = U + T /\ (4 * u - 1) * T = U - T
        /\ (4 * u + 3) * T = U + 3 * T /\ (4 * u + 4) * T = U + 4 * T
        /\ (4 * u + 4) * T <= P * T
    <3>1. (4 * u + 4) <= P /\ 4 * u + 4 \in Nat
      BY <2>2, <2>3
    <3> QED
      BY <2>2, <2>5, <3>1, PowersFact
  <2> DEFINE PT == P * T
  <2>8. PT \in Nat /\ U + 4 * T <= PT
    BY <2>2, <2>7, PowersFact
  <2>9. 4 * u + 1 \in Nat /\ 4 * u - 1 \in Nat /\ 4 * u + 3 \in Nat
    BY <1>7
  <2>10. y \in Nat
    BY <1>2, NearestFact
  <2>11. y <= U + T /\ y >= U - T
    <3>1. X < PT /\ X <= (4 * u + 1) * T /\ X >= (4 * u - 1) * T
      <4> HIDE DEF PT, U
      <4> QED
        BY <1>2, <2>2, <2>6, <2>7, <2>8
    <3> QED
      BY <1>2, <2>4, <2>7, <2>9, <3>1
  <2> HIDE DEF y
  <2>12. h = 2 * T
    BY <2>2
  <2> DEFINE w == y + h
  <2>13. w \in Nat /\ w <= U + 3 * T /\ w >= U + T
    <3> HIDE DEF U, h
    <3> QED
      BY <1>2, <2>2, <2>10, <2>11, <2>12
  <2> HIDE DEF w
  <2>14. w < PT /\ w <= (4 * u + 3) * T /\ w >= (4 * u + 1) * T
    <3> HIDE DEF PT, U
    <3> QED
      BY <1>2, <2>2, <2>7, <2>8, <2>13
  <2>15. Money!Nearest(w) <= U + 3 * T /\ Money!Nearest(w) >= U + T
    BY <2>4, <2>7, <2>9, <2>13, <2>14
  <2>16. Money!Nearest(w) \in Nat /\ Money!Nearest(w) = v
    BY <2>13, NearestFact DEF w
  <2> HIDE DEF v
  <2>17. v >= u * O /\ v < u * O + O
    <3>1. U = u * O
      BY DEF U
    <3> HIDE DEF U
    <3> QED
      BY <1>2, <2>2, <2>15, <2>16, <3>1
  <2>18. v \div O = u
    <3> DEFINE q == v \div O
    <3>1. q \in Nat /\ v = q * O + (v % O) /\ v % O \in Nat /\ v % O < O
      BY <2>16, Division, PowersFact
    <3> HIDE DEF q
    <3>2. q * O < u * O + O /\ u * O < q * O + O
      BY <2>16, <2>17, <3>1, PowersFact
    <3>3. O * q < O * (u + 1) /\ O * u < O * (q + 1)
      BY <3>1, <3>2, PowersFact
    <3>4. q < u + 1 /\ u < q + 1
      BY <3>1, <3>3, Factor, PowersFact
    <3> QED
      BY <3>1, <3>4 DEF q
  <2> QED
    BY <1>4, <1>5, <2>18 DEF x
<1> QED
  BY <1>6, <1>7

\* The difference of two sums, as a float.
LEMMA MinusFact ==
    ASSUME NEW d \in Nat, NEW c \in Nat, c < d, 4 * d < P
    PROVE  LET x == Money!FromRow(d)
               y == Money!FromRow(c)
               v == Money!Minus(x, y)
               D == (x - y) * Scale
               V == v * Scale
           IN  /\ D \in Nat /\ v \in Nat /\ V \in Nat
               /\ P * D <= (P * (d - c) + (d + c)) * O
               /\ P * D >= (P * (d - c) - (d + c)) * O
               /\ P * V <= (P + 1) * D
               /\ P * V >= (P - 1) * D
<1> DEFINE x == Money!FromRow(d)
           y == Money!FromRow(c)
           v == Money!Minus(x, y)
           X == x * Scale
           Y == y * Scale
           D == (x - y) * Scale
           V == v * Scale
<1>a. P \in Nat /\ P >= 2 /\ O \in Nat \ {0} /\ Scale \in Nat \ {0}
  BY PowersFact, MoneyFact
<1>1. /\ x \in Nat /\ P * X <= P * (d * O) + d * O /\ P * (d * O) <= P * X + d * O
      /\ y \in Nat /\ P * Y <= P * (c * O) + c * O /\ P * (c * O) <= P * Y + c * O
  BY FromRowFact
<1> HIDE DEF x, y
<1>2. X \in Nat /\ Y \in Nat /\ D = X - Y
  BY <1>1, <1>a
<1>3. P * D = P * X - P * Y /\ P * X \in Nat /\ P * Y \in Nat
  BY <1>2, <1>a
<1>4. /\ (P * (d - c) + (d + c)) * O = P * (d * O) - P * (c * O) + d * O + c * O
      /\ (P * (d - c) - (d + c)) * O = P * (d * O) - P * (c * O) - d * O - c * O
      /\ P * (d * O) \in Nat /\ P * (c * O) \in Nat /\ d * O \in Nat /\ c * O \in Nat
  BY <1>a
<1>5. /\ P * D <= (P * (d - c) + (d + c)) * O
      /\ P * D >= (P * (d - c) - (d + c)) * O
  <2> HIDE DEF X, Y, D
  <2> QED
    BY <1>1, <1>3, <1>4
<1>6. D > 0
  <2>1. P * (d - c) >= P
    BY <1>a
  <2>2. P * (d - c) - (d + c) > 0 /\ P * (d - c) - (d + c) \in Int
    BY <1>a, <2>1
  <2>3. (P * (d - c) - (d + c)) * O > 0
    BY <1>a, <2>2
  <2>4. D \in Int
    BY <1>2
  <2> HIDE DEF D
  <2>5. P * D > 0
    BY <1>5, <2>3, <2>4, <1>a
  <2> QED
    BY <2>4, <2>5, <1>a
<1>7. x > y
  <2>1. x <= y => D <= 0
    BY <1>1, <1>a
  <2> QED
    BY <1>1, <1>2, <1>6, <2>1
<1> DEFINE n == x - y
<1>8. n \in Nat /\ v = Money!Nearest(n)
  BY <1>1, <1>7 DEF Money!Minus
<1> HIDE DEF n, v
<1>9. v \in Nat /\ P * v <= P * n + n /\ P * n <= P * v + n
  BY <1>8, NearestFact
<1>10. D = n * Scale /\ D \in Nat
  BY <1>2, <1>6 DEF n
<1> HIDE DEF D
<1>11. V \in Nat
  BY <1>9, <1>a
<1>12. (P * v) * Scale <= (P * n + n) * Scale /\ (P * n) * Scale <= (P * v + n) * Scale
  <2>1. P * v \in Int /\ P * n + n \in Int /\ P * n \in Int /\ P * v + n \in Int
    BY <1>8, <1>9, <1>a
  <2> DEFINE a1 == P * v
             a2 == P * n + n
             a3 == P * n
             a4 == P * v + n
  <2>2. a1 \in Int /\ a2 \in Int /\ a3 \in Int /\ a4 \in Int /\ a1 <= a2 /\ a3 <= a4
    BY <2>1, <1>9
  <2> HIDE DEF a1, a2, a3, a4
  <2>3. a1 * Scale <= a2 * Scale /\ a3 * Scale <= a4 * Scale
    BY <2>2, <1>a
  <2> QED
    BY <2>3 DEF a1, a2, a3, a4
<1>13. /\ (P * v) * Scale = P * V /\ (P * n + n) * Scale = (P + 1) * D
       /\ (P * n) * Scale = P * D /\ (P * v + n) * Scale = P * V + D
       /\ (P - 1) * D = P * D - D
  BY <1>8, <1>9, <1>10, <1>a
<1>14. P * V <= (P + 1) * D /\ P * V >= (P - 1) * D
  <2> HIDE DEF V
  <2> QED
    BY <1>10, <1>11, <1>12, <1>13, <1>a
<1> QED
  BY <1>5, <1>9, <1>10, <1>11, <1>14 DEF D, v, n, x, y

\* A request of no more than that difference gets a row of no more than it.
LEMMA RequestCovered ==
    ASSUME NEW d \in Nat, NEW c \in Nat, c <= d, 4 * d < P,
           NEW x \in Nat, x <= Money!Minus(Money!FromRow(d), Money!FromRow(c))
    PROVE  Money!ToRow(x) <= d - c
<1> DEFINE X == x * Scale
<1>a. P \in Nat /\ P >= 2 /\ O \in Nat \ {0} /\ Scale \in Nat \ {0}
  BY PowersFact, MoneyFact
<1>1. X \in Nat /\ Money!ToRow(x) = Money!RoundEven(X, O)
  BY <1>a DEF Money!ToRow, O
<1>2. SUFFICES 2 * X < 2 * ((d - c) * O) + O
  <2>1. d - c \in Nat
    OBVIOUS
  <2> HIDE DEF X
  <2> QED
    BY <1>1, <1>a, <2>1, RoundStays
<1>3. CASE c = d
  <2>1. Money!FromRow(d) \in Nat
    BY FromRowFact
  <2>2. Money!Minus(Money!FromRow(d), Money!FromRow(c)) = Money!Nearest(0)
    BY <1>3, <2>1 DEF Money!Minus
  <2>3. Money!Nearest(0) = 0
    <3> DEFINE z == Money!Nearest(0)
    <3>1. z \in Nat /\ P * z <= P * 0 + 0
      BY NearestFact
    <3> HIDE DEF z
    <3> QED
      BY <3>1, <1>a DEF z
  <2>4. X = 0
    BY <2>2, <2>3, <1>a
  <2> QED
    BY <1>3, <2>4, <1>a
<1>4. CASE c < d
  <2> DEFINE k == d - c
             e == d + c
             y == Money!FromRow(d)
             z == Money!FromRow(c)
             v == Money!Minus(y, z)
             D == (y - z) * Scale
             V == v * Scale
  <2>1. /\ D \in Nat /\ v \in Nat /\ V \in Nat
        /\ P * D <= (P * k + e) * O
        /\ P * V <= (P + 1) * D
    BY <1>4, MinusFact
  <2> HIDE DEF y, z
  <2>2. k \in Nat /\ e \in Nat /\ e + k = 2 * d /\ e < 2 * d /\ k >= 1
    BY <1>4
  <2>3. X <= V
    <3>1. x <= v
      BY DEF y, z
    <3> HIDE DEF v
    <3> QED
      BY <2>1, <3>1, <1>a
  <2> HIDE DEF k, e, D, V, X
  <2> DEFINE W == P * P
             A == P * k + e
  <2>4. W \in Nat \ {0} /\ A \in Nat
    BY <2>2, <1>a
  <2>5. 2 * ((P + 1) * A) < W * (2 * k + 1)
    <3>1. (P + 1) * A = W * k + P * (e + k) + e
      BY <2>2, <1>a
    <3>2. P * (e + k) = 2 * (P * d) /\ P * d \in Nat
      BY <2>2, <1>a
    <3>3. P * (4 * d + 1) <= W
      BY <1>a
    <3>4. P * (4 * d + 1) = 4 * (P * d) + P
      BY <1>a
    <3>5. W * (2 * k + 1) = 2 * (W * k) + W /\ W * k \in Nat
      BY <2>2, <2>4
    <3> HIDE DEF W, A
    <3> QED
      BY <2>2, <2>4, <3>1, <3>2, <3>3, <3>4, <3>5, <1>a
  <2>6. P * (P * V) <= ((P + 1) * A) * O
    <3>1. P * (P * V) <= P * ((P + 1) * D)
      <4>1. P * V \in Int /\ (P + 1) * D \in Int
        BY <2>1, <1>a
      <4> QED
        BY <2>1, <4>1, Factor, <1>a
    <3>2. P * ((P + 1) * D) = (P + 1) * (P * D)
      BY <2>1, <1>a
    <3>3. (P + 1) * (P * D) <= (P + 1) * (A * O)
      <4>1. P * D \in Int /\ A * O \in Int
        BY <2>1, <2>4, <1>a
      <4> QED
        BY <2>1, <4>1, Factor, <1>a
    <3>4. (P + 1) * (A * O) = ((P + 1) * A) * O
      <4> HIDE DEF A
      <4> QED
        BY <2>4, <1>a
    <3>5. P * (P * V) \in Int /\ (P + 1) * (P * D) \in Int /\ (P + 1) * (A * O) \in Int
      BY <2>1, <2>4, <1>a
    <3> HIDE DEF A
    <3> QED
      BY <3>1, <3>2, <3>3, <3>4, <3>5
  <2>7. W * (2 * V) < W * ((2 * k + 1) * O)
    <3>1. (2 * ((P + 1) * A)) * O < (W * (2 * k + 1)) * O
      <4> DEFINE a1 == 2 * ((P + 1) * A)
                 a2 == W * (2 * k + 1)
      <4>1. a1 \in Int /\ a2 \in Int /\ a1 < a2
        BY <2>2, <2>4, <2>5, <1>a
      <4> HIDE DEF a1, a2
      <4>2. O * a1 < O * a2 /\ O * a1 = a1 * O /\ O * a2 = a2 * O
        BY <4>1, Factor, <1>a
      <4> QED
        BY <4>2 DEF a1, a2
    <3>2. W * (2 * V) = 2 * (P * (P * V))
      BY <2>1, <1>a
    <3> HIDE DEF W, A
    <3>3. (2 * ((P + 1) * A)) * O = 2 * (((P + 1) * A) * O) /\ ((P + 1) * A) * O \in Int
      BY <2>4, <1>a
    <3>4. (W * (2 * k + 1)) * O = W * ((2 * k + 1) * O) /\ W * ((2 * k + 1) * O) \in Int
      BY <2>2, <2>4, <1>a
    <3>5. P * (P * V) \in Int
      BY <2>1, <1>a
    <3> QED
      BY <2>6, <3>1, <3>2, <3>3, <3>4, <3>5
  <2>8. 2 * V < (2 * k + 1) * O
    <3>1. 2 * V \in Int /\ (2 * k + 1) * O \in Int
      BY <2>1, <2>2, <1>a
    <3> HIDE DEF W
    <3> QED
      BY <2>4, <2>7, <3>1, Factor
  <2>9. (2 * k + 1) * O = 2 * (k * O) + O /\ k * O \in Nat
    BY <2>2, <1>a
  <2>10. 2 * X < 2 * (k * O) + O
    BY <2>1, <2>3, <2>8, <2>9, <1>1, <1>a DEF X
  <2> QED
    BY <2>10 DEF k
<1> QED
  BY <1>3, <1>4

\* A request that leaves a unit of the difference is not above it.
LEMMA RequestNear ==
    ASSUME NEW d \in Nat, NEW c \in Nat, c <= d, 4 * d < P,
           NEW a \in Nat \ {0}, a <= Finer * (d - c) - Finer
    PROVE  ~(Money!Minus(Money!FromRow(d), Money!FromRow(c)) < Money!Request(a))
<1> DEFINE k == d - c
           e == d + c
           y == Money!FromRow(d)
           z == Money!FromRow(c)
           v == Money!Minus(y, z)
           D == (y - z) * Scale
           V == v * Scale
           x == Money!Request(a)
           X == x * Scale
<1>a. /\ P \in Nat /\ P >= 2 /\ O \in Nat \ {0}
      /\ Scale \in Nat \ {0} /\ Finer \in Nat \ {0}
  BY PowersFact, MoneyFact
<1>1. k \in Nat /\ k >= 1 /\ e \in Nat /\ e + 2 * k <= 3 * d
  <2>1. c # d
    BY <1>a
  <2> QED
    BY <2>1
<1>2. /\ D \in Nat /\ v \in Nat /\ V \in Nat
      /\ P * D >= (P * k - e) * O
      /\ P * V >= (P - 1) * D
  <2>1. c < d
    BY <1>1
  <2> QED
    BY <2>1, MinusFact
<1>3. x \in Nat /\ P * (x * (Scale * Finer)) <= P * (a * O) + a * O
  BY RequestFact
<1>4. a <= Finer * (k - 1)
  BY <1>1, <1>a
<1> HIDE DEF x
<1>5. X \in Nat
  BY <1>3, <1>a
<1> HIDE DEF k, e, D, v
<1> DEFINE B == (P + 1) * ((k - 1) * O)
           A == P * k - e
<1>6. P * X <= B
  <2>1. P * (x * (Scale * Finer)) = Finer * (P * X)
    BY <1>3, <1>a
  <2>2. P * (a * O) + a * O = ((P + 1) * O) * a /\ (P + 1) * O \in Nat \ {0}
    BY <1>a
  <2>3. ((P + 1) * O) * a <= ((P + 1) * O) * (Finer * (k - 1))
    <3> DEFINE g == (P + 1) * O
               f == Finer * (k - 1)
    <3>1. g \in Nat \ {0} /\ f \in Int /\ a <= f
      BY <2>2, <1>1, <1>4, <1>a
    <3> HIDE DEF g, f
    <3>2. g * a <= g * f
      BY <3>1, Factor
    <3> QED
      BY <3>2 DEF g, f
  <2>4. ((P + 1) * O) * (Finer * (k - 1)) = Finer * B /\ B \in Int
    BY <1>1, <1>a
  <2>5. Finer * (P * X) <= Finer * B
    <3> DEFINE a1 == Finer * (P * X)
               a2 == P * (a * O) + a * O
               a3 == Finer * B
    <3>1. a1 \in Int /\ a2 \in Int /\ a3 \in Int
      BY <1>5, <2>4, <1>a
    <3>2. a1 <= a2
      BY <1>3, <2>1
    <3>3. a2 <= a3
      BY <2>2, <2>3, <2>4
    <3> HIDE DEF a1, a2, a3
    <3>4. a1 <= a3
      BY <3>1, <3>2, <3>3
    <3> QED
      BY <3>4 DEF a1, a3
  <2> HIDE DEF B, X
  <2> QED
    BY <1>5, <1>a, <2>4, <2>5, Factor
<1>7. A \in Int /\ B \in Int /\ P * V \in Int /\ P * D \in Int /\ P * X \in Int
  BY <1>1, <1>2, <1>5, <1>a
<1>8. P * ((P + 1) * (k - 1)) <= (P - 1) * A
  <2>1. P * (e + 2 * k) <= P * (3 * d)
    BY <1>1, <1>a
  <2>2. P * (3 * d + 1) <= P * P
    BY <1>a
  <2>3. P * (e + 2 * k) = P * e + 2 * (P * k) /\ P * (3 * d + 1) = P * (3 * d) + P
    BY <1>1, <1>a
  <2>4. (P - 1) * A = P * (P * k) - P * k - P * e + e
    BY <1>1, <1>a
  <2>5. P * ((P + 1) * (k - 1)) = P * (P * k) + P * k - P * P - P
    BY <1>1, <1>a
  <2>6. /\ P * (P * k) \in Nat /\ P * k \in Nat /\ P * P \in Nat /\ P * e \in Nat
        /\ P * (3 * d) \in Nat
    BY <1>1, <1>a
  <2> HIDE DEF A
  <2> QED
    BY <2>1, <2>2, <2>3, <2>4, <2>5, <2>6, <1>1, <1>a
<1>9. P * (P * V) >= ((P - 1) * A) * O
  <2>1. P * (P * V) >= P * ((P - 1) * D)
    <3>1. (P - 1) * D \in Int
      BY <1>2, <1>a
    <3> HIDE DEF V
    <3> QED
      BY <1>2, <1>7, <3>1, Factor, <1>a
  <2>2. P * ((P - 1) * D) = (P - 1) * (P * D)
    BY <1>2, <1>a
  <2>3. (P - 1) * (P * D) >= (P - 1) * (A * O)
    <3>1. A * O \in Int /\ P * D >= A * O /\ P - 1 \in Nat \ {0}
      BY <1>2, <1>7, <1>a
    <3> QED
      BY <1>7, <3>1, Factor
  <2> HIDE DEF A, V
  <2>4. (P - 1) * (A * O) = ((P - 1) * A) * O
    BY <1>7, <1>a
  <2>5. P * (P * V) \in Int /\ (P - 1) * (P * D) \in Int /\ (P - 1) * (A * O) \in Int
    BY <1>7, <1>a
  <2> QED
    BY <2>1, <2>2, <2>3, <2>4, <2>5
<1>10. P * B <= ((P - 1) * A) * O
  <2>1. P * B = (P * ((P + 1) * (k - 1))) * O
    BY <1>1, <1>a
  <2> DEFINE a1 == P * ((P + 1) * (k - 1))
             a2 == (P - 1) * A
  <2>2. a1 \in Int /\ a2 \in Int /\ a1 <= a2
    BY <1>1, <1>7, <1>8, <1>a
  <2> HIDE DEF a1, a2, B
  <2>3. O * a1 <= O * a2 /\ O * a1 = a1 * O /\ O * a2 = a2 * O
    BY <2>2, Factor, <1>a
  <2> QED
    BY <2>1, <2>3 DEF a1, a2
<1>11. P * (P * X) <= P * (P * V)
  <2>1. P * (P * X) <= P * B
    <3> HIDE DEF B, X
    <3> QED
      BY <1>6, <1>7, Factor, <1>a
  <2>2. P * (P * X) \in Int /\ P * B \in Int /\ ((P - 1) * A) * O \in Int /\ P * (P * V) \in Int
    <3> HIDE DEF A, B, X, V
    <3> QED
      BY <1>7, <1>a
  <2> HIDE DEF A, B, X, V
  <2> QED
    BY <1>9, <1>10, <2>1, <2>2
<1>12. X <= V
  <2> HIDE DEF X, V
  <2> QED
    BY <1>2, <1>5, <1>7, <1>11, Factor, <1>a
<1>13. x <= v
  <2>1. X = Scale * x /\ V = Scale * v
    BY <1>2, <1>3, <1>a
  <2> HIDE DEF X, V
  <2> QED
    BY <1>2, <1>3, <1>12, <2>1, Factor, <1>a
<1> QED
  BY <1>2, <1>3, <1>13 DEF v, x

\* A request that, with what was used, is not above the limit as a float, gets a row
\* that is not above it either.
LEMMA RequestWithin ==
    ASSUME NEW l \in Nat, NEW c \in Nat, c <= l, 6 * l < P, NEW x \in Nat,
           ~(Money!Plus(Money!FromRow(c), x) > Money!FromRow(l))
    PROVE  c + Money!ToRow(x) <= l
<1> DEFINE y == Money!FromRow(l)
           z == Money!FromRow(c)
           n == z + x
           v == Money!Nearest(n)
           u == Money!ToRow(x)
           X == x * Scale
           Y == y * Scale
           Z == z * Scale
           N == n * Scale
<1>a. P \in Nat /\ P >= 2 /\ O \in Nat \ {0} /\ Scale \in Nat \ {0}
  BY PowersFact, MoneyFact
<1>1. y \in Nat /\ P * Y <= P * (l * O) + l * O
  BY FromRowFact
<1>2. z \in Nat /\ P * (c * O) <= P * Z + c * O
  BY FromRowFact
<1> HIDE DEF y, z
<1>3. X \in Nat /\ Y \in Nat /\ Z \in Nat /\ N \in Nat /\ N = Z + X
  BY <1>1, <1>2, <1>a
<1>4. u \in Nat /\ 2 * (u * O) <= 2 * X + O
  <2>1. Money!ToRow(x) = Money!RoundEven(X, O)
    BY DEF Money!ToRow, O
  <2> HIDE DEF X
  <2> QED
    BY <1>3, <1>a, <2>1, RoundFact
<1> HIDE DEF u, X
<1>5. v \in Nat /\ P * n <= P * v + n
  BY <1>2, NearestFact
<1>6. v <= y
  <2>1. v = Money!Plus(z, x)
    BY DEF Money!Plus
  <2>2. ~(v > y)
    BY <2>1 DEF y, z
  <2> HIDE DEF v
  <2> QED
    BY <1>1, <1>5, <2>2
<1> HIDE DEF v
<1>7. (P - 1) * N <= (P + 1) * (l * O)
  <2>1. (P - 1) * n <= P * y
    <3>1. P * v <= P * y /\ (P - 1) * n = P * n - n
      BY <1>1, <1>2, <1>5, <1>6, <1>a
    <3>2. P * v \in Nat /\ P * y \in Nat /\ P * n \in Nat /\ n \in Nat
      BY <1>1, <1>2, <1>5, <1>a
    <3> HIDE DEF n
    <3> QED
      BY <1>5, <3>1, <3>2
  <2>2. Scale * ((P - 1) * n) <= Scale * (P * y)
    <3>1. (P - 1) * n \in Int /\ P * y \in Int
      BY <1>1, <1>2, <1>a
    <3> HIDE DEF n
    <3> QED
      BY <2>1, <3>1, Factor, <1>a
  <2>3. Scale * ((P - 1) * n) = (P - 1) * N /\ Scale * (P * y) = P * Y
    BY <1>1, <1>2, <1>a
  <2>4. P * (l * O) + l * O = (P + 1) * (l * O)
    BY <1>a
  <2>5. P * Y \in Int /\ (P - 1) * N \in Int /\ P * (l * O) + l * O \in Int
    BY <1>3, <1>a
  <2> HIDE DEF N, Y, n
  <2> QED
    BY <1>1, <2>2, <2>3, <2>4, <2>5
<1>8. SUFFICES ASSUME c + u > l PROVE FALSE
  BY <1>4 DEF u
<1> DEFINE G == 2 * (P * l) + P - 2 * c
<1>9. G \in Int
  BY <1>a
<1>10. G * O <= 2 * (P * N)
  <2>1. u * O >= (l + 1 - c) * O
    <3>1. u >= l + 1 - c /\ u \in Int /\ l + 1 - c \in Int
      BY <1>4, <1>8
    <3> QED
      BY <3>1, <1>a
  <2>2. (l + 1 - c) * O = l * O + O - c * O /\ l * O \in Nat /\ c * O \in Nat /\ u * O \in Nat
    BY <1>4, <1>a
  <2> DEFINE H == 2 * (l * O) + O - 2 * (c * O)
  <2>3. H \in Int /\ H <= 2 * X
    BY <1>3, <1>4, <2>1, <2>2, <1>a
  <2>4. P * H <= P * (2 * X)
    <3> HIDE DEF H
    <3> QED
      BY <1>3, <2>3, <1>a
  <2>5. P * H = 2 * (P * (l * O)) + P * O - 2 * (P * (c * O))
    BY <1>a
  <2>6. G * O = 2 * (P * (l * O)) + P * O - 2 * (c * O)
    BY <1>a
  <2>7. 2 * (P * N) = 2 * (P * Z) + P * (2 * X)
    BY <1>3, <1>a
  <2>8. /\ P * (l * O) \in Nat /\ P * O \in Nat /\ P * (c * O) \in Nat /\ P * Z \in Nat
        /\ P * (2 * X) \in Nat
    BY <1>3, <1>a
  <2> HIDE DEF G, H, Z, N
  <2> QED
    BY <1>2, <2>2, <2>4, <2>5, <2>6, <2>7, <2>8
<1>11. ((P - 1) * G) * O <= (2 * (P * ((P + 1) * l))) * O
  <2>1. (P - 1) * (G * O) <= (P - 1) * (2 * (P * N))
    <3>1. G * O \in Int /\ 2 * (P * N) \in Int /\ P - 1 \in Nat \ {0}
      BY <1>3, <1>9, <1>a
    <3> HIDE DEF G, N
    <3> QED
      BY <1>10, <3>1, Factor
  <2>2. (P - 1) * (2 * (P * N)) = (2 * P) * ((P - 1) * N)
    BY <1>3, <1>a
  <2>3. (2 * P) * ((P - 1) * N) <= (2 * P) * ((P + 1) * (l * O))
    <3>1. (P - 1) * N \in Int /\ (P + 1) * (l * O) \in Int /\ 2 * P \in Nat \ {0}
      BY <1>3, <1>a
    <3> HIDE DEF N
    <3> QED
      BY <1>7, <3>1, Factor
  <2>4. (2 * P) * ((P + 1) * (l * O)) = (2 * (P * ((P + 1) * l))) * O
    BY <1>a
  <2> HIDE DEF G, N
  <2>5. (P - 1) * (G * O) = ((P - 1) * G) * O
    BY <1>9, <1>a
  <2>6. /\ (P - 1) * (G * O) \in Int /\ (2 * P) * ((P - 1) * N) \in Int
        /\ (2 * P) * ((P + 1) * (l * O)) \in Int
    BY <1>3, <1>9, <1>a
  <2> QED
    BY <2>1, <2>2, <2>3, <2>4, <2>5, <2>6
<1>12. (P - 1) * G <= 2 * (P * ((P + 1) * l))
  <2> DEFINE a1 == (P - 1) * G
             a2 == 2 * (P * ((P + 1) * l))
  <2>1. a1 \in Int /\ a2 \in Int /\ a1 * O <= a2 * O
    BY <1>9, <1>11, <1>a
  <2> HIDE DEF a1, a2
  <2>2. O * a1 = a1 * O /\ O * a2 = a2 * O
    BY <2>1, <1>a
  <2>3. a1 <= a2
    BY <2>1, <2>2, Factor, <1>a
  <2> QED
    BY <2>3 DEF a1, a2
<1>13. (P - 1) * G > 2 * (P * ((P + 1) * l))
  <2>1. (P - 1) * G = 2 * (P * (P * l)) + P * P - 2 * (P * c) - 2 * (P * l) - P + 2 * c
    BY <1>a
  <2>2. 2 * (P * ((P + 1) * l)) = 2 * (P * (P * l)) + 2 * (P * l)
    BY <1>a
  <2>3. (P - 1) * c <= (P - 1) * l /\ (P - 1) * c = P * c - c /\ (P - 1) * l = P * l - l
    BY <1>a
  <2>4. P * (6 * l + 1) <= P * P /\ P * (6 * l + 1) = 6 * (P * l) + P
    BY <1>a
  <2>5. P * P > P
    BY <1>a
  <2>6. /\ P * (P * l) \in Nat /\ P * l \in Nat /\ P * P \in Nat /\ P * c \in Nat
    BY <1>a
  <2>7. l = 0 => P * l = 0
    BY <1>a
  <2> HIDE DEF G
  <2> QED
    BY <2>1, <2>2, <2>3, <2>4, <2>5, <2>6, <2>7, <1>a
<1>14. (P - 1) * G \in Int /\ 2 * (P * ((P + 1) * l)) \in Int
  BY <1>9, <1>a
<1> HIDE DEF G
<1> QED
  BY <1>12, <1>13, <1>14

\* The rows stay covered and within the limit, and what was paid is recorded.
MoneyInv ==
    /\ Money!TypeOK
    /\ Money!RowsAreCovered
    /\ Money!PaidIsRecorded
    /\ Money!RowsAreWithinLimit

\* The invariant holds in the beginning.
LEMMA InitMoney == Money!Init => MoneyInv
  BY MoneyFact DEF Money!Init, MoneyInv, Money!TypeOK, Money!RowsAreCovered,
     Money!PaidIsRecorded, Money!RowsAreWithinLimit, Money!Open, Money!NoRow

\* What every action needs of the invariant.
LEMMA MoneyInvFact ==
    ASSUME MoneyInv
    PROVE  /\ deposited \in Nat /\ deposited <= MaxUnits /\ 4 * deposited < P
           /\ completed \in Nat /\ completed <= deposited /\ completed <= DailyLimit
           /\ pending # Money!NoRow =>
                /\ pending \in Nat
                /\ completed + pending <= deposited
                /\ completed + pending <= DailyLimit
           /\ paid = completed
<1>1. /\ deposited \in Nat /\ deposited <= MaxUnits /\ completed \in Nat
      /\ pending # Money!NoRow => pending \in Nat
  BY MoneyFact DEF MoneyInv, Money!TypeOK
<1>2. Money!Open \in Nat /\ (pending # Money!NoRow => Money!Open = pending)
  BY <1>1 DEF Money!Open
<1>3. completed + Money!Open <= deposited /\ completed + Money!Open <= DailyLimit
  BY DEF MoneyInv, Money!RowsAreCovered, Money!RowsAreWithinLimit
<1>4. paid = completed
  BY DEF MoneyInv, Money!PaidIsRecorded
<1>5. completed <= deposited /\ completed <= DailyLimit
  BY <1>1, <1>2, <1>3, MoneyFact
<1>6. 4 * deposited < P
  BY <1>1, MoneyFact, PowersFact
<1> QED
  BY <1>1, <1>2, <1>3, <1>4, <1>5, <1>6

\* A deposit is recorded to the unit.
LEMMA DepositStep == MoneyInv /\ Money!Deposit => MoneyInv'
<1> SUFFICES ASSUME MoneyInv, NEW u \in 1 .. MaxUnits, deposited + u <= MaxUnits,
                    deposited' = deposited + Money!ToRow(Money!FromRow(u)),
                    UNCHANGED <<completed, pending, paid>>
             PROVE  MoneyInv'
  BY DEF Money!Deposit
<1>1. u \in Nat /\ 4 * u < P
  BY MoneyFact, PowersFact
<1>2. deposited' = deposited + u
  BY <1>1, RoundTrip
<1>3. Money!Open' = Money!Open /\ Money!Open \in Nat
  BY DEF Money!Open, Money!NoRow, MoneyInv, Money!TypeOK
<1> QED
  BY <1>1, <1>2, <1>3, MoneyInvFact, MoneyFact
     DEF MoneyInv, Money!TypeOK, Money!RowsAreCovered, Money!PaidIsRecorded,
         Money!RowsAreWithinLimit, Money!NoRow

\* The row of a request is covered and within the limit.
LEMMA WithdrawStep ==
    ASSUME MoneyInv, NEW a \in Money!Asked, Money!Withdraw(a)
    PROVE  MoneyInv'
<1> DEFINE x == Money!Request(a)
           r == Money!ToRow(x)
<1>1. a \in Nat
  BY MoneyFact DEF Money!Asked
<1>2. x \in Nat
  BY <1>1, RequestFact
<1>3. r \in Nat
  <2>1. x * Scale \in Nat
    BY <1>2, MoneyFact
  <2> HIDE DEF x
  <2> QED
    BY <2>1, RoundFact, PowersFact DEF Money!ToRow, O
<1>4. r <= deposited - completed
  <2>1. ~(Money!Minus(Money!FromRow(deposited), Money!FromRow(completed)) < x)
    BY DEF Money!Withdraw, Money!Insufficient, Money!Available
  <2>2. Money!Minus(Money!FromRow(deposited), Money!FromRow(completed)) \in Int
    <3>1. \A m \in Nat : Money!FromRow(m) \in Nat /\ Money!Nearest(m) \in Nat
      BY FromRowFact, NearestFact
    <3> DEFINE y == Money!FromRow(deposited)
               z == Money!FromRow(completed)
    <3>2. y \in Nat /\ z \in Nat
      BY <3>1, MoneyInvFact
    <3> HIDE DEF y, z
    <3>3. y >= z => y - z \in Nat
      BY <3>2
    <3>4. ~(y >= z) => z - y \in Nat
      BY <3>2
    <3>5. Money!Minus(y, z) = IF y >= z THEN Money!Nearest(y - z) ELSE -Money!Nearest(z - y)
      BY DEF Money!Minus
    <3> QED
      BY <3>1, <3>3, <3>4, <3>5 DEF y, z
  <2> HIDE DEF x
  <2>3. x <= Money!Minus(Money!FromRow(deposited), Money!FromRow(completed))
    BY <1>2, <2>1, <2>2
  <2> QED
    BY <1>2, <2>3, RequestCovered, MoneyInvFact
<1>5. completed + r <= DailyLimit
  <2>1. CASE DailyLimit < MaxUnits
    <3>1. 6 * DailyLimit < P /\ DailyLimit \in Nat
      BY <2>1, MoneyFact, PowersFact
    <3>2. ~(Money!Plus(Money!FromRow(completed), x) > Money!FromRow(DailyLimit))
      BY DEF Money!Withdraw, Money!OverLimit
    <3> HIDE DEF x
    <3> QED
      BY <1>2, <3>1, <3>2, RequestWithin, MoneyInvFact
  <2>2. CASE DailyLimit >= MaxUnits
    <3> HIDE DEF r
    <3> QED
      BY <1>3, <1>4, <2>2, MoneyInvFact, MoneyFact
  <2> QED
    BY <2>1, <2>2, MoneyFact
<1>6. pending' = r /\ UNCHANGED <<deposited, completed, paid>>
  BY DEF Money!Withdraw
<1> HIDE DEF r
<1>7. Money!Open' = r
  BY <1>3, <1>6 DEF Money!Open, Money!NoRow
<1> QED
  BY <1>3, <1>4, <1>5, <1>6, <1>7, MoneyInvFact
     DEF MoneyInv, Money!TypeOK, Money!RowsAreCovered, Money!PaidIsRecorded,
         Money!RowsAreWithinLimit

\* What is paid is what the row says.
LEMMA ApproveStep == MoneyInv /\ Money!Approve => MoneyInv'
<1> SUFFICES ASSUME MoneyInv, Money!Approve PROVE MoneyInv'
  OBVIOUS
<1>a. pending # Money!NoRow
  BY DEF Money!Approve
<1>1. pending \in Nat /\ 4 * pending < P
  BY <1>a, MoneyInvFact, PowersFact
<1>2. Money!NewAmount(Money!FromRow(pending)) = pending
  BY <1>1, RoundTrip
<1>3. /\ paid' = paid + pending /\ completed' = completed + pending
      /\ pending' = Money!NoRow /\ deposited' = deposited /\ pending # Money!NoRow
  BY <1>2 DEF Money!Approve
<1>4. Money!Open' = 0
  BY <1>3 DEF Money!Open, Money!NoRow
<1> QED
  BY <1>1, <1>3, <1>4, MoneyInvFact, MoneyFact
     DEF MoneyInv, Money!TypeOK, Money!RowsAreCovered, Money!PaidIsRecorded,
         Money!RowsAreWithinLimit

\* A row that is closed is neither open nor paid.
LEMMA CloseStep == MoneyInv /\ Money!Close => MoneyInv'
<1> SUFFICES ASSUME MoneyInv, Money!Close PROVE MoneyInv'
  OBVIOUS
<1>1. pending' = Money!NoRow /\ UNCHANGED <<deposited, completed, paid>>
  BY DEF Money!Close
<1>2. Money!Open' = 0
  BY <1>1 DEF Money!Open, Money!NoRow
<1> QED
  BY <1>1, <1>2, MoneyInvFact, MoneyFact
     DEF MoneyInv, Money!TypeOK, Money!RowsAreCovered, Money!PaidIsRecorded,
         Money!RowsAreWithinLimit

\* Every step keeps the invariant.
LEMMA NextMoney == MoneyInv /\ (Money!Next \/ UNCHANGED moneyVars) => MoneyInv'
<1>1. MoneyInv /\ UNCHANGED moneyVars => MoneyInv'
  BY DEF moneyVars, MoneyInv, Money!TypeOK, Money!RowsAreCovered, Money!PaidIsRecorded,
         Money!RowsAreWithinLimit, Money!Open
<1> QED
  BY <1>1, DepositStep, WithdrawStep, ApproveStep, CloseStep DEF Money!Next

\* Rounding creates no money, pays what the rows say, keeps the limit and refuses
\* less than a unit too much (wallet.go:263, 301, 312, 541), for floats of any
\* precision, rows of any number of decimals and requests of any fineness.
THEOREM RoundingHarmless == PartsSpec => []RoundingIsHarmless
<1>1. PartsInit => MoneyInv
  BY InitMoney DEF PartsInit
<1>2. MoneyInv /\ [PartsNext]_partVars => MoneyInv'
  <2>1. [PartsNext]_partVars => Money!Next \/ UNCHANGED moneyVars
    BY DEF PartsNext, ConfigStep, partVars
  <2> QED
    BY <2>1, NextMoney
<1>3. MoneyInv => RoundingIsHarmless
  <2> SUFFICES ASSUME MoneyInv PROVE RoundingIsHarmless
    OBVIOUS
  <2>1. Money!Left = Finer * (deposited - completed) /\ Money!Left \in Int
    BY MoneyFact, MoneyInvFact DEF Money!Left
  <2>2. ASSUME NEW a \in Money!Asked, Money!Insufficient(Money!Request(a))
        PROVE  a > Money!Left - Finer
    <3>1. a \in Nat \ {0}
      BY MoneyFact DEF Money!Asked
    <3>2. Money!Minus(Money!FromRow(deposited), Money!FromRow(completed)) < Money!Request(a)
      BY <2>2 DEF Money!Insufficient, Money!Available
    <3>3. ~(a <= Finer * (deposited - completed) - Finer)
      BY <3>1, <3>2, RequestNear, MoneyInvFact
    <3> QED
      BY <2>1, <3>1, <3>3, MoneyFact
  <2> QED
    BY <2>2 DEF RoundingIsHarmless, Money!RoundingIsHarmless,
       Money!RefusedNearTheBalance, MoneyInv
<1>4. PartsSpec => []MoneyInv
  BY <1>1, <1>2, PTL DEF PartsSpec
<1> QED
  BY <1>3, <1>4, PTL

-----------------------------------------------------------------------------
(* Derivation indices.                                                      *)

\* The halves of a uint32.
LEMMA HalvesFact ==
    ASSUME NEW n \in Index!Uint32
    PROVE  /\ n.hi \in Nat /\ n.hi < Index!Half
           /\ n.lo \in Nat /\ n.lo < Index!Half
           /\ n = [hi |-> n.hi, lo |-> n.lo]
<1>1. Index!Half \in Nat
  BY DEF Index!Half
<1> QED
  BY <1>1 DEF Index!Uint32

\* Two halves make a uint32.
LEMMA MakeUint32 ==
    ASSUME NEW h \in Nat, h < Index!Half, NEW l \in Nat, l < Index!Half
    PROVE  [hi |-> h, lo |-> l] \in Index!Uint32
<1>1. Index!Half \in Nat
  BY DEF Index!Half
<1> QED
  BY <1>1 DEF Index!Uint32

\* A number below H * H has one pair of halves.
LEMMA Halves ==
    ASSUME NEW H \in Nat \ {0}, NEW a \in Nat, NEW b \in Nat, NEW c \in Nat, NEW d \in Nat,
           b < H, d < H, a * H + b = c * H + d
    PROVE  a = c /\ b = d
<1>1. a * H \in Nat /\ c * H \in Nat
  OBVIOUS
<1>2. ASSUME a < c PROVE FALSE
  <2>1. (a + 1) * H <= c * H /\ (a + 1) * H = a * H + H
    BY <1>2
  <2> QED
    BY <1>1, <2>1
<1>3. ASSUME c < a PROVE FALSE
  <2>1. (c + 1) * H <= a * H /\ (c + 1) * H = c * H + H
    BY <1>3
  <2> QED
    BY <1>1, <2>1
<1>4. a = c
  BY <1>2, <1>3
<1> QED
  BY <1>1, <1>4

\* A uint32 is its number.
LEMMA NumberFact ==
    /\ \A n \in Index!Uint32 : Index!Number(n) \in Nat
    /\ \A m, n \in Index!Uint32 : Index!Number(m) = Index!Number(n) => m = n
<1>1. Index!Half \in Nat \ {0}
  BY DEF Index!Half
<1>2. ASSUME NEW n \in Index!Uint32 PROVE Index!Number(n) \in Nat
  BY <1>1, HalvesFact DEF Index!Number
<1>3. ASSUME NEW m \in Index!Uint32, NEW n \in Index!Uint32,
             Index!Number(m) = Index!Number(n)
      PROVE  m = n
  <2>1. m.hi * Index!Half + m.lo = n.hi * Index!Half + n.lo
    BY <1>3 DEF Index!Number
  <2>2. m.hi = n.hi /\ m.lo = n.lo
    BY <1>1, <2>1, HalvesFact, Halves
  <2> QED
    BY <2>2, HalvesFact
<1> QED
  BY <1>2, <1>3

\* Products and sums below 2^32 do not wrap around.
LEMMA TimesPlusFact ==
    ASSUME NEW n \in Index!Uint32, NEW m \in Nat, NEW c \in Nat,
           m * Index!Number(n) + c < Index!Half * Index!Half
    PROVE  /\ Index!TimesPlus(n, m, c) \in Index!Uint32
           /\ Index!Number(Index!TimesPlus(n, m, c)) = m * Index!Number(n) + c
<1> DEFINE H == Index!Half
           a == n.lo * m + c
           q == a \div H
           r == a % H
           h == n.hi * m + q
           t == Index!TimesPlus(n, m, c)
<1>1. n.hi \in Nat /\ n.lo \in Nat /\ H \in Nat \ {0}
  BY HalvesFact DEF Index!Half
<1>2. n.lo * m \in Nat /\ n.hi * m \in Nat
  BY <1>1
<1>3. a \in Nat
  BY <1>2
<1>4. t = [hi |-> h % H, lo |-> r]
  BY DEF Index!TimesPlus
<1>5. m * Index!Number(n) + c = (n.hi * m) * H + a
  BY <1>1 DEF Index!Number
<1> HIDE DEF H
<1>6. q \in Nat /\ r \in Nat /\ r < H /\ a = q * H + r
  <2> HIDE DEF a
  <2> QED
    BY <1>1, <1>3, Division
<1> HIDE DEF q, r, a
<1>7. m * Index!Number(n) + c = h * H + r
  BY <1>1, <1>2, <1>5, <1>6
<1>8. h \in Nat /\ h < H
  <2>1. h \in Nat
    BY <1>2, <1>6
  <2> HIDE DEF h
  <2>2. h * H + r < H * H
    BY <1>7 DEF H
  <2>3. h >= H => h * H >= H * H
    BY <1>1, <2>1
  <2>4. h * H \in Nat /\ H * H \in Nat
    BY <1>1, <2>1
  <2> QED
    BY <1>1, <1>6, <2>1, <2>2, <2>3, <2>4
<1> HIDE DEF h
<1>9. h % H = h
  BY <1>1, <1>8
<1> HIDE DEF t
<1>10. t.hi = h /\ t.lo = r /\ t \in Index!Uint32
  BY <1>4, <1>6, <1>8, <1>9, MakeUint32 DEF H
<1>11. Index!Number(t) = h * H + r
  BY <1>10 DEF Index!Number, H
<1> QED
  BY <1>7, <1>10, <1>11 DEF t

\* The digits whose character the loop may have added last; 31 is larger than the
\* number of digits, so there is one at most.
LastDigits(n) == {d \in 0..9 : n >= 48 + d /\ (n - (48 + d)) % 31 = 0}

\* The id that the loop turned into the number n, if it did not wrap around.
IdOf[n \in Nat] ==
    IF LastDigits(n) = {} THEN <<>>
    ELSE LET d == CHOOSE e \in LastDigits(n) : TRUE
         IN  Append(IdOf[(n - 48 - d) \div 31], d)

\* The equation IdOf is defined by.
LEMMA IdOfFact ==
    \A n \in Nat : IdOf[n] =
        IF LastDigits(n) = {} THEN <<>>
        ELSE LET d == CHOOSE e \in LastDigits(n) : TRUE
             IN  Append(IdOf[(n - 48 - d) \div 31], d)
<1> DEFINE Last(n) == CHOOSE e \in LastDigits(n) : TRUE
           B == {n \in Nat : LastDigits(n) = {}}
           V == Seq(0..9)
           base == [n \in Nat |-> <<>>]
           p == [n \in Nat |-> (n - 48 - Last(n)) \div 31]
           next == [n \in Nat |-> [v \in V |-> IF n \in B THEN v ELSE Append(v, Last(n))]]
           Is(f) == f = [n \in Nat |->
               IF LastDigits(n) = {} THEN <<>>
               ELSE LET d == CHOOSE e \in LastDigits(n) : TRUE
                    IN  Append(f[(n - 48 - d) \div 31], d)]
<1>1. IdOf = CHOOSE f : Is(f)
  BY DEF IdOf
<1>2. \A n \in Nat \ B : Last(n) \in 0..9 /\ n >= 48 + Last(n)
  <2>1. \A n \in Nat \ B : Last(n) \in LastDigits(n)
    OBVIOUS
  <2> HIDE DEF Last, B
  <2> QED
    BY <2>1 DEF LastDigits
<1> HIDE DEF Last
<1>3. Descends(p, B)
  <2>1. ASSUME NEW n \in Nat \ B PROVE p[n] \in Nat /\ p[n] < n
    <3>1. p[n] = (n - 48 - Last(n)) \div 31
      OBVIOUS
    <3>2. n - 48 - Last(n) \in Nat /\ n - 48 - Last(n) < n
      BY <1>2
    <3> HIDE DEF B, p
    <3> QED
      BY <3>1, <3>2
  <2> QED
    BY <2>1 DEF Descends
<1>4. next \in [Nat -> [V -> V]]
  <2>1. ASSUME NEW n \in Nat, NEW v \in V
        PROVE  (IF n \in B THEN v ELSE Append(v, Last(n))) \in V
    <3>1. n \in B \/ Last(n) \in 0..9
      BY <1>2
    <3> HIDE DEF B
    <3> QED
      BY <3>1
  <2> HIDE DEF B, V
  <2> QED
    BY <2>1
<1>5. PICK f \in [Nat -> V] : Solves(f, B, base, p, next)
  <2>1. base \in [Nat -> V] /\ B \in SUBSET Nat
    OBVIOUS
  <2> HIDE DEF B, V, base, p, next
  <2> QED
    BY <1>3, <1>4, <2>1, Recursion
<1>6. ASSUME NEW n \in Nat
      PROVE  f[n] = IF LastDigits(n) = {} THEN <<>>
                    ELSE Append(f[(n - 48 - Last(n)) \div 31], Last(n))
  <2>1. CASE n \in B
    <3>1. base[n] = <<>> /\ LastDigits(n) = {}
      BY <2>1
    <3> HIDE DEF B, base, p, next
    <3> QED
      BY <1>5, <2>1, <3>1 DEF Solves
  <2>2. CASE n \notin B
    <3>1. p[n] \in Nat /\ p[n] = (n - 48 - Last(n)) \div 31 /\ LastDigits(n) # {}
      BY <1>3, <2>2 DEF Descends
    <3>2. f[p[n]] \in V
      BY <1>5, <3>1
    <3>3. next[n][f[p[n]]] = Append(f[p[n]], Last(n))
      <4> DEFINE v == f[p[n]]
      <4>1. v \in V
        BY <3>2
      <4> HIDE DEF v, V, B
      <4> QED
        BY <2>2, <4>1 DEF v
    <3> HIDE DEF B, base, p, next
    <3> QED
      BY <1>5, <2>2, <3>1, <3>3 DEF Solves
  <2> QED
    BY <2>1, <2>2
<1>7. Is(f)
  <2>1. f = [n \in Nat |-> f[n]]
    BY <1>5
  <2> QED
    BY <1>6, <2>1 DEF Last
<1>8. Is(IdOf)
  <2> HIDE DEF Is
  <2> QED
    BY <1>1, <1>7
<1> DEFINE I == IdOf
<1>9. Is(I)
  BY <1>8
<1> HIDE DEF I
<1>10. \A n \in Nat : I[n] =
        IF LastDigits(n) = {} THEN <<>>
        ELSE LET d == CHOOSE e \in LastDigits(n) : TRUE
             IN  Append(I[(n - 48 - d) \div 31], d)
  BY <1>9
<1> QED
  BY <1>10 DEF I

\* The loop's last character can be read off its result, and so can its result before.
LEMMA IdOfNext ==
    /\ IdOf[0] = <<>>
    /\ \A n \in Nat : \A d \in 0..9 :
          IdOf[31 * n + 48 + d] = Append(IdOf[n], d)
<1>1. LastDigits(0) = {}
  BY DEF LastDigits
<1>2. ASSUME NEW n \in Nat, NEW d \in 0..9
      PROVE  IdOf[31 * n + 48 + d] = Append(IdOf[n], d)
  <2> DEFINE m == 31 * n + 48 + d
  <2>1. m \in Nat
    OBVIOUS
  <2>2. LastDigits(m) = {d}
    <3>1. ASSUME NEW e \in 0..9, (m - (48 + e)) % 31 = 0 PROVE e = d
      BY <3>1
    <3>2. m >= 48 + d /\ (m - (48 + d)) % 31 = 0
      OBVIOUS
    <3> HIDE DEF m
    <3> QED
      BY <3>1, <3>2 DEF LastDigits
  <2>3. (m - 48 - d) \div 31 = n
    OBVIOUS
  <2>4. (CHOOSE e \in LastDigits(m) : TRUE) = d
    BY <2>2
  <2> HIDE DEF m
  <2>5. IdOf[m] = Append(IdOf[(m - 48 - d) \div 31], d)
    BY <2>1, <2>2, <2>4, IdOfFact
  <2> QED
    BY <2>3, <2>5 DEF m
<1> QED
  BY <1>1, <1>2, IdOfFact

\* The equation Decimal is defined by.
LEMMA DecimalFact ==
    \A n \in Nat :
        /\ Index!Decimal[n] \in Seq(0..9)
        /\ Index!Decimal[n] =
              IF n < 10 THEN <<n>> ELSE Append(Index!Decimal[n \div 10], n % 10)
<1> DEFINE B == 0..9
           V == Seq(0..9)
           base == [n \in Nat |-> <<n % 10>>]
           p == [n \in Nat |-> n \div 10]
           next == [n \in Nat |-> [v \in V |-> Append(v, n % 10)]]
           Is(f) == f = [n \in Nat |->
               IF n < 10 THEN <<n>> ELSE Append(f[n \div 10], n % 10)]
<1>1. Index!Decimal = CHOOSE f : Is(f)
  BY DEF Index!Decimal
<1>2. \A n \in Nat : n % 10 \in 0..9
  OBVIOUS
<1>3. Descends(p, B)
  BY DEF Descends
<1>4. next \in [Nat -> [V -> V]] /\ base \in [Nat -> V]
  <2>1. \A n \in Nat, v \in V : Append(v, n % 10) \in V
    BY <1>2
  <2>2. \A n \in Nat : <<n % 10>> \in V
    BY <1>2
  <2> HIDE DEF V
  <2> QED
    BY <2>1, <2>2
<1>5. PICK f \in [Nat -> V] : Solves(f, B, base, p, next)
  <2>1. B \in SUBSET Nat
    OBVIOUS
  <2> HIDE DEF B, V, base, p, next
  <2> QED
    BY <1>3, <1>4, <2>1, Recursion
<1>6. ASSUME NEW n \in Nat
      PROVE  f[n] = IF n < 10 THEN <<n>> ELSE Append(f[n \div 10], n % 10)
  <2>1. CASE n < 10
    <3>1. base[n] = <<n>> /\ n \in B
      BY <2>1
    <3> HIDE DEF B, base, p, next
    <3> QED
      BY <1>5, <2>1, <3>1 DEF Solves
  <2>2. CASE ~(n < 10)
    <3>1. p[n] \in Nat /\ p[n] = n \div 10 /\ n \notin B
      BY <2>2
    <3>2. f[p[n]] \in V
      BY <1>5, <3>1
    <3>3. next[n][f[p[n]]] = Append(f[p[n]], n % 10)
      <4> DEFINE v == f[p[n]]
      <4>1. v \in V
        BY <3>2
      <4> HIDE DEF v, V
      <4> QED
        BY <4>1 DEF v
    <3> HIDE DEF B, base, p, next
    <3> QED
      BY <1>5, <2>2, <3>1, <3>3 DEF Solves
  <2> QED
    BY <2>1, <2>2
<1>7. Is(f)
  <2>1. f = [n \in Nat |-> f[n]]
    BY <1>5
  <2> QED
    BY <1>6, <2>1
<1>8. Is(Index!Decimal)
  <2> HIDE DEF Is
  <2> QED
    BY <1>1, <1>7
<1> DEFINE D == Index!Decimal
<1>9. Is(D)
  BY <1>8
<1> HIDE DEF D
<1>10. \A n \in Nat : D[n] = IF n < 10 THEN <<n>> ELSE Append(D[n \div 10], n % 10)
  BY <1>9
<1>11. \A n \in Nat : D[n] \in V
  <2> DEFINE Bad == {n \in Nat : D[n] \notin V}
  <2>a. \A m \in Nat, v \in V : Append(v, m % 10) \in V
    BY <1>2
  <2>b. \A m \in 0..9 : <<m>> \in V
    OBVIOUS
  <2>1. SUFFICES ASSUME Bad # {} PROVE FALSE
    OBVIOUS
  <2>c. PICK n \in Bad : \A k \in Bad : n <= k
    <3> HIDE DEF D, V
    <3>1. Bad \in SUBSET Nat
      OBVIOUS
    <3> HIDE DEF Bad
    <3> QED
      BY <2>1, <3>1, Smallest
  <2>2. n \in Nat /\ D[n] \notin V /\ \A k \in Nat : k < n => D[k] \in V
    BY <2>c
  <2> HIDE DEF V
  <2>3. CASE n < 10
    BY <2>2, <2>3, <2>b, <1>10
  <2>4. CASE ~(n < 10)
    <3>1. n \div 10 \in Nat /\ n \div 10 < n
      BY <2>2, <2>4
    <3>2. D[n] = Append(D[n \div 10], n % 10)
      BY <2>2, <2>4, <1>10
    <3> QED
      BY <2>2, <2>a, <3>1, <3>2
  <2> QED
    BY <2>3, <2>4
<1> QED
  BY <1>10, <1>11 DEF D

-----------------------------------------------------------------------------
(* Reading paths.                                                           *)

\* top is the largest number of every set.
Tops(top, L) == \A S \in SUBSET (1..L) :
    S # {} => top[S] \in S /\ \A k \in S : k <= top[S]

\* it folds a set from its largest number down.
Collects(it, L, start, step, top) == \A S \in SUBSET (1..L) :
    it[S] = IF S = {} THEN start ELSE step[top[S]][it[S \ {top[S]}]]

\* A fold over the numbers up to L, from the largest down, has a value for every set.
LEMMA SetRecursion ==
    ASSUME NEW L \in Nat, NEW V, NEW start \in V, NEW step \in [1..L -> [V -> V]],
           NEW top, Tops(top, L)
    PROVE  \E it \in [SUBSET (1..L) -> V] : Collects(it, L, start, step, top)
<1> DEFINE D == SUBSET (1..L)
           G == [D -> V]
           B == {0}
           base == [n \in Nat |-> [S \in D |-> start]]
           p == [n \in Nat |-> n - 1]
           Up(g, S) == IF S = {} THEN start ELSE step[top[S]][g[S \ {top[S]}]]
           next == [n \in Nat |-> [g \in G |-> [S \in D |-> Up(g, S)]]]
<1>1. ASSUME NEW S \in D, S # {}
      PROVE  top[S] \in S /\ top[S] \in 1..L /\ S \ {top[S]} \in D
  BY <1>1 DEF Tops
<1>2. ASSUME NEW g \in G, NEW S \in D PROVE Up(g, S) \in V
  <2>1. CASE S = {}
    BY <2>1
  <2>2. CASE S # {}
    <3>1. g[S \ {top[S]}] \in V /\ step[top[S]] \in [V -> V]
      BY <1>1, <2>2
    <3> QED
      BY <2>2, <3>1
  <2> QED
    BY <2>1, <2>2
<1>3. base \in [Nat -> G]
  OBVIOUS
<1>4. next \in [Nat -> [G -> G]]
  <2>1. \A g \in G : [S \in D |-> Up(g, S)] \in G
    <3> HIDE DEF Up
    <3> QED
      BY <1>2
  <2> HIDE DEF Up, D, G
  <2> QED
    BY <2>1
<1>5. Descends(p, B)
  BY DEF Descends
<1>6. PICK f \in [Nat -> G] : Solves(f, B, base, p, next)
  <2>1. B \in SUBSET Nat
    OBVIOUS
  <2> HIDE DEF B, G, base, p, next
  <2> QED
    BY <1>3, <1>4, <1>5, <2>1, Recursion
<1>7. ASSUME NEW n \in Nat PROVE f[n + 1] = [S \in D |-> Up(f[n], S)]
  <2>1. n + 1 \in Nat \ B /\ p[n + 1] = n /\ f[n] \in G
    <3> HIDE DEF G
    <3> QED
      OBVIOUS
  <2>2. f[n + 1] = next[n + 1][f[n]]
    <3> HIDE DEF B, base, p, next
    <3> QED
      BY <1>6, <2>1 DEF Solves
  <2> HIDE DEF G, Up, D
  <2> QED
    BY <2>1, <2>2
<1> HIDE DEF Up
<1> DEFINE Agree(n) == \A S \in SUBSET (1..n) : S \in D => f[n][S] = f[n + 1][S]
           Bad == {n \in Nat : ~Agree(n)}
<1>8. \A n \in Nat : Agree(n)
  <2>1. SUFFICES ASSUME Bad # {} PROVE FALSE
    OBVIOUS
  <2>2. PICK n \in Bad : \A k \in Bad : n <= k
    <3>1. Bad \in SUBSET Nat
      OBVIOUS
    <3> HIDE DEF Bad
    <3> QED
      BY <2>1, <3>1, Smallest
  <2>3. n \in Nat /\ ~Agree(n)
    OBVIOUS
  <2>4. PICK S \in SUBSET (1..n) : S \in D /\ f[n][S] # f[n + 1][S]
    BY <2>3
  <2>5. CASE n = 0
    <3>1. S = {} /\ S \in D
      BY <2>4, <2>5
    <3>2. f[0] = base[0] /\ base[0] = [T \in D |-> start]
      <4>1. 0 \in B /\ 0 \in Nat
        OBVIOUS
      <4>2. base[0] = [T \in D |-> start]
        OBVIOUS
      <4> HIDE DEF B, base, p, next
      <4> QED
        BY <1>6, <4>1, <4>2 DEF Solves
    <3>3. f[0][S] = start
      BY <3>1, <3>2
    <3>4. f[1] = [T \in D |-> Up(f[0], T)]
      <4>1. f[0 + 1] = [T \in D |-> Up(f[0], T)]
        BY <1>7
      <4> QED
        BY <4>1
    <3>5. f[1][S] = start
      BY <3>1, <3>4 DEF Up
    <3> QED
      BY <2>4, <2>5, <3>3, <3>5
  <2>6. CASE n > 0
    <3>1. n - 1 \in Nat /\ n - 1 \notin Bad
      BY <2>2, <2>3, <2>6
    <3>2. Agree(n - 1)
      BY <3>1
    <3>3. f[n] = [T \in D |-> Up(f[n - 1], T)]
      <4>1. f[(n - 1) + 1] = [T \in D |-> Up(f[n - 1], T)]
        BY <1>7, <3>1
      <4> QED
        BY <2>3, <4>1
    <3>4. f[n + 1] = [T \in D |-> Up(f[n], T)]
      BY <1>7, <2>3
    <3>5. CASE S = {}
      BY <2>4, <3>3, <3>4, <3>5 DEF Up
    <3>6. CASE S # {}
      <4> DEFINE T == S \ {top[S]}
      <4>1. T \in D
        BY <1>1, <2>4, <3>6
      <4>2. T \in SUBSET (1 .. n - 1)
        <5>1. ASSUME NEW k \in T PROVE k \in 1 .. n - 1
          <6>1. k \in 1..n /\ k # top[S] /\ k <= top[S] /\ top[S] \in 1..n
            BY <2>4, <3>6 DEF Tops
          <6> QED
            BY <2>3, <6>1
        <5> HIDE DEF T
        <5> QED
          BY <5>1
      <4>3. f[n - 1][T] = f[n][T]
        <5>1. f[n - 1][T] = f[(n - 1) + 1][T]
          BY <3>2, <4>1, <4>2
        <5> QED
          BY <2>3, <5>1
      <4>4. f[n][S] = Up(f[n - 1], S) /\ f[n + 1][S] = Up(f[n], S)
        BY <2>4, <3>3, <3>4
      <4> QED
        BY <2>4, <3>6, <4>3, <4>4 DEF Up
    <3> QED
      BY <3>5, <3>6
  <2> QED
    BY <2>3, <2>5, <2>6
<1>9. f[L] \in G /\ \A S \in D : f[L][S] = Up(f[L], S)
  <2>1. f[L + 1] = [S \in D |-> Up(f[L], S)] /\ Agree(L)
    BY <1>7, <1>8
  <2> QED
    BY <2>1
<1> QED
  BY <1>9 DEF Up, Collects

\* What the loop of parsePath computes.
Acc == [segments : Seq(Index!Uint32), current : Index!Uint32]
Begin == [segments |-> <<>>, current |-> Index!Zero]

\* The characters of a path.
Chars == 0..9 \cup {Index!Quote, Index!Slash}

\* The sum is a uint32, if it wraps around too.
LEMMA TimesPlusType ==
    ASSUME NEW n \in Index!Uint32, NEW m \in Nat, NEW c \in Nat
    PROVE  Index!TimesPlus(n, m, c) \in Index!Uint32
<1> DEFINE H == Index!Half
           a == n.lo * m + c
           h == n.hi * m + a \div H
<1>1. n.hi \in Nat /\ n.lo \in Nat /\ H \in Nat \ {0}
  BY HalvesFact DEF Index!Half
<1>2. Index!TimesPlus(n, m, c) = [hi |-> h % H, lo |-> a % H]
  BY DEF Index!TimesPlus
<1> HIDE DEF H
<1>3. a \in Nat /\ n.hi * m \in Nat
  BY <1>1
<1> HIDE DEF a
<1>4. a \div H \in Nat /\ a % H \in Nat /\ a % H < H
  BY <1>1, <1>3, Division
<1>5. h \in Nat
  BY <1>3, <1>4
<1> HIDE DEF h
<1>6. h % H \in Nat /\ h % H < H
  BY <1>1, <1>5, Division
<1> QED
  BY <1>2, <1>4, <1>6, MakeUint32 DEF H

\* A hardened child number is a uint32.
LEMMA HardenedType ==
    ASSUME NEW n \in Index!Uint32 PROVE Index!Hardened(n) \in Index!Uint32
<1> DEFINE h == (n.hi % 32768) + 32768
<1>1. n.hi \in Nat /\ n = [hi |-> n.hi, lo |-> n.lo] /\ n.lo \in Nat /\ n.lo < Index!Half
  BY HalvesFact
<1>2. h \in Nat /\ h < 65536
  BY <1>1
<1>3. Index!Hardened(n) = [hi |-> h, lo |-> n.lo]
  BY <1>1, SMT DEF Index!Hardened, Index!Half
<1> HIDE DEF h
<1> QED
  BY <1>1, <1>2, <1>3, MakeUint32, SMT DEF Index!Half

\* Where the loop begins.
LEMMA ZeroType == Index!Zero \in Index!Uint32 /\ Begin \in Acc
<1>1. Index!Half \in Nat /\ 0 < Index!Half
  BY SMT DEF Index!Half
<1>2. Index!Zero \in Index!Uint32
  BY <1>1, MakeUint32 DEF Index!Zero
<1> QED
  BY <1>2 DEF Begin, Acc

\* One character.
LEMMA ParseCharFact ==
    ASSUME NEW v \in Acc
    PROVE  /\ Index!ParseChar(v, Index!Slash) =
                [segments |-> Append(v.segments, v.current), current |-> Index!Zero]
           /\ Index!ParseChar(v, Index!Quote) =
                [segments |-> v.segments, current |-> Index!Hardened(v.current)]
           /\ \A c \in 0..9 : Index!ParseChar(v, c) =
                [segments |-> v.segments, current |-> Index!TimesPlus(v.current, 10, c)]
           /\ \A c \in Chars : Index!ParseChar(v, c) \in Acc
<1>1. v = [segments |-> v.segments, current |-> v.current]
      /\ v.segments \in Seq(Index!Uint32) /\ v.current \in Index!Uint32
  BY DEF Acc
<1>2. Index!Quote # Index!Slash /\ \A c \in 0..9 : c # Index!Quote /\ c # Index!Slash
  BY DEF Index!Quote, Index!Slash
<1>3. Index!ParseChar(v, Index!Slash) =
        [segments |-> Append(v.segments, v.current), current |-> Index!Zero]
  BY DEF Index!ParseChar
<1>4. Index!ParseChar(v, Index!Quote) =
        [segments |-> v.segments, current |-> Index!Hardened(v.current)]
  BY <1>1, <1>2 DEF Index!ParseChar
<1>5. ASSUME NEW c \in 0..9
      PROVE  Index!ParseChar(v, c) =
        [segments |-> v.segments, current |-> Index!TimesPlus(v.current, 10, c)]
  BY <1>1, <1>2 DEF Index!ParseChar
<1>6. ASSUME NEW c \in Chars PROVE Index!ParseChar(v, c) \in Acc
  <2>1. CASE c \in 0..9
    <3>1. c \in Nat /\ 10 \in Nat
      BY <2>1
    <3>2. Index!TimesPlus(v.current, 10, c) \in Index!Uint32
      BY <1>1, <3>1, TimesPlusType
    <3> QED
      BY <1>1, <1>5, <2>1, <3>2 DEF Acc
  <2>2. CASE c = Index!Quote
    BY <1>1, <1>4, <2>2, HardenedType DEF Acc
  <2>3. CASE c = Index!Slash
    <3>1. Append(v.segments, v.current) \in Seq(Index!Uint32)
      BY <1>1
    <3> QED
      BY <1>3, <2>3, <3>1, ZeroType DEF Acc
  <2> QED
    BY <2>1, <2>2, <2>3 DEF Chars
<1> QED
  BY <1>3, <1>4, <1>5, <1>6

\* The largest number of a set, and of the numbers up to n.
LEMMA MaxFact ==
    ASSUME NEW L \in Nat
    PROVE  /\ \A S \in SUBSET (1..L) : S # {} =>
                Index!Max(S) \in S /\ \A k \in S : k <= Index!Max(S)
           /\ \A n \in 1..L : Index!Max(1..n) = n
<1>1. ASSUME NEW S \in SUBSET (1..L), S # {}
      PROVE  Index!Max(S) \in S /\ \A k \in S : k <= Index!Max(S)
  <2> DEFINE Above == {n \in Nat : \A k \in S : k <= n}
  <2>1. L \in Above
    BY <1>1
  <2>2. PICK n \in Above : \A m \in Above : n <= m
    <3>1. Above \in SUBSET Nat
      OBVIOUS
    <3> HIDE DEF Above
    <3> QED
      BY <2>1, <3>1, Smallest
  <2>3. n \in S
    <3>1. SUFFICES ASSUME n \notin S PROVE FALSE
      OBVIOUS
    <3>2. \A k \in S : k <= n - 1 /\ k >= 1
      BY <2>2, <3>1
    <3>3. n - 1 \in Nat
      <4>1. PICK k \in S : TRUE
        BY <1>1
      <4>2. k \in Nat /\ k <= n - 1 /\ n \in Nat
        BY <2>2, <3>2
      <4> HIDE DEF Above
      <4> QED
        BY <4>2
    <3>4. n - 1 \in Above
      BY <3>2, <3>3
    <3> QED
      BY <2>2, <3>4
  <2>4. \E x \in S : \A k \in S : x >= k
    BY <2>2, <2>3
  <2>5. Index!Max(S) \in S /\ \A k \in S : Index!Max(S) >= k
    BY <2>4 DEF Index!Max
  <2> QED
    BY <2>5
<1>2. ASSUME NEW n \in 1..L PROVE Index!Max(1..n) = n
  <2>1. n \in 1..n /\ 1..n \in SUBSET (1..L) /\ 1..n # {}
    OBVIOUS
  <2>2. Index!Max(1..n) \in 1..n /\ n <= Index!Max(1..n)
    BY <1>1, <2>1
  <2> QED
    BY <2>2
<1> QED
  BY <1>1, <1>2

\* The loop, character by character.
LEMMA Loop ==
    ASSUME NEW s, NEW L \in Nat, DOMAIN s = 1..L, \A i \in 1..L : s[i] \in Chars
    PROVE  \E r :
        /\ r[0] = Begin
        /\ \A i \in 1..L : r[i] = Index!ParseChar(r[i - 1], s[i])
        /\ \A i \in 0..L : r[i] \in Acc
        /\ Index!ParsePath(s) = Append(r[L].segments, r[L].current)
<1> DEFINE D == SUBSET (1..L)
           Is(f) == f = [S \in D |->
               IF S = {} THEN Begin
               ELSE LET x == Index!Max(S) IN Index!ParseChar(f[S \ {x}], s[x])]
           it == CHOOSE f : Is(f)
           step == [i \in 1..L |-> [v \in Acc |-> Index!ParseChar(v, s[i])]]
           top == [S \in D |-> Index!Max(S)]
<1>1. Index!ParsePath(s) = Append(it[1..L].segments, it[1..L].current)
  BY DEF Index!ParsePath, Index!FoldLeft, Index!MapThenFoldSet, Begin
<1>2. step \in [1..L -> [Acc -> Acc]]
  BY ParseCharFact
<1>3. Tops(top, L)
  BY MaxFact DEF Tops
<1>4. PICK f \in [D -> Acc] : Collects(f, L, Begin, step, top)
  <2>1. Begin \in Acc
    BY ZeroType
  <2> HIDE DEF step, top, it, Is
  <2> QED
    BY <1>2, <1>3, <2>1, SetRecursion
<1>5. ASSUME NEW S \in D, S # {}
      PROVE  f[S] = Index!ParseChar(f[S \ {Index!Max(S)}], s[Index!Max(S)])
  <2>1. top[S] = Index!Max(S) /\ top[S] \in 1..L /\ S \ {top[S]} \in D
    BY <1>3, <1>5 DEF Tops
  <2>2. f[S \ {top[S]}] \in Acc
    BY <2>1
  <2>3. step[top[S]][f[S \ {top[S]}]] = Index!ParseChar(f[S \ {top[S]}], s[top[S]])
    <3> DEFINE v == f[S \ {top[S]}]
               x == top[S]
    <3>1. v \in Acc /\ x \in 1..L
      BY <2>1, <2>2
    <3> HIDE DEF v, x
    <3>2. step[x][v] = Index!ParseChar(v, s[x])
      BY <3>1
    <3> QED
      BY <3>2 DEF v, x
  <2> HIDE DEF step, top
  <2> QED
    BY <1>4, <1>5, <2>1, <2>3 DEF Collects
<1> HIDE DEF step, top
<1>6. Is(f)
  <2>1. f = [S \in D |-> f[S]]
    BY <1>4
  <2>2. \A S \in D : f[S] = IF S = {} THEN Begin
           ELSE LET x == Index!Max(S) IN Index!ParseChar(f[S \ {x}], s[x])
    BY <1>4, <1>5 DEF Collects
  <2> HIDE DEF D
  <2> QED
    BY <2>1, <2>2
<1>7. Is(it)
  <2> HIDE DEF Is
  <2> QED
    BY <1>6
<1> HIDE DEF it
<1>8. \A S \in D : it[S] = IF S = {} THEN Begin
           ELSE LET x == Index!Max(S) IN Index!ParseChar(it[S \ {x}], s[x])
  BY <1>7
<1> DEFINE r == [i \in 0..L |-> it[1..i]]
<1>9. r[0] = Begin
  <2>1. 1..0 = {} /\ {} \in D /\ 0 \in 0..L
    OBVIOUS
  <2>2. r[0] = it[{}]
    BY <2>1
  <2> QED
    BY <1>8, <2>1, <2>2
<1>10. ASSUME NEW i \in 1..L PROVE r[i] = Index!ParseChar(r[i - 1], s[i])
  <2>b. i \in 1..i /\ i \in 0..L /\ i - 1 \in 0..L
    OBVIOUS
  <2>1. 1..i \in D /\ 1..i # {} /\ i \in 0..L /\ i - 1 \in 0..L
    <3>1. \A k \in 1..i : k \in 1..L
      OBVIOUS
    <3> QED
      BY <2>b, <3>1
  <2>a. (1..i) \ {i} = 1..(i - 1)
    <3>1. ASSUME NEW k PROVE k \in (1..i) \ {i} <=> k \in 1..(i - 1)
      OBVIOUS
    <3> QED
      BY <3>1
  <2>2. Index!Max(1..i) = i
    BY MaxFact
  <2>3. r[i] = it[1..i] /\ r[i - 1] = it[1..(i - 1)]
    BY <2>1
  <2> HIDE DEF r, D
  <2> QED
    BY <1>8, <2>1, <2>a, <2>2, <2>3
<1>11. \A i \in 0..L : r[i] \in Acc
  <2> DEFINE Bad == {i \in 0..L : r[i] \notin Acc}
  <2> HIDE DEF r
  <2>1. SUFFICES ASSUME Bad # {} PROVE FALSE
    OBVIOUS
  <2>2. PICK i \in Bad : \A k \in Bad : i <= k
    <3>1. Bad \in SUBSET Nat
      OBVIOUS
    <3> HIDE DEF Bad
    <3> QED
      BY <2>1, <3>1, Smallest
  <2>3. i # 0
    BY <1>9, ZeroType, <2>2
  <2>4. i \in 1..L /\ r[i - 1] \in Acc
    BY <2>2, <2>3
  <2>5. r[i] \in Acc
    BY <1>10, <2>4, ParseCharFact
  <2> QED
    BY <2>2, <2>5
<1>12. Index!ParsePath(s) = Append(r[L].segments, r[L].current)
  BY <1>1
<1> QED
  <2> HIDE DEF r
  <2> QED
    BY <1>9, <1>10, <1>11, <1>12

\* The segments a and the number n have been read.
State(a, n) == [segments |-> a, current |-> n]

\* What the loop does with a character then.
LEMMA StateFact ==
    ASSUME NEW a \in Seq(Index!Uint32), NEW n \in Index!Uint32
    PROVE  /\ State(a, n) \in Acc
           /\ Index!ParseChar(State(a, n), Index!Slash) = State(Append(a, n), Index!Zero)
           /\ Index!ParseChar(State(a, n), Index!Quote) = State(a, Index!Hardened(n))
           /\ \A c \in 0..9 :
                Index!ParseChar(State(a, n), c) = State(a, Index!TimesPlus(n, 10, c))
<1>1. State(a, n) \in Acc /\ State(a, n).segments = a /\ State(a, n).current = n
  BY DEF State, Acc
<1> QED
  BY <1>1, ParseCharFact DEF State

\* All the proofs need of 2^16.
LEMMA HalfFact == Index!Half \in Nat /\ Index!Half > 60000
  BY SMT DEF Index!Half

\* Numbers of one and of two digits.
LEMMA SmallFact ==
    /\ Index!Zero = Index!Small(0)
    /\ \A n \in 0..99 : Index!Small(n) \in Index!Uint32 /\ Index!Number(Index!Small(n)) = n
    /\ \A n \in 0..9, c \in 0..9 :
          Index!TimesPlus(Index!Small(n), 10, c) = Index!Small(10 * n + c)
<1>1. Index!Zero = Index!Small(0)
  BY DEF Index!Zero, Index!Small
<1>2. ASSUME NEW n \in 0..99
      PROVE  Index!Small(n) \in Index!Uint32 /\ Index!Number(Index!Small(n)) = n
  <2>1. 0 \in Nat /\ 0 < Index!Half /\ n \in Nat /\ n < Index!Half
    BY HalfFact
  <2>2. Index!Small(n) \in Index!Uint32
    BY <2>1, MakeUint32 DEF Index!Small
  <2>3. Index!Small(n).hi = 0 /\ Index!Small(n).lo = n
    BY DEF Index!Small
  <2>4. 0 * Index!Half + n = n
    BY <2>1, HalfFact
  <2> QED
    BY <2>2, <2>3, <2>4 DEF Index!Number
<1>3. ASSUME NEW n \in 0..9, NEW c \in 0..9
      PROVE  Index!TimesPlus(Index!Small(n), 10, c) = Index!Small(10 * n + c)
  <2> DEFINE m == Index!TimesPlus(Index!Small(n), 10, c)
  <2>1. 10 * n + c \in 0..99 /\ n \in 0..99 /\ c \in Nat /\ 10 \in Nat
    OBVIOUS
  <2>2. 10 * Index!Number(Index!Small(n)) + c < Index!Half * Index!Half
    <3>1. 10 * Index!Number(Index!Small(n)) + c < Index!Half
      BY <1>2, <2>1, HalfFact
    <3>2. Index!Half <= Index!Half * Index!Half
      BY HalfFact
    <3>3. Index!Number(Index!Small(n)) = n /\ Index!Half * Index!Half \in Nat
      BY <1>2, <2>1, HalfFact
    <3> QED
      BY <3>1, <3>2, <3>3, HalfFact
  <2>3. m \in Index!Uint32 /\ Index!Number(m) = 10 * Index!Number(Index!Small(n)) + c
    BY <1>2, <2>1, <2>2, TimesPlusFact
  <2> HIDE DEF m
  <2>4. Index!Number(m) = Index!Number(Index!Small(10 * n + c))
    BY <1>2, <2>1, <2>3
  <2>5. m = Index!Small(10 * n + c)
    BY <1>2, <2>1, <2>3, <2>4, NumberFact
  <2> QED
    BY <2>5 DEF m
<1> QED
  BY <1>1, <1>2, <1>3

\* r follows the loop over s.
Reads(r, s, L) == \A i \in 1..L : r[i] = Index!ParseChar(r[i - 1], s[i])

\* One character.
LEMMA ReadOne ==
    ASSUME NEW r, NEW s, NEW L \in Nat, Reads(r, s, L),
           NEW k \in Nat, k < L, NEW a \in Seq(Index!Uint32), NEW n \in Index!Uint32,
           r[k] = State(a, n)
    PROVE  /\ s[k + 1] = Index!Slash => r[k + 1] = State(Append(a, n), Index!Zero)
           /\ s[k + 1] = Index!Quote => r[k + 1] = State(a, Index!Hardened(n))
           /\ s[k + 1] \in 0..9 => r[k + 1] = State(a, Index!TimesPlus(n, 10, s[k + 1]))
<1>1. k + 1 \in 1..L /\ (k + 1) - 1 = k
  OBVIOUS
<1>2. r[k + 1] = Index!ParseChar(r[k], s[k + 1])
  BY <1>1 DEF Reads
<1> QED
  BY <1>2, StateFact

\* The end of a hardened level.
LEMMA ReadEnd ==
    ASSUME NEW r, NEW s, NEW L \in Nat, Reads(r, s, L),
           NEW k \in Nat, k + 2 <= L, NEW a \in Seq(Index!Uint32), NEW n \in Index!Uint32,
           r[k] = State(a, n), s[k + 1] = Index!Quote, s[k + 2] = Index!Slash
    PROVE  /\ Append(a, Index!Hardened(n)) \in Seq(Index!Uint32)
           /\ r[k + 2] = State(Append(a, Index!Hardened(n)), Index!Zero)
<1>1. Index!Hardened(n) \in Index!Uint32
  BY HardenedType
<1>2. r[k + 1] = State(a, Index!Hardened(n))
  <2>1. k < L
    OBVIOUS
  <2> QED
    BY <2>1, ReadOne
<1>3. k + 1 \in Nat /\ k + 1 < L /\ (k + 1) + 1 = k + 2
  OBVIOUS
<1>4. s[(k + 1) + 1] = Index!Slash
  BY <1>3
<1>5. r[(k + 1) + 1] = State(Append(a, Index!Hardened(n)), Index!Zero)
  BY <1>1, <1>2, <1>3, <1>4, ReadOne
<1>6. Append(a, Index!Hardened(n)) \in Seq(Index!Uint32)
  BY <1>1
<1> QED
  BY <1>3, <1>5, <1>6

\* A digit after a slash.
LEMMA ReadFirst ==
    ASSUME NEW r, NEW s, NEW L \in Nat, Reads(r, s, L),
           NEW k \in Nat, k < L, NEW a \in Seq(Index!Uint32),
           r[k] = State(a, Index!Zero), s[k + 1] \in 0..9
    PROVE  r[k + 1] = State(a, Index!Small(s[k + 1]))
<1> DEFINE c == s[k + 1]
<1>1. r[k + 1] = State(a, Index!TimesPlus(Index!Zero, 10, c))
  BY ZeroType, ReadOne
<1>2. 0 \in 0..9 /\ c \in 0..9 /\ 10 * 0 + c = c
  OBVIOUS
<1> HIDE DEF c
<1>3. Index!TimesPlus(Index!Zero, 10, c) = Index!Small(10 * 0 + c)
  BY <1>2, SmallFact
<1> QED
  BY <1>1, <1>2, <1>3 DEF c

\* A second digit.
LEMMA ReadSecond ==
    ASSUME NEW r, NEW s, NEW L \in Nat, Reads(r, s, L),
           NEW k \in Nat, k < L, NEW a \in Seq(Index!Uint32), NEW n \in 0..9,
           r[k] = State(a, Index!Small(n)), s[k + 1] \in 0..9
    PROVE  r[k + 1] = State(a, Index!Small(10 * n + s[k + 1]))
<1>1. n \in 0..99
  OBVIOUS
<1>2. Index!Small(n) \in Index!Uint32
  BY <1>1, SmallFact
<1>3. r[k + 1] = State(a, Index!TimesPlus(Index!Small(n), 10, s[k + 1]))
  BY <1>2, ReadOne
<1> QED
  BY <1>3, SmallFact

\* The levels above an index.
Above(coin) == <<Index!Hardened(Index!Small(44)), Index!Hardened(Index!Small(coin)),
                 Index!Hardened(Index!Zero), Index!Zero>>

\* A sequence that is one longer than s and begins with it.
LEMMA Longer ==
    ASSUME NEW S, NEW s \in Seq(S), NEW x \in S, NEW t \in Seq(S), Len(t) = Len(s) + 1,
           \A i \in 1 .. Len(s) : t[i] = s[i], t[Len(s) + 1] = x
    PROVE  Append(s, x) = t
<1>1. Append(s, x) \in Seq(S) /\ Len(Append(s, x)) = Len(s) + 1
      /\ (\A i \in 1 .. Len(s) : Append(s, x)[i] = s[i]) /\ Append(s, x)[Len(s) + 1] = x
  BY AppendProperties
<1>2. Len(s) \in Nat
  OBVIOUS
<1>3. ASSUME NEW i \in 1 .. Len(t) PROVE Append(s, x)[i] = t[i]
  <2>1. i \in 1 .. Len(s) \/ i = Len(s) + 1
    BY <1>2
  <2> QED
    BY <1>1, <2>1
<1> QED
  BY <1>1, <1>3, SeqEqual

\* A path of four levels, level by level.
LEMMA Levels ==
    ASSUME NEW S, NEW w \in S, NEW x \in S, NEW y \in S, NEW z \in S
    PROVE  Append(Append(Append(Append(<<>>, w), x), y), z) = <<w, x, y, z>>
<1> DEFINE a == <<w>>
           b == <<w, x>>
           c == <<w, x, y>>
           d == <<w, x, y, z>>
<1>1. Append(<<>>, w) = a
  OBVIOUS
<1>2. a \in Seq(S) /\ b \in Seq(S) /\ c \in Seq(S) /\ d \in Seq(S)
  OBVIOUS
<1>3. /\ Len(a) = 1 /\ Len(b) = 2 /\ Len(c) = 3 /\ Len(d) = 4
      /\ a[1] = w /\ b[1] = w /\ c[1] = w /\ d[1] = w
      /\ b[2] = x /\ c[2] = x /\ d[2] = x
      /\ c[3] = y /\ d[3] = y /\ d[4] = z
  OBVIOUS
<1> HIDE DEF a, b, c, d
<1>4. \A i \in 1..1 : i = 1
  OBVIOUS
<1>5. \A i \in 1..2 : i = 1 \/ i = 2
  OBVIOUS
<1>6. \A i \in 1..3 : i = 1 \/ i = 2 \/ i = 3
  OBVIOUS
<1>7. Append(a, x) = b
  <2>1. Len(b) = Len(a) + 1 /\ (\A i \in 1 .. Len(a) : b[i] = a[i]) /\ b[Len(a) + 1] = x
    BY <1>3, <1>4
  <2> QED
    BY <1>2, <2>1, Longer
<1>8. Append(b, y) = c
  <2>1. Len(c) = Len(b) + 1 /\ (\A i \in 1 .. Len(b) : c[i] = b[i]) /\ c[Len(b) + 1] = y
    BY <1>3, <1>5
  <2> QED
    BY <1>2, <2>1, Longer
<1>9. Append(c, z) = d
  <2>1. Len(d) = Len(c) + 1 /\ (\A i \in 1 .. Len(c) : d[i] = c[i]) /\ d[Len(c) + 1] = z
    BY <1>3, <1>6
  <2> QED
    BY <1>2, <2>1, Longer
<1> QED
  BY <1>1, <1>7, <1>8, <1>9 DEF d

\* A level 0', and the level 0.
LEMMA ReadZero ==
    ASSUME NEW r, NEW s, NEW L \in Nat, Reads(r, s, L),
           NEW k \in Nat, NEW a \in Seq(Index!Uint32), r[k] = State(a, Index!Zero),
           s[k + 1] = 0
    PROVE  /\ k + 3 <= L /\ s[k + 2] = Index!Quote /\ s[k + 3] = Index!Slash =>
                /\ Append(a, Index!Hardened(Index!Zero)) \in Seq(Index!Uint32)
                /\ r[k + 3] = State(Append(a, Index!Hardened(Index!Zero)), Index!Zero)
           /\ k + 2 <= L /\ s[k + 2] = Index!Slash =>
                /\ Append(a, Index!Zero) \in Seq(Index!Uint32)
                /\ r[k + 2] = State(Append(a, Index!Zero), Index!Zero)
<1>1. ASSUME k < L PROVE r[k + 1] = State(a, Index!Zero)
  <2>1. s[k + 1] \in 0..9
    OBVIOUS
  <2>2. r[k + 1] = State(a, Index!Small(s[k + 1]))
    BY <1>1, <2>1, ReadFirst
  <2> QED
    BY <2>2, SmallFact
<1>2. k + 1 \in Nat /\ (k + 1) + 1 = k + 2 /\ (k + 1) + 2 = k + 3
  OBVIOUS
<1>3. Index!Zero \in Index!Uint32
  BY ZeroType
<1>4. ASSUME k + 3 <= L, s[k + 2] = Index!Quote, s[k + 3] = Index!Slash
      PROVE  /\ Append(a, Index!Hardened(Index!Zero)) \in Seq(Index!Uint32)
             /\ r[k + 3] = State(Append(a, Index!Hardened(Index!Zero)), Index!Zero)
  <2>1. k < L /\ (k + 1) + 2 <= L
    BY <1>4
  <2>2. s[(k + 1) + 1] = Index!Quote /\ s[(k + 1) + 2] = Index!Slash
    BY <1>2, <1>4
  <2>3. /\ Append(a, Index!Hardened(Index!Zero)) \in Seq(Index!Uint32)
        /\ r[(k + 1) + 2] = State(Append(a, Index!Hardened(Index!Zero)), Index!Zero)
    BY <1>1, <1>2, <1>3, <2>1, <2>2, ReadEnd
  <2> QED
    BY <1>2, <2>3
<1>5. ASSUME k + 2 <= L, s[k + 2] = Index!Slash
      PROVE  /\ Append(a, Index!Zero) \in Seq(Index!Uint32)
             /\ r[k + 2] = State(Append(a, Index!Zero), Index!Zero)
  <2>1. k < L /\ k + 1 < L
    BY <1>5
  <2>2. s[(k + 1) + 1] = Index!Slash
    BY <1>2, <1>5
  <2>3. r[(k + 1) + 1] = State(Append(a, Index!Zero), Index!Zero)
    BY <1>1, <1>2, <1>3, <2>1, <2>2, ReadOne
  <2> QED
    BY <1>2, <1>3, <2>3
<1> QED
  BY <1>4, <1>5

\* The child number of a level of two digits, which begin after s[k].
TwoDigits(s, k) == Index!Hardened(Index!Small(10 * s[k + 1] + s[k + 2]))

\* The levels 44' and 60'.
LEMMA ReadTwo ==
    ASSUME NEW r, NEW s, NEW L \in Nat, Reads(r, s, L),
           NEW k \in Nat, k + 4 <= L, NEW a \in Seq(Index!Uint32), r[k] = State(a, Index!Zero),
           s[k + 1] \in 0..9, s[k + 2] \in 0..9,
           s[k + 3] = Index!Quote, s[k + 4] = Index!Slash
    PROVE  /\ Append(a, TwoDigits(s, k)) \in Seq(Index!Uint32)
           /\ r[k + 4] = State(Append(a, TwoDigits(s, k)), Index!Zero)
<1> DEFINE c == s[k + 1]
           d == s[k + 2]
<1>c. c \in 0..9 /\ d \in 0..9 /\ s[k + 1] = c /\ s[k + 2] = d
  OBVIOUS
<1> HIDE DEF c, d
<1>1. k < L /\ k + 1 \in Nat /\ k + 1 < L /\ k + 2 \in Nat /\ (k + 2) + 2 <= L
      /\ (k + 1) + 1 = k + 2 /\ (k + 2) + 1 = k + 3 /\ (k + 2) + 2 = k + 4
  OBVIOUS
<1>2. r[k + 1] = State(a, Index!Small(c))
  BY <1>1, <1>c, ReadFirst
<1>3. s[(k + 1) + 1] \in 0..9 /\ s[(k + 1) + 1] = d
  BY <1>1, <1>c
<1>4. r[(k + 1) + 1] = State(a, Index!Small(10 * c + s[(k + 1) + 1]))
  <2> DEFINE m == k + 1
  <2>1. m \in Nat /\ m < L /\ r[m] = State(a, Index!Small(c)) /\ s[m + 1] \in 0..9
    BY <1>1, <1>2, <1>3
  <2>c. c \in 0..9
    BY <1>c
  <2> HIDE DEF m
  <2>2. r[m + 1] = State(a, Index!Small(10 * c + s[m + 1]))
    BY <2>1, <2>c, ReadSecond
  <2> QED
    BY <2>2 DEF m
<1>5. r[k + 2] = State(a, Index!Small(10 * c + d))
  BY <1>1, <1>3, <1>4
<1>6. Index!Small(10 * c + d) \in Index!Uint32
  <2>1. 10 * c + d \in 0..99
    BY <1>c
  <2> QED
    BY <2>1, SmallFact
<1>7. s[(k + 2) + 1] = Index!Quote /\ s[(k + 2) + 2] = Index!Slash
  BY <1>1
<1>8. /\ Append(a, Index!Hardened(Index!Small(10 * c + d))) \in Seq(Index!Uint32)
      /\ r[(k + 2) + 2] = State(Append(a, Index!Hardened(Index!Small(10 * c + d))), Index!Zero)
  <2> DEFINE n == Index!Small(10 * c + d)
             m == k + 2
  <2>1. n \in Index!Uint32 /\ m \in Nat /\ m + 2 <= L /\ r[m] = State(a, n)
        /\ s[m + 1] = Index!Quote /\ s[m + 2] = Index!Slash
    BY <1>1, <1>5, <1>6, <1>7
  <2> HIDE DEF n, m
  <2>2. /\ Append(a, Index!Hardened(n)) \in Seq(Index!Uint32)
        /\ r[m + 2] = State(Append(a, Index!Hardened(n)), Index!Zero)
    BY <2>1, ReadEnd
  <2> QED
    BY <2>2 DEF n, m
<1> QED
  BY <1>1, <1>8 DEF c, d, TwoDigits

\* The part of the two paths before the index.
BeforeBTC == <<4, 4, Index!Quote, Index!Slash, 0, Index!Quote, Index!Slash,
               0, Index!Quote, Index!Slash, 0, Index!Slash>>
BeforeETH == <<4, 4, Index!Quote, Index!Slash, 6, 0, Index!Quote, Index!Slash,
               0, Index!Quote, Index!Slash, 0, Index!Slash>>

\* The first level of both.
LEMMA ReadPurpose ==
    ASSUME NEW r, NEW s, NEW L \in Nat, L >= 4, Reads(r, s, L), r[0] = Begin,
           s[1] = 4, s[2] = 4, s[3] = Index!Quote, s[4] = Index!Slash
    PROVE  /\ Append(<<>>, Index!Hardened(Index!Small(44))) \in Seq(Index!Uint32)
           /\ r[4] = State(Append(<<>>, Index!Hardened(Index!Small(44))), Index!Zero)
<1> DEFINE k == 0
           e == <<>>
<1>1. k \in Nat /\ k + 4 <= L /\ e \in Seq(Index!Uint32) /\ r[k] = State(e, Index!Zero)
  BY DEF Begin, State
<1>2. /\ s[k + 1] \in 0..9 /\ s[k + 2] \in 0..9
      /\ s[k + 3] = Index!Quote /\ s[k + 4] = Index!Slash
  OBVIOUS
<1>3. TwoDigits(s, k) = Index!Hardened(Index!Small(44)) /\ k + 4 = 4
  <2>1. 10 * s[k + 1] + s[k + 2] = 44 /\ k + 4 = 4
    OBVIOUS
  <2> QED
    BY <2>1 DEF TwoDigits
<1> HIDE DEF k, e
<1>4. /\ Append(e, TwoDigits(s, k)) \in Seq(Index!Uint32)
      /\ r[k + 4] = State(Append(e, TwoDigits(s, k)), Index!Zero)
  BY <1>1, <1>2, ReadTwo
<1> QED
  BY <1>3, <1>4 DEF e

\* The account and the chain of both.
LEMMA ReadAccount ==
    ASSUME NEW r, NEW s, NEW L \in Nat, Reads(r, s, L), NEW k \in Nat, k + 5 <= L,
           NEW b \in Seq(Index!Uint32), r[k] = State(b, Index!Zero),
           s[k + 1] = 0, s[k + 2] = Index!Quote, s[k + 3] = Index!Slash,
           s[k + 4] = 0, s[k + 5] = Index!Slash
    PROVE  r[k + 5] = State(Append(Append(b, Index!Hardened(Index!Zero)), Index!Zero), Index!Zero)
<1> DEFINE c == Append(b, Index!Hardened(Index!Zero))
           m == k + 3
<1>1. c \in Seq(Index!Uint32) /\ r[m] = State(c, Index!Zero)
  BY ReadZero
<1>2. m \in Nat /\ m + 2 <= L /\ m + 2 = k + 5 /\ s[m + 1] = 0 /\ s[m + 2] = Index!Slash
  OBVIOUS
<1> HIDE DEF c, m
<1>3. r[m + 2] = State(Append(c, Index!Zero), Index!Zero)
  BY <1>1, <1>2, ReadZero
<1> QED
  BY <1>2, <1>3 DEF c

\* Four levels.
LEMMA AboveFact ==
    ASSUME NEW coin \in 0..99
    PROVE  Above(coin) =
               Append(Append(Append(Append(<<>>, Index!Hardened(Index!Small(44))),
                                    Index!Hardened(Index!Small(coin))),
                             Index!Hardened(Index!Zero)),
                      Index!Zero)
<1>1. 44 \in 0..99
  OBVIOUS
<1>2. /\ Index!Hardened(Index!Small(44)) \in Index!Uint32
      /\ Index!Hardened(Index!Small(coin)) \in Index!Uint32
      /\ Index!Hardened(Index!Zero) \in Index!Uint32 /\ Index!Zero \in Index!Uint32
  BY <1>1, SmallFact, HardenedType, ZeroType
<1> QED
  BY <1>2, Levels DEF Above

\* The levels above the index of a BTC address.
LEMMA ReadBeforeBTC ==
    ASSUME NEW r, NEW s, NEW L \in Nat, L >= 12, Reads(r, s, L), r[0] = Begin,
           \A i \in 1..12 : s[i] = BeforeBTC[i]
    PROVE  r[12] = State(Above(0), Index!Zero)
<1> DEFINE a == Append(<<>>, Index!Hardened(Index!Small(44)))
           b == Append(a, Index!Hardened(Index!Zero))
<1>1. /\ s[1] = 4 /\ s[2] = 4 /\ s[3] = Index!Quote /\ s[4] = Index!Slash
      /\ s[5] = 0 /\ s[6] = Index!Quote /\ s[7] = Index!Slash
      /\ s[8] = 0 /\ s[9] = Index!Quote /\ s[10] = Index!Slash
      /\ s[11] = 0 /\ s[12] = Index!Slash
  BY DEF BeforeBTC
<1>2. a \in Seq(Index!Uint32) /\ r[4] = State(a, Index!Zero)
  BY <1>1, ReadPurpose
<1> HIDE DEF a
<1>3. b \in Seq(Index!Uint32) /\ r[7] = State(b, Index!Zero)
  <2>1. s[4 + 1] = 0 /\ s[4 + 2] = Index!Quote /\ s[4 + 3] = Index!Slash
        /\ 4 \in Nat /\ 4 + 3 <= L
    BY <1>1
  <2>2. b \in Seq(Index!Uint32) /\ r[4 + 3] = State(b, Index!Zero)
    BY <1>2, <2>1, ReadZero
  <2> QED
    BY <2>2
<1> HIDE DEF b
<1>4. r[12] = State(Append(Append(b, Index!Hardened(Index!Zero)), Index!Zero), Index!Zero)
  <2>1. s[7 + 1] = 0 /\ s[7 + 2] = Index!Quote /\ s[7 + 3] = Index!Slash
        /\ s[7 + 4] = 0 /\ s[7 + 5] = Index!Slash /\ 7 \in Nat /\ 7 + 5 <= L
    BY <1>1
  <2>2. r[7 + 5] = State(Append(Append(b, Index!Hardened(Index!Zero)), Index!Zero), Index!Zero)
    BY <1>3, <2>1, ReadAccount
  <2> QED
    BY <2>2
<1>5. 0 \in 0..99
  OBVIOUS
<1> QED
  BY <1>4, <1>5, SmallFact, AboveFact DEF a, b

\* The levels above the index of an ETH address.
LEMMA ReadBeforeETH ==
    ASSUME NEW r, NEW s, NEW L \in Nat, L >= 13, Reads(r, s, L), r[0] = Begin,
           \A i \in 1..13 : s[i] = BeforeETH[i]
    PROVE  r[13] = State(Above(60), Index!Zero)
<1> DEFINE a == Append(<<>>, Index!Hardened(Index!Small(44)))
           b == Append(a, Index!Hardened(Index!Small(60)))
<1>1. /\ s[1] = 4 /\ s[2] = 4 /\ s[3] = Index!Quote /\ s[4] = Index!Slash
      /\ s[5] = 6 /\ s[6] = 0 /\ s[7] = Index!Quote /\ s[8] = Index!Slash
      /\ s[9] = 0 /\ s[10] = Index!Quote /\ s[11] = Index!Slash
      /\ s[12] = 0 /\ s[13] = Index!Slash
  BY DEF BeforeETH
<1>2. a \in Seq(Index!Uint32) /\ r[4] = State(a, Index!Zero)
  BY <1>1, ReadPurpose
<1> HIDE DEF a
<1>3. b \in Seq(Index!Uint32) /\ r[8] = State(b, Index!Zero)
  <2>1. /\ s[4 + 1] \in 0..9 /\ s[4 + 2] \in 0..9
        /\ s[4 + 3] = Index!Quote /\ s[4 + 4] = Index!Slash
        /\ 4 \in Nat /\ 4 + 4 <= L /\ 10 * s[4 + 1] + s[4 + 2] = 60 /\ 4 + 4 = 8
    BY <1>1
  <2>2. TwoDigits(s, 4) = Index!Hardened(Index!Small(60))
    BY <2>1 DEF TwoDigits
  <2>3. /\ Append(a, TwoDigits(s, 4)) \in Seq(Index!Uint32)
        /\ r[4 + 4] = State(Append(a, TwoDigits(s, 4)), Index!Zero)
    BY <1>2, <2>1, ReadTwo
  <2> QED
    BY <2>1, <2>2, <2>3
<1> HIDE DEF b
<1>4. r[13] = State(Append(Append(b, Index!Hardened(Index!Zero)), Index!Zero), Index!Zero)
  <2>1. s[8 + 1] = 0 /\ s[8 + 2] = Index!Quote /\ s[8 + 3] = Index!Slash
        /\ s[8 + 4] = 0 /\ s[8 + 5] = Index!Slash /\ 8 \in Nat /\ 8 + 5 <= L
    BY <1>1
  <2>2. r[8 + 5] = State(Append(Append(b, Index!Hardened(Index!Zero)), Index!Zero), Index!Zero)
    BY <1>3, <2>1, ReadAccount
  <2> QED
    BY <2>2
<1>5. 60 \in 0..99
  OBVIOUS
<1> QED
  BY <1>4, <1>5, AboveFact DEF a, b

\* The digits of a number are read back as the number.
LEMMA ReadNumber ==
    ASSUME NEW r, NEW k \in Nat, NEW a \in Seq(Index!Uint32), r[k] = State(a, Index!Zero),
           NEW n \in Nat, n < Index!Half * Index!Half,
           \A i \in 1 .. Len(Index!Decimal[n]) :
               r[k + i] = Index!ParseChar(r[k + i - 1], Index!Decimal[n][i])
    PROVE  \E m \in Index!Uint32 :
               Index!Number(m) = n /\ r[k + Len(Index!Decimal[n])] = State(a, m)
<1> DEFINE D == Index!Decimal
           Reading(j) == \A i \in 1 .. Len(D[j]) : r[k + i] = Index!ParseChar(r[k + i - 1], D[j][i])
           Ends(j) == \E m \in Index!Uint32 : Index!Number(m) = j /\ r[k + Len(D[j])] = State(a, m)
           Bad == {j \in 0..n : Reading(j) /\ ~Ends(j)}
<1>1. SUFFICES ASSUME Bad # {} PROVE FALSE
  <2>1. n \in 0..n /\ Reading(n)
    OBVIOUS
  <2>2. Bad = {} => Ends(n)
    BY <2>1
  <2> QED
    BY <2>2
<1>2. PICK j \in Bad : \A i \in Bad : j <= i
  <2>1. Bad \in SUBSET Nat
    OBVIOUS
  <2> HIDE DEF Bad
  <2> QED
    BY <1>1, <2>1, Smallest
<1>3. j \in 0..n /\ j \in Nat /\ Reading(j) /\ ~Ends(j)
  BY <1>2
<1>4. /\ D[j] \in Seq(0..9)
      /\ D[j] = IF j < 10 THEN <<j>> ELSE Append(D[j \div 10], j % 10)
  BY <1>3, DecimalFact
<1>5. Index!Half * Index!Half \in Nat /\ j < Index!Half * Index!Half
  BY <1>3, HalfFact
<1> HIDE DEF D
\* The last digit is added to what was read.
<1>6. ASSUME NEW m \in Index!Uint32, NEW c \in 0..9, 10 * Index!Number(m) + c = j,
             NEW l \in Nat, Len(D[j]) = l + 1, D[j][l + 1] = c, r[k + l] = State(a, m)
      PROVE  Ends(j)
  <2> DEFINE t == Index!TimesPlus(m, 10, c)
  <2>1. 10 \in Nat /\ c \in Nat /\ 10 * Index!Number(m) + c < Index!Half * Index!Half
    BY <1>5, <1>6
  <2>2. t \in Index!Uint32 /\ Index!Number(t) = j
    BY <1>6, <2>1, TimesPlusFact
  <2>3. l + 1 \in 1 .. Len(D[j]) /\ k + (l + 1) - 1 = k + l
    BY <1>6
  <2>4. r[k + (l + 1)] = Index!ParseChar(r[k + l], c)
    BY <1>3, <1>6, <2>3
  <2>5. r[k + (l + 1)] = State(a, t)
    BY <1>6, <2>4, StateFact
  <2> HIDE DEF t
  <2> QED
    BY <1>6, <2>2, <2>5
<1>7. CASE j < 10
  <2>1. D[j] = <<j>> /\ j \in 0..9
    BY <1>3, <1>4, <1>7
  <2>2. Len(D[j]) = 0 + 1 /\ D[j][0 + 1] = j /\ 0 \in Nat
    BY <2>1
  <2>3. Index!Number(Index!Zero) = 0 /\ Index!Zero \in Index!Uint32
    <3>1. 0 \in 0..99
      OBVIOUS
    <3> QED
      BY <3>1, SmallFact
  <2>4. 10 * Index!Number(Index!Zero) + j = j /\ k + 0 = k
    BY <1>3, <2>3
  <2>5. r[k + 0] = State(a, Index!Zero)
    BY <2>4
  <2>6. Ends(j)
    BY <1>6, <2>1, <2>2, <2>3, <2>4, <2>5
  <2> QED
    BY <1>3, <2>6
<1>8. CASE ~(j < 10)
  <2> DEFINE i == j \div 10
             c == j % 10
             l == Len(D[i])
  <2>1. i \in Nat /\ i \in 0..n /\ i < j /\ c \in 0..9 /\ 10 * i + c = j
    BY <1>3, <1>8
  <2>2. D[i] \in Seq(0..9) /\ D[j] = Append(D[i], c)
    BY <1>4, <1>8, <2>1, DecimalFact DEF D
  <2> HIDE DEF i, c
  <2>3. l \in Nat /\ Len(D[j]) = l + 1 /\ D[j][l + 1] = c
        /\ \A h \in 1..l : D[j][h] = D[i][h]
    BY <2>1, <2>2, AppendProperties, LenProperties
  <2>4. Reading(i)
    <3>1. \A h \in 1 .. l : h \in 1 .. Len(D[j])
      BY <2>3
    <3> QED
      BY <1>3, <2>3, <3>1
  <2>5. i \notin Bad
    BY <1>2, <2>1
  <2>6. Ends(i)
    BY <2>1, <2>4, <2>5
  <2>7. PICK m \in Index!Uint32 : Index!Number(m) = i /\ r[k + l] = State(a, m)
    BY <2>6
  <2> HIDE DEF l
  <2>8. 10 * Index!Number(m) + c = j
    BY <2>1, <2>7
  <2>9. Ends(j)
    BY <1>6, <2>1, <2>3, <2>7, <2>8
  <2> QED
    BY <1>3, <2>9
<1> QED
  BY <1>7, <1>8

\* A uint32 is below 2^32.
LEMMA NumberBound ==
    ASSUME NEW n \in Index!Uint32
    PROVE  Index!Number(n) \in Nat /\ Index!Number(n) < Index!Half * Index!Half
<1> DEFINE H == Index!Half
           h == n.hi
           l == n.lo
<1>1. H \in Nat /\ h \in Nat /\ h + 1 <= H /\ l \in Nat /\ l < H
  BY HalvesFact, HalfFact
<1>2. Index!Number(n) = h * H + l
  BY DEF Index!Number
<1> HIDE DEF H, h, l
<1>3. (h + 1) * H <= H * H
  BY <1>1
<1>4. (h + 1) * H = h * H + H /\ h * H \in Nat /\ H * H \in Nat
  BY <1>1
<1> QED
  BY <1>1, <1>2, <1>3, <1>4 DEF H

\* A path is a part of its own and the digits of an index.
LEMMA ReadPath ==
    ASSUME NEW before, NEW b \in Nat, before \in Seq(Chars), Len(before) = b,
           NEW coin,
           Above(coin) \in Seq(Index!Uint32),
           \A r, s, L :
               L \in Nat /\ L >= b /\ Reads(r, s, L) /\ r[0] = Begin
               /\ (\A i \in 1..b : s[i] = before[i])
               => r[b] = State(Above(coin), Index!Zero),
           NEW n \in Index!Uint32
    PROVE  Index!ParsePath(before \o Index!Decimal[Index!Number(n)]) = Append(Above(coin), n)
<1> DEFINE d == Index!Decimal[Index!Number(n)]
           s == before \o d
           L == b + Len(d)
<1>1. Index!Number(n) \in Nat /\ Index!Number(n) < Index!Half * Index!Half
  BY NumberBound
<1>2. d \in Seq(Chars) /\ Len(d) \in Nat
  <2>1. d \in Seq(0..9)
    BY <1>1, DecimalFact
  <2>2. Seq(0..9) \subseteq Seq(Chars)
    BY SeqMonotonic DEF Chars
  <2> HIDE DEF d
  <2> QED
    BY <2>1, <2>2
<1>3. /\ L \in Nat /\ L >= b /\ DOMAIN s = 1..L
      /\ \A i \in 1..L : s[i] \in Chars
      /\ \A i \in 1..b : s[i] = before[i]
      /\ \A i \in 1..Len(d) : s[b + i] = d[i]
  <2> HIDE DEF d
  <2>1. s \in Seq(Chars) /\ Len(s) = L
    BY <1>2, ConcatProperties
  <2>2. L \in Nat /\ L >= b
    BY <1>2
  <2>3. DOMAIN s = 1..L /\ \A i \in 1..L : s[i] \in Chars
    BY <2>1, LenProperties, ElementOfSeq
  <2> QED
    BY <1>2, <2>2, <2>3, ConcatProperties
<1> HIDE DEF s
<1>4. PICK r :
        /\ r[0] = Begin
        /\ \A i \in 1..L : r[i] = Index!ParseChar(r[i - 1], s[i])
        /\ \A i \in 0..L : r[i] \in Acc
        /\ Index!ParsePath(s) = Append(r[L].segments, r[L].current)
  <2> HIDE DEF L
  <2> QED
    BY <1>3, Loop
<1>5. Reads(r, s, L)
  BY <1>4 DEF Reads
<1>6. r[b] = State(Above(coin), Index!Zero)
  <2> HIDE DEF L
  <2> QED
    BY <1>3, <1>4, <1>5
<1>7. \A i \in 1..Len(d) : r[b + i] = Index!ParseChar(r[b + i - 1], d[i])
  <2> TAKE i \in 1..Len(d)
  <2>1. b + i \in 1..L
    BY <1>2
  <2> QED
    BY <1>3, <1>4, <2>1
<1>8. PICK m \in Index!Uint32 :
        Index!Number(m) = Index!Number(n) /\ r[b + Len(d)] = State(Above(coin), m)
  <2> DEFINE j == Index!Number(n)
             a == Above(coin)
  <2>1. j \in Nat /\ j < Index!Half * Index!Half
        /\ a \in Seq(Index!Uint32) /\ r[b] = State(a, Index!Zero)
        /\ \A i \in 1 .. Len(Index!Decimal[j]) :
              r[b + i] = Index!ParseChar(r[b + i - 1], Index!Decimal[j][i])
    BY <1>1, <1>6, <1>7
  <2>2. L = b + Len(Index!Decimal[j])
    OBVIOUS
  <2> HIDE DEF j, a, L, d
  <2>3. \E m \in Index!Uint32 :
          Index!Number(m) = j /\ r[b + Len(Index!Decimal[j])] = State(a, m)
    BY <2>1, ReadNumber
  <2> QED
    BY <2>3 DEF j, a, d
<1>9. m = n
  BY <1>8, NumberFact
<1>10. r[L].segments = Above(coin) /\ r[L].current = n
  BY <1>8, <1>9 DEF State
<1> QED
  BY <1>4, <1>10 DEF s

\* Both paths are read back, whatever the index.
LEMMA PathFact ==
    ASSUME NEW n \in Index!Uint32
    PROVE  /\ Index!ParsePath(Index!PathBTC(n)) = Append(Above(0), n)
           /\ Index!ParsePath(Index!PathETH(n)) = Append(Above(60), n)
<1>1. BeforeBTC \in Seq(Chars) /\ Len(BeforeBTC) = 12
  BY DEF BeforeBTC, Chars
<1>2. BeforeETH \in Seq(Chars) /\ Len(BeforeETH) = 13
  BY DEF BeforeETH, Chars
<1>3. ASSUME NEW coin \in 0..99 PROVE Above(coin) \in Seq(Index!Uint32)
  <2>1. 44 \in 0..99
    OBVIOUS
  <2>2. /\ Index!Hardened(Index!Small(44)) \in Index!Uint32
        /\ Index!Hardened(Index!Small(coin)) \in Index!Uint32
        /\ Index!Hardened(Index!Zero) \in Index!Uint32 /\ Index!Zero \in Index!Uint32
    BY <2>1, SmallFact, HardenedType, ZeroType
  <2> QED
    BY <2>2 DEF Above
<1>4. Above(0) \in Seq(Index!Uint32) /\ Above(60) \in Seq(Index!Uint32)
  <2>1. 0 \in 0..99 /\ 60 \in 0..99
    OBVIOUS
  <2> QED
    BY <1>3, <2>1
<1>5. Index!ParsePath(BeforeBTC \o Index!Decimal[Index!Number(n)]) = Append(Above(0), n)
  <2> DEFINE b == 12
             coin == 0
  <2>1. b \in Nat /\ BeforeBTC \in Seq(Chars) /\ Len(BeforeBTC) = b
        /\ Above(coin) \in Seq(Index!Uint32)
    BY <1>1, <1>4
  <2>2. \A r, s, L :
          L \in Nat /\ L >= b /\ Reads(r, s, L) /\ r[0] = Begin
          /\ (\A i \in 1..b : s[i] = BeforeBTC[i])
          => r[b] = State(Above(coin), Index!Zero)
    BY ReadBeforeBTC
  <2> HIDE DEF b, coin
  <2>3. Index!ParsePath(BeforeBTC \o Index!Decimal[Index!Number(n)]) = Append(Above(coin), n)
    BY <2>1, <2>2, ReadPath
  <2> QED
    BY <2>3 DEF coin
<1>6. Index!ParsePath(BeforeETH \o Index!Decimal[Index!Number(n)]) = Append(Above(60), n)
  <2> DEFINE b == 13
             coin == 60
  <2>1. b \in Nat /\ BeforeETH \in Seq(Chars) /\ Len(BeforeETH) = b
        /\ Above(coin) \in Seq(Index!Uint32)
    BY <1>2, <1>4
  <2>2. \A r, s, L :
          L \in Nat /\ L >= b /\ Reads(r, s, L) /\ r[0] = Begin
          /\ (\A i \in 1..b : s[i] = BeforeETH[i])
          => r[b] = State(Above(coin), Index!Zero)
    BY ReadBeforeETH
  <2> HIDE DEF b, coin
  <2>3. Index!ParsePath(BeforeETH \o Index!Decimal[Index!Number(n)]) = Append(Above(coin), n)
    BY <2>1, <2>2, ReadPath
  <2> QED
    BY <2>3 DEF coin
<1>7. Index!PathBTC(n) = BeforeBTC \o Index!Decimal[Index!Number(n)]
  BY DEF Index!PathBTC, BeforeBTC
<1>8. Index!PathETH(n) = BeforeETH \o Index!Decimal[Index!Number(n)]
  BY DEF Index!PathETH, BeforeETH
<1> QED
  BY <1>5, <1>6, <1>7, <1>8

-----------------------------------------------------------------------------
(* The index of an id.                                                      *)

\* The largest index of an id of so many digits.
Largest == <<0, 57, 1824, 56601, 1754688, 54395385, 1686256992>>

\* The largest indices grow by the loop and ask for no hardened key.
LEMMA LargestFact ==
    /\ Largest[1] = 0
    /\ \A i \in 1..7 : Largest[i] \in Nat /\ 2 * Largest[i] < Index!Half * Index!Half
    /\ \A i \in 1..6 : Largest[i + 1] = 31 * Largest[i] + 57
<1>1. /\ Largest[1] = 0 /\ Largest[2] = 57 /\ Largest[3] = 1824 /\ Largest[4] = 56601
      /\ Largest[5] = 1754688 /\ Largest[6] = 54395385 /\ Largest[7] = 1686256992
  BY SMT DEF Largest
<1>2. ASSUME NEW i \in 1..6 PROVE Largest[i + 1] = 31 * Largest[i] + 57
  <2>1. i = 1 \/ i = 2 \/ i = 3 \/ i = 4 \/ i = 5 \/ i = 6
    BY SMT
  <2> QED
    BY <1>1, <2>1, SMT
<1>3. ASSUME NEW i \in 1..7
      PROVE  Largest[i] \in Nat /\ 2 * Largest[i] < Index!Half * Index!Half
  <2>1. i = 1 \/ i = 2 \/ i = 3 \/ i = 4 \/ i = 5 \/ i = 6 \/ i = 7
    BY SMT
  <2>2. Index!Half * Index!Half = 4294967296
    BY SMT DEF Index!Half
  <2> QED
    BY <1>1, <2>1, <2>2, SMT
<1> QED
  BY <1>1, <1>2, <1>3, SMT

\* The index of a short id tells the id.
Tells(i, u) == Len(u) <= 6 => IdOf[Index!Number(i)] = u

\* The index of an id of at most six digits has not wrapped around and is the index of
\* no other such id; every address that was told, registered or inserted for a short
\* id tells it.
IndexInv ==
    /\ user \in Id \cup {<<>>}
    /\ id \in Seq(0..9)
    /\ index \in Index!Uint32
    /\ Len(id) <= 6 => Index!Number(index) <= Largest[Len(id) + 1]
    /\ Tells(index, id)
    /\ told \subseteq [user : Id, index : Index!Uint32]
    /\ \A g \in told : Tells(g.index, g.user)
    /\ \A i \in DOMAIN registry : registry[i] \in Id /\ Tells(i, registry[i])
    /\ \A i \in DOMAIN table : table[i] \in Id /\ Tells(i, table[i])

\* Ids are sequences of digits.
LEMMA IdFact == ASSUME NEW u \in Id PROVE u \in Seq(0..9)
  BY ListAssumption DEF Index!IdAssumption

\* No digits, index zero.
LEMMA NoDigits ==
    ASSUME NEW u, NEW i, u = <<>>, i = Index!Zero
    PROVE  /\ u \in Seq(0..9) /\ i \in Index!Uint32 /\ Tells(i, u)
           /\ Len(u) <= 6 => Index!Number(i) <= Largest[Len(u) + 1]
<1>1. Index!Zero \in Index!Uint32 /\ Index!Number(Index!Zero) = 0
  <2>1. 0 \in 0..99
    OBVIOUS
  <2> QED
    BY <2>1, SmallFact
<1>2. u \in Seq(0..9) /\ Len(u) = 0 /\ Len(u) + 1 = 1
  OBVIOUS
<1>3. Index!Number(i) = 0 /\ Largest[Len(u) + 1] = 0 /\ IdOf[Index!Number(i)] = u
  BY <1>1, <1>2, LargestFact, IdOfNext
<1> QED
  BY <1>1, <1>2, <1>3 DEF Tells

LEMMA InitIndex == Index!Init => IndexInv
<1> SUFFICES ASSUME Index!Init PROVE IndexInv
  OBVIOUS
<1>1. user = <<>> /\ id = <<>> /\ index = Index!Zero /\ told = {}
  BY DEF Index!Init
<1>2. DOMAIN registry = {} /\ DOMAIN table = {}
  BY DEF Index!Init, Index!Nobody
<1>3. /\ id \in Seq(0..9) /\ index \in Index!Uint32 /\ Tells(index, id)
      /\ Len(id) <= 6 => Index!Number(index) <= Largest[Len(id) + 1]
  BY <1>1, NoDigits
<1> QED
  BY <1>1, <1>2, <1>3 DEF IndexInv

\* A round of the loop with a digit that keeps the id short.
LEMMA AddDigit ==
    ASSUME NEW s \in Seq(0..9), NEW i \in Index!Uint32, NEW d \in 0..9,
           Len(s) <= 5, Index!Number(i) <= Largest[Len(s) + 1], Tells(i, s)
    PROVE  LET j == Index!TimesPlus(i, 31, 48 + d)
           IN  /\ Index!Number(j) <= Largest[Len(Append(s, d)) + 1]
               /\ Tells(j, Append(s, d))
<1> DEFINE l == Len(s)
           n == Index!Number(i)
           j == Index!TimesPlus(i, 31, 48 + d)
<1>1. l \in Nat /\ n \in Nat /\ l + 1 \in 1..6 /\ l + 2 \in 1..7 /\ IdOf[n] = s
  BY NumberFact DEF Tells
<1>2. n <= Largest[l + 1] /\ Largest[l + 1] \in Nat /\ Largest[l + 2] = 31 * Largest[l + 1] + 57
      /\ 2 * Largest[l + 2] < Index!Half * Index!Half /\ Largest[l + 2] \in Nat
  <2>1. (l + 1) + 1 = l + 2 /\ l + 1 \in 1..7
    BY <1>1
  <2>2. n <= Largest[l + 1]
    OBVIOUS
  <2> HIDE DEF l, n
  <2> QED
    BY <1>1, <2>1, <2>2, LargestFact
<1>3. Len(Append(s, d)) + 1 = l + 2
  BY <1>1
<1> HIDE DEF l, n
<1>4. 31 \in Nat /\ 48 + d \in Nat /\ 31 * n + (48 + d) <= Largest[l + 2]
  BY <1>1, <1>2
<1>5. 31 * n + (48 + d) < Index!Half * Index!Half
  <2>1. Index!Half * Index!Half \in Nat
    BY HalfFact
  <2> QED
    BY <1>1, <1>2, <1>4, <2>1
<1>6. Index!Number(j) = 31 * n + (48 + d)
  BY <1>4, <1>5, TimesPlusFact DEF n
<1>7. IdOf[Index!Number(j)] = Append(s, d)
  <2>1. 31 * n + (48 + d) = 31 * n + 48 + d
    BY <1>1
  <2> QED
    BY <1>1, <1>6, <2>1, IdOfNext
<1> QED
  BY <1>3, <1>4, <1>6, <1>7 DEF Tells

\* A round of the loop keeps the invariant; a long id needs nothing.
LEMMA NextCharStep == IndexInv /\ Index!NextChar => IndexInv'
<1> SUFFICES ASSUME IndexInv, Index!NextChar PROVE IndexInv'
  OBVIOUS
<1> DEFINE d == user[Len(id) + 1]
<1>1. /\ id \in Seq(0..9) /\ index \in Index!Uint32 /\ Tells(index, id)
      /\ Len(id) <= 6 => Index!Number(index) <= Largest[Len(id) + 1]
  BY DEF IndexInv
<1>2. /\ Len(id) < Len(user) /\ id' = Append(id, d)
      /\ index' = Index!TimesPlus(index, 31, 48 + d)
      /\ UNCHANGED <<user, registry, table, told>>
  BY DEF Index!NextChar, Index!NextIndex
<1>3. d \in 0..9 /\ Len(id) \in Nat
  <2>1. user \in Seq(0..9)
    <3>1. user \in Id \/ user = <<>>
      BY DEF IndexInv
    <3>2. <<>> \in Seq(0..9)
      OBVIOUS
    <3> QED
      BY <3>1, <3>2, IdFact
  <2> QED
    BY <1>1, <1>2, <2>1
<1> HIDE DEF d
<1>4. id' \in Seq(0..9) /\ Len(id') = Len(id) + 1
  BY <1>1, <1>2, <1>3
<1>5. index' \in Index!Uint32
  <2>1. 31 \in Nat /\ 48 + d \in Nat
    BY <1>3
  <2> QED
    BY <1>1, <1>2, <2>1, TimesPlusType
<1>6. ASSUME Len(id') <= 6
      PROVE  Index!Number(index') <= Largest[Len(id') + 1] /\ IdOf[Index!Number(index')] = id'
  <2>1. Len(id) <= 5 /\ Len(id) <= 6
    BY <1>3, <1>4, <1>6
  <2> QED
    BY <1>1, <1>2, <1>3, <1>6, <2>1, AddDigit DEF Tells
<1> QED
  BY <1>2, <1>4, <1>5, <1>6 DEF IndexInv, Tells

\* The request is over; what is kept for addresses is as good as before.
LEMMA ReturnStep ==
    ASSUME Index!Return,
           told' \subseteq [user : Id, index : Index!Uint32],
           \A g \in told' : Tells(g.index, g.user),
           \A i \in DOMAIN registry' : registry'[i] \in Id /\ Tells(i, registry'[i]),
           \A i \in DOMAIN table' : table'[i] \in Id /\ Tells(i, table'[i])
    PROVE  IndexInv'
<1>1. user' = <<>> /\ id' = <<>> /\ index' = Index!Zero
  BY DEF Index!Return
<1>2. /\ id' \in Seq(0..9) /\ index' \in Index!Uint32 /\ Tells(index', id')
      /\ Len(id') <= 6 => Index!Number(index') <= Largest[Len(id') + 1]
  BY <1>1, NoDigits
<1> QED
  BY <1>1, <1>2 DEF IndexInv, Tells

\* The address of an answer tells its user, in the registry and in the table.
LEMMA AnswerStep == IndexInv /\ Index!Answer => IndexInv'
<1> SUFFICES ASSUME IndexInv, Index!Answer PROVE IndexInv'
  OBVIOUS
<1> DEFINE g == [user |-> user, index |-> index]
<1>1. /\ user \in Id /\ Tells(index, user) /\ index \in Index!Uint32
      /\ told' = told \cup {g} /\ Index!Return
      /\ registry' = Index!Put(registry, index, user)
      /\ table' = table \/ table' = Index!Put(table, index, user)
  BY DEF IndexInv, Index!Answer, Index!Register, Index!CreateDepositAddress
<1>2. ASSUME NEW f, \A i \in DOMAIN f : f[i] \in Id /\ Tells(i, f[i])
      PROVE  LET h == Index!Put(f, index, user)
             IN  \A i \in DOMAIN h : h[i] \in Id /\ Tells(i, h[i])
  BY <1>1, <1>2 DEF Index!Put
<1>3. \A i \in DOMAIN registry' : registry'[i] \in Id /\ Tells(i, registry'[i])
  BY <1>1, <1>2 DEF IndexInv
<1>4. \A i \in DOMAIN table' : table'[i] \in Id /\ Tells(i, table'[i])
  BY <1>1, <1>2 DEF IndexInv
<1>5. /\ told' \subseteq [user : Id, index : Index!Uint32]
      /\ \A h \in told' : Tells(h.index, h.user)
  BY <1>1 DEF IndexInv
<1> QED
  BY <1>1, <1>3, <1>4, <1>5, ReturnStep

LEMMA IndexStep == IndexInv /\ Index!Next => IndexInv'
<1> SUFFICES ASSUME IndexInv, Index!Next PROVE IndexInv'
  OBVIOUS
<1>1. CASE Index!Ask
  BY <1>1 DEF Index!Ask, IndexInv, Tells
<1>2. CASE Index!NextChar
  BY <1>2, NextCharStep
<1>3. CASE Index!Answer
  BY <1>3, AnswerStep
<1>4. CASE Index!DeriveFails
  BY <1>4, ReturnStep DEF Index!DeriveFails, IndexInv
<1>5. CASE Index!Restart
  <2>1. /\ Index!Return /\ registry' \in {table, Index!Nobody}
        /\ UNCHANGED <<table, told>>
    BY <1>5 DEF Index!Restart
  <2>2. \A i \in DOMAIN registry' : registry'[i] \in Id /\ Tells(i, registry'[i])
    BY <2>1 DEF IndexInv, Index!Nobody
  <2> QED
    BY <2>1, <2>2, ReturnStep DEF IndexInv
<1> QED
  BY <1>1, <1>2, <1>3, <1>4, <1>5 DEF Index!Next

\* An address tells each of its owners whose id is short, so these are one.
LEMMA IndexInvShares == IndexInv => Index!SharedOnlyWithLongId
<1> SUFFICES ASSUME IndexInv, NEW i \in Index!Given,
                    NEW u \in Index!Owners(i), NEW v \in Index!Owners(i)
             PROVE  u = v \/ Len(u) > 6 \/ Len(v) > 6
  BY DEF Index!SharedOnlyWithLongId
<1>1. ASSUME NEW w \in Index!Owners(i) PROVE w \in Id /\ Tells(i, w)
  BY DEF IndexInv, Index!Owners
<1>2. Len(u) \in Nat /\ Len(v) \in Nat
  BY <1>1, IdFact
<1> QED
  BY <1>1, <1>2 DEF Tells

\* Every index that was told is a uint32, and its path is read back.
LEMMA IndexInvPaths == IndexInv => Index!PathIsReadBack
<1> SUFFICES ASSUME IndexInv PROVE Index!PathIsReadBack
  OBVIOUS
<1>1. \A i \in Index!Given : i \in Index!Uint32
  BY DEF IndexInv, Index!Given
<1> QED
  BY <1>1, PathFact DEF Index!PathIsReadBack, Above

LEMMA SpecIndexInv == PartsSpec => []IndexInv
<1>1. PartsInit => IndexInv
  BY InitIndex DEF PartsInit
<1>2. IndexInv /\ [PartsNext]_partVars => IndexInv'
  <2> SUFFICES ASSUME IndexInv, [PartsNext]_partVars PROVE IndexInv'
    OBVIOUS
  <2>1. Index!Next \/ UNCHANGED indexVars
    BY DEF PartsNext, partVars, ConfigStep
  <2>2. CASE UNCHANGED indexVars
    BY <2>2 DEF IndexInv, indexVars, Tells
  <2> QED
    BY <2>1, <2>2, IndexStep
<1> QED
  BY <1>1, <1>2, PTL DEF PartsSpec

\* A deposit address can be shared only with a user whose id has more than six digits:
\* the loop of GenerateDepositAddress tells all shorter ids apart, and registry, table
\* and restarts keep an address with its user.  parsePath reads the path of every
\* address back as the child it was printed for, whatever the id.
THEOREM AddressesRight == PartsSpec => []AddressesAreRight
<1>1. IndexInv => AddressesAreRight
  BY IndexInvShares, IndexInvPaths DEF AddressesAreRight
<1> QED
  BY <1>1, SpecIndexInv, PTL
=============================================================================
