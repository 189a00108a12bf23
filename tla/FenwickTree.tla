----------------------------- MODULE FenwickTree -----------------------------
(* _FenwickTree: partial sums of the leaves' weights, arranged so that changing
   a leaf and finding the leaf under a random target both take one step per
   bit.  Node i holds the sum of the leaves i - LowBit(i) + 1 .. i, counted
   from 1; leaves are numbered from 0.  Weights are small integers.          *)
EXTENDS Integers, FiniteSetsExt

CONSTANTS Leaves,      \* the number of leaves
          Bits,        \* the bits of Leaves
          MaxWeight

(* 1 << bit                                                                  *)
Power[bit \in 0 .. Bits] == IF bit = 0 THEN 1 ELSE 2 * Power[bit - 1]

ASSUME FenwickAssumption ==
    /\ Leaves \in Nat \ {0} /\ Bits \in Nat \ {0} /\ MaxWeight \in Nat
    /\ Power[Bits - 1] <= Leaves /\ Leaves < Power[Bits]

VARIABLES nodes, leaves
fenwickVars == <<nodes, leaves>>

(* index & -index                                                            *)
LowBit(i) == CHOOSE b \in {Power[k] : k \in 0 .. Bits} : i % (2 * b) = b

(* The nodes that set walks up through and that total walks down through.    *)
Climb[i \in 1 .. 2 * Leaves] ==
    IF i > Leaves THEN {} ELSE {i} \cup Climb[i + LowBit(i)]
Descend[i \in 0 .. Leaves] ==
    IF i = 0 THEN {} ELSE {i} \cup Descend[i - LowBit(i)]

FenwickInit ==
    /\ nodes = [i \in 1 .. Leaves |-> 0]
    /\ leaves = [i \in 0 .. Leaves - 1 |-> 0]

SetOverwriting(leaf, weight) == \* faulty: the weight is added, not the difference
    /\ nodes' = [i \in 1 .. Leaves |-> IF i \in Climb[leaf + 1] THEN nodes[i] + weight ELSE nodes[i]]
    /\ leaves' = [leaves EXCEPT ![leaf] = weight]
SetLeaf(leaf, weight) ==
    /\ nodes' = [i \in 1 .. Leaves |->
         IF i \in Climb[leaf + 1] THEN nodes[i] + weight - leaves[leaf] ELSE nodes[i]]
    /\ leaves' = [leaves EXCEPT ![leaf] = weight]

Total == SumFunctionOnSet(nodes, Descend[Leaves])

(* Binary descent from the highest bit; the result is capped for targets that
   rounding has pushed to the total.                                         *)
Probe(target) ==
    LET probe[k \in 0 .. Bits] ==
          IF k = 0 THEN [at |-> 0, left |-> target]
          ELSE LET last == probe[k - 1]
                   candidate == last.at + Power[Bits - k]
               IN IF candidate <= Leaves /\ nodes[candidate] <= last.left
                    THEN [at |-> candidate, left |-> last.left - nodes[candidate]]
                    ELSE last
    IN probe[Bits].at
ProbeStrictly(target) == \* faulty: a target on a boundary stays left of it
    LET probe[k \in 0 .. Bits] ==
          IF k = 0 THEN [at |-> 0, left |-> target]
          ELSE LET last == probe[k - 1]
                   candidate == last.at + Power[Bits - k]
               IN IF candidate <= Leaves /\ nodes[candidate] < last.left
                    THEN [at |-> candidate, left |-> last.left - nodes[candidate]]
                    ELSE last
    IN probe[Bits].at
FindStrictly(target) == IF ProbeStrictly(target) < Leaves THEN ProbeStrictly(target) ELSE Leaves - 1
Find(target) == IF Probe(target) < Leaves THEN Probe(target) ELSE Leaves - 1

FenwickNext == \E leaf \in 0 .. Leaves - 1, weight \in 0 .. MaxWeight : SetLeaf(leaf, weight)
FenwickSpec == FenwickInit /\ [][FenwickNext]_fenwickVars

-----------------------------------------------------------------------------
SumBelow(leaf) == SumFunctionOnSet(leaves, 0 .. leaf - 1)

(* Whatever the order in which weights were set, the tree's total is the sum of
   the leaves and a target falls on the leaf whose share of the total it hits,
   so a leaf of weight 0 is never drawn.                                     *)
DrawsFollowTheWeights ==
    /\ Total = SumBelow(Leaves)
    /\ \A target \in 0 .. Total - 1 :
         /\ SumBelow(Find(target)) <= target
         /\ target < SumBelow(Find(target) + 1)
=============================================================================
