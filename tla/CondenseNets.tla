---------------------------- MODULE CondenseNets ----------------------------
(***************************************************************************)
(* CondenseNetWithPortRange (exthostwindows/utils/network.go): a list of   *)
(* networks with ports that is longer than Limit is condensed by replacing *)
(* neighbours by the smallest network around them, the most specific       *)
(* first, with one iteration of the loop per step.  A network is the       *)
(* interval of its addresses and the range of its ports; Merge belongs to  *)
(* the library action_kit_commons/network.                                 *)
(***************************************************************************)
EXTENDS Integers, SequencesExt

CONSTANTS
  Net,           \* networks: records with family, lo, hi, from and to
  PrefixLen(_),  \* the length of a network's mask
  Merge(_, _),   \* the smallest network around two of the same ports
  Inputs,        \* lists to condense
  Limit          \* how long the result may be

\* a contains b.
Covers(a, b) == /\ a.family = b.family
                /\ a.lo <= b.lo /\ b.hi <= a.hi
                /\ a.from <= b.from /\ b.to <= a.to

SamePorts(a, b) == a.from = b.from /\ a.to = b.to

\* Networks of two families, or those around which only 0.0.0.0/n fits, do not merge.
Mergeable(a, b) == a.family = b.family /\ Merge(a, b).lo # 0

\* Addresses of a are addresses of b.
Within(a, b) == b.lo <= a.lo /\ a.hi <= b.hi

\* Networks are CIDR blocks: two of a family are nested or disjoint, and the inner one has
\* the longer mask.
ASSUME NetAssumption ==
  /\ Net \subseteq [family : {"v4", "v6"}, lo : Nat, hi : Nat, from : Nat, to : Nat]
  /\ \A n \in Net : n.lo <= n.hi /\ PrefixLen(n) \in Nat
  /\ \A a, b \in Net : a.family = b.family =>
       /\ a.hi < b.lo \/ b.hi < a.lo \/ Within(a, b) \/ Within(b, a)
       /\ Within(a, b) /\ ~Within(b, a) => PrefixLen(a) > PrefixLen(b)

ASSUME MergeAssumption ==
  \A a, b \in Net : SamePorts(a, b) /\ a.family = b.family =>
    /\ Merge(a, b) \in Net /\ SamePorts(Merge(a, b), a)
    /\ Covers(Merge(a, b), a) /\ Covers(Merge(a, b), b)
    /\ \A n \in Net : Covers(n, a) /\ Covers(n, b) => Covers(n, Merge(a, b))

ASSUME CondenseAssumption == Inputs \subseteq Seq(Net) /\ Limit \in Nat

VARIABLES
  nwps,        \* the list that is given
  result,      \* the list as condensed so far
  candidates,  \* a bag of networks it may be condensed to: one may be found twice
  at           \* where the function is

condenseVars == <<nwps, result, candidates, at>>

CondenseTypeOK ==
  /\ nwps \in Seq(Net) /\ result \in Seq(Net)
  /\ IsABag(candidates) /\ BagToSet(candidates) \subseteq Net
  /\ at \in {"start", "loop", "done"}

\* The copy is made before nwps is sorted (network.go:54): result keeps the given order.
CondenseInit ==
  /\ nwps \in Inputs
  /\ result = nwps
  /\ candidates = EmptyBag
  /\ at = "start"

-----------------------------------------------------------------------------
(* Order *)

\* akn.NetWithPortRange.Compare orders by address and then by ports ...
Before(a, b) ==
  \/ a.family # b.family /\ a.family = "v4"
  \/ /\ a.family = b.family
     /\ \/ a.lo < b.lo
        \/ a.lo = b.lo /\ a.from < b.from
        \/ a.lo = b.lo /\ a.from = b.from /\ a.to < b.to
Sorted(s) == \A i, j \in DOMAIN s : i < j => ~Before(s[j], s[i])

\* ... and comparePrefixLen by mask, the longest first, whatever the family; its order of
\* equals is open.
First(c) == \A d \in BagToSet(candidates) : PrefixLen(d) <= PrefixLen(c)

\* Where a binary search inserts c: before the first that is not less in a sorted list,
\* and nobody knows where in another one.
Positions(s, c) ==
  {i \in 1 .. Len(s) + 1 : Sorted(s) => /\ \A j \in 1 .. i - 1 : Before(s[j], c)
                                        /\ \A j \in i .. Len(s) : ~Before(s[j], c)}

\* (Bug variants, each named for its bug, stand before the definition they vary.)
CandidateAdjacent(s, i) ==
  {Merge(s[i], s[j]) : j \in {j \in i + 1 .. Len(s) :
      j = i + 1 /\ SamePorts(s[i], s[j]) /\ Mergeable(s[i], s[j])}}

\* getNextMatchingCandidate: the i-th network with the next one of the same ports; no
\* other is considered.
Candidate(s, i) ==
  {Merge(s[i], s[j]) : j \in {j \in i + 1 .. Len(s) :
      /\ SamePorts(s[i], s[j]) /\ Mergeable(s[i], s[j])
      /\ \A k \in i + 1 .. j - 1 : ~SamePorts(s[i], s[k])}}

CandidatesAt(s, I) ==
  [c \in UNION {Candidate(s, i) : i \in I} |-> Cardinality({i \in I : c \in Candidate(s, i)})]

-----------------------------------------------------------------------------
(* The function *)

Start ==
  /\ at = "start"
  /\ IF Len(nwps) <= Limit
     THEN at' = "done" /\ UNCHANGED candidates
     ELSE /\ at' = "loop"
          /\ candidates' = CandidatesAt(result, DOMAIN result)
  /\ UNCHANGED <<nwps, result>>

KeptOtherPorts(c) == {i \in DOMAIN result : ~SamePorts(c, result[i])}

\* What c does not contain stays in the list, in its order.
Kept(c) == {i \in DOMAIN result : ~Covers(c, result[i])}
Rest(c) ==
  [k \in 1 .. Cardinality(Kept(c)) |->
     result[CHOOSE i \in Kept(c) : Cardinality({j \in Kept(c) : j <= i}) = k]]

StaleNever(c) == FALSE

\* An old candidate, whose networks have been condensed already.
Stale(c) == Kept(c) = DOMAIN result

\* The network inserted at i and the one before it may have become neighbours.
Neighbours(s, i) == CandidatesAt(s, {i - 1, i} \cap DOMAIN s)

OthersAll(c) == candidates
Others(c) == candidates (-) SetToBag({c})

Skip(c) ==
  /\ Stale(c)
  /\ candidates' = Others(c)
  /\ UNCHANGED result

Replace(c) ==
  /\ ~Stale(c)
  /\ \E i \in Positions(Rest(c), c) :
       /\ result' = InsertAt(Rest(c), i, c)
       /\ candidates' = Others(c) (+) Neighbours(result', i)

\* One iteration takes the most specific candidate.
Condense ==
  /\ at = "loop"
  /\ IF Len(result) <= Limit \/ candidates = EmptyBag
     THEN at' = "done" /\ UNCHANGED <<result, candidates>>
     ELSE /\ \E c \in BagToSet(candidates) : First(c) /\ (Skip(c) \/ Replace(c))
          /\ UNCHANGED at
  /\ UNCHANGED nwps

CondenseNext == Start \/ Condense

CondenseSpec == CondenseInit /\ [][CondenseNext]_condenseVars /\ WF_condenseVars(CondenseNext)

-----------------------------------------------------------------------------
(* Properties *)

\* verifyCoverage of utils/network_test.go:192, at every step and for every list: what
\* was in the list stays covered by it, so nothing that is excluded becomes a target.
Covered == \A i \in DOMAIN nwps : \E j \in DOMAIN result : Covers(result[j], nwps[i])
CondenseInv == CondenseTypeOK /\ Covered

\* A stale candidate changes nothing (network.go:79): the list never grows.
NeverGrows == [][Len(result') <= Len(result)]_condenseVars

\* The loop comes to an end, although an iteration may add two candidates.
Terminates == at = "loop" ~> at = "done"

\* "Repeat 3. until either the list is shorter than limit or no more compatible nwp
\* are found" (network.go:48) ...
FullyCondensed ==
  \/ Len(result) <= Limit
  \/ \A i, j \in DOMAIN result :
       i # j /\ SamePorts(result[i], result[j]) => ~Mergeable(result[i], result[j])
CondensedFully == at = "done" => FullyCondensed

\* ... which is so if the list was already sorted when it was given.
SortedIsCondensedFully == Sorted(nwps) => CondensedFully
=============================================================================
