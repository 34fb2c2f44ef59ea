------------------------ MODULE NetworkFilter_proofs ------------------------
(***************************************************************************)
(* For all lists, networks and requests: condensing keeps everything in    *)
(* the list covered, never makes it longer, comes nearer to its end with   *)
(* every iteration, and does its best on a sorted list; no packet to or    *)
(* from a protected endpoint is affected by the filter, and otherwise      *)
(* those are that the parameters ask for.                                  *)
(***************************************************************************)
EXTENDS NetworkFilter, SequenceTheorems, FiniteSetTheorems, TLAPS

Count(K, i) == Cardinality({j \in K : j <= i})
Enumeration(K) == [i \in K |-> Count(K, i)]

\* Counting the elements up to each enumerates a finite set of numbers.
LEMMA CountEnumerates ==
  ASSUME NEW n \in Nat, NEW K \in SUBSET (1 .. n)
  PROVE  /\ Cardinality(K) \in Nat
         /\ \A i \in K : Count(K, i) \in 1 .. Cardinality(K)
         /\ \A i, j \in K : Count(K, i) = Count(K, j) => i = j
         /\ \A i, j \in K : i < j => Count(K, i) < Count(K, j)
         /\ \A k \in 1 .. Cardinality(K) : \E i \in K : Count(K, i) = k
<1>1. IsFiniteSet(K) /\ Cardinality(K) \in Nat
  <2>1. IsFiniteSet(1 .. n)
    BY FS_Interval
  <2>2. IsFiniteSet(K)
    BY <2>1, FS_Subset
  <2> QED
    BY <2>2, FS_CardinalityType
<1>2. ASSUME NEW i \in K
      PROVE  /\ IsFiniteSet({j \in K : j <= i})
             /\ Count(K, i) \in 1 .. Cardinality(K)
  <2> DEFINE upTo == {j \in K : j <= i}
  <2>1. upTo \in SUBSET K /\ i \in upTo
    OBVIOUS
  <2> HIDE DEF upTo
  <2>2. IsFiniteSet(upTo) /\ Cardinality(upTo) <= Cardinality(K)
    BY <1>1, <2>1, FS_Subset
  <2>3. Cardinality(upTo) \in Nat /\ Cardinality(upTo) # 0
    BY <2>1, <2>2, FS_CardinalityType, FS_EmptySet
  <2> QED
    BY <1>1, <2>2, <2>3 DEF Count, upTo
<1>3. ASSUME NEW i \in K, NEW j \in K, i < j PROVE Count(K, i) < Count(K, j)
  <2> DEFINE upToI == {k \in K : k <= i}
             upToJ == {k \in K : k <= j}
  <2>1. upToI \in SUBSET upToJ /\ upToI # upToJ
    <3>1. i \in Int /\ j \in Int /\ K \subseteq Int
      OBVIOUS
    <3>2. j \in upToJ /\ j \notin upToI
      BY <1>3, <3>1
    <3>3. \A k \in K : k <= i => k <= j
      BY <1>3, <3>1
    <3> QED
      BY <3>2, <3>3
  <2>2. IsFiniteSet(upToJ) /\ Cardinality(upToJ) \in Nat /\ Cardinality(upToI) \in Nat
    BY <1>2, FS_CardinalityType
  <2> HIDE DEF upToI, upToJ
  <2>3. Cardinality(upToI) <= Cardinality(upToJ) /\ Cardinality(upToI) # Cardinality(upToJ)
    BY <2>1, <2>2, FS_Subset
  <2> QED
    BY <2>2, <2>3 DEF Count, upToI, upToJ
<1>4. \A i, j \in K : Count(K, i) = Count(K, j) => i = j
  <2> SUFFICES ASSUME NEW i \in K, NEW j \in K, i # j PROVE Count(K, i) # Count(K, j)
    OBVIOUS
  <2>1. i < j \/ j < i
    OBVIOUS
  <2>2. Count(K, i) \in Int /\ Count(K, j) \in Int
    <3>1. Count(K, i) \in 1 .. Cardinality(K) /\ Count(K, j) \in 1 .. Cardinality(K)
      BY <1>2, Zenon
    <3> QED
      BY <1>1, <3>1
  <2> QED
    BY <1>3, <2>1, <2>2
<1>5. Enumeration(K) \in Surjection(K, 1 .. Cardinality(K))
  <2>1. Enumeration(K) \in Injection(K, 1 .. Cardinality(K))
    BY <1>2, <1>4 DEF Enumeration, Injection, IsInjective
  <2>2. IsFiniteSet(1 .. Cardinality(K)) /\ Cardinality(1 .. Cardinality(K)) = Cardinality(K)
    BY <1>1, FS_Interval
  <2> QED
    BY <2>1, <2>2, FS_Injection
<1>6. \A k \in 1 .. Cardinality(K) : \E i \in K : Count(K, i) = k
  BY <1>5 DEF Surjection, Enumeration
<1> QED
  BY <1>1, <1>2, <1>3, <1>4, <1>6

\* The last and the first of some places.
LEMMA LastAndFirst ==
  ASSUME NEW n \in Nat, NEW K \in SUBSET (1 .. n), K # {}
  PROVE  /\ \E k \in K : \A l \in K : l <= k
         /\ \E k \in K : \A l \in K : k <= l
<1> DEFINE last == Cardinality(K)
<1>1. /\ last \in Nat
      /\ \A i \in K : Count(K, i) \in 1 .. last
      /\ \A i, j \in K : i < j => Count(K, i) < Count(K, j)
      /\ \A k \in 1 .. last : \E i \in K : Count(K, i) = k
  BY CountEnumerates
<1> HIDE DEF last
<1>2. last >= 1
  <2>1. PICK i \in K : TRUE
    OBVIOUS
  <2>2. Count(K, i) \in 1 .. last
    BY <1>1
  <2> QED
    BY <1>1, <2>2
<1>3. PICK k \in K : Count(K, k) = last
  BY <1>1, <1>2
<1>4. PICK m \in K : Count(K, m) = 1
  BY <1>1, <1>2
<1>5. ASSUME NEW l \in K PROVE ~(k < l) /\ ~(l < m)
  <2>1. Count(K, l) \in 1 .. last
    BY <1>1
  <2>2. ~(Count(K, k) < Count(K, l)) /\ ~(Count(K, l) < Count(K, m))
    BY <1>1, <1>3, <1>4, <2>1
  <2> QED
    BY <1>1, <2>2
<1>6. \A l \in K : l <= k /\ m <= l
  BY <1>5
<1> QED
  BY <1>6

\* What a candidate does not contain stays in the list, and nothing else.
LEMMA RestKeeps ==
  ASSUME result \in Seq(Net), NEW c
  PROVE  /\ Rest(c) \in Seq(Net) /\ Len(Rest(c)) = Cardinality(Kept(c))
         /\ \A i \in DOMAIN result :
              Covers(c, result[i]) \/ \E k \in DOMAIN Rest(c) : Rest(c)[k] = result[i]
         /\ \E from \in [DOMAIN Rest(c) -> Kept(c)] :
              /\ \A k, l \in DOMAIN Rest(c) : from[k] = from[l] => k = l
              /\ \A k \in DOMAIN Rest(c) : Rest(c)[k] = result[from[k]]
<1> DEFINE K == Kept(c)
           Pick(k) == CHOOSE i \in K : Count(K, i) = k
<1>1. Len(result) \in Nat /\ DOMAIN result = 1 .. Len(result) /\ \A i \in DOMAIN result : result[i] \in Net
  BY LenProperties
<1>2. K \in SUBSET (1 .. Len(result))
  BY <1>1 DEF Kept
<1> HIDE DEF K
<1>3. /\ Cardinality(K) \in Nat
      /\ \A i \in K : Count(K, i) \in 1 .. Cardinality(K)
      /\ \A i, j \in K : Count(K, i) = Count(K, j) => i = j
      /\ \A k \in 1 .. Cardinality(K) : \E i \in K : Count(K, i) = k
  BY <1>1, <1>2, CountEnumerates
<1>4. Rest(c) = [k \in 1 .. Cardinality(K) |-> result[Pick(k)]]
  BY DEF Rest, Count, K
<1>5. \A k \in 1 .. Cardinality(K) : Pick(k) \in K /\ Count(K, Pick(k)) = k
  BY <1>3
<1>6. \A i \in K : Pick(Count(K, i)) = i
  BY <1>3, <1>5
<1> HIDE DEF Pick
<1>7. Rest(c) \in Seq(Net) /\ Len(Rest(c)) = Cardinality(K)
  <2>1. \A k \in 1 .. Cardinality(K) : result[Pick(k)] \in Net
    BY <1>1, <1>2, <1>5
  <2> QED
    BY <1>3, <1>4, <2>1
<1>8. ASSUME NEW i \in DOMAIN result, ~Covers(c, result[i])
      PROVE  \E k \in DOMAIN Rest(c) : Rest(c)[k] = result[i]
  <2>1. i \in K
    BY <1>8 DEF K, Kept
  <2>2. Count(K, i) \in DOMAIN Rest(c) /\ Rest(c)[Count(K, i)] = result[i]
    BY <1>3, <1>4, <1>6, <2>1
  <2> QED
    BY <2>2
<1>9. \E from \in [DOMAIN Rest(c) -> K] :
        /\ \A k, l \in DOMAIN Rest(c) : from[k] = from[l] => k = l
        /\ \A k \in DOMAIN Rest(c) : Rest(c)[k] = result[from[k]]
  <2> DEFINE from == [k \in 1 .. Cardinality(K) |-> Pick(k)]
  <2>1. DOMAIN Rest(c) = 1 .. Cardinality(K)
    BY <1>4
  <2>2. from \in [DOMAIN Rest(c) -> K]
    BY <1>5, <2>1
  <2>3. \A k, l \in DOMAIN Rest(c) : from[k] = from[l] => k = l
    BY <1>5, <2>1
  <2>4. \A k \in DOMAIN Rest(c) : Rest(c)[k] = result[from[k]]
    BY <1>4, <2>1
  <2> QED
    BY <2>2, <2>3, <2>4
<1> QED
  BY <1>7, <1>8, <1>9 DEF K

\* Where an element was before one was inserted at i.
Back(i, k) == IF k < i THEN k ELSE k - 1

\* Inserting adds an element and keeps the others.
LEMMA InsertKeeps ==
  ASSUME NEW s \in Seq(Net), NEW c \in Net, NEW i \in 1 .. Len(s) + 1
  PROVE  /\ InsertAt(s, i, c) \in Seq(Net)
         /\ i \in DOMAIN InsertAt(s, i, c) /\ InsertAt(s, i, c)[i] = c
         /\ Len(InsertAt(s, i, c)) = Len(s) + 1
         /\ \A j \in DOMAIN s : \E k \in DOMAIN InsertAt(s, i, c) : InsertAt(s, i, c)[k] = s[j]
         /\ \A k \in DOMAIN InsertAt(s, i, c) \ {i} :
              Back(i, k) \in DOMAIN s /\ InsertAt(s, i, c)[k] = s[Back(i, k)]
<1> DEFINE l == SubSeq(s, 1, i - 1)
           r == SubSeq(s, i, Len(s))
           t == l \o <<c>> \o r
<1>1. Len(s) \in Nat /\ DOMAIN s = 1 .. Len(s) /\ \A j \in 1 .. Len(s) : s[j] \in Net
  BY LenProperties
<1>2. l \in Seq(Net) /\ Len(l) = i - 1 /\ \A j \in 1 .. i - 1 : l[j] = s[j]
  BY <1>1, SubSeqProperties
<1>3. r \in Seq(Net) /\ Len(r) = Len(s) - i + 1 /\ \A j \in 1 .. Len(s) - i + 1 : r[j] = s[i + j - 1]
  BY <1>1, SubSeqProperties
<1> HIDE DEF l, r
<1>4. /\ t \in Seq(Net) /\ Len(t) = Len(s) + 1
      /\ \A j \in 1 .. i - 1 : t[j] = l[j]
      /\ t[i] = c
      /\ \A j \in i + 1 .. Len(s) + 1 : t[j] = r[j - i]
  BY <1>1, <1>2, <1>3
<1>5. InsertAt(s, i, c) = t
  BY DEF InsertAt, l, r
<1> HIDE DEF t
<1>6. DOMAIN t = 1 .. Len(s) + 1
  BY <1>1, <1>4
<1>7. ASSUME NEW j \in DOMAIN s PROVE \E k \in DOMAIN t : t[k] = s[j]
  <2>1. CASE j < i
    BY <1>1, <1>2, <1>4, <1>6, <2>1
  <2>2. CASE j >= i
    <3>1. j + 1 \in DOMAIN t /\ t[j + 1] = r[j + 1 - i] /\ j + 1 - i \in 1 .. Len(s) - i + 1
      BY <1>1, <1>4, <1>6, <2>2
    <3> QED
      BY <1>1, <1>3, <2>2, <3>1
  <2> QED
    BY <1>1, <2>1, <2>2
<1>8. ASSUME NEW k \in DOMAIN t \ {i}
      PROVE  Back(i, k) \in DOMAIN s /\ t[k] = s[Back(i, k)]
  <2>1. CASE k < i
    BY <1>1, <1>2, <1>4, <1>6, <2>1 DEF Back
  <2>2. CASE k > i
    <3>1. t[k] = r[k - i] /\ k - i \in 1 .. Len(s) - i + 1
      BY <1>1, <1>4, <1>6, <2>2
    <3>2. r[k - i] = s[i + (k - i) - 1]
      BY <1>3, <3>1
    <3>3. i + (k - i) - 1 = k - 1
      BY <1>1, <1>6
    <3> QED
      BY <1>1, <1>6, <2>2, <3>1, <3>2, <3>3 DEF Back
  <2> QED
    BY <1>6, <2>1, <2>2
<1> QED
  BY <1>1, <1>4, <1>5, <1>6, <1>7, <1>8

\* Elements of a list of networks are networks, and their fields are numbers.
LEMMA ElementsAreNets ==
  ASSUME NEW s \in Seq(Net)
  PROVE  /\ Len(s) \in Nat /\ DOMAIN s = 1 .. Len(s)
         /\ \A i \in DOMAIN s : s[i] \in Net
  BY LenProperties

LEMMA NetFields ==
  ASSUME NEW n \in Net
  PROVE  n.lo \in Nat /\ n.hi \in Nat /\ n.from \in Nat /\ n.to \in Nat
<1>1. n \in [family : {"v4", "v6"}, lo : Nat, hi : Nat, from : Nat, to : Nat]
  BY NetAssumption
<1> QED
  BY <1>1

LEMMA CoversItself == ASSUME NEW n \in Net PROVE Covers(n, n)
  BY NetFields DEF Covers

LEMMA CoversTransitive ==
  ASSUME NEW a \in Net, NEW b \in Net, NEW c \in Net, Covers(a, b), Covers(b, c)
  PROVE  Covers(a, c)
<1>1. /\ a.lo \in Nat /\ a.hi \in Nat /\ a.from \in Nat /\ a.to \in Nat
      /\ b.lo \in Nat /\ b.hi \in Nat /\ b.from \in Nat /\ b.to \in Nat
      /\ c.lo \in Nat /\ c.hi \in Nat /\ c.from \in Nat /\ c.to \in Nat
  BY NetFields
<1> QED
  BY <1>1 DEF Covers

\* A list is covered by its copy.
LEMMA CondenseInitInvariant == CondenseInit => CondenseInv
<1> SUFFICES ASSUME CondenseInit PROVE CondenseInv
  OBVIOUS
<1>1. nwps \in Seq(Net) /\ result = nwps
  BY CondenseAssumption DEF CondenseInit
<1>2. CondenseTypeOK
  BY <1>1 DEF CondenseInit, CondenseTypeOK, EmptyBag, SetToBag, IsABag, BagToSet
<1>3. Covered
  BY <1>1, ElementsAreNets, CoversItself DEF Covered
<1> QED
  BY <1>2, <1>3 DEF CondenseInv

\* Candidates are networks.
LEMMA CandidatesAreNets ==
  ASSUME NEW s \in Seq(Net), NEW i \in DOMAIN s
  PROVE  Candidate(s, i) \subseteq Net
<1> SUFFICES ASSUME NEW j \in i + 1 .. Len(s), SamePorts(s[i], s[j]), Mergeable(s[i], s[j])
             PROVE  Merge(s[i], s[j]) \in Net
  BY DEF Candidate
<1>1. s[i] \in Net /\ s[j] \in Net
  <2>1. j \in DOMAIN s
    BY ElementsAreNets
  <2> QED
    BY <2>1, ElementsAreNets
<1> QED
  BY <1>1, MergeAssumption DEF Mergeable

\* The candidates at some places of a list are a bag of networks.
LEMMA CandidatesAtAreNets ==
  ASSUME NEW s \in Seq(Net), NEW I \in SUBSET DOMAIN s
  PROVE  /\ IsABag(CandidatesAt(s, I))
         /\ BagToSet(CandidatesAt(s, I)) = UNION {Candidate(s, i) : i \in I}
         /\ BagToSet(CandidatesAt(s, I)) \subseteq Net
<1>1. IsFiniteSet(I)
  <2>1. Len(s) \in Nat /\ I \subseteq 1 .. Len(s)
    BY ElementsAreNets
  <2>2. IsFiniteSet(1 .. Len(s))
    BY <2>1, FS_Interval
  <2> QED
    BY <2>1, <2>2, FS_Subset
<1>2. ASSUME NEW c \in UNION {Candidate(s, i) : i \in I}
      PROVE  Cardinality({i \in I : c \in Candidate(s, i)}) \in {n \in Nat : n > 0}
  <2> DEFINE found == {i \in I : c \in Candidate(s, i)}
  <2>1. IsFiniteSet(found) /\ found # {}
    BY <1>1, FS_Subset
  <2> HIDE DEF found
  <2>2. Cardinality(found) \in Nat /\ Cardinality(found) # 0
    BY <2>1, FS_CardinalityType, FS_EmptySet
  <2> QED
    BY <2>2 DEF found
<1>3. UNION {Candidate(s, i) : i \in I} \subseteq Net
  BY CandidatesAreNets
<1> QED
  BY <1>2, <1>3 DEF CandidatesAt, IsABag, BagToSet

\* Taking one candidate leaves the others; adding candidates adds no other.
LEMMA TakenFromBag ==
  ASSUME NEW B, IsABag(B), NEW c \in BagToSet(B)
  PROVE  /\ IsABag(B (-) SetToBag({c}))
         /\ BagToSet(B (-) SetToBag({c})) \subseteq BagToSet(B)
         /\ BagToSet(B) \ {c} \subseteq BagToSet(B (-) SetToBag({c}))
  BY DEF IsABag, BagToSet, SetToBag, (-)

LEMMA AddedToBag ==
  ASSUME NEW B, IsABag(B), NEW C, IsABag(C)
  PROVE  /\ IsABag(B (+) C)
         /\ BagToSet(B (+) C) = BagToSet(B) \cup BagToSet(C)
  BY DEF IsABag, BagToSet, (+)

LEMMA StartCandidates ==
  ASSUME result \in Seq(Net), Start, at' = "loop"
  PROVE  /\ IsABag(candidates') /\ BagToSet(candidates') \subseteq Net
         /\ BagToSet(candidates') = UNION {Candidate(result, i) : i \in DOMAIN result}
  BY CandidatesAtAreNets DEF Start

LEMMA StartInvariant == ASSUME CondenseInv, Start PROVE CondenseInv'
<1>1. result \in Seq(Net) /\ nwps \in Seq(Net)
  BY DEF CondenseInv, CondenseTypeOK
<1>2. UNCHANGED <<nwps, result>> /\ at' \in {"loop", "done"}
  BY DEF Start
<1>3. IsABag(candidates') /\ BagToSet(candidates') \subseteq Net
  <2>1. CASE at' = "loop"
    BY <1>1, <2>1, StartCandidates
  <2>2. CASE at' # "loop"
    BY <2>2 DEF Start, CondenseInv, CondenseTypeOK
  <2> QED
    BY <2>1, <2>2
<1>4. CondenseTypeOK'
  BY <1>1, <1>2, <1>3 DEF CondenseTypeOK
<1>5. Covered'
  BY <1>2 DEF CondenseInv, Covered
<1> QED
  BY <1>4, <1>5 DEF CondenseInv

\* d is a merge of two elements of the list s.
MergeOfTwo(d, s) ==
  \E p, q \in DOMAIN s :
    p # q /\ SamePorts(s[p], s[q]) /\ Mergeable(s[p], s[q]) /\ d = Merge(s[p], s[q])

LEMMA CandidateMerges ==
  ASSUME NEW s \in Seq(Net), NEW i \in DOMAIN s, NEW d \in Candidate(s, i)
  PROVE  MergeOfTwo(d, s)
<1>1. PICK j \in i + 1 .. Len(s) :
        SamePorts(s[i], s[j]) /\ Mergeable(s[i], s[j]) /\ d = Merge(s[i], s[j])
  BY DEF Candidate
<1>2. j \in DOMAIN s /\ i # j
  BY ElementsAreNets
<1> QED
  BY <1>1, <1>2 DEF MergeOfTwo

\* What is in the list after a replacement: the candidate, and what it did not contain.
ReplacedBy(c, i) ==
  /\ i \in DOMAIN result' /\ result'[i] = c
  /\ \E from \in [DOMAIN result' \ {i} -> DOMAIN result] :
       /\ \A k, l \in DOMAIN result' \ {i} : from[k] = from[l] => k = l
       /\ \A k \in DOMAIN result' \ {i} :
            result'[k] = result[from[k]] /\ ~Covers(c, result'[k])

LEMMA ReplaceStep ==
  ASSUME CondenseTypeOK, NEW c \in BagToSet(candidates), Replace(c)
  PROVE  /\ result' \in Seq(Net) /\ Len(result') <= Len(result)
         /\ IsABag(candidates') /\ BagToSet(candidates') \subseteq Net
         /\ \E i : ReplacedBy(c, i)
         /\ \A j \in DOMAIN result :
              Covers(c, result[j]) \/ \E k \in DOMAIN result' : result'[k] = result[j]
         /\ BagToSet(candidates) \ {c} \subseteq BagToSet(candidates')
         /\ \A d \in BagToSet(candidates') :
              d \in BagToSet(candidates) \/ MergeOfTwo(d, result')
         /\ \E N : /\ IsABag(N) /\ candidates' = Others(c) (+) N
                   /\ \A d \in BagToSet(N) : MergeOfTwo(d, result')
<1>1. /\ c \in Net /\ result \in Seq(Net)
      /\ IsABag(candidates) /\ BagToSet(candidates) \subseteq Net
  BY DEF CondenseTypeOK
<1>2. Rest(c) \in Seq(Net) /\ Len(Rest(c)) = Cardinality(Kept(c))
  BY <1>1, RestKeeps
<1>3. PICK i \in 1 .. Len(Rest(c)) + 1 :
        /\ result' = InsertAt(Rest(c), i, c)
        /\ candidates' = Others(c) (+) Neighbours(result', i)
  BY DEF Replace, Positions
<1>4. /\ result' \in Seq(Net) /\ Len(result') = Len(Rest(c)) + 1
      /\ i \in DOMAIN result' /\ result'[i] = c
      /\ \A j \in DOMAIN Rest(c) : \E k \in DOMAIN result' : result'[k] = Rest(c)[j]
      /\ \A k \in DOMAIN result' \ {i} :
           Back(i, k) \in DOMAIN Rest(c) /\ result'[k] = Rest(c)[Back(i, k)]
  <2> DEFINE s == Rest(c)
  <2>1. s \in Seq(Net) /\ i \in 1 .. Len(s) + 1 /\ result' = InsertAt(s, i, c)
    BY <1>2, <1>3
  <2> HIDE DEF s
  <2> DEFINE t == InsertAt(s, i, c)
  <2>2. /\ t \in Seq(Net) /\ Len(t) = Len(s) + 1
        /\ i \in DOMAIN t /\ t[i] = c
        /\ \A j \in DOMAIN s : \E k \in DOMAIN t : t[k] = s[j]
        /\ \A k \in DOMAIN t \ {i} : Back(i, k) \in DOMAIN s /\ t[k] = s[Back(i, k)]
    BY <1>1, <2>1, InsertKeeps
  <2>3. result' = t
    BY <2>1
  <2> HIDE DEF t
  <2> QED
    BY <2>2, <2>3 DEF s
<1>5. Len(result') <= Len(result)
  <2>1. IsFiniteSet(DOMAIN result) /\ Cardinality(DOMAIN result) = Len(result)
    <3>1. DOMAIN result = 1 .. Len(result) /\ Len(result) \in Nat
      BY <1>1, ElementsAreNets
    <3>2. ASSUME NEW n \in Nat PROVE IsFiniteSet(1 .. n) /\ Cardinality(1 .. n) = n
      BY FS_Interval
    <3> QED
      BY <3>1, <3>2
  <2>2. Kept(c) \subseteq DOMAIN result /\ Kept(c) # DOMAIN result
    BY DEF Replace, Stale, Kept
  <2>3. /\ Cardinality(Kept(c)) <= Cardinality(DOMAIN result)
        /\ Cardinality(Kept(c)) # Cardinality(DOMAIN result)
    BY <2>1, <2>2, FS_Subset
  <2>4. Len(Rest(c)) \in Nat /\ Len(result) \in Nat
    BY <1>1, <1>2, ElementsAreNets
  <2> QED
    BY <1>2, <1>4, <2>1, <2>3, <2>4
<1>6. ReplacedBy(c, i)
  <2>1. PICK from \in [DOMAIN Rest(c) -> Kept(c)] :
          /\ \A k, l \in DOMAIN Rest(c) : from[k] = from[l] => k = l
          /\ \A k \in DOMAIN Rest(c) : Rest(c)[k] = result[from[k]]
    BY <1>1, RestKeeps
  <2> DEFINE f == [k \in DOMAIN result' \ {i} |-> from[Back(i, k)]]
  <2>2. \A k \in DOMAIN result' \ {i} : Back(i, k) \in DOMAIN Rest(c) /\ result'[k] = Rest(c)[Back(i, k)]
    BY <1>4
  <2>3. \A k, l \in DOMAIN result' \ {i} : Back(i, k) = Back(i, l) => k = l
    <3>1. DOMAIN result' \subseteq Int /\ i \in Int
      BY <1>4, ElementsAreNets
    <3> QED
      BY <3>1 DEF Back
  <2>4. \A k \in DOMAIN result' \ {i} : f[k] \in Kept(c) /\ result'[k] = result[f[k]]
    BY <2>1, <2>2
  <2>5. \A k, l \in DOMAIN result' \ {i} : f[k] = f[l] => k = l
    BY <2>1, <2>2, <2>3
  <2>6. f \in [DOMAIN result' \ {i} -> DOMAIN result]
    BY <2>4 DEF Kept
  <2>7. \A k \in DOMAIN result' \ {i} : result'[k] = result[f[k]] /\ ~Covers(c, result'[k])
    BY <2>4 DEF Kept
  <2> HIDE DEF f
  <2> QED
    BY <1>4, <2>5, <2>6, <2>7 DEF ReplacedBy
<1>7. ASSUME NEW j \in DOMAIN result, ~Covers(c, result[j])
      PROVE  \E k \in DOMAIN result' : result'[k] = result[j]
  <2>1. PICK k \in DOMAIN Rest(c) : Rest(c)[k] = result[j]
    BY <1>1, <1>7, RestKeeps
  <2> QED
    BY <1>4, <2>1
<1>8. /\ IsABag(Neighbours(result', i)) /\ BagToSet(Neighbours(result', i)) \subseteq Net
      /\ \A d \in BagToSet(Neighbours(result', i)) : MergeOfTwo(d, result')
  <2> DEFINE I == {i - 1, i} \cap DOMAIN result'
  <2>1. /\ IsABag(CandidatesAt(result', I)) /\ BagToSet(CandidatesAt(result', I)) \subseteq Net
        /\ BagToSet(CandidatesAt(result', I)) = UNION {Candidate(result', k) : k \in I}
    BY <1>4, CandidatesAtAreNets
  <2>2. \A k \in I : \A d \in Candidate(result', k) : MergeOfTwo(d, result')
    BY <1>4, CandidateMerges
  <2> QED
    BY <2>1, <2>2 DEF Neighbours
<1>9. /\ IsABag(Others(c)) /\ BagToSet(Others(c)) \subseteq BagToSet(candidates)
      /\ BagToSet(candidates) \ {c} \subseteq BagToSet(Others(c))
  BY <1>1, TakenFromBag DEF Others
<1>10. /\ IsABag(candidates')
       /\ BagToSet(candidates') = BagToSet(Others(c)) \cup BagToSet(Neighbours(result', i))
  BY <1>3, <1>8, <1>9, AddedToBag
<1>11. \E N : /\ IsABag(N) /\ candidates' = Others(c) (+) N
              /\ \A d \in BagToSet(N) : MergeOfTwo(d, result')
  BY <1>3, <1>8, Zenon
<1>12. \A d \in BagToSet(candidates') : d \in BagToSet(candidates) \/ MergeOfTwo(d, result')
  BY <1>8, <1>9, <1>10
<1>13. /\ BagToSet(candidates) \ {c} \subseteq BagToSet(candidates')
       /\ BagToSet(candidates') \subseteq Net
  BY <1>1, <1>8, <1>9, <1>10
<1>14. \E k : ReplacedBy(c, k)
  BY <1>6
<1> QED
  BY <1>4, <1>5, <1>7, <1>10, <1>11, <1>12, <1>13, <1>14

\* Replacing what a candidate contains by the candidate covers no less.
LEMMA ReplaceInvariant ==
  ASSUME CondenseInv, NEW c \in BagToSet(candidates), Replace(c), UNCHANGED <<nwps, at>>
  PROVE  CondenseInv'
<1>1. CondenseTypeOK /\ c \in Net /\ result \in Seq(Net) /\ nwps \in Seq(Net)
  BY DEF CondenseInv, CondenseTypeOK
<1>2. /\ result' \in Seq(Net)
      /\ IsABag(candidates') /\ BagToSet(candidates') \subseteq Net
      /\ \E i \in DOMAIN result' : result'[i] = c
      /\ \A j \in DOMAIN result :
           Covers(c, result[j]) \/ \E k \in DOMAIN result' : result'[k] = result[j]
  BY <1>1, ReplaceStep DEF ReplacedBy
<1>3. CondenseTypeOK'
  BY <1>1, <1>2 DEF CondenseTypeOK
<1>4. Covered'
  <2> SUFFICES ASSUME NEW n \in DOMAIN nwps
               PROVE  \E k \in DOMAIN result' : Covers(result'[k], nwps[n])
    BY DEF Covered
  <2>1. PICK j \in DOMAIN result : Covers(result[j], nwps[n])
    BY DEF CondenseInv, Covered
  <2>2. CASE Covers(c, result[j])
    <3>1. result[j] \in Net /\ nwps[n] \in Net
      BY <1>1, ElementsAreNets
    <3>2. Covers(c, nwps[n])
      BY <1>1, <2>1, <2>2, <3>1, CoversTransitive
    <3> QED
      BY <1>2, <3>2
  <2>3. CASE ~Covers(c, result[j])
    BY <1>2, <2>1, <2>3
  <2> QED
    BY <2>2, <2>3
<1> QED
  BY <1>3, <1>4 DEF CondenseInv

LEMMA SkipCandidates ==
  ASSUME CondenseTypeOK, NEW c \in BagToSet(candidates), Skip(c)
  PROVE  /\ IsABag(candidates') /\ UNCHANGED result
         /\ BagToSet(candidates') \subseteq BagToSet(candidates)
         /\ BagToSet(candidates) \ {c} \subseteq BagToSet(candidates')
  BY TakenFromBag DEF CondenseTypeOK, Skip, Others

LEMMA CondenseInvariant == ASSUME CondenseInv, Condense PROVE CondenseInv'
<1>1. CASE /\ UNCHANGED result
           /\ IsABag(candidates') /\ BagToSet(candidates') \subseteq BagToSet(candidates)
           /\ at' \in {"loop", "done"}
  BY <1>1 DEF Condense, CondenseInv, CondenseTypeOK, Covered
<1>2. CASE UNCHANGED <<result, candidates>> /\ at' = "done"
  BY <1>1, <1>2 DEF CondenseInv, CondenseTypeOK
<1>3. ASSUME NEW c \in BagToSet(candidates), Skip(c), UNCHANGED at PROVE CondenseInv'
  BY <1>1, <1>3, SkipCandidates DEF CondenseInv, Condense
<1>4. ASSUME NEW c \in BagToSet(candidates), Replace(c), UNCHANGED at PROVE CondenseInv'
  BY <1>4, ReplaceInvariant DEF Condense
<1> QED
  BY <1>2, <1>3, <1>4 DEF Condense

-----------------------------------------------------------------------------
(* A sorted list is condensed as far as it can be.                           *)

\* What the neighbours of the given list merge to.
Initial == UNION {Candidate(nwps, i) : i \in DOMAIN nwps}

Under(x, t) == SamePorts(x, t) /\ Covers(t, x)

\* What can be merged lies under one of them ...
Joined(x, y) ==
  SamePorts(x, y) /\ Mergeable(x, y) => \E t \in Initial : Under(x, t) /\ Under(y, t)

\* ... and under one that is no candidate any more no two networks are left to merge.
Settled(t) ==
  /\ \A c \in BagToSet(candidates) : ~Under(c, t)
  /\ \A i, j \in DOMAIN result : Under(result[i], t) /\ Under(result[j], t) => i = j

AllJoined ==
  /\ \A i, j \in DOMAIN result : i # j => Joined(result[i], result[j])
  /\ \A c \in BagToSet(candidates), i \in DOMAIN result : Joined(c, result[i])
  /\ \A c, d \in BagToSet(candidates) : Joined(c, d)
AllSettled == at = "loop" => \A t \in Initial : t \in BagToSet(candidates) \/ Settled(t)
Unstarted == at = "start" => result = nwps /\ BagToSet(candidates) = {}

FullyInv == Unstarted /\ (Sorted(nwps) => AllJoined /\ AllSettled /\ CondensedFully)

LEMMA InitialAreNets == ASSUME nwps \in Seq(Net) PROVE Initial \subseteq Net
  BY CandidatesAreNets DEF Initial

\* A network is what its fields say.
LEMMA SameFieldsSameNet ==
  ASSUME NEW a \in Net, NEW b \in Net,
         a.family = b.family, a.lo = b.lo, a.hi = b.hi, a.from = b.from, a.to = b.to
  PROVE  a = b
<1>1. /\ a \in [family : {"v4", "v6"}, lo : Nat, hi : Nat, from : Nat, to : Nat]
      /\ b \in [family : {"v4", "v6"}, lo : Nat, hi : Nat, from : Nat, to : Nat]
  BY NetAssumption
<1> QED
  BY <1>1

\* Two networks with a network in common are nested.
LEMMA Nested ==
  ASSUME NEW t \in Net, NEW u \in Net, NEW x \in Net, Under(x, t), Under(x, u)
  PROVE  Under(t, u) \/ Under(u, t)
<1>1. /\ t.lo \in Nat /\ t.hi \in Nat /\ t.from \in Nat /\ t.to \in Nat
      /\ u.lo \in Nat /\ u.hi \in Nat /\ u.from \in Nat /\ u.to \in Nat
      /\ x.lo \in Nat /\ x.hi \in Nat
  BY NetFields
<1>2. x.lo <= x.hi
  BY NetAssumption
<1>3. t.family = u.family /\ t.from = u.from /\ t.to = u.to
  BY DEF Under, SamePorts, Covers
<1>4. t.hi < u.lo \/ u.hi < t.lo \/ Within(t, u) \/ Within(u, t)
  BY <1>3, NetAssumption
<1>5. ~(t.hi < u.lo) /\ ~(u.hi < t.lo)
  BY <1>1, <1>2 DEF Under, Covers
<1> QED
  BY <1>1, <1>3, <1>4, <1>5 DEF Under, SamePorts, Covers, Within

LEMMA UnderTransitive ==
  ASSUME NEW x \in Net, NEW t \in Net, NEW u \in Net, Under(x, t), Under(t, u)
  PROVE  Under(x, u)
  BY CoversTransitive DEF Under, SamePorts

\* A merge lies around both and under all that does.
LEMMA MergeIsLeast ==
  ASSUME NEW x \in Net, NEW y \in Net, SamePorts(x, y), x.family = y.family
  PROVE  /\ Merge(x, y) \in Net /\ Under(x, Merge(x, y)) /\ Under(y, Merge(x, y))
         /\ \A t \in Net : Under(x, t) /\ Under(y, t) => Under(Merge(x, y), t)
  BY MergeAssumption DEF Under, SamePorts

\* Places between two of a family in a sorted list.
LEMMA SortedBetween ==
  ASSUME NEW s \in Seq(Net), Sorted(s),
         NEW i \in DOMAIN s, NEW j \in DOMAIN s, s[i].family = s[j].family,
         NEW k \in i .. j
  PROVE  /\ k \in DOMAIN s /\ s[k].family = s[i].family
         /\ s[i].lo <= s[k].lo /\ s[k].lo <= s[j].lo
<1>1. k \in DOMAIN s
  BY ElementsAreNets
<1>2. s[i] \in Net /\ s[j] \in Net /\ s[k] \in Net
  BY <1>1, ElementsAreNets
<1>3. /\ s[i].family \in {"v4", "v6"} /\ s[k].family \in {"v4", "v6"}
      /\ s[i].lo \in Nat /\ s[j].lo \in Nat /\ s[k].lo \in Nat
  BY <1>2, NetAssumption
<1>4. (k = i \/ ~Before(s[k], s[i])) /\ (k = j \/ ~Before(s[j], s[k]))
  <2>1. i \in Int /\ j \in Int /\ k \in Int
    BY <1>1, ElementsAreNets
  <2>2. (k = i \/ i < k) /\ (k = j \/ k < j)
    BY <2>1
  <2> QED
    BY <1>1, <2>2 DEF Sorted
<1>5. s[k].family = s[i].family
  BY <1>3, <1>4 DEF Before
<1> QED
  BY <1>1, <1>3, <1>4, <1>5 DEF Before

\* What begins between two networks merges to something that does not begin before the
\* merge of the two.
LEMMA MergeBegins ==
  ASSUME NEW x \in Net, NEW y \in Net, SamePorts(x, y), x.family = y.family,
         NEW a \in Net, NEW b \in Net,
         SamePorts(x, a), x.family = a.family, x.lo <= a.lo, a.lo <= y.lo,
         SamePorts(x, b), x.family = b.family, x.lo <= b.lo, b.lo <= y.lo
  PROVE  Merge(x, y).lo <= Merge(a, b).lo
<1> DEFINE m == Merge(x, y)
           d == Merge(a, b)
<1>1. m \in Net /\ Under(x, m) /\ Under(y, m)
  BY MergeIsLeast
<1>2. SamePorts(a, b) /\ a.family = b.family
  BY DEF SamePorts
<1>3. d \in Net /\ Under(a, d) /\ Under(b, d) /\ \A t \in Net : Under(a, t) /\ Under(b, t) => Under(d, t)
  BY <1>2, MergeIsLeast
<1> SUFFICES m.lo <= d.lo
  OBVIOUS
<1> HIDE DEF m, d
<1>4. /\ x.lo \in Nat /\ x.hi \in Nat /\ y.lo \in Nat /\ y.hi \in Nat
      /\ a.lo \in Nat /\ a.hi \in Nat /\ b.lo \in Nat /\ b.hi \in Nat
      /\ m.lo \in Nat /\ m.hi \in Nat /\ d.lo \in Nat
      /\ x.lo <= x.hi /\ y.lo <= y.hi /\ a.lo <= a.hi /\ b.lo <= b.hi
  BY <1>1, <1>3, NetFields, NetAssumption
<1>5. m.lo <= x.lo /\ y.hi <= m.hi
  BY <1>1 DEF Under, Covers
<1>6. m.lo <= a.lo /\ a.lo <= m.hi /\ m.lo <= b.lo /\ b.lo <= m.hi
  BY <1>4, <1>5
<1>7. SamePorts(a, m) /\ a.family = m.family /\ SamePorts(b, m) /\ b.family = m.family
  BY <1>1 DEF Under, SamePorts, Covers
<1>8. ASSUME NEW n \in Net, n.lo \in Nat, n.hi \in Nat, n.lo <= n.hi,
             m.lo <= n.lo, n.lo <= m.hi, n.family = m.family, SamePorts(n, m)
      PROVE  Under(n, m) \/ (Under(m, n) /\ n.lo = m.lo)
  <2>1. n.hi < m.lo \/ m.hi < n.lo \/ Within(n, m) \/ Within(m, n)
    BY <1>1, <1>8, NetAssumption
  <2>2. n.from \in Nat /\ n.to \in Nat
    BY NetFields
  <2> QED
    BY <1>4, <1>8, <2>1, <2>2 DEF Within, Under, Covers, SamePorts
<1>9. Under(a, m) \/ (Under(m, a) /\ a.lo = m.lo)
  BY <1>4, <1>6, <1>7, <1>8
<1>10. Under(b, m) \/ (Under(m, b) /\ b.lo = m.lo)
  BY <1>4, <1>6, <1>7, <1>8
<1>11. ASSUME NEW n \in Net, m.lo <= n.lo, n.lo \in Nat, Under(a, n), Under(b, n)
       PROVE  m.lo <= d.lo
  <2>1. n.lo <= d.lo
    BY <1>3, <1>11 DEF Under, Covers
  <2> QED
    BY <1>4, <1>11, <2>1
<1>12. Under(a, a) /\ Under(b, b)
  BY CoversItself DEF Under, SamePorts
<1>13. CASE Under(a, m) /\ Under(b, m)
  BY <1>1, <1>4, <1>11, <1>13
<1>14. CASE Under(m, a) /\ a.lo = m.lo
  <2>1. CASE Under(b, m)
    <3>1. Under(b, a)
      BY <1>1, <1>14, <2>1, UnderTransitive
    <3> QED
      BY <1>4, <1>6, <1>11, <1>12, <3>1
  <2>2. CASE Under(m, b) /\ b.lo = m.lo
    <3>1. Under(a, b) \/ Under(b, a)
      BY <1>1, <1>14, <2>2, Nested
    <3> QED
      BY <1>4, <1>6, <1>11, <1>12, <3>1
  <2> QED
    BY <1>10, <2>1, <2>2
<1>15. CASE Under(a, m) /\ Under(m, b) /\ b.lo = m.lo
  <2>1. Under(a, b)
    BY <1>1, <1>15, UnderTransitive
  <2> QED
    BY <1>4, <1>6, <1>11, <1>12, <2>1
<1> QED
  BY <1>9, <1>10, <1>13, <1>14, <1>15

\* In a sorted list two networks that can be merged lie under a merge of neighbours: of the
\* last network that merges with the second to something around the first, and the next.
LEMMA UnderNeighbours ==
  ASSUME NEW s \in Seq(Net), Sorted(s), NEW i \in DOMAIN s, NEW j \in DOMAIN s, i < j,
         SamePorts(s[i], s[j]), Mergeable(s[i], s[j])
  PROVE  \E k \in DOMAIN s : \E t \in Candidate(s, k) : Under(s[i], t) /\ Under(s[j], t)
<1>1. /\ Len(s) \in Nat /\ DOMAIN s = 1 .. Len(s) /\ i \in Int /\ j \in Int
      /\ s[i] \in Net /\ s[j] \in Net
  BY ElementsAreNets
<1>2. s[i].family = s[j].family
  BY DEF Mergeable
<1>3. ASSUME NEW k \in i .. j
      PROVE  /\ k \in DOMAIN s /\ s[k] \in Net /\ s[k].family = s[i].family
             /\ s[i].lo <= s[k].lo /\ s[k].lo <= s[j].lo
  BY <1>2, SortedBetween, ElementsAreNets
<1> DEFINE K == {k \in i .. j - 1 : SamePorts(s[k], s[i]) /\ Under(s[i], Merge(s[k], s[j]))}
<1>4. i \in K
  <2>1. Under(s[i], Merge(s[i], s[j])) /\ SamePorts(s[i], s[i])
    BY <1>1, <1>2, MergeIsLeast DEF SamePorts
  <2> QED
    BY <1>1, <2>1
<1>5. PICK k \in K : \A l \in K : l <= k
  <2>1. K \in SUBSET (1 .. Len(s))
    BY <1>1
  <2> HIDE DEF K
  <2> QED
    BY <1>1, <1>4, <2>1, LastAndFirst
<1>6. k \in i .. j - 1 /\ SamePorts(s[k], s[i]) /\ Under(s[i], Merge(s[k], s[j]))
  OBVIOUS
<1> DEFINE N == {n \in k + 1 .. j : SamePorts(s[n], s[i])}
<1>7. PICK n \in N : \A l \in N : n <= l
  <2>1. N \in SUBSET (1 .. Len(s)) /\ j \in N
    BY <1>1, <1>6 DEF SamePorts
  <2> HIDE DEF N
  <2> QED
    BY <1>1, <2>1, LastAndFirst
<1>8. n \in k + 1 .. j /\ SamePorts(s[n], s[i])
  OBVIOUS
<1>9. /\ \A l \in k + 1 .. n - 1 : ~SamePorts(s[k], s[l])
      /\ n # j => ~Under(s[i], Merge(s[n], s[j]))
  <2>1. ASSUME NEW l \in k + 1 .. n - 1, SamePorts(s[k], s[l]) PROVE FALSE
    <3>1. SamePorts(s[l], s[i])
      BY <1>6, <2>1 DEF SamePorts
    <3>2. l \in N
      BY <1>1, <1>8, <3>1
    <3> QED
      BY <1>1, <1>6, <1>7, <1>8, <3>2
  <2>2. ASSUME n # j, Under(s[i], Merge(s[n], s[j])) PROVE FALSE
    <3>1. n \in K
      BY <1>1, <1>6, <1>8, <2>2
    <3> QED
      BY <1>1, <1>5, <1>6, <1>8, <3>1
  <2> QED
    BY <2>1, <2>2
<1> HIDE DEF K, N
<1> DEFINE t == Merge(s[k], s[n])
<1>10. k \in i .. j /\ n \in i .. j /\ k \in DOMAIN s /\ n \in k + 1 .. Len(s)
  BY <1>1, <1>6, <1>8
<1>11. /\ s[k] \in Net /\ s[k].family = s[i].family /\ s[i].lo <= s[k].lo /\ s[k].lo <= s[j].lo
       /\ s[n] \in Net /\ s[n].family = s[i].family /\ s[i].lo <= s[n].lo /\ s[n].lo <= s[j].lo
  BY <1>3, <1>10
<1>12. /\ SamePorts(s[k], s[n]) /\ SamePorts(s[k], s[j]) /\ SamePorts(s[n], s[j])
       /\ SamePorts(s[i], s[k]) /\ SamePorts(s[i], s[n])
  BY <1>6, <1>8 DEF SamePorts
<1>13. t \in Candidate(s, k)
  <2>1. Merge(s[i], s[j]).lo <= t.lo
    BY <1>1, <1>2, <1>11, <1>12, MergeBegins
  <2>2. Merge(s[i], s[j]).lo # 0
    BY DEF Mergeable
  <2>3. Merge(s[i], s[j]) \in Net /\ t \in Net
    BY <1>1, <1>2, <1>11, <1>12, MergeIsLeast
  <2>4. t.lo # 0
    <3>1. Merge(s[i], s[j]).lo \in Nat /\ t.lo \in Nat
      BY <2>3, NetFields
    <3> QED
      BY <2>1, <2>2, <3>1
  <2>5. Mergeable(s[k], s[n])
    BY <1>11, <2>4 DEF Mergeable
  <2> QED
    BY <1>9, <1>10, <1>12, <2>5 DEF Candidate
<1>14. t \in Net /\ Under(s[k], t) /\ Under(s[n], t)
  BY <1>11, <1>12, MergeIsLeast
<1>15. Under(s[i], t) /\ Under(s[j], t)
  <2>1. CASE n = j
    BY <1>6, <1>14, <2>1
  <2>2. CASE n # j
    <3> DEFINE u == Merge(s[n], s[j])
               v == Merge(s[k], s[j])
    <3>1. u \in Net /\ Under(s[n], u) /\ Under(s[j], u)
      BY <1>1, <1>2, <1>11, <1>12, MergeIsLeast
    <3>2. v \in Net /\ \A w \in Net : Under(s[k], w) /\ Under(s[j], w) => Under(v, w)
      BY <1>1, <1>2, <1>11, <1>12, MergeIsLeast
    <3>3. Under(s[i], v) /\ ~Under(s[i], u)
      BY <1>6, <1>9, <2>2
    <3> HIDE DEF t, u, v
    <3>4. Under(t, u) \/ Under(u, t)
      BY <1>11, <1>14, <3>1, Nested
    <3>5. ~Under(t, u)
      <4> SUFFICES ASSUME Under(t, u) PROVE FALSE
        OBVIOUS
      <4>1. Under(s[k], u)
        BY <1>11, <1>14, <3>1, UnderTransitive
      <4>2. Under(v, u)
        BY <3>1, <3>2, <4>1
      <4> QED
        BY <1>1, <3>1, <3>2, <3>3, <4>2, UnderTransitive
    <3>6. Under(s[j], t)
      BY <1>1, <1>14, <3>1, <3>4, <3>5, UnderTransitive
    <3>7. Under(v, t)
      BY <1>14, <3>2, <3>6
    <3> QED
      BY <1>1, <1>14, <3>2, <3>3, <3>6, <3>7, UnderTransitive
  <2> QED
    BY <2>1, <2>2
<1> QED
  BY <1>10, <1>13, <1>15

LEMMA MergeableSymmetric ==
  ASSUME NEW x \in Net, NEW y \in Net, SamePorts(x, y), Mergeable(x, y)
  PROVE  SamePorts(y, x) /\ Mergeable(y, x)
<1>1. SamePorts(y, x) /\ x.family = y.family
  BY DEF SamePorts, Mergeable
<1> DEFINE m == Merge(x, y)
           w == Merge(y, x)
<1>2. /\ m \in Net /\ Under(x, m) /\ Under(y, m)
      /\ \A t \in Net : Under(x, t) /\ Under(y, t) => Under(m, t)
  BY <1>1, MergeIsLeast
<1>3. w \in Net /\ Under(x, w) /\ Under(y, w)
  BY <1>1, MergeIsLeast
<1>4. m.lo # 0
  BY DEF Mergeable
<1>5. w.lo # 0
  <2> HIDE DEF m, w
  <2>1. Under(m, w) /\ \A t \in Net : Under(y, t) /\ Under(x, t) => Under(w, t)
    BY <1>1, <1>2, <1>3, MergeIsLeast DEF w
  <2>2. Under(w, m)
    BY <1>2, <2>1
  <2>3. m.lo <= w.lo
    BY <2>2 DEF Under, Covers
  <2>4. m.lo \in Nat /\ w.lo \in Nat
    BY <1>2, <1>3, NetFields
  <2> QED
    BY <1>4, <2>3, <2>4
<1> QED
  BY <1>1, <1>5 DEF Mergeable

LEMMA JoinedSymmetric ==
  ASSUME NEW x \in Net, NEW y \in Net, Joined(x, y) PROVE Joined(y, x)
  BY MergeableSymmetric DEF Joined

\* What can be merged with a network can be merged with what lies in it.
LEMMA MergeableBelow ==
  ASSUME NEW x \in Net, NEW t \in Net, NEW z \in Net, Under(x, t),
         SamePorts(t, z), Mergeable(t, z)
  PROVE  SamePorts(x, z) /\ Mergeable(x, z)
<1>1. SamePorts(x, z) /\ t.family = z.family /\ x.family = z.family
  BY DEF Under, SamePorts, Covers, Mergeable
<1> DEFINE m == Merge(x, z)
           w == Merge(t, z)
<1>2. m \in Net /\ \A u \in Net : Under(x, u) /\ Under(z, u) => Under(m, u)
  BY <1>1, MergeIsLeast
<1>3. w \in Net /\ Under(t, w) /\ Under(z, w)
  BY <1>1, MergeIsLeast
<1>4. w.lo # 0
  BY DEF Mergeable
<1>5. m.lo # 0
  <2> HIDE DEF m, w
  <2>1. Under(m, w)
    BY <1>2, <1>3, UnderTransitive
  <2>2. w.lo <= m.lo
    BY <2>1 DEF Under, Covers
  <2>3. m.lo \in Nat /\ w.lo \in Nat
    BY <1>2, <1>3, NetFields
  <2> QED
    BY <1>4, <2>2, <2>3
<1> QED
  BY <1>1, <1>5 DEF Mergeable

\* A merge is joined with all that one of its parts is joined with.
LEMMA JoinedMerge ==
  ASSUME nwps \in Seq(Net), NEW x \in Net, NEW y \in Net, NEW z \in Net,
         SamePorts(x, y), Mergeable(x, y), NEW t \in Initial, Under(x, t), Under(y, t),
         Joined(x, z)
  PROVE  Joined(Merge(x, y), z)
<1> DEFINE m == Merge(x, y)
<1>1. /\ m \in Net /\ Under(x, m) /\ t \in Net /\ Under(m, t)
  BY InitialAreNets, MergeIsLeast DEF Mergeable
<1> HIDE DEF m
<1>2. ASSUME SamePorts(m, z), Mergeable(m, z)
      PROVE  \E u \in Initial : Under(m, u) /\ Under(z, u)
  <2>1. SamePorts(x, z) /\ Mergeable(x, z)
    BY <1>1, <1>2, MergeableBelow
  <2>2. PICK u \in Initial : Under(x, u) /\ Under(z, u)
    BY <2>1 DEF Joined
  <2>3. u \in Net
    BY InitialAreNets
  <2>4. CASE Under(t, u)
    BY <1>1, <2>2, <2>3, <2>4, UnderTransitive
  <2>5. CASE Under(u, t)
    BY <1>1, <2>2, <2>3, <2>5, UnderTransitive
  <2> QED
    BY <1>1, <2>2, <2>3, <2>4, <2>5, Nested
<1> QED
  BY <1>2 DEF Joined, m

\* New candidates are joined if the list and the other candidates are.
LEMMA MergesJoined ==
  ASSUME nwps \in Seq(Net), NEW s \in Seq(Net), NEW C \in SUBSET Net, NEW D \in SUBSET Net,
         \A i, j \in DOMAIN s : i # j => Joined(s[i], s[j]),
         \A c \in C, i \in DOMAIN s : Joined(c, s[i]),
         \A c, d \in C : Joined(c, d),
         \A d \in D : d \in C \/ MergeOfTwo(d, s)
  PROVE  /\ \A d \in D, i \in DOMAIN s : Joined(d, s[i])
         /\ \A c, d \in D : Joined(c, d)
<1>1. \A i \in DOMAIN s : s[i] \in Net
  BY ElementsAreNets
<1>2. ASSUME NEW d \in D, MergeOfTwo(d, s)
      PROVE  \A i \in DOMAIN s : Joined(d, s[i])
  <2>1. PICK p, q \in DOMAIN s :
          p # q /\ SamePorts(s[p], s[q]) /\ Mergeable(s[p], s[q]) /\ d = Merge(s[p], s[q])
    BY <1>2 DEF MergeOfTwo
  <2>2. PICK t \in Initial : Under(s[p], t) /\ Under(s[q], t)
    BY <2>1 DEF Joined
  <2>3. t \in Net /\ Under(d, t)
    BY <1>1, <2>1, <2>2, InitialAreNets, MergeIsLeast DEF Mergeable
  <2>4. Joined(d, s[p])
    BY <2>2, <2>3 DEF Joined
  <2>5. ASSUME NEW i \in DOMAIN s, i # p PROVE Joined(d, s[i])
    <3>1. Joined(s[p], s[i])
      BY <2>5
    <3> QED
      BY <1>1, <2>1, <2>2, <3>1, JoinedMerge
  <2> QED
    BY <2>4, <2>5
<1>3. \A d \in D, i \in DOMAIN s : Joined(d, s[i])
  BY <1>2
<1>4. ASSUME NEW d \in D, MergeOfTwo(d, s), NEW c \in D PROVE Joined(d, c)
  <2>1. PICK p, q \in DOMAIN s :
          p # q /\ SamePorts(s[p], s[q]) /\ Mergeable(s[p], s[q]) /\ d = Merge(s[p], s[q])
    BY <1>4 DEF MergeOfTwo
  <2>2. PICK t \in Initial : Under(s[p], t) /\ Under(s[q], t)
    BY <2>1 DEF Joined
  <2>3. Joined(s[p], c)
    BY <1>1, <1>3, JoinedSymmetric
  <2> QED
    BY <1>1, <2>1, <2>2, <2>3, JoinedMerge
<1>5. \A c, d \in D : Joined(c, d)
  <2> SUFFICES ASSUME NEW c \in D, NEW d \in D PROVE Joined(c, d)
    OBVIOUS
  <2>1. CASE c \in C /\ d \in C
    BY <2>1
  <2>2. CASE MergeOfTwo(c, s)
    BY <1>4, <2>2
  <2>3. CASE MergeOfTwo(d, s)
    BY <1>4, <2>3, JoinedSymmetric
  <2> QED
    BY <2>1, <2>2, <2>3
<1> QED
  BY <1>3, <1>5

LEMMA SortedJoined ==
  ASSUME nwps \in Seq(Net), Sorted(nwps), NEW i \in DOMAIN nwps, NEW j \in DOMAIN nwps, i # j
  PROVE  Joined(nwps[i], nwps[j])
<1>1. i \in Int /\ j \in Int /\ nwps[i] \in Net /\ nwps[j] \in Net
  BY ElementsAreNets
<1>2. ASSUME NEW k \in DOMAIN nwps, NEW l \in DOMAIN nwps, k < l PROVE Joined(nwps[k], nwps[l])
  BY <1>2, UnderNeighbours DEF Joined, Initial
<1>3. CASE i < j
  BY <1>2, <1>3
<1>4. CASE j < i
  BY <1>1, <1>2, <1>4, JoinedSymmetric
<1> QED
  BY <1>1, <1>3, <1>4

LEMMA FullyInit == CondenseInit => FullyInv
<1> SUFFICES ASSUME CondenseInit PROVE FullyInv
  OBVIOUS
<1>1. nwps \in Seq(Net) /\ result = nwps /\ at = "start" /\ BagToSet(candidates) = {}
  BY CondenseAssumption DEF CondenseInit, EmptyBag, SetToBag, BagToSet
<1>2. Sorted(nwps) => AllJoined
  BY <1>1, SortedJoined DEF AllJoined
<1> QED
  BY <1>1, <1>2 DEF FullyInv, Unstarted, AllSettled, CondensedFully

LEMMA StartFully == ASSUME CondenseTypeOK, FullyInv, Start PROVE FullyInv'
<1>1. /\ nwps \in Seq(Net) /\ result = nwps /\ BagToSet(candidates) = {}
      /\ UNCHANGED <<nwps, result>> /\ Unstarted'
  BY DEF CondenseTypeOK, FullyInv, Unstarted, Start
<1>2. Initial' = Initial /\ (Sorted(nwps)' <=> Sorted(nwps))
  BY <1>1 DEF Initial
<1>3. CASE Len(nwps) <= Limit
  <2>1. UNCHANGED candidates /\ at' = "done" /\ Len(result') <= Limit
    BY <1>1, <1>3 DEF Start
  <2>2. CondensedFully' /\ AllSettled' /\ (AllJoined => AllJoined')
    BY <1>1, <1>2, <2>1 DEF CondensedFully, FullyCondensed, AllSettled, AllJoined, Joined
  <2> QED
    BY <1>1, <1>2, <2>2 DEF FullyInv
<1>4. CASE ~(Len(nwps) <= Limit)
  <2>1. at' = "loop" /\ BagToSet(candidates') = Initial
    BY <1>1, <1>4, StartCandidates DEF Start, Initial
  <2>2. AllSettled' /\ CondensedFully'
    BY <1>2, <2>1 DEF AllSettled, CondensedFully
  <2>3. ASSUME Sorted(nwps) PROVE AllJoined'
    <3>1. \A i, j \in DOMAIN nwps : i # j => Joined(nwps[i], nwps[j])
      BY <1>1, <2>3, SortedJoined
    <3>2. \A d \in Initial : MergeOfTwo(d, nwps)
      BY <1>1, CandidateMerges DEF Initial
    <3>3. Initial \subseteq Net
      BY <1>1, InitialAreNets
    <3>4. /\ \A d \in Initial, i \in DOMAIN nwps : Joined(d, nwps[i])
          /\ \A c, d \in Initial : Joined(c, d)
      <4> DEFINE none == {}
      <4>1. /\ none \in SUBSET Net
            /\ \A c \in none, i \in DOMAIN nwps : Joined(c, nwps[i])
            /\ \A c, d \in none : Joined(c, d)
            /\ \A d \in Initial : d \in none \/ MergeOfTwo(d, nwps)
        BY <3>2
      <4> HIDE DEF none
      <4> QED
        BY <1>1, <3>1, <3>3, <4>1, MergesJoined
    <3> QED
      BY <1>1, <1>2, <2>1, <3>1, <3>4 DEF AllJoined, Joined
  <2> QED
    BY <1>1, <1>2, <2>2, <2>3 DEF FullyInv
<1> QED
  BY <1>3, <1>4

\* Of the most specific candidate: no other lies under it.
LEMMA FirstIsInnermost ==
  ASSUME CondenseTypeOK, NEW c \in BagToSet(candidates), First(c),
         NEW d \in BagToSet(candidates), Under(d, c)
  PROVE  d = c
<1>1. c \in Net /\ d \in Net
  BY DEF CondenseTypeOK
<1>2. PrefixLen(d) <= PrefixLen(c) /\ PrefixLen(c) \in Nat /\ PrefixLen(d) \in Nat
  BY <1>1, NetAssumption DEF First
<1>3. c.family = d.family /\ Within(d, c) /\ SamePorts(d, c)
  BY DEF Under, Covers, Within
<1>4. Within(d, c) /\ ~Within(c, d) => PrefixLen(d) > PrefixLen(c)
  BY <1>1, <1>3, NetAssumption
<1>5. Within(c, d)
  BY <1>2, <1>3, <1>4
<1>6. c.lo \in Nat /\ c.hi \in Nat /\ d.lo \in Nat /\ d.hi \in Nat
  BY <1>1, NetFields
<1>7. c.lo = d.lo /\ c.hi = d.hi /\ c.from = d.from /\ c.to = d.to
  BY <1>3, <1>5, <1>6 DEF Within, SamePorts
<1> QED
  BY <1>1, <1>3, <1>7, SameFieldsSameNet

LEMMA SkipFully ==
  ASSUME CondenseTypeOK, FullyInv, at = "loop", UNCHANGED <<nwps, at>>,
         NEW c \in BagToSet(candidates), First(c), Skip(c)
  PROVE  FullyInv'
<1>1. /\ UNCHANGED result /\ BagToSet(candidates') \subseteq BagToSet(candidates)
      /\ BagToSet(candidates) \ {c} \subseteq BagToSet(candidates')
  BY SkipCandidates
<1>2. Initial' = Initial /\ (Sorted(nwps)' <=> Sorted(nwps))
  BY DEF Initial
<1>3. Unstarted' /\ CondensedFully'
  BY DEF Unstarted, CondensedFully
<1>4. ASSUME AllJoined PROVE AllJoined'
  BY <1>1, <1>2, <1>4 DEF AllJoined, Joined
<1>5. ASSUME AllSettled PROVE AllSettled'
  <2>1. ASSUME NEW t \in Initial PROVE t \in BagToSet(candidates') \/ Settled(t)'
    <3>1. CASE Settled(t)
      BY <1>1, <3>1 DEF Settled
    <3>2. CASE t \in BagToSet(candidates) /\ t # c
      BY <1>1, <3>2
    <3>3. CASE t = c /\ c \notin BagToSet(candidates')
      <4>1. \A i \in DOMAIN result : ~Under(result[i], c)
        BY DEF Skip, Stale, Kept, Under
      <4>2. \A d \in BagToSet(candidates') : ~Under(d, c)
        BY <1>1, <3>3, FirstIsInnermost
      <4> QED
        BY <1>1, <3>3, <4>1, <4>2 DEF Settled
    <3> QED
      BY <1>5, <3>1, <3>2, <3>3 DEF AllSettled
  <2> QED
    BY <1>2, <2>1 DEF AllSettled
<1> QED
  BY <1>2, <1>3, <1>4, <1>5 DEF FullyInv

LEMMA ReplaceFully ==
  ASSUME CondenseTypeOK, FullyInv, at = "loop", UNCHANGED <<nwps, at>>,
         NEW c \in BagToSet(candidates), First(c), Replace(c)
  PROVE  FullyInv'
<1>1. /\ nwps \in Seq(Net) /\ result \in Seq(Net) /\ c \in Net
      /\ BagToSet(candidates) \subseteq Net
  BY DEF CondenseTypeOK
<1>2. /\ result' \in Seq(Net) /\ BagToSet(candidates') \subseteq Net
      /\ \E i : ReplacedBy(c, i)
      /\ BagToSet(candidates) \ {c} \subseteq BagToSet(candidates')
      /\ \A d \in BagToSet(candidates') :
           d \in BagToSet(candidates) \/ MergeOfTwo(d, result')
  BY ReplaceStep
<1>3. PICK i : ReplacedBy(c, i)
  BY <1>2
<1>4. PICK from \in [DOMAIN result' \ {i} -> DOMAIN result] :
        /\ \A k, l \in DOMAIN result' \ {i} : from[k] = from[l] => k = l
        /\ \A k \in DOMAIN result' \ {i} : result'[k] = result[from[k]] /\ ~Covers(c, result'[k])
  BY <1>3 DEF ReplacedBy
<1>5. /\ i \in DOMAIN result' /\ result'[i] = c
      /\ \A k \in DOMAIN result' \ {i} : from[k] \in DOMAIN result
      /\ \A k \in DOMAIN result : result[k] \in Net
      /\ \A k \in DOMAIN result' : result'[k] \in Net
  BY <1>1, <1>2, <1>3, <1>4, ElementsAreNets DEF ReplacedBy
<1>6. Initial' = Initial /\ (Sorted(nwps)' <=> Sorted(nwps))
  BY DEF Initial
<1>7. Unstarted' /\ CondensedFully'
  BY DEF Unstarted, CondensedFully
<1>8. ASSUME AllJoined PROVE AllJoined'
  <2>1. \A k, l \in DOMAIN result' : k # l => Joined(result'[k], result'[l])
    <3> SUFFICES ASSUME NEW k \in DOMAIN result', NEW l \in DOMAIN result', k # l
                 PROVE  Joined(result'[k], result'[l])
      OBVIOUS
    <3>1. CASE k # i /\ l # i
      BY <1>4, <1>5, <1>8, <3>1 DEF AllJoined
    <3>2. CASE k = i
      BY <1>4, <1>5, <1>8, <3>2 DEF AllJoined
    <3>3. CASE l = i
      <4>1. Joined(c, result'[k])
        BY <1>4, <1>5, <1>8, <3>3 DEF AllJoined
      <4> QED
        BY <1>1, <1>5, <3>3, <4>1, JoinedSymmetric
    <3> QED
      BY <3>1, <3>2, <3>3
  <2>2. \A d \in BagToSet(candidates), k \in DOMAIN result' : Joined(d, result'[k])
    BY <1>4, <1>5, <1>8 DEF AllJoined
  <2>3. /\ \A d \in BagToSet(candidates'), k \in DOMAIN result' : Joined(d, result'[k])
        /\ \A d, e \in BagToSet(candidates') : Joined(d, e)
    <3> DEFINE s == result'
               C == BagToSet(candidates)
               D == BagToSet(candidates')
    <3>1. s \in Seq(Net) /\ C \in SUBSET Net /\ D \in SUBSET Net
      BY <1>1, <1>2
    <3>2. /\ \A k, l \in DOMAIN s : k # l => Joined(s[k], s[l])
          /\ \A d \in C, k \in DOMAIN s : Joined(d, s[k])
          /\ \A d, e \in C : Joined(d, e)
          /\ \A d \in D : d \in C \/ MergeOfTwo(d, s)
      BY <1>2, <1>8, <2>1, <2>2 DEF AllJoined
    <3> HIDE DEF s, C, D
    <3>3. /\ \A d \in D, k \in DOMAIN s : Joined(d, s[k])
          /\ \A d, e \in D : Joined(d, e)
      BY <1>1, <3>1, <3>2, MergesJoined
    <3> QED
      BY <3>3 DEF s, D
  <2> QED
    BY <1>6, <2>1, <2>3 DEF AllJoined, Joined
<1>9. ASSUME NEW t \in Net, \A k, l \in DOMAIN result' : Under(result'[k], t) /\ Under(result'[l], t) => k = l,
             NEW d, MergeOfTwo(d, result')
      PROVE  ~Under(d, t)
  <2>1. PICK p, q \in DOMAIN result' :
          /\ p # q /\ SamePorts(result'[p], result'[q]) /\ Mergeable(result'[p], result'[q])
          /\ d = Merge(result'[p], result'[q])
    BY <1>9 DEF MergeOfTwo
  <2>2. d \in Net /\ Under(result'[p], d) /\ Under(result'[q], d)
    BY <1>5, <2>1, MergeIsLeast DEF Mergeable
  <2>3. Under(d, t) => Under(result'[p], t) /\ Under(result'[q], t)
    BY <1>5, <2>2, UnderTransitive
  <2> QED
    BY <1>9, <2>1, <2>3
<1>10. ASSUME NEW t \in Net, \A d \in BagToSet(candidates) \ {c} : ~Under(d, t),
              Under(c, t) => c \notin BagToSet(candidates'),
              \A k, l \in DOMAIN result' : Under(result'[k], t) /\ Under(result'[l], t) => k = l
       PROVE  Settled(t)'
  <2>1. \A d \in BagToSet(candidates') : ~Under(d, t)
    BY <1>2, <1>9, <1>10
  <2> QED
    BY <1>10, <2>1 DEF Settled
<1>11. ASSUME AllSettled PROVE AllSettled'
  <2>1. ASSUME NEW t \in Initial PROVE t \in BagToSet(candidates') \/ Settled(t)'
    <3>1. t \in Net
      BY <1>1, InitialAreNets
    <3>2. CASE Settled(t)
      <4>1. \A k, l \in DOMAIN result' : Under(result'[k], t) /\ Under(result'[l], t) => k = l
        BY <1>4, <1>5, <3>2 DEF Settled
      <4> QED
        BY <1>10, <3>1, <3>2, <4>1 DEF Settled
    <3>3. CASE t \in BagToSet(candidates) /\ t # c
      BY <1>2, <3>3
    <3>4. CASE t = c /\ c \notin BagToSet(candidates')
      <4>1. \A k \in DOMAIN result' : Under(result'[k], c) => k = i
        BY <1>4 DEF Under
      <4>2. \A d \in BagToSet(candidates) \ {c} : ~Under(d, c)
        BY FirstIsInnermost
      <4> QED
        BY <1>10, <3>1, <3>4, <4>1, <4>2
    <3> QED
      BY <1>11, <3>2, <3>3, <3>4 DEF AllSettled
  <2> QED
    BY <1>6, <2>1 DEF AllSettled
<1> QED
  BY <1>6, <1>7, <1>8, <1>11 DEF FullyInv

\* At the end a network that can be merged with another lies with it under a settled one.
LEMMA DoneFully ==
  ASSUME CondenseTypeOK, FullyInv, at = "loop", at' = "done",
         UNCHANGED <<nwps, result, candidates>>, Len(result) <= Limit \/ candidates = EmptyBag
  PROVE  FullyInv'
<1>1. Initial' = Initial /\ (Sorted(nwps)' <=> Sorted(nwps))
  BY DEF Initial
<1>2. Unstarted' /\ AllSettled' /\ (AllJoined => AllJoined')
  BY <1>1 DEF Unstarted, AllSettled, AllJoined, Joined
<1>3. ASSUME AllJoined, AllSettled PROVE FullyCondensed
  <2>1. CASE Len(result) <= Limit
    BY <2>1 DEF FullyCondensed
  <2>2. CASE candidates = EmptyBag
    <3>1. BagToSet(candidates) = {}
      BY <2>2 DEF EmptyBag, SetToBag, BagToSet
    <3> QED
      BY <1>3, <3>1 DEF AllJoined, AllSettled, Joined, Settled, FullyCondensed
  <2> QED
    BY <2>1, <2>2
<1>4. FullyCondensed' <=> FullyCondensed
  BY DEF FullyCondensed
<1> QED
  BY <1>1, <1>2, <1>3, <1>4 DEF FullyInv, CondensedFully

LEMMA CondenseFully == ASSUME CondenseTypeOK, FullyInv, Condense PROVE FullyInv'
<1>1. at = "loop" /\ UNCHANGED nwps
  BY DEF Condense
<1>2. CASE (Len(result) <= Limit \/ candidates = EmptyBag) /\ at' = "done" /\ UNCHANGED <<result, candidates>>
  BY <1>1, <1>2, DoneFully
<1>3. ASSUME NEW c \in BagToSet(candidates), First(c), Skip(c), UNCHANGED at PROVE FullyInv'
  BY <1>1, <1>3, SkipFully
<1>4. ASSUME NEW c \in BagToSet(candidates), First(c), Replace(c), UNCHANGED at PROVE FullyInv'
  BY <1>1, <1>4, ReplaceFully
<1> QED
  BY <1>2, <1>3, <1>4 DEF Condense

LEMMA FullyNext == CondenseInv /\ FullyInv /\ [Next]_filterVars => FullyInv'
<1> SUFFICES ASSUME CondenseInv, FullyInv, [Next]_filterVars PROVE FullyInv'
  OBVIOUS
<1>1. CondenseTypeOK
  BY DEF CondenseInv
<1>2. CASE CondenseNext
  BY <1>1, <1>2, StartFully, CondenseFully DEF CondenseNext
<1>3. CASE UNCHANGED condenseVars
  BY <1>3 DEF condenseVars, FullyInv, Unstarted, AllJoined, Joined, Initial, AllSettled, Settled,
              CondensedFully, FullyCondensed
<1> QED
  BY <1>2, <1>3 DEF Next, BuildFilter, BlockDns, LimitBandwidth, filterVars

-----------------------------------------------------------------------------
(* The filter.                                                               *)

\* What the filter of an attack with excludes says is what the condensed list says ...
FilterExcludesResult ==
  Built /\ Excluding(request) =>
    at = "done" /\ filter.exclude = {result[i] : i \in DOMAIN result}

Targets == [family : STRING, lo : Nat, hi : Nat, from : Nat, to : Nat]

\* ... and a limit has been compared with all that is in the list.
LimitDisjoint ==
  Built /\ request.attack = "bandwidth" =>
    /\ filter.include # {} /\ filter.include \subseteq Targets
    /\ filter.direction = "Outgoing"
    /\ \A n \in filter.include, i \in DOMAIN nwps : ~Overlap(n, nwps[i])

FilterInv == request \in Requests /\ CondenseInv /\ FilterExcludesResult /\ LimitDisjoint

LEMMA FilterInvInit == Init => FilterInv
  BY CondenseInitInvariant
  DEF Init, FilterInv, FilterExcludesResult, LimitDisjoint, Built

\* A limit names a network, and all ports if it names no range.
LEMMA LimitIncludes ==
  ASSUME NEW r \in Requests, r.cidrs # {}
  PROVE  Includes(r) # {} /\ Includes(r) \subseteq Targets
<1> DEFINE ports == OrAny(r.ports, {AnyPort})
<1>1. OrAny(r.cidrs, AnyNet) = r.cidrs
  BY DEF OrAny
<1>2. ports # {} /\ ports \subseteq PortRange
  BY FilterAssumption DEF OrAny
<1>3. r.cidrs \subseteq Cidr
  BY FilterAssumption
<1> HIDE DEF ports
<1>4. Includes(r) =
        {[family |-> c.family, lo |-> c.lo, hi |-> c.hi, from |-> p.from, to |-> p.to] :
           c \in r.cidrs, p \in ports}
  BY <1>1 DEF Includes, WithPorts, ports
<1>5. PICK c \in r.cidrs, p \in ports : TRUE
  BY <1>2
<1>6. Includes(r) # {}
  <2> DEFINE t(d, q) ==
        [family |-> d.family, lo |-> d.lo, hi |-> d.hi, from |-> q.from, to |-> q.to]
  <2>1. Includes(r) = {t(d, q) : d \in r.cidrs, q \in ports}
    BY <1>4
  <2> HIDE DEF t
  <2>2. t(c, p) \in Includes(r)
    BY <1>5, <2>1
  <2> QED
    BY <2>2
<1>7. Includes(r) \subseteq Targets
  BY <1>2, <1>3, <1>4 DEF Cidr, PortRange, Targets
<1> QED
  BY <1>6, <1>7

LEMMA FilterInvNext == FilterInv /\ [Next]_filterVars => FilterInv'
<1> SUFFICES ASSUME FilterInv, [Next]_filterVars PROVE FilterInv'
  OBVIOUS
<1> USE DEF FilterInv
<1>1. CASE Excluding(request) /\ CondenseNext /\ UNCHANGED <<request, filter>>
  <2>1. CondenseInv'
    BY <1>1, StartInvariant, CondenseInvariant DEF CondenseNext
  <2>2. ~Built
    BY <1>1 DEF FilterExcludesResult, CondenseNext, Start, Condense
  <2> QED
    BY <1>1, <2>1, <2>2 DEF FilterExcludesResult, LimitDisjoint, Built
<1>2. CASE BuildFilter
  <2>1. CondenseInv' /\ UNCHANGED <<result, nwps, request>> /\ at' = "done"
    BY <1>2 DEF BuildFilter, condenseVars, CondenseInv, CondenseTypeOK, Covered
  <2>2. Excluding(request) /\ filter'.exclude = {result[i] : i \in DOMAIN result}
    BY <1>2 DEF BuildFilter, Excluding, MapToNetworkFilter,
                Blackhole, Delay, CorruptPackages, PackageLoss
  <2> QED
    BY <2>1, <2>2 DEF FilterExcludesResult, LimitDisjoint, Excluding
<1>3. CASE BlockDns
  BY <1>3 DEF BlockDns, condenseVars, FilterExcludesResult, LimitDisjoint, Excluding,
              CondenseInv, CondenseTypeOK, Covered
<1>4. CASE LimitBandwidth
  <2>1. CondenseInv' /\ UNCHANGED <<nwps, request>> /\ request.attack = "bandwidth"
    BY <1>4 DEF LimitBandwidth, condenseVars, CondenseInv, CondenseTypeOK, Covered
  <2>2. filter'.include = Includes(request) /\ filter'.direction = "Outgoing"
    BY <1>4 DEF LimitBandwidth, OutgoingTo
  <2>3. LimitDisjoint'
    BY <1>4, <2>1, <2>2, LimitIncludes DEF LimitBandwidth, LimitDisjoint, Overlap
  <2> QED
    BY <2>1, <2>3 DEF FilterExcludesResult, Excluding
<1>5. CASE UNCHANGED filterVars
  BY <1>5 DEF filterVars, condenseVars, FilterExcludesResult, LimitDisjoint, Built,
              CondenseInv, CondenseTypeOK, Covered
<1> QED
  BY <1>1, <1>2, <1>3, <1>4, <1>5 DEF Next

\* However many networks there are and in which order: what was in the list stays covered.
THEOREM CoverageKept == Spec => []CondenseInv
<1>1. FilterInv => CondenseInv
  BY DEF FilterInv
<1> QED
  BY <1>1, FilterInvInit, FilterInvNext, PTL DEF Spec

\* However many networks there are and in which order: no step of the loop makes the list
\* longer.
THEOREM CondensingNeverGrows == Spec => NeverGrows
<1>1. FilterInv /\ [Next]_filterVars => [Len(result') <= Len(result)]_condenseVars
  <2> SUFFICES ASSUME FilterInv, [Next]_filterVars, ~UNCHANGED condenseVars
               PROVE  Len(result') <= Len(result)
    OBVIOUS
  <2>1. CondenseTypeOK /\ Len(result) \in Nat
    BY ElementsAreNets DEF FilterInv, CondenseInv, CondenseTypeOK
  <2>2. CondenseNext
    BY DEF Next, BuildFilter, BlockDns, LimitBandwidth, filterVars
  <2>3. CASE UNCHANGED result
    BY <2>1, <2>3
  <2>4. CASE \E c \in BagToSet(candidates) : Replace(c)
    BY <2>1, <2>4, ReplaceStep
  <2> QED
    BY <2>2, <2>3, <2>4 DEF CondenseNext, Start, Condense, Skip
<1> QED
  BY <1>1, FilterInvInit, FilterInvNext, PTL DEF Spec, NeverGrows

\* A candidate that contains at most one network of the list: to take it does not shorten it.
Idle(c, s) == \A i, j \in DOMAIN s : Covers(c, s[i]) /\ Covers(c, s[j]) => i = j

Copies(c, B) == IF c \in BagToSet(B) THEN B[c] ELSE 0

\* What makes the loop end: an iteration shortens the list, or exchanges one of its networks
\* for one around it, or leaves the list as it is, up to its order, and takes away an idle
\* candidate without bringing another one.
FewerIdle ==
  /\ \E c \in Net : Idle(c, result') /\ Copies(c, candidates') < Copies(c, candidates)
  /\ \A d \in Net : Idle(d, result') => Copies(d, candidates') <= Copies(d, candidates)

Descends ==
  \/ Len(result') < Len(result)
  \/ /\ Len(result') = Len(result)
     /\ \E f \in [DOMAIN result' -> DOMAIN result] :
          /\ \A k, l \in DOMAIN result' : f[k] = f[l] => k = l
          /\ \A k \in DOMAIN result' : Covers(result'[k], result[f[k]])
          /\ \/ \E k \in DOMAIN result' : result'[k] # result[f[k]]
             \/ FewerIdle

LEMMA TakenCopies ==
  ASSUME NEW B, IsABag(B), NEW c \in BagToSet(B)
  PROVE  /\ Copies(c, B (-) SetToBag({c})) < Copies(c, B)
         /\ \A d : Copies(d, B (-) SetToBag({c})) <= Copies(d, B)
<1> DEFINE T == B (-) SetToBag({c})
           less == [d \in DOMAIN B |-> IF d \in {c} THEN B[d] - 1 ELSE B[d]]
<1>1. \A d \in DOMAIN B : B[d] \in Nat /\ B[d] > 0
  BY DEF IsABag
<1>2. T = [d \in {x \in DOMAIN less : less[x] > 0} |-> less[d]]
  BY <1>1 DEF (-), SetToBag
<1>3. \A d : Copies(d, T) = IF d \in DOMAIN B /\ less[d] > 0 THEN less[d] ELSE 0
  BY <1>2 DEF Copies, BagToSet
<1>4. \A d : Copies(d, B) = IF d \in DOMAIN B THEN B[d] ELSE 0
  BY DEF Copies, BagToSet
<1>5. c \in DOMAIN B
  BY DEF BagToSet
<1>6. /\ \A d \in DOMAIN B : d # c => less[d] = B[d]
      /\ less[c] = B[c] - 1
  BY <1>5
<1> HIDE DEF T, less
<1>7. Copies(c, T) < Copies(c, B)
  <2>1. Copies(c, B) = B[c] /\ B[c] \in Nat /\ B[c] > 0
    BY <1>1, <1>4, <1>5
  <2>2. Copies(c, T) = IF less[c] > 0 THEN less[c] ELSE 0
    BY <1>3, <1>5
  <2> QED
    BY <1>6, <2>1, <2>2
<1>8. ASSUME NEW d PROVE Copies(d, T) <= Copies(d, B)
  <2>1. CASE d = c
    <3>1. Copies(c, B) = B[c] /\ B[c] \in Nat /\ B[c] > 0
      BY <1>1, <1>4, <1>5
    <3>2. Copies(c, T) = IF less[c] > 0 THEN less[c] ELSE 0
      BY <1>3, <1>5
    <3> QED
      BY <1>6, <2>1, <3>1, <3>2
  <2>2. CASE d \in DOMAIN B /\ d # c
    <3>1. Copies(d, B) = B[d] /\ B[d] \in Nat /\ B[d] > 0 /\ less[d] = B[d]
      BY <1>1, <1>4, <1>6, <2>2
    <3>2. Copies(d, T) = IF less[d] > 0 THEN less[d] ELSE 0
      BY <1>3, <2>2
    <3> QED
      BY <3>1, <3>2
  <2>3. CASE d \notin DOMAIN B
    <3>1. Copies(d, B) = 0 /\ Copies(d, T) = 0
      BY <1>3, <1>4, <2>3
    <3> QED
      BY <3>1
  <2> QED
    BY <2>1, <2>2, <2>3
<1> QED
  BY <1>7, <1>8 DEF T

LEMMA AddedCopies ==
  ASSUME NEW B, IsABag(B), NEW C, NEW d, d \notin BagToSet(C)
  PROVE  Copies(d, B (+) C) = Copies(d, B)
  BY DEF IsABag, Copies, BagToSet, (+)

\* A merge of two networks of the list contains both, so it is not idle.
LEMMA MergesAreNotIdle ==
  ASSUME NEW s \in Seq(Net), NEW d, MergeOfTwo(d, s)
  PROVE  ~Idle(d, s)
<1>1. PICK p, q \in DOMAIN s :
        p # q /\ SamePorts(s[p], s[q]) /\ Mergeable(s[p], s[q]) /\ d = Merge(s[p], s[q])
  BY DEF MergeOfTwo
<1>2. Covers(d, s[p]) /\ Covers(d, s[q])
  BY <1>1, ElementsAreNets, MergeAssumption DEF Mergeable
<1> QED
  BY <1>1, <1>2 DEF Idle

LEMMA SkipDescends ==
  ASSUME CondenseTypeOK, NEW c \in BagToSet(candidates), Skip(c)
  PROVE  Descends
<1>1. /\ result \in Seq(Net) /\ result' = result /\ c \in Net
      /\ IsABag(candidates) /\ candidates' = candidates (-) SetToBag({c})
  BY DEF CondenseTypeOK, Skip, Others
<1>2. Idle(c, result)
  BY DEF Skip, Stale, Kept, Idle
<1>3. /\ Copies(c, candidates') < Copies(c, candidates)
      /\ \A d : Copies(d, candidates') <= Copies(d, candidates)
  BY <1>1, TakenCopies
<1>4. \A k \in DOMAIN result : Covers(result[k], result[k])
  BY <1>1, ElementsAreNets, CoversItself
<1> DEFINE f == [k \in DOMAIN result |-> k]
<1>5. /\ f \in [DOMAIN result' -> DOMAIN result]
      /\ \A k \in DOMAIN result' : f[k] = k
  BY <1>1
<1> HIDE DEF f
<1>6. Idle(c, result')
  BY <1>1, <1>2
<1>7. FewerIdle
  BY <1>1, <1>3, <1>6 DEF FewerIdle
<1>8. \A k \in DOMAIN result' : Covers(result'[k], result[f[k]])
  BY <1>1, <1>4, <1>5
<1>9. \A k, l \in DOMAIN result' : f[k] = f[l] => k = l
  BY <1>5
<1>10. Len(result') = Len(result)
  BY <1>1
<1> QED
  BY <1>5, <1>7, <1>8, <1>9, <1>10, Zenon DEF Descends

LEMMA ReplaceDescends ==
  ASSUME CondenseTypeOK, NEW c \in BagToSet(candidates), Replace(c)
  PROVE  Descends
<1>1. /\ result \in Seq(Net) /\ c \in Net /\ IsABag(candidates)
      /\ result' \in Seq(Net) /\ Len(result') <= Len(result)
      /\ Len(result) \in Nat /\ Len(result') \in Nat
  BY ReplaceStep, ElementsAreNets DEF CondenseTypeOK
<1>2. PICK i : ReplacedBy(c, i)
  BY ReplaceStep
<1>3. PICK from \in [DOMAIN result' \ {i} -> DOMAIN result] :
        /\ \A k, l \in DOMAIN result' \ {i} : from[k] = from[l] => k = l
        /\ \A k \in DOMAIN result' \ {i} : result'[k] = result[from[k]] /\ ~Covers(c, result'[k])
  BY <1>2 DEF ReplacedBy
<1>4. i \in DOMAIN result' /\ result'[i] = c
  BY <1>2 DEF ReplacedBy
\* The candidate stands for one of those it has replaced.
<1>5. PICK j \in DOMAIN result : Covers(c, result[j])
  BY DEF Replace, Stale, Kept
<1> DEFINE f == [k \in DOMAIN result' |-> IF k = i THEN j ELSE from[k]]
<1>6. /\ f \in [DOMAIN result' -> DOMAIN result]
      /\ f[i] = j /\ \A k \in DOMAIN result' \ {i} : f[k] = from[k]
  BY <1>3, <1>4
<1> HIDE DEF f
<1>7. \A k \in DOMAIN result' \ {i} : from[k] # j
  BY <1>3, <1>5
<1>8. \A k, l \in DOMAIN result' : f[k] = f[l] => k = l
  BY <1>3, <1>6, <1>7
<1>9. \A k \in DOMAIN result' : Covers(result'[k], result[f[k]])
  BY <1>1, <1>3, <1>4, <1>5, <1>6, ElementsAreNets, CoversItself
<1>10. Len(result') < Len(result) \/ Len(result') = Len(result)
  BY <1>1
<1>11. CASE c # result[j]
  <2>1. \E k \in DOMAIN result' : result'[k] # result[f[k]]
    BY <1>4, <1>6, <1>11
  <2> QED
    BY <1>6, <1>8, <1>9, <1>10, <2>1, Zenon DEF Descends
<1>12. CASE c = result[j]
  <2>1. Idle(c, result')
    BY <1>3, <1>4 DEF Idle
  <2>2. PICK N : /\ IsABag(N) /\ candidates' = Others(c) (+) N
                 /\ \A d \in BagToSet(N) : MergeOfTwo(d, result')
    BY ReplaceStep
  <2>3. \A d \in BagToSet(N) : ~Idle(d, result')
    BY <1>1, <2>2, MergesAreNotIdle
  <2>4. IsABag(Others(c))
    BY <1>1, TakenFromBag DEF Others
  <2>5. \A d : Idle(d, result') => Copies(d, candidates') = Copies(d, Others(c))
    BY <2>2, <2>3, <2>4, AddedCopies
  <2>6. /\ Copies(c, Others(c)) < Copies(c, candidates)
        /\ \A d : Copies(d, Others(c)) <= Copies(d, candidates)
    BY <1>1, TakenCopies DEF Others
  <2>7. FewerIdle
    BY <1>1, <2>1, <2>5, <2>6 DEF FewerIdle
  <2> QED
    BY <1>6, <1>8, <1>9, <1>10, <2>7, Zenon DEF Descends
<1> QED
  BY <1>11, <1>12

\* However many networks there are and in which order: every iteration of the loop comes
\* nearer to its end, although it may add candidates and may leave the list as it was.
THEOREM IterationsDescend ==
  Spec => [][at = "loop" /\ at' = "loop" => Descends]_condenseVars
<1>1. FilterInv /\ [Next]_filterVars => [at = "loop" /\ at' = "loop" => Descends]_condenseVars
  <2> SUFFICES ASSUME FilterInv, [Next]_filterVars, ~UNCHANGED condenseVars,
                      at = "loop", at' = "loop"
               PROVE  Descends
    OBVIOUS
  <2>1. CondenseTypeOK
    BY DEF FilterInv, CondenseInv
  <2>2. CondenseNext
    BY DEF Next, BuildFilter, BlockDns, LimitBandwidth, filterVars
  <2>3. PICK c \in BagToSet(candidates) : Skip(c) \/ Replace(c)
    BY <2>2 DEF CondenseNext, Start, Condense
  <2> QED
    BY <2>1, <2>3, SkipDescends, ReplaceDescends
<1> QED
  BY <1>1, FilterInvInit, FilterInvNext, PTL DEF Spec

\* However many networks there are: condensing a sorted list ends with a list that is short
\* enough or has no two networks left that could be merged.
THEOREM SortedCondensedFully == Spec => []SortedIsCondensedFully
<1>1. Init => FullyInv
  BY FullyInit DEF Init
<1>2. FilterInv /\ FullyInv /\ [Next]_filterVars => FullyInv'
  BY FullyNext DEF FilterInv
<1>3. FullyInv => SortedIsCondensedFully
  BY DEF FullyInv, SortedIsCondensedFully
<1> QED
  BY <1>1, <1>2, <1>3, FilterInvInit, FilterInvNext, PTL DEF Spec

\* An endpoint of the list lies in an exclude, whose port test fails for its packets.
LEMMA ExcludesProtect == FilterInv => ProtectedUntouched
<1> SUFFICES ASSUME FilterInv, Built, Excluding(request),
                    NEW p \in Packets, Affects(filter, p),
                    NEW i \in DOMAIN nwps, NEW e \in Ends(p), Of(p, e, nwps[i])
             PROVE  FALSE
  BY DEF ProtectedUntouched, Protected
<1>1. result \in Seq(Net) /\ nwps \in Seq(Net)
  BY DEF FilterInv, CondenseInv, CondenseTypeOK
<1>2. PICK j \in DOMAIN result : Covers(result[j], nwps[i])
  BY DEF FilterInv, CondenseInv, Covered
<1>3. result[j] \in filter.exclude
  BY DEF FilterInv, FilterExcludesResult
<1>4. /\ nwps[i].lo \in Nat /\ nwps[i].hi \in Nat /\ nwps[i].from \in Nat /\ nwps[i].to \in Nat
      /\ result[j].lo \in Nat /\ result[j].hi \in Nat
      /\ result[j].from \in Nat /\ result[j].to \in Nat
  BY <1>1, ElementsAreNets, NetFields
<1>5. /\ p.family = result[j].family
      /\ e.addr \in result[j].lo .. result[j].hi
      /\ e.port \in result[j].from .. result[j].to
  BY <1>2, <1>4 DEF Of, Covers
<1>6. /\ InNet(p, e.addr, result[j])
      /\ ~PortNotIn(p, e.port, result[j])
  BY <1>4, <1>5 DEF InNet, PortNotIn
<1>7. ExcludeTest(filter, p)
  BY DEF Affects
<1>8. \/ e.addr = p.src /\ e.port = p.sport
      \/ e.addr = p.dst /\ e.port = p.dport
  BY DEF Ends
<1> QED
  BY <1>3, <1>6, <1>7, <1>8 DEF ExcludeTest

\* For every request, list of endpoints, limit and packet: no traffic of a protected
\* endpoint is affected.
THEOREM ProtectedEndpointsSafe == Spec => []ProtectedUntouched
  BY FilterInvInit, FilterInvNext, ExcludesProtect, PTL DEF Spec

\* A packet to an address and port of a network that a limit includes lies in both if it
\* goes to a restricted endpoint.
LEMMA LimitsSpare == FilterInv => LimitSparesRestricted
<1> SUFFICES ASSUME FilterInv, Built, request.attack = "bandwidth",
                    NEW p \in Packets, Affects(filter, p),
                    NEW i \in DOMAIN nwps, Of(p, Remote(p), nwps[i])
             PROVE  FALSE
  BY DEF LimitSparesRestricted
<1>1. /\ filter.include # {} /\ filter.direction = "Outgoing"
      /\ \A n \in filter.include : ~Overlap(n, nwps[i])
  BY DEF FilterInv, LimitDisjoint
<1>2. PICK n \in filter.include : InNet(p, p.dst, n) /\ PortIn(p, p.dport, n)
  BY <1>1 DEF Affects, IncludeTest
<1>3. n.family = nwps[i].family
  BY <1>2 DEF InNet, Of
<1>4. n \in Targets /\ nwps[i] \in Net
  BY ElementsAreNets DEF FilterInv, LimitDisjoint, CondenseInv, CondenseTypeOK
<1>5. /\ n.lo \in Nat /\ n.hi \in Nat /\ n.from \in Nat /\ n.to \in Nat
      /\ nwps[i].lo \in Nat /\ nwps[i].hi \in Nat
      /\ nwps[i].from \in Nat /\ nwps[i].to \in Nat
  BY <1>4, NetFields DEF Targets
<1>6. /\ p.dst \in nwps[i].lo .. nwps[i].hi /\ p.dport \in nwps[i].from .. nwps[i].to
  BY DEF Of, Remote
<1>7. n.lo <= nwps[i].hi /\ nwps[i].lo <= n.hi
  BY <1>2, <1>5, <1>6 DEF InNet
<1>8. n.from <= nwps[i].to /\ nwps[i].from <= n.to
  BY <1>2, <1>5, <1>6 DEF PortIn
<1> QED
  BY <1>1, <1>3, <1>7, <1>8 DEF Overlap

\* For every request, list of endpoints and packet: no limit throttles what goes to a
\* restricted endpoint.
THEOREM LimitSafe == Spec => []LimitSparesRestricted
  BY FilterInvInit, FilterInvNext, LimitsSpare, PTL DEF Spec
-----------------------------------------------------------------------------
(* What an attack affects.                                                   *)

\* Once built, the filter says what the attack makes of its parameters and the list.
FilterOf(r) ==
  IF Excluding(r)
  THEN MapToNetworkFilter(r, IF r.attack = "blackhole" THEN "All" ELSE "Outgoing")
  ELSE OutgoingTo(IF r.attack = "dns" THEN WithPorts(AnyNet, r.ports) ELSE Includes(r))
FilterBuilt == Built => filter = FilterOf(request)

LEMMA FilterBuiltNext == FilterInv /\ FilterBuilt /\ [Next]_filterVars => FilterBuilt'
<1> SUFFICES ASSUME FilterInv, FilterBuilt, [Next]_filterVars PROVE FilterBuilt'
  OBVIOUS
<1>1. CASE Excluding(request) /\ CondenseNext /\ UNCHANGED <<request, filter>>
  BY <1>1 DEF FilterInv, FilterExcludesResult, CondenseNext, Start, Condense, FilterBuilt, Built
<1>2. CASE BuildFilter
  BY <1>2 DEF BuildFilter, Blackhole, Delay, CorruptPackages, PackageLoss, condenseVars,
              FilterBuilt, FilterOf, Excluding, MapToNetworkFilter
<1>3. CASE BlockDns
  BY <1>3 DEF BlockDns, FilterBuilt, FilterOf, Excluding, condenseVars
<1>4. CASE LimitBandwidth
  BY <1>4 DEF LimitBandwidth, FilterBuilt, FilterOf, Excluding, condenseVars
<1>5. CASE UNCHANGED filterVars
  BY <1>5 DEF filterVars, condenseVars, FilterBuilt, FilterOf, MapToNetworkFilter, Built
<1> QED
  BY <1>1, <1>2, <1>3, <1>4, <1>5 DEF Next

\* An end of a packet lies in a network and port that the parameters give iff it was asked for.
LEMMA IncludedIffAsked ==
  ASSUME NEW r \in Requests, NEW p \in Packets, HasPorts(p),
         NEW addr \in {p.src, p.dst}, NEW port \in {p.sport, p.dport}
  PROVE  (\E n \in Includes(r) : InNet(p, addr, n) /\ PortIn(p, port, n))
           <=> Asked(r, [addr |-> addr, port |-> port], p)
<1> DEFINE cidrs == OrAny(r.cidrs, AnyNet)
           ports == OrAny(r.ports, {AnyPort})
<1>1. cidrs \subseteq Cidr /\ ports \subseteq PortRange
  BY FilterAssumption DEF OrAny
<1>2. port \in Nat
  BY PacketAssumption DEF HasPorts
<1>3. PICK any \in AnyNet : p.family = any.family /\ addr \in any.lo .. any.hi
  BY PacketAssumption
<1>4. any \in Cidr
  BY FilterAssumption
<1>5. addr \in Int /\ port \in Int
  BY <1>2, <1>3, <1>4 DEF Cidr
<1>6. (\E c \in cidrs : p.family = c.family /\ addr \in c.lo .. c.hi)
        <=> r.cidrs = {} \/ \E c \in r.cidrs : p.family = c.family /\ addr \in c.lo .. c.hi
  BY <1>3 DEF OrAny
<1>7. (\E q \in ports : port \in q.from .. q.to)
        <=> \/ r.ports = {} /\ port \in AnyPort.from .. AnyPort.to
            \/ \E q \in r.ports : port \in q.from .. q.to
  BY DEF OrAny
<1> HIDE DEF cidrs, ports
<1> DEFINE net(c, q) ==
      [family |-> c.family, lo |-> c.lo, hi |-> c.hi, from |-> q.from, to |-> q.to]
<1>8. Includes(r) = {net(c, q) : c \in cidrs, q \in ports}
  BY DEF Includes, WithPorts, cidrs, ports
<1>9. ASSUME NEW c \in cidrs, NEW q \in ports
      PROVE  InNet(p, addr, net(c, q)) /\ PortIn(p, port, net(c, q))
               <=> /\ p.family = c.family /\ addr \in c.lo .. c.hi
                   /\ port \in q.from .. q.to
  <2>1. c \in Cidr /\ q \in PortRange
    BY <1>1
  <2> QED
    BY <1>5, <2>1 DEF InNet, PortIn, Cidr, PortRange
<1> HIDE DEF net
<1>10. (\E n \in Includes(r) : InNet(p, addr, n) /\ PortIn(p, port, n))
         <=> \E c \in cidrs, q \in ports :
               InNet(p, addr, net(c, q)) /\ PortIn(p, port, net(c, q))
  BY <1>8
<1>11. (\E c \in cidrs, q \in ports :
          InNet(p, addr, net(c, q)) /\ PortIn(p, port, net(c, q)))
         <=> /\ \E c \in cidrs : p.family = c.family /\ addr \in c.lo .. c.hi
             /\ \E q \in ports : port \in q.from .. q.to
  BY <1>9
<1> QED
  BY <1>6, <1>7, <1>10, <1>11 DEF Asked

\* The include test asks for one of the ends that the direction allows.
LEMMA IncludeIffAsked ==
  ASSUME NEW r \in Requests, NEW p \in Packets, HasPorts(p), NEW f,
         f.include = Includes(r) \/ (r.attack = "dns" /\ f.include = WithPorts(AnyNet, r.ports)),
         f.direction \in {"All", "Outgoing"}
  PROVE  IncludeTest(f, p)
           <=> \/ Asked(r, Remote(p), p)
               \/ f.direction = "All" /\ Asked(r, [addr |-> p.src, port |-> p.sport], p)
<1>1. CASE f.include = Includes(r)
  <2>1. Includes(r) # {}
    <3> DEFINE cidrs == OrAny(r.cidrs, AnyNet)
               ports == OrAny(r.ports, {AnyPort})
    <3>1. AnyNet # {}
      BY PacketAssumption
    <3>2. PICK c \in cidrs, q \in ports : TRUE
      BY <3>1 DEF OrAny
    <3> HIDE DEF cidrs, ports
    <3> DEFINE net(d, k) ==
          [family |-> d.family, lo |-> d.lo, hi |-> d.hi, from |-> k.from, to |-> k.to]
    <3>3. Includes(r) = {net(d, k) : d \in cidrs, k \in ports}
      BY DEF Includes, WithPorts, cidrs, ports
    <3> HIDE DEF net
    <3>4. net(c, q) \in Includes(r)
      BY <3>2, <3>3
    <3> QED
      BY <3>4
  <2>2. IncludeTest(f, p)
          <=> \/ \E n \in Includes(r) : InNet(p, p.dst, n) /\ PortIn(p, p.dport, n)
              \/ /\ f.direction = "All"
                 /\ \E n \in Includes(r) : InNet(p, p.src, n) /\ PortIn(p, p.sport, n)
    BY <1>1, <2>1 DEF IncludeTest
  <2>3. (\E n \in Includes(r) : InNet(p, p.dst, n) /\ PortIn(p, p.dport, n))
          <=> Asked(r, Remote(p), p)
    BY IncludedIffAsked DEF Remote
  <2>4. (\E n \in Includes(r) : InNet(p, p.src, n) /\ PortIn(p, p.sport, n))
          <=> Asked(r, [addr |-> p.src, port |-> p.sport], p)
    BY IncludedIffAsked
  <2> QED
    BY <2>2, <2>3, <2>4
<1>2. CASE r.attack = "dns" /\ f.include = WithPorts(AnyNet, r.ports)
  BY <1>1, <1>2, FilterAssumption DEF Includes, OrAny
<1> QED
  BY <1>1, <1>2

\* The exclude test spares exactly what the list protects, if it was not condensed.
LEMMA ExcludeIffProtected ==
  ASSUME nwps \in Seq(Net), NEW p \in Packets, HasPorts(p), NEW f,
         f.exclude = {nwps[i] : i \in DOMAIN nwps}
  PROVE  ExcludeTest(f, p) <=> ~Protected(p)
<1>1. ASSUME NEW addr \in {p.src, p.dst}, NEW port \in {p.sport, p.dport}, NEW n \in Net
      PROVE  InNet(p, addr, n) /\ ~PortNotIn(p, port, n)
               <=> Of(p, [addr |-> addr, port |-> port], n)
  <2>1. port \in Nat
    BY PacketAssumption DEF HasPorts
  <2>2. PICK any \in AnyNet : p.family = any.family /\ addr \in any.lo .. any.hi
    BY PacketAssumption
  <2>3. any \in Cidr
    BY FilterAssumption
  <2>4. addr \in Int /\ port \in Int
    BY <2>1, <2>2, <2>3 DEF Cidr
  <2>5. n.lo \in Nat /\ n.hi \in Nat /\ n.from \in Nat /\ n.to \in Nat
    BY NetFields
  <2> QED
    BY <2>4, <2>5 DEF InNet, PortNotIn, Of
<1>2. \A i \in DOMAIN nwps : nwps[i] \in Net
  BY ElementsAreNets
<1> DEFINE source == [addr |-> p.src, port |-> p.sport]
           remote == [addr |-> p.dst, port |-> p.dport]
<1>3. \A i \in DOMAIN nwps :
        /\ InNet(p, p.src, nwps[i]) /\ ~PortNotIn(p, p.sport, nwps[i]) <=> Of(p, source, nwps[i])
        /\ InNet(p, p.dst, nwps[i]) /\ ~PortNotIn(p, p.dport, nwps[i]) <=> Of(p, remote, nwps[i])
  BY <1>1, <1>2
<1>4. Ends(p) = {source, remote}
  BY DEF Ends
<1> HIDE DEF source, remote
<1>5. Protected(p) <=> \E i \in DOMAIN nwps : Of(p, source, nwps[i]) \/ Of(p, remote, nwps[i])
  BY <1>4 DEF Protected
<1>6. ExcludeTest(f, p) <=>
        \A i \in DOMAIN nwps : /\ InNet(p, p.dst, nwps[i]) => PortNotIn(p, p.dport, nwps[i])
                               /\ InNet(p, p.src, nwps[i]) => PortNotIn(p, p.sport, nwps[i])
  BY DEF ExcludeTest
<1> QED
  BY <1>3, <1>5, <1>6

LEMMA InterfacesAsAsked ==
  ASSUME NEW r, OneInterfaceExists(r), NEW p, NEW f, f.ifIdx = InterfaceIndexes(r)
  PROVE  InterfaceTest(f, p) <=> OnInterfaces(r, p)
  BY DEF OneInterfaceExists, InterfaceIndexes, InterfaceTest, OnInterfaces

\* Test by test.
LEMMA AffectsIffWanted ==
  ASSUME nwps \in Seq(Net), result = nwps, NEW r \in Requests, OneInterfaceExists(r),
         NEW p \in Packets
  PROVE  Affects(FilterOf(r), p) <=> Wanted(r, p) /\ (Excluding(r) => ~Protected(p))
<1> DEFINE f == FilterOf(r)
           source == [addr |-> p.src, port |-> p.sport]
<1>1. HasPorts(p) <=> p.proto \in {"tcp", "udp"}
  BY DEF HasPorts
<1>2. r.attack \in {"blackhole", "delay", "corrupt", "loss", "dns", "bandwidth"}
  BY FilterAssumption
<1>3. f.direction = IF r.attack = "blackhole" THEN "All" ELSE "Outgoing"
  BY <1>2 DEF FilterOf, MapToNetworkFilter, OutgoingTo, Excluding
<1>4. f.include = Includes(r) \/ (r.attack = "dns" /\ f.include = WithPorts(AnyNet, r.ports))
  BY <1>2 DEF FilterOf, MapToNetworkFilter, OutgoingTo, Excluding
<1>5. InterfaceTest(f, p) <=> OnInterfaces(r, p)
  <2>1. CASE Excluding(r)
    <3>1. f.ifIdx = InterfaceIndexes(r)
      BY <2>1 DEF FilterOf, MapToNetworkFilter
    <3> QED
      BY <3>1, InterfacesAsAsked
  <2>2. CASE ~Excluding(r)
    <3>1. r.interfaces = {} /\ f.ifIdx = {}
      BY <1>2, <2>2, FilterAssumption DEF FilterOf, OutgoingTo, Excluding
    <3> QED
      BY <3>1 DEF InterfaceTest, OnInterfaces
  <2> QED
    BY <2>1, <2>2
<1>6. DirectionTest(f, p) <=> (r.attack # "blackhole" => ~p.inbound)
  BY <1>3, PacketAssumption DEF DirectionTest
<1>7. ASSUME HasPorts(p)
      PROVE  ExcludeTest(f, p) <=> (Excluding(r) => ~Protected(p))
  <2>1. CASE Excluding(r)
    <3>1. f.exclude = {nwps[i] : i \in DOMAIN nwps}
      BY <2>1 DEF FilterOf, MapToNetworkFilter
    <3> QED
      BY <1>7, <2>1, <3>1, ExcludeIffProtected
  <2>2. CASE ~Excluding(r)
    BY <2>2 DEF FilterOf, OutgoingTo, ExcludeTest
  <2> QED
    BY <2>1, <2>2
<1>8. ASSUME HasPorts(p)
      PROVE  IncludeTest(f, p)
               <=> Asked(r, Remote(p), p) \/ (r.attack = "blackhole" /\ Asked(r, source, p))
  <2>1. /\ f.direction \in {"All", "Outgoing"}
        /\ f.direction = "All" <=> r.attack = "blackhole"
    BY <1>3
  <2> HIDE DEF f
  <2> QED
    BY <1>4, <1>8, <2>1, IncludeIffAsked
<1>9. (\E e \in Ends(p) : Asked(r, e, p) /\ (r.attack # "blackhole" => e = Remote(p)))
        <=> Asked(r, Remote(p), p) \/ (r.attack = "blackhole" /\ Asked(r, source, p))
  <2>1. Ends(p) = {source, Remote(p)}
    BY DEF Ends, Remote
  <2> HIDE DEF source
  <2> QED
    BY <2>1
<1> HIDE DEF f
<1> QED
  BY <1>1, <1>5, <1>6, <1>7, <1>8, <1>9 DEF Affects, Wanted, f

\* For every request, list of endpoints that is not condensed, and packet: the attack
\* affects it iff the parameters ask for it and it is none of a protected endpoint.
THEOREM AttackAsWanted == Spec => []AffectedAsWanted
<1>1. Init => FilterBuilt
  BY DEF Init, FilterBuilt, Built
<1>2. FilterInv /\ FilterBuilt => AffectedAsWanted
  BY AffectsIffWanted
  DEF FilterInv, CondenseInv, CondenseTypeOK, FilterBuilt, AffectedAsWanted
<1> QED
  BY <1>1, <1>2, FilterBuiltNext, FilterInvInit, FilterInvNext, PTL DEF Spec
=============================================================================
