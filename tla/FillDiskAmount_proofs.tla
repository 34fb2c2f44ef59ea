----------------------- MODULE FillDiskAmount_proofs -----------------------
(***************************************************************************)
(* For every drive, every request and all sizes of the two megabytes: how  *)
(* much the fill disk attack writes, whatever others do on the drive.      *)
(***************************************************************************)
EXTENDS FillDiskAmount, TLAPS

\* Products of natural numbers grow with their factors.
LEMMA Monotonic ==
  ASSUME NEW a \in Nat, NEW b \in Nat, NEW c \in Nat, a <= b
  PROVE  a * c \in Nat /\ b * c \in Nat /\ a * c <= b * c
  BY SMTT(30)

\* A quotient is rounded down by less than one.
LEMMA Quotient ==
  ASSUME NEW a \in Nat, NEW b \in Nat \ {0}
  PROVE  /\ a \div b \in Nat
         /\ (a \div b) * b <= a
         /\ a < ((a \div b) + 1) * b
  BY SMTT(30)

\* Sizes that fit are counted right.
LEMMA MegabytesFit ==
  ASSUME NEW size \in Nat, size * MB < Word
  PROVE  Megabytes(size) = size * MB
<1>1. size * MB \in Nat /\ Word \in Nat \ {0}
  BY FillAssumption
<1> DEFINE n == size * MB
<1>2. n \in Nat /\ n < Word
  BY <1>1
<1> HIDE DEF n
<1>3. n % Word = n
  BY <1>1, <1>2, SMTT(30)
<1> QED
  BY <1>3 DEF Megabytes, n

\* The blocks are what fits into the amount: at least one, and one more would not fit.
LEMMA Blocks ==
  ASSUME NEW r \in Requests, NEW amount \in Nat, Block(r, amount) # 0
  PROVE  /\ Block(r, amount) \in Nat \ {0} /\ Block(r, amount) <= r.block
         /\ Count(r, amount) \in Nat \ {0}
         /\ Count(r, amount) * Block(r, amount) * MB <= amount
         /\ amount < (Count(r, amount) + 1) * Block(r, amount) * MB
<1> DEFINE b == Block(r, amount)
           q == amount \div b
           c == q \div MB
<1>1. MB \in Nat \ {0} /\ r.block \in Nat
  BY FillAssumption
<1>2. amount \div MB \in Nat /\ (amount \div MB) * MB <= amount
  BY <1>1, Quotient
<1>3. b \in Nat \ {0} /\ b <= r.block /\ b <= amount \div MB
  BY <1>1, <1>2 DEF Block, Smaller
<1>4. c = Count(r, amount)
  BY DEF Count
<1> HIDE DEF b
<1>5. q \in Nat /\ q * b <= amount /\ amount < (q + 1) * b
  BY <1>3, Quotient
<1> HIDE DEF q
<1>6. c \in Nat /\ c * MB <= q /\ q < (c + 1) * MB
  BY <1>1, <1>5, Quotient
<1> HIDE DEF c
<1>7. c * b * MB <= amount
  <2>1. (c * MB) * b <= q * b
    BY <1>3, <1>5, <1>6, <1>1, Monotonic
  <2>2. c * b * MB = (c * MB) * b
    BY <1>1, <1>3, <1>6
  <2> QED
    BY <2>1, <2>2, <1>1, <1>3, <1>5, <1>6
<1>8. amount < (c + 1) * b * MB
  <2>1. q + 1 <= (c + 1) * MB /\ (c + 1) * MB \in Nat
    BY <1>1, <1>5, <1>6
  <2>2. (q + 1) * b <= ((c + 1) * MB) * b
    BY <2>1, <1>3, <1>5, Monotonic
  <2>3. (c + 1) * b * MB = ((c + 1) * MB) * b
    BY <1>1, <1>3, <1>6
  <2> QED
    BY <2>2, <2>3, <1>1, <1>3, <1>5, <1>6
<1>9. c # 0
  <2>1. b * MB <= (amount \div MB) * MB
    BY <1>1, <1>2, <1>3, Monotonic
  <2>2. (0 + 1) * b * MB <= amount
    BY <2>1, <1>1, <1>2, <1>3
  <2> QED
    BY <2>2, <1>8, <1>1, <1>3
<1> QED
  BY <1>3, <1>4, <1>6, <1>7, <1>8, <1>9 DEF b

-----------------------------------------------------------------------------
(* The inductive invariant *)

\* What has been computed in Prepare stays as it is ...
Computed ==
  /\ at \in {"new", "rejected"} => bytes = 0
  /\ at = "new" => free = available
  /\ at \notin {"new", "rejected"} =>
       bytes \in Allocations(request, available) /\ Room(request, available) /\ request.block > 1

\* ... and the file has the blocks that dd has written, or what fsutil was asked for.
Blk == Block(request, bytes)
All == Count(request, bytes)
File ==
  /\ at \notin {"filling", "filled", "full"} => written = 0
  /\ at \in {"filling", "full"} => request.method = "OVER_TIME"
  /\ at \in {"filling", "filled", "full"} /\ request.method = "OVER_TIME" =>
       Blk # 0 /\ left <= All
  /\ at = "filled" /\ request.method = "AT_ONCE" => written = bytes
  /\ at = "filled" /\ request.method = "OVER_TIME" => left = 0
  /\ at \in {"filling", "filled"} /\ request.method = "OVER_TIME" =>
       written = (All - left) * (Blk * MiB)
  /\ at = "full" => written <= All * (Blk * MiB)
  /\ at = "panicked" => Blk = 0

IInv == TypeOK /\ Computed /\ File

LEMMA RequestFields ==
  ASSUME NEW r \in Requests
  PROVE  /\ r.size \in Nat /\ r.block \in Nat
         /\ r.mode \in {"PERCENTAGE", "MB_TO_FILL", "MB_LEFT"}
         /\ r.method \in {"AT_ONCE", "OVER_TIME"}
  BY FillAssumption

LEMMA MegabytesType == ASSUME NEW size \in Nat PROVE Megabytes(size) \in Nat
<1>1. size * MB \in Nat /\ Word \in Nat \ {0}
  BY FillAssumption
<1> QED
  BY <1>1 DEF Megabytes

LEMMA AllocationType ==
  ASSUME NEW r \in Requests, NEW space \in Space, Room(r, space)
  PROVE  Allocations(r, space) \subseteq Nat
<1>1. space \in Nat /\ Total \in Nat /\ space <= Total
  BY FillAssumption
<1>2. Megabytes(r.size) \in Nat /\ r.size \in Nat
  BY RequestFields, MegabytesType
<1>3. CASE r.mode = "MB_LEFT"
  BY <1>1, <1>2, <1>3 DEF Allocations, Room
<1>4. CASE r.mode = "MB_TO_FILL"
  BY <1>2, <1>4 DEF Allocations
<1>5. CASE r.mode = "PERCENTAGE"
  <2> SUFFICES ASSUME NEW e \in -FloatError .. FloatError
               PROVE  Larger(0, Share(r.size, space) + e) \div 100 \in Nat
    BY <1>5 DEF Allocations
  <2>1. Share(r.size, space) + e \in Int
    BY <1>1, <1>2, FillAssumption DEF Share
  <2>2. Larger(0, Share(r.size, space) + e) \in Nat
    BY <2>1 DEF Larger
  <2> QED
    BY <2>2, Quotient
<1> QED
  BY <1>3, <1>4, <1>5, RequestFields

LEMMA InvInit == Init => IInv
  BY FillAssumption DEF Init, IInv, TypeOK, Computed, File

\* Types of what the actions compute with.
LEMMA Types ==
  ASSUME TypeOK
  PROVE  /\ MB \in Nat \ {0} /\ MiB \in Nat \ {0} /\ bytes \in Nat /\ left \in Nat
         /\ written \in Nat /\ free \in Nat /\ request.block \in Nat
         /\ Blk \in Nat /\ Blk <= request.block
         /\ Blk # 0 => All \in Nat \ {0}
<1>1. MB \in Nat \ {0} /\ MiB \in Nat \ {0}
  BY FillAssumption
<1>2. bytes \in Nat /\ left \in Nat /\ written \in Nat /\ free \in Nat /\ request.block \in Nat
  BY RequestFields DEF TypeOK
<1>3. bytes \div MB \in Nat
  BY <1>1, <1>2
<1>4. Blk \in Nat /\ Blk <= request.block
  BY <1>2, <1>3 DEF Blk, Block, Smaller
<1>5. Blk # 0 => All \in Nat \ {0}
  BY <1>2, Blocks DEF Blk, All, TypeOK
<1> QED
  BY <1>1, <1>2, <1>4, <1>5

LEMMA WriteInvariant == ASSUME IInv, WriteBlock PROVE IInv'
<1> DEFINE n == Block(request, bytes) * MiB
<1>1. /\ at = "filling" /\ left > 0 /\ UNCHANGED <<request, available, bytes>>
      /\ request.method = "OVER_TIME" /\ Blk # 0 /\ left <= All
      /\ written = (All - left) * n
  BY DEF WriteBlock, IInv, File, Blk
<1>2. /\ bytes \in Nat /\ left \in Nat /\ written \in Nat /\ free \in Nat
      /\ Blk \in Nat /\ All \in Nat /\ MiB \in Nat
  BY <1>1, Types DEF IInv
<1>3. n \in Nat
  BY <1>2 DEF Blk
<1>4. Blk' = Blk /\ All' = All
  BY <1>1 DEF Blk, All
<1>5. n = Blk * MiB
  BY DEF Blk
<1>6. CASE n <= free
  <2>1. written' = written + n /\ free' = free - n /\ left' = left - 1 /\ UNCHANGED at
    BY <1>6 DEF WriteBlock
  <2>2. written' = (All - left') * n
    <3> HIDE DEF n
    <3> QED
      BY <1>1, <1>2, <1>3, <2>1
  <2>3. TypeOK'
    BY <1>1, <1>2, <1>3, <1>6, <2>1 DEF IInv, TypeOK
  <2>4. File'
    BY <1>1, <1>2, <1>4, <1>5, <2>1, <2>2 DEF File
  <2> QED
    BY <1>1, <2>1, <2>3, <2>4 DEF IInv, Computed
<1>7. CASE ~(n <= free)
  <2>1. written' = written + free /\ free' = 0 /\ at' = "full" /\ UNCHANGED left
    BY <1>7 DEF WriteBlock
  <2>2. written' <= All * n
    <3>1. All - left + 1 \in Nat /\ All - left \in Nat /\ All - left + 1 <= All
      BY <1>1, <1>2
    <3> HIDE DEF n
    <3>2. (All - left + 1) * n <= All * n
      BY <1>2, <1>3, <3>1, Monotonic
    <3>3. (All - left + 1) * n = (All - left) * n + n
      BY <1>3, <3>1
    <3> QED
      BY <1>1, <1>2, <1>3, <1>7, <2>1, <3>1, <3>2, <3>3
  <2>3. TypeOK'
    BY <1>1, <1>2, <2>1 DEF IInv, TypeOK
  <2>4. File'
    BY <1>1, <1>2, <1>4, <1>5, <2>1, <2>2 DEF File
  <2> QED
    BY <1>1, <2>1, <2>3, <2>4 DEF IInv, Computed
<1> QED
  BY <1>6, <1>7

LEMMA InvNext == IInv /\ [Next]_vars => IInv'
<1> SUFFICES ASSUME IInv, [Next]_vars PROVE IInv'
  OBVIOUS
<1>1. CASE Prepare
  <2>1. free = available /\ free \in Space /\ UNCHANGED <<request, available, left, free, written>>
        /\ request \in Requests /\ written = 0 /\ bytes = 0
    BY <1>1 DEF Prepare, IInv, TypeOK, Computed, File
  <2>2. CASE at' = "prepared" /\ bytes' \in Allocations(request, free) /\ Room(request, free)
               /\ request.block > 1
    <3>1. bytes' \in Nat
      BY <2>1, <2>2, AllocationType
    <3> QED
      BY <2>1, <2>2, <3>1 DEF IInv, TypeOK, Computed, File
  <2>3. CASE at' = "rejected" /\ UNCHANGED bytes
    BY <2>1, <2>3 DEF IInv, TypeOK, Computed, File
  <2> QED
    BY <1>1, <2>2, <2>3 DEF Prepare
<1>2. CASE StartAtOnce
  <2>1. free - bytes \in Int /\ (bytes <= free => free - bytes \in Nat)
    BY DEF IInv, TypeOK
  <2> QED
    BY <1>2, <2>1 DEF StartAtOnce, IInv, TypeOK, Computed, File
<1>3. CASE StartOverTime
  <2>1. /\ at = "prepared" /\ request.method = "OVER_TIME" /\ written = 0
        /\ UNCHANGED <<request, available, bytes, free, written>>
    BY <1>3 DEF StartOverTime, IInv, File
  <2>2. Blk' = Blk /\ All' = All
    BY <2>1 DEF Blk, All
  <2>3. CASE Blk = 0
    <3>1. at' = "panicked" /\ UNCHANGED left
      BY <1>3, <2>3 DEF StartOverTime, Blk
    <3>2. TypeOK' /\ Computed'
      BY <2>1, <3>1 DEF IInv, TypeOK, Computed
    <3> QED
      BY <2>1, <2>2, <2>3, <3>1, <3>2 DEF IInv, File
  <2>4. CASE Blk # 0
    <3>1. at' = "filling" /\ left' = All /\ All \in Nat /\ Blk * MiB \in Nat
      BY <1>3, <2>4, Types DEF StartOverTime, Blk, All, IInv
    <3>2. TypeOK' /\ Computed'
      BY <2>1, <3>1 DEF IInv, TypeOK, Computed
    <3>3. written' = (All - left') * (Blk * MiB) /\ left' <= All
      BY <2>1, <3>1
    <3>4. File'
      BY <2>1, <2>2, <2>4, <3>1, <3>3 DEF File
    <3> QED
      BY <3>2, <3>4 DEF IInv
  <2> QED
    BY <2>3, <2>4
<1>4. CASE WriteBlock
  BY <1>4, WriteInvariant
<1>5. CASE DDEnds
  BY <1>5 DEF DDEnds, IInv, TypeOK, Computed, File, Blk, All
<1>6. CASE OthersUse
  <2>1. free' \in Nat
    BY <1>6, FillAssumption DEF OthersUse
  <2> QED
    BY <1>6, <2>1 DEF OthersUse, IInv, TypeOK, Computed, File, Blk, All
<1>7. CASE Stop
  BY <1>7 DEF Stop, IInv, TypeOK, Computed, File
<1>8. CASE UNCHANGED vars
  BY <1>8 DEF vars, IInv, TypeOK, Computed, File, Blk, All
<1> QED
  BY <1>1, <1>2, <1>3, <1>4, <1>5, <1>6, <1>7, <1>8 DEF Next

\* Whatever others do on the drive, the file is what has been written of the amount.
THEOREM FillInvariance == Spec => []TypeOK
<1>1. IInv => TypeOK
  BY DEF IInv
<1> QED
  BY <1>1, InvInit, InvNext, PTL DEF Spec

-----------------------------------------------------------------------------
(* From the amount to what is asked for *)

\* The amount is what is asked for, rounded down to bytes, within the tolerance.
LEMMA AllocationRoundsDown ==
  ASSUME TypeOK, Fits, Room(request, available), bytes \in Allocations(request, available)
  PROVE  /\ AtMost \in Nat /\ bytes * 100 <= AtMost
         /\ AtLeast \in Nat /\ AtLeast < (bytes + 1) * 100
<1>1. /\ available \in Nat /\ Total \in Nat /\ available <= Total
      /\ request.size \in Nat /\ request \in Requests
      /\ request.mode \in {"PERCENTAGE", "MB_TO_FILL", "MB_LEFT"}
      /\ MB \in Nat /\ bytes \in Nat /\ FloatError \in Nat
  BY FillAssumption, RequestFields DEF TypeOK
<1> DEFINE m == request.size * MB
<1>2. m \in Nat
  BY <1>1
<1>3. ASSUME request.mode # "PERCENTAGE"
      PROVE  /\ Megabytes(request.size) = m
             /\ AskedHundredths \in Nat => AtMost = AskedHundredths /\ AtLeast = AskedHundredths
  <2>1. Megabytes(request.size) = m
    BY <1>1, <1>3, MegabytesFit DEF Fits
  <2> QED
    BY <1>3, <2>1 DEF Tolerance, AtMost, AtLeast, Larger
<1>4. CASE request.mode = "MB_LEFT"
  <2>1. bytes = available - m /\ m <= available
    BY <1>3, <1>4 DEF Allocations, Room
  <2>2. AskedHundredths = (available - m) * 100
    BY <1>4 DEF AskedHundredths
  <2> HIDE DEF m
  <2>3. AskedHundredths = bytes * 100 /\ AskedHundredths \in Nat
    BY <1>1, <1>2, <2>1, <2>2
  <2> QED
    BY <1>1, <1>3, <1>4, <2>3
<1>5. CASE request.mode = "MB_TO_FILL"
  <2>1. bytes = m /\ AskedHundredths = m * 100
    BY <1>3, <1>5 DEF Allocations, AskedHundredths
  <2> HIDE DEF m
  <2>2. AskedHundredths = bytes * 100 /\ AskedHundredths \in Nat
    BY <1>2, <2>1
  <2> QED
    BY <1>1, <1>3, <1>5, <2>2
<1>6. CASE request.mode = "PERCENTAGE"
  <2> DEFINE s == Share(request.size, available)
  <2>1. s \in Int
    BY <1>1 DEF Share
  <2>2. PICK e \in -FloatError .. FloatError : bytes = Larger(0, s + e) \div 100
    BY <1>6 DEF Allocations
  <2>3. /\ AtMost = Larger(0, s) + FloatError
        /\ AtLeast = Larger(0, Larger(0, s) - FloatError)
    BY <1>6 DEF AtMost, AtLeast, AskedHundredths, Tolerance
  <2> HIDE DEF s
  <2>4. Larger(0, s + e) \in Nat
    BY <1>1, <2>1 DEF Larger
  <2>5. bytes * 100 <= Larger(0, s + e) /\ Larger(0, s + e) < (bytes + 1) * 100
    BY <2>2, <2>4, Quotient
  <2>6. Larger(0, s + e) <= AtMost /\ AtLeast <= Larger(0, s + e) /\ AtMost \in Nat /\ AtLeast \in Nat
    BY <1>1, <2>1, <2>3 DEF Larger
  <2> QED
    BY <1>1, <2>4, <2>5, <2>6
<1> QED
  BY <1>1, <1>4, <1>5, <1>6

\* A file of at most the counted blocks, in units of dd, is not too much.
LEMMA BlocksNotTooMuch ==
  ASSUME NEW w \in Nat, NEW c \in Nat, NEW b \in Nat, NEW amount \in Nat, NEW a \in Nat,
         w <= c * (b * MiB), c * b * MB <= amount, amount * 100 <= a
  PROVE  w * MB * 100 <= a * MiB
<1>1. MB \in Nat /\ MiB \in Nat
  BY FillAssumption
<1> DEFINE f == c * b
<1>2. f \in Nat /\ f * MB <= amount
  OBVIOUS
<1>3. c * (b * MiB) = f * MiB
  BY <1>1
<1> HIDE DEF f
<1>4. w <= f * MiB /\ f * MiB \in Nat
  BY <1>1, <1>2, <1>3
<1>5. w * MB <= (f * MiB) * MB /\ w * MB \in Nat
  BY <1>1, <1>4, Monotonic
<1>6. (f * MiB) * MB = (f * MB) * MiB /\ f * MB \in Nat
  BY <1>1, <1>2
<1>7. (f * MB) * MiB <= amount * MiB /\ (f * MB) * MiB \in Nat /\ amount * MiB \in Nat
  BY <1>1, <1>2, <1>6, Monotonic
<1>8. (amount * 100) * MiB <= a * MiB /\ a * MiB \in Nat
  BY <1>1, Monotonic
<1>9. (amount * 100) * MiB = (amount * MiB) * 100
  BY <1>1
<1> DEFINE x == w * MB
           y == amount * MiB
           z == a * MiB
<1>10. x \in Nat /\ y \in Nat /\ z \in Nat /\ x <= y /\ y * 100 <= z
  BY <1>5, <1>6, <1>7, <1>8, <1>9
<1> HIDE DEF x, y, z
<1>11. x * 100 <= z
  BY <1>10
<1> QED
  BY <1>11 DEF x, z

LEMMA InvNotTooMuch == IInv => NotTooMuch
<1> SUFFICES ASSUME IInv, Fits, written > 0
             PROVE  written * MB * 100 <= AtMost * Unit
  BY DEF NotTooMuch
<1>1. at \in {"filling", "filled", "full"} /\ TypeOK
  BY DEF IInv, File
<1>2. AtMost \in Nat /\ bytes * 100 <= AtMost
  BY <1>1, AllocationRoundsDown DEF IInv, Computed
<1>3. written \in Nat /\ bytes \in Nat /\ MB \in Nat
  BY <1>1, Types
<1>4. CASE request.method = "OVER_TIME"
  <2>1. Blk # 0 /\ Blk \in Nat /\ All \in Nat /\ left \in Nat /\ left <= All /\ MiB \in Nat
    BY <1>1, <1>4, Types DEF IInv, File
  <2>2. written <= All * (Blk * MiB)
    <3>1. CASE at = "full"
      BY <3>1 DEF IInv, File
    <3>2. CASE at # "full"
      <4> DEFINE n == Blk * MiB
      <4>1. n \in Nat
        BY <2>1
      <4>2. written = (All - left) * n
        BY <1>1, <1>4, <3>2 DEF IInv, File
      <4> HIDE DEF n
      <4>3. (All - left) * n <= All * n
        <5>1. All - left \in Nat /\ All - left <= All
          BY <2>1
        <5> QED
          BY <2>1, <4>1, <5>1, Monotonic
      <4> QED
        BY <4>2, <4>3 DEF n
    <3> QED
      BY <3>1, <3>2
  <2>3. All * Blk * MB <= bytes
    BY <1>1, <1>3, <2>1, Blocks DEF All, Blk, TypeOK
  <2>4. written * MB * 100 <= AtMost * MiB
    BY <1>2, <1>3, <2>1, <2>2, <2>3, BlocksNotTooMuch
  <2> QED
    BY <1>4, <2>4 DEF Unit
<1>5. CASE request.method = "AT_ONCE"
  <2>1. written = bytes
    BY <1>1, <1>5 DEF IInv, File
  <2>2. (bytes * 100) * MB <= AtMost * MB
    BY <1>2, <1>3, Monotonic
  <2>3. written * MB * 100 = (bytes * 100) * MB
    BY <1>3, <2>1
  <2> QED
    BY <1>5, <2>2, <2>3 DEF Unit
<1> QED
  BY <1>1, <1>4, <1>5, RequestFields DEF TypeOK

\* For every drive and request, whatever others do: the attack writes no more than it is
\* asked for, counted in the units of its tool.
THEOREM FillIsBounded == Spec => []NotTooMuch
  BY InvInit, InvNext, InvNotTooMuch, PTL DEF Spec

LEMMA InvPanics == IInv => PanicsBelowMegabyte
<1> SUFFICES ASSUME IInv, Fits, at = "panicked" PROVE AtLeast < MB * 100
  BY DEF PanicsBelowMegabyte
<1>1. /\ TypeOK /\ Blk = 0 /\ request.block > 1
      /\ bytes \in Allocations(request, available) /\ Room(request, available)
  BY DEF IInv, File, Computed
<1>2. AtLeast \in Nat /\ AtLeast < (bytes + 1) * 100
  BY <1>1, AllocationRoundsDown
<1>3. bytes \in Nat /\ MB \in Nat \ {0} /\ request.block \in Nat
  BY <1>1, Types
<1>4. bytes \div MB = 0
  <2>1. bytes \div MB \in Nat
    BY <1>3
  <2> QED
    BY <1>1, <1>3, <2>1 DEF Blk, Block, Smaller
<1>5. bytes < MB
  BY <1>3, <1>4, Quotient
<1> QED
  BY <1>2, <1>3, <1>5

\* For every drive and request: the division by zero needs an amount below one megabyte.
THEOREM PanicsOnlyBelowMegabyte == Spec => []PanicsBelowMegabyte
  BY InvInit, InvNext, InvPanics, PTL DEF Spec

\* A file of more than the amount's blocks, in units of dd, is more than what is asked for.
LEMMA BlocksEnough ==
  ASSUME NEW w \in Nat, NEW f \in Nat, NEW amount \in Nat, NEW a \in Nat,
         f * MiB <= w, amount < f * MB, a < (amount + 1) * 100
  PROVE  w * MB * 100 > a * MiB
<1>1. MB \in Nat /\ MiB \in Nat \ {0}
  BY FillAssumption
<1> DEFINE r == amount + 1
           fm == f * MB
<1>2. r \in Nat /\ fm \in Nat /\ r <= fm /\ a + 1 <= r * 100
  BY <1>1
<1>3. (f * MiB) * MB <= w * MB /\ (f * MiB) * MB \in Nat /\ w * MB \in Nat
  BY <1>1, Monotonic
<1>4. (f * MiB) * MB = fm * MiB
  BY <1>1
<1> HIDE DEF r, fm
<1>5. r * MiB <= fm * MiB /\ r * MiB \in Nat /\ fm * MiB \in Nat
  BY <1>1, <1>2, Monotonic
<1>6. (a + 1) * MiB <= (r * 100) * MiB
  BY <1>1, <1>2, Monotonic
<1>7. (a + 1) * MiB = a * MiB + MiB /\ a * MiB \in Nat /\ (r * 100) * MiB = (r * MiB) * 100
  BY <1>1, <1>2
<1> DEFINE x == w * MB
           y == r * MiB
           z == a * MiB
<1>8. x \in Nat /\ y \in Nat /\ z \in Nat /\ y <= x /\ z + MiB <= y * 100
  BY <1>3, <1>4, <1>5, <1>6, <1>7
<1> HIDE DEF x, y, z
<1>9. x * 100 > z
  BY <1>1, <1>8
<1> QED
  BY <1>9 DEF x, z

LEMMA InvNotTooLittle == IInv => NotTooLittle
<1> SUFFICES ASSUME IInv, Fits, at = "filled"
             PROVE  \/ request.method = "AT_ONCE" /\ LacksLess(1)
                    \/ request.method = "OVER_TIME" /\ LacksLess(request.block * MiB) /\ LacksLess(written)
  BY InvPanics DEF NotTooLittle
<1>1. TypeOK /\ AtLeast \in Nat /\ AtLeast < (bytes + 1) * 100
  BY AllocationRoundsDown DEF IInv, Computed
<1>2. written \in Nat /\ bytes \in Nat /\ MB \in Nat \ {0} /\ MiB \in Nat \ {0} /\ request.block \in Nat
  BY <1>1, Types
<1>3. CASE request.method = "AT_ONCE"
  <2>1. written = bytes
    BY <1>3 DEF IInv, File
  <2>2. AtLeast + 1 <= (bytes + 1) * 100
    BY <1>1, <1>2
  <2>3. (AtLeast + 1) * MB <= ((bytes + 1) * 100) * MB
    BY <1>1, <1>2, <2>2, Monotonic
  <2>4. (AtLeast + 1) * MB = AtLeast * MB + MB /\ AtLeast * MB \in Nat
    BY <1>1, <1>2
  <2>5. ((bytes + 1) * 100) * MB = (written + 1) * MB * 100 /\ (written + 1) * MB * 100 \in Nat
    BY <1>2, <2>1
  <2>6. (written + 1) * MB * 100 > AtLeast * MB
    BY <1>2, <2>3, <2>4, <2>5
  <2> QED
    BY <1>3, <2>6 DEF LacksLess, Unit
<1>4. CASE request.method = "OVER_TIME"
  <2> DEFINE n == Blk * MiB
  <2>1. Blk \in Nat \ {0} /\ Blk <= request.block /\ All \in Nat \ {0} /\ left = 0
    BY <1>1, <1>4, Types DEF IInv, File
  <2>2. n \in Nat /\ n <= request.block * MiB /\ request.block * MiB \in Nat
    BY <1>2, <2>1, Monotonic
  <2>3. written = All * n
    BY <1>4, <2>1 DEF IInv, File
  <2>4. n <= All * n
    BY <2>1, <2>2, <2>3, Monotonic
  <2>5. bytes < (All + 1) * Blk * MB
    BY <1>1, <1>2, <2>1, Blocks DEF All, Blk, TypeOK
  <2>6. (All + 1) * Blk \in Nat /\ ((All + 1) * Blk) * MiB = (All + 1) * n
    BY <1>2, <2>1
  <2>7. (All + 1) * n = All * n + n
    <3> HIDE DEF n
    <3> QED
      BY <2>1, <2>2
  <2> HIDE DEF n
  <2>8. ASSUME NEW step \in Nat, n <= step PROVE LacksLess(step)
    <3>1. ((All + 1) * Blk) * MiB <= written + step
      BY <2>2, <2>3, <2>6, <2>7, <2>8, <1>2
    <3>2. (written + step) * MB * 100 > AtLeast * MiB
      BY <1>1, <1>2, <2>5, <2>6, <3>1, BlocksEnough
    <3> QED
      BY <1>4, <3>2 DEF LacksLess, Unit
  <2> QED
    BY <1>2, <1>4, <2>2, <2>3, <2>4, <2>8
<1> QED
  BY <1>1, <1>3, <1>4, RequestFields DEF TypeOK

\* For every drive and request: a fill that has come to its end lacks less than a byte, or
\* less than a block of dd and less than half of what is asked for.
THEOREM FillIsEnough == Spec => []NotTooLittle
  BY InvInit, InvNext, InvNotTooLittle, PTL DEF Spec
=============================================================================
