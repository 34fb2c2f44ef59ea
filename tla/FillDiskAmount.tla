--------------------------- MODULE FillDiskAmount ---------------------------
(***************************************************************************)
(* How much the fill disk attack writes (action_fill_disk.go): Prepare     *)
(* turns a percentage or a number of megabytes into bytes, from the space  *)
(* that is available then; Start passes the bytes to fsutil, or their      *)
(* number of blocks to dd, which writes them one after the other while     *)
(* others use the drive as well; Stop removes the file.  StressTools has   *)
(* the processes.                                                          *)
(***************************************************************************)
EXTENDS Integers

CONSTANTS
  MB,        \* bytes of a megabyte of the extension, 1000 * 1000
  MiB,       \* bytes of an M of dd, 1024 * 1024
  Word,      \* 2^64: byte counts are uint64
  MaxBlock,  \* the largest block size, 1024
  Total,     \* size of the drive
  Space,     \* what may be available on it
  FloatError, \* by how many hundredths of a byte float64 may miss a percentage of it
  Requests   \* parameters: mode, size, method and block size in megabytes

ASSUME FillAssumption ==
  /\ MB \in Nat \ {0} /\ MiB \in Nat \ {0} /\ Word \in Nat \ {0} /\ MaxBlock \in Nat
  /\ Total \in Nat \ {0} /\ Space \subseteq 0 .. Total /\ FloatError \in Nat
  /\ Requests \subseteq [mode : {"PERCENTAGE", "MB_TO_FILL", "MB_LEFT"}, size : Nat,
                         method : {"AT_ONCE", "OVER_TIME"}, block : Nat]

VARIABLES
  at,         \* where the attack is
  request,    \* its parameters
  available,  \* what was available at Prepare
  bytes,      \* ByteSize
  left,       \* blocks dd still has to write
  free,       \* what is available now
  written     \* size of the file

vars == <<at, request, available, bytes, left, free, written>>

TypeOK ==
  /\ at \in {"new", "rejected", "prepared", "panicked", "failed", "filling",
             "filled", "full", "stopped"}
  /\ request \in Requests /\ available \in Space
  /\ bytes \in Nat /\ left \in Nat /\ free \in Nat /\ written \in Nat

Init ==
  /\ at = "new"
  /\ request \in Requests
  /\ available \in Space /\ free = available
  /\ bytes = 0 /\ left = 0 /\ written = 0

-----------------------------------------------------------------------------
(* Prepare *)

\* size * 1000 * 1000 in uint64
Megabytes(size) == (size * MB) % Word

Larger(a, b) == IF a >= b THEN a ELSE b

\* What is asked for of the drive beyond what is in use, in hundredths of a byte.
Share(size, space) == Total * size - (Total - space) * 100

\* What calculateAllocation may return, if it does: percentages are computed in float64
\* and truncated.
Allocations(r, space) ==
  CASE r.mode = "MB_LEFT"    -> {space - Megabytes(r.size)}
    [] r.mode = "MB_TO_FILL" -> {Megabytes(r.size)}
    [] OTHER -> {Larger(0, Share(r.size, space) + e) \div 100 : e \in -FloatError .. FloatError}

\* (Bug variants, each named for its bug, stand before the definition they vary.)
RoomUnchecked(r, space) == TRUE

\* Percentages are not compared with what is available.
Room(r, space) == r.mode # "PERCENTAGE" => Megabytes(r.size) <= space

Prepare ==
  /\ at = "new"
  /\ IF Room(request, free) /\ request.block > 1 /\ request.block <= MaxBlock
     THEN at' = "prepared" /\ bytes' \in Allocations(request, free)
     ELSE at' = "rejected" /\ UNCHANGED bytes
  /\ UNCHANGED <<request, available, left, free, written>>

-----------------------------------------------------------------------------
(* Start and the processes it starts *)

Smaller(a, b) == IF a <= b THEN a ELSE b

BlockAsGiven(r, amount) == r.block
BlockInUnitsOfDD(r, amount) == Smaller(r.block, amount \div MiB)

\* A block is not larger than the amount ...
Block(r, amount) == Smaller(r.block, amount \div MB)

CountRoundedUp(r, amount) == (amount \div Block(r, amount)) \div MB + 1

\* ... of which Args counts the blocks: it divides by zero below one megabyte.
Count(r, amount) == (amount \div Block(r, amount)) \div MB

\* fsutil creates a file only if there is room for all of it.
StartAtOnce ==
  /\ at = "prepared" /\ request.method = "AT_ONCE"
  /\ IF bytes <= free
     THEN at' = "filled" /\ written' = bytes /\ free' = free - bytes
     ELSE at' = "failed" /\ UNCHANGED <<written, free>>
  /\ UNCHANGED <<request, available, bytes, left>>

StartOverTime ==
  /\ at = "prepared" /\ request.method = "OVER_TIME"
  /\ IF Block(request, bytes) = 0
     THEN at' = "panicked" /\ UNCHANGED left
     ELSE at' = "filling" /\ left' = Count(request, bytes)
  /\ UNCHANGED <<request, available, bytes, free, written>>

\* dd writes blocks of MiB until it has written their number or the drive is full.
WriteBlock ==
  /\ at = "filling" /\ left > 0
  /\ LET n == Block(request, bytes) * MiB IN
     IF n <= free
     THEN /\ written' = written + n /\ free' = free - n /\ left' = left - 1
          /\ UNCHANGED at
     ELSE /\ written' = written + free /\ free' = 0 /\ at' = "full"
          /\ UNCHANGED left
  /\ UNCHANGED <<request, available, bytes>>

DDEnds ==
  /\ at = "filling" /\ left = 0
  /\ at' = "filled"
  /\ UNCHANGED <<request, available, bytes, left, free, written>>

\* Others write and remove files at any time; the amount is not computed again.
OthersUse ==
  /\ at \in {"prepared", "filling", "filled", "full"}
  /\ free' \in {n \in Space : n + written <= Total}
  /\ UNCHANGED <<at, request, available, bytes, left, written>>

\* Stop removes the file, also of a dd that still writes.
Stop ==
  /\ at \in {"filling", "filled", "full"}
  /\ at' = "stopped"
  /\ free' = free + written /\ written' = 0
  /\ UNCHANGED <<request, available, bytes, left>>

Next ==
  \/ Prepare \/ StartAtOnce \/ StartOverTime \/ WriteBlock \/ DDEnds
  \/ OthersUse \/ Stop

Spec == Init /\ [][Next]_vars

-----------------------------------------------------------------------------
(* Properties *)

\* What the parameters ask for, in hundredths of a byte: "overall percentage of filled
\* disk space in percent, Megabytes to write, Megabytes to leave free on disk"
\* (action_fill_disk.go:286).
AskedHundredths ==
  CASE request.mode = "MB_LEFT"    -> (available - request.size * MB) * 100
    [] request.mode = "MB_TO_FILL" -> request.size * MB * 100
    [] OTHER -> Larger(0, Share(request.size, available))

\* What it may be taken for: only percentages are inexact.
Tolerance == IF request.mode = "PERCENTAGE" THEN FloatError ELSE 0
AtMost == AskedHundredths + Tolerance
AtLeast == Larger(0, AskedHundredths - Tolerance)

\* Sizes that fit in uint64 when they are counted in bytes.
Fits == request.mode # "PERCENTAGE" => request.size * MB < Word

\* The megabytes of dd are larger than those of the extension.
Unit == IF request.method = "OVER_TIME" THEN MiB ELSE MB

\* The attack never writes more than it is asked for, but for the error of float64 and the
\* unit: over time it writes up to MiB / MB of it, 4.86 % more.
NotTooMuch == Fits /\ written > 0 => written * MB * 100 <= AtMost * Unit

\* Start panics, in the handler, only if less than a megabyte is asked for.
PanicsBelowMegabyte == Fits /\ at = "panicked" => AtLeast < MB * 100

\* A fill that has come to its end lacks, but for that error, less than one byte or, over time, less than one
\* block and less than half of what it is asked for: "If the block size is larger than
\* the fill value, the fill value will be used as block size" (action_fill_disk.go:347).
\* Nothing is written when Start panics.
LacksLess(step) == (written + step) * MB * 100 > AtLeast * Unit
NotTooLittle ==
  /\ Fits /\ at = "filled" =>
       \/ request.method = "AT_ONCE" /\ LacksLess(1)
       \/ request.method = "OVER_TIME" /\ LacksLess(request.block * MiB) /\ LacksLess(written)
  /\ PanicsBelowMegabyte
=============================================================================
