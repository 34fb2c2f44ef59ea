---------------------------- MODULE NetworkSlot ----------------------------
(***************************************************************************)
(* What the network package promises the rest of the extension: one slot   *)
(* for network attacks.  It may be held several times, by attacks of one   *)
(* setting only, and leftovers are swept only while nobody holds it.       *)
(***************************************************************************)
EXTENDS Integers

CONSTANTS
  Keys,  \* the attack settings
  NoKey  \* not a setting: the slot is free

VARIABLES
  holder,   \* the setting that holds the slot
  count,    \* how many attacks of that setting hold it
  sweeping, \* leftovers are being removed
  running   \* the extension runs

slotVars == <<holder, count, sweeping, running>>

SlotInit == holder = NoKey /\ count = 0 /\ sweeping = FALSE /\ running = TRUE

Admit(k) ==
  /\ running /\ ~sweeping
  /\ holder \in {NoKey, k}
  /\ holder' = k
  /\ count' = count + 1
  /\ UNCHANGED <<sweeping, running>>

Release(k) ==
  /\ running /\ ~sweeping
  /\ holder = k
  /\ count' = count - 1
  /\ holder' = IF count = 1 THEN NoKey ELSE k
  /\ UNCHANGED <<sweeping, running>>

Sweep ==
  /\ running /\ holder = NoKey
  /\ sweeping' = ~sweeping
  /\ UNCHANGED <<holder, count, running>>

\* The process ends: whoever held the slot does not hold it any more.
Reset ==
  /\ running /\ running' = FALSE
  /\ holder' = NoKey /\ count' = 0 /\ sweeping' = FALSE

Reboot == ~running /\ running' = TRUE /\ UNCHANGED <<holder, count, sweeping>>

SlotNext == (\E k \in Keys : Admit(k) \/ Release(k)) \/ Sweep \/ Reset \/ Reboot

SlotSpec == SlotInit /\ [][SlotNext]_slotVars
=============================================================================
