-------------------------------- MODULE KeySlot --------------------------------
(***************************************************************************)
(* What the key store of a machine promises its callers: one slot.  Only a *)
(* current key appears in it; a key that has been replaced can stay until  *)
(* it goes, and does not come back.                                        *)
(***************************************************************************)
CONSTANT NoKey
VARIABLES
  slot,       \* the key a program would load now, or NoKey
  current     \* the keys that are being stored, and the newest one

SlotInit == slot = NoKey /\ current = {}
Appear == slot' \in current \union current'
Vanish == slot' = NoKey
Stay   == slot' = slot
SlotSpec == SlotInit /\ [][Appear \/ Vanish \/ Stay]_<<slot, current>>
=============================================================================
