SPECIFICATION TerminalSpec
CONSTANTS
  Order <- MCOrder
  Parent <- MCParent
  Leaf <- MCLeaf
  Required <- MCRequired
  Optional <- MCOptional
  Spells <- MCSpells
  Letters = {"t"}
  Typed = {"new"}
  Vaults <- MCVaults
  Foreigner <- MCForeigner
  MaxWrites = 2

PROPERTY EditKeepsProvider
CHECK_DEADLOCK FALSE
