CONSTANTS
  AssetTypes = {t1, t2}
  Classes = {k1, k2}
  Undecided = Undecided
  Mappers = {mp1}
  MaxDrafts = 2
  MaxSyncs = 1
SPECIFICATION ProfileSpec
PROPERTY AdoptedIsThere
CHECK_DEADLOCK FALSE
