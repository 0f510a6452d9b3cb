SPECIFICATION MessageSpec
CONSTANTS
  Versions = {1, 2, 3}
  Never = 4
  Schemas <- MCSchemas
  Plain <- MCPlain
  Texts <- MCTexts
  MaxHops = 2
INVARIANT StringArrives
CHECK_DEADLOCK FALSE
