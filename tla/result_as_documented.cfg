SPECIFICATION Spec
CONSTANTS
  AS1 = AS1
  AS2 = AS2
  Tables = 2
  Asns <- MCAsns
  Characters <- MCCharacters
  Prefixes <- MCPrefixes
  MaxReasons = 3
  ReasonsSize = 3
  PrefixLen = 4
SYMMETRY MCSymmetry
INVARIANT ResultAsDocumented
CHECK_DEADLOCK FALSE
