\* Four levels; the documents are in MCAlphabets.  Documents of five pieces, of the
\* characters in MCCodes, in a buffer of two bytes that has to grow.  Packets of five
\* characters after one of MCHeaders, and of three fields.
CONSTANTS
  Key = {"a", ""}
  stack_depth = 4
  Alphabets <- MCAlphabets
  Code <- MCCodes
  FirstLength = 2
  MaxPieces = 5
  MaxFields = 3
  Header <- MCHeaders
  MaxLength = 5
SPECIFICATION AllSpec
INVARIANTS
  ParsesJson
  ReferencesCounted
  ReadsTokens
  OwnFields
CHECK_DEADLOCK FALSE
