CONSTANTS
  Null = Null
  Oids <- MCOids
  Widths <- MCWidths
  ByteVals <- MCByteVals
  ArgPrefixes <- MCArgPrefixes
  ServerArity = {5}
  Nullable <- MCNullable
  AltOids <- MCNoAltOids
  Malformed = TRUE
SPECIFICATION Spec
INVARIANT NoPanic
