CONSTANTS
  Null = Null
  Oids <- MCOids
  Widths <- MCWidths
  ByteVals <- MCByteVals
  ArgPrefixes <- MCArgPrefixes
  ServerArity = {5, 6}
  Nullable <- MCNullable
  AltOids <- MCAltOids
  Malformed = FALSE
SPECIFICATION Spec
INVARIANT ShapeChecked
