CONSTANTS
  Null = Null
  Oids <- MCOids
  Widths <- MCWidths
  ByteVals <- MCByteVals
  ArgPrefixes <- MCArgPrefixes
  ServerArity = {4, 5}
  Nullable <- MCNullable
  AltOids <- MCNoAltOids
  Malformed = TRUE
SPECIFICATION Spec
INVARIANT EncodedAsServerSends
INVARIANT RoundTrip
INVARIANT TruncatedNeverAccepted
