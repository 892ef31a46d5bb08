CONSTANTS
  Null = Null
  N = 5
  Values <- MCValues
  Nullable <- MCNullable
  OtherTexts <- MCOtherTexts
SPECIFICATION Spec
INVARIANT LeadingFieldsDecoded
INVARIANT NullNeverDecodedAsValue
