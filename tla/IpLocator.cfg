CONSTANTS
  IndexStart = 8
  MaxIp = 9
  Indexes <- McIndexes
  Bases <- McBases
  RecordTexts <- McRecordTexts
  Next4 <- McNext4
  Base = 16
  AddressTexts <- McAddressTexts
SPECIFICATION FairLocatorSpec
INVARIANT TypesOK
INVARIANT FindsEntry
PROPERTY AlwaysReturns
INVARIANT DecodesRecord
INVARIANT LegalTextsRoundTrip
\* the search, the decoder and the conversion return
CHECK_DEADLOCK FALSE
