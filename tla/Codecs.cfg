SPECIFICATION MCSpec
CONSTANTS
  Hash <- MCHash
  TypeOf <- MCTypes
  WriteSets <- MCWriteSets
  SearchSet <- MCSearches
  Bytes = {97, 98, 120}
  Delims <- MCDelims
  MaxStream = 6
  MaxInt = 7
  MaxLargestInt = 127
  Items <- MCItems
  Names <- MCNames
  MaxEdits = 3
  MaxSize = 3
  StackLimit = 5
  RightMargin = 20
  MaxWords = 7
  Methods <- MCMethods
  Paths <- MCPaths
  Queries <- MCQueries
  FieldNames <- MCFields
  FieldValues <- MCValues
  AttrNames <- MCAttrNames
  AttrValues <- MCAttrs
  Base64Texts <- MCBase64
  DigitTexts <- MCDigits
  UrlTexts <- MCUrls
  ListTexts <- MCLists
  EscapeTexts <- MCEscapes
  Utf8Texts <- MCUtf8
  SettingTexts <- MCSettings
  Width = 2
  Starts <- MCStarts
  Amounts <- MCAmounts
  MaxAdds = 2
  MaxPoint = 5
INVARIANTS
  IndexSearches
  FramesAgree
  
  WrittenIsReadBack
  AcceptsItsGrammar
  TextsReadBack
  DatesHold
CHECK_DEADLOCK FALSE
