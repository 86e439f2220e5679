SPECIFICATION Spec
CONSTANTS
  None = None
  HeaderKey <- MCHeaderKey
  ValidLabels = {"eu", "1", "api"}
  NanosPerSecond = 10
  U64Max = 100
  Words <- MCWords
  SlashedTexts = {"a/b"}
  BadSegments <- MCBadSegments
  BadHeaderTexts = {"a/b"}
  OwnedHeaders = {"host"}
  CredentialHeaders = {"authorization", "x-key"}
  IdentityHeaders = {"request-id"}
  Vocabularies <- AllVocabularies
  MaxDepth = 2
  Values <- MCValues
  MaxEdits = 1
  ApiHeaderSets <- MCApiHeaderSets
INVARIANTS InnermostWins AuthFollowsNesting DocumentedRequest FieldsAgree OriginPinned AskedFieldsSent
  CredentialsPlaced
