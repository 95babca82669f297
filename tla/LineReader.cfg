\* Streams of two lines in pieces of up to three characters.
CONSTANTS
  REDACTED <- MCRedacted
  Candidates <- MCCandidates
  Controls <- MCControls
  MAX_LABEL_LENGTH = 4
  MAX_LINE_BYTES = 8
  MAX_SESSION_BYTES = 24
  ChunkSize = 3
  Answers <- MCAnswers
  RawAnswers <- MCRawAnswers
  NameKey <- MCName
  Otherwise <- MCOtherwise
  SecretSets <- MCSecretSets
  Template <- MCTemplate
  None = None
SPECIFICATION Spec
INVARIANTS
  LinesWhole
  LineLimit
  AnswerArrives
  LabelClean
  LogLineClean
