\* Every command line of up to three arguments.
CONSTANTS
  REDACTED <- MCRedacted
  Candidates <- MCCandidates
  MAX_LABEL_LENGTH = 1
  Controls <- MCControls
  Options <- MCOptions
  PasswordOption <- MCPassword
  HelpOption <- MCHelp
  HelpText <- MCHelpText
  Tokens <- MCTokens
  MaxArgs = 3
  SecretSets <- MCSecretSets
SPECIFICATION Spec
INVARIANTS
  PasswordsCensored
  OnlyOptionsShown
