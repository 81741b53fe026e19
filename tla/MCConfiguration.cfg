SPECIFICATION Spec
CONSTANTS
  SecretKeys <- MCSecretKeys
  Names <- MCNames
  EnvKeys <- MCEnvKeys
  MappingKeys <- MCMappingKeys
  KeyValues <- MCFew
  ArgLists <- MCArgLists
  Holders <- MCHolders
  Positions <- MCPositions
  KeyAt <- MCKeyAt
  InSecrets = {"secret"}
  UsedByUri = {"stage"}
  Unreadable = {"blind"}
  Configurations <- MCConfigurations
  About <- MCAbout
  Nodes <- MCNodes
  NameOf <- MCNameOf
  TypeOf <- MCTypeOf
  Hint <- MCHint
  Specific <- MCSpecific
INVARIANTS
  NoSecretIsRecorded
  ListIsHonest
  SignalSurvives
  EdgeIsMeant
  NothingReadIsSilent
