CONSTANTS
  Kinds <- MCKinds
  Hubs <- MCHubs
  Spokes <- MCSpokes
  Fields <- MCFields
  Defaults <- MCDefaults
  Preferred <- MCPreferred
  Documents <- MCDocuments
  Files <- MCFiles
  Options <- MCOptions
  None = None
SPECIFICATION Spec
INVARIANT TypeOK
PROPERTIES DecodesAll FieldsKept VersionAsked
CHECK_DEADLOCK FALSE
VIEW View
