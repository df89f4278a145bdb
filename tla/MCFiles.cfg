SPECIFICATION FairSpec
CONSTANT TokenBuffers <- FileTokenBuffers
INVARIANTS
  TreeIsComplete
  GroupsAreRespected
  StackNested
  ErrorsAreDiagnosed
PROPERTY Terminates
