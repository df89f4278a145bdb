SPECIFICATION Spec
CONSTANT TokenBuffers <- ExpressionTokenBuffers
INVARIANTS
  TreeIsComplete
  PrecedenceRespected
  OnlyOperatorErrorsUnmarked
  Postorder
