SPECIFICATION FairSpec
CONSTANTS
  Handlers = {f1, f2}
  Streams = {1, 2}
  Declarations <- MCDeclarations
  MaxHead = 1
  Requests = {q1, q2}
  NoHandler = NoHandler
  NoRequest = NoRequest
INVARIANTS
  FTypeOK
  HandlerIsRegistered
  HeadIsCurrent
PROPERTIES
  CreationKeepsHeads
  RequestsAnswered
  ConstructionEnds
