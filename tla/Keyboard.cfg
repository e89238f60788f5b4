CONSTANTS
  KB_BUFFER_SIZE = 3
  Key = {"a"}
  MaxCodes = 3
SPECIFICATION Spec
INVARIANTS
  CaseAsTyped
  LoadedIsHead
PROPERTIES
  ImplementsQueue
