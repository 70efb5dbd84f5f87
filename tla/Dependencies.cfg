SPECIFICATION Spec
CONSTANTS
  Projects <- MCProjects
  Name <- MCName
  DependsOn <- MCDependsOn
  Sharing <- MCSharing
  Boxes <- MCBoxes
  From <- MCFrom
  Service <- MCService
  ContainerName <- MCContainerName
  Labels <- MCLabels
  External <- MCExternal
  Declarations <- MCDeclarations
  MaxChanges = 5
INVARIANTS
  Verified
  VerdictTrue
PROPERTIES
  Isolated
CHECK_DEADLOCK FALSE
