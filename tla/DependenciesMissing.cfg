SPECIFICATION Spec
CONSTANTS
  Projects <- MCProjects
  Name <- MCName
  DependsOn <- MCDependsOn
  Sharing <- MCSharing
  Boxes <- MCBoxes
  From <- MCFrom
  Service <- MCService
  ContainerName <- MCContainerName
  Labels <- MCLabels
  External <- MCExternal
  Declarations <- NoDeclaration
  MaxChanges = 5
INVARIANTS
  MissingNoticed
CHECK_DEADLOCK FALSE
