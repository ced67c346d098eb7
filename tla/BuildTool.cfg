SPECIFICATION BuildSpec
CONSTANTS
  Workspaces <- MCWorkspaces
  Lines <- MCLines
  Missing = 0
  Empty = 1
  Slashed = 2
  Spaced = 3
  Default = 4
  MaxPackages = 4
INVARIANTS
  DiscoveryIsOrderFree
  TasksCoverWorkspace
CHECK_DEADLOCK FALSE
