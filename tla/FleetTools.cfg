SPECIFICATION ToolsSpec
CONSTANTS
  local = local
  second = second
  compose = compose
  audit1 = audit1
  audit2 = audit2
  plan1 = plan1
  plan2 = plan2
  plugin = plugin
  sidecar = sidecar
  Writers = {local, second, compose, audit1, audit2}
  Comparing = {local, second, audit1, audit2}
  Auditors = {audit1, audit2}
  Bodies <- MCBodies
  NoBody = NoBody
  Repositories = 2
  Fleet = {plugin, sidecar}
  NoComponent = NoComponent
INVARIANT SuccessIsOwnBytes
INVARIANT PassIsRecorded
INVARIANT StagedIsPinned
INVARIANT ReleaseIsSelected
PROPERTY KeepsLastStage
