SPECIFICATION Spec
CONSTANTS
  main = main
  css = css
  js = js
  img = img
  added = added
  unref = unref
  Page <- Rich
  Main = main
  CanFail = {main, img}
  PumpLimit = 2
  Chunk = 5
  MaxLoads = 2
INVARIANTS
  EngineIsSafe
  ScriptsInOrder
  LoadedMeansLoaded
PROPERTIES
  LoadEnds
  FollowsProtocol
CHECK_DEADLOCK FALSE
