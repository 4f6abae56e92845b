\* Each component at the instance its hazards need; they share no state.
SPECIFICATION ExecutorsSpec
CONSTANTS
  \* Registry: two clouds, one namespace, nine directories.
  Directories <- MCDirectories
  Connections <- BothClouds
  Namespaces <- MCNamespaces
  Callers <- MCCallers
  Supplies <- MCSupplies
  Shapes <- MCShapes
  Forbidden <- MCForbidden
  Plain <- MCPlain
  Statements <- MCStatements
  Commands <- MCCommands
  MutatingTools <- MCMutatingTools
  \* Dispatch: three calls of one cached entry, with and without grep, side by side; a secret of
  \* one line, and one of two, between which the result may be cut.
  c1 = c1
  c2 = c2
  c3 = c3
  d1 = d1
  d2 = d2
  d3 = d3
  k1 = k1
  phone = phone
  head = head
  tail = tail
  Calls = {c1, c2, c3}
  Keys = {k1}
  Lines = {phone, head, tail}
  Secrets = {phone}
  Block = {head, tail}
  BlockEnds = {head, tail}
  Beginnings <- MCBeginnings
  NoNeedle = NoNeedle
  Ttl = 2
  Keep = 2
  MaxRun = 1
  MaxTime = 3
  \* Mcp: three calls over two entries, two upgrades and a restart of the service.
  search = search
  wipe = wipe
  McpCalls = {d1, d2, d3}
  Entries = {search, wipe}
  Declared <- MCDeclared
  EntryOf <- MCEntryOf
  Mutating = {"delete", "q_delete"}
  ToolSets <- MCToolSets
  MaxUpgrades = 2
  MaxLives = 2
  Unset <- MCUnset
  NoTool = NoTool
  \* Pool: three calls of a pool of two, over a database that changes once.
  PgCalls = {c1, c2, c3}
  MaxPool = 2
  MaxChanges = 1
  Nobody = Nobody
  \* Commands: two calls, and an end of the service.
  CommandCalls = {d1, d2}
  MaxDrops = 1
  \* Credentials: ticks of 20 seconds, but for the lives, which are shorter than the real ones.
  CloudCalls = {d1, d2}
  Margin = 3
  GcpLives = {2, 6}
  RoleLife = 9
  IrsaLife = 7
  EksLife = 3
  FetchLag = 1
  Lag = 2
  MaxCredTime = 7
  MaxClusters = 2
  Torn <- MCTorn
  \* Gateway: a stream of three lines, a reply of one tool call more than are taken.
  Pieces = {"word", "more", " "}
  Blank = " "
  MaxLines = 3
  MaxAsked = 3
  MaxCalls = 2
INVARIANTS
  RunsAreCovered
  AnswersAreHonest
  OnlyCutSecretsPass
  ToolCallsHold
  PoolHolds
  CommandsAreAccountable
  RefusalsHaveACause
  RepliesAreTakenWhole
SYMMETRY CallSymmetry
CHECK_DEADLOCK FALSE
