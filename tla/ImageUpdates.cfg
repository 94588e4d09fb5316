SPECIFICATION Spec
CONSTANTS
  c1 = c1  c2 = c2  h1 = h1  h2 = h2  i1 = i1  i2 = i2  r1 = r1  r2 = r2  k1 = k1
  Nobody = Nobody  None = None  NaN = NaN  Null = Null  NoSubnet = NoSubnet  Parked = Parked
  Req <- MCReq
  Nodes <- MCNodes  Polled <- MCPolled  Lists <- MCLists
  NodeList <- MCNodeList  Services <- MCServices  Counted <- MCCounted
  ServedEndpoints <- MCEndpoints  Containers <- MCContainers  Links <- MCLinks  MaxServed = 2
  Exported <- MCExported  MaxTs = 1
  Container <- MCContainer  Composed <- MCComposed  Image <- MCImage  MaxOps = 3
  ServerCap = 2  ClientCap = 2  Key = {k1}  MaxTicks = 3  MaxRestarts = 1  MaxQueue = 2
  Fleet <- MCFleet  Unasked <- MCUnasked  Currents <- MCCurrents
  Hour = 1  MaxTime = 1  MaxTip = 1  MaxChecks = 2
  Forms <- MCInputs  Hosts <- MCHosts  ReadyTimeout = 1  Grace = 1
  Screens <- MCScreens  Sizes <- MCSizes
  PanelContainer <- MCListed  LogSize = 2  MaxAsked = 3
  Host <- MCHost  Secret <- MCSecret
CHECK_DEADLOCK FALSE
INVARIANT CurrentIsCurrent
