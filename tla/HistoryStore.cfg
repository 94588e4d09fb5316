SPECIFICATION Spec
CONSTANTS
  Capacity = 3
  Reading = {0}
  NaN = NaN
  Zero = 0
  n1 = n1
  kNode = kNode
  kLink = kLink
  kCluster = kCluster
  Nodes = {n1}
  NodeKeys <- MCNodeKeys
  LinkKeys <- MCLinkKeys
  ClusterKeys <- MCClusterKeys
  Stamp = {1, 2}
INVARIANTS TypeOK NoDeadSeries
PROPERTY ImplementsLog
