SPECIFICATION WireSpec
CONSTANTS
    newNode = newNode  oldNode = oldNode  oldestNode = oldestNode
    Nodes = {newNode, oldNode, oldestNode}
    Speaks <- MCSpeaks
    Latest <- MCLatest
    Offers <- MCOffers
    ConfigVersion = 7
    ConfigFeatures = {"clusterStates", "clusterGroups", "queryPartitions"}
    HasUser = TRUE
    MaxConns = 2
    MaxIds = 2
    MaxRows = 3
    PageSize = 2
    Columns = 3
    Keys = {k1, k2}
    Values = {v1, v2}
    Absent = Absent
    Policies <- MCPolicies
    MaxKeys = 2
    FeatureIds = {0, 1, 7, 8, 13, 16, 63}
    MaxExcess = 9
    fa = fa  fb = fb  fc = fc
    NotFound = NotFound
    Sizes <- ShortPackets
    Payload <- ShortPayload
    MaxChunk = 12
INVARIANTS
    ConnectionHonest  InOneTransaction CursorFaithful CursorReleased
    PacketsIntact PolicyArrives ValuesSurvive TypeIdAgrees FieldsFound FeaturesKept ConfigurationSurvives
PROPERTY
    OperationsMean
CHECK_DEADLOCK FALSE
