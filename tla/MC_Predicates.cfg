\* One build_predicates call: a query file of each kind, each kind of
\* response dict, and captures of up to two records over every framing of
\* the table, for bind9 of unit 1 and for a name the prefix table lacks.
CONSTANTS
    Packets <- BasePackets
    MaxFrames = 2
    LinkTypes = {1, 113, 276, 101}
    ResolverNames = {"bind9", "other"}
    UnitNo = 1
    None = None
    QueryFiles <- MCQueryFiles
    Responses <- MCResponses
SPECIFICATION PSpec
INVARIANT TypeOK
INVARIANT UdpQueriesCounted
INVARIANT RolesClassified
INVARIANT RdZeroForwarded
