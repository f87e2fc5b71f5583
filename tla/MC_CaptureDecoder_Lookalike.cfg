\* One frame under Ethernet framing for bind9 of unit 1, including a query
\* from the resolver to 172.220.1.1, outside 172.22.0.0/16.
CONSTANTS
    Packets <- LookalikePackets
    MaxFrames = 1
    LinkTypes = {1}
    ResolverNames = {"bind9"}
    UnitNo = 1
    None = None
SPECIFICATION Spec
INVARIANT RolesClassified
