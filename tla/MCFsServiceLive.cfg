CONSTANTS
    a = a
    b = b
    c1 = c1
    c2 = c2
    c3 = c3
    Clients <- MCClients
    CapIds <- MCCapIdsLive
    Tokens <- MCTokensRefine
    Paths <- MCPaths
    Cwd <- MCCwd
    NoToken = NoToken
    NoClaims = NoClaims
    None = None
    MaxHandles = 1
    MaxRestarts = 1
SPECIFICATION Spec
PROPERTIES
    AccessRefinesAtomic
    RequestsComplete
