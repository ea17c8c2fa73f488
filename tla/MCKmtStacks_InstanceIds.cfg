\* Two stacks sharing one arch and two private IPs: instances expire and
\* their IPs pass from one stack to the other while stack.output is stale.
CONSTANTS
    s1 = s1
    s2 = s2
    Stacks = {s1, s2}
    Arch = {x86_64}
    IPs = {ip1, ip2}
    NameContains <- MCDistinctNames
    Configs <- MCRemoteConfigs
    NoConfig = NoConfig
    NoOutput = NoOutput
    Corrupt = Corrupt

SPECIFICATION Spec

INVARIANT InstanceIdsWithinArchBound
