CONSTANTS
    s1 = s1
    s2 = s2
    Stacks = {s1}
    Arch = {x86_64}
    IPs = {ip1}
    NameContains <- MCDistinctNames
    Configs <- MCRemoteConfigs
    NoConfig = NoConfig
    NoOutput = NoOutput
    Corrupt = Corrupt

SPECIFICATION Spec

INVARIANT NoSilentInstanceLeak
