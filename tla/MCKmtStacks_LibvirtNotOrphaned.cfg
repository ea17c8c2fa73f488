\* One stack whose vmconfig is rewritten between its launch and its force
\* destroy.
CONSTANTS
    s1 = s1
    s2 = s2
    Stacks = {s1}
    Arch = {x86_64, arm64}
    IPs = {ip1, ip2}
    NameContains <- MCDistinctNames
    Configs <- MCAllConfigs
    NoConfig = NoConfig
    NoOutput = NoOutput
    Corrupt = Corrupt

SPECIFICATION Spec

INVARIANT LibvirtNotOrphaned

