CONSTANTS
    s1 = s1
    s2 = s2
    Stacks = {s1, s2}
    Arch = {x86_64}
    IPs = {ip1}
    NameContains <- MCNestedNames
    Configs <- MCRemoteConfigs
    NoConfig = NoConfig
    NoOutput = NoOutput
    Corrupt = Corrupt

SPECIFICATION Spec

PROPERTY RemovesOwnPulumiStackOnly
