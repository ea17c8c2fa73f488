---------------------------- MODULE MCKmtStacks ----------------------------
(***************************************************************************)
(* Model-checking instance of KmtStacks.  The stacks, arches and private  *)
(* IPs are model values given in each cfg; with two stacks and one IP the *)
(* two stacks hold the same IP one after the other.                       *)
(***************************************************************************)
EXTENDS KmtStacks, TLC

CONSTANTS s1, s2

\* Names where neither is a substring of the other ("a-ddvm", "b-ddvm").
MCDistinctNames == {<<s, s>> : s \in Stacks}

\* s1's name is a substring of s2's ("main-ddvm", "fix-main-ddvm").
MCNestedNames == MCDistinctNames \cup {<<s1, s2>>}

\* Every vmconfig gen-config may write.
MCAllConfigs == Config

\* Only remote VMs, every vmset naming its arch.
MCRemoteConfigs == {c \in Config : ~c.local /\ ~c.archless}
=============================================================================
