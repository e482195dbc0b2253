---------------------------- MODULE MCPolicyLoader ----------------------------
(* Small instances of PolicyLoader for TLC. *)
EXTENDS PolicyLoader, TLC

CONSTANTS o1, o2, i1, orgUser, orgDefault, globalDefault

Chain == <<orgUser, orgDefault, globalDefault>>
ShortChain == <<orgUser, globalDefault>>
===============================================================================
