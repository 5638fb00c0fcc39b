-------------------------- MODULE MCWireguardEngine --------------------------
(***************************************************************************)
(* Small instances of WireguardEngine: two interface names, two addresses, *)
(* two peers, artifacts of at most two interfaces.                         *)
(***************************************************************************)
EXTENDS WireguardEngine

CONSTANTS wg0, wg1, a1, a2, k1, k2

MCNames == {wg0, wg1}
MCAddresses == {a1, a2}
MCPeers == {k1, k2}
Other == {wg1}

Block(n) == [name : {n}, address : MCAddresses, peers : SUBSET MCPeers]

MCConfigs ==
    {<<>>} \cup {<<b>> : b \in Block(wg0) \cup Block(wg1)}
    \cup {<<b, c>> : b \in {x \in Block(wg0) : x.address = a1},
                     c \in {x \in Block(wg1) : x.address = a2}}
=============================================================================
