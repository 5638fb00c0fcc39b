--------------------------- MODULE MCIntelUpdater ---------------------------
(***************************************************************************)
(* Small instances of IntelUpdater: the policies p0 (empty), p1 and p2     *)
(* enable no feed, feed f1, and feeds f1 and f2.                           *)
(***************************************************************************)
EXTENDS IntelUpdater

CONSTANTS p0, p1, p2, f1, f2

MCPolicies == {p0, p1, p2}

MCFeeds == {f1, f2}

MCFeedsOf ==
    [p \in Policies |->
        CASE p = p0 -> {} [] p = p1 -> {f1} [] p = p2 -> {f1, f2}]

NftOnly == {1}
NoEngines == {}
=============================================================================
