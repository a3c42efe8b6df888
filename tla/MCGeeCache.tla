----------------------------- MODULE MCGeeCache -----------------------------
EXTENDS GeeCache, TLC
CONSTANTS n1, n2, sp, plus
MCKeys == {sp, plus}
\* A node with both in its list gives sp to n1 and plus to n2; the other has
\* heard of n1 only.  No two points have one hash, so the order is the same.
MCPeerLists == {<<n1, n2>>, <<n2, n1>>, <<n1>>}
MCHash == <<0, n1>> :> 2 @@ <<1, n1>> :> 5 @@ <<0, n2>> :> 3 @@ <<1, n2>> :> 7
          @@ sp :> 1 @@ plus :> 6
\* "a b" is escaped as "a+b" and a path keeps the plus; "a+b" comes back.
MCWire == sp :> plus @@ plus :> plus
ClientSymmetry == Permutations(Clients) \cup Permutations(Handlers)
=============================================================================
