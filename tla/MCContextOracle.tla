--------------------------- MODULE MCContextOracle ---------------------------
(* Small instance of ContextOracle: the seeded goal anchor, two tool results *)
(* and one summary, in a window of 10 tokens (safe boundary 8): three live   *)
(* entries overflow it.  Result a is small and may come without a source;    *)
(* result b is large and may come with a source too long for the near tier.  *)
(* The goal mentions a twice (enough for a promotion) or not at all.         *)
EXTENDS ContextOracle, TLC

CONSTANTS goal, a, b, c1

MCIds == {goal, a, b}
MCSeeds == {goal}
MCCompIds == {c1}
MCSizes == {4}
Offer(tier, n, pinned, source) == [item |-> Fresh(tier, n, pinned), source |-> source]
MCOffers ==
  (goal :> {}) @@
  (a :> {Offer("near", 4, FALSE, "ok"), Offer("near", 4, FALSE, "blank")}) @@
  (b :> {Offer("near", 6, FALSE, "ok"),
         Offer("near", 4, FALSE, "oversized")})

MCGoals == {[id \in AllIds |-> IF id = a THEN n ELSE 0] : n \in {0, 2}}
MCMentions == {{}, {b}}
MCKeyworded == {a}
MCNoKeywords == {}
=============================================================================
