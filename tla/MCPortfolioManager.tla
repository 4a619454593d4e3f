------------------------- MODULE MCPortfolioManager -------------------------
(* Instances of PortfolioManager for TLC.                                  *)
EXTENDS PortfolioManager, TLC

CONSTANTS a, b, c, tech, food

Sym == Permutations(Stocks) \cup Permutations(Sectors)
=============================================================================
