------------------------------ MODULE MCPricing ------------------------------
EXTENDS Pricing, TLC

Symmetry == Permutations(Api) \cup Permutations(Collector)
=============================================================================
