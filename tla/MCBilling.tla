------------------------------ MODULE MCBilling ------------------------------
EXTENDS Billing

\* Tiers as models.dev lists them: restating input and output, omitting the cache rates.
Tier(size, in, out) ==
    [input |-> in, output |-> out, cacheRead |-> 0, cacheWrite |-> 0,
     type |-> "context", size |-> size]

\* One rate for each kind; two context tiers and one of another kind; nothing but input
\* and output.
MCPrices ==
    {[input |-> 3, output |-> 15, cacheRead |-> 1, cacheWrite |-> 4, tiers |-> {}],
     [input |-> 3, output |-> 15, cacheRead |-> 1, cacheWrite |-> 4,
      tiers |-> {Tier(1, 5, 0), Tier(2, 7, 20), [Tier(0, 50, 50) EXCEPT !.type = "other"]}],
     [input |-> 2, output |-> 10, cacheRead |-> 0, cacheWrite |-> 0,
      tiers |-> {Tier(1, 4, 12)}]}
=============================================================================
