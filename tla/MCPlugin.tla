------------------------------- MODULE MCPlugin -------------------------------
\* A small instance of Plugin: c and d depend on b, b and c on a; the plugins m
\* and n share a file, and n depends on c.
EXTENDS PluginInvariant

CONSTANTS a, b, c, d, m, n

MCPlugins == {a, b, c, d, m, n}
MCContents == [f \in {a, b, c, d, m} |-> IF f = m THEN <<m, n>> ELSE <<f>>]
MCDepends == [p \in MCPlugins |-> CASE p \in {a, m} -> << >>
                                    [] p = b -> <<a>>
                                    [] p = c -> <<a, b>>
                                    [] p = d -> <<b>>
                                    [] p = n -> <<c>>]
===============================================================================
