-------------------------- MODULE MCCostPartition --------------------------
\* Two versions of a connector's period, of which the second restates one line and
\* has another in the place of the other, in another aggregate; and the lines of a
\* second connector, which share that aggregate.
EXTENDS CostPartition, TLC

CONSTANTS i1, i2, i3, i4, g1, g2

Line(i, c) == [key |-> i, value |-> c]

Fetches == {{Line(i1, 1), Line(i2, 1)}, {Line(i1, 2), Line(i3, 1)}, {Line(i4, 1)}}

Scopes == (i1 :> g1) @@ (i2 :> g1) @@ (i3 :> g2) @@ (i4 :> g2)
=============================================================================
