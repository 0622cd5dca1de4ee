------------------------------ MODULE MCLayout ------------------------------
EXTENDS Layout, TLC

\* A layout without a resize callback, and one that only resizes.
MCSpecs == {{"recalculate", "layout-msg"}, {"resize"}}

Symmetry == Permutations(Windows) \cup Permutations(Spaces)
=============================================================================
