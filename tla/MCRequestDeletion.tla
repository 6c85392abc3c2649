------------------------- MODULE MCRequestDeletion --------------------------
\* Requests of one name for TLC: the same spec twice, then another one.
EXTENDS RequestDeletion

\* The first spec keeps its models in the image, the second apart.
SeparateSpecs == {2}

TwiceThenOther == <<2, 2, 1>>
=============================================================================
