------------------------------ MODULE MCGates ------------------------------
EXTENDS Gates

\* No gate, each gate alone, and the two ways to pin a run together.
Started == {Ungated, [Ungated EXCEPT !.trust = TRUE], [Ungated EXCEPT !.locked = TRUE, !.allow = TRUE],
            [Ungated EXCEPT !.sig = TRUE, !.pinned = TRUE]}
=============================================================================
