------------------------------ MODULE MCBlocks ------------------------------
EXTENDS Blocks

Plain == [emits |-> FALSE, cond |-> "none", refers |-> FALSE, writes |-> FALSE,
          reads |-> FALSE, no_cache |-> FALSE, tolerant |-> FALSE]

\* A producer of both the output and the artifact, a block that is
\* skipped if the output is set, and one, never cached, that
\* reads the artifact.
Pipeline == << [Plain EXCEPT !.emits = TRUE, !.writes = TRUE],
               [Plain EXCEPT !.cond = "skip_if"],
               [Plain EXCEPT !.reads = TRUE, !.no_cache = TRUE, !.tolerant = TRUE] >>

\* Without any flag, and with --bail and --repair together: the endpoint may also
\* give up at once, or forgive.
Started == {NoFlags} \cup {m \in Modes : m.repair /\ m.bail}
=============================================================================
