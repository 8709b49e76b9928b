----------------------------- MODULE MCSandbox -----------------------------
EXTENDS Sandbox
Spec == SandboxInit /\ [][SandboxNext]_sandboxVars

Req(kind) == [sandbox |-> kind, apt |-> {}, pip |-> {}, npm |-> {}, dockerfile |-> kind = "custom"]
Reqs == {NoRequires, [Req("node") EXCEPT !.npm = {"x"}], Req("node"),
         [Req("python") EXCEPT !.apt = {"bad"}], Req("other")}
\* Nothing, two images that differ in one package, a bad package, an unknown kind, a Dockerfile.
Books == [dir : {"a"}, requires : Reqs \union {Req("custom")}]
AllJobs == {[command |-> "run", books |-> <<b>>] : b \in Books} \union
    {[command |-> "build", books |-> bs] :
        bs \in {<< >>, <<[dir |-> "a", requires |-> NoRequires], [dir |-> "b", requires |-> Req("custom")]>>,
                <<[dir |-> "a", requires |-> [Req("python") EXCEPT !.apt = {"bad"}]],
                  [dir |-> "a", requires |-> Req("node")]>>}}
=============================================================================
