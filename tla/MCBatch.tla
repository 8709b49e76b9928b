----------------------------- MODULE MCBatch -----------------------------
EXTENDS Batch
CONSTANT w
Block(kind) == [kind |-> kind, norun |-> FALSE, when |-> "always", garbled |-> FALSE, tolerant |-> FALSE, lines |-> << >>]
Line(about, op, value) == [about |-> about, op |-> op, value |-> value]
Expect(lines) == [Block("expect") EXCEPT !.lines = lines]
Exit0 == Line("exit", "exit", 0)
Exit1 == Line("exit", "exit !=", 0)
Has == Line("stdout", "contains", w)
Quiet == Line("stderr", "empty", w)
Bad == Line("stdout", "malformed", w)
Code == Block("code")
Slice == Block("browser")
Hidden == [Code EXCEPT !.norun = TRUE]
Dependent == [Code EXCEPT !.when = "output"]
Garbled == [Code EXCEPT !.garbled = TRUE]
Tolerant == [Garbled EXCEPT !.tolerant = TRUE]
BadVerb == [Slice EXCEPT !.garbled = TRUE]
Texts == {<<Code, Expect(<<Exit0, Has>>)>>, <<Hidden, Code, Code, Expect(<<Exit1>>)>>, <<Dependent, Expect(<<Quiet>>), Garbled>>,
    <<BadVerb, Slice, Expect(<<Exit0>>)>>, <<Block("wait"), Code, Expect(<<Exit0>>)>>,
    <<Expect(<<Has>>), Tolerant, Expect(<<Bad, Exit0>>), Expect(<<Has>>)>>,
    <<Code, Slice, Expect(<<Line("stdout", "equals", w), Line("stderr", "not-contains", w), Line("stdout", "not-empty", w)>>)>>, <<Block("text")>>}
Book1(b, t) == [before |-> b, sections |-> t]
Books == {Book1("nothing", t) : t \in Texts} \union
    {Book1(b, <<Code, Expect(<<Exit1>>), Code, Expect(<<Exit0>>)>>) : b \in {"read", "includes", "params", "sandbox", "image", "env-file", "setup"}}
AllJobs == {[command |-> c, bail |-> b, files |-> fs] : c \in {"folder", "test", "verify"}, b \in BOOLEAN,
   fs \in {<< >>} \union {<<x>> : x \in Books} \union {<<x, y>> : x \in {Book1("nothing", t) : t \in Texts}, y \in {Book1("nothing", <<Code, Expect(<<Exit0>>)>>), Book1("setup", <<Code, Expect(<<Exit1>>)>>), Book1("sandbox", <<Code>>)}}}
=============================================================================
