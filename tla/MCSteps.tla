----------------------------- MODULE MCSteps -----------------------------
EXTENDS Validate
Spec == StepsInit /\ [][StepsNext]_vars

\* Lines: blocks with an id, a tag, a condition, ...; includes; documentation.
Info(lang) == [NoInfo EXCEPT !.lang = lang]
Fence(info, v) == <<Open(info), Body(v), Close>>
A == Fence([Info("bash") EXCEPT !.id = "a", !.tags = {"t"}], "x")
B == Fence([Info("python") EXCEPT !.when = [attr |-> "when", op |-> "set", value |-> None, negated |-> FALSE],
            !.retries = 2], "y")
C == Fence([Info("bash") EXCEPT !.tolerant = "true", !.timeout = [n |-> 2, unit |-> "m"]], "x")
D == Fence([Info("bash") EXCEPT !.id = "d"], "w")
E == Fence([Info("bash") EXCEPT !.norun = TRUE], "n")
F == Fence([Info("browser") EXCEPT !.id = "f", !.retries = Garbled,
            !.when = [attr |-> "skip_if", op |-> "=", value |-> "no", negated |-> FALSE]], "s")
M == Fence([Info("bash") EXCEPT !.when = [attr |-> "when", op |-> "malformed", value |-> None, negated |-> FALSE]], "m")
Doc == <<Open(Info("yaml")), Open(Info("bash")), Body("z"), Close, Close>>
W == Fence(Info("wait"), "sig")
Inc(f) == Fence(Info("include"), f)
Unclosed == <<Open(Info("bash")), Body("u")>>

Env0 == [process |-> None, workbook |-> None, secrets |-> None, files |-> None, vars |-> None, cli |-> None]
Param0 == [declared |-> FALSE, default |-> None, type |-> "string", one_of |-> {}, required |-> FALSE]
Cli0 == [param |-> None, file |-> None, profile |-> None]
Base == [text |-> [f \in Files |-> Absent], required |-> <<>>, base |-> Absent, env |-> Env0,
         param |-> Param0, cli |-> Cli0, timeouts |-> <<>>, retries |-> <<>>, tolerant |-> {},
         schema |-> "ok", default |-> None, profiles |-> {}, secrets |-> {}, provider |-> None,
         nodes |-> <<>>, selections |-> {NoSelection}, edits |-> {}]

Write(t, f, s) == [t EXCEPT ![f] = s]
RootText(s) == [Base EXCEPT !.text[Root] = s]

\* Includes: what each of the three files includes.
Shapes == {Absent, A, Inc("r"), Inc("l") \o C, A \o Inc("k"), Inc("l") \o Inc("l"), Inc("k") \o Inc("l") \o B, <<Open(Info("include")), Close>>}
Including == {[Base EXCEPT !.text = [f \in Files |-> IF f = Root THEN s ELSE IF f = "l" THEN t ELSE u], !.required = q] :
               s \in Shapes \ {Absent}, t \in Shapes, u \in {Absent, A, D, Inc("l"), Inc("r")}, q \in {<<>>, <<"k">>}}

\* Selections over a workbook that a commit has without its first block.  --only goes with
\* no other flag.
Sel(o, f, u, t, c) == [only |-> o, from |-> f, until |-> u, tags |-> t, changed |-> c]
Selecting == {[RootText(A \o B \o D \o E) EXCEPT !.base = b, !.tolerant = {1, 2}, !.retries = <<1, 1>>,
                  !.selections = {NoSelection, s}] :
               b \in {Absent, B \o D \o Inc("l")},
               s \in {Sel("d", None, None, {}, FALSE), Sel("gone", None, None, {}, FALSE)} \cup
                      {Sel(None, f, u, t, c) : f \in {None, "a", "d"}, u \in {None, "a", "d", "gone"},
                         t \in {{}, {"t"}, {"no"}}, c \in BOOLEAN}}

\* Where the condition's variable gets its value from.
Vals == {None, "1", "no"}
Settings == {[RootText(Doc \o B \o F \o M \o W \o Unclosed) EXCEPT !.env = [Env0 EXCEPT ![a] = v, ![b] = w],
                 !.param = p, !.profiles = {"no"}, !.cli = c] :
               a \in DOMAIN Env0, b \in DOMAIN Env0, v \in Vals, w \in Vals,
               p \in {Param0, [Param0 EXCEPT !.declared = TRUE],
                      [Param0 EXCEPT !.declared = TRUE, !.default = "yes", !.type = "bool", !.one_of = {"yes", "no"}]},
               c \in {Cli0, [Cli0 EXCEPT !.file = "no"], [Cli0 EXCEPT !.param = "yes", !.profile = "no"]}}

\* Workbooks that are edited between sessions.
Rewritten == {A \o B \o D, D \o A \o B \o C, B \o D, A \o D, C \o C \o D \o A, A \o B \o F \o D}
EditedWith == Rewritten \cup {Inc("l") \o A, A \o Inc("l"), F \o D \o C \o A}
Edited == {[Base EXCEPT !.text = [f \in Files |-> IF f = Root THEN s ELSE IF f = "l" THEN C \o D ELSE Absent],
              !.env.cli = v, !.edits = EditedWith] : s \in Rewritten \cup {Inc("l") \o A, A \o Inc("l") \o B}, v \in {None, "1", "no"}}
\* A file that is included twice.
Twice == {Inc("l") \o Inc("l"), Inc("l") \o A \o Inc("l"), A \o Inc("l"), Inc("l") \o D}
EditedTwice == {[Base EXCEPT !.text = [f \in Files |-> IF f = Root THEN s ELSE IF f = "l" THEN C ELSE Absent],
                   !.edits = Twice] : s \in Twice}

\* What wb validate looks at.
WaitA == Fence([Info("wait") EXCEPT !.id = "a"], "sig")
Typo == Fence([Info("bash") EXCEPT !.unknown = TRUE], "t")
Expect(v) == Fence(Info("expect"), v)
Node(map, primitive) == [map |-> map, primitive |-> primitive]
Texts == {A, A \o B, A \o D \o A, A \o WaitA, Typo \o WaitA, A \o Expect("exit 0"), A \o Expect("garbled"), W}
Checked == {[RootText(s) EXCEPT !.schema = k, !.secrets = p, !.provider = o] :
              s \in Texts, k \in {"ok", "unknown key"}, p \in {{}, {"env"}, {"env", "vault"}}, o \in {None, "env", "vault"}}
Typed == {[RootText(A) EXCEPT !.profiles = p, !.cli.profile = c,
             !.param = [declared |-> d, default |-> v, type |-> t, one_of |-> o, required |-> r]] :
            p \in {{}, {"1"}, {"no", "yes"}}, c \in {None, "1", "no"}, d \in BOOLEAN, v \in {None, "1", "yes"},
            t \in {"string", "int", "bool", "enum", "float"}, o \in {{}, {"yes"}}, r \in BOOLEAN}
Numbered == {[RootText(s) EXCEPT !.timeouts = t, !.retries = r, !.tolerant = c, !.nodes = n] :
               s \in {A \o B, C \o F, W, Inc("l")}, t \in {<<>>, <<[n |-> 1, unit |-> "s"]>>, <<[n |-> 1, unit |-> "x"]>>},
               r \in {<<>>, <<1, 1>>, <<1, 1, 1>>}, c \in {{}, {1}, {3}},
               n \in {<<>>, [a |-> Node(TRUE, TRUE)], [a |-> Node(TRUE, FALSE)], [a |-> Node(FALSE, FALSE)]}}
Validating == Checked \cup {in \in Typed : in.cli.profile \in in.profiles \cup {None}} \cup Numbered
                \cup {[RootText(A) EXCEPT !.schema = "garbled"]}

All == Validating \cup Including \cup Selecting \cup Settings \cup Edited \cup EditedTwice
Fs == {"r", "l", "k"}
=============================================================================
