------------------------------ MODULE Validate ------------------------------
(***************************************************************************)
(* wb validate (src/src/validate.rs), on the workbook and the settings     *)
(* that sessions (Steps) start from.  It runs nothing, and re-implements   *)
(* what a run looks up, on the workbook before its includes are spliced    *)
(* in; of the frontmatter, input.schema says what the YAML parser says     *)
(* ("ok", "unknown key", or "garbled", when the settings are the default). *)
(***************************************************************************)
EXTENDS Steps

Error(code) == [severity |-> "error", code |-> code]
Warning(code) == [severity |-> "warning", code |-> code]

\* The diagnostic d if there is an offender.
Report(d, offenders) == IF offenders = {} THEN {} ELSE {d}

Own(t) == Parse(t[Root])

CheckFrontmatter(in) ==
  Report(Error("wb-yaml-001"), {in.schema} \cap {"garbled"})
    \cup Report(Error("wb-fm-001"), {in.schema} \cap {"unknown key"})

(* Durations that do not parse, and block numbers beyond the last block of *)
(* the file, unless it has none.                                           *)
BlockNumbers(in) == DOMAIN in.timeouts \cup DOMAIN in.retries \cup in.tolerant
Durations(in) == ({in.default} \ {None}) \cup {in.timeouts[k] : k \in DOMAIN in.timeouts}
CheckPolicies(in, own) ==
  LET blocks == {k \in DOMAIN own : Executable(own[k])}
  IN  Report(Error("wb-fm-003"), {d \in Durations(in) : Seconds(d) = None})
        \cup Report(Warning("wb-fm-006"),
                    {k \in BlockNumbers(in) : blocks # {} /\ k > Cardinality(blocks)})

(* The targets the file names itself, then everything resolve_includes     *)
(* finds.                                                                  *)
CheckIncludes(t, in, own) ==
  LET named == {Target(s) : s \in {x \in ToSet(Required(in) \o own) : x.kind = "include"}}
  IN  Report(Error("wb-inc-001"), {g \in named \ {None} : IF g \in Files THEN t[g] = Absent ELSE TRUE})
        \cup Report(Error("wb-inc-002"), {Resolved(t, in).ok} \cap {FALSE})

KnownProviders == {"env", "doppler", "yard", "command", "cmd", "dotenv", "file", "prompt"}
CheckSecrets(in) == Report(Error("wb-secret-001"), in.secrets \ KnownProviders)

(* The blocks and waits of the file that carry the id.                     *)
NodesNamed(own, id) ==
  {k \in DOMAIN own : own[k].info.id = id /\ (Executable(own[k]) \/ own[k].kind = "wait")}

KnownIds(own) == {id \in {own[k].info.id : k \in DOMAIN own} \ {None} : NodesNamed(own, id) # {}}

(* What resolve_step_policies notes: attributes that win over an entry.    *)
Shadowed(plan, in) ==
  {k \in DOMAIN plan :
     \/ Seconds(plan[k].info.timeout) # None /\ Entry(in.timeouts, k) # None
     \/ plan[k].info.retries \notin {None, Garbled} /\ Entry(in.retries, k) # None
     \/ plan[k].info.tolerant # None /\ k \in in.tolerant}

CheckStepIds(in, own) ==
  Report(Error("wb-step-001"), {id \in KnownIds(own) : Cardinality(NodesNamed(own, id)) > 1})
    \cup Report(Warning("wb-step-002"), Shadowed(BuildSteps(own), in))

(* Workflow nodes: their shape, and the step or wait each is about.        *)
CheckNodes(in, own) ==
  LET mapped == {id \in DOMAIN in.nodes : in.nodes[id].map}
  IN  Report(Error("wb-workflow-002"), DOMAIN in.nodes \ mapped)
        \cup Report(Warning("wb-workflow-003"), {id \in mapped : ~in.nodes[id].primitive})
        \cup Report(Warning("wb-workflow-001"), mapped \ KnownIds(own))

CheckAttrs(own) ==
  Report(Warning("wb-attr-001"), {k \in DOMAIN own : Executable(own[k]) /\ own[k].info.unknown})

CheckExpects(own) ==
  Report(Error("wb-expect-001"),
         {k \in DOMAIN own : own[k].kind = "expect" /\ "garbled" \in ToSet(own[k].body)})

\* Mutant: the choices are not looked at.
ValueFails_TypeOnly(def, v) ==
  \/ def.type = "int" /\ v \notin Ints
  \/ def.type = "bool" /\ v \notin {"true", "false", "1", "0", "yes", "no", "on", "off"}

(* check_param_value: the choices, then the type.                          *)
ValueFails(def, v) ==
  \/ def.one_of # {} /\ v \notin def.one_of
  \/ def.type = "int" /\ v \notin Ints
  \/ def.type = "bool" /\ v \notin {"true", "false", "1", "0", "yes", "no", "on", "off"}

KnownTypes == {"string", "int", "bool", "enum"}
CheckParams(in) ==
  LET def == in.param
  IN  IF ~def.declared THEN Report(Warning("wb-param-002"), in.profiles)
      ELSE Report(Error("wb-param-001"),
                  ({def.type} \ KnownTypes) \cup {v \in {def.default} \ {None} : ValueFails(def, v)})
             \cup Report(Warning("wb-param-001"),
                         IF def.one_of = {} THEN {def.type} \cap {"enum"} ELSE {})
             \cup Report(Error("wb-param-002"), {v \in in.profiles : ValueFails(def, v)})

Diagnostics(t, in) ==
  LET own == Own(t)
  IN  CheckFrontmatter(in) \cup CheckPolicies(in, own) \cup CheckIncludes(t, in, own)
        \cup CheckSecrets(in) \cup CheckStepIds(in, own) \cup CheckNodes(in, own)
        \cup CheckAttrs(own) \cup CheckParams(in) \cup CheckExpects(own)

(* exit_code_for; --strict counts warnings as errors.                      *)
Accepts(t, in, strict) ==
  \A d \in Diagnostics(t, in) : d.severity = "warning" /\ ~strict

(* The callbacks of a block carry the workflow node of its id, if any.     *)
NodeOf(in, id) == DOMAIN in.nodes \cap {id}

-----------------------------------------------------------------------------
(* A workbook that wb validate accepts is not refused by wb run for what   *)
(* validate looked at: its includes resolve, its providers are known, the  *)
(* value a default or any of its profiles gives a parameter is taken, and  *)
(* an id names one step or wait of the file.                               *)
WithProfile(v) ==
  [input EXCEPT !.cli = [param |-> None, file |-> None, profile |-> v], !.provider = None]
AcceptedRuns ==
  ~wb.on /\ Accepts(text, input, FALSE) =>
    /\ Resolved(text, input).ok
    /\ SecretsResolve(WithProfile(None))
    /\ \A v \in (input.profiles \cup {input.param.default}) \ {None} :
          Param(WithProfile(v)) # "invalid"
    /\ LET own == Own(text)
           Stepped == {k \in DOMAIN own : own[k].info.id # None /\ own[k].kind \in {"code", "browser", "wait"}}
       IN  \A k, j \in Stepped : own[k].info.id = own[j].info.id => k = j

(* And under --strict, every setting about a block is about one, it is in  *)
(* force (with includes the numbers count other blocks in a run), and      *)
(* every workflow node goes out with the callbacks of a step or a wait.                                                      *)
StrictIsInForce ==
  ~wb.on /\ Accepts(text, input, TRUE) /\ (\E s \in ToSet(Own(text)) : Executable(s)) =>
    LET plan == Plan(text, input)
        own == Own(text)
        including == input.required # <<>> \/ (\E s \in ToSet(own) : s.kind = "include")
    IN  /\ BlockNumbers(input) \subseteq DOMAIN plan
        /\ ~including =>
             \A k \in DOMAIN input.timeouts : Policy(plan, input, k).timeout = Seconds(input.timeouts[k])
        /\ \A id \in DOMAIN input.nodes :
             \E s \in ToSet(own) : NodeOf(input, s.info.id) = {id}
=============================================================================
