------------------------------- MODULE Steps -------------------------------
(***************************************************************************)
(* From the text of a workbook to the steps a session runs, over the edits *)
(* that are made between sessions: the parser and resolve_includes, step   *)
(* ids and policies (step_ir.rs), parameters (params.rs), selection, the   *)
(* environment that conditions see, and where wb run goes on after the     *)
(* workbook changed (resolve_resume_position).                             *)
(*                                                                         *)
(* What a session does at a section is RunLoop's; here a session passes    *)
(* its blocks in order, saves the checkpoint after each, and may end       *)
(* between any two (a pause, --bail, a kill).                              *)
(***************************************************************************)
EXTENDS Integers, FiniteSets, SequencesExt

CONSTANTS
  Files,     \* the workbook and the files it may include
  Root,      \* the workbook
  Inputs,    \* what sessions start from: texts, edits of them, flags, settings
  MaxEdits,  \* bound: edits
  Word,      \* the number of u64 values
  None       \* no value

(* A text is a sequence of lines: fences that open with an info string,    *)
(* fences that close, and other lines with their content.                  *)
NoInfo == [lang |-> None, id |-> None, tags |-> {}, norun |-> FALSE, when |-> None,
           timeout |-> None, retries |-> None, tolerant |-> None, unknown |-> FALSE]
Open(info) == [t |-> "open", info |-> info, v |-> None]
Body(v) == [t |-> "body", info |-> NoInfo, v |-> v]
Close == [t |-> "close", info |-> NoInfo, v |-> None]

Absent == <<None>>   \* a file that does not exist

(* The workbook is there, texts are sequences of lines, block numbers count*)
(* from 1, and the mark of a bad value is no value.                        *)
Ordered(s) == s \in Seq(ToSet(s))
Written(lines) == Ordered(lines) /\ lines # Absent
StepsAssumption ==
  /\ Root \in Files /\ IsFiniteSet(Files) /\ None # "invalid"
  /\ \A in \in Inputs :
       /\ DOMAIN in.text = Files /\ Written(in.text[Root]) /\ Ordered(in.required)
       /\ \A f \in Files : Ordered(in.text[f])
       /\ \A lines \in in.edits : Written(lines)
       /\ DOMAIN in.timeouts \cup DOMAIN in.retries \cup in.tolerant \subseteq Nat \ {0}
       /\ \A k \in DOMAIN in.timeouts : in.timeouts[k] # None
       /\ "invalid" \notin in.profiles \cup {in.param.default}

VARIABLES
  input,   \* the input of this behaviour
  text,    \* text[f]: the lines of file f
  ckpt,    \* <stem>.json, the checkpoint every command on Root shares
  wb,      \* the running session, see Idle
  edits,   \* edits made
  passed   \* history: when ckpt was last saved, the plan and the step that was next

vars == <<input, text, ckpt, wb, edits, passed>>

-----------------------------------------------------------------------------
(* extract_sections.  A fence runs to the next closing line or to the end; *)
(* a fence of a language that is no runtime is documentation.              *)
Runtimes == {"bash", "python"}
Kind(lang) ==
  IF lang \in Runtimes THEN "code"
  ELSE IF lang \in {"browser", "wait", "include", "expect"} THEN lang ELSE "text"

ClosingLine(doc, i) ==
  LET ends == {j \in (i+1)..Len(doc) : doc[j].t = "close"}
  IN  IF ends = {} THEN Len(doc) + 1 ELSE CHOOSE j \in ends : \A k \in ends : j <= k

Section(doc, i) ==
  [kind |-> Kind(doc[i].info.lang), info |-> doc[i].info,
   body |-> [k \in 1..(ClosingLine(doc, i) - i - 1) |-> doc[i+k].v]]

(* Texts between fences decide nothing and are dropped here.               *)
Parse(doc) ==
  LET from[i \in 1..(Len(doc) + 2)] ==
        IF i > Len(doc) THEN <<>>
        ELSE IF doc[i].t # "open" THEN from[i+1]
        ELSE IF Kind(doc[i].info.lang) = "text" THEN from[ClosingLine(doc, i) + 1]
        ELSE <<Section(doc, i)>> \o from[ClosingLine(doc, i) + 1]
  IN  from[1]

(* resolve_sections.  Sentinel sections open and close the frame of a file;*)
(* `ok` says whether everything was found.                                 *)
Enter(f) == [kind |-> "enter", file |-> f]
Exit(f) == [kind |-> "exit", file |-> f]

Target(s) == IF s.body = <<>> THEN None ELSE s.body[1]

\* What file f says, `required` files first in the workbook.
Sections(t, required, f) == (IF f = Root THEN required ELSE <<>>) \o Parse(t[f])

Failed == [ok |-> FALSE, sections |-> <<>>]
Single(s) == [ok |-> TRUE, sections |-> <<s>>]
Framed(g, inner) ==
  [ok |-> inner.ok, sections |-> <<Enter(g)>> \o inner.sections \o <<Exit(g)>>]
Joined(parts) ==
  [ok |-> \A k \in DOMAIN parts : parts[k].ok,
   sections |-> FlattenSeq([k \in DOMAIN parts |-> parts[k].sections])]

\* Mutant: a file is never taken out of the set being resolved.
Splice_OncePerFile(t, required) ==
  LET resolve[visiting \in SUBSET Files] ==
        [f \in Files |->
           LET sections == Sections(t, required, f)
               Repeated(k) == \E j \in 1..(k-1) :
                                 sections[j].kind = "include" /\ Target(sections[j]) = Target(sections[k])
               Spliced(k) ==
                 IF sections[k].kind # "include" THEN Single(sections[k])
                 ELSE IF Target(sections[k]) \notin Files \ visiting \/ Repeated(k) THEN Failed
                 ELSE IF t[Target(sections[k])] = Absent THEN Failed
                 ELSE Framed(Target(sections[k]),
                             resolve[visiting \cup {Target(sections[k])}][Target(sections[k])])
           IN  Joined([k \in DOMAIN sections |-> Spliced(k)])]
  IN  resolve[{Root}][Root]

\* A section of a file, with `visiting` the files that are being resolved.
Part(t, visiting, resolve, s) ==
  LET g == Target(s)
  IN  IF s.kind # "include" THEN Single(s)
      ELSE IF g \notin Files \ visiting THEN Failed
      ELSE IF t[g] = Absent THEN Failed
      ELSE Framed(g, resolve[visiting \cup {g}][g])

Splice(t, required) ==
  LET resolve[visiting \in SUBSET Files] ==
        [f \in Files |->
           LET sections == Sections(t, required, f)
           IN  Joined([k \in DOMAIN sections |-> Part(t, visiting, resolve, sections[k])])]
  IN  resolve[{Root}][Root]

(* `required:` files come before the first section.                        *)
Required(in) ==
  [k \in DOMAIN in.required |->
     [kind |-> "include", info |-> NoInfo, body |-> <<in.required[k]>>]]

Resolved(t, in) == Splice(t, Required(in))

-----------------------------------------------------------------------------
(* Step::compute_id.  The first line of a body stands for its first 64     *)
(* bytes; a hash is the tuple of what it hashes.                           *)
Prefix(body) == SubSeq(body, 1, 1)
FrameIds(chain) == [i \in DOMAIN chain |-> chain[i].id]
StepId(step) ==
  IF step.info.id # None THEN <<step.info.id>>
  ELSE <<"auto", FrameIds(step.chain), step.position, step.info.lang, Prefix(step.body)>>

Executable(s) == s.kind \in {"code", "browser"}

(* Workbook::build_steps: positions count from 0 in each frame anew.       *)
Add(acc, s) ==
  CASE s.kind = "enter" ->
         [acc EXCEPT !.chain = Append(@, [id |-> s.file, call_site |-> Last(acc.positions)]),
                     !.positions = Append(@, 0)]
    [] s.kind = "exit" ->
         [acc EXCEPT !.chain = Front(@), !.positions = Front(@)]
    [] Executable(s) ->
         [acc EXCEPT
            !.steps = Append(@, [chain |-> acc.chain, position |-> Last(acc.positions),
                                 info |-> s.info, body |-> s.body]),
            !.positions = Append(Front(@), Last(@) + 1)]
    [] OTHER -> acc

BuildSteps(sections) ==
  LET after[k \in 0..Len(sections)] ==
        IF k = 0 THEN [steps |-> <<>>, chain |-> <<>>, positions |-> <<0>>]
        ELSE Add(after[k-1], sections[k])
  IN  after[Len(sections)].steps

Plan(t, in) == BuildSteps(Resolved(t, in).sections)
IdOf(plan, k) == StepId(plan[k])
Ids(plan) == {IdOf(plan, k) : k \in DOMAIN plan}
First(plan, id) == CHOOSE k \in DOMAIN plan :
                     IdOf(plan, k) = id /\ \A j \in DOMAIN plan : IdOf(plan, j) = id => k <= j

(* parse_duration_secs and resolve_step_policies: an attribute of the fence*)
(* wins over the frontmatter's entry for the block number, unless it does  *)
(* not parse.  A duration is a number and a unit.                          *)
Garbled == -1   \* an attribute that is no number
Unit == [s |-> 1, m |-> 60, h |-> 3600, d |-> 86400]
Seconds(d) ==
  IF d = None THEN None
  ELSE IF d.unit \notin DOMAIN Unit THEN None
  ELSE (d.n * Unit[d.unit]) % Word

OrElse(a, b) == IF a # None THEN a ELSE b
Entry(map, k) == IF k \in DOMAIN map THEN map[k] ELSE None

Policy(plan, fm, k) ==
  LET info == plan[k].info
  IN  [timeout |-> OrElse(Seconds(info.timeout), Seconds(Entry(fm.timeouts, k))),
       retries |-> OrElse(IF info.retries = Garbled THEN None ELSE info.retries,
                          OrElse(Entry(fm.retries, k), 0)),
       tolerant |-> IF info.tolerant # None THEN info.tolerant = "true"
                    ELSE k \in fm.tolerant]

-----------------------------------------------------------------------------
(* params::resolve, for the one parameter the conditions read: the command *)
(* line, then --param-file, then the profile, then the default.  A value is*)
(* checked against one_of as given and then normalised by its type.        *)
Ints == {"0", "1"}   \* the values here that are numbers
Normal(def, v) ==
  IF def.type = "int" THEN IF v \in Ints THEN v ELSE "invalid"
  ELSE IF def.type # "bool" THEN v
  ELSE IF v \in {"true", "1", "yes", "on"} THEN "true"
  ELSE IF v \in {"false", "0", "no", "off"} THEN "false" ELSE "invalid"

Param(in) ==
  LET def == in.param
      raw == OrElse(in.cli.param, OrElse(in.cli.file, OrElse(in.cli.profile, def.default)))
      known == in.cli.param # None \/ in.cli.file # None
  IN  IF ~def.declared THEN IF known THEN "invalid" ELSE None
      ELSE IF raw = None THEN IF def.required THEN "invalid" ELSE None
      ELSE IF def.one_of # {} /\ raw \notin def.one_of THEN "invalid"
      ELSE Normal(def, raw)

(* resolve_provider: the providers it knows, of the workbook or --secrets. *)
Providers(in) == IF in.provider # None THEN {in.provider} ELSE in.secrets
SecretsResolve(in) ==
  Providers(in) \subseteq
    {"env", "doppler", "yard", "command", "cmd", "prompt", "file", "dotenv"}

(* The value of that name in what conditions read: of a session, where     *)
(* resolved_env puts the process below build_execution_context's layers,   *)
(* and of --dry-run, which looks at fewer.                                 *)
RunEnv(in) ==
  OrElse(Param(in), OrElse(in.env.cli, OrElse(in.env.vars, OrElse(in.env.files,
    OrElse(in.env.secrets, OrElse(in.env.workbook, in.env.process))))))
\* Mutant: --set is forgotten.
PreviewEnv_NoCli(in) == OrElse(Param(in), OrElse(in.env.vars, in.env.workbook))
PreviewEnv(in) == OrElse(Param(in), OrElse(in.env.cli, OrElse(in.env.vars, in.env.workbook)))

(* eval_condition_checked.                                                 *)
Truthy(v) == v # None /\ v \notin {"", "0", "false", "no", "off"}
Holds(c, v) ==
  LET plain == CASE c.op = "set" -> Truthy(v)
                 [] c.op = "=" -> v = c.value
                 [] OTHER -> v # c.value
  IN  IF c.negated THEN ~plain ELSE plain

(* should_skip_block: a malformed condition skips its block.               *)
Refuses(c, v) ==
  c # None /\ (c.op = "malformed" \/ (Holds(c, v) = (c.attr = "skip_if")))

-----------------------------------------------------------------------------
(* resolve_selection, resolve_tag_set, resolve_changed_set, block_selected.*)
NoSelection == [only |-> None, from |-> None, until |-> None, tags |-> {}, changed |-> FALSE]

Tagged(plan, tag) == {k \in DOMAIN plan : tag \in plan[k].info.tags}

(* Blocks whose language and text are not in the committed workbook, whose *)
(* includes are not resolved.                                              *)
Changed(plan, in) ==
  LET old == BuildSteps(Parse(in.base))
  IN  IF in.base = Absent THEN DOMAIN plan
      ELSE {k \in DOMAIN plan :
              \A j \in DOMAIN old :
                old[j].body # plan[k].body \/ old[j].info.lang # plan[k].info.lang}

SelectedRange(plan, sel) ==
  IF sel.only # None THEN First(plan, sel.only) .. First(plan, sel.only)
  ELSE (IF sel.from # None THEN First(plan, sel.from) ELSE 1)
         .. (IF sel.until # None THEN First(plan, sel.until) ELSE Len(plan))

Selected(plan, sel, in) ==
  {k \in SelectedRange(plan, sel) :
     /\ sel.tags # {} => \E tag \in sel.tags : k \in Tagged(plan, tag)
     /\ sel.changed => k \in Changed(plan, in)}

(* An unknown id, an empty range and a tag nobody carries are usage errors.*)
SelectionIsValid(plan, sel) ==
  /\ {sel.only, sel.from, sel.until} \ {None} \subseteq Ids(plan)
  /\ sel # NoSelection => SelectedRange(plan, sel) # {}
  /\ \A tag \in sel.tags : Tagged(plan, tag) # {}

-----------------------------------------------------------------------------
(* A session.  `at` is the block at hand, `from` the first that is not     *)
(* replayed; `ckpt` the checkpoint in memory; `did` what became of the     *)
(* blocks passed live.                                                     *)
Idle == [on |-> FALSE, plan |-> <<>>, sel |-> NoSelection, at |-> 1, from |-> 1,
         resumed |-> FALSE, ckpt |-> {}, did |-> <<>>]

StepsInit ==
  /\ input \in Inputs
  /\ text = input.text
  /\ ckpt = {} /\ wb = Idle /\ edits = 0 /\ passed = [stop |-> {}, plan |-> <<>>]

At(plan, k) == IF k \in DOMAIN plan THEN {plan[k]} ELSE {}
IdAt(plan, k) == {StepId(s) : s \in At(plan, k)}

\* Mutant: the saved number is trusted as long as it is in range.
Position_NumberFirst(c, plan) == {c.next} \cap 1..(Len(plan) + 1)

(* resolve_resume_position: by the id of the next step, else by its number;*)
(* a checkpoint that was at the end has no id.  {}: start afresh.          *)
Position(c, plan) ==
  IF c.step # {}
    THEN IF c.step \subseteq Ids(plan) THEN {First(plan, CHOOSE id \in c.step : TRUE)}
         ELSE {c.next} \cap 1..(Len(plan) + 1)
    ELSE IF c.total = Len(plan) THEN {c.next} ELSE {}

(* prepare_checkpoint: the checkpoint of the file, selection or not.       *)
Resumable(plan) ==
  UNION {IF c.done \/ c.param # Param(input) THEN {} ELSE Position(c, plan) : c \in ckpt}

Fresh(plan) == [next |-> 1, step |-> {}, total |-> Len(plan), done |-> FALSE,
                param |-> Param(input), skipped |-> {}]

Start(sel) ==
  /\ ~wb.on
  /\ Resolved(text, input).ok /\ Param(input) # "invalid" /\ SecretsResolve(input)
  /\ LET plan == Plan(text, input)
         from == Resumable(plan)
     IN  /\ SelectionIsValid(plan, sel)
         /\ wb' = [Idle EXCEPT
                     !.on = TRUE, !.plan = plan, !.sel = sel, !.resumed = from # {},
                     !.from = IF from = {} THEN 1 ELSE CHOOSE k \in from : TRUE,
                     !.ckpt = IF from = {} THEN {Fresh(plan)}
                              ELSE {[c EXCEPT !.next = CHOOSE k \in from : TRUE,
                                              !.step = IdAt(plan, CHOOSE k \in from : TRUE)] : c \in ckpt}]
  /\ UNCHANGED <<input, text, ckpt, edits, passed>>

(* A replayed block changes no file.                                       *)
Replay ==
  /\ wb.on /\ wb.at < wb.from /\ wb.at <= Len(wb.plan)
  /\ wb' = [wb EXCEPT !.at = @ + 1]
  /\ UNCHANGED <<input, text, ckpt, edits, passed>>

(* run_single at a block: the selection, then {no-run}, then conditions.   *)
Live == wb.on /\ wb.at >= wb.from /\ wb.at <= Len(wb.plan)
Chosen == wb.at \in Selected(wb.plan, wb.sel, input)
NoRun == wb.plan[wb.at].info.norun
Conditional == Refuses(wb.plan[wb.at].info.when, RunEnv(input))

(* The block is over: the checkpoint is saved with the position after it.  *)
Save(c, fate) ==
  LET saved == [c EXCEPT !.step = IdAt(wb.plan, c.next)]
  IN  /\ ckpt' = {saved}
      /\ wb' = [wb EXCEPT !.at = @ + 1, !.ckpt = {saved},
                  !.did = Append(@, [k |-> wb.at, fate |-> fate, policy |-> Policy(wb.plan, input, wb.at)])]
      /\ passed' = [stop |-> At(wb.plan, wb.at + 1), plan |-> wb.plan]
      /\ UNCHANGED <<input, text, edits>>

(* Checkpoint::add_result and add_skip.                                    *)
Run ==
  /\ Live /\ Chosen /\ ~NoRun /\ ~Conditional
  /\ \E c \in wb.ckpt : Save([c EXCEPT !.next = wb.at + 1], "run")

Skip(fate) ==
  \E c \in wb.ckpt :
    LET skipped == c.skipped \cup {wb.at}
    IN  Save([c EXCEPT !.skipped = skipped, !.next = Max({c.next} \cup {k + 1 : k \in skipped})], fate)

SkipUnselected == Live /\ ~Chosen /\ Skip("selection")
SkipNoRun == Live /\ Chosen /\ NoRun /\ Skip("no_run")
SkipConditional == Live /\ Chosen /\ ~NoRun /\ Conditional /\ Skip("condition")

Finish ==
  /\ wb.on /\ wb.at > Len(wb.plan)
  /\ ckpt' = {[c EXCEPT !.done = TRUE] : c \in wb.ckpt}
  /\ wb' = Idle
  /\ UNCHANGED <<input, text, edits, passed>>

(* The session ends before: a pause, --bail or a kill.                     *)
Leave ==
  /\ wb.on /\ wb' = Idle
  /\ UNCHANGED <<input, text, ckpt, edits, passed>>

Edit ==
  /\ ~wb.on /\ edits < MaxEdits /\ edits' = edits + 1
  /\ \E e \in input.edits : text' = [text EXCEPT ![Root] = e]
  /\ UNCHANGED <<input, ckpt, wb, passed>>

StepsNext ==
  \/ \E sel \in input.selections : Start(sel)
  \/ Replay \/ Run \/ SkipUnselected \/ SkipNoRun \/ SkipConditional
  \/ Finish \/ Leave \/ Edit

(* dry_run_preview: what --dry-run says of block k.                        *)
Preview(plan, sel, k) ==
  [k |-> k,
   fate |-> IF k \notin Selected(plan, sel, input) THEN "selection"
            ELSE IF plan[k].info.norun THEN "no_run"
            ELSE IF Refuses(plan[k].info.when, PreviewEnv(input)) THEN "condition" ELSE "run",
   policy |-> Policy(plan, input, k)]

-----------------------------------------------------------------------------
(* A session may go on beyond the end: `total` is still that of the        *)
(* workbook the checkpoint was made for (Checkpoint::new) after a session  *)
(* went on with an edited one, and decides Position.                       *)
StepsTypeOK ==
  /\ edits \in 0..MaxEdits
  /\ wb.at \in 1..(Len(wb.plan) + 1) /\ wb.from \in Nat \ {0}
  /\ \A c \in ckpt \cup wb.ckpt : c.next \in Nat \ {0} /\ c.skipped \subseteq Nat \ {0} /\ c.total \in Nat
  /\ Cardinality(ckpt) <= 1 /\ Cardinality(wb.ckpt) = (IF wb.on THEN 1 ELSE 0)

(* Includes resolve exactly when every file that is reached exists and none*)
(* of them is reached from itself (parser.rs:588-590).  What is reached    *)
(* from f is in every set that holds what f includes and is closed.        *)
Targets(f) ==
  LET sections == Sections(text, Required(input), f)
  IN  {Target(sections[k]) : k \in {j \in DOMAIN sections : sections[j].kind = "include"}}
Exists(f) == f \in Files /\ text[f] # Absent
Named == UNION {Targets(f) : f \in {g \in Files : Exists(g)}}
Closed(S) == \A h \in S : Exists(h) => Targets(h) \subseteq S
Reached(f) ==
  {g \in Named : \A S \in SUBSET Named : Targets(f) \subseteq S /\ Closed(S) => g \in S}
IncludesResolve ==
  ~wb.on =>
    (Resolved(text, input).ok <=>
       \A f \in {Root} \cup Reached(Root) : Exists(f) /\ f \notin Reached(f))

(* The author names no step twice, and nothing is included twice at one    *)
(* place.                                                                  *)
Distinct(plan) ==
  /\ \A j, k \in DOMAIN plan :
       plan[j].info.id # None /\ plan[j].info.id = plan[k].info.id => j = k
  /\ \A j, k \in DOMAIN plan :
       FrameIds(plan[j].chain) = FrameIds(plan[k].chain) /\ plan[j].position = plan[k].position => j = k

(* Two plans' steps that the author and wb take for the same.              *)
SameStep(a, b) ==
  IF a.info.id # None \/ b.info.id # None THEN a.info.id = b.info.id
  ELSE /\ FrameIds(a.chain) = FrameIds(b.chain) /\ a.position = b.position
       /\ a.info.lang = b.info.lang /\ a.body = b.body

(* A session goes on with the step that was next, wherever edits moved it, *)
(* if steps have distinct names (resolve_resume_position).  `free`: what is*)
(* known of the checkpoint's skips.                                        *)
Resumes(plan) == wb.on /\ wb.resumed /\ wb.did = <<>> /\ Distinct(plan)

GoesOn ==
  \A s \in passed.stop : \A k \in DOMAIN wb.plan : SameStep(wb.plan[k], s) => wb.from = k

ResumesAtItsStep == Resumes(wb.plan) /\ (\A c \in wb.ckpt : c.skipped = {}) => GoesOn

(* The same of every checkpoint: "a checkpoint survives upstream block     *)
(* insertions/deletions" (TODO.md:15).  (Not so: the recorded skips move   *)
(* the position by their old numbers; no run checks it.)                   *)
SurvivesEdits == Resumes(wb.plan) => GoesOn

(* What --dry-run says of a block is what a session then does with it, when*)
(* nothing but the workbook and the command line sets the variable         *)
(* (lib.rs:4286, lib.rs:4384).                                             *)
PreviewAgrees ==
  input.env.process = None /\ input.env.secrets = None /\ input.env.files = None
    => \A i \in DOMAIN wb.did : wb.did[i] = Preview(wb.plan, wb.sel, wb.did[i].k)

(* "a selective run can opt out of implicit checkpointing ... an inherited *)
(* resume would silently skip the user's selection" (lib.rs:5075).         *)
SelectionIsNotInherited == wb.on /\ wb.sel # NoSelection => wb.from = 1
=============================================================================
