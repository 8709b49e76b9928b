------------------------------- MODULE Blocks -------------------------------
\* One code block after the other: run_single of src/src/lib.rs between two
\* sections, with the source-hash cache (src/src/cache.rs), the step outputs
\* (src/src/step_outputs.rs) and the --repair endpoint.
\*
\* A workbook is a sequence of code blocks.  There is one step output and one
\* artifact; a block may emit the output, decide on it ({when}, {skip_if}), refer
\* to it in its source, write the artifact or declare that it reads it.  The value
\* emitted and the contents written are the version of the source that did it.
\* A run may go under a checkpoint id, be killed, and be started again; between
\* two runs the author may edit a block.
EXTENDS Integers, Sequences, FiniteSets

CONSTANTS Workbook,    \* sequence of blocks, see BlockShape
          Flags,       \* how wb may be started, see Modes
          RepairMax,   \* repair_max
          MaxRuns,     \* bound: starts of wb
          MaxEdits     \* bound: edits of the workbook

Numbers == 1 .. Len(Workbook)

Absent == 2
Versions == {0, 1}
Values == Versions \cup {Absent}
Malformed == 3

BlockShape == [emits : BOOLEAN, cond : {"none", "when", "skip_if"}, refers : BOOLEAN,
               writes : BOOLEAN, reads : BOOLEAN, no_cache : BOOLEAN, tolerant : BOOLEAN]

\* Under a checkpoint id, --cache, --repair, --bail.
Modes == [named : BOOLEAN, caching : BOOLEAN, repair : BOOLEAN, bail : BOOLEAN]

BlocksAssumption ==
    /\ Workbook \in Seq(BlockShape) /\ Workbook # <<>> /\ Flags \subseteq Modes
    /\ RepairMax \in Nat /\ MaxRuns \in Nat /\ MaxEdits \in Nat

VARIABLES
    source,    \* source[b]: the version of block b
    artifact,  \* contents of the artifact
    stored,    \* the cache store on disk: successful keys
    saved,     \* the checkpoint on disk, see Saved
    run,       \* the wb process, see Run
    ran,       \* what was executed with exit code 0, without {no_cache}: [block, source, out]
    succeeded, \* keys of blocks that were executed, from their own source, and
               \* reported as successful
    skipped    \* keys on which the cache skipped a block

vars == <<source, artifact, stored, saved, run, ran, succeeded, skipped>>

\* What sha256(language, body, params, env, inputs, outputs) tells apart.
Key == [block : Numbers, source : Versions, inputs : Values, out : Values]

Saved == [exists : BOOLEAN, next : 1 .. Len(Workbook) + 1, out : Values]

\* `replay` is the first block that is live, `env` the value of $WB_OUT_<name> in
\* the session, `outputs` the value in run_outputs, `cache` the store in memory,
\* `out` the output hash of the current block, `seen` what it uses of the output, `before` its inputs when it started,
\* `result` its outcome, `line` what it printed of outputs, `own` whether the code
\* that ran last was its own, `passed` the blocks the cache skipped.
Run == [pc : {"off", "block", "live", "repair", "record", "capture", "settle"},
        pos : 1 .. Len(Workbook) + 1, replay : 1 .. Len(Workbook) + 1,
        mode : Modes, env : Values, outputs : Values, cache : SUBSET Key, out : Values, seen : Values,
        before : Values, result : {0, 1}, line : Values \cup {Malformed}, own : BOOLEAN,
        forgiven : BOOLEAN, budget : 0 .. RepairMax, denied : BOOLEAN, runs : 0 .. MaxRuns]

NoFlags == [named |-> FALSE, caching |-> FALSE, repair |-> FALSE, bail |-> FALSE]

Off == [pc |-> "off", pos |-> 1, replay |-> 1, mode |-> NoFlags,
        env |-> Absent, outputs |-> Absent, cache |-> {},
        out |-> Absent, seen |-> Absent, before |-> Absent, result |-> 0, line |-> Absent, own |-> TRUE,
        forgiven |-> FALSE, budget |-> 0, denied |-> FALSE, runs |-> 0]

Init ==
    /\ source = [b \in Numbers |-> 0] /\ artifact = Absent
    /\ stored = {} /\ saved = [exists |-> FALSE, next |-> 1, out |-> Absent]
    /\ run = Off /\ ran = {} /\ succeeded = {} /\ skipped = {}

-----------------------------------------------------------------------------
\* Between runs.

Edits == Cardinality({b \in Numbers : source[b] = 1})

Edit(b) ==
    /\ run.pc = "off" /\ Edits < MaxEdits /\ source[b] = 0
    /\ source' = [source EXCEPT ![b] = 1]
    /\ UNCHANGED <<artifact, stored, saved, run, ran, succeeded, skipped>>

\* An empty artifacts directory: every run that is given none makes its own.
FreshArtifacts ==
    /\ run.pc = "off" /\ artifact' = Absent
    /\ UNCHANGED <<source, stored, saved, run, ran, succeeded, skipped>>

\* run_single up to the loop: the checkpoint says what to replay and which outputs
\* earlier sessions captured; the outputs file is written from them, the session
\* environment is not.
Start(mode) ==
    /\ run.pc = "off" /\ run.runs < MaxRuns
    /\ LET resuming == mode.named /\ saved.exists
       IN run' = [Off EXCEPT !.pc = "block", !.runs = run.runs + 1, !.mode = mode,
                             !.cache = IF mode.caching THEN stored ELSE {},
                             !.replay = IF resuming THEN saved.next ELSE 1,
                             !.outputs = IF resuming THEN saved.out ELSE Absent]
    /\ saved' = IF mode.named /\ ~saved.exists THEN [saved EXCEPT !.exists = TRUE] ELSE saved
    /\ UNCHANGED <<source, artifact, stored, ran, succeeded, skipped>>

\* A kill, or a wait that pauses the run between two blocks: std::process::exit
\* comes before the cache is saved.
Interrupt ==
    /\ run.pc # "off"
    /\ run' = [Off EXCEPT !.runs = run.runs]
    /\ UNCHANGED <<source, artifact, stored, saved, ran, succeeded, skipped>>

-----------------------------------------------------------------------------
\* The step output.

Shape == Workbook[run.pos]

\* What a block's code prints of outputs: its value, or a line that does not parse.
Lines(b) == IF Workbook[b].emits THEN {source[b], Malformed, Absent} ELSE {Absent}

Written(b) == IF Workbook[b].writes THEN source[b] ELSE artifact

Keep(value) == IF run.mode.named THEN [saved EXCEPT !.out = value] ELSE saved

\* Replay: the block runs again, its outputs are merged and saved if it succeeded;
\* a line that does not parse is ignored.
Replay ==
    /\ run.pc = "block" /\ run.pos < run.replay
    /\ \E code \in {0, 1}, line \in Lines(run.pos) :
         LET captured == code = 0 /\ line \in Versions
         IN /\ run' = [run EXCEPT !.pos = @ + 1, !.outputs = IF captured THEN line ELSE @]
            /\ saved' = IF captured THEN Keep(line) ELSE saved
    /\ artifact' = Written(run.pos)
    /\ UNCHANGED <<source, stored, ran, succeeded, skipped>>

-----------------------------------------------------------------------------
\* Whether a live block runs.

\* conditional_skip_decision on the session's environment: a variable that is not
\* set is false, and so is "0".
Holds(value) == value = 1

SkippedByCondition ==
    \/ Shape.cond = "when" /\ ~Holds(run.env)
    \/ Shape.cond = "skip_if" /\ Holds(run.env)

Inputs == IF Shape.reads THEN artifact ELSE Absent

\* The value the block's code or its conditions use (history).
Seen == IF Shape.refers \/ Shape.cond # "none" THEN run.env ELSE Absent

\* referenced_outputs_hash: of the body and of the conditions.
\* MUTANT: of the body alone.
OutHash_BodyOnly == IF Shape.refers THEN run.env ELSE Absent

OutHash == IF Shape.refers \/ Shape.cond # "none" THEN run.env ELSE Absent

KeyWith(out) == [block |-> run.pos, source |-> source[run.pos], inputs |-> Inputs, out |-> out]

\* downstream_reads_input_missing: some later block still lacks its input.
\* MUTANT: only the next block is looked at.
InputMissing_NextOnly ==
    artifact = Absent /\ run.pos < Len(Workbook) /\ Workbook[run.pos + 1].reads

InputMissing == artifact = Absent /\ \E b \in run.pos + 1 .. Len(Workbook) : Workbook[b].reads

SkippedByCache ==
    /\ run.mode.caching /\ ~Shape.no_cache /\ ~InputMissing
    /\ KeyWith(OutHash) \in run.cache

Advance(next) == IF run.mode.named THEN [saved EXCEPT !.next = next] ELSE saved

Skip ==
    /\ run.pc = "block" /\ run.pos \in Numbers /\ run.pos >= run.replay
    /\ SkippedByCondition \/ SkippedByCache
    /\ run' = [run EXCEPT !.pos = @ + 1,
                          !.denied = @ \/ (~SkippedByCondition /\ Shape.writes /\ artifact = Absent)]
    /\ saved' = Advance(run.pos + 1)
    /\ skipped' = IF SkippedByCondition THEN skipped ELSE skipped \cup {KeyWith(Seen)}
    /\ UNCHANGED <<source, artifact, stored, ran, succeeded>>

Begin ==
    /\ run.pc = "block" /\ run.pos \in Numbers /\ run.pos >= run.replay
    /\ ~SkippedByCondition /\ ~SkippedByCache
    /\ run' = [run EXCEPT !.pc = "live", !.out = OutHash, !.seen = Seen, !.before = Inputs, !.own = TRUE,
                          !.forgiven = FALSE, !.budget = RepairMax]
    /\ UNCHANGED <<source, artifact, stored, saved, ran, succeeded, skipped>>

-----------------------------------------------------------------------------
\* A live block.

Repairs(code) == run.mode.repair /\ code = 1 /\ ~Shape.tolerant

\* execute_block_with_policy: the block's own code, or what the endpoint sent.
Execute ==
    /\ run.pc = "live"
    /\ \E code \in {0, 1}, line \in Lines(run.pos) :
         /\ run' = [run EXCEPT !.pc = IF Repairs(code) THEN "repair" ELSE "record",
                               !.result = code, !.line = line]
         /\ ran' = IF code = 0 /\ ~Shape.no_cache
                     THEN ran \cup {[block |-> run.pos, source |-> source[run.pos], out |-> run.seen]}
                     ELSE ran
    /\ artifact' = Written(run.pos)
    /\ UNCHANGED <<source, stored, saved, succeeded, skipped>>

\* repair_consult: the endpoint may say rerun or patch as long as there is budget.
\* MUTANT: the budget is not looked at.
Again_NoBudget(own) ==
    /\ run.pc = "repair"
    /\ run' = [run EXCEPT !.pc = "live", !.own = own, !.budget = @ - 1]
    /\ UNCHANGED <<source, artifact, stored, saved, ran, succeeded, skipped>>

Again(own) ==
    /\ run.pc = "repair" /\ run.budget > 0
    /\ run' = [run EXCEPT !.pc = "live", !.own = own, !.budget = @ - 1]
    /\ UNCHANGED <<source, artifact, stored, saved, ran, succeeded, skipped>>

\* skip: the failure does not bail.  abort, no answer, no budget left: it does.
GiveUp(forgiven) ==
    /\ run.pc = "repair"
    /\ run' = [run EXCEPT !.pc = "record", !.forgiven = forgiven]
    /\ UNCHANGED <<source, artifact, stored, saved, ran, succeeded, skipped>>

\* The cache entry is made with the inputs as they are now, under the source of the
\* block.  A failure replaces an earlier success.
Record ==
    /\ run.pc = "record"
    /\ run' = [run EXCEPT !.pc = "capture",
                          !.cache = IF ~run.mode.caching \/ Shape.no_cache THEN @
                                    ELSE IF run.result = 0 THEN @ \cup {KeyWith(run.out)}
                                    ELSE @ \ {KeyWith(run.out)}]
    /\ UNCHANGED <<source, artifact, stored, saved, ran, succeeded, skipped>>

\* capture_outputs_for_result: a line that does not parse fails the block, unless
\* it continues on error; a value is exported into the session environment, written
\* to the outputs file and saved in the checkpoint.
\* MUTANT: only the outputs of blocks that succeeded are exported.
Exported_OnSuccess == IF run.result = 0 THEN run.line ELSE run.env

Exported == run.line

Capture ==
    /\ run.pc = "capture"
    /\ IF run.line \in Versions
         THEN /\ run' = [run EXCEPT !.pc = "settle", !.env = Exported, !.outputs = run.line]
              /\ saved' = Keep(run.line)
         ELSE /\ run' = [run EXCEPT !.pc = "settle",
                                    !.result = IF run.line = Malformed /\ ~Shape.tolerant THEN 1 ELSE @]
              /\ UNCHANGED saved
    /\ UNCHANGED <<source, artifact, stored, ran, succeeded, skipped>>

Bails == run.mode.bail /\ run.result = 1 /\ ~Shape.tolerant /\ ~run.forgiven

\* The block's result is recorded, or the run stops at it.
Settle ==
    /\ run.pc = "settle"
    /\ succeeded' = IF run.result = 0 /\ run.own /\ ~Shape.no_cache
                      THEN succeeded \cup {[KeyWith(run.seen) EXCEPT !.inputs = run.before]}
                      ELSE succeeded
    /\ IF Bails
         THEN run' = [run EXCEPT !.pc = "block", !.pos = Len(Workbook) + 1] /\ UNCHANGED saved
         ELSE run' = [run EXCEPT !.pc = "block", !.pos = @ + 1] /\ saved' = Advance(run.pos + 1)
    /\ UNCHANGED <<source, artifact, stored, ran, skipped>>

\* The end, after --bail too: the cache is saved.
Finish ==
    /\ run.pc = "block" /\ run.pos \notin Numbers
    /\ stored' = IF run.mode.caching THEN run.cache ELSE stored
    /\ run' = [Off EXCEPT !.runs = run.runs]
    /\ UNCHANGED <<source, artifact, saved, ran, succeeded, skipped>>

Loop == Replay \/ Skip \/ Begin \/ Execute \/ (\E own \in BOOLEAN : Again(own))
        \/ (\E f \in BOOLEAN : GiveUp(f)) \/ Record \/ Capture \/ Settle \/ Finish

Next ==
    \/ \E b \in Numbers : Edit(b)
    \/ FreshArtifacts \/ Interrupt \/ Loop
    \/ \E mode \in Flags : Start(mode)

Spec == Init /\ [][Next]_vars /\ WF_vars(Loop)

-----------------------------------------------------------------------------
TypeOK ==
    /\ source \in [Numbers -> Versions] /\ artifact \in Values
    /\ stored \subseteq Key /\ saved \in Saved /\ run \in Run
    /\ ran \subseteq [block : Numbers, source : Versions, out : Values]
    /\ succeeded \subseteq Key /\ skipped \subseteq Key

\* The cache skips a block only if this version of it, or a patch of it, has run
\* with exit code 0 on the value of the step output it would see now: an upstream
\* output that changed is never missed.
SkipsOnlyWhatRan ==
    \A k \in skipped : [block |-> k.block, source |-> k.source, out |-> k.out] \in ran

\* The block that would write an artifact is never skipped by the cache while a
\* later block lacks it as its declared input.
InputNotDenied ==
    (run.pc = "live" /\ Shape.reads /\ artifact = Absent) => ~run.denied

\* In a session that did not replay, a condition sees the value that was captured
\* last, whether the step that emitted it succeeded or not.
EnvFollowsCapture == (run.pc = "block" /\ run.replay = 1 /\ ~run.mode.named) => run.env = run.outputs

\* The run comes to its end, whatever the repair endpoint answers.
RunEnds == run.pc # "off" ~> run.pc = "off"

\* A step output is exported into the session for the conditions of later blocks,
\* in every session of the run.  (Not so: a replay exports none; no run checks it.)
ConditionSeesOutputs ==
    (run.pc = "block" /\ run.pos \in Numbers /\ run.pos >= run.replay
       /\ Shape.cond # "none" /\ run.outputs # Absent)
      => run.env = run.outputs

\* The cache skips a block only if it has succeeded before, on the same inputs.
\* (Not so: the capture may fail after the success was recorded; no run checks it.)
CacheSkipsSuccesses == skipped \subseteq succeeded
=============================================================================
