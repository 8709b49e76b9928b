----------------------------- MODULE MCChildren -----------------------------
\* The three kinds of children of a wb process in one run: a behaviour is one of
\* the interpreters (Session), of one-shot processes (OneShot) or of the browser
\* sidecar (Sidecar).
EXTENDS Integers, Sequences, FiniteSets

CONSTANTS Shells, Harnessed, Retries, MaxRequests, MaxLines,
          Capacity, MaxScript, MaxOutput, MaxBlocks,
          Slices, MaxSessions, MaxEvents

VARIABLES scenario,
          processes, env, replaying, cleaning, request, call, child, misled,
          block, pipe, program, kept, blocks,
          wb, sidecar, browser, disk, restored

\* Only the first block may tamper, and only with its shell.
Tamperers == Shells \X {1}

I == INSTANCE Session
O == INSTANCE OneShot
B == INSTANCE Sidecar

ASSUME ChildrenAssumption == I!SessionAssumption /\ O!OneShotAssumption /\ B!SidecarAssumption

interpreterVars == <<processes, env, replaying, cleaning, request, call, child, misled>>
oneShotVars == <<block, pipe, program, kept, blocks>>
browserVars == <<wb, sidecar, browser, disk, restored>>
allVars == <<scenario, interpreterVars, oneShotVars, browserVars>>

\* The part that is not the scenario's stays in one of its initial states.
Init ==
    /\ I!Init /\ O!Init /\ B!Init
    /\ \/ scenario = "interpreters" /\ ~wb.bail /\ ~wb.named
       \/ scenario = "oneshot" /\ ~replaying /\ ~wb.bail /\ ~wb.named
       \/ scenario = "browser" /\ ~replaying

Interpreters == scenario = "interpreters" /\ I!Next /\ UNCHANGED <<scenario, oneShotVars, browserVars>>
Processes == scenario = "oneshot" /\ O!Next /\ UNCHANGED <<scenario, interpreterVars, browserVars>>
Browser == scenario = "browser" /\ B!Next /\ UNCHANGED <<scenario, interpreterVars, oneShotVars>>

Next == Interpreters \/ Processes \/ Browser

Spec == Init /\ [][Next]_allVars /\ I!Fairness /\ O!Fairness /\ B!Fairness

\* Each is the property, or both, of the modules.
TypeOK == I!SessionTypeOK /\ O!OneShotTypeOK /\ B!SidecarTypeOK
OwnResult == I!OwnResult
NeverMisled == I!NeverMisled
AllOutput == O!AllOutput
OwnAnswer == B!OwnAnswer
BrowserLives == B!NoOrphan /\ B!PausedBrowserStays
RestoresPausedSlice == B!RestoresPausedSlice

\* Every child ends: an interpreter's block that has a time limit, a process of its own,
\* and a run with slices.
ChildrenEnd == I!ArmedBlocksEnd /\ O!OneShotEnds /\ B!RunsEnd
=============================================================================
