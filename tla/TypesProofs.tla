---------------------------- MODULE TypesProofs ----------------------------
(* Proofs about what surrounds the run of a workbook, for all parts.       *)
EXTENDS FrontProofs, WorkbookProofs

(* Whatever part is at work, and for every value of the constants: each    *)
(* file of the gates holds one record or none, a session is at a block of  *)
(* its plan or at the end and has one checkpoint, a folder run has an      *)
(* outcome for each section it executed, Docker has one image for a tag, a *)
(* manifest that is not whole lists nothing, and a descriptor is of a pause*)
(* that there was: FrontTypeOK.                                            *)
THEOREM TypesAreKept == FrontSpec => []FrontTypeOK
<1>1. TypeOK /\ (scenario = "steps" => T!StepsTypeOK) /\ (scenario = "blocks" => B!TypeOK)
        /\ (scenario = "batch" => J!BatchTypeOK) /\ (scenario = "artifacts" => A!ArtTypeOK)
        /\ (scenario = "sandbox" => C!SandboxTypeOK) /\ (scenario = "mcp" => M!McpTypeOK)
        => FrontTypeOK
  BY DEF FrontTypeOK
<1>2. QED
  BY <1>1, FrontIsGated, GatesTypes, StepsKeepTypes, BlocksKeepTypes, BatchKeepsTypes, ArtKeepsTypes,
     SandboxKeepsTypes, McpKeepsTypes, PTL
=============================================================================
