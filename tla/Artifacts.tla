----------------------------- MODULE Artifacts -----------------------------
(***************************************************************************)
(* What blocks leave in the artifacts directory, and who is said to have   *)
(* left it (src/src/artifacts.rs, with the run loop that calls it).        *)
(*                                                                         *)
(* After every block the session looks at the directory: a file it has not *)
(* seen, or one with a newer mtime, is uploaded, written into the manifest *)
(* under the step that has just ended, and announced.  What it has seen is *)
(* in memory only; the manifest is one file, read and written back as a    *)
(* whole, and not atomically.  A run that is killed is resumed over the    *)
(* same directory by a session that has seen nothing.                      *)
(***************************************************************************)
EXTENDS Integers, FiniteSets

CONSTANTS
    NoName,       \* no file
    Names,        \* the files of the directory that are artifacts
    Steps,        \* the workbook has steps 1..Steps; the last is a browser slice
    MaxSessions,  \* bound: the first run and the resumes
    MaxWrites     \* bound: writes of files and of labels

ArtifactsAssumption ==
    /\ NoName \notin Names
    /\ Steps \in Nat \ {0} /\ MaxSessions \in Nat \ {0} /\ MaxWrites \in Nat

VARIABLES
    files,     \* name -> the file: its stamp (mtime, and so its content) and who wrote it
    labels,    \* name -> the stamp of its .meta.json, 0 when there is none
    manifest,  \* its state, "absent", "torn" or "whole", and the entries: name -> entry
    ses,       \* the session: its number, step, place, what it has seen and found
    stored,    \* name -> the stamp that was uploaded last, 0 for none, Failed
    clock,     \* the stamp of the last write
    lost       \* history: this session failed to write the manifest

artVars == <<files, labels, manifest, ses, stored, clock, lost>>

Failed == -1

\* A file, and an entry about one.
NoFile == [stamp |-> 0, session |-> 0, step |-> 0, live |-> FALSE]
NoEntry == [stamp |-> 0, label |-> 0, session |-> 0, step |-> 0]
NoEntries == [n \in Names |-> NoEntry]
NoManifest(state) == [state |-> state, entries |-> NoEntries]

\* A session that has seen nothing; todo: the steps to replay, or the files to look at.
Fresh(number, s, pc) ==
    [number |-> number, step |-> s, pc |-> pc, seen |-> [n \in Names |-> 0],
     todo |-> {}, sending |-> NoName, found |-> {}, entries |-> NoEntries]

ArtInit ==
    /\ files = [n \in Names |-> NoFile] /\ labels = [n \in Names |-> 0]
    /\ manifest = NoManifest("absent") /\ ses = Fresh(0, 1, "over")
    /\ stored = [n \in Names |-> 0] /\ clock = 0 /\ lost = FALSE

-----------------------------------------------------------------------------
(* A session, and the blocks it runs.                                      *)

\* A slice has its labels written before it is run.
Entry(step) == IF step = Steps THEN "announce" ELSE "block"

\* Artifacts::init: the directory is created or found again.  A resumed session replays
\* the steps before its own first.
Open(step) ==
    /\ ses.pc = "over" /\ ses.number < MaxSessions
    /\ ses.number = 0 => step = 1
    /\ ses' = IF step = 1 THEN Fresh(ses.number + 1, 1, Entry(1))
              ELSE [Fresh(ses.number + 1, step, "replay") EXCEPT !.todo = 1..(step - 1)]
    /\ lost' = FALSE
    /\ UNCHANGED <<files, labels, manifest, stored, clock>>

Smallest(S) == CHOOSE i \in S : \A j \in S : i <= j

\* The step whose block is running now: one that is replayed, or the step at hand.
RunningStep == IF ses.pc = "replay" THEN Smallest(ses.todo) ELSE ses.step

Writes(n, who) ==
    /\ clock < MaxWrites /\ clock' = clock + 1
    /\ files' = [files EXCEPT ![n] = [stamp |-> clock + 1, session |-> ses.number, step |-> who,
                                      live |-> ses.pc = "block"]]

\* A block writes a file, for the first time or again, or removes one.
Write(n) ==
    /\ ses.pc \in {"replay", "block"}
    /\ Writes(n, RunningStep)
    /\ UNCHANGED <<labels, manifest, ses, stored, lost>>

Remove(n) ==
    /\ ses.pc \in {"replay", "block"} /\ files[n] # NoFile
    /\ files' = [files EXCEPT ![n] = NoFile]
    /\ UNCHANGED <<labels, manifest, ses, stored, clock, lost>>

\* A process that a block left behind writes at any time.
StrayWrite(n) ==
    /\ ses.pc \in {"sync", "send", "record", "truncate"}
    /\ Writes(n, 0)
    /\ UNCHANGED <<labels, manifest, ses, stored, lost>>

\* The directory is listed when a block is over.
Listing == [ses EXCEPT !.pc = "sync", !.todo = {n \in Names : files[n] # NoFile}]

\* prepare_browser_spec: the labels of announce_artifact are written, then the slice is run;
\* one that is malformed keeps it from running.
Announce(n) ==
    /\ ses.pc = "announce"
    /\ clock < MaxWrites /\ clock' = clock + 1
    /\ labels' = [labels EXCEPT ![n] = clock + 1]
    /\ UNCHANGED <<files, manifest, ses, stored, lost>>

SliceStarts(wellFormed) ==
    /\ ses.pc = "announce"
    /\ ses' = IF wellFormed THEN [ses EXCEPT !.pc = "block"] ELSE Listing
    /\ UNCHANGED <<files, labels, manifest, stored, clock, lost>>

\* A block is replayed: its output is captured, the directory is not looked at.
Replayed ==
    /\ ses.pc = "replay"
    /\ LET left == ses.todo \ {Smallest(ses.todo)}
       IN  ses' = IF left # {} THEN [ses EXCEPT !.todo = left]
                  ELSE [ses EXCEPT !.todo = {}, !.pc = Entry(ses.step)]
    /\ UNCHANGED <<files, labels, manifest, stored, clock, lost>>

\* The block is over; whether it failed makes no difference.
BlockEnds(ok) ==
    /\ ses.pc = "block"
    /\ ses' = Listing
    /\ UNCHANGED <<files, labels, manifest, stored, clock, lost>>

-----------------------------------------------------------------------------
(* sync.                                                                   *)

\* One file of the listing, in any order: the mtime is noted.
Look(n) ==
    /\ ses.pc = "sync" /\ n \in ses.todo
    /\ ses' = IF files[n].stamp = ses.seen[n] THEN [ses EXCEPT !.todo = @ \ {n}]
              ELSE [ses EXCEPT !.pc = "send", !.seen[n] = files[n].stamp, !.sending = n]
    /\ UNCHANGED <<files, labels, manifest, stored, clock, lost>>

\* Then it is uploaded, which may fail and is not tried again, and its label is read.
Send(arrives) ==
    /\ ses.pc = "send"
    /\ LET n == ses.sending
       IN  /\ ses' = [ses EXCEPT !.pc = "sync", !.todo = @ \ {n},
                                 !.found = @ \union {[name |-> n, label |-> labels[n]]}]
           /\ stored' = [stored EXCEPT ![n] = IF arrives THEN files[n].stamp ELSE Failed]
    /\ UNCHANGED <<files, labels, manifest, clock, lost>>

SyncEnds ==
    /\ ses.pc = "sync" /\ ses.todo = {}
    /\ ses' = [ses EXCEPT !.pc = IF ses.found = {} THEN "next" ELSE "record"]
    /\ UNCHANGED <<files, labels, manifest, stored, clock, lost>>

-----------------------------------------------------------------------------
(* record.                                                                 *)

\* What the session sets out from: a manifest that cannot be read counts as none.
Base == manifest.entries

\* The entry of a file found: the checksum is that of what is there now.
EntryOf(f) ==
    [stamp |-> files[f.name].stamp, label |-> f.label, session |-> ses.number, step |-> ses.step]

Upsert_FoundOnly(base) ==
    [n \in Names |-> IF \E f \in ses.found : f.name = n
                     THEN EntryOf(CHOOSE f \in ses.found : f.name = n) ELSE NoEntry]

\* The files found have their entries replaced; the others stay.
Upsert(base) ==
    [n \in Names |-> IF \E f \in ses.found : f.name = n
                     THEN EntryOf(CHOOSE f \in ses.found : f.name = n) ELSE base[n]]

RecordLoad ==
    /\ ses.pc = "record"
    /\ ses' = [ses EXCEPT !.entries = Upsert(Base), !.pc = "truncate"]
    /\ UNCHANGED <<files, labels, manifest, stored, clock, lost>>

\* fs::write: the file is emptied, then written; either may fail, and is only warned about.
RecordTruncate ==
    /\ ses.pc = "truncate"
    /\ \/ manifest' = NoManifest("torn") /\ ses' = [ses EXCEPT !.pc = "write"] /\ UNCHANGED lost
       \/ ses' = [ses EXCEPT !.pc = "next"] /\ lost' = TRUE /\ UNCHANGED manifest
    /\ UNCHANGED <<files, labels, stored, clock>>

RecordWrite ==
    /\ ses.pc = "write"
    /\ \/ manifest' = [state |-> "whole", entries |-> ses.entries] /\ UNCHANGED lost
       \/ lost' = TRUE /\ UNCHANGED manifest
    /\ ses' = [ses EXCEPT !.pc = "next"]
    /\ UNCHANGED <<files, labels, stored, clock>>

NextStep ==
    /\ ses.pc = "next"
    /\ ses' = [ses EXCEPT !.pc = IF ses.step < Steps THEN Entry(ses.step + 1) ELSE "done",
                          !.step = IF ses.step < Steps THEN @ + 1 ELSE @,
                          !.found = {}, !.entries = NoEntries]
    /\ UNCHANGED <<files, labels, manifest, stored, clock, lost>>

\* Killed anywhere; the directory stays as it is.  A run that is done is over.
Kill ==
    /\ ses.pc # "over"
    /\ ses' = Fresh(ses.number, 1, "over")
    /\ UNCHANGED <<files, labels, manifest, stored, clock, lost>>

ArtNext ==
    \/ \E step \in 1..Steps : Open(step)
    \/ \E n \in Names : Write(n) \/ Remove(n) \/ StrayWrite(n) \/ Announce(n) \/ Look(n)
    \/ \E b \in BOOLEAN : Send(b) \/ SliceStarts(b) \/ BlockEnds(b)
    \/ Replayed \/ SyncEnds \/ RecordLoad \/ RecordTruncate \/ RecordWrite \/ NextStep \/ Kill

-----------------------------------------------------------------------------
(* wb artifacts list and wb runs.                                          *)

\* manifest_for: the manifest, or what a scan of the directory finds when it cannot be read.
Listed ==
    IF manifest.state = "whole" THEN {n \in Names : manifest.entries[n] # NoEntry}
    ELSE {n \in Names : files[n] # NoFile}

ArtTypeOK ==
    /\ manifest.entries \in
          [Names -> [stamp : 0..MaxWrites, label : 0..MaxWrites, session : 0..MaxSessions, step : 0..Steps]]
    /\ manifest.state # "whole" => manifest.entries = NoEntries
    /\ ses.step \in 0..Steps /\ ses.number \in 0..MaxSessions
    /\ clock \in 0..MaxWrites /\ \A n \in Names : ses.seen[n] <= clock

Between == ses.pc \in {"announce", "block", "next", "done"}

\* Whatever the session has seen and nobody has written since is listed with the content it
\* has now, and with the label announced before it was written, unless writing the manifest
\* failed.  This holds after a session that was killed while it wrote the manifest.
ManifestIsCurrent ==
    Between /\ ~lost =>
        \A n \in Names : files[n] # NoFile /\ ses.seen[n] = files[n].stamp =>
            /\ n \in Listed
            /\ manifest.state = "whole" /\ manifest.entries[n].stamp = files[n].stamp
            /\ labels[n] < files[n].stamp => manifest.entries[n].label = labels[n]

\* So is what was uploaded, unless the upload failed: a file that is written while it is
\* looked at is sent again after the next step.
StoreIsCurrent ==
    Between =>
        \A n \in Names : files[n] # NoFile /\ ses.seen[n] = files[n].stamp /\ stored[n] # Failed
            => stored[n] = files[n].stamp

\* Entries about the file as it is, written by a known step.
Current(n) ==
    /\ manifest.state = "whole" /\ files[n] # NoFile
    /\ manifest.entries[n].stamp = files[n].stamp /\ files[n].step # 0

\* A file that a live step wrote is listed under that step by the session that ran it, even
\* if the step failed.
OwnStep ==
    \A n \in Names :
        Current(n) /\ files[n].live /\ files[n].session = manifest.entries[n].session
            => files[n].step = manifest.entries[n].step

\* "Stable id of the step that produced this artifact" (artifacts.rs:71), across a resume
\* too.  (Not so: a resume attributes what it finds to its first step; no run checks it.)
ProducedByItsStep == \A n \in Names : Current(n) => files[n].step = manifest.entries[n].step
=============================================================================
