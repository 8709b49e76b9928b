------------------------------- MODULE Gates -------------------------------
\* The integrity gates in front of a run and the commands that feed them:
\* enforce_security_gates and cmd_run of src/src/lib.rs, wb resume's second look,
\* trust.rs (the trust store), lockfile.rs and signing.rs.
\*
\* Workbooks are paths; Root includes one other file, the rest include nothing.  A
\* content is a version number; a hash, a signature and a lock entry are modelled
\* by the content they identify; a file that does not exist or does not parse is an
\* empty set; a download that gave up half-way is Torn.  Every command is a process of its own: it reads and writes files one
\* after the other, while the author edits them.
EXTENDS Integers, FiniteSets

CONSTANTS Procs,     \* wb processes
          Paths,     \* workbooks
          Root,      \* the workbook with an include
          Fetched,   \* the cache file of a remote workbook, or no path at all
          Flags,     \* security flags runs are started with, see Security
          MaxEdits,  \* bound: versions of a file
          MaxCmds    \* bound: commands started

\* SecurityRequirements, and --allow-runtime.  `pinned`: --pubkey <Owner>.
Security == [trust : BOOLEAN, sig : BOOLEAN, pinned : BOOLEAN, locked : BOOLEAN, allow : BOOLEAN]

ASSUME GatesAssumption ==
    /\ Root \in Paths \ {Fetched} /\ Flags \subseteq Security
    /\ MaxEdits \in Nat /\ MaxCmds \in Nat

Contents == 0 .. MaxEdits
Nothing == -1
Torn == -2
Keys == {1, 2}

Ungated == [trust |-> FALSE, sig |-> FALSE, pinned |-> FALSE, locked |-> FALSE, allow |-> FALSE]
Owner == 1

VARIABLES
    files,   \* files[p]: content of workbook p
    include, \* content of the file Root includes
    store,   \* trust.json: {[Paths -> content trusted]}, {} when it does not parse
    lock,    \* Root's lock file: {} or {<<root, include>>}
    sig,     \* Root's .sig: {} or {<<key, content>>}
    key,     \* the private key on disk, or Nothing
    ckpt,    \* security stamped into the checkpoint of a run of Root: {} or {Security}
    proc,    \* the processes, see Idle
    cmds,    \* commands started
    ran,     \* the last execution since a command began: {} or {Executed}
    seen     \* history, see NoHistory

vars == <<files, include, store, lock, sig, key, ckpt, proc, cmds, ran, seen>>

\* `sec` the flags in force, `buf` the workbook bytes read once, `mine` a trust store
\* in memory, `steady` whether no include was edited meanwhile and
\* `gates` the checkpoint's at wb resume (history).
Empty == [p \in Paths |-> Nothing]

Idle == [pc |-> "idle", path |-> Root, sec |-> Ungated, buf |-> 0,
         mine |-> Empty, steady |-> TRUE, resumes |-> FALSE, gates |-> Ungated]

\* What wb trust add, wb sign and wb lock have recorded, what the trust store would
\* hold if its commands were atomic, and whether two of them overlapped.
NoHistory == [reviewed |-> {}, signed |-> {}, locked |-> {}, ledger |-> Empty, raced |-> FALSE]

Init ==
    /\ files = [p \in Paths |-> 0] /\ include = 0
    /\ store = {Empty} /\ lock = {} /\ sig = {}
    /\ key = Owner
    /\ ckpt = {} /\ ran = {} /\ proc = [q \in Procs |-> Idle] /\ cmds = 0 /\ seen = NoHistory

Disk == <<files, include, store, lock, sig, key, ckpt>>

Goto(q, pc) == proc' = [proc EXCEPT ![q].pc = pc]
End(q) == proc' = [proc EXCEPT ![q] = Idle]

\* States of a command that holds the trust store in memory.
TrustPcs == {"add", "remove", "truncate", "write"}

Begin(q, first) ==
    /\ proc[q].pc = "idle" /\ cmds < MaxCmds
    /\ cmds' = cmds + 1 /\ ran' = {}
    /\ proc' = [proc EXCEPT ![q] = first]

-----------------------------------------------------------------------------
\* The author.

Edit(p) ==
    /\ p # Fetched /\ files[p] < MaxEdits
    /\ files' = [files EXCEPT ![p] = @ + 1]
    /\ UNCHANGED <<include, store, lock, sig, key, ckpt, proc, cmds, ran, seen>>

EditInclude ==
    /\ include < MaxEdits
    /\ include' = include + 1
    /\ proc' = [q \in Procs |-> [proc[q] EXCEPT !.steady = FALSE]]
    /\ UNCHANGED <<files, store, lock, sig, key, ckpt, cmds, ran, seen>>

-----------------------------------------------------------------------------
\* wb trust add, wb trust remove: load, change, save; no lock is taken.

\* TrustStore::load: a store that does not parse is an empty one.
Loaded == IF store = {} THEN Empty ELSE CHOOSE s \in store : TRUE

Overlap == [seen EXCEPT !.raced = @ \/ \E r \in Procs : proc[r].pc \in TrustPcs]

TrustAdd(q, p) ==
    /\ Begin(q, [Idle EXCEPT !.pc = "add", !.path = p, !.mine = Loaded])
    /\ seen' = Overlap
    /\ UNCHANGED Disk

TrustRemove(q, p) ==
    /\ Loaded[p] # Nothing
    /\ Begin(q, [Idle EXCEPT !.pc = "truncate", !.path = p, !.mine = [Loaded EXCEPT ![p] = Nothing]])
    /\ seen' = Overlap
    /\ UNCHANGED Disk

\* MUTANT: the store that is saved holds the new entry alone.
WithFile_Alone(q) == [Empty EXCEPT ![proc[q].path] = files[proc[q].path]]

WithFile(q) == [proc[q].mine EXCEPT ![proc[q].path] = files[proc[q].path]]

TrustFile(q) ==
    /\ proc[q].pc = "add"
    /\ proc' = [proc EXCEPT ![q].pc = "truncate", ![q].mine = WithFile(q)]
    /\ seen' = [seen EXCEPT !.reviewed = @ \cup {<<proc[q].path, files[proc[q].path]>>}]
    /\ UNCHANGED <<Disk, cmds, ran>>

\* TrustStore::save is a plain write: truncate, then the contents.
TrustTruncate(q) ==
    /\ proc[q].pc = "truncate"
    /\ store' = {} /\ Goto(q, "write")
    /\ UNCHANGED <<files, include, lock, sig, key, ckpt, cmds, ran, seen>>

TrustWrite(q) ==
    /\ proc[q].pc = "write"
    /\ store' = {proc[q].mine} /\ End(q)
    /\ seen' = [seen EXCEPT !.ledger[proc[q].path] = proc[q].mine[proc[q].path]]
    /\ UNCHANGED <<files, include, lock, sig, key, ckpt, cmds, ran>>

-----------------------------------------------------------------------------
\* wb keygen, wb sign, wb lock.

\* The old private key is removed before the new one is created.
Keygen(q) ==
    /\ Begin(q, [Idle EXCEPT !.pc = "private"])
    /\ key' = Nothing
    /\ UNCHANGED <<files, include, store, lock, sig, ckpt, seen>>

KeygenCreate(q) ==
    /\ proc[q].pc = "private"
    /\ IF key = Nothing THEN \E k \in Keys \ {Owner} : key' = k ELSE UNCHANGED key
    /\ End(q)
    /\ UNCHANGED <<files, include, store, lock, sig, ckpt, cmds, ran, seen>>

Sign(q) ==
    /\ Begin(q, [Idle EXCEPT !.pc = "sign", !.buf = files[Root]])
    /\ UNCHANGED <<Disk, seen>>

SignWrite(q) ==
    /\ proc[q].pc = "sign"
    /\ IF key = Nothing THEN UNCHANGED <<sig, seen>>
       ELSE /\ sig' = {<<key, proc[q].buf>>}
            /\ seen' = [seen EXCEPT !.signed = @ \cup sig']
    /\ End(q)
    /\ UNCHANGED <<files, include, store, lock, key, ckpt, cmds, ran>>

Lock(q) ==
    /\ Begin(q, [Idle EXCEPT !.pc = "lock", !.buf = files[Root]])
    /\ UNCHANGED <<Disk, seen>>

LockWrite(q) ==
    /\ proc[q].pc = "lock"
    /\ lock' = {<<proc[q].buf, include>>} /\ End(q)
    /\ seen' = [seen EXCEPT !.locked = @ \cup lock']
    /\ UNCHANGED <<files, include, store, sig, key, ckpt, cmds, ran>>

-----------------------------------------------------------------------------
\* wb run <file>, wb run <url>, wb resume.

\* The workbook is read once, before every gate.
Run(q, p, sec) ==
    /\ p # Fetched
    /\ Begin(q, [Idle EXCEPT !.pc = "trust", !.path = p, !.buf = files[p],
                             !.sec = IF p = Root THEN sec ELSE [Ungated EXCEPT !.trust = sec.trust]])
    /\ UNCHANGED <<Disk, seen>>

\* fetch_remote: curl writes the cache file in place and may give up half-way.
Fetch(q) ==
    /\ Fetched \in Paths
    /\ Begin(q, [Idle EXCEPT !.pc = "fetched", !.path = Fetched])
    /\ \E content \in Contents \cup {Torn} : files' = [files EXCEPT ![Fetched] = content]
    /\ UNCHANGED <<include, store, lock, sig, key, ckpt, seen>>

\* A remote workbook is always trust-gated.
Remote(q) ==
    /\ proc[q].pc = "fetched"
    /\ proc' = [proc EXCEPT ![q].pc = "trust", ![q].buf = files[Fetched],
                            ![q].sec = [Ungated EXCEPT !.trust = TRUE]]
    /\ UNCHANGED <<Disk, cmds, ran, seen>>

\* MUTANT: the gates of the first run are forgotten.
Resume_Ungated(q) ==
    /\ \E gates \in ckpt :
         Begin(q, [Idle EXCEPT !.pc = "trust", !.buf = files[Root], !.resumes = TRUE, !.gates = gates])
    /\ UNCHANGED <<Disk, seen>>

\* wb resume enforces the gates stamped into the checkpoint, not its own flags.
Resume(q) ==
    /\ \E gates \in ckpt :
         Begin(q, [Idle EXCEPT !.pc = "trust", !.buf = files[Root], !.sec = gates, !.resumes = TRUE, !.gates = gates])
    /\ UNCHANGED <<Disk, seen>>

Passes(q, next, ok) == IF ok THEN Goto(q, next) ELSE End(q)

\* The store is compared with the bytes in memory.
Trusted(p, content) == Loaded[p] = content

TrustGate(q) ==
    /\ proc[q].pc = "trust"
    /\ Passes(q, "sig", proc[q].sec.trust => Trusted(proc[q].path, proc[q].buf))
    /\ UNCHANGED <<Disk, cmds, ran, seen>>

Verifies(sec, content) == \E s \in sig : s[2] = content /\ (sec.pinned => s[1] = Owner)

SigGate(q) ==
    /\ proc[q].pc = "sig"
    /\ Passes(q, "locked", proc[q].sec.sig => Verifies(proc[q].sec, proc[q].buf))
    /\ UNCHANGED <<Disk, cmds, ran, seen>>

\* The steps are those of the bytes in memory, with the include read now.
LockGate(q) ==
    /\ proc[q].pc = "locked"
    /\ Passes(q, "allow", proc[q].sec.locked => <<proc[q].buf, include>> \in lock)
    /\ UNCHANGED <<Disk, cmds, ran, seen>>

\* Odd versions of the include use a runtime that is not on the list.
Allowed(path, content) == path = Root => content % 2 = 0

\* --allow-runtime is checked by wb run alone.
AllowGate(q) ==
    /\ proc[q].pc = "allow"
    /\ Passes(q, "parse", (proc[q].sec.allow /\ ~proc[q].resumes) => Allowed(proc[q].path, include))
    /\ UNCHANGED <<Disk, cmds, ran, seen>>

Executed(q, root) ==
    [path |-> proc[q].path, root |-> root, inc |-> include, sec |-> proc[q].sec,
     steady |-> proc[q].steady, resumes |-> proc[q].resumes, gates |-> proc[q].gates]

\* run_single parses the bytes that were verified; its includes are read again.  The
\* checkpoint, when there is one, keeps the gates of the run that created it.
\* MUTANT: the file is read again.
Bytes_Reread(q) == files[proc[q].path]

Bytes(q) == proc[q].buf

Execute(q) ==
    /\ proc[q].pc = "parse"
    /\ ran' = {Executed(q, Bytes(q))}
    /\ \/ UNCHANGED ckpt
       \/ /\ proc[q].path = Root /\ ckpt = {}
          /\ ckpt' = {[proc[q].sec EXCEPT !.allow = FALSE]}
       \/ /\ proc[q].path = Root /\ ckpt # {} \* the run ends and is cancelled
          /\ ckpt' = {}
    /\ End(q)
    /\ UNCHANGED <<files, include, store, lock, sig, key, cmds, seen>>

\* Between truncate and write, a kill leaves a store that reads as empty.
Kill(q) ==
    /\ proc[q].pc # "idle"
    /\ End(q)
    /\ seen' = IF proc[q].pc = "write" THEN [seen EXCEPT !.ledger = Empty] ELSE seen
    /\ UNCHANGED <<Disk, cmds, ran>>

Trust(q) == (\E p \in Paths : TrustAdd(q, p) \/ TrustRemove(q, p))
            \/ TrustFile(q) \/ TrustTruncate(q) \/ TrustWrite(q)
Author(q) == Keygen(q) \/ KeygenCreate(q) \/ Sign(q) \/ SignWrite(q)
             \/ Lock(q) \/ LockWrite(q)
Gate(q) == TrustGate(q) \/ SigGate(q) \/ LockGate(q) \/ AllowGate(q)

Next ==
    \/ \E p \in Paths : Edit(p)
    \/ EditInclude
    \/ \E q \in Procs :
         \/ Trust(q) \/ Author(q) \/ Gate(q) \/ Execute(q) \/ Kill(q)
         \/ \E p \in Paths, sec \in Flags : Run(q, p, sec)
         \/ Fetch(q) \/ Remote(q) \/ Resume(q)

Spec == Init /\ [][Next]_vars
-----------------------------------------------------------------------------
TypeOK ==
    /\ files \in [Paths -> Contents \cup {Torn}] /\ include \in Contents
    /\ store \subseteq [Paths -> Contents \cup {Nothing, Torn}] /\ Cardinality(store) <= 1
    /\ lock \subseteq Contents \X Contents /\ Cardinality(lock) <= 1
    /\ sig \subseteq Keys \X Contents /\ Cardinality(sig) <= 1
    /\ key \in Keys \cup {Nothing} /\ ckpt \subseteq Security /\ Cardinality(ckpt) <= 1

\* Under --require-trust, and for everything that was fetched, only bytes that
\* wb trust add has recorded for that path are executed, however the store is
\* rewritten, torn or lost meanwhile.
RunsWhatWasReviewed ==
    \A e \in ran : (e.sec.trust \/ e.path = Fetched) => <<e.path, e.root>> \in seen.reviewed

\* Under --verify-sig --pubkey, the bytes executed are bytes the owner has signed.
RunsWhatWasSigned ==
    \A e \in ran : (e.sec.sig /\ e.sec.pinned) => <<Owner, e.root>> \in seen.signed

\* Under --locked the steps executed are steps wb lock has recorded, and under
\* --allow-runtime their runtimes are allowed, unless an included file was edited
\* after it was looked at: includes are read again.
RunsWhatWasChecked ==
    \A e \in ran : e.steady =>
         /\ e.sec.locked => <<e.root, e.inc>> \in seen.locked
         /\ (e.sec.allow /\ ~e.resumes) => Allowed(e.path, e.inc)

\* The gates of a run hold of the bytes it executes, not of those it looked at.
RunsWhatWasGated == RunsWhatWasReviewed /\ RunsWhatWasSigned /\ RunsWhatWasChecked

\* What wb resume executes has passed the gates of the run that created the
\* checkpoint, although the workbook may have been edited since.
ResumeKeepsGates ==
    \A e \in ran : e.resumes =>
         /\ e.gates.trust => <<e.path, e.root>> \in seen.reviewed
         /\ (e.gates.sig /\ e.gates.pinned) => <<Owner, e.root>> \in seen.signed
         /\ (e.gates.locked /\ e.steady) => <<e.root, e.inc>> \in seen.locked

\* As long as no two trust commands overlap, the store holds exactly what they
\* recorded; one that is killed while it saves empties it.
StoreIsLedger ==
    (~seen.raced /\ \A q \in Procs : proc[q].pc # "write") => Loaded = seen.ledger
=============================================================================
