------------------------------ MODULE Sandbox ------------------------------
(***************************************************************************)
(* Workbooks that run in a container (src/src/sandbox.rs, the callers in   *)
(* src/src/lib.rs).                                                        *)
(*                                                                         *)
(* The image is found by its tag, a hash of what the workbook requires; it *)
(* is built when Docker has none of that tag.  The environment goes into   *)
(* the container by a file of its own, which holds secrets.  wb containers *)
(* builds images ahead of time and removes them, at any time.              *)
(***************************************************************************)
EXTENDS Integers, Sequences

CONSTANTS
    Procs,      \* processes: wb run over one workbook, wb containers build over several
    Dirs,       \* directories with workbooks and custom Dockerfiles
    Cwd,        \* the directory the processes are started in
    Jobs,       \* what a process may be started with
    Contents,   \* what a custom Dockerfile may say
    NoContent,  \* no such file
    MaxEdits    \* bound: edits of Dockerfiles

SandboxAssumption == Cwd \in Dirs /\ NoContent \notin Contents /\ MaxEdits \in Nat

VARIABLES
    dockerfile, \* directory -> what its Dockerfile says
    images,     \* what Docker has: [tag, made], one for each tag
    envFiles,   \* the processes whose environment file exists
    proc,       \* process -> what it is doing
    edits

sandboxVars == <<dockerfile, images, envFiles, proc, edits>>

NoRequires == [sandbox |-> "none"]
Idle == [pc |-> "idle", command |-> "none", books |-> << >>, tag |-> << >>, made |-> << >>,
         errors |-> 0, exit |-> -1]

Success == 0
BlockFailed == 1
Unavailable == 5

SandboxInit ==
    /\ dockerfile \in [Dirs -> Contents \union {NoContent}]
    /\ images = {} /\ envFiles = {} /\ edits = 0
    /\ proc = [p \in Procs |-> Idle]

Step(p, pc) == proc' = [proc EXCEPT ![p].pc = pc]
Exits(p, code) == proc' = [proc EXCEPT ![p].pc = "done", ![p].exit = code]

-----------------------------------------------------------------------------
(* What an image is made from, and its tag.                                *)

BaseApt == [python |-> {"python3"}, node |-> {"nodejs"}]

\* generate_dockerfile: a Python image takes no npm packages, a Node image no pip packages.
Generated(req) ==
    [base |-> req.sandbox, apt |-> BaseApt[req.sandbox] \union req.apt,
     pip |-> IF req.sandbox = "python" THEN req.pip ELSE {},
     npm |-> IF req.sandbox = "node" THEN req.npm ELSE {}]

\* What build_image hands to docker build, from the directory of the workbook.
Recipe(book) ==
    IF book.requires.sandbox = "custom" THEN dockerfile[book.dir] ELSE Generated(book.requires)

\* image_tag: all the lists and the Dockerfile, which is read where the process was started;
\* when there is none, its name stands in for it.
HashedFile(req) == IF ~req.dockerfile THEN "none" ELSE dockerfile[Cwd]

Tag_NoNpm(req) == <<req.sandbox, req.apt, req.pip, HashedFile(req)>>

Tag(req) == <<req.sandbox, req.apt, req.pip, req.npm, HashedFile(req)>>

\* validate_packages.
Valid(req) == "bad" \notin req.apt \union req.pip \union req.npm

Has(tag) == \E i \in images : i.tag = tag

-----------------------------------------------------------------------------
(* wb run and wb containers build.                                         *)

Book(p) == Head(proc[p].books)

Start(p, job) ==
    /\ proc[p].pc = "idle"
    /\ proc' = [proc EXCEPT ![p] = [Idle EXCEPT !.command = job.command, !.books = job.books, !.pc = "next"]]
    /\ UNCHANGED <<dockerfile, images, envFiles, edits>>

\* wb run --sandbox gives a workbook that requires nothing a plain image of its runtime;
\* without it the workbook is run by this process, and is not followed further.
RunInProcess(p) ==
    /\ proc[p].pc = "next" /\ proc[p].command = "run" /\ Book(p).requires = NoRequires
    /\ Exits(p, Success)
    /\ UNCHANGED <<dockerfile, images, envFiles, edits>>

\* wb containers build: nothing to build, an image that exists, or one to build.
Consider(p) ==
    /\ proc[p].pc = "next" /\ proc[p].command = "build"
    /\ IF proc[p].books = << >>
       THEN Exits(p, IF proc[p].errors > 0 THEN BlockFailed ELSE Success)
       ELSE IF Book(p).requires = NoRequires \/ Has(Tag(Book(p).requires))
       THEN proc' = [proc EXCEPT ![p].books = Tail(@)]
       ELSE Step(p, "image")
    /\ UNCHANGED <<dockerfile, images, envFiles, edits>>

Enter(p) ==
    /\ proc[p].pc = "next" /\ proc[p].command = "run" /\ Book(p).requires # NoRequires
    /\ Step(p, "image")
    /\ UNCHANGED <<dockerfile, images, envFiles, edits>>

\* build_image could not: wb run stops, wb containers build goes on to the next workbook.
NoImage(p) ==
    IF proc[p].command = "run" THEN Exits(p, Unavailable)
    ELSE proc' = [proc EXCEPT ![p].pc = "next", ![p].books = Tail(@), ![p].errors = @ + 1]

\* The image is there, or has been built.
Ready(p, tag) ==
    proc' = [proc EXCEPT ![p].pc = IF proc[p].command = "run" THEN "env" ELSE "next",
                         ![p].books = IF proc[p].command = "run" THEN @ ELSE Tail(@),
                         ![p].tag = tag]

\* build_image: the packages, the tag, and whether Docker has the image.
Look(p) ==
    /\ proc[p].pc = "image"
    /\ LET req == Book(p).requires IN
       IF ~Valid(req) THEN NoImage(p)
       ELSE IF Has(Tag(req)) THEN Ready(p, Tag(req))
       ELSE proc' = [proc EXCEPT ![p].pc = "build", ![p].tag = Tag(req)]
    /\ UNCHANGED <<dockerfile, images, envFiles, edits>>

\* A kind of sandbox wb does not know, a custom one without a Dockerfile, and a build that
\* fails leave no image; another process may have built it meanwhile, and is overwritten.
CannotBuild(book) ==
    \/ book.requires.sandbox \notin {"python", "node", "custom"}
    \/ book.requires.sandbox = "custom" /\ (~book.requires.dockerfile \/ dockerfile[book.dir] = NoContent)

Build(p) ==
    /\ proc[p].pc = "build"
    /\ \/ NoImage(p) /\ UNCHANGED images
       \/ /\ ~CannotBuild(Book(p))
          /\ images' = {i \in images : i.tag # proc[p].tag}
                          \union {[tag |-> proc[p].tag, made |-> Recipe(Book(p))]}
          /\ Ready(p, proc[p].tag)
    /\ UNCHANGED <<dockerfile, envFiles, edits>>

\* The environment file; nothing runs when it cannot be written.
WriteEnv(p) ==
    /\ proc[p].pc = "env"
    /\ \/ envFiles' = envFiles \union {p} /\ Step(p, "start")
       \/ Exits(p, BlockFailed) /\ UNCHANGED envFiles
    /\ UNCHANGED <<dockerfile, images, edits>>

\* docker run, by the tag: an image that was removed meanwhile is not found.
StartContainer(p) ==
    /\ proc[p].pc = "start"
    /\ proc' = [proc EXCEPT ![p].pc = IF Has(proc[p].tag) THEN "inside" ELSE "remove",
                            ![p].made = IF Has(proc[p].tag)
                                        THEN (CHOOSE i \in images : i.tag = proc[p].tag).made ELSE @,
                            ![p].exit = BlockFailed]
    /\ UNCHANGED <<dockerfile, images, envFiles, edits>>

ContainerEnds(p, code) ==
    /\ proc[p].pc = "inside"
    /\ proc' = [proc EXCEPT ![p].pc = "remove", ![p].exit = code]
    /\ UNCHANGED <<dockerfile, images, envFiles, edits>>

\* The environment file is removed, whatever came of the run.
RemoveEnv(p) ==
    /\ proc[p].pc = "remove"
    /\ envFiles' = envFiles \ {p}
    /\ Exits(p, proc[p].exit)
    /\ UNCHANGED <<dockerfile, images, edits>>

-----------------------------------------------------------------------------
(* Others.                                                                 *)

\* wb containers prune: Docker keeps an image that a container runs from.
Prune(i) ==
    /\ \A p \in Procs : proc[p].pc = "inside" => proc[p].tag # i.tag
    /\ images' = images \ {i}
    /\ UNCHANGED <<dockerfile, envFiles, proc, edits>>

Edit(d, content) ==
    /\ edits < MaxEdits /\ edits' = edits + 1
    /\ dockerfile' = [dockerfile EXCEPT ![d] = content]
    /\ UNCHANGED <<images, envFiles, proc>>

Kill(p) ==
    /\ proc[p].pc \notin {"idle", "done", "killed"}
    /\ Step(p, "killed")
    /\ UNCHANGED <<dockerfile, images, envFiles, edits>>

SandboxNext ==
    \/ \E p \in Procs :
          \/ \E job \in Jobs : Start(p, job)
          \/ RunInProcess(p) \/ Consider(p) \/ Enter(p) \/ Look(p) \/ Build(p) \/ WriteEnv(p)
          \/ StartContainer(p) \/ RemoveEnv(p) \/ Kill(p)
          \/ \E code \in {Success, BlockFailed} : ContainerEnds(p, code)
    \/ \E i \in images : Prune(i)
    \/ \E d \in Dirs, content \in Contents : Edit(d, content)

-----------------------------------------------------------------------------

SandboxTypeOK ==
    /\ envFiles \subseteq Procs /\ edits \in 0..MaxEdits
    /\ \A i, j \in images : i.tag = j.tag => i = j
    /\ \A p \in Procs : proc[p].exit \in {-1, Success, BlockFailed, Unavailable}

Inside(p) == proc[p].pc = "inside"

\* A container runs from an image made of all that its workbook requires and nothing else,
\* whoever built the image, whatever was pruned and built again under way.
RunsRequired ==
    \A p \in Procs :
        Inside(p) /\ Book(p).requires.sandbox # "custom" => proc[p].made = Generated(Book(p).requires)

\* A process that was not killed leaves no environment file, however the run went.
EnvFileGone == \A p \in Procs : proc[p].pc = "done" => p \notin envFiles

\* "Hash the file contents for custom dockerfiles" (sandbox.rs:166): as long as nobody edits
\* one, a workbook runs in the image of its own Dockerfile.
RunsItsDockerfile ==
    \A p \in Procs :
        Inside(p) /\ Book(p).requires.sandbox = "custom" /\ edits = 0
            => proc[p].made = dockerfile[Book(p).dir]
=============================================================================
