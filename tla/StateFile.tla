------------------------------ MODULE StateFile ------------------------------
(***************************************************************************)
(* How the state files are written and read: src/atomic_io.rs under the    *)
(* `save`, `load` and `delete` of src/checkpoint.rs and src/pending.rs.    *)
(* A save writes a sibling temporary file of a name of its own (pid and    *)
(* nanoseconds), restricts its mode and renames it over the state file; a  *)
(* load looks for the file, opens it and reads it.  None of this takes a   *)
(* lock: `wb cancel` and `wb pending` meet a live session here.            *)
(*                                                                         *)
(* Files are inodes; a content is written, and read, half by half, which   *)
(* stands for any number of chunks.  A process may be killed, and every    *)
(* operation of a save may fail, between any two.  The file of a temporary *)
(* name whose writer is gone is never looked at again, so its inode counts *)
(* as free.                                                                *)
(***************************************************************************)
CONSTANTS
  Procs,   \* processes
  Inodes,  \* files
  Values,  \* contents
  None,    \* no inode
  Blank,   \* a half that is not written, or not read, yet
  Absent,  \* there is no file
  Failed   \* a load that ended with an error

ASSUME Distinct ==
  /\ None \notin Inodes
  /\ Blank \notin Values
  /\ Absent \notin Values
  /\ Failed \notin Values

VARIABLES
  dest,    \* the inode of the state file, if it exists
  data,    \* what is in each inode
  private, \* the inodes of mode 0600
  pc,      \* what each process does next
  tmp,     \* the inode of its temporary file
  goal,    \* the content it is saving
  opened,  \* the inode it is reading
  buf,     \* what it has read
  got      \* the answer to its last load

vars == <<dest, data, private, pc, tmp, goal, opened, buf, got>>

Halves == [front : Values \union {Blank}, back : Values \union {Blank}]
Nothing == [front |-> Blank, back |-> Blank]

(* Contents are JSON: half a file, or halves of two, do not parse.         *)
Parsed(b) == IF b.front = b.back /\ b.front # Blank THEN b.front ELSE Failed

Init ==
  /\ dest = None
  /\ data = [i \in Inodes |-> Nothing]
  /\ private = {}
  /\ pc = [p \in Procs |-> "idle"]
  /\ tmp = [p \in Procs |-> None]
  /\ goal = [p \in Procs |-> Blank]
  /\ opened = [p \in Procs |-> None]
  /\ buf = [p \in Procs |-> Nothing]
  /\ got = [p \in Procs |-> Absent]

Goto(p, label) == pc' = [pc EXCEPT ![p] = label]

-----------------------------------------------------------------------------
(* save: write_secret_file.                                                *)

Free(i) == /\ i # dest
           /\ \A q \in Procs : tmp[q] # i /\ opened[q] # i

(* Mutant: every save uses one and the same temporary name. *)
Create_SharedName(p, v, i) ==
  /\ pc[p] = "idle"
  /\ \/ Free(i) /\ \A q \in Procs : tmp[q] = None
     \/ \E q \in Procs : tmp[q] = i
  /\ tmp' = [tmp EXCEPT ![p] = i]
  /\ goal' = [goal EXCEPT ![p] = v]
  /\ data' = [data EXCEPT ![i] = Nothing]
  /\ private' = private
  /\ Goto(p, "front")
  /\ UNCHANGED <<dest, opened, buf, got>>

(* Mutant: the state file itself is truncated and written again. *)
Create_InPlace(p, v, i) ==
  /\ pc[p] = "idle"
  /\ IF dest = None THEN Free(i) ELSE i = dest
  /\ tmp' = [tmp EXCEPT ![p] = i]
  /\ goal' = [goal EXCEPT ![p] = v]
  /\ data' = [data EXCEPT ![i] = Nothing]
  /\ UNCHANGED private
  /\ Goto(p, "front")
  /\ UNCHANGED <<dest, opened, buf, got>>

Create(p, v, i) ==
  /\ pc[p] = "idle"
  /\ Free(i)
  /\ tmp' = [tmp EXCEPT ![p] = i]
  /\ goal' = [goal EXCEPT ![p] = v]
  /\ data' = [data EXCEPT ![i] = Nothing]
  /\ private' = private \ {i}
  /\ Goto(p, "front")
  /\ UNCHANGED <<dest, opened, buf, got>>

WriteFront(p) ==
  /\ pc[p] = "front"
  /\ data' = [data EXCEPT ![tmp[p]].front = goal[p]]
  /\ Goto(p, "back")
  /\ UNCHANGED <<dest, private, tmp, goal, opened, buf, got>>

WriteBack(p) ==
  /\ pc[p] = "back"
  /\ data' = [data EXCEPT ![tmp[p]].back = goal[p]]
  /\ Goto(p, "restrict")
  /\ UNCHANGED <<dest, private, tmp, goal, opened, buf, got>>

Restrict(p) ==
  /\ pc[p] = "restrict"
  /\ private' = private \union {tmp[p]}
  /\ Goto(p, "rename")
  /\ UNCHANGED <<dest, data, tmp, goal, opened, buf, got>>

Rename(p) ==
  /\ pc[p] = "rename"
  /\ dest' = tmp[p]
  /\ tmp' = [tmp EXCEPT ![p] = None]
  /\ goal' = [goal EXCEPT ![p] = Blank]
  /\ Goto(p, "idle")
  /\ UNCHANGED <<data, private, opened, buf, got>>

(* The disk is full, the mode cannot be set, the rename fails: the save    *)
(* returns an error and the temporary file is removed or left behind.      *)
GiveUp(p) ==
  /\ pc[p] \in {"front", "back", "restrict", "rename"}
  /\ tmp' = [tmp EXCEPT ![p] = None]
  /\ goal' = [goal EXCEPT ![p] = Blank]
  /\ Goto(p, "idle")
  /\ UNCHANGED <<dest, data, private, opened, buf, got>>

-----------------------------------------------------------------------------
(* delete: looks for the file, then unlinks it; if somebody else did so in *)
(* between it ends with an error.                                          *)

DeleteLook(p) ==
  /\ pc[p] = "idle"
  /\ dest # None
  /\ Goto(p, "doomed")
  /\ UNCHANGED <<dest, data, private, tmp, goal, opened, buf, got>>

Unlink(p) ==
  /\ pc[p] = "doomed"
  /\ dest # None
  /\ dest' = None
  /\ Goto(p, "idle")
  /\ UNCHANGED <<data, private, tmp, goal, opened, buf, got>>

UnlinkInVain(p) ==
  /\ pc[p] = "doomed"
  /\ dest = None
  /\ Goto(p, "idle")
  /\ UNCHANGED <<dest, data, private, tmp, goal, opened, buf, got>>

-----------------------------------------------------------------------------
(* load.                                                                   *)

Answer(p, a) == got' = [got EXCEPT ![p] = a]

LookInVain(p) ==
  /\ pc[p] = "idle"
  /\ dest = None
  /\ Answer(p, Absent)
  /\ UNCHANGED <<dest, data, private, pc, tmp, goal, opened, buf>>

Look(p) ==
  /\ pc[p] = "idle"
  /\ dest # None
  /\ Goto(p, "found")
  /\ UNCHANGED <<dest, data, private, tmp, goal, opened, buf, got>>

Open(p) ==
  /\ pc[p] = "found"
  /\ dest # None
  /\ opened' = [opened EXCEPT ![p] = dest]
  /\ Goto(p, "reading")
  /\ UNCHANGED <<dest, data, private, tmp, goal, buf, got>>

(* Somebody removed it in between: "read checkpoint" error.                *)
OpenInVain(p) ==
  /\ pc[p] = "found"
  /\ dest = None
  /\ Answer(p, Failed)
  /\ Goto(p, "idle")
  /\ UNCHANGED <<dest, data, private, tmp, goal, opened, buf>>

ReadFront(p) ==
  /\ pc[p] = "reading"
  /\ buf' = [buf EXCEPT ![p].front = data[opened[p]].front]
  /\ Goto(p, "rest")
  /\ UNCHANGED <<dest, data, private, tmp, goal, opened, got>>

ReadBack(p) ==
  /\ pc[p] = "rest"
  /\ buf' = [buf EXCEPT ![p].back = data[opened[p]].back]
  /\ Goto(p, "parse")
  /\ UNCHANGED <<dest, data, private, tmp, goal, opened, got>>

Parse(p) ==
  /\ pc[p] = "parse"
  /\ Answer(p, Parsed(buf[p]))
  /\ opened' = [opened EXCEPT ![p] = None]
  /\ buf' = [buf EXCEPT ![p] = Nothing]
  /\ Goto(p, "idle")
  /\ UNCHANGED <<dest, data, private, tmp, goal>>

Kill(p) ==
  /\ pc[p] # "idle"
  /\ tmp' = [tmp EXCEPT ![p] = None]
  /\ goal' = [goal EXCEPT ![p] = Blank]
  /\ opened' = [opened EXCEPT ![p] = None]
  /\ buf' = [buf EXCEPT ![p] = Nothing]
  /\ Goto(p, "idle")
  /\ UNCHANGED <<dest, data, private, got>>

Next ==
  \E p \in Procs :
    \/ \E v \in Values, i \in Inodes : Create(p, v, i)
    \/ WriteFront(p) \/ WriteBack(p) \/ Restrict(p) \/ Rename(p) \/ GiveUp(p)
    \/ DeleteLook(p) \/ Unlink(p) \/ UnlinkInVain(p)
    \/ LookInVain(p) \/ Look(p) \/ Open(p) \/ OpenInVain(p)
    \/ ReadFront(p) \/ ReadBack(p) \/ Parse(p)
    \/ Kill(p)

Spec == Init /\ [][Next]_vars

-----------------------------------------------------------------------------
(* Properties.                                                             *)

Saving  == {"front", "back", "restrict", "rename"}
Reading == {"reading", "rest", "parse"}

TypeOK ==
  /\ dest \in Inodes \union {None}
  /\ data \in [Inodes -> Halves]
  /\ private \subseteq Inodes
  /\ pc \in [Procs -> {"idle", "doomed", "found"} \union Saving \union Reading]
  /\ tmp \in [Procs -> Inodes \union {None}]
  /\ goal \in [Procs -> Values \union {Blank}]
  /\ opened \in [Procs -> Inodes \union {None}]
  /\ buf \in [Procs -> Halves]
  /\ got \in [Procs -> Values \union {Absent, Failed}]

Whole(i) == data[i].front = data[i].back /\ data[i].front # Blank

(* A file that is being written is not the state file, nor read by anyone. *)
Apart ==
  \A p \in Procs : pc[p] \in Saving =>
    /\ tmp[p] # None /\ tmp[p] # dest
    /\ \A q \in Procs : /\ opened[q] # tmp[p]
                        /\ q # p => tmp[q] # tmp[p]

(* How far each save and each load has come.                               *)
Progress ==
  \A p \in Procs :
    /\ pc[p] \in Saving <=> tmp[p] # None
    /\ pc[p] \in Saving => goal[p] \in Values
    /\ pc[p] \in {"back", "restrict", "rename"} => data[tmp[p]].front = goal[p]
    /\ pc[p] \in {"restrict", "rename"} => data[tmp[p]].back = goal[p]
    /\ pc[p] = "rename" => tmp[p] \in private
    /\ pc[p] \in Reading <=> opened[p] # None
    /\ pc[p] \in {"rest", "parse"} => buf[p].front = data[opened[p]].front
    /\ pc[p] = "parse" => buf[p].back = data[opened[p]].back

(* What can be opened is whole, and what is being read stays whole.        *)
NeverTorn ==
  /\ dest # None => Whole(dest)
  /\ \A p \in Procs : opened[p] # None => Whole(opened[p])

(* The state file is never readable by other users of the machine: it holds*)
(* captured output and secrets (atomic_io.rs).                             *)
DestIsPrivate == dest # None => dest \in private

FileInv == TypeOK /\ Apart /\ Progress /\ NeverTorn /\ DestIsPrivate

(* To its callers the file is a register.                                  *)
Content(i) == IF i = None THEN Absent ELSE data[i].front

R == INSTANCE FileRegister WITH
       value <- Content(dest),
       seen  <- [p \in Procs |-> Content(opened[p])],
       got   <- got

(* save, load and delete keep the promise of FileRegister.                 *)
IsRegister == R!Spec

=============================================================================
