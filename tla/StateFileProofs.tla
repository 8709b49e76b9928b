--------------------------- MODULE StateFileProofs ---------------------------
(***************************************************************************)
(* Proofs about StateFile, for any number of processes, files and contents.*)
(* FileInv is inductive as it stands: that the file being written is nobody*)
(* else's (Apart) and how far each save and load has come (Progress) are   *)
(* what keeps the state file whole and private at each rename.  Given it,  *)
(* every step is one of the register's, or none.                           *)
(***************************************************************************)
EXTENDS StateFile, TLAPS

(* In every reachable state of save, load and delete, whoever is killed    *)
(* wherever: types, separate files, progress, NeverTorn and DestIsPrivate. *)
THEOREM FileInvariance == Spec => []FileInv
<1>1. Init => FileInv
  BY Distinct DEF Init, FileInv, TypeOK, Apart, Progress, NeverTorn,
                  DestIsPrivate, Saving, Reading, Halves, Nothing
<1>2. FileInv /\ [Next]_vars => FileInv'
  <2> SUFFICES ASSUME FileInv, [Next]_vars PROVE FileInv'
    OBVIOUS
  <2> USE Distinct DEF FileInv, TypeOK, Goto
  <2>1. ASSUME NEW p \in Procs, NEW v \in Values, NEW i \in Inodes,
             Create(p, v, i)
        PROVE  FileInv'
    <3> USE <2>1 DEF Create, Free
    <3>1. TypeOK'        BY DEF Halves, Nothing, Saving
    <3>2. Apart'         BY DEF Apart
    <3>3. Progress'      BY DEF Progress, Saving, Reading
    <3>4. NeverTorn'     BY DEF NeverTorn, Whole
    <3>5. DestIsPrivate' BY DEF DestIsPrivate
    <3> QED              BY <3>1, <3>2, <3>3, <3>4, <3>5
  <2>2. ASSUME NEW p \in Procs, WriteFront(p)
        PROVE  FileInv'
    <3> USE <2>2 DEF WriteFront
    <3>1. TypeOK'        BY DEF Progress, Halves, Saving
    <3>2. Apart'         BY DEF Apart, Reading
    <3>3. Progress'      BY DEF Progress, Apart, Saving, Reading
    <3>4. NeverTorn'     BY DEF NeverTorn, Whole, Apart, Reading
    <3>5. DestIsPrivate' BY DEF DestIsPrivate
    <3> QED              BY <3>1, <3>2, <3>3, <3>4, <3>5
  <2>3. ASSUME NEW p \in Procs, WriteBack(p)
        PROVE  FileInv'
    <3> USE <2>3 DEF WriteBack
    <3>1. TypeOK'        BY DEF Progress, Halves, Saving
    <3>2. Apart'         BY DEF Apart, Reading
    <3>3. Progress'      BY DEF Progress, Apart, Saving, Reading
    <3>4. NeverTorn'     BY DEF NeverTorn, Whole, Progress
    <3>5. DestIsPrivate' BY DEF DestIsPrivate
    <3> QED              BY <3>1, <3>2, <3>3, <3>4, <3>5
  <2>4. ASSUME NEW p \in Procs, Restrict(p)
        PROVE  FileInv'
    <3> USE <2>4 DEF Restrict
    <3>1. TypeOK'        BY DEF Progress, Saving
    <3>2. Apart'         BY DEF Apart, Reading
    <3>3. Progress'      BY DEF Progress, Saving, Reading
    <3>4. NeverTorn'     BY DEF NeverTorn, Whole
    <3>5. DestIsPrivate' BY DEF DestIsPrivate
    <3> QED              BY <3>1, <3>2, <3>3, <3>4, <3>5
  <2>5. ASSUME NEW p \in Procs, Rename(p)
        PROVE  FileInv'
    <3> USE <2>5 DEF Rename
    <3>1. TypeOK'        OBVIOUS
    <3>2. Apart'         BY DEF Apart, Saving
    <3>3. Progress'      BY DEF Progress, Saving, Reading
    <3>4. NeverTorn'     BY DEF NeverTorn, Whole, Progress
    <3>5. DestIsPrivate' BY DEF DestIsPrivate, Progress
    <3> QED              BY <3>1, <3>2, <3>3, <3>4, <3>5
  <2>6. ASSUME NEW p \in Procs, GiveUp(p)
        PROVE  FileInv'
    <3> USE <2>6 DEF GiveUp
    <3>1. TypeOK'        OBVIOUS
    <3>2. Apart'         BY DEF Apart, Saving
    <3>3. Progress'      BY DEF Progress, Saving, Reading
    <3>4. NeverTorn'     BY DEF NeverTorn, Whole
    <3>5. DestIsPrivate' BY DEF DestIsPrivate
    <3> QED              BY <3>1, <3>2, <3>3, <3>4, <3>5
  <2>7. ASSUME NEW p \in Procs, DeleteLook(p)
        PROVE  FileInv'
    <3> USE <2>7 DEF DeleteLook
    <3>1. TypeOK'        OBVIOUS
    <3>2. Apart'         BY DEF Apart, Saving
    <3>3. Progress'      BY DEF Progress, Saving, Reading
    <3>4. NeverTorn'     BY DEF NeverTorn, Whole
    <3>5. DestIsPrivate' BY DEF DestIsPrivate
    <3> QED              BY <3>1, <3>2, <3>3, <3>4, <3>5
  <2>8. ASSUME NEW p \in Procs, Unlink(p)
        PROVE  FileInv'
    <3> USE <2>8 DEF Unlink
    <3>1. TypeOK'        OBVIOUS
    <3>2. Apart'         BY DEF Apart, Saving
    <3>3. Progress'      BY DEF Progress, Saving, Reading
    <3>4. NeverTorn'     BY DEF NeverTorn, Whole
    <3>5. DestIsPrivate' BY DEF DestIsPrivate
    <3> QED              BY <3>1, <3>2, <3>3, <3>4, <3>5
  <2>9. ASSUME NEW p \in Procs, UnlinkInVain(p)
        PROVE  FileInv'
    <3> USE <2>9 DEF UnlinkInVain
    <3>1. TypeOK'        OBVIOUS
    <3>2. Apart'         BY DEF Apart, Saving
    <3>3. Progress'      BY DEF Progress, Saving, Reading
    <3>4. NeverTorn'     BY DEF NeverTorn, Whole
    <3>5. DestIsPrivate' BY DEF DestIsPrivate
    <3> QED              BY <3>1, <3>2, <3>3, <3>4, <3>5
  <2>10. ASSUME NEW p \in Procs, LookInVain(p)
        PROVE  FileInv'
    <3> USE <2>10 DEF LookInVain, Answer
    <3>1. TypeOK'        OBVIOUS
    <3>2. Apart'         BY DEF Apart
    <3>3. Progress'      BY DEF Progress
    <3>4. NeverTorn'     BY DEF NeverTorn, Whole
    <3>5. DestIsPrivate' BY DEF DestIsPrivate
    <3> QED              BY <3>1, <3>2, <3>3, <3>4, <3>5
  <2>11. ASSUME NEW p \in Procs, Look(p)
        PROVE  FileInv'
    <3> USE <2>11 DEF Look
    <3>1. TypeOK'        OBVIOUS
    <3>2. Apart'         BY DEF Apart, Saving
    <3>3. Progress'      BY DEF Progress, Saving, Reading
    <3>4. NeverTorn'     BY DEF NeverTorn, Whole
    <3>5. DestIsPrivate' BY DEF DestIsPrivate
    <3> QED              BY <3>1, <3>2, <3>3, <3>4, <3>5
  <2>12. ASSUME NEW p \in Procs, Open(p)
        PROVE  FileInv'
    <3> USE <2>12 DEF Open
    <3>1. TypeOK'        BY DEF Reading
    <3>2. Apart'         BY DEF Apart, Saving
    <3>3. Progress'      BY DEF Progress, Saving, Reading
    <3>4. NeverTorn'     BY DEF NeverTorn, Whole
    <3>5. DestIsPrivate' BY DEF DestIsPrivate
    <3> QED              BY <3>1, <3>2, <3>3, <3>4, <3>5
  <2>13. ASSUME NEW p \in Procs, OpenInVain(p)
        PROVE  FileInv'
    <3> USE <2>13 DEF OpenInVain, Answer
    <3>1. TypeOK'        OBVIOUS
    <3>2. Apart'         BY DEF Apart, Saving
    <3>3. Progress'      BY DEF Progress, Saving, Reading
    <3>4. NeverTorn'     BY DEF NeverTorn, Whole
    <3>5. DestIsPrivate' BY DEF DestIsPrivate
    <3> QED              BY <3>1, <3>2, <3>3, <3>4, <3>5
  <2>14. ASSUME NEW p \in Procs, ReadFront(p)
        PROVE  FileInv'
    <3> USE <2>14 DEF ReadFront
    <3>1. TypeOK'        BY DEF Progress, Halves, Reading
    <3>2. Apart'         BY DEF Apart, Saving
    <3>3. Progress'      BY DEF Progress, Saving, Reading
    <3>4. NeverTorn'     BY DEF NeverTorn, Whole
    <3>5. DestIsPrivate' BY DEF DestIsPrivate
    <3> QED              BY <3>1, <3>2, <3>3, <3>4, <3>5
  <2>15. ASSUME NEW p \in Procs, ReadBack(p)
        PROVE  FileInv'
    <3> USE <2>15 DEF ReadBack
    <3>1. TypeOK'        BY DEF Progress, Halves, Reading
    <3>2. Apart'         BY DEF Apart, Saving
    <3>3. Progress'      BY DEF Progress, Saving, Reading
    <3>4. NeverTorn'     BY DEF NeverTorn, Whole
    <3>5. DestIsPrivate' BY DEF DestIsPrivate
    <3> QED              BY <3>1, <3>2, <3>3, <3>4, <3>5
  <2>16. ASSUME NEW p \in Procs, Parse(p)
        PROVE  FileInv'
    <3> USE <2>16 DEF Parse, Parsed, Answer
    <3>1. TypeOK'        BY DEF Halves, Nothing
    <3>2. Apart'         BY DEF Apart, Saving
    <3>3. Progress'      BY DEF Progress, Saving, Reading
    <3>4. NeverTorn'     BY DEF NeverTorn, Whole
    <3>5. DestIsPrivate' BY DEF DestIsPrivate
    <3> QED              BY <3>1, <3>2, <3>3, <3>4, <3>5
  <2>17. ASSUME NEW p \in Procs, Kill(p)
        PROVE  FileInv'
    <3> USE <2>17 DEF Kill
    <3>1. TypeOK'        BY DEF Halves, Nothing
    <3>2. Apart'         BY DEF Apart, Saving
    <3>3. Progress'      BY DEF Progress, Saving, Reading
    <3>4. NeverTorn'     BY DEF NeverTorn, Whole
    <3>5. DestIsPrivate' BY DEF DestIsPrivate
    <3> QED              BY <3>1, <3>2, <3>3, <3>4, <3>5
  <2>18. CASE UNCHANGED vars
    BY <2>18 DEF vars, Apart, Progress, NeverTorn, Whole, DestIsPrivate
  <2> QED
    BY <2>1, <2>2, <2>3, <2>4, <2>5, <2>6, <2>7, <2>8, <2>9,
       <2>10, <2>11, <2>12, <2>13, <2>14, <2>15, <2>16, <2>17, <2>18 DEF Next
<1> QED
  BY <1>1, <1>2, PTL DEF Spec

(* Neither a load nor anything that opens the file ever sees half a save   *)
(* (write_secret_file: rename of a finished temporary file).               *)
THEOREM NeverHalfWritten == Spec => []NeverTorn
BY FileInvariance, PTL DEF FileInv

(* What is under the state file's name always has mode 0600.               *)
THEOREM NeverShared == Spec => []DestIsPrivate
BY FileInvariance, PTL DEF FileInv

(* save, load and delete implement the register of FileRegister: a save    *)
(* takes effect at its rename, a load at its open, a delete at its unlink. *)
THEOREM Refinement == Spec => IsRegister
<1>1. Init => R!Init
  BY Distinct DEF Init, R!Init, Content
<1>2. FileInv /\ [Next]_vars => [R!Next]_(R!vars)
  <2> SUFFICES ASSUME FileInv, [Next]_vars PROVE [R!Next]_(R!vars)
    OBVIOUS
  <2> USE Distinct DEF FileInv, TypeOK
  <2> DEFINE Seen == [p \in Procs |-> Content(opened[p])]
  <2>1. ASSUME NEW p \in Procs, NEW v \in Values, NEW i \in Inodes,
             Create(p, v, i)
        PROVE  UNCHANGED R!vars
    BY <2>1 DEF Create, Free, Content, R!vars
  <2>2. ASSUME NEW p \in Procs, WriteFront(p)
        PROVE  UNCHANGED R!vars
    BY <2>2 DEF WriteFront, Content, R!vars, Apart, Reading
  <2>3. ASSUME NEW p \in Procs, WriteBack(p)
        PROVE  UNCHANGED R!vars
    BY <2>3 DEF WriteBack, Content, R!vars
  <2>4. ASSUME NEW p \in Procs, Restrict(p)
        PROVE  UNCHANGED R!vars
    BY <2>4 DEF Restrict, Content, R!vars
  <2>5. ASSUME NEW p \in Procs, Rename(p)
        PROVE  R!Put(goal[p])
    BY <2>5 DEF Rename, Content, R!Put, Progress
  <2>6. ASSUME NEW p \in Procs, GiveUp(p)
        PROVE  UNCHANGED R!vars
    BY <2>6 DEF GiveUp, Content, R!vars
  <2>7. ASSUME NEW p \in Procs, DeleteLook(p)
        PROVE  UNCHANGED R!vars
    BY <2>7 DEF DeleteLook, Content, R!vars
  <2>8. ASSUME NEW p \in Procs, Unlink(p)
        PROVE  R!Remove
    BY <2>8 DEF Unlink, Content, R!Remove
  <2>9. ASSUME NEW p \in Procs, UnlinkInVain(p)
        PROVE  UNCHANGED R!vars
    BY <2>9 DEF UnlinkInVain, Content, R!vars
  <2>10. ASSUME NEW p \in Procs, LookInVain(p)
        PROVE  R!Missing(p)
    BY <2>10 DEF LookInVain, Answer, Content, R!Missing
  <2>11. ASSUME NEW p \in Procs, Look(p)
        PROVE  UNCHANGED R!vars
    BY <2>11 DEF Look, Content, R!vars
  <2>12. ASSUME NEW p \in Procs, Open(p)
         PROVE  R!Begin(p)
    <3> USE <2>12 DEF Open
    <3>1. Content(dest) # Absent
      BY DEF NeverTorn, Whole, Content, Halves
    <3>2. Seen' = [Seen EXCEPT ![p] = Content(dest)]
      BY DEF Content
    <3>3. Content(dest)' = Content(dest) /\ got' = got
      BY DEF Content
    <3> QED
      BY <3>1, <3>2, <3>3 DEF R!Begin
  <2>13. ASSUME NEW p \in Procs, OpenInVain(p)
        PROVE  R!Missing(p)
    BY <2>13 DEF OpenInVain, Answer, Content, R!Missing
  <2>14. ASSUME NEW p \in Procs, ReadFront(p)
        PROVE  UNCHANGED R!vars
    BY <2>14 DEF ReadFront, Content, R!vars
  <2>15. ASSUME NEW p \in Procs, ReadBack(p)
        PROVE  UNCHANGED R!vars
    BY <2>15 DEF ReadBack, Content, R!vars
  <2>16. ASSUME NEW p \in Procs, Parse(p)
         PROVE  R!Answer(p)
    <3> USE <2>16 DEF Parse
    <3>1. opened[p] \in Inodes /\ opened[p] # None /\ Whole(opened[p])
      BY DEF Progress, NeverTorn, Reading
    <3>2. Content(opened[p]) # Absent /\ Parsed(buf[p]) = Content(opened[p])
      BY <3>1 DEF Whole, Content, Halves, Progress, Parsed
    <3>3. Seen' = [Seen EXCEPT ![p] = Absent]
      BY DEF Content
    <3>4. got' = [got EXCEPT ![p] = Content(opened[p])]
      BY <3>2 DEF Answer
    <3>5. Content(dest)' = Content(dest)
      BY DEF Content
    <3> QED
      BY <3>2, <3>3, <3>4, <3>5 DEF R!Answer
  <2>17. ASSUME NEW p \in Procs, Kill(p)
        PROVE  R!Abandon(p)
    BY <2>17 DEF Kill, Content, R!Abandon
  <2>18. CASE UNCHANGED vars
    BY <2>18 DEF vars, R!vars, Content
  <2>19. ASSUME NEW p \in Procs, Rename(p) PROVE goal[p] \in Values
    BY <2>19 DEF Rename, Progress
  <2> QED
    BY <2>1, <2>2, <2>3, <2>4, <2>5, <2>6, <2>7, <2>8, <2>9,
       <2>10, <2>11, <2>12, <2>13, <2>14, <2>15, <2>16, <2>17, <2>18, <2>19 DEF Next, R!Next
<1> QED
  BY <1>1, <1>2, FileInvariance, PTL DEF Spec, IsRegister, R!Spec

=============================================================================
