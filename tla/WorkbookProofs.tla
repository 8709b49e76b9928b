--------------------------- MODULE WorkbookProofs ---------------------------
(***************************************************************************)
(* Proofs about the text of workbooks and the verdicts on them, for every  *)
(* text, edit, setting and folder: what includes resolve to, which step a  *)
(* session goes on with, what --dry-run and wb validate promise, and what  *)
(* wb test, wb verify and a folder run conclude.                           *)
(***************************************************************************)
EXTENDS Front, SequenceTheorems, FiniteSetTheorems, WellFoundedInduction, TLAPS

USE DEF xs

-----------------------------------------------------------------------------
(* Numbers and sequences.                                                  *)

LEMMA Less == IsWellFoundedOn({p \in Nat \X Nat : p[1] < p[2]}, Nat)
BY NatLessThanWellFounded DEF OpToRel

(* A set of numbers has a least one.                                       *)
LEMMA Least == ASSUME NEW S \in SUBSET Nat, S # {} PROVE \E x \in S : \A y \in S : x <= y
<1> DEFINE R == {p \in Nat \X Nat : p[1] < p[2]}
<1>1. PICK x \in S : \A y \in S : ~ (<<y, x>> \in R)
  <2> HIDE DEF R
  <2> QED BY Less, WFMin DEF R
<1>2. ASSUME NEW y \in S PROVE x <= y
  <2>1. ~ (<<y, x>> \in R)
    BY <1>1
  <2>2. QED
    BY <2>1
<1>3. QED
  BY <1>2

(* Induction up to n, over a set of numbers in place of a predicate.       *)
LEMMA Induction ==
  ASSUME NEW n \in Nat, NEW S, 0 \in S, \A k \in 1..n : k-1 \in S => k \in S
  PROVE  0..n \subseteq S
<1> DEFINE bad == {k \in 0..n : k \notin S}
<1>1. SUFFICES ASSUME bad # {} PROVE FALSE
  OBVIOUS
<1>2. PICK x \in bad : \A y \in bad : x <= y
  <2>1. bad \in SUBSET Nat
    OBVIOUS
  <2> HIDE DEF bad
  <2>2. QED
    BY <1>1, <2>1, Least
<1>3. x \in 1..n /\ x - 1 \in 0..n /\ ~(x <= x - 1)
  BY <1>2
<1>4. x - 1 \in S
  BY <1>2, <1>3
<1>5. QED
  BY <1>2, <1>3, <1>4

(* A sequence, of whatever it holds.                                       *)
Sequence(s) == s \in Seq({s[i] : i \in DOMAIN s})

LEMMA SequenceIs ==
  ASSUME NEW s PROVE Sequence(s) <=> \E n \in Nat : s \in [1..n -> {s[i] : i \in DOMAIN s}]
BY SeqDef DEF Sequence

LEMMA Lengths ==
  ASSUME NEW s, Sequence(s)
  PROVE  /\ Len(s) \in Nat /\ DOMAIN s = 1..Len(s)
         /\ \A i \in DOMAIN s : i \in Nat /\ 1 <= i
BY DEF Sequence

(* A function on 1..n is one.                                              *)
LEMMA IsSequence ==
  ASSUME NEW n \in Nat, NEW s, s = [i \in 1..n |-> s[i]] PROVE Sequence(s) /\ Len(s) = n
<1>1. s \in [1..n -> {s[i] : i \in DOMAIN s}]
  <2> DEFINE R == {s[i] : i \in DOMAIN s}
  <2>1. DOMAIN s = 1..n
    OBVIOUS
  <2>2. \A i \in 1..n : s[i] \in R
    BY <2>1
  <2> HIDE DEF R
  <2>3. QED
    BY <2>1, <2>2
<1>2. Sequence(s)
  BY <1>1, SequenceIs
<1>3. Len(s) = n
  BY <1>2, Lengths
<1>4. QED
  BY <1>2, <1>3

LEMMA Typed == ASSUME NEW R, NEW s \in Seq(R) PROVE Sequence(s)
<1>1. PICK n \in Nat : s \in [1..n -> R]
  BY SeqDef
<1>2. DOMAIN s = 1..n
  BY <1>1
<1>3. s = [i \in 1..n |-> s[i]]
  BY <1>1
<1>4. QED
  BY <1>3, IsSequence

LEMMA Appended ==
  ASSUME NEW s, Sequence(s), NEW e
  PROVE  /\ Sequence(Append(s, e)) /\ Len(Append(s, e)) = Len(s) + 1
         /\ \A i \in DOMAIN s : Append(s, e)[i] = s[i]
         /\ Append(s, e)[Len(s) + 1] = e
<1>1. PICK R : R = {s[i] : i \in DOMAIN s} \union {e}
  OBVIOUS
<1>2. s \in Seq(R)
  <2>1. {s[i] : i \in DOMAIN s} \subseteq R
    BY <1>1
  <2>2. QED
    BY <2>1, SeqMonotonic DEF Sequence
<1>3. e \in R
  BY <1>1
<1>4. /\ Append(s, e) \in Seq(R) /\ Len(Append(s, e)) = Len(s) + 1
      /\ \A i \in 1..Len(s) : Append(s, e)[i] = s[i]
      /\ Append(s, e)[Len(s) + 1] = e
  BY <1>2, <1>3, AppendProperties
<1>7. Sequence(Append(s, e))
  BY <1>4, Typed
<1>8. QED
  BY <1>4, <1>7, Lengths

LEMMA Concatenated ==
  ASSUME NEW s, NEW t, Sequence(s), Sequence(t)
  PROVE  /\ Sequence(s \o t) /\ Len(s \o t) = Len(s) + Len(t)
         /\ \A i \in DOMAIN s : (s \o t)[i] = s[i]
         /\ \A i \in DOMAIN t : (s \o t)[Len(s) + i] = t[i]
         /\ \A i \in DOMAIN (s \o t) :
               \/ i \in DOMAIN s /\ (s \o t)[i] = s[i]
               \/ i - Len(s) \in DOMAIN t /\ (s \o t)[i] = t[i - Len(s)]
<1>1. PICK R : R = {s[i] : i \in DOMAIN s} \union {t[i] : i \in DOMAIN t}
  OBVIOUS
<1>2. s \in Seq(R) /\ t \in Seq(R)
  <2>1. {s[i] : i \in DOMAIN s} \subseteq R /\ {t[i] : i \in DOMAIN t} \subseteq R
    BY <1>1
  <2>2. QED
    BY <2>1, SeqMonotonic DEF Sequence
<1>3. /\ s \o t \in Seq(R) /\ Len(s \o t) = Len(s) + Len(t)
      /\ \A i \in 1..(Len(s) + Len(t)) : (s \o t)[i] = IF i <= Len(s) THEN s[i] ELSE t[i - Len(s)]
  BY <1>2, ConcatProperties
<1>4. /\ Len(s) \in Nat /\ Len(t) \in Nat /\ DOMAIN s = 1..Len(s) /\ DOMAIN t = 1..Len(t)
  BY Lengths
<1>5. DOMAIN (s \o t) = 1..(Len(s) + Len(t))
  BY <1>3, <1>4
<1>7. Sequence(s \o t)
  BY <1>3, Typed
<1>8. QED
  BY <1>3, <1>4, <1>5, <1>7

LEMMA EmptySequence == Sequence(<< >>) /\ Len(<< >>) = 0 /\ DOMAIN << >> = {}
<1>1. << >> \in Seq({<< >>[i] : i \in DOMAIN << >>})
  BY EmptySeq
<1>2. QED
  BY <1>1 DEF Sequence

-----------------------------------------------------------------------------
(* Where a session goes on, and what its preview says.                     *)

Fates == {"selection", "no_run", "condition", "run"}

(* What is kept of a block that a session has passed.                      *)
Entries(plan, in) ==
  {[k |-> k, fate |-> fate, policy |-> T!Policy(plan, in, k)] : k \in Nat, fate \in Fates}

(* A checkpoint has the fields of a fresh one.                             *)
IsCheckpoint(c) == DOMAIN c = {"next", "step", "total", "done", "param", "skipped"}

StepsShape ==
  /\ DOMAIN x4 = DOMAIN T!Idle
  /\ x4.on \in BOOLEAN /\ x4.at \in Nat
  /\ x4.did \in Seq(Entries(x4.plan, x1))
  /\ x3 = {} \/ (\E c : x3 = {c} /\ IsCheckpoint(c))
  /\ x4.on => \E c : x4.ckpt = {c} /\ IsCheckpoint(c)

(* A saved checkpoint that skipped nothing has the number and the id of the*)
(* step that was next.                                                     *)
SavedOK ==
  \A c \in x3 : ~c.done /\ c.skipped = {} =>
    /\ x6.stop = T!At(x6.plan, c.next)
    /\ c.step = T!IdAt(x6.plan, c.next)

(* Until it has passed a block live, a resumed session has the skips and   *)
(* the position of the file.                                               *)
ResumedOK ==
  x4.on /\ x4.resumed /\ x4.did = << >> =>
    /\ x4.from \in T!Resumable(x4.plan)
    /\ \A c \in x3 : \A d \in x4.ckpt : d.skipped = c.skipped

Plain == x1.env.process = None /\ x1.env.secrets = None /\ x1.env.files = None

DidOK == Plain => \A i \in DOMAIN x4.did : x4.did[i] = T!Preview(x4.plan, x4.sel, x4.did[i].k)

StepsInv == StepsShape /\ SavedOK /\ ResumedOK /\ DidOK

(* The two environments agree where only they have a value.                *)
LEMMA SameEnv == Plain => T!RunEnv(x1) = T!PreviewEnv(x1)
BY DEF Plain, T!RunEnv, T!PreviewEnv, T!OrElse

LEMMA IdleIs ==
  /\ T!Idle.on = FALSE /\ T!Idle.did = << >> /\ T!Idle.at = 1
  /\ DOMAIN T!Idle = {"on", "plan", "sel", "at", "from", "resumed", "ckpt", "did"}
BY DEF T!Idle

LEMMA SameResumable ==
  ASSUME x1' = x1, x3' = x3, NEW plan PROVE T!Resumable(plan)' = T!Resumable(plan)
BY Zenon DEF T!Resumable

(* A session that is over leaves the file as it is, or marks it done.      *)
LEMMA OverKept ==
  ASSUME StepsInv, x4' = T!Idle, x1' = x1, x6' = x6,
         x3' = x3 \/ (x4.on /\ x3' = {[c EXCEPT !.done = TRUE] : c \in x4.ckpt})
  PROVE  StepsInv'
<1>1. x4'.on = FALSE /\ x4'.did = << >> /\ x4'.at = 1 /\ DOMAIN x4' = DOMAIN T!Idle
  BY IdleIs
<1>2. x3' = x3 \/ (\E c : x3' = {c} /\ IsCheckpoint(c) /\ c.done)
  <2>1. SUFFICES ASSUME x4.on, x3' = {[c EXCEPT !.done = TRUE] : c \in x4.ckpt}
        PROVE  \E c : x3' = {c} /\ IsCheckpoint(c) /\ c.done
    OBVIOUS
  <2>2. PICK c : x4.ckpt = {c} /\ IsCheckpoint(c)
    BY <2>1 DEF StepsInv, StepsShape
  <2>3. x3' = {[c EXCEPT !.done = TRUE]}
    BY <2>1, <2>2
  <2>4. IsCheckpoint([c EXCEPT !.done = TRUE])
    BY <2>2 DEF IsCheckpoint
  <2>5. [c EXCEPT !.done = TRUE].done = TRUE
    BY <2>2 DEF IsCheckpoint
  <2>6. QED
    BY <2>3, <2>4, <2>5
<1>3. StepsShape'
  <2>1. x4'.did \in Seq(Entries(x4'.plan, x1'))
    BY <1>1, EmptySeq, Zenon
  <2>2. x4'.on \in BOOLEAN /\ ~x4'.on
    BY <1>1, Zenon
  <2>5. x4'.at \in Nat
    BY <1>1
  <2>3. x3' = {} \/ (\E c : x3' = {c} /\ IsCheckpoint(c))
    BY <1>2 DEF StepsInv, StepsShape
  <2>4. QED
    BY <1>1, <2>1, <2>2, <2>3, <2>5, Zenon DEF StepsShape
<1>4. SavedOK'
  BY <1>2 DEF StepsInv, SavedOK
<1>5. ResumedOK' /\ DidOK'
  BY <1>1 DEF ResumedOK, DidOK
<1>6. QED
  BY <1>3, <1>4, <1>5 DEF StepsInv

LEMMA FinishStepsKept == ASSUME StepsInv, T!Finish PROVE StepsInv'
BY OverKept DEF T!Finish

LEMMA LeaveKept == ASSUME StepsInv, T!Leave PROVE StepsInv'
BY OverKept DEF T!Leave

LEMMA EditTextKept == ASSUME StepsInv, T!Edit PROVE StepsInv'
<1>1. x1' = x1 /\ x3' = x3 /\ x4' = x4 /\ x6' = x6 /\ x4.on = FALSE
  BY Zenon DEF T!Edit, StepsInv, StepsShape
<1>3. StepsShape' /\ SavedOK'
  BY <1>1 DEF StepsInv, StepsShape, SavedOK
<1>4. ResumedOK'
  BY <1>1 DEF ResumedOK
<1>5. DidOK'
  BY <1>1 DEF StepsInv, DidOK, Plain, T!Preview
<1>6. QED
  BY <1>3, <1>4, <1>5 DEF StepsInv

LEMMA ReplayStepKept == ASSUME StepsInv, T!Replay PROVE StepsInv'
<1>1. x1' = x1 /\ x3' = x3 /\ x6' = x6 /\ x4' = [x4 EXCEPT !.at = @ + 1]
  BY DEF T!Replay
<1>2. /\ DOMAIN x4' = DOMAIN x4 /\ x4'.on = x4.on /\ x4'.did = x4.did /\ x4'.plan = x4.plan
      /\ x4'.sel = x4.sel /\ x4'.ckpt = x4.ckpt /\ x4'.from = x4.from /\ x4'.resumed = x4.resumed
      /\ x4'.at \in Nat
  BY <1>1, IdleIs DEF StepsInv, StepsShape
<1>4. StepsShape' /\ SavedOK'
  BY <1>1, <1>2 DEF StepsInv, StepsShape, SavedOK
<1>5. ResumedOK'
  BY <1>1, <1>2, SameResumable DEF StepsInv, ResumedOK
<1>6. DidOK'
  BY <1>1, <1>2 DEF StepsInv, DidOK, Plain, T!Preview
<1>7. QED
  BY <1>4, <1>5, <1>6 DEF StepsInv

(* The environment, what is chosen and the policies depend on the input    *)
(* and the plan only.                                                      *)
LEMMA SavedKept ==
  ASSUME StepsInv, NEW c, IsCheckpoint(c), NEW fate \in Fates, T!Live, T!Save(c, fate),
         c.skipped = {} => c.next = x4.at + 1,
         Plain => T!Preview(x4.plan, x4.sel, x4.at).fate = fate
  PROVE  StepsInv'
<1> DEFINE saved == [c EXCEPT !.step = T!IdAt(x4.plan, c.next)]
           entry == [k |-> x4.at, fate |-> fate, policy |-> T!Policy(x4.plan, x1, x4.at)]
<1>1. /\ x1' = x1 /\ x3' = {saved}
      /\ x4' = [x4 EXCEPT !.at = @ + 1, !.ckpt = {saved}, !.did = Append(@, entry)]
      /\ x6' = [stop |-> T!At(x4.plan, x4.at + 1), plan |-> x4.plan]
  BY DEF T!Save
<1>2. /\ IsCheckpoint(saved) /\ saved.next = c.next /\ saved.skipped = c.skipped
      /\ saved.step = T!IdAt(x4.plan, c.next)
  BY DEF IsCheckpoint
<1> HIDE DEF saved, entry
<1>3. /\ DOMAIN x4' = DOMAIN x4 /\ x4'.on = x4.on /\ x4'.plan = x4.plan /\ x4'.sel = x4.sel
      /\ x4'.at = x4.at + 1 /\ x4'.ckpt = {saved} /\ x4'.did = Append(x4.did, entry)
  BY <1>1, IdleIs DEF StepsInv, StepsShape
<1>4. PICK E : E = Entries(x4.plan, x1)
  OBVIOUS
<1>5. entry \in E /\ x4.did \in Seq(E)
  BY <1>4 DEF entry, Entries, StepsInv, StepsShape
<1>6. /\ x4'.did \in Seq(E) /\ x4'.did # << >>
      /\ \A i \in DOMAIN x4'.did : x4'.did[i] = entry \/ (i \in DOMAIN x4.did /\ x4'.did[i] = x4.did[i])
  <2>1. /\ Len(x4.did) \in Nat /\ DOMAIN x4.did = 1..Len(x4.did)
        /\ Len(x4'.did) = Len(x4.did) + 1 /\ DOMAIN x4'.did = 1..Len(x4'.did) /\ x4'.did \in Seq(E)
    BY <1>3, <1>5
  <2>2. /\ x4'.did[Len(x4.did) + 1] = entry
        /\ \A i \in DOMAIN x4.did : x4'.did[i] = x4.did[i]
    BY <1>3, <1>5, <2>1
  <2>3. QED
    BY <2>1, <2>2
<1>7. StepsShape'
  <2>1. x4'.on \in BOOLEAN /\ x4'.at \in Nat /\ DOMAIN x4' = DOMAIN T!Idle
    BY <1>3 DEF StepsInv, StepsShape
  <2>2. x4'.did \in Seq(Entries(x4'.plan, x1'))
    BY <1>1, <1>3, <1>4, <1>6
  <2>3. QED
    BY <2>1, <2>2, <1>1, <1>2, <1>3, Zenon DEF StepsShape
<1>8. SavedOK'
  BY <1>1, <1>2 DEF SavedOK
<1>9. ResumedOK'
  BY <1>6 DEF ResumedOK
<1>10. DidOK'
  <2>1. Plain' <=> Plain
    BY <1>1 DEF Plain
  <2>2. \A k : T!Preview(x4.plan, x4.sel, k)' = T!Preview(x4.plan, x4.sel, k)
    BY <1>1, <1>3, Zenon DEF T!Preview
  <2>3. Plain => T!Preview(x4.plan, x4.sel, x4.at) = entry
    BY DEF T!Preview, entry
  <2>4. entry.k = x4.at
    BY DEF entry
  <2>5. QED
    BY <1>3, <1>6, <2>1, <2>2, <2>3, <2>4, Zenon DEF StepsInv, DidOK
<1>11. QED
  BY <1>7, <1>8, <1>9, <1>10 DEF StepsInv

(* A block that runs is saved with the number of the next one.             *)
LEMMA RunStepKept == ASSUME StepsInv, T!Run PROVE StepsInv'
<1>1. PICK c \in x4.ckpt : T!Save([c EXCEPT !.next = x4.at + 1], "run")
  BY DEF T!Run
<1>2. IsCheckpoint(c)
  BY <1>1 DEF T!Run, T!Live, StepsInv, StepsShape
<1>3. IsCheckpoint([c EXCEPT !.next = x4.at + 1]) /\ [c EXCEPT !.next = x4.at + 1].next = x4.at + 1
  BY <1>2 DEF IsCheckpoint
<1>4. Plain => T!Preview(x4.plan, x4.sel, x4.at).fate = "run"
  BY SameEnv DEF T!Run, T!Chosen, T!NoRun, T!Conditional, T!Preview
<1>5. T!Live
  BY DEF T!Run
<1>6. "run" \in Fates
  BY DEF Fates
<1>7. QED
  BY <1>1, <1>3, <1>4, <1>5, <1>6, SavedKept

(* A block that is skipped is in the skips.                                *)
LEMMA SkipStepKept ==
  ASSUME StepsInv, NEW fate \in Fates, T!Live, T!Skip(fate),
         Plain => T!Preview(x4.plan, x4.sel, x4.at).fate = fate
  PROVE  StepsInv'
<1>6. PICK c \in x4.ckpt :
         \E skipped, next :
            skipped = c.skipped \cup {x4.at} /\ T!Save([c EXCEPT !.skipped = skipped, !.next = next], fate)
  BY DEF T!Skip
<1>1. PICK skipped, next :
         skipped = c.skipped \cup {x4.at} /\ T!Save([c EXCEPT !.skipped = skipped, !.next = next], fate)
  BY <1>6
<1>2. IsCheckpoint(c)
  BY DEF T!Live, StepsInv, StepsShape
<1>3. /\ IsCheckpoint([c EXCEPT !.skipped = skipped, !.next = next])
      /\ [c EXCEPT !.skipped = skipped, !.next = next].skipped # {}
  BY <1>1, <1>2 DEF IsCheckpoint
<1>4. QED
  BY <1>1, <1>3, SavedKept

LEMMA SkipsKept ==
  ASSUME StepsInv, T!SkipUnselected \/ T!SkipNoRun \/ T!SkipConditional PROVE StepsInv'
<1>1. CASE T!SkipUnselected
  <2>1. Plain => T!Preview(x4.plan, x4.sel, x4.at).fate = "selection"
    BY <1>1 DEF T!SkipUnselected, T!Chosen, T!Preview
  <2>2. QED
    BY <1>1, <2>1, SkipStepKept DEF T!SkipUnselected, Fates
<1>2. CASE T!SkipNoRun
  <2>1. Plain => T!Preview(x4.plan, x4.sel, x4.at).fate = "no_run"
    BY <1>2 DEF T!SkipNoRun, T!Chosen, T!NoRun, T!Preview
  <2>2. QED
    BY <1>2, <2>1, SkipStepKept DEF T!SkipNoRun, Fates
<1>3. CASE T!SkipConditional
  <2>1. Plain => T!Preview(x4.plan, x4.sel, x4.at).fate = "condition"
    BY <1>3, SameEnv DEF T!SkipConditional, T!Chosen, T!NoRun, T!Conditional, T!Preview
  <2>2. QED
    BY <1>3, <2>1, SkipStepKept DEF T!SkipConditional, Fates
<1>4. QED
  BY <1>1, <1>2, <1>3

(* A session starts where the checkpoint of the file says, or afresh.      *)
LEMMA StartStepsKept == ASSUME StepsInv, NEW sel, T!Start(sel) PROVE StepsInv'
<1> DEFINE plan == T!Plan(x2, x1)
           from == T!Resumable(plan)
           first == CHOOSE k \in from : TRUE
           moved == {[c EXCEPT !.next = first, !.step = T!IdAt(plan, first)] : c \in x3}
<1>1. /\ x1' = x1 /\ x3' = x3 /\ x6' = x6
      /\ x4' = [T!Idle EXCEPT !.on = TRUE, !.plan = plan, !.sel = sel, !.resumed = from # {},
                              !.from = IF from = {} THEN 1 ELSE first,
                              !.ckpt = IF from = {} THEN {T!Fresh(plan)} ELSE moved]
  BY DEF T!Start
<1>2. from # {} => \E c : x3 = {c} /\ IsCheckpoint(c)
  BY DEF T!Resumable, StepsInv, StepsShape
<1>3. ASSUME NEW c, x3 = {c}, IsCheckpoint(c)
      PROVE  \E d : moved = {d} /\ IsCheckpoint(d) /\ d.skipped = c.skipped
  <2>1. moved = {[c EXCEPT !.next = first, !.step = T!IdAt(plan, first)]}
    BY <1>3
  <2>2. /\ IsCheckpoint([c EXCEPT !.next = first, !.step = T!IdAt(plan, first)])
        /\ [c EXCEPT !.next = first, !.step = T!IdAt(plan, first)].skipped = c.skipped
    BY <1>3 DEF IsCheckpoint
  <2>3. QED
    BY <2>1, <2>2
<1>4. IsCheckpoint(T!Fresh(plan))
  BY DEF T!Fresh, IsCheckpoint
<1>5. from # {} => first \in from
  OBVIOUS
<1> HIDE DEF plan, from, first, moved
<1>6. /\ DOMAIN x4' = DOMAIN T!Idle /\ x4'.on = TRUE /\ x4'.plan = plan /\ x4'.did = << >> /\ x4'.at = 1
      /\ x4'.resumed = (from # {}) /\ x4'.from = (IF from = {} THEN 1 ELSE first)
      /\ x4'.ckpt = IF from = {} THEN {T!Fresh(plan)} ELSE moved
  BY <1>1, IdleIs
<1>7. StepsShape'
  <2>1. x4'.on \in BOOLEAN
    BY <1>6, Zenon
  <2>2. x4'.at \in Nat
    BY <1>6
  <2>3. x4'.did \in Seq(Entries(x4'.plan, x1'))
    BY <1>6, EmptySeq, Zenon
  <2>4. \E c : x4'.ckpt = {c} /\ IsCheckpoint(c)
    BY <1>2, <1>3, <1>4, <1>6
  <2>5. x3' = {} \/ (\E c : x3' = {c} /\ IsCheckpoint(c))
    BY <1>1 DEF StepsInv, StepsShape
  <2>6. QED
    BY <1>6, <2>1, <2>2, <2>3, <2>4, <2>5, Zenon DEF StepsShape
<1>8. SavedOK'
  BY <1>1 DEF StepsInv, SavedOK
<1>9. ResumedOK'
  <2>1. PICK p : p = plan
    OBVIOUS
  <2>2. T!Resumable(p)' = from
    <3>1. T!Resumable(p) = from
      BY <2>1 DEF from
    <3>2. QED
      BY <3>1, <1>1, SameResumable
  <2>3. T!Resumable(x4.plan)' = from
    BY <1>6, <2>1, <2>2, Zenon
  <2>4. ASSUME from # {} PROVE \A c \in x3' : \A d \in x4'.ckpt : d.skipped = c.skipped
    <3>1. PICK c : x3 = {c} /\ IsCheckpoint(c)
      BY <1>2, <2>4
    <3>2. x4'.ckpt = moved /\ x3' = {c}
      BY <1>1, <1>6, <2>4, <3>1
    <3>3. QED
      BY <1>3, <3>1, <3>2
  <2>5. x4'.resumed => from # {} /\ x4'.from \in from
    BY <1>5, <1>6, Zenon
  <2>6. QED
    BY <2>3, <2>4, <2>5, Zenon DEF ResumedOK
<1>10. DidOK'
  BY <1>6 DEF DidOK
<1>11. QED
  BY <1>7, <1>8, <1>9, <1>10 DEF StepsInv

LEMMA StepsKept == ASSUME StepsInv, T!StepsNext PROVE StepsInv'
BY StartStepsKept, ReplayStepKept, RunStepKept, SkipsKept, FinishStepsKept, LeaveKept, EditTextKept, Zenon
   DEF T!StepsNext

LEMMA StepsStart == ASSUME T!StepsInit PROVE StepsInv
<1>1. x3 = {} /\ x4 = T!Idle
  BY DEF T!StepsInit
<1>2. x4.did \in Seq(Entries(x4.plan, x1))
  BY <1>1, IdleIs, EmptySeq, Zenon
<1>3. x4.on \in BOOLEAN /\ ~x4.on
  BY <1>1, IdleIs, Zenon
<1>6. x4.at \in Nat
  BY <1>1, IdleIs
<1>4. StepsShape
  BY <1>1, <1>2, <1>3, <1>6, Zenon DEF StepsShape
<1>5. QED
  BY <1>1, <1>4, IdleIs DEF StepsInv, SavedOK, ResumedOK, DidOK

(* The invariant holds of every behaviour of the part.                     *)
LEMMA StepsInvariant == FrontSpec => [](scenario = "steps" => StepsInv)
<1> DEFINE I == scenario = "steps" => StepsInv
<1>1. FrontInit => I
  BY StepsStart DEF FrontInit
<1>2. I /\ [FrontNext]_<<scenario, vars, xs>> => I'
  <2>1. ASSUME StepsInv, scenario = "steps", FrontNext PROVE StepsInv'
    BY <2>1, StepsKept DEF FrontNext
  <2>2. ASSUME [FrontNext]_<<scenario, vars, xs>> PROVE scenario' = scenario
    BY <2>2 DEF FrontNext
  <2>3. ASSUME StepsInv, UNCHANGED <<scenario, vars, xs>> PROVE StepsInv'
    <3>1. x1' = x1 /\ x3' = x3 /\ x4' = x4 /\ x6' = x6
      BY <2>3
    <3>2. StepsShape' /\ SavedOK'
      BY <2>3, <3>1 DEF StepsInv, StepsShape, SavedOK
    <3>3. ResumedOK'
      BY <2>3, <3>1, SameResumable DEF StepsInv, ResumedOK
    <3>4. DidOK'
      BY <2>3, <3>1 DEF StepsInv, DidOK, Plain, T!Preview
    <3>5. QED
      BY <3>2, <3>3, <3>4 DEF StepsInv
  <2>4. QED
    BY <2>1, <2>2, <2>3
<1>3. QED
  BY <1>1, <1>2, PTL DEF FrontSpec

(* What --dry-run says of a block, its fate and its policy, is what a      *)
(* session then does with it, for every workbook, selection and setting in *)
(* which nothing but the workbook and the command line sets the variable:  *)
(* PreviewAgrees.                                                          *)
THEOREM PreviewsAgree == FrontSpec => []PreviewAgrees
<1>1. (scenario = "steps" => StepsInv) => PreviewAgrees
  BY DEF StepsInv, DidOK, Plain, PreviewAgrees, T!PreviewAgrees
<1>2. QED
  BY <1>1, StepsInvariant, PTL

(* A step that is taken for the same has the same id.                      *)
LEMMA SameIds == ASSUME NEW a, NEW b, T!SameStep(a, b) PROVE T!StepId(a) = T!StepId(b)
BY DEF T!SameStep, T!StepId

(* In a plan of distinct steps, an id is of one step.                      *)
LEMMA OneId ==
  ASSUME NEW plan, T!Distinct(plan), NEW j \in DOMAIN plan, NEW k \in DOMAIN plan,
         T!IdOf(plan, j) = T!IdOf(plan, k)
  PROVE  j = k
<1>1. CASE plan[j].info.id # None \/ plan[k].info.id # None
  <2>1. plan[j].info.id # None /\ plan[j].info.id = plan[k].info.id
    BY <1>1 DEF T!IdOf, T!StepId
  <2>2. QED
    BY <2>1 DEF T!Distinct
<1>2. CASE plan[j].info.id = None /\ plan[k].info.id = None
  <2>1. T!FrameIds(plan[j].chain) = T!FrameIds(plan[k].chain) /\ plan[j].position = plan[k].position
    <3> DEFINE a == T!StepId(plan[j])
               b == T!StepId(plan[k])
    <3>1. a = <<"auto", T!FrameIds(plan[j].chain), plan[j].position, plan[j].info.lang, T!Prefix(plan[j].body)>>
      BY <1>2 DEF T!StepId
    <3>2. b = <<"auto", T!FrameIds(plan[k].chain), plan[k].position, plan[k].info.lang, T!Prefix(plan[k].body)>>
      BY <1>2 DEF T!StepId
    <3>3. a = b
      BY DEF T!IdOf
    <3>4. a[2] = b[2] /\ a[3] = b[3]
      BY <3>3
    <3> HIDE DEF a, b
    <3>5. QED
      BY <3>1, <3>2, <3>4
  <2>2. QED
    BY <2>1 DEF T!Distinct
<1>3. QED
  BY <1>1, <1>2

(* However the workbook was edited meanwhile, a session whose checkpoint   *)
(* skipped nothing goes on with the step that was next when it was saved,  *)
(* wherever that is now, if the author and the includes give the steps     *)
(* distinct names: ResumesAtItsStep.                                       *)
THEOREM SessionsGoOn == FrontSpec => []ResumesAtItsStep
<1>1. ASSUME StepsInv, T!Resumes(x4.plan), \A c \in x4.ckpt : c.skipped = {},
             NEW s \in x6.stop, NEW k \in DOMAIN x4.plan, T!SameStep(x4.plan[k], s)
      PROVE  x4.from = k
  <2>1. PICK c \in x3 : ~c.done /\ x4.from \in T!Position(c, x4.plan)
    BY <1>1 DEF T!Resumes, StepsInv, ResumedOK, T!Resumable
  <2>2. c.skipped = {}
    BY <1>1, <2>1 DEF T!Resumes, StepsInv, StepsShape, ResumedOK
  <2>3. c.step = {T!StepId(s)}
    <3>1. T!At(x6.plan, c.next) = {s} /\ c.step = T!IdAt(x6.plan, c.next)
      BY <1>1, <2>1, <2>2 DEF StepsInv, SavedOK, T!At
    <3>2. QED
      BY <3>1 DEF T!IdAt
  <2>4. T!StepId(s) = T!IdOf(x4.plan, k)
    BY <1>1, SameIds DEF T!IdOf
  <2>5. T!Position(c, x4.plan) = {T!First(x4.plan, T!IdOf(x4.plan, k))}
    <3>1. c.step # {} /\ c.step \subseteq T!Ids(x4.plan)
      BY <1>1, <2>3, <2>4 DEF T!Ids
    <3>2. (CHOOSE id \in c.step : TRUE) = T!StepId(s)
      BY <2>3
    <3>3. QED
      BY <3>1, <3>2, <2>4 DEF T!Position
  <2>6. T!First(x4.plan, T!IdOf(x4.plan, k)) = k
    <3>1. \A j \in DOMAIN x4.plan : T!IdOf(x4.plan, j) = T!IdOf(x4.plan, k) => j = k
      BY <1>1, OneId DEF T!Resumes
    <3>2. QED
      BY <3>1 DEF T!First
  <2>7. QED
    BY <2>1, <2>5, <2>6
<1>2. (scenario = "steps" => StepsInv) => ResumesAtItsStep
  BY <1>1 DEF ResumesAtItsStep, T!ResumesAtItsStep, T!GoesOn
<1>3. QED
  BY <1>2, StepsInvariant, PTL

-----------------------------------------------------------------------------
(* Assertions and verdicts.                                                *)

NoWalk == [checks |-> << >>, over |-> FALSE]

(* The walk over the fences is the one that walk_expects defines.          *)
LEMMA WalksExist ==
  ASSUME NEW n \in Nat
  PROVE  \E f : f = [k \in 0..n |-> IF k = 0 THEN NoWalk ELSE J!Walk(f[k-1], k)]
<1> DEFINE Is(f, m) == f = [k \in 0..m |-> IF k = 0 THEN NoWalk ELSE J!Walk(f[k-1], k)]
           S == {m \in 0..n : \E f : Is(f, m)}
<1>1. 0 \in S
  <2> DEFINE f == [k \in 0..0 |-> NoWalk]
  <2>1. Is(f, 0)
    OBVIOUS
  <2> HIDE DEF f, Is
  <2>2. QED
    BY <2>1
<1>2. ASSUME NEW m \in 1..n, m-1 \in S PROVE m \in S
  <2>1. PICK f : Is(f, m-1)
    BY <1>2
  <2> DEFINE g == [k \in 0..m |-> IF k = m THEN J!Walk(f[m-1], m) ELSE f[k]]
  <2>2. ASSUME NEW k \in 0..m PROVE g[k] = IF k = 0 THEN NoWalk ELSE J!Walk(g[k-1], k)
    <3>1. CASE k = 0
      BY <3>1, <2>1
    <3>2. CASE k # 0 /\ k # m
      <4>1. k \in 0..(m-1) /\ k-1 \in 0..m /\ k-1 # m
        BY <3>2
      <4>2. g[k] = f[k] /\ g[k-1] = f[k-1]
        BY <4>1, <3>2
      <4>3. f[k] = J!Walk(f[k-1], k)
        BY <2>1, <3>2, <4>1
      <4>4. QED
        BY <3>2, <4>2, <4>3
    <3>3. CASE k = m
      <4>1. m-1 \in 0..m /\ m-1 # m /\ m # 0
        OBVIOUS
      <4>2. g[m-1] = f[m-1] /\ g[k] = J!Walk(f[m-1], m)
        BY <3>3, <4>1
      <4>3. QED
        BY <3>3, <4>1, <4>2
    <3>4. QED
      BY <3>1, <3>2, <3>3
  <2>3. Is(g, m)
    <3>1. DOMAIN g = 0..m
      OBVIOUS
    <3>2. g = [k \in 0..m |-> g[k]]
      OBVIOUS
    <3> HIDE DEF g
    <3>3. QED
      BY <2>2, <3>2
  <2> HIDE DEF g, Is
  <2>4. QED
    BY <2>3
<1> HIDE DEF S
<1>3. n \in S
  BY <1>1, <1>2, Induction
<1>4. QED
  BY <1>3 DEF S

LEMMA WalkIs ==
  ASSUME Len(J!Sections) \in Nat
  PROVE  \E f : /\ f = [k \in 0..Len(J!Sections) |-> IF k = 0 THEN NoWalk ELSE J!Walk(f[k-1], k)]
               /\ J!WalkExpects = f[Len(J!Sections)].checks
<1> DEFINE after == CHOOSE f : f = [k \in 0..Len(J!Sections) |-> IF k = 0 THEN NoWalk ELSE J!Walk(f[k-1], k)]
<1>1. after = [k \in 0..Len(J!Sections) |-> IF k = 0 THEN NoWalk ELSE J!Walk(after[k-1], k)]
  BY WalksExist
<1>2. J!WalkExpects = after[Len(J!Sections)].checks
  BY DEF J!WalkExpects, NoWalk
<1> HIDE DEF after
<1>3. QED
  BY <1>1, <1>2

(* The parts' instances of the library count alike.                        *)
LEMMA SameFinite == ASSUME NEW S PROVE (T!IsFiniteSet(S) <=> IsFiniteSet(S)) /\ (J!IsFiniteSet(S) <=> IsFiniteSet(S))
BY DEF IsFiniteSet, T!IsFiniteSet, J!IsFiniteSet

LEMMA SameCardinality == ASSUME NEW S PROVE T!Cardinality(S) = Cardinality(S) /\ J!Cardinality(S) = Cardinality(S)
BY DEF Cardinality, T!Cardinality, J!Cardinality, IsFiniteSet, T!IsFiniteSet, J!IsFiniteSet

(* The number of a section counts the blocks before it.                    *)
LEMMA Numbering ==
  ASSUME NEW sections, NEW k \in Nat
  PROVE  /\ J!Number(sections, k) \in Nat
         /\ \A j \in 0..k : J!Number(sections, j) <= J!Number(sections, k)
         /\ k > 0 /\ J!Numbered(sections[k]) => J!Number(sections, k + 1) = J!Number(sections, k) + 1
<1> DEFINE Up(i) == {j \in 1..(i-1) : J!Numbered(sections[j])}
<1>1. \A i \in Nat : IsFiniteSet(Up(i)) /\ Cardinality(Up(i)) = J!Number(sections, i)
  <2>1. ASSUME NEW i \in Nat PROVE IsFiniteSet(Up(i))
    <3>1. IsFiniteSet(1..(i-1)) /\ Up(i) \subseteq 1..(i-1)
      BY FS_Interval
    <3>2. QED
      BY <3>1, FS_Subset
  <2>2. ASSUME NEW i \in Nat PROVE Cardinality(Up(i)) = J!Number(sections, i)
    BY SameCardinality DEF J!Number
  <2>3. QED
    BY <2>1, <2>2
<1>2. \A j \in 0..k : Up(j) \subseteq Up(k)
  OBVIOUS
<1>3. k > 0 /\ J!Numbered(sections[k]) => Up(k+1) = Up(k) \union {k} /\ k \notin Up(k)
  OBVIOUS
<1> HIDE DEF Up
<1>4. \A j \in 0..k : J!Number(sections, j) <= J!Number(sections, k)
  BY <1>1, <1>2, FS_Subset
<1>5. J!Number(sections, k) \in Nat
  BY <1>1, FS_CardinalityType
<1>6. k > 0 /\ J!Numbered(sections[k]) => J!Number(sections, k + 1) = J!Number(sections, k) + 1
  BY <1>1, <1>3, FS_AddElement
<1>7. QED
  BY <1>4, <1>5, <1>6

(* The block before a fence is the one with the number before it.          *)
LEMMA LastBefore ==
  ASSUME NEW sections, NEW k \in Nat \ {0}
  PROVE  /\ \/ J!Before(sections, k) = 0 /\ J!Number(sections, k) = 0
            \/ /\ J!Before(sections, k) \in 1..(k-1)
               /\ J!Numbered(sections[J!Before(sections, k)])
               /\ J!Number(sections, J!Before(sections, k)) = J!Number(sections, k) - 1
         /\ \A j \in Nat \ {0} :
              J!Numbered(sections[j]) /\ J!Number(sections, j) = J!Number(sections, k) - 1
                => j = J!Before(sections, k)
<1> DEFINE blocks == {j \in 1..(k-1) : J!Numbered(sections[j])}
           b == J!Before(sections, k)
<1>1. CASE blocks = {}
  <2>1. b = 0
    BY <1>1 DEF J!Before
  <2>2. J!Number(sections, k) = 0
    <3>1. J!Number(sections, k) = Cardinality(blocks)
      BY SameCardinality DEF J!Number
    <3>2. QED
      BY <3>1, <1>1, FS_EmptySet
  <2>3. ASSUME NEW j \in Nat \ {0}, J!Number(sections, j) = -1 PROVE FALSE
    BY <2>3, Numbering
  <2>4. QED
    BY <2>1, <2>2, <2>3
<1>2. CASE blocks # {}
  <2>1. b \in blocks /\ \A i \in blocks : i <= b
    <3> DEFINE far == {k - i : i \in blocks}
    <3>1. PICK i \in blocks : TRUE
      BY <1>2
    <3>2. far \in SUBSET Nat /\ k - i \in far
      BY <3>1
    <3>3. PICK x \in far : \A y \in far : x <= y
      <4> HIDE DEF far
      <4> QED BY <3>2, Least
    <3>4. PICK m \in blocks : x = k - m
      BY <3>3
    <3>5. \A j \in blocks : j <= m
      <4> SUFFICES ASSUME NEW j \in blocks PROVE j <= m
        OBVIOUS
      <4>1. k - j \in far
        OBVIOUS
      <4>2. k - m <= k - j
        BY <3>3, <3>4, <4>1
      <4>3. QED
        BY <4>2
    <3>6. QED
      BY <3>5, <1>2 DEF J!Before
  <2>2. b \in 1..(k-1) /\ b \in Nat \ {0} /\ b + 1 \in Nat /\ b > 0 /\ J!Numbered(sections[b])
    BY <2>1
  <2>3. J!Number(sections, k) = J!Number(sections, b + 1)
    <3>1. blocks = {j \in 1..((b+1)-1) : J!Numbered(sections[j])}
      BY <2>1, <2>2
    <3>2. QED
      BY <3>1 DEF J!Number
  <2>4. J!Number(sections, b) \in Nat /\ J!Number(sections, b) = J!Number(sections, k) - 1
    BY <2>2, <2>3, Numbering
  <2>5. ASSUME NEW j \in Nat \ {0}, J!Numbered(sections[j]), J!Number(sections, j) = J!Number(sections, k) - 1
        PROVE  j = b
    <3>1. j < k
      <4>1. k \in 0..j => J!Number(sections, k) <= J!Number(sections, j)
        BY Numbering
      <4>2. J!Number(sections, k) \in Nat
        BY Numbering
      <4>3. k \notin 0..j
        BY <4>1, <4>2, <2>5
      <4>4. QED
        BY <4>3
    <3>2. j <= b
      BY <2>1, <2>5, <3>1
    <3>3. j + 1 \in 0..b => J!Number(sections, j) + 1 <= J!Number(sections, b)
      BY <2>2, <2>5, Numbering
    <3>4. QED
      BY <2>2, <2>4, <2>5, <3>2, <3>3
  <2>6. QED
    BY <2>2, <2>4, <2>5
<1>3. QED
  BY <1>1, <1>2

(* What the properties say of one line of a report.                        *)
Ended == {"ok", "failed", "paused"}
CheckOK(f, c) ==
  LET block == J!Before(x1.files[f].sections, c.fence)
  IN  IF c.of = J!Unread THEN ~c.ok
      ELSE IF c.of = J!NoBlock THEN ~c.ok /\ (block = 0 \/ x7[f][block] \notin Ended)
      ELSE c.of \in {0, block}

(* A result has the number of the section it is of, or stands in for all;  *)
(* and a block that ended has one.                                         *)
ResultsOK ==
  /\ Sequence(x5)
  /\ \A i \in DOMAIN x5 :
        \/ x5[i].of = 0
        \/ /\ x5[i].of \in DOMAIN J!Sections /\ J!Numbered(J!Sections[x5[i].of])
           /\ x5[i].number = J!Number(J!Sections, x5[i].of)
  /\ \A k \in DOMAIN J!Sections : x7[x2][k] \in Ended => \E i \in DOMAIN x5 : x5[i].of = k

LEMMA AgainstOK ==
  ASSUME ResultsOK, Sequence(J!Sections), NEW k \in DOMAIN J!Sections, NEW a
  PROVE  CheckOK(x2, J!Against(k, a, J!At(J!Number(J!Sections, k) - 1)))
<1> DEFINE number == J!Number(J!Sections, k) - 1
           block == J!Before(J!Sections, k)
           c == J!Against(k, a, J!At(number))
<1>1. k \in Nat \ {0} /\ DOMAIN J!Sections = 1..Len(J!Sections) /\ Len(J!Sections) \in Nat
  BY Lengths
<1>2. /\ \/ block = 0 /\ J!Number(J!Sections, k) = 0
         \/ /\ block \in 1..(k-1) /\ J!Numbered(J!Sections[block])
            /\ J!Number(J!Sections, block) = number
      /\ \A j \in Nat \ {0} :
           J!Numbered(J!Sections[j]) /\ J!Number(J!Sections, j) = number => j = block
  BY <1>1, LastBefore
<1>3. J!At(number) = {r \in {x5[i] : i \in DOMAIN x5} : r.number = number}
  BY DEF J!At, J!ToSet
<1>4. CASE J!Malformed(a)
  <2>1. c = [ok |-> FALSE, fence |-> k, of |-> J!Unread]
    BY <1>4 DEF J!Against, J!Check
  <2>2. QED
    BY <2>1 DEF CheckOK
<1>5. CASE ~J!Malformed(a) /\ J!At(number) = {}
  <2>1. c = [ok |-> FALSE, fence |-> k, of |-> J!NoBlock]
    BY <1>5 DEF J!Against, J!Check
  <2>2. ASSUME block # 0, x7[x2][block] \in Ended PROVE FALSE
    <3>1. block \in DOMAIN J!Sections /\ block \in Nat \ {0}
      BY <1>1, <1>2, <2>2
    <3>2. PICK i \in DOMAIN x5 : x5[i].of = block
      BY <2>2, <3>1 DEF ResultsOK
    <3>3. x5[i].number = number
      BY <1>2, <2>2, <3>1, <3>2 DEF ResultsOK
    <3>4. QED
      BY <1>3, <1>5, <3>3
  <2>3. c.of = J!NoBlock /\ c.fence = k /\ ~c.ok
    BY <2>1
  <2>4. block = J!Before(x1.files[x2].sections, k)
    BY DEF J!Sections, J!Book
  <2>5. J!NoBlock # J!Unread
    BY DEF J!NoBlock, J!Unread
  <2> HIDE DEF block, c, number
  <2>6. CheckOK(x2, c)
    BY <2>2, <2>3, <2>4, <2>5 DEF CheckOK
  <2>7. QED
    BY <2>6 DEF c, number
<1>6. CASE ~J!Malformed(a) /\ J!At(number) # {}
  <2>1. PICK r \in J!At(number) : c = [ok |-> J!Evaluate(a, r.outcome), fence |-> k, of |-> r.of]
    BY <1>6 DEF J!Against, J!Check
  <2>2. PICK i \in DOMAIN x5 : r = x5[i] /\ r.number = number
    BY <1>3, <2>1
  <2>3. r.of = 0 \/ r.of = block
    <3>1. SUFFICES ASSUME r.of # 0 PROVE r.of = block
      OBVIOUS
    <3>2. r.of \in DOMAIN J!Sections /\ J!Numbered(J!Sections[r.of]) /\ J!Number(J!Sections, r.of) = number
      BY <2>2, <3>1 DEF ResultsOK
    <3>3. r.of \in Nat \ {0}
      BY <3>2, <1>1
    <3>4. QED
      BY <1>2, <3>2, <3>3
  <2>4. r.of \in {0, block} /\ r.of # J!Unread /\ r.of # J!NoBlock
    BY <1>2, <2>3 DEF J!Unread, J!NoBlock
  <2>5. c.of = r.of /\ c.fence = k
    BY <2>1
  <2>6. block = J!Before(x1.files[x2].sections, k)
    BY DEF J!Sections, J!Book
  <2> HIDE DEF block, c, number
  <2>7. CheckOK(x2, c)
    BY <2>4, <2>5, <2>6 DEF CheckOK
  <2>8. QED
    BY <2>7 DEF c, number
<1>7. QED
  BY <1>4, <1>5, <1>6

(* The lines of a report that are about the workbook at hand.              *)
ChecksOK(checks) == Sequence(checks) /\ \A i \in DOMAIN checks : CheckOK(x2, checks[i])

LEMMA FenceOK ==
  ASSUME ResultsOK, Sequence(J!Sections), NEW k \in DOMAIN J!Sections, Sequence(J!Sections[k].lines)
  PROVE  ChecksOK(J!Fence(J!Sections, k))
<1> DEFINE checks == J!Fence(J!Sections, k)
           lines == J!Sections[k].lines
<1>1. checks = [i \in DOMAIN lines |-> J!Against(k, lines[i], J!At(J!Number(J!Sections, k) - 1))]
  BY DEF J!Fence
<1>2. Len(lines) \in Nat /\ DOMAIN lines = 1..Len(lines)
  BY Lengths
<1> HIDE DEF checks
<1>3. checks = [i \in 1..Len(lines) |-> checks[i]]
  BY <1>1, <1>2
<1>4. Sequence(checks)
  BY <1>2, <1>3, IsSequence
<1>5. \A i \in DOMAIN checks : CheckOK(x2, checks[i])
  BY <1>1, AgainstOK
<1>6. QED
  BY <1>4, <1>5 DEF ChecksOK, checks

(* --bail cuts a fence short.                                              *)
LEMMA CutOK == ASSUME NEW checks, ChecksOK(checks) PROVE ChecksOK(J!UpToFailure(checks))
<1> DEFINE failed == {i \in DOMAIN checks : J!Fails(checks[i])}
           last == CHOOSE i \in failed : \A j \in failed : i <= j
<1>1. CASE ~x1.bail \/ failed = {}
  <2>1. J!UpToFailure(checks) = checks
    BY <1>1 DEF J!UpToFailure
  <2>2. QED
    BY <2>1
<1>2. CASE x1.bail /\ failed # {}
  <2>1. Len(checks) \in Nat /\ DOMAIN checks = 1..Len(checks)
    BY Lengths DEF ChecksOK
  <2>2. last \in 1..Len(checks)
    <3>1. failed \in SUBSET Nat
      BY <2>1
    <3>2. \E i \in failed : \A j \in failed : i <= j
      <4> HIDE DEF failed
      <4> QED BY <1>2, <3>1, Least
    <3>3. last \in failed
      BY <3>2
    <3>4. QED
      BY <2>1, <3>3
  <2>3. J!UpToFailure(checks) = SubSeq(checks, 1, last)
    BY <1>2 DEF J!UpToFailure
  <2>4. PICK R : R = {checks[i] : i \in DOMAIN checks}
    OBVIOUS
  <2>5. checks \in Seq(R)
    BY <2>4 DEF ChecksOK, Sequence
  <2> HIDE DEF last, failed
  <2>6. /\ SubSeq(checks, 1, last) \in Seq(R) /\ Len(SubSeq(checks, 1, last)) = last
        /\ \A i \in 1..last : SubSeq(checks, 1, last)[i] = checks[i] /\ i \in DOMAIN checks
    BY <2>1, <2>2, <2>5
  <2>7. Sequence(SubSeq(checks, 1, last)) /\ DOMAIN SubSeq(checks, 1, last) = 1..last
    BY <2>6, Typed, Lengths
  <2>8. QED
    BY <2>3, <2>6, <2>7 DEF ChecksOK
<1>3. QED
  BY <1>1, <1>2

(* Every line that the walk over the fences reports is of the block before *)
(* it.                                                                     *)
LEMMA WalkOK ==
  ASSUME ResultsOK, Sequence(J!Sections), \A k \in DOMAIN J!Sections : Sequence(J!Sections[k].lines)
  PROVE  ChecksOK(J!WalkExpects)
<1> DEFINE n == Len(J!Sections)
<1>1. n \in Nat /\ DOMAIN J!Sections = 1..n
  BY Lengths
<1>2. PICK f : /\ f = [k \in 0..n |-> IF k = 0 THEN NoWalk ELSE J!Walk(f[k-1], k)]
               /\ J!WalkExpects = f[n].checks
  BY <1>1, WalkIs
<1> HIDE DEF n
<1> DEFINE S == {k \in 0..n : ChecksOK(f[k].checks)}
<1>3. 0 \in S
  <2>1. f[0] = NoWalk
    BY <1>1, <1>2
  <2>2. f[0].checks = << >>
    BY <2>1 DEF NoWalk
  <2>3. QED
    BY <2>2, <1>1, EmptySequence DEF ChecksOK
<1>4. ASSUME NEW k \in 1..n, k-1 \in S PROVE k \in S
  <2>1. f[k] = J!Walk(f[k-1], k)
    BY <1>1, <1>2
  <2>2. ChecksOK(J!UpToFailure(J!Fence(J!Sections, k)))
    BY <1>1, FenceOK, CutOK
  <2>3. \/ f[k] = f[k-1]
        \/ f[k].checks = f[k-1].checks \o J!UpToFailure(J!Fence(J!Sections, k))
    BY <2>1 DEF J!Walk
  <2>4. ChecksOK(f[k-1].checks \o J!UpToFailure(J!Fence(J!Sections, k)))
    <3>1. PICK p, q : p = f[k-1].checks /\ q = J!UpToFailure(J!Fence(J!Sections, k))
      OBVIOUS
    <3>2. ChecksOK(p) /\ ChecksOK(q)
      BY <1>4, <2>2, <3>1
    <3>3. ChecksOK(p \o q)
      <4>1. Sequence(p) /\ Sequence(q)
        BY <3>2 DEF ChecksOK
      <4>6. Sequence(p \o q)
        BY <4>1, Concatenated, Zenon
      <4>7. \A i \in DOMAIN (p \o q) :
              \/ i \in DOMAIN p /\ (p \o q)[i] = p[i]
              \/ i - Len(p) \in DOMAIN q /\ (p \o q)[i] = q[i - Len(p)]
        BY <4>1, Concatenated, Zenon
      <4>2. ASSUME NEW i \in DOMAIN (p \o q) PROVE CheckOK(x2, (p \o q)[i])
        <5>1. PICK e : e = (p \o q)[i]
          OBVIOUS
        <5>2. (i \in DOMAIN p /\ e = p[i]) \/ (i - Len(p) \in DOMAIN q /\ e = q[i - Len(p)])
          BY <4>7, <5>1, Zenon
        <5>3. CheckOK(x2, e)
          BY <3>2, <5>2 DEF ChecksOK
        <5>4. QED
          BY <5>1, <5>3, Zenon
      <4>3. QED
        BY <4>2, <4>6, Zenon DEF ChecksOK
    <3>4. QED
      BY <3>1, <3>3
  <2>5. ChecksOK(f[k].checks)
    BY <1>4, <2>3, <2>4
  <2>6. QED
    BY <2>5, <1>1
<1> HIDE DEF S
<1>5. n \in S
  BY <1>1, <1>3, <1>4, Induction
<1>6. QED
  BY <1>2, <1>5 DEF S

-----------------------------------------------------------------------------
(* The command, workbook by workbook.                                      *)

Good == {"passed over", "skipped", "ok", "passed inside"}

BatchShape ==
  /\ x1 \in BatchJobs
  /\ x2 \in Nat \ {0} /\ x2 <= Len(x1.files) + 1
  /\ x3 \in {"open", "prepare", "walk", "judge", "done"}
  /\ DOMAIN x7 = DOMAIN x1.files
  /\ \A f \in DOMAIN x1.files : DOMAIN x7[f] = DOMAIN x1.files[f].sections
  /\ Sequence(x6) /\ Len(x6) <= Len(x1.files)
  /\ x3 \in {"prepare", "walk", "judge"} => x2 <= Len(x1.files)
  /\ x3 # "done" => x8 = -1 /\ (Len(x6) = x2 - 1 \/ (x3 = "open" /\ x2 = Len(x1.files) + 1 /\ J!Wrong))

(* What a report stands for.                                               *)
Honest(f) ==
  /\ \A i \in DOMAIN x6[f].checks : x6[f].checks[i].ok
  /\ x1.command # "test" => \A k \in DOMAIN x7[f] : x7[f][k] \in Good

ReportOK(f) ==
  /\ \A i \in DOMAIN x6[f].checks : CheckOK(f, x6[f].checks[i])
  /\ ~x6[f].error /\ ~(x6[f].failed > 0) => Honest(f)

(* The workbook at hand: every section that is over is good, or a result   *)
(* says that it is not.                                                    *)
NotReached(f) == \A k \in DOMAIN x7[f] : x7[f][k] = "not reached"
Failure == \E i \in DOMAIN x5 : x5[i].outcome.exit # 0

BookOK ==
  /\ \A f \in DOMAIN x1.files :
        f > x2 \/ (f = x2 /\ x3 \in {"open", "prepare"}) => NotReached(f)
  /\ x3 \in {"walk", "judge"} => ResultsOK
  /\ x3 = "walk" =>
        /\ x4 \in Nat \ {0}
        /\ Failure \/ \A k \in DOMAIN J!Sections : k < x4 => x7[x2][k] \in Good
  /\ x3 = "judge" => Failure \/ \A k \in DOMAIN J!Sections : x7[x2][k] \in Good

VerdictOK == x8 = 0 => x3 = "done" /\ Len(x6) = Len(x1.files) /\ ~J!Wrong

BatchInv ==
  /\ BatchShape /\ BookOK /\ VerdictOK
  /\ \A f \in DOMAIN x6 : ReportOK(f)

LEMMA BooksAre ==
  ASSUME x1 \in BatchJobs
  PROVE  /\ Sequence(x1.files)
         /\ \A f \in DOMAIN x1.files :
              /\ Sequence(x1.files[f].sections)
              /\ \A k \in DOMAIN x1.files[f].sections : Sequence(x1.files[f].sections[k].lines)
BY FrontAssumption DEF J!BatchAssumption, J!Ordered, J!ToSet, Sequence

(* The workbook at hand and its sections.                                  *)
LEMMA BookIs ==
  ASSUME BatchShape, x2 <= Len(x1.files)
  PROVE  /\ x2 \in DOMAIN x1.files /\ x2 \in DOMAIN x7
         /\ J!Sections = x1.files[x2].sections /\ DOMAIN x7[x2] = DOMAIN J!Sections
         /\ Sequence(J!Sections)
         /\ \A k \in DOMAIN J!Sections : Sequence(J!Sections[k].lines)
<1>1. Sequence(x1.files) /\ DOMAIN x1.files = 1..Len(x1.files) /\ Len(x1.files) \in Nat
  BY BooksAre, Lengths DEF BatchShape
<1>2. x2 \in DOMAIN x1.files
  BY <1>1 DEF BatchShape
<1>3. J!Sections = x1.files[x2].sections
  BY DEF J!Sections, J!Book
<1>4. QED
  BY <1>2, <1>3, BooksAre DEF BatchShape

(* What was reported stays true while later workbooks are at hand.         *)
LEMMA ReportsStay ==
  ASSUME BatchInv, x3 \in {"open", "prepare", "walk", "judge"}, x1' = x1, DOMAIN x7' = DOMAIN x7,
         \A f \in DOMAIN x7 : f # x2 => x7'[f] = x7[f]
  PROVE  \A f \in DOMAIN x6 : x6'[f] = x6[f] => ReportOK(f)'
<1>1. SUFFICES ASSUME NEW f \in DOMAIN x6, x6'[f] = x6[f] PROVE ReportOK(f)'
  OBVIOUS
<1>2. Len(x6) \in Nat /\ DOMAIN x6 = 1..Len(x6) /\ Len(x1.files) \in Nat /\ DOMAIN x1.files = 1..Len(x1.files)
  BY BooksAre, Lengths DEF BatchInv, BatchShape
<1>3. f # x2 /\ f \in DOMAIN x7
  BY <1>2 DEF BatchInv, BatchShape
<1>4. x7'[f] = x7[f] /\ ReportOK(f)
  BY <1>3 DEF BatchInv
<1>5. \A c : CheckOK(f, c)' <=> CheckOK(f, c)
  BY <1>4, Zenon DEF CheckOK
<1>6. Honest(f)' <=> Honest(f)
  BY <1>1, <1>4 DEF Honest
<1>7. QED
  BY <1>1, <1>4, <1>5, <1>6 DEF ReportOK

(* A section is over: what became of it is good, or its result says that   *)
(* it is not.                                                              *)
LEMMA SectionOver ==
  ASSUME BatchInv, x3 = "walk", x4 <= Len(J!Sections), NEW what, NEW r,
         x7' = [x7 EXCEPT ![x2][x4] = what], x1' = x1, x2' = x2, x6' = x6, x8' = x8,
         \/ x5' = x5 /\ what \in Good \ Ended /\ x4' = x4 + 1 /\ x3' = x3
         \/ /\ x5' = Append(x5, r) /\ r.of = x4 /\ r.number = J!Number(J!Sections, x4)
            /\ J!Numbered(J!Sections[x4])
            /\ what \in Good \/ r.outcome.exit # 0
            /\ (x4' = x4 + 1 /\ x3' = x3) \/ (x3' = "judge" /\ r.outcome.exit # 0)
  PROVE  BatchInv'
<1>1. BatchShape /\ BookOK /\ x2 <= Len(x1.files) /\ x2 \in Nat \ {0}
  BY DEF BatchInv, BatchShape
<1>2. /\ x2 \in DOMAIN x1.files /\ x2 \in DOMAIN x7
      /\ J!Sections = x1.files[x2].sections /\ DOMAIN x7[x2] = DOMAIN J!Sections
      /\ Sequence(J!Sections) /\ DOMAIN J!Sections = 1..Len(J!Sections) /\ Len(J!Sections) \in Nat
  BY <1>1, BookIs, Lengths
<1>3. x4 \in DOMAIN J!Sections /\ ResultsOK
  BY <1>1, <1>2 DEF BookOK
<1>4. /\ DOMAIN x7' = DOMAIN x7 /\ DOMAIN x7'[x2] = DOMAIN x7[x2]
      /\ \A f \in DOMAIN x7 : f # x2 => x7'[f] = x7[f]
      /\ x7'[x2][x4] = what
      /\ \A k \in DOMAIN x7[x2] : k # x4 => x7'[x2][k] = x7[x2][k]
  BY <1>2, <1>3
<1>5. J!Sections' = J!Sections
  BY DEF J!Sections, J!Book
<1>6. BatchShape'
  <2>1. \A f \in DOMAIN x1.files : DOMAIN x7'[f] = DOMAIN x1.files[f].sections
    BY <1>1, <1>2, <1>4 DEF BatchShape
  <2>2. J!Wrong' <=> J!Wrong
    BY DEF J!Wrong
  <2>3. x3' # "done" => x3' \in {"walk", "judge"}
    OBVIOUS
  <2>4. QED
    BY <1>1, <1>4, <2>1, <2>2 DEF BatchShape
<1>7. BookOK'
  <2>1. ASSUME NEW f \in DOMAIN x1.files, f > x2 PROVE NotReached(f)'
    <3>1. f # x2 /\ f \in DOMAIN x7
      BY <1>1, <2>1, BooksAre, Lengths DEF BatchShape
    <3>2. x7'[f] = x7[f]
      BY <1>4, <3>1
    <3>3. NotReached(f)
      BY <1>1, <2>1 DEF BookOK
    <3>4. QED
      BY <3>2, <3>3 DEF NotReached
  <2>2. Sequence(x5)' /\ (Failure => Failure') /\ ResultsOK'
    <3>1. Sequence(x5)
      BY <1>3 DEF ResultsOK
    <3>2. CASE x5' = x5 /\ what \in Good \ Ended
      <4>1. ResultsOK'
        BY <1>2, <1>3, <1>4, <1>5, <3>2 DEF ResultsOK
      <4>2. QED
        BY <3>1, <3>2, <4>1 DEF Failure, Sequence
    <3>3. CASE /\ x5' = Append(x5, r) /\ r.of = x4 /\ r.number = J!Number(J!Sections, x4)
               /\ J!Numbered(J!Sections[x4])
      <4>1. PICK s : s = x5'
        OBVIOUS
      <4>2. /\ Sequence(s) /\ Len(s) = Len(x5) + 1
            /\ \A i \in DOMAIN x5 : s[i] = x5[i]
            /\ s[Len(x5) + 1] = r
        <5>1. s = Append(x5, r)
          BY <3>3, <4>1
        <5>2. QED
          BY <3>1, <5>1, Appended, Zenon
      <4>3. /\ Len(x5) \in Nat /\ DOMAIN x5 = 1..Len(x5) /\ DOMAIN s = 1..(Len(x5) + 1)
        BY <3>1, <4>2, Lengths
      <4>4. ASSUME NEW i \in DOMAIN s
            PROVE  \/ s[i].of = 0
                   \/ /\ s[i].of \in DOMAIN J!Sections /\ J!Numbered(J!Sections[s[i].of])
                      /\ s[i].number = J!Number(J!Sections, s[i].of)
        <5>1. i \in DOMAIN x5 \/ i = Len(x5) + 1
          BY <4>3
        <5>2. QED
          BY <5>1, <4>2, <1>3, <3>3 DEF ResultsOK
      <4>5. ASSUME NEW k \in DOMAIN J!Sections, x7'[x2][k] \in Ended PROVE \E i \in DOMAIN s : s[i].of = k
        <5>1. CASE k = x4
          <6>1. Len(x5) + 1 \in DOMAIN s
            BY <4>3
          <6>2. r.of = k
            BY <3>3, <5>1
          <6>3. QED
            BY <4>2, <6>1, <6>2
        <5>2. CASE k # x4
          BY <5>2, <1>2, <1>3, <1>4, <4>5, <4>2, <4>3 DEF ResultsOK
        <5>3. QED
          BY <5>1, <5>2
      <4>6. ResultsOK'
        BY <4>1, <4>2, <4>4, <4>5, <1>5 DEF ResultsOK, Sequence
      <4>7. Failure => Failure'
        BY <4>1, <4>2, <4>3 DEF Failure
      <4>8. QED
        BY <4>1, <4>2, <4>6, <4>7 DEF ResultsOK, Sequence
    <3>4. QED
      BY <3>2, <3>3
  <2>3. Failure' \/ what \in Good
    <3>1. CASE x5' = Append(x5, r) /\ r.outcome.exit # 0
      <4>1. PICK s : s = x5'
        OBVIOUS
      <4>2. Sequence(x5) /\ Len(x5) \in Nat
        BY <1>3, Lengths DEF ResultsOK
      <4>3. Sequence(s) /\ Len(s) = Len(x5) + 1 /\ s[Len(x5) + 1] = r
        BY <3>1, <4>1, <4>2, Appended, Zenon
      <4>4. Len(x5) + 1 \in DOMAIN s
        BY <4>2, <4>3, Lengths
      <4>5. QED
        BY <3>1, <4>1, <4>3, <4>4 DEF Failure
    <3>2. QED
      BY <3>1
  <2>4. Failure' \/ \A k \in DOMAIN J!Sections : k < x4 + 1 => x7'[x2][k] \in Good
    <3>1. CASE Failure
      BY <3>1, <2>2
    <3>2. CASE ~Failure
      <4>1. \A k \in DOMAIN J!Sections : k < x4 => x7[x2][k] \in Good
        BY <1>1, <3>2 DEF BookOK
      <4>2. \A k \in DOMAIN J!Sections : k < x4 + 1 => k = x4 \/ k < x4
        BY <1>2, <1>3
      <4>3. QED
        BY <1>2, <1>4, <2>3, <4>1, <4>2
    <3>3. QED
      BY <3>1, <3>2
  <2>5. x3' = "judge" => Failure'
    <3>1. SUFFICES ASSUME x3' = "judge" PROVE Failure'
      OBVIOUS
    <3>2. x5' = Append(x5, r) /\ r.outcome.exit # 0
      BY <3>1
    <3>3. PICK s : s = x5'
      OBVIOUS
    <3>4. Sequence(x5) /\ Len(x5) \in Nat
      BY <1>3, Lengths DEF ResultsOK
    <3>5. Sequence(s) /\ Len(s) = Len(x5) + 1 /\ s[Len(x5) + 1] = r
      BY <3>2, <3>3, <3>4, Appended, Zenon
    <3>6. Len(x5) + 1 \in DOMAIN s
      BY <3>4, <3>5, Lengths
    <3>7. QED
      BY <3>2, <3>3, <3>5, <3>6 DEF Failure
  <2>6. x3' = "walk" => x4' \in Nat \ {0} /\ x4' = x4 + 1
    BY <1>1 DEF BookOK
  <2>7. x3' \in {"walk", "judge"}
    OBVIOUS
  <2>8. QED
    BY <2>1, <2>2, <2>4, <2>5, <2>6, <2>7, <1>5 DEF BookOK
<1>8. VerdictOK'
  BY <1>1 DEF BatchShape, VerdictOK
<1>9. \A f \in DOMAIN x6' : ReportOK(f)'
  BY <1>4, ReportsStay
<1>10. QED
  BY <1>6, <1>7, <1>8, <1>9 DEF BatchInv

(* The sections, one by one.                                               *)
LEMMA WalkSteps ==
  ASSUME BatchInv,
         J!Pass \/ J!Skip \/ J!RunCode \/ J!BadSlice \/ J!RunSlice \/ J!PauseSlice \/ J!Wait
  PROVE  BatchInv'
<1> DEFINE R(outcome) == J!Result(J!Number(J!Sections, x4), outcome, x4)
<1>1. x3 = "walk" /\ x4 <= Len(J!Sections) /\ J!Here = J!Sections[x4]
  BY DEF J!Pass, J!Skip, J!RunCode, J!BadSlice, J!RunSlice, J!PauseSlice, J!Wait, J!Walking, J!Here
<1>2. \A outcome : R(outcome).of = x4 /\ R(outcome).number = J!Number(J!Sections, x4) /\ R(outcome).outcome = outcome
  BY DEF J!Result
<1>3. x1' = x1 /\ x2' = x2 /\ x6' = x6 /\ x8' = x8
  BY DEF J!Pass, J!Skip, J!RunCode, J!BadSlice, J!RunSlice, J!PauseSlice, J!Wait, J!Passed
<1>4. CASE J!Pass \/ J!Skip
  <2>1. PICK what \in {"passed over", "skipped"} : x7' = [x7 EXCEPT ![x2][x4] = what]
    BY <1>4 DEF J!Pass, J!Skip, J!Passed
  <2>2. x5' = x5 /\ x4' = x4 + 1 /\ x3' = x3 /\ what \in Good \ Ended
    BY <1>4 DEF J!Pass, J!Skip, J!NextSection, Good, Ended
  <2>3. QED
    BY <1>1, <1>3, <2>1, <2>2, SectionOver
<1>5. CASE J!RunCode \/ J!RunSlice
  <2>1. PICK outcome : /\ x5' = Append(x5, R(outcome))
                       /\ x7' = [x7 EXCEPT ![x2][x4] = IF outcome.exit = 0 THEN "ok" ELSE "failed"]
    BY <1>5 DEF J!RunCode, J!RunSlice, J!Answer, J!Passed
  <2>2. x4' = x4 + 1 /\ x3' = x3 /\ J!Numbered(J!Sections[x4])
    BY <1>1, <1>5 DEF J!RunCode, J!RunSlice, J!NextSection, J!Numbered
  <2>3. PICK what : what = IF outcome.exit = 0 THEN "ok" ELSE "failed"
    OBVIOUS
  <2>4. what \in Good \/ R(outcome).outcome.exit # 0
    BY <1>2, <2>3 DEF Good
  <2>5. PICK r : r = R(outcome)
    OBVIOUS
  <2>6. r.of = x4 /\ r.number = J!Number(J!Sections, x4) /\ (what \in Good \/ r.outcome.exit # 0)
    BY <1>2, <2>4, <2>5
  <2> HIDE DEF R
  <2>7. x5' = Append(x5, r) /\ x7' = [x7 EXCEPT ![x2][x4] = what]
    BY <2>1, <2>3, <2>5, Zenon
  <2>8. /\ x5' = Append(x5, r) /\ r.of = x4 /\ r.number = J!Number(J!Sections, x4)
        /\ J!Numbered(J!Sections[x4])
        /\ what \in Good \/ r.outcome.exit # 0
        /\ (x4' = x4 + 1 /\ x3' = x3) \/ (x3' = "judge" /\ r.outcome.exit # 0)
    BY <2>2, <2>6, <2>7
  <2>9. QED
    BY <1>1, <1>3, <2>7, <2>8, SectionOver, Zenon
<1>6. CASE J!BadSlice \/ J!PauseSlice \/ J!Wait
  <2>1. PICK outcome, what :
          /\ x5' = Append(x5, R(outcome)) /\ outcome.exit = 1
          /\ x7' = [x7 EXCEPT ![x2][x4] = what]
    <3>1. J!Failure.exit = 1 /\ \A out : [J!Failure EXCEPT !.out = out].exit = 1
      BY DEF J!Failure
    <3>2. CASE J!BadSlice \/ J!Wait
      BY <3>1, <3>2 DEF J!BadSlice, J!Wait, J!Answer, J!Passed
    <3>3. CASE J!PauseSlice
      <4>1. PICK out : J!Answer([J!Failure EXCEPT !.out = out])
        BY <3>3 DEF J!PauseSlice
      <4>2. PICK outcome : outcome = [J!Failure EXCEPT !.out = out]
        OBVIOUS
      <4>3. outcome.exit = 1 /\ x5' = Append(x5, R(outcome))
        BY <3>1, <4>1, <4>2, Zenon DEF J!Answer
      <4>4. x7' = [x7 EXCEPT ![x2][x4] = "paused"]
        BY <3>3 DEF J!PauseSlice, J!Passed
      <4>5. QED
        BY <4>3, <4>4, Zenon
    <3>4. QED
      BY <1>6, <3>2, <3>3
  <2>2. /\ (x4' = x4 + 1 /\ x3' = x3) \/ x3' = "judge"
        /\ J!Numbered(J!Sections[x4])
    BY <1>1, <1>6 DEF J!BadSlice, J!PauseSlice, J!Wait, J!NextSection, J!Break, J!Numbered
  <2>3. PICK r : r = R(outcome)
    OBVIOUS
  <2>4. r.of = x4 /\ r.number = J!Number(J!Sections, x4) /\ r.outcome.exit # 0
    BY <1>2, <2>1, <2>3
  <2> HIDE DEF R
  <2>5. QED
    BY <1>1, <1>3, <2>1, <2>2, <2>3, <2>4, SectionOver
<1>7. QED
  BY <1>4, <1>5, <1>6

LEMMA EndSteps == ASSUME BatchInv, J!AtEnd PROVE BatchInv'
<1>1. /\ x3 = "walk" /\ x4 > Len(J!Sections) /\ x3' = "judge"
      /\ x1' = x1 /\ x2' = x2 /\ x4' = x4 /\ x5' = x5 /\ x6' = x6 /\ x7' = x7 /\ x8' = x8
  BY DEF J!AtEnd
<1>2. BatchShape /\ BookOK /\ x2 <= Len(x1.files)
  BY <1>1 DEF BatchInv, BatchShape
<1>3. DOMAIN J!Sections = 1..Len(J!Sections) /\ Len(J!Sections) \in Nat
  BY <1>2, BookIs, Lengths
<1>4. J!Sections' = J!Sections /\ (J!Wrong' <=> J!Wrong) /\ (Failure' <=> Failure)
  BY <1>1 DEF J!Sections, J!Book, J!Wrong, Failure
<1>5. BatchShape'
  BY <1>1, <1>2, <1>4 DEF BatchShape
<1>6. BookOK'
  <2>1. ResultsOK'
    BY <1>1, <1>2, <1>4 DEF BookOK, ResultsOK, Sequence
  <2>2. Failure \/ \A k \in DOMAIN J!Sections : x7[x2][k] \in Good
    BY <1>1, <1>2, <1>3 DEF BookOK
  <2>3. \A f : NotReached(f)' <=> NotReached(f)
    BY <1>1 DEF NotReached
  <2>4. QED
    BY <1>1, <1>2, <1>4, <2>1, <2>2, <2>3 DEF BookOK
<1>7. VerdictOK'
  BY <1>1, <1>2 DEF BatchShape, VerdictOK
<1>8. \A f \in DOMAIN x6' : ReportOK(f)'
  BY <1>1, ReportsStay
<1>9. QED
  BY <1>5, <1>6, <1>7, <1>8 DEF BatchInv

LEMMA Single == ASSUME NEW e PROVE Sequence(<<e>>) /\ DOMAIN <<e>> = 1..1 /\ <<e>>[1] = e
<1>1. <<e>> \in Seq({e}) /\ Len(<<e>>) = 1 /\ <<e>>[1] = e
  OBVIOUS
<1>2. Sequence(<<e>>)
  BY <1>1, Typed
<1>3. DOMAIN <<e>> = 1..1
  BY <1>1, <1>2, Lengths
<1>4. QED
  BY <1>1, <1>2, <1>3

(* A result that stands in for a workbook that was not walked.             *)
LEMMA StoodIn ==
  ASSUME BatchInv, x3 \in {"open", "prepare"}, x2 <= Len(x1.files),
         x1' = x1, x2' = x2, x6' = x6, x8' = x8, x3' = "judge",
         DOMAIN x7' = DOMAIN x7, DOMAIN x7'[x2] = DOMAIN x7[x2],
         \A f \in DOMAIN x7 : f # x2 => x7'[f] = x7[f],
         \A k \in DOMAIN J!Sections : x7'[x2][k] \notin Ended,
         Sequence(x5'), DOMAIN x5' = 1..1, x5'[1].of = 0,
         x5'[1].outcome.exit # 0 \/ \A k \in DOMAIN J!Sections : x7'[x2][k] \in Good
  PROVE  BatchInv'
<1>1. BatchShape /\ BookOK
  BY DEF BatchInv
<1>2. /\ x2 \in DOMAIN x1.files /\ x2 \in DOMAIN x7 /\ x2 \in Nat \ {0}
      /\ J!Sections = x1.files[x2].sections /\ DOMAIN x7[x2] = DOMAIN J!Sections
  BY <1>1, BookIs DEF BatchShape
<1>3. J!Sections' = J!Sections /\ (J!Wrong' <=> J!Wrong)
  BY DEF J!Sections, J!Book, J!Wrong
<1>4. /\ x8 = -1 /\ Len(x6) = x2 - 1 /\ Len(x1.files) \in Nat
      /\ DOMAIN x1.files = 1..Len(x1.files) /\ DOMAIN x7 = DOMAIN x1.files
  <2>1. Len(x1.files) \in Nat /\ DOMAIN x1.files = 1..Len(x1.files)
    BY <1>1, BooksAre, Lengths DEF BatchShape
  <2>2. x8 = -1 /\ (Len(x6) = x2 - 1 \/ x2 = Len(x1.files) + 1) /\ DOMAIN x7 = DOMAIN x1.files
    BY <1>1 DEF BatchShape
  <2>3. QED
    BY <2>1, <2>2, <1>2
<1>5. ResultsOK'
  <2>1. PICK s : s = x5'
    OBVIOUS
  <2>2. \A i \in DOMAIN s : s[i].of = 0
    BY <2>1
  <2>3. QED
    BY <1>3, <2>1, <2>2 DEF ResultsOK, Sequence
<1>6. BookOK'
  <2>1. ASSUME NEW f \in DOMAIN x1.files, f > x2 PROVE NotReached(f)'
    <3>1. f # x2 /\ f \in DOMAIN x7
      BY <1>2, <1>4, <2>1
    <3>2. x7'[f] = x7[f] /\ NotReached(f)
      BY <1>1, <3>1, <2>1 DEF BookOK
    <3>3. QED
      BY <3>2 DEF NotReached
  <2>2. Failure' \/ \A k \in DOMAIN J!Sections : x7'[x2][k] \in Good
    BY DEF Failure
  <2>3. QED
    BY <1>3, <1>5, <2>1, <2>2 DEF BookOK
<1>7. BatchShape'
  <2>1. \A f \in DOMAIN x1.files : DOMAIN x7'[f] = DOMAIN x1.files[f].sections
    BY <1>1, <1>2 DEF BatchShape
  <2>2. Sequence(x6)'
    BY <1>1 DEF BatchShape, Sequence
  <2>3. QED
    BY <1>1, <1>4, <2>1, <2>2 DEF BatchShape
<1>8. VerdictOK'
  BY <1>4 DEF VerdictOK
<1>9. \A f \in DOMAIN x6' : ReportOK(f)'
  BY ReportsStay
<1>10. QED
  BY <1>6, <1>7, <1>8, <1>9 DEF BatchInv

(* The stand-ins: a file that cannot be read, a container, an env file or  *)
(* a setup command that fails.                                             *)
LEMMA StandIns ==
  ASSUME BatchInv, x3 \in {"open", "prepare"}, x2 <= Len(x1.files),
         NEW code, NEW err, J!Judged(J!StandIn(code, err)),
         x1' = x1, x2' = x2, x6' = x6, x8' = x8,
         NEW marks, \A k \in DOMAIN J!Sections : marks[k] \in {"passed inside", "failed inside"},
         \/ x7' = x7 /\ code # 0
         \/ /\ x7' = [x7 EXCEPT ![x2] = marks] /\ DOMAIN marks = DOMAIN J!Sections
            /\ code # 0 \/ \A k \in DOMAIN J!Sections : marks[k] = "passed inside"
  PROVE  BatchInv'
<1>1. /\ x2 \in DOMAIN x1.files /\ x2 \in DOMAIN x7 /\ DOMAIN x7[x2] = DOMAIN J!Sections
  BY BookIs DEF BatchInv
<1>2. NotReached(x2)
  BY <1>1 DEF BatchInv, BookOK
<1>3. /\ DOMAIN x7' = DOMAIN x7 /\ DOMAIN x7'[x2] = DOMAIN x7[x2]
      /\ \A f \in DOMAIN x7 : f # x2 => x7'[f] = x7[f]
      /\ \A k \in DOMAIN J!Sections : x7'[x2][k] \notin Ended
      /\ code # 0 \/ \A k \in DOMAIN J!Sections : x7'[x2][k] \in Good
  <2>1. CASE x7' = x7 /\ code # 0
    BY <2>1, <1>1, <1>2 DEF NotReached, Ended
  <2>2. CASE /\ x7' = [x7 EXCEPT ![x2] = marks] /\ DOMAIN marks = DOMAIN J!Sections
             /\ code # 0 \/ \A k \in DOMAIN J!Sections : marks[k] = "passed inside"
    <3>1. /\ DOMAIN x7' = DOMAIN x7 /\ x7'[x2] = marks
          /\ \A f \in DOMAIN x7 : f # x2 => x7'[f] = x7[f]
      BY <2>2, <1>1, Zenon
    <3>2. \A k \in DOMAIN J!Sections : marks[k] \notin Ended
      BY DEF Ended
    <3>3. QED
      BY <3>1, <3>2, <1>1, <2>2, Zenon DEF Good
  <2>3. QED
    BY <2>1, <2>2
<1>4. Sequence(x5') /\ DOMAIN x5' = 1..1 /\ x5'[1].of = 0 /\ x5'[1].outcome.exit = code
  <2>1. PICK e : e = [number |-> 0, outcome |-> [exit |-> code, out |-> {}, err |-> err], of |-> 0]
    OBVIOUS
  <2>2. x5' = <<e>>
    BY <2>1, Zenon DEF J!Judged, J!StandIn, J!Result
  <2>3. e.of = 0 /\ e.outcome.exit = code
    BY <2>1, Zenon
  <2>4. PICK s : s = x5'
    OBVIOUS
  <2>5. Sequence(s) /\ DOMAIN s = 1..1 /\ s[1] = e
    BY <2>2, <2>4, Single, Zenon
  <2>6. QED
    BY <2>3, <2>4, <2>5, Zenon
<1>5. x3' = "judge"
  BY DEF J!Judged
<1>6. QED
  BY <1>3, <1>4, <1>5, StoodIn, Zenon

(* On to a workbook's sections.                                            *)
LEMMA WalkBegins ==
  ASSUME BatchInv, x3 = "prepare", x3' = "walk", x4' = 1, x5' = << >>,
         x1' = x1, x2' = x2, x6' = x6, x7' = x7, x8' = x8
  PROVE  BatchInv'
<1>1. BatchShape /\ BookOK /\ x2 <= Len(x1.files)
  BY DEF BatchInv, BatchShape
<1>2. DOMAIN J!Sections = 1..Len(J!Sections) /\ DOMAIN x7[x2] = DOMAIN J!Sections /\ x2 \in DOMAIN x1.files
  BY <1>1, BookIs, Lengths
<1>3. NotReached(x2)
  BY <1>1, <1>2 DEF BookOK
<1>4. J!Sections' = J!Sections /\ (J!Wrong' <=> J!Wrong)
  BY DEF J!Sections, J!Book, J!Wrong
<1>5. ResultsOK'
  <2>1. Sequence(x5)' /\ DOMAIN x5' = {}
    <3>1. PICK s : s = x5'
      OBVIOUS
    <3>2. Sequence(s) /\ DOMAIN s = {}
      BY <3>1, EmptySequence
    <3>3. QED
      BY <3>1, <3>2 DEF Sequence
  <2>2. \A k \in DOMAIN J!Sections : x7[x2][k] \notin Ended
    BY <1>2, <1>3 DEF NotReached, Ended
  <2>3. QED
    BY <1>4, <2>1, <2>2 DEF ResultsOK
<1>6. BookOK'
  <2>1. \A k \in DOMAIN J!Sections : ~(k < 1)
    BY <1>2
  <2>2. \A f : NotReached(f)' <=> NotReached(f)
    BY DEF NotReached
  <2>3. QED
    BY <1>1, <1>4, <1>5, <2>1, <2>2 DEF BookOK
<1>7. BatchShape'
  BY <1>1, <1>4 DEF BatchShape, Sequence
<1>8. VerdictOK'
  BY <1>1 DEF BatchShape, VerdictOK
<1>9. \A f \in DOMAIN x6' : ReportOK(f)'
  BY ReportsStay
<1>10. QED
  BY <1>6, <1>7, <1>8, <1>9 DEF BatchInv

(* A report is added, and the next workbook is at hand, or none.           *)
LEMMA Reports ==
  ASSUME BatchInv, x3 \in {"open", "judge"}, x2 <= Len(x1.files), NEW r,
         x6' = Append(x6, r), x3' = "open", x1' = x1, x7' = x7, x8' = x8,
         x2' = x2 + 1 \/ (x2' = Len(x1.files) + 1 /\ r.failed > 0),
         \A i \in DOMAIN r.checks : CheckOK(x2, r.checks[i]),
         ~r.error /\ ~(r.failed > 0) =>
            /\ \A i \in DOMAIN r.checks : r.checks[i].ok
            /\ x1.command # "test" => \A k \in DOMAIN x7[x2] : x7[x2][k] \in Good
  PROVE  BatchInv'
<1>1. BatchShape /\ BookOK
  BY DEF BatchInv
<1>2. /\ x8 = -1 /\ Len(x6) = x2 - 1 /\ Len(x1.files) \in Nat /\ x2 \in Nat \ {0}
      /\ DOMAIN x1.files = 1..Len(x1.files) /\ DOMAIN x6 = 1..(x2 - 1)
  <2>1. Len(x1.files) \in Nat /\ DOMAIN x1.files = 1..Len(x1.files)
    BY <1>1, BooksAre, Lengths DEF BatchShape
  <2>2. x8 = -1 /\ (Len(x6) = x2 - 1 \/ x2 = Len(x1.files) + 1) /\ x2 \in Nat \ {0} /\ DOMAIN x6 = 1..Len(x6)
    BY <1>1, Lengths DEF BatchShape
  <2>3. QED
    BY <2>1, <2>2
<1>3. PICK s : s = x6'
  OBVIOUS
<1>4. /\ Sequence(s) /\ Len(s) = x2 /\ \A i \in DOMAIN x6 : s[i] = x6[i]
      /\ s[x2] = r /\ DOMAIN s = 1..x2
  <2>1. s = Append(x6, r) /\ Sequence(x6)
    BY <1>1, <1>3 DEF BatchShape
  <2>2. /\ Sequence(s) /\ Len(s) = Len(x6) + 1 /\ \A i \in DOMAIN x6 : s[i] = x6[i]
        /\ s[Len(x6) + 1] = r
    BY <2>1, Appended, Zenon
  <2>3. Len(x6) + 1 = x2
    BY <1>2
  <2>4. DOMAIN s = 1..Len(s)
    BY <2>2, Lengths
  <2>5. QED
    BY <2>2, <2>3, <2>4
<1>5. BatchShape'
  <2>1. Len(x6') = x2 /\ Sequence(x6)'
    BY <1>3, <1>4 DEF Sequence
  <2>2. x2' \in Nat \ {0} /\ x2' <= Len(x1.files) + 1
    BY <1>2
  <2>3. r.failed > 0 => J!Wrong'
    <3>1. x2 \in DOMAIN s
      BY <1>2, <1>4
    <3>2. QED
      BY <1>3, <1>4, <3>1 DEF J!Wrong
  <2>4. QED
    BY <1>1, <1>2, <2>1, <2>2, <2>3 DEF BatchShape
<1>6. BookOK'
  <2>1. ASSUME NEW f \in DOMAIN x1.files, f > x2' \/ f = x2' PROVE NotReached(f)'
    <3>1. f > x2
      BY <1>2, <2>1
    <3>2. NotReached(f)
      BY <1>1, <3>1 DEF BookOK
    <3>3. QED
      BY <3>2 DEF NotReached
  <2>2. QED
    BY <2>1 DEF BookOK
<1>7. VerdictOK'
  BY <1>2 DEF VerdictOK
<1>8. ASSUME NEW f \in DOMAIN x6' PROVE ReportOK(f)'
  <2>1. CASE f \in DOMAIN x6
    <3>1. x6'[f] = x6[f]
      BY <1>3, <1>4, <2>1
    <3>2. QED
      BY <2>1, <3>1, ReportsStay
  <2>2. CASE f = x2
    <3>1. x6'[x2] = r
      BY <1>3, <1>4
    <3>2. \A c : CheckOK(x2, c) => LET block == J!Before(x1'.files[x2].sections, c.fence)
                                  IN  IF c.of = J!Unread THEN ~c.ok
                                      ELSE IF c.of = J!NoBlock THEN ~c.ok /\ (block = 0 \/ x7'[x2][block] \notin Ended)
                                      ELSE c.of \in {0, block}
      BY DEF CheckOK
    <3>3. \A i \in DOMAIN x6'[x2].checks : CheckOK(x2, x6'[x2].checks[i])
      BY <3>1
    <3>4. QED
      BY <2>2, <3>1, <3>2, <3>3 DEF ReportOK, Honest, CheckOK
  <2>3. QED
    BY <1>2, <1>3, <1>4, <2>1, <2>2
<1>9. QED
  BY <1>5, <1>6, <1>7, <1>8 DEF BatchInv

(* Before the first block.                                                 *)
LEMMA OpenSteps == ASSUME BatchInv, J!Open PROVE BatchInv'
<1>1. /\ x3 = "open" /\ x2 <= Len(x1.files) /\ x1' = x1 /\ x7' = x7
      /\ BatchShape /\ BookOK /\ x8 = -1
  <2>1. x3 = "open" /\ x2 <= Len(x1.files) /\ x1' = x1 /\ x7' = x7
    BY Zenon DEF J!Open
  <2>2. QED
    BY <2>1 DEF BatchInv, BatchShape
<1>2. CASE x3' = "done" /\ x8' = 3 /\ x6' = x6 /\ x2' = x2 /\ x4' = x4 /\ x5' = x5
  <2>1. BatchShape'
    BY <1>1, <1>2 DEF BatchShape, Sequence
  <2>2. \A f : NotReached(f)' <=> NotReached(f)
    BY <1>1 DEF NotReached
  <2>3. BookOK'
    BY <1>1, <1>2, <2>2 DEF BookOK
  <2>4. VerdictOK'
    BY <1>2 DEF VerdictOK
  <2>5. \A f \in DOMAIN x6' : ReportOK(f)'
    BY <1>1, <1>2, ReportsStay
  <2>6. QED
    BY <2>1, <2>3, <2>4, <2>5 DEF BatchInv
<1>3. CASE /\ x6' = Append(x6, [J!NoChecks EXCEPT !.error = TRUE])
           /\ x2' = x2 + 1 /\ x3' = x3 /\ x8' = x8
  <2>1. PICK r : r = [J!NoChecks EXCEPT !.error = TRUE]
    OBVIOUS
  <2>2. r.error /\ DOMAIN r.checks = {}
    <3>1. r = [[error |-> FALSE, passed |-> 0, failed |-> 0, checks |-> << >>] EXCEPT !.error = TRUE]
      BY <2>1 DEF J!NoChecks
    <3>2. r.error /\ r.checks = << >>
      BY <3>1, Zenon
    <3>3. QED
      BY <3>2, EmptySequence
  <2>3. x6' = Append(x6, r)
    BY <1>3, <2>1
  <2>4. QED
    BY <1>1, <1>3, <2>2, <2>3, Reports
<1>4. CASE J!Judged(J!StandIn(1, Words)) /\ x6' = x6 /\ x2' = x2 /\ x8' = x8
  <2>1. PICK marks : \A k \in DOMAIN J!Sections : marks[k] \in {"passed inside", "failed inside"}
    <3>1. \A k \in DOMAIN J!Sections : [j \in DOMAIN J!Sections |-> "passed inside"][k] \in {"passed inside", "failed inside"}
      OBVIOUS
    <3>2. QED
      BY <3>1
  <2>2. QED
    <3>1. x3 \in {"open", "prepare"} /\ 1 # 0
      BY <1>1
    <3>2. QED
      BY <1>1, <1>4, <2>1, <3>1, StandIns, Zenon
<1>5. CASE x3' = "prepare" /\ x4' = x4 /\ x5' = x5 /\ x6' = x6 /\ x2' = x2 /\ x8' = x8
  <2>1. BatchShape'
    <3>1. J!Wrong' <=> J!Wrong
      BY <1>5 DEF J!Wrong
    <3>2. QED
      BY <1>1, <1>5, <3>1 DEF BatchShape, Sequence
  <2>2. \A f : NotReached(f)' <=> NotReached(f)
    BY <1>1 DEF NotReached
  <2>3. BookOK'
    BY <1>1, <1>5, <2>2 DEF BookOK
  <2>4. VerdictOK'
    BY <1>1, <1>5 DEF VerdictOK
  <2>5. \A f \in DOMAIN x6' : ReportOK(f)'
    BY <1>1, <1>5, ReportsStay
  <2>6. QED
    BY <2>1, <2>3, <2>4, <2>5 DEF BatchInv
<1>6. QED
  <2>1. \/ x3' = "done" /\ x8' = 3 /\ x6' = x6 /\ x2' = x2 /\ x4' = x4 /\ x5' = x5
        \/ J!Reported([J!NoChecks EXCEPT !.error = TRUE]) /\ x2' = x2 + 1 /\ x3' = x3 /\ x8' = x8
        \/ J!Judged(J!StandIn(1, Words)) /\ x6' = x6 /\ x2' = x2 /\ x8' = x8
        \/ x3' = "prepare" /\ x4' = x4 /\ x5' = x5 /\ x6' = x6 /\ x2' = x2 /\ x8' = x8
    BY DEF J!Open, J!Invalid
  <2>2. J!Reported([J!NoChecks EXCEPT !.error = TRUE]) => x6' = Append(x6, [J!NoChecks EXCEPT !.error = TRUE])
    BY Zenon DEF J!Reported
  <2>3. QED
    BY <1>2, <1>3, <1>4, <1>5, <2>1, <2>2, Zenon

LEMMA PrepareSteps == ASSUME BatchInv, J!Contained \/ J!Prepare PROVE BatchInv'
<1>1. /\ x3 = "prepare" /\ x1' = x1 /\ x2' = x2 /\ x6' = x6 /\ x8' = x8
      /\ x2 <= Len(x1.files)
  BY DEF J!Contained, J!Prepare, BatchInv, BatchShape
<1>2. CASE J!Judged(J!StandIn(1, Words)) /\ x7' = x7
  <2>1. PICK marks : marks = [j \in DOMAIN J!Sections |-> "passed inside"]
    OBVIOUS
  <2>2. \A k \in DOMAIN J!Sections : marks[k] \in {"passed inside", "failed inside"}
    BY <2>1
  <2>3. QED
    <3>1. x3 \in {"open", "prepare"} /\ 1 # 0
      BY <1>1
    <3>2. QED
      BY <1>1, <1>2, <2>2, <3>1, StandIns, Zenon
<1>3. ASSUME NEW code \in {0, 1}, J!Judged(J!StandIn(code, {})),
             x7' = [x7 EXCEPT ![x2] = [k \in DOMAIN J!Sections |-> IF code = 0 THEN "passed inside" ELSE "failed inside"]]
      PROVE  BatchInv'
  <2>1. PICK marks : marks = [k \in DOMAIN J!Sections |-> IF code = 0 THEN "passed inside" ELSE "failed inside"]
    OBVIOUS
  <2>2. /\ \A k \in DOMAIN J!Sections : marks[k] \in {"passed inside", "failed inside"}
        /\ DOMAIN marks = DOMAIN J!Sections
        /\ code # 0 \/ \A k \in DOMAIN J!Sections : marks[k] = "passed inside"
    BY <2>1
  <2>3. x7' = [x7 EXCEPT ![x2] = marks]
    BY <1>3, <2>1, Zenon
  <2>4. x3 \in {"open", "prepare"}
    BY <1>1
  <2>5. QED
    BY <1>1, <1>3, <2>2, <2>3, <2>4, StandIns, Zenon
<1>4. CASE x3' = "walk" /\ x4' = 1 /\ x5' = << >> /\ x7' = x7
  BY <1>1, <1>4, WalkBegins
<1>5. CASE J!Contained
  <2>1. \/ J!Judged(J!StandIn(1, Words)) /\ x7' = x7
        \/ \E code \in {0, 1} :
              /\ J!Judged(J!StandIn(code, {}))
              /\ x7' = [x7 EXCEPT ![x2] = [k \in DOMAIN J!Sections |-> IF code = 0 THEN "passed inside" ELSE "failed inside"]]
    BY <1>5, Zenon DEF J!Contained
  <2>2. QED
    BY <1>2, <1>3, <2>1, Zenon
<1>6. CASE J!Prepare
  BY <1>2, <1>4, <1>6 DEF J!Prepare
<1>7. QED
  BY <1>5, <1>6

(* The report of a workbook that is over.                                  *)
LEMMA JudgeSteps == ASSUME BatchInv, J!Judge PROVE BatchInv'
<1>1. /\ x3 = "judge" /\ x3' = "open" /\ x1' = x1 /\ x7' = x7 /\ x8' = x8
      /\ x6' = Append(x6, J!Report)
      /\ x2' = x2 + 1 \/ (x2' = Len(x1.files) + 1 /\ J!Report.failed > 0)
  BY DEF J!Judge, J!Reported
<1>2. /\ BatchShape /\ BookOK /\ x2 <= Len(x1.files) /\ ResultsOK
      /\ Failure \/ \A k \in DOMAIN J!Sections : x7[x2][k] \in Good
  BY <1>1 DEF BatchInv, BatchShape, BookOK
<1>3. /\ Sequence(J!Sections) /\ DOMAIN x7[x2] = DOMAIN J!Sections
      /\ \A k \in DOMAIN J!Sections : Sequence(J!Sections[k].lines)
  BY <1>2, BookIs
<1> DEFINE checks == IF x1.command = "folder" THEN << >> ELSE J!WalkExpects
           failed == (IF x1.command # "folder" THEN J!Failing(checks) ELSE 0)
                        + (IF x1.command # "test" THEN J!FailedBlocks ELSE 0)
           r == J!Report
<1>4. ChecksOK(checks)
  <2>1. ChecksOK(J!WalkExpects)
    BY <1>2, <1>3, WalkOK
  <2>2. ChecksOK(<< >>)
    BY EmptySequence DEF ChecksOK
  <2>3. QED
    BY <2>1, <2>2, Zenon
<1>5. r.failed = failed /\ r.checks = checks
  BY DEF J!Report
<1> HIDE DEF r
<1>6. /\ J!Failing(checks) \in Nat
      /\ J!Failing(checks) = 0 => \A i \in DOMAIN checks : checks[i].ok
  <2> DEFINE bad == {i \in DOMAIN checks : ~checks[i].ok}
  <2>1. IsFiniteSet(bad)
    <3>1. Len(checks) \in Nat /\ DOMAIN checks = 1..Len(checks)
      BY <1>4, Lengths DEF ChecksOK
    <3>2. IsFiniteSet(DOMAIN checks) /\ bad \subseteq DOMAIN checks
      BY <3>1, FS_Interval
    <3>3. QED
      BY <3>2, FS_Subset
  <2>2. J!Failing(checks) = Cardinality(bad)
    BY SameCardinality DEF J!Failing
  <2>3. Cardinality(bad) \in Nat /\ (Cardinality(bad) = 0 => bad = {})
    BY <2>1, FS_CardinalityType, FS_EmptySet
  <2> HIDE DEF checks
  <2>4. QED
    BY <2>2, <2>3
<1>7. /\ J!FailedBlocks \in Nat
      /\ J!FailedBlocks = 0 => ~Failure
  <2> DEFINE bad == {i \in DOMAIN x5 : x5[i].outcome.exit # 0}
  <2>1. IsFiniteSet(bad)
    <3>1. Len(x5) \in Nat /\ DOMAIN x5 = 1..Len(x5)
      BY <1>2, Lengths DEF ResultsOK
    <3>2. IsFiniteSet(DOMAIN x5) /\ bad \subseteq DOMAIN x5
      BY <3>1, FS_Interval
    <3>3. QED
      BY <3>2, FS_Subset
  <2>2. J!FailedBlocks = Cardinality(bad)
    BY SameCardinality DEF J!FailedBlocks
  <2>3. Cardinality(bad) \in Nat /\ (Cardinality(bad) = 0 => bad = {})
    BY <2>1, FS_CardinalityType, FS_EmptySet
  <2>4. QED
    BY <2>2, <2>3 DEF Failure
<1>8. \A i \in DOMAIN r.checks : CheckOK(x2, r.checks[i])
  BY <1>4, <1>5, Zenon DEF ChecksOK
<1>9. ASSUME ~(r.failed > 0)
      PROVE  /\ \A i \in DOMAIN r.checks : r.checks[i].ok
             /\ x1.command # "test" => \A k \in DOMAIN x7[x2] : x7[x2][k] \in Good
  <2>1. ASSUME x1.command # "folder" PROVE J!Failing(checks) = 0
    <3> HIDE DEF checks
    <3>1. QED
      BY <1>5, <1>6, <1>7, <1>9, <2>1
  <2>2. ASSUME x1.command # "test" PROVE J!FailedBlocks = 0
    <3> HIDE DEF checks
    <3>1. QED
      BY <1>5, <1>6, <1>7, <1>9, <2>2
  <2>3. \A i \in DOMAIN checks : checks[i].ok
    <3>1. CASE x1.command = "folder"
      BY <3>1, EmptySequence
    <3>2. CASE x1.command # "folder"
      BY <3>2, <2>1, <1>6, Zenon
    <3>3. QED
      BY <3>1, <3>2
  <2> HIDE DEF checks
  <2>4. QED
    BY <2>2, <2>3, <1>2, <1>3, <1>5, <1>7
<1>10. x6' = Append(x6, r) /\ (x2' = x2 + 1 \/ (x2' = Len(x1.files) + 1 /\ r.failed > 0))
  BY <1>1 DEF r
<1> HIDE DEF checks, failed
<1>11. x3 \in {"open", "judge"}
  BY <1>1
<1>12. QED
  BY <1>1, <1>2, <1>8, <1>9, <1>10, <1>11, Reports, Zenon

(* The verdict.                                                            *)
LEMMA FinishSteps == ASSUME BatchInv, J!Finish PROVE BatchInv'
<1>1. /\ x3 = "open" /\ x2 > Len(x1.files) /\ x3' = "done"
      /\ x1' = x1 /\ x2' = x2 /\ x4' = x4 /\ x5' = x5 /\ x6' = x6 /\ x7' = x7
      /\ x8' = 0 => ~J!Wrong
  BY DEF J!Finish, J!BlockFailed, J!Usage, J!Success
<1>2. (J!Wrong' <=> J!Wrong) /\ BatchShape /\ BookOK
  BY <1>1 DEF J!Wrong, BatchInv
<1>3. Len(x1.files) \in Nat
  BY <1>2, BooksAre, Lengths DEF BatchShape
<1>4. ~J!Wrong => Len(x6) = Len(x1.files)
  BY <1>1, <1>2, <1>3 DEF BatchShape
<1>5. BatchShape'
  BY <1>1, <1>2 DEF BatchShape, Sequence
<1>6. \A f : NotReached(f)' <=> NotReached(f)
  BY <1>1 DEF NotReached
<1>7. BookOK'
  BY <1>1, <1>2, <1>6 DEF BookOK
<1>8. VerdictOK'
  BY <1>1, <1>2, <1>4 DEF VerdictOK
<1>9. \A f \in DOMAIN x6' : ReportOK(f)'
  BY <1>1, ReportsStay
<1>10. QED
  BY <1>5, <1>7, <1>8, <1>9 DEF BatchInv

LEMMA BatchStarts == ASSUME J!BatchInit PROVE BatchInv
<1>1. /\ x1 \in BatchJobs /\ x2 = 1 /\ x6 = << >>
      /\ x3 = IF x1.files = << >> THEN "done" ELSE "open"
      /\ x1.files # << >> => x8 = -1
      /\ x7 = [f \in DOMAIN x1.files |-> [k \in DOMAIN x1.files[f].sections |-> "not reached"]]
  BY DEF J!BatchInit, J!Running
<1>2. Len(x1.files) \in Nat /\ Sequence(x6) /\ Len(x6) = 0 /\ DOMAIN x6 = {}
  BY <1>1, BooksAre, Lengths, EmptySequence
<1>3. x1.files = << >> => Len(x1.files) = 0
  BY EmptySequence
<1>8. /\ x3 \in {"open", "done"} /\ (x3 # "done" => x8 = -1)
      /\ x8 = 0 => x3 = "done" /\ Len(x1.files) = 0
  <2>1. CASE x1.files = << >>
    BY <2>1, <1>1, <1>3
  <2>2. CASE x1.files # << >>
    <3>1. x8 = -1 /\ x3 = "open"
      BY <2>2, <1>1, Zenon
    <3>2. QED
      BY <3>1
  <2>3. QED
    BY <2>1, <2>2
<1>4. BatchShape
  <2>1. DOMAIN x7 = DOMAIN x1.files /\ \A f \in DOMAIN x1.files : DOMAIN x7[f] = DOMAIN x1.files[f].sections
    BY <1>1
  <2>2. x1 \in BatchJobs /\ x2 = 1
    BY <1>1
  <2>3. QED
    BY <1>2, <1>8, <2>1, <2>2 DEF BatchShape
<1>5. BookOK
  <2>1. \A f \in DOMAIN x1.files : NotReached(f)
    BY <1>1 DEF NotReached
  <2>2. x3 \in {"open", "done"}
    BY <1>1
  <2>3. QED
    BY <2>1, <2>2 DEF BookOK
<1>6. VerdictOK
  BY <1>2, <1>8 DEF VerdictOK, J!Wrong
<1>7. QED
  BY <1>2, <1>4, <1>5, <1>6 DEF BatchInv

BatchInvariant == scenario = "batch" => BatchInv

LEMMA BatchKept == BatchInvariant /\ [FrontNext]_<<scenario, vars, xs>> => BatchInvariant'
<1>1. SUFFICES ASSUME BatchInvariant, [FrontNext]_<<scenario, vars, xs>>, scenario' = "batch" PROVE BatchInv'
  BY DEF BatchInvariant
<1>2. CASE UNCHANGED <<scenario, vars, xs>>
  <2>1. BatchInv /\ x1' = x1 /\ x2' = x2 /\ x3' = x3 /\ x4' = x4 /\ x5' = x5 /\ x6' = x6 /\ x7' = x7 /\ x8' = x8
    BY <1>1, <1>2 DEF BatchInvariant
  <2>2. BatchShape' <=> BatchShape
    BY <2>1 DEF BatchShape, Sequence, J!Wrong
  <2>3. BookOK' <=> BookOK
    <3>1. (ResultsOK' <=> ResultsOK) /\ (Failure' <=> Failure) /\ J!Sections' = J!Sections
      BY <2>1 DEF ResultsOK, Failure, J!Sections, J!Book, Sequence
    <3>2. \A f : NotReached(f)' <=> NotReached(f)
      BY <2>1 DEF NotReached
    <3>3. QED
      BY <2>1, <3>1, <3>2 DEF BookOK
  <2>4. VerdictOK' <=> VerdictOK
    BY <2>1 DEF VerdictOK, J!Wrong
  <2>5. ASSUME NEW f \in DOMAIN x6 PROVE ReportOK(f)'
    <3>1. ReportOK(f)
      BY <2>1 DEF BatchInv
    <3>2. \A c : CheckOK(f, c)' <=> CheckOK(f, c)
      BY <2>1, Zenon DEF CheckOK
    <3>3. Honest(f)' <=> Honest(f)
      BY <2>1 DEF Honest
    <3>4. QED
      BY <2>1, <3>1, <3>2, <3>3 DEF ReportOK
  <2>6. QED
    BY <2>1, <2>2, <2>3, <2>4, <2>5 DEF BatchInv
<1>3. CASE FrontNext
  <2>1. scenario = "batch" /\ J!BatchNext
    BY <1>1, <1>3 DEF FrontNext
  <2>2. BatchInv
    BY <1>1, <2>1 DEF BatchInvariant
  <2>3. QED
    BY <2>1, <2>2, OpenSteps, PrepareSteps, WalkSteps, EndSteps, JudgeSteps, FinishSteps DEF J!BatchNext
<1>4. QED
  BY <1>1, <1>2, <1>3

LEMMA BatchHolds == FrontSpec => []BatchInvariant
<1>1. FrontInit => BatchInvariant
  BY BatchStarts DEF FrontInit, BatchInvariant
<1>2. QED
  BY <1>1, BatchKept, PTL DEF FrontSpec

(* VerdictHonest (src/src/lib.rs, run_folder, cmd_test, cmd_verify): for   *)
(* every folder, an exit of 0 means that every workbook was reported, that *)
(* no block of it failed, paused or was left out (wb test looks at fences  *)
(* only), and that every assertion reached holds.                          *)
THEOREM VerdictsAreHonest == FrontSpec => []VerdictHonest
<1>1. BatchInvariant => VerdictHonest
  <2>1. SUFFICES ASSUME scenario = "batch", BatchInv, x8 = 0 PROVE J!VerdictHonest
    BY DEF BatchInvariant, VerdictHonest, J!VerdictHonest, J!Success
  <2>2. Len(x6) = Len(x1.files) /\ ~J!Wrong
    BY <2>1 DEF BatchInv, VerdictOK
  <2>3. \A f \in DOMAIN x6 : Honest(f)
    BY <2>1, <2>2 DEF BatchInv, ReportOK, J!Wrong
  <2>4. DOMAIN x7 = DOMAIN x6
    <3>1. Sequence(x6) /\ Sequence(x1.files) /\ DOMAIN x7 = DOMAIN x1.files
      BY <2>1, BooksAre DEF BatchInv, BatchShape
    <3>2. DOMAIN x6 = 1..Len(x6) /\ DOMAIN x1.files = 1..Len(x1.files)
      BY <3>1, Lengths
    <3>3. QED
      BY <2>2, <3>1, <3>2
  <2>5. QED
    BY <2>2, <2>3, <2>4 DEF J!VerdictHonest, Honest, Good
<1>2. QED
  BY <1>1, BatchHolds, PTL

(* ExpectsItsBlock (src/src/lib.rs, walk_expects): whatever was skipped,   *)
(* failed or passed over, an assertion is judged against the result of the *)
(* block before its fence, or the one result that stands in for the file;  *)
(* it fails for want of one only when that block left none.                *)
THEOREM ExpectsTheirBlocks == FrontSpec => []ExpectsItsBlock
<1>1. BatchInvariant => ExpectsItsBlock
  <2>1. SUFFICES ASSUME BatchInv PROVE J!ExpectsItsBlock
    BY DEF BatchInvariant, ExpectsItsBlock
  <2>2. SUFFICES ASSUME NEW f \in DOMAIN x6, NEW i \in DOMAIN x6[f].checks
                 PROVE  LET c == x6[f].checks[i]
                            block == J!Before(x1.files[f].sections, c.fence)
                        IN  IF c.of = J!Unread THEN ~c.ok
                            ELSE IF c.of = J!NoBlock
                            THEN ~c.ok /\ (block = 0 \/ x7[f][block] \notin {"ok", "failed", "paused"})
                            ELSE c.of \in {0, block}
    BY DEF J!ExpectsItsBlock
  <2>3. CheckOK(f, x6[f].checks[i])
    BY <2>1 DEF BatchInv, ReportOK
  <2>4. QED
    BY <2>3 DEF CheckOK, Ended
<1>2. QED
  BY <1>1, BatchHolds, PTL

(* The types: every result is an outcome of a session, or one that is made *)
(* up where there was none.                                                *)
OutcomesOK == Sequence(x5) /\ \A i \in DOMAIN x5 : x5[i].outcome \in J!Outcomes
BatchTyped == x8 \in -1..3 /\ OutcomesOK

LEMMA OneMoreOutcome ==
  ASSUME OutcomesOK, NEW outcome \in J!Outcomes, NEW number, NEW of, x5' = Append(x5, J!Result(number, outcome, of))
  PROVE  OutcomesOK'
<1>1. PICK r : r = J!Result(number, outcome, of)
  OBVIOUS
<1>2. r.outcome \in J!Outcomes
  BY <1>1 DEF J!Result
<1>3. /\ Sequence(x5') /\ Len(x5') = Len(x5) + 1
      /\ \A i \in DOMAIN x5 : x5'[i] = x5[i]
      /\ x5'[Len(x5) + 1] = r
  BY <1>1, Appended DEF OutcomesOK
<1>4. /\ Len(x5) \in Nat /\ DOMAIN x5 = 1..Len(x5) /\ DOMAIN x5' = 1..Len(x5')
  BY <1>3, Lengths DEF OutcomesOK
<1>5. \A i \in DOMAIN x5' : i \in DOMAIN x5 \/ i = Len(x5) + 1
  BY <1>3, <1>4
<1>6. \A i \in DOMAIN x5' : x5'[i].outcome \in J!Outcomes
  BY <1>2, <1>3, <1>5 DEF OutcomesOK
<1>7. QED
  BY <1>3, <1>6 DEF OutcomesOK, Sequence

(* A summary of one stand-in, and of none.                                 *)
LEMMA StandInTyped ==
  ASSUME NEW code \in {0, 1}, NEW err \in SUBSET Words, x5' = J!StandIn(code, err) PROVE OutcomesOK'
<1>1. PICK r : r = J!Result(0, [exit |-> code, out |-> {}, err |-> err], 0)
  OBVIOUS
<1>2. x5' = <<r>> /\ r.outcome \in J!Outcomes
  BY <1>1 DEF J!StandIn, J!Result, J!Outcomes
<1>3. x5' = [i \in 1..1 |-> x5'[i]] /\ DOMAIN x5' = {1} /\ x5'[1] = r
  BY <1>2
<1>4. Sequence(x5')
  BY <1>3, IsSequence
<1>5. QED
  BY <1>2, <1>3, <1>4 DEF OutcomesOK, Sequence

LEMMA NoOutcomes == ASSUME x5' = << >> PROVE OutcomesOK'
BY EmptySequence DEF OutcomesOK, Sequence

LEMMA SameOutcomes == ASSUME OutcomesOK, x5' = x5 PROVE OutcomesOK'
BY DEF OutcomesOK, Sequence

LEMMA BeforeTyped == ASSUME OutcomesOK, J!Open \/ J!Contained \/ J!Prepare PROVE OutcomesOK'
<1>1. CASE \E code \in {0, 1}, err \in SUBSET Words : x5' = J!StandIn(code, err)
  BY <1>1, StandInTyped
<1>2. Words \in SUBSET Words /\ {} \in SUBSET Words
  OBVIOUS
<1>3. CASE x5' = x5 \/ x5' = << >>
  BY <1>3, SameOutcomes, NoOutcomes
<1>4. CASE J!Open
  <2>1. x5' = x5 \/ x5' = J!StandIn(1, Words)
    BY <1>4 DEF J!Open, J!Judged
  <2>2. QED
    BY <1>1, <1>2, <1>3, <2>1
<1>5. CASE J!Contained
  <2>1. x5' = J!StandIn(1, Words) \/ \E code \in {0, 1} : x5' = J!StandIn(code, {})
    BY <1>5 DEF J!Contained, J!Judged
  <2>2. QED
    BY <1>1, <1>2, <2>1
<1>6. CASE J!Prepare
  <2>1. x5' = << >> \/ x5' = J!StandIn(1, Words)
    BY <1>6 DEF J!Prepare, J!Judged
  <2>2. QED
    BY <1>1, <1>2, <1>3, <2>1
<1>7. QED
  BY <1>4, <1>5, <1>6

LEMMA BlocksEndTyped ==
  ASSUME OutcomesOK, J!Pass \/ J!Skip \/ J!RunCode \/ J!BadSlice \/ J!RunSlice \/ J!PauseSlice \/ J!Wait \/ J!AtEnd
  PROVE  OutcomesOK'
<1>1. CASE \E outcome \in J!Outcomes : J!Answer(outcome)
  BY <1>1, OneMoreOutcome DEF J!Answer
<1>2. CASE J!Pass \/ J!Skip \/ J!AtEnd
  BY <1>2, SameOutcomes DEF J!Pass, J!Skip, J!AtEnd
<1>3. J!Failure \in J!Outcomes /\ \A out \in SUBSET Words : [J!Failure EXCEPT !.out = out] \in J!Outcomes
  BY DEF J!Failure, J!Outcomes
<1>4. \A outcome \in J!Outcomes : J!Captured(J!Here, outcome) \in J!Outcomes
  BY DEF J!Captured, J!Outcomes
<1>5. CASE J!RunCode
  BY <1>1, <1>4, <1>5 DEF J!RunCode
<1>6. CASE J!BadSlice \/ J!RunSlice \/ J!PauseSlice \/ J!Wait
  BY <1>1, <1>3, <1>6 DEF J!BadSlice, J!RunSlice, J!PauseSlice, J!Wait
<1>7. QED
  BY <1>2, <1>5, <1>6

LEMMA BatchTypes == ASSUME BatchTyped, J!BatchNext PROVE BatchTyped'
<1>1. OutcomesOK'
  <2>1. CASE J!Judge
    BY <2>1, NoOutcomes DEF J!Judge
  <2>2. CASE J!Finish
    BY <2>2, SameOutcomes DEF J!Finish, BatchTyped
  <2>3. QED
    BY <2>1, <2>2, BeforeTyped, BlocksEndTyped DEF J!BatchNext, BatchTyped
<1>2. x8' \in -1..3
  <2>1. CASE J!Open \/ J!Finish
    BY <2>1 DEF J!Open, J!Finish, BatchTyped, J!Invalid, J!BlockFailed, J!Usage, J!Success
  <2>2. CASE x8' = x8
    BY <2>2 DEF BatchTyped
  <2>3. QED
    BY <2>1, <2>2 DEF J!BatchNext, J!Contained, J!Prepare, J!Pass, J!Skip, J!RunCode, J!BadSlice,
       J!RunSlice, J!PauseSlice, J!Wait, J!AtEnd, J!Judge, J!Passed
<1>3. QED
  BY <1>1, <1>2 DEF BatchTyped

LEMMA BatchTypesStart == ASSUME J!BatchInit PROVE BatchTyped
<1>1. x5 = << >> /\ x8 \in {J!Running, J!Usage, J!Success}
  BY Zenon DEF J!BatchInit
<1>2. x8 \in -1..3
  BY <1>1 DEF J!Running, J!Usage, J!Success
<1>3. QED
  BY <1>1, <1>2, EmptySequence DEF BatchTyped, OutcomesOK

LEMMA BatchTypesHold == ASSUME BatchShape, BatchTyped, Sequence(x1.files) PROVE J!BatchTypeOK
<1>1. Len(x1.files) \in Nat
  BY Lengths
<1>2. QED
  BY <1>1 DEF J!BatchTypeOK, BatchShape, BatchTyped, OutcomesOK, J!Running, J!Invalid

LEMMA BatchKeepsTypes == FrontSpec => [](scenario = "batch" => J!BatchTypeOK)
<1> DEFINE K == scenario = "batch" => BatchTyped
<1>1. FrontInit => K
  BY BatchTypesStart DEF FrontInit
<1>2. K /\ [FrontNext]_<<scenario, vars, xs>> => K'
  <2>1. ASSUME BatchTyped, scenario = "batch", FrontNext PROVE BatchTyped'
    <3>1. J!BatchNext
      BY <2>1 DEF FrontNext
    <3>2. QED
      BY <2>1, <3>1, BatchTypes
  <2>2. ASSUME [FrontNext]_<<scenario, vars, xs>> PROVE scenario' = scenario
    BY <2>2 DEF FrontNext
  <2>3. ASSUME BatchTyped, UNCHANGED <<scenario, vars, xs>> PROVE BatchTyped'
    BY <2>3 DEF BatchTyped, OutcomesOK, Sequence
  <2>4. QED
    BY <2>1, <2>2, <2>3
<1>3. BatchInvariant /\ K => (scenario = "batch" => J!BatchTypeOK)
  BY BooksAre, BatchTypesHold DEF BatchInvariant, BatchInv, BatchShape
<1>4. QED
  BY <1>1, <1>2, <1>3, BatchHolds, PTL DEF FrontSpec

-----------------------------------------------------------------------------
(* Includes.                                                               *)

Texts == {"r", "l", "k"}

(* A round of resolve_includes, in a file of the set that is being         *)
(* resolved.                                                               *)
Round(t, required, resolve, visiting) ==
  [f \in Texts |->
     LET sections == T!Sections(t, required, f)
     IN  T!Joined([k \in DOMAIN sections |-> T!Part(t, visiting, resolve, sections[k])])]

(* It looks at larger sets only.                                           *)
LEMMA RoundIsLocal ==
  ASSUME NEW t, NEW required, NEW v \in SUBSET Texts, NEW F, NEW G,
         \A g \in Texts \ v : F[v \cup {g}] = G[v \cup {g}]
  PROVE  Round(t, required, F, v) = Round(t, required, G, v)
<1>1. ASSUME NEW s PROVE T!Part(t, v, F, s) = T!Part(t, v, G, s)
  BY DEF T!Part, Texts
<1>2. QED
  BY <1>1, Zenon DEF Round

LEMMA Larger ==
  ASSUME NEW v \in SUBSET Texts, NEW g \in Texts \ v
  PROVE  /\ Cardinality(Texts \ v) \in Nat /\ Cardinality(Texts \ (v \cup {g})) \in Nat
         /\ Cardinality(Texts \ (v \cup {g})) = Cardinality(Texts \ v) - 1
<1>1. IsFiniteSet(Texts)
  <2>1. IsFiniteSet({"r"} \cup {"l"} \cup {"k"})
    BY FS_Singleton, FS_Union
  <2>2. QED
    BY <2>1 DEF Texts
<1>2. IsFiniteSet(Texts \ v) /\ IsFiniteSet(Texts \ (v \cup {g}))
  BY <1>1, FS_Subset
<1>3. Texts \ (v \cup {g}) = (Texts \ v) \ {g}
  OBVIOUS
<1>4. Cardinality((Texts \ v) \ {g}) = Cardinality(Texts \ v) - 1
  BY <1>2, FS_RemoveElement
<1>5. QED
  BY <1>2, <1>3, <1>4, FS_CardinalityType

(* The recursion has a fixed point: each inclusion leaves one file less.   *)
LEMMA RoundsExist ==
  ASSUME NEW t, NEW required
  PROVE  \E F : F = [v \in SUBSET Texts |-> Round(t, required, F, v)]
<1> DEFINE N == Cardinality(Texts) + 1
           Small(v) == Cardinality(Texts \ v)
           Is(F, n) == \A v \in SUBSET Texts : Small(v) < n => F[v] = Round(t, required, F, v)
           S == {n \in 0..N : \E F : Is(F, n)}
<1>1. \A v \in SUBSET Texts : Small(v) \in Nat /\ Small(v) < N
  <2>1. IsFiniteSet(Texts)
    <3>1. IsFiniteSet({"r"} \cup {"l"} \cup {"k"})
      BY FS_Singleton, FS_Union
    <3>2. QED
      BY <3>1 DEF Texts
  <2>2. \A v \in SUBSET Texts : Texts \ v \subseteq Texts
    OBVIOUS
  <2>3. QED
    BY <2>1, <2>2, FS_Subset, FS_CardinalityType
<1>2. N \in Nat
  <2>1. Texts \ {} = Texts
    OBVIOUS
  <2>2. Small({}) \in Nat
    BY <1>1
  <2>3. QED
    BY <2>1, <2>2
<1>3. 0 \in S
  <2>1. ASSUME NEW F PROVE Is(F, 0)
    <3>1. ASSUME NEW v \in SUBSET Texts PROVE ~(Small(v) < 0)
      <4> HIDE DEF Small
      <4>1. QED
        BY <1>1
    <3>2. QED
      BY <3>1
  <2> HIDE DEF Is
  <2>2. QED
    BY <2>1, <1>2
<1>4. ASSUME NEW n \in 1..N, n-1 \in S PROVE n \in S
  <2>1. PICK F : Is(F, n-1)
    BY <1>4
  <2> DEFINE G == [v \in SUBSET Texts |-> IF Small(v) < n-1 THEN F[v] ELSE Round(t, required, F, v)]
  <2>2. ASSUME NEW v \in SUBSET Texts, Small(v) < n PROVE G[v] = Round(t, required, G, v)
    <3>1. ASSUME NEW g \in Texts \ v PROVE G[v \cup {g}] = F[v \cup {g}]
      <4>1. v \cup {g} \in SUBSET Texts
        OBVIOUS
      <4>2. Small(v \cup {g}) < n-1
        BY <2>2, <1>1, Larger
      <4>3. QED
        BY <4>1, <4>2
    <3> HIDE DEF G
    <3>2. Round(t, required, G, v) = Round(t, required, F, v)
      BY <3>1, RoundIsLocal
    <3>3. G[v] = Round(t, required, F, v)
      BY <2>1 DEF G
    <3>4. QED
      BY <3>2, <3>3
  <2> HIDE DEF G
  <2>3. Is(G, n)
    BY <2>2
  <2> HIDE DEF Is
  <2>4. QED
    BY <2>3
<1> HIDE DEF S
<1>5. N \in S
  BY <1>2, <1>3, <1>4, Induction
<1>6. PICK F : Is(F, N)
  BY <1>5 DEF S
<1> DEFINE G == [v \in SUBSET Texts |-> Round(t, required, F, v)]
<1>7. ASSUME NEW v \in SUBSET Texts PROVE G[v] = Round(t, required, G, v)
  <2>1. \A g \in Texts \ v : F[v \cup {g}] = G[v \cup {g}]
    BY <1>1, <1>6
  <2> HIDE DEF G
  <2>2. Round(t, required, G, v) = Round(t, required, F, v)
    BY <2>1, RoundIsLocal
  <2>3. QED
    BY <2>2 DEF G
<1>8. DOMAIN G = SUBSET Texts /\ G = [v \in SUBSET Texts |-> G[v]]
  OBVIOUS
<1> HIDE DEF G
<1>9. G = [v \in SUBSET Texts |-> Round(t, required, G, v)]
  BY <1>7, <1>8
<1>10. QED
  BY <1>9

LEMMA SpliceIs ==
  ASSUME NEW t, NEW required
  PROVE  \E F : /\ \A v \in SUBSET Texts : F[v] = Round(t, required, F, v)
               /\ T!Splice(t, required) = F[{"r"}]["r"]
<1> DEFINE resolve == CHOOSE F : F = [v \in SUBSET Texts |-> Round(t, required, F, v)]
<1>1. resolve = [v \in SUBSET Texts |-> Round(t, required, resolve, v)]
  BY RoundsExist
<1>2. T!Splice(t, required) = resolve[{"r"}]["r"]
  BY DEF T!Splice, Round, Texts
<1> HIDE DEF resolve
<1>3. QED
  BY <1>1, <1>2

(* What is reached from a file that exists: what it names, and what is     *)
(* reached from there.                                                     *)
LEMMA ReachedIs ==
  ASSUME NEW f, T!Exists(f)
  PROVE  /\ T!Targets(f) \subseteq T!Reached(f)
         /\ \A g \in T!Reached(f) : T!Exists(g) => T!Reached(g) \subseteq T!Reached(f)
         /\ \A h \in T!Reached(f) :
               \/ h \in T!Targets(f)
               \/ \E g \in T!Targets(f) : T!Exists(g) /\ h \in T!Reached(g)
<1>1. \A g : T!Exists(g) => T!Targets(g) \subseteq T!Named
  BY DEF T!Named, T!Exists
<1>2. \A g : T!Exists(g) => T!Targets(g) \subseteq T!Reached(g)
  BY <1>1 DEF T!Reached
<1>3. ASSUME NEW d, T!Exists(d), NEW g \in T!Reached(d), T!Exists(g) PROVE T!Reached(g) \subseteq T!Reached(d)
  <2>1. \A S \in SUBSET T!Named : T!Targets(d) \subseteq S /\ T!Closed(S) => T!Targets(g) \subseteq S
    BY <1>3 DEF T!Reached, T!Closed
  <2>2. QED
    BY <2>1 DEF T!Reached
<1> DEFINE S == T!Targets(f) \cup UNION {T!Reached(g) : g \in {h \in T!Targets(f) : T!Exists(h)}}
<1>4. S \in SUBSET T!Named
  BY <1>1 DEF T!Reached
<1>5. ASSUME NEW h \in S, T!Exists(h) PROVE T!Targets(h) \subseteq S
  <2>1. CASE h \in T!Targets(f)
    BY <2>1, <1>2, <1>5
  <2>2. CASE \E g \in T!Targets(f) : T!Exists(g) /\ h \in T!Reached(g)
    <3>1. PICK g \in T!Targets(f) : T!Exists(g) /\ h \in T!Reached(g)
      BY <2>2
    <3>2. T!Targets(h) \subseteq T!Reached(g)
      BY <3>1, <1>2, <1>3, <1>5
    <3>3. QED
      BY <3>1, <3>2
  <2>3. QED
    BY <2>1, <2>2
<1>6. T!Closed(S) /\ T!Targets(f) \subseteq S
  BY <1>5 DEF T!Closed
<1>7. T!Reached(f) \subseteq S
  <2> HIDE DEF S
  <2>1. QED
    BY <1>4, <1>6 DEF T!Reached
<1>8. QED
  BY <1>2, <1>3, <1>7

(* A file is resolved if and only if what it reaches exists, is not being  *)
(* resolved, and does not reach itself.                                    *)
LEMMA ResolvedIs ==
  ASSUME NEW F, \A v \in SUBSET Texts : F[v] = Round(x2, T!Required(x1), F, v)
  PROVE  \A v \in SUBSET Texts : \A f \in v :
            T!Exists(f) =>
               (F[v][f].ok <=> \A g \in T!Reached(f) : T!Exists(g) /\ g \notin v /\ g \notin T!Reached(g))
<1> DEFINE Fine(v, f) ==
             T!Exists(f) =>
               (F[v][f].ok <=> \A g \in T!Reached(f) : T!Exists(g) /\ g \notin v /\ g \notin T!Reached(g))
           Small(v) == Cardinality(Texts \ v)
           N == Cardinality(Texts) + 1
           S == {n \in 0..N : \A v \in SUBSET Texts : Small(v) < n => \A f \in v : Fine(v, f)}
<1>1. \A g : T!Exists(g) <=> g \in Texts /\ x2[g] # T!Absent
  BY DEF T!Exists, Texts
<1>2. ASSUME NEW v \in SUBSET Texts, NEW f \in v
      PROVE  F[v][f].ok <=> \A g \in T!Targets(f) : T!Exists(g) /\ g \notin v /\ F[v \cup {g}][g].ok
  <2> DEFINE sections == T!Sections(x2, T!Required(x1), f)
             part == [k \in DOMAIN sections |-> T!Part(x2, v, F, sections[k])]
  <2>1. F[v][f] = T!Joined(part)
    <3>1. F[v] = Round(x2, T!Required(x1), F, v)
      OBVIOUS
    <3>2. f \in Texts
      OBVIOUS
    <3>3. Round(x2, T!Required(x1), F, v)[f] = T!Joined(part)
      BY <3>2, Zenon DEF Round
    <3>4. QED
      BY <3>1, <3>3
  <2>2. F[v][f].ok <=> \A k \in DOMAIN part : part[k].ok
    BY <2>1 DEF T!Joined
  <2>3. ASSUME NEW s
        PROVE  T!Part(x2, v, F, s).ok <=>
                 (s.kind = "include" =>
                    T!Exists(T!Target(s)) /\ T!Target(s) \notin v /\ F[v \cup {T!Target(s)}][T!Target(s)].ok)
    <3>1. CASE s.kind # "include"
      BY <3>1 DEF T!Part, T!Single
    <3>2. CASE s.kind = "include" /\ (T!Target(s) \notin Texts \ v \/ x2[T!Target(s)] = T!Absent)
      BY <3>2, <1>1 DEF T!Part, T!Failed, Texts
    <3>3. CASE s.kind = "include" /\ T!Target(s) \in Texts \ v /\ x2[T!Target(s)] # T!Absent
      <4>1. T!Part(x2, v, F, s) = T!Framed(T!Target(s), F[v \cup {T!Target(s)}][T!Target(s)])
        BY <3>3 DEF T!Part, Texts
      <4>2. QED
        BY <3>3, <4>1, <1>1 DEF T!Framed
    <3>4. QED
      BY <3>1, <3>2, <3>3
  <2>4. T!Targets(f) = {T!Target(sections[k]) : k \in {j \in DOMAIN sections : sections[j].kind = "include"}}
    BY DEF T!Targets
  <2>5. DOMAIN part = DOMAIN sections /\ \A k \in DOMAIN sections : part[k] = T!Part(x2, v, F, sections[k])
    OBVIOUS
  <2> HIDE DEF sections, part
  <2>6. QED
    BY <2>2, <2>3, <2>4, <2>5
<1>3. \A v \in SUBSET Texts : Small(v) \in Nat /\ Small(v) < N
  <2>1. IsFiniteSet(Texts)
    <3>1. IsFiniteSet({"r"} \cup {"l"} \cup {"k"})
      BY FS_Singleton, FS_Union
    <3>2. QED
      BY <3>1 DEF Texts
  <2>2. \A v \in SUBSET Texts : Texts \ v \subseteq Texts
    OBVIOUS
  <2>3. QED
    BY <2>1, <2>2, FS_Subset, FS_CardinalityType
<1>4. N \in Nat
  <2>1. Texts \ {} = Texts
    OBVIOUS
  <2>2. Small({}) \in Nat
    BY <1>3
  <2>3. QED
    BY <2>1, <2>2
<1>5. 0 \in S
  <2>1. ASSUME NEW v \in SUBSET Texts PROVE ~(Small(v) < 0)
    <3> HIDE DEF Small
    <3>1. QED
      BY <1>3
  <2> HIDE DEF Small, Fine
  <2>2. QED
    BY <2>1, <1>4
<1>6. ASSUME NEW n \in 1..N, n-1 \in S PROVE n \in S
  <2>1. SUFFICES ASSUME NEW v \in SUBSET Texts, Small(v) < n, NEW f \in v, T!Exists(f)
                 PROVE  F[v][f].ok <=> \A g \in T!Reached(f) : T!Exists(g) /\ g \notin v /\ g \notin T!Reached(g)
    OBVIOUS
  <2>2. ASSUME NEW g \in Texts \ v PROVE Fine(v \cup {g}, g)
    <3>1. v \cup {g} \in SUBSET Texts /\ Small(v \cup {g}) < n-1
      BY <2>1, <1>3, Larger
    <3> HIDE DEF Fine, Small
    <3>2. QED
      BY <3>1, <1>6
  <2>3. /\ T!Targets(f) \subseteq T!Reached(f)
        /\ \A g \in T!Reached(f) : T!Exists(g) => T!Reached(g) \subseteq T!Reached(f)
        /\ \A h \in T!Reached(f) :
              \/ h \in T!Targets(f)
              \/ \E g \in T!Targets(f) : T!Exists(g) /\ h \in T!Reached(g)
    BY <2>1, ReachedIs
  <2>4. ASSUME F[v][f].ok, NEW h \in T!Reached(f) PROVE T!Exists(h) /\ h \notin v /\ h \notin T!Reached(h)
    <3>1. \A g \in T!Targets(f) : T!Exists(g) /\ g \in Texts \ v /\ F[v \cup {g}][g].ok
      BY <1>1, <1>2, <2>4
    <3>2. \A g \in T!Targets(f) : \A d \in T!Reached(g) : T!Exists(d) /\ d \notin v \cup {g} /\ d \notin T!Reached(d)
      BY <2>2, <3>1
    <3>3. QED
      BY <2>3, <3>1, <3>2
  <2>5. ASSUME \A h \in T!Reached(f) : T!Exists(h) /\ h \notin v /\ h \notin T!Reached(h)
        PROVE  F[v][f].ok
    <3>1. ASSUME NEW g \in T!Targets(f) PROVE T!Exists(g) /\ g \notin v /\ F[v \cup {g}][g].ok
      <4>1. g \in T!Reached(f) /\ T!Exists(g) /\ g \notin v /\ g \notin T!Reached(g)
        BY <2>3, <2>5
      <4>2. \A d \in T!Reached(g) : T!Exists(d) /\ d \notin v \cup {g} /\ d \notin T!Reached(d)
        BY <2>3, <2>5, <4>1
      <4>3. g \in Texts \ v
        BY <1>1, <4>1
      <4>4. QED
        BY <2>2, <4>1, <4>2, <4>3
    <3>2. QED
      BY <1>2, <3>1
  <2>6. QED
    BY <2>4, <2>5
<1> HIDE DEF S
<1>7. N \in S
  BY <1>4, <1>5, <1>6, Induction
<1>8. QED
  BY <1>3, <1>7 DEF S

(* The text of the workbook, before and after edits.                       *)
TextInv == x1 \in StepInputs /\ DOMAIN x2 = Texts /\ T!Written(x2["r"]) /\ \A f \in Texts : T!Ordered(x2[f])

LEMMA TextKept ==
  ASSUME TextInv, x1' = x1, x2' = x2 \/ (\E e \in x1.edits : x2' = [x2 EXCEPT !["r"] = e])
  PROVE  TextInv'
<1>1. CASE x2' = x2
  BY <1>1 DEF TextInv, T!Written, T!Ordered
<1>2. CASE \E e \in x1.edits : x2' = [x2 EXCEPT !["r"] = e]
  <2>1. PICK e \in x1.edits : x2' = [x2 EXCEPT !["r"] = e]
    BY <1>2
  <2>2. T!Written(e) /\ T!Ordered(e)
    BY FrontAssumption DEF TextInv, T!StepsAssumption, T!Written
  <2>3. DOMAIN x2' = Texts /\ x2'["r"] = e /\ \A f \in Texts : f # "r" => x2'[f] = x2[f]
    BY <2>1 DEF TextInv, Texts
  <2>4. \A f \in Texts : x2'[f] = e \/ x2'[f] = x2[f]
    BY <2>3
  <2>5. \A f \in Texts : T!Ordered(x2'[f])
    BY <2>2, <2>4 DEF TextInv
  <2>6. T!Written(x2'["r"])
    BY <2>2, <2>3
  <2>7. QED
    BY <2>3, <2>5, <2>6 DEF TextInv
<1>3. QED
  BY <1>1, <1>2

LEMMA TextHolds == FrontSpec => [](scenario = "steps" => TextInv)
<1>1. FrontInit => (scenario = "steps" => TextInv)
  BY FrontAssumption DEF FrontInit, T!StepsInit, T!StepsAssumption, TextInv, Texts, T!Written
<1>2. (scenario = "steps" => TextInv) /\ [FrontNext]_<<scenario, vars, xs>> => (scenario = "steps" => TextInv)'
  <2>1. SUFFICES ASSUME scenario = "steps" => TextInv, [FrontNext]_<<scenario, vars, xs>>, scenario' = "steps"
                 PROVE  TextInv'
    OBVIOUS
  <2>2. TextInv
    BY <2>1 DEF FrontNext
  <2>3. x1' = x1 /\ (x2' = x2 \/ (\E e \in x1.edits : x2' = [x2 EXCEPT !["r"] = e]))
    <3>1. CASE UNCHANGED <<scenario, vars, xs>>
      BY <3>1 DEF xs
    <3>2. CASE FrontNext
      <4>1. T!StepsNext
        BY <2>1, <3>2 DEF FrontNext
      <4>2. QED
        BY <4>1 DEF T!StepsNext, T!Start, T!Replay, T!Run, T!SkipUnselected, T!SkipNoRun, T!SkipConditional,
                    T!Skip, T!Save, T!Finish, T!Leave, T!Edit
    <3>3. QED
      BY <2>1, <3>1, <3>2
  <2>4. QED
    BY <2>2, <2>3, TextKept
<1>3. QED
  BY <1>1, <1>2, PTL DEF FrontSpec

(* IncludesResolve (src/src/parser.rs, resolve_includes): whatever the     *)
(* texts, and after any edits, the includes of a workbook resolve exactly  *)
(* when every file reached exists and none is reached from itself.         *)
THEOREM IncludesAreResolved == FrontSpec => []IncludesResolve
<1>1. ASSUME TextInv PROVE T!IncludesResolve
  <2>1. PICK F : /\ \A v \in SUBSET Texts : F[v] = Round(x2, T!Required(x1), F, v)
                 /\ T!Splice(x2, T!Required(x1)) = F[{"r"}]["r"]
    BY SpliceIs
  <2>2. T!Exists("r")
    BY <1>1 DEF TextInv, T!Written, T!Exists
  <2>3. {"r"} \in SUBSET Texts /\ "r" \in {"r"}
    BY DEF Texts
  <2>4. F[{"r"}]["r"].ok <=> \A g \in T!Reached("r") : T!Exists(g) /\ g \notin {"r"} /\ g \notin T!Reached(g)
    BY <2>1, <2>2, <2>3, ResolvedIs
  <2>5. QED
    BY <2>1, <2>2, <2>4 DEF T!IncludesResolve, T!Resolved
<1>2. (scenario = "steps" => TextInv) => IncludesResolve
  BY <1>1 DEF IncludesResolve
<1>3. QED
  BY <1>2, TextHolds, PTL

-----------------------------------------------------------------------------
(* The sections of a text.                                                 *)

LEMMA OrderedIs == ASSUME NEW s PROVE T!Ordered(s) <=> Sequence(s)
BY DEF T!Ordered, T!ToSet, Sequence

LEMMA ClosingIs ==
  ASSUME NEW doc, Sequence(doc), NEW i \in 1..Len(doc)
  PROVE  T!ClosingLine(doc, i) \in (i+1)..(Len(doc) + 1)
<1> DEFINE ends == {j \in (i+1)..Len(doc) : doc[j].t = "close"}
<1>1. Len(doc) \in Nat
  BY Lengths
<1>2. CASE ends = {}
  BY <1>1, <1>2 DEF T!ClosingLine
<1>3. CASE ends # {}
  <2>1. ends \in SUBSET Nat
    BY <1>1
  <2>2. \E j \in ends : \A k \in ends : j <= k
    <3> HIDE DEF ends
    <3> QED BY <1>3, <2>1, Least
  <2>3. T!ClosingLine(doc, i) \in ends
    BY <1>3, <2>2 DEF T!ClosingLine
  <2>4. QED
    BY <1>1, <2>3
<1>4. QED
  BY <1>2, <1>3

(* What the parser makes of the text from line i on.                       *)
FromLine(doc, F, i) ==
  IF i > Len(doc) THEN <<>>
  ELSE IF doc[i].t # "open" THEN F[i+1]
  ELSE IF T!Kind(doc[i].info.lang) = "text" THEN F[T!ClosingLine(doc, i) + 1]
  ELSE <<T!Section(doc, i)>> \o F[T!ClosingLine(doc, i) + 1]

LEMMA FromIsLocal ==
  ASSUME NEW doc, Sequence(doc), NEW i \in 1..(Len(doc) + 2), NEW F, NEW G,
         \A j \in (i+1)..(Len(doc) + 2) : F[j] = G[j]
  PROVE  FromLine(doc, F, i) = FromLine(doc, G, i)
<1>1. Len(doc) \in Nat
  BY Lengths
<1>2. CASE i > Len(doc)
  BY <1>2 DEF FromLine
<1>3. CASE i <= Len(doc)
  <2>1. i + 1 \in (i+1)..(Len(doc) + 2)
    BY <1>1, <1>3
  <2>2. T!ClosingLine(doc, i) + 1 \in (i+1)..(Len(doc) + 2)
    BY <1>1, <1>3, ClosingIs
  <2>3. F[i+1] = G[i+1] /\ F[T!ClosingLine(doc, i) + 1] = G[T!ClosingLine(doc, i) + 1]
    BY <2>1, <2>2
  <2>4. QED
    BY <2>3, Zenon DEF FromLine
<1>4. QED
  BY <1>1, <1>2, <1>3

LEMMA FromsExist ==
  ASSUME NEW doc, Sequence(doc)
  PROVE  \E F : F = [i \in 1..(Len(doc) + 2) |-> FromLine(doc, F, i)]
<1> DEFINE n == Len(doc) + 2
           Is(F, m) == \A i \in 1..n : i > n - m => F[i] = FromLine(doc, F, i)
           S == {m \in 0..n : \E F : Is(F, m)}
<1>1. n \in Nat
  BY Lengths
<1>2. 0 \in S
  <2>1. ASSUME NEW F PROVE Is(F, 0)
    BY <1>1
  <2> HIDE DEF Is
  <2>2. QED
    BY <2>1, <1>1
<1>3. ASSUME NEW m \in 1..n, m-1 \in S PROVE m \in S
  <2>1. PICK F : Is(F, m-1)
    BY <1>3
  <2> DEFINE G == [i \in 1..n |-> FromLine(doc, F, i)]
  <2>2. \A i \in 1..n : i > n - (m-1) => G[i] = F[i]
    BY <2>1
  <2>3. ASSUME NEW i \in 1..n, i > n - m PROVE G[i] = FromLine(doc, G, i)
    <3>1. \A j \in (i+1)..n : F[j] = G[j]
      BY <1>1, <2>2, <2>3
    <3>2. G[i] = FromLine(doc, F, i)
      OBVIOUS
    <3> HIDE DEF G
    <3>3. FromLine(doc, F, i) = FromLine(doc, G, i)
      BY <3>1, FromIsLocal
    <3>4. QED
      BY <3>2, <3>3
  <2> HIDE DEF G
  <2>4. Is(G, m)
    BY <2>3
  <2> HIDE DEF Is
  <2>5. QED
    BY <2>4
<1> HIDE DEF S
<1>4. n \in S
  BY <1>1, <1>2, <1>3, Induction
<1>5. PICK F : Is(F, n)
  BY <1>4 DEF S
<1> DEFINE G == [i \in 1..n |-> FromLine(doc, F, i)]
<1>6. \A i \in 1..n : G[i] = F[i]
  BY <1>1, <1>5
<1>7. ASSUME NEW i \in 1..n PROVE G[i] = FromLine(doc, G, i)
  <2>1. \A j \in (i+1)..n : F[j] = G[j]
    BY <1>1, <1>6
  <2>2. G[i] = FromLine(doc, F, i)
    OBVIOUS
  <2> HIDE DEF G
  <2>3. FromLine(doc, F, i) = FromLine(doc, G, i)
    BY <2>1, FromIsLocal
  <2>4. QED
    BY <2>2, <2>3
<1>8. G = [i \in 1..n |-> G[i]]
  OBVIOUS
<1> HIDE DEF G
<1>9. G = [i \in 1..n |-> FromLine(doc, G, i)]
  BY <1>7, <1>8
<1>10. QED
  BY <1>9

(* The sections are a sequence.                                            *)
LEMMA ParsedIs == ASSUME NEW doc, Sequence(doc) PROVE Sequence(T!Parse(doc))
<1> DEFINE n == Len(doc) + 2
           from == CHOOSE F : F = [i \in 1..n |-> FromLine(doc, F, i)]
<1>1. from = [i \in 1..n |-> FromLine(doc, from, i)]
  BY FromsExist
<1>2. T!Parse(doc) = from[1]
  BY DEF T!Parse, FromLine
<1> HIDE DEF from
<1>3. n \in Nat /\ Len(doc) \in Nat
  BY Lengths
<1> DEFINE S == {m \in 0..n : \A i \in 1..n : i > n - m => Sequence(from[i])}
<1>4. 0 \in S
  BY <1>3
<1>5. ASSUME NEW m \in 1..n, m-1 \in S PROVE m \in S
  <2>1. ASSUME NEW i \in 1..n, i > n - m PROVE Sequence(from[i])
    <3>1. from[i] = FromLine(doc, from, i)
      BY <1>1
    <3>2. CASE i > Len(doc)
      BY <3>1, <3>2, EmptySequence DEF FromLine
    <3>3. CASE i <= Len(doc)
      <4>1. i \in 1..Len(doc)
        BY <1>3, <3>3
      <4>2. T!ClosingLine(doc, i) + 1 \in (i+1)..n
        BY <1>3, <4>1, ClosingIs
      <4>3. Sequence(from[i+1]) /\ Sequence(from[T!ClosingLine(doc, i) + 1])
        BY <1>3, <1>5, <2>1, <3>3, <4>2
      <4>4. Sequence(<<T!Section(doc, i)>> \o from[T!ClosingLine(doc, i) + 1])
        <5>1. PICK p, q : p = <<T!Section(doc, i)>> /\ q = from[T!ClosingLine(doc, i) + 1]
          OBVIOUS
        <5>2. Sequence(p) /\ Sequence(q)
          BY <4>3, <5>1, Single, Zenon
        <5>3. Sequence(p \o q)
          BY <5>2, Concatenated, Zenon
        <5>4. QED
          BY <5>1, <5>3, Zenon
      <4>5. ~(i > Len(doc))
        BY <1>3, <3>3
      <4>6. QED
        BY <3>1, <4>3, <4>4, <4>5, Zenon DEF FromLine
    <3>4. QED
      BY <1>3, <3>2, <3>3
  <2>2. QED
    BY <2>1
<1> HIDE DEF S
<1>6. n \in S
  <2> HIDE DEF n
  <2>1. 0..n \subseteq S
    BY <1>3, <1>4, <1>5, Induction
  <2>2. QED
    BY <1>3, <2>1
<1>7. Sequence(from[1])
  BY <1>3, <1>6 DEF S
<1>8. QED
  BY <1>2, <1>7

(* An id that wb validate takes for the name of one section is.            *)
LEMMA NamedOnce ==
  ASSUME NEW own, Sequence(own), NEW k \in DOMAIN own, NEW j \in DOMAIN own, NEW id,
         k \in T!NodesNamed(own, id), j \in T!NodesNamed(own, id), ~(T!Cardinality(T!NodesNamed(own, id)) > 1)
  PROVE  k = j
<1> DEFINE N == T!NodesNamed(own, id)
<1>1. IsFiniteSet(N)
  <2>1. DOMAIN own = 1..Len(own) /\ Len(own) \in Nat
    BY Lengths
  <2>2. IsFiniteSet(DOMAIN own)
    BY <2>1, FS_Interval
  <2>3. N \subseteq DOMAIN own
    BY DEF T!NodesNamed
  <2>4. QED
    BY <2>2, <2>3, FS_Subset
<1>2. Cardinality(N) \in Nat /\ ~(Cardinality(N) > 1)
  BY <1>1, FS_CardinalityType, SameCardinality
<1>3. Cardinality(N) # 0
  BY <1>1, FS_EmptySet
<1>4. Cardinality(N) = 1
  BY <1>2, <1>3
<1>5. PICK x : N = {x}
  BY <1>1, <1>4, FS_Singleton
<1>6. QED
  BY <1>5

-----------------------------------------------------------------------------
(* What wb validate accepts.                                               *)

LEMMA NoErrors ==
  ASSUME NEW t, NEW in, NEW strict, T!Accepts(t, in, strict), NEW code, NEW offenders,
         T!Report(T!Error(code), offenders) \subseteq T!Diagnostics(t, in)
  PROVE  offenders = {}
<1>1. SUFFICES ASSUME offenders # {} PROVE FALSE
  OBVIOUS
<1>2. T!Error(code) \in T!Diagnostics(t, in)
  BY <1>1 DEF T!Report
<1>3. T!Error(code).severity = "error"
  BY DEF T!Error
<1>4. QED
  BY <1>2, <1>3 DEF T!Accepts

LEMMA NoWarnings ==
  ASSUME NEW t, NEW in, T!Accepts(t, in, TRUE), NEW code, NEW offenders,
         T!Report(T!Warning(code), offenders) \subseteq T!Diagnostics(t, in)
  PROVE  offenders = {}
BY DEF T!Report, T!Accepts

(* The values that a default or a profile gives a parameter are taken.     *)
LEMMA ParamsAreTaken ==
  ASSUME NEW strict, T!Accepts(x2, x1, strict), x1 \in StepInputs,
         NEW v \in (x1.profiles \cup {x1.param.default}) \ {None}
  PROVE  T!Param(T!WithProfile(v)) # "invalid"
<1> DEFINE def == x1.param
           in == T!WithProfile(v)
<1>1. in.param = def /\ in.cli.param = None /\ in.cli.file = None /\ in.cli.profile = v
  BY DEF T!WithProfile
<1>2. T!OrElse(in.cli.param, T!OrElse(in.cli.file, T!OrElse(in.cli.profile, def.default))) = v
  BY <1>1 DEF T!OrElse
<1>3. v # "invalid" /\ None # "invalid"
  BY FrontAssumption DEF T!StepsAssumption
<1>4. ASSUME def.declared PROVE ~T!ValueFails(def, v)
  <2>1. T!CheckParams(x1) \subseteq T!Diagnostics(x2, x1)
    BY DEF T!Diagnostics
  <2>2. T!Report(T!Error("wb-param-001"),
                 ({def.type} \ T!KnownTypes) \cup {d \in {def.default} \ {None} : T!ValueFails(def, d)})
           \subseteq T!Diagnostics(x2, x1)
    BY <1>4, <2>1 DEF T!CheckParams
  <2>3. T!Report(T!Error("wb-param-002"), {p \in x1.profiles : T!ValueFails(def, p)}) \subseteq T!Diagnostics(x2, x1)
    BY <1>4, <2>1 DEF T!CheckParams
  <2>4. {p \in x1.profiles : T!ValueFails(def, p)} = {} /\ {d \in {def.default} \ {None} : T!ValueFails(def, d)} = {}
    BY <2>2, <2>3, NoErrors
  <2>5. QED
    BY <2>4
<1>5. CASE ~def.declared
  BY <1>1, <1>3, <1>5 DEF T!Param
<1>6. CASE def.declared
  <2>1. T!Normal(def, v) # "invalid"
    BY <1>3, <1>4, <1>6 DEF T!Normal, T!ValueFails
  <2>2. def.one_of # {} => v \in def.one_of
    BY <1>4, <1>6 DEF T!ValueFails
  <2> HIDE DEF in, def
  <2>3. T!Param(in) = T!Normal(def, v)
    <3>1. v # None
      OBVIOUS
    <3>2. QED
      BY <1>1, <1>2, <1>6, <2>2, <3>1, Zenon DEF T!Param
  <2>4. QED
    BY <2>1, <2>3 DEF in
<1>7. QED
  BY <1>5, <1>6

LEMMA AcceptedIsTaken == ASSUME TextInv PROVE T!AcceptedRuns
<1>1. SUFFICES ASSUME T!Accepts(x2, x1, FALSE)
               PROVE  /\ T!Resolved(x2, x1).ok
                      /\ T!SecretsResolve(T!WithProfile(None))
                      /\ \A v \in (x1.profiles \cup {x1.param.default}) \ {None} :
                            T!Param(T!WithProfile(v)) # "invalid"
                      /\ \A k, j \in {i \in DOMAIN T!Own(x2) :
                               T!Own(x2)[i].info.id # None /\ T!Own(x2)[i].kind \in {"code", "browser", "wait"}} :
                            T!Own(x2)[k].info.id = T!Own(x2)[j].info.id => k = j
  BY DEF T!AcceptedRuns
<1>2. T!Resolved(x2, x1).ok
  <2>1. T!Report(T!Error("wb-inc-002"), {T!Resolved(x2, x1).ok} \cap {FALSE}) \subseteq T!Diagnostics(x2, x1)
    BY DEF T!Diagnostics, T!CheckIncludes
  <2>2. {T!Resolved(x2, x1).ok} \cap {FALSE} = {}
    BY <1>1, <2>1, NoErrors
  <2>3. T!Resolved(x2, x1).ok \in BOOLEAN
    <3>1. PICK F : /\ \A v \in SUBSET Texts : F[v] = Round(x2, T!Required(x1), F, v)
                   /\ T!Splice(x2, T!Required(x1)) = F[{"r"}]["r"]
      BY SpliceIs
    <3>2. {"r"} \in SUBSET Texts /\ "r" \in Texts
      BY DEF Texts
    <3>3. \E parts : F[{"r"}]["r"] = T!Joined(parts)
      <4>1. F[{"r"}] = Round(x2, T!Required(x1), F, {"r"})
        BY <3>1, <3>2
      <4>2. \E parts : Round(x2, T!Required(x1), F, {"r"})["r"] = T!Joined(parts)
        BY <3>2, Zenon DEF Round
      <4>3. QED
        BY <4>1, <4>2
    <3>4. \A parts : T!Joined(parts).ok \in BOOLEAN
      BY DEF T!Joined
    <3>5. QED
      BY <3>1, <3>3, <3>4 DEF T!Resolved
  <2>4. QED
    BY <2>2, <2>3
<1>3. T!SecretsResolve(T!WithProfile(None))
  <2>1. T!Report(T!Error("wb-secret-001"), x1.secrets \ T!KnownProviders) \subseteq T!Diagnostics(x2, x1)
    BY DEF T!Diagnostics, T!CheckSecrets
  <2>2. x1.secrets \ T!KnownProviders = {}
    BY <1>1, <2>1, NoErrors
  <2>3. T!WithProfile(None).provider = None /\ T!WithProfile(None).secrets = x1.secrets
    BY DEF T!WithProfile
  <2>4. QED
    BY <2>2, <2>3 DEF T!SecretsResolve, T!Providers, T!KnownProviders
<1>4. \A v \in (x1.profiles \cup {x1.param.default}) \ {None} : T!Param(T!WithProfile(v)) # "invalid"
  BY <1>1, ParamsAreTaken DEF TextInv
<1>5. ASSUME NEW k \in DOMAIN T!Own(x2), NEW j \in DOMAIN T!Own(x2),
             T!Own(x2)[k].info.id # None, T!Own(x2)[k].kind \in {"code", "browser", "wait"},
             T!Own(x2)[j].kind \in {"code", "browser", "wait"}, T!Own(x2)[k].info.id = T!Own(x2)[j].info.id
      PROVE  k = j
  <2>1. PICK id, own : id = T!Own(x2)[k].info.id /\ own = T!Own(x2)
    OBVIOUS
  <2>2. k \in T!NodesNamed(own, id) /\ j \in T!NodesNamed(own, id)
    BY <1>5, <2>1 DEF T!NodesNamed, T!Executable
  <2>3. id \in T!KnownIds(own)
    BY <1>5, <2>1, <2>2 DEF T!KnownIds
  <2>4. T!Report(T!Error("wb-step-001"), {i \in T!KnownIds(own) : T!Cardinality(T!NodesNamed(own, i)) > 1})
           \subseteq T!Diagnostics(x2, x1)
    BY <2>1 DEF T!Diagnostics, T!CheckStepIds
  <2>5. ~(T!Cardinality(T!NodesNamed(own, id)) > 1)
    BY <1>1, <2>3, <2>4, NoErrors
  <2>6. Sequence(own)
    BY <2>1, ParsedIs, OrderedIs DEF TextInv, T!Written, T!Own
  <2>7. QED
    BY <1>5, <2>1, <2>2, <2>5, <2>6, NamedOnce
<1>6. QED
  BY <1>2, <1>3, <1>4, <1>5

-----------------------------------------------------------------------------
(* Blocks are counted alike before and after includes are resolved.        *)

Blocks(s) == {k \in DOMAIN s : T!Executable(s[k])}
Count(s) == Cardinality(Blocks(s))

LEMMA CountIs == ASSUME NEW s, Sequence(s) PROVE IsFiniteSet(Blocks(s)) /\ Count(s) \in Nat
<1>1. DOMAIN s = 1..Len(s) /\ Len(s) \in Nat
  BY Lengths
<1>2. IsFiniteSet(DOMAIN s) /\ Blocks(s) \subseteq DOMAIN s
  BY <1>1, FS_Interval DEF Blocks
<1>3. QED
  BY <1>2, FS_Subset, FS_CardinalityType DEF Count

(* One sequence after another.                                             *)
Chain(s, t, u) == u = s \o t

LEMMA Chained ==
  ASSUME NEW s, NEW t, NEW u, Sequence(s), Sequence(t), Chain(s, t, u)
  PROVE  /\ Sequence(u) /\ Len(u) = Len(s) + Len(t)
         /\ \A i \in DOMAIN s : u[i] = s[i]
         /\ \A i \in DOMAIN t : u[Len(s) + i] = t[i]
<1>1. PICK R : R = {s[i] : i \in DOMAIN s} \union {t[i] : i \in DOMAIN t}
  OBVIOUS
<1>2. s \in Seq(R) /\ t \in Seq(R)
  <2>1. {s[i] : i \in DOMAIN s} \subseteq R /\ {t[i] : i \in DOMAIN t} \subseteq R
    BY <1>1
  <2>2. QED
    BY <2>1, SeqMonotonic DEF Sequence
<1>3. /\ u \in Seq(R) /\ Len(u) = Len(s) + Len(t)
      /\ \A i \in 1..(Len(s) + Len(t)) : u[i] = IF i <= Len(s) THEN s[i] ELSE t[i - Len(s)]
  BY <1>2, ConcatProperties DEF Chain
<1>4. /\ Len(s) \in Nat /\ Len(t) \in Nat /\ DOMAIN s = 1..Len(s) /\ DOMAIN t = 1..Len(t)
  BY Lengths
<1>5. ASSUME NEW i \in DOMAIN t PROVE u[Len(s) + i] = t[i]
  <2>1. Len(s) + i \in 1..(Len(s) + Len(t)) /\ ~(Len(s) + i <= Len(s)) /\ (Len(s) + i) - Len(s) = i
    BY <1>4
  <2>2. QED
    BY <1>3, <2>1
<1>6. \A i \in DOMAIN s : u[i] = s[i]
  BY <1>3, <1>4
<1>7. Sequence(u)
  BY <1>3, Typed
<1>8. QED
  BY <1>3, <1>5, <1>6, <1>7

(* A longer sequence has as many blocks, and the blocks of its last part.  *)
LEMMA CountGrows ==
  ASSUME NEW s, NEW t, Sequence(s), Sequence(t)
  PROVE  /\ Count(s \o t) >= Count(s)
         /\ Blocks(t) # {} => Count(s \o t) >= Count(s) + 1
<1>1. PICK u : Chain(s, t, u) /\ u = s \o t
  BY DEF Chain
<1>2. Chain(s, t, u)
  BY <1>1
<1>5. /\ Sequence(u) /\ Len(u) = Len(s) + Len(t)
      /\ \A i \in DOMAIN s : u[i] = s[i]
      /\ \A i \in DOMAIN t : u[Len(s) + i] = t[i]
  BY <1>2, Chained
<1>6. /\ DOMAIN s = 1..Len(s) /\ DOMAIN t = 1..Len(t) /\ DOMAIN u = 1..Len(u)
      /\ Len(s) \in Nat /\ Len(t) \in Nat
  BY <1>5, Lengths
<1>7. Blocks(s) \subseteq Blocks(u)
  BY <1>5, <1>6 DEF Blocks
<1>8. IsFiniteSet(Blocks(u)) /\ IsFiniteSet(Blocks(s)) /\ Count(u) \in Nat /\ Count(s) \in Nat
  BY <1>5, CountIs
<1>9. Count(u) >= Count(s)
  BY <1>7, <1>8, FS_Subset DEF Count
<1>10. ASSUME Blocks(t) # {} PROVE Count(u) >= Count(s) + 1
  <2>1. PICK i \in DOMAIN t : T!Executable(t[i])
    BY <1>10 DEF Blocks
  <2>2. Len(s) + i \in Blocks(u) /\ Len(s) + i \notin Blocks(s)
    BY <1>5, <1>6, <2>1 DEF Blocks
  <2>3. Count(u) # Count(s)
    BY <1>7, <1>8, <2>2, FS_Subset DEF Count
  <2>4. QED
    BY <1>8, <1>9, <2>3
<1>11. QED
  BY <1>1, <1>9, <1>10

LEMMA SameSequence ==
  ASSUME NEW s, NEW t, Sequence(s), Sequence(t), Len(s) = Len(t), \A i \in 1..Len(s) : s[i] = t[i]
  PROVE  s = t
<1>1. PICK n \in Nat : s \in [1..n -> {s[i] : i \in DOMAIN s}]
  BY SequenceIs
<1>2. PICK m \in Nat : t \in [1..m -> {t[i] : i \in DOMAIN t}]
  BY SequenceIs
<1>3. DOMAIN s = 1..Len(s) /\ DOMAIN t = 1..Len(s)
  BY Lengths
<1>4. s = [i \in 1..Len(s) |-> s[i]] /\ t = [i \in 1..Len(s) |-> t[i]]
  BY <1>1, <1>2, <1>3
<1>5. QED
  BY <1>4

(* FlattenSeq of the library, part by part.                                *)
LEMMA FlattensExist ==
  ASSUME NEW seqs, NEW n \in Nat
  PROVE  \E f : f = [i \in 1..n |-> IF i = 1 THEN seqs[i] ELSE f[i-1] \o seqs[i]]
<1> DEFINE Is(f, m) == f = [i \in 1..m |-> IF i = 1 THEN seqs[i] ELSE f[i-1] \o seqs[i]]
           S == {m \in 0..n : \E f : Is(f, m)}
<1>1. 0 \in S
  <2> DEFINE f == [i \in 1..0 |-> 0]
  <2>1. Is(f, 0)
    OBVIOUS
  <2> HIDE DEF f, Is
  <2>2. QED
    BY <2>1
<1>2. ASSUME NEW m \in 1..n, m-1 \in S PROVE m \in S
  <2>1. PICK f : Is(f, m-1)
    BY <1>2
  <2> DEFINE g == [i \in 1..m |-> IF i = 1 THEN seqs[i] ELSE f[i-1] \o seqs[i]]
  <2>2. ASSUME NEW i \in 1..(m-1) PROVE g[i] = f[i]
    <3>1. f[i] = IF i = 1 THEN seqs[i] ELSE f[i-1] \o seqs[i]
      BY <2>1, Zenon
    <3>2. i \in 1..m
      OBVIOUS
    <3>3. g[i] = IF i = 1 THEN seqs[i] ELSE f[i-1] \o seqs[i]
      BY <3>2, Zenon
    <3>4. QED
      BY <3>1, <3>3, Zenon
  <2>3. ASSUME NEW i \in 1..m PROVE g[i] = IF i = 1 THEN seqs[i] ELSE g[i-1] \o seqs[i]
    <3>1. i # 1 => i-1 \in 1..(m-1)
      OBVIOUS
    <3>2. i # 1 => g[i-1] = f[i-1]
      BY <2>2, <3>1
    <3>3. g[i] = IF i = 1 THEN seqs[i] ELSE f[i-1] \o seqs[i]
      OBVIOUS
    <3> HIDE DEF g
    <3>4. QED
      BY <3>2, <3>3
  <2>4. g = [i \in 1..m |-> g[i]]
    OBVIOUS
  <2> HIDE DEF g
  <2>5. Is(g, m)
    BY <2>3, <2>4
  <2> HIDE DEF Is
  <2>6. QED
    BY <2>5
<1> HIDE DEF S
<1>3. n \in S
  BY <1>1, <1>2, Induction
<1>4. QED
  BY <1>3 DEF S

LEMMA FlattenIs ==
  ASSUME NEW seqs, Sequence(seqs), Len(seqs) # 0
  PROVE  \E f : /\ \A i \in 1..Len(seqs) : f[i] = IF i = 1 THEN seqs[i] ELSE f[i-1] \o seqs[i]
               /\ T!FlattenSeq(seqs) = f[Len(seqs)]
<1> DEFINE flatten == CHOOSE f : f = [i \in 1..Len(seqs) |-> IF i = 1 THEN seqs[i] ELSE f[i-1] \o seqs[i]]
<1>1. Len(seqs) \in Nat
  BY Lengths
<1>2. flatten = [i \in 1..Len(seqs) |-> IF i = 1 THEN seqs[i] ELSE flatten[i-1] \o seqs[i]]
  BY <1>1, FlattensExist
<1>3. T!FlattenSeq(seqs) = flatten[Len(seqs)]
  BY DEF T!FlattenSeq
<1> HIDE DEF flatten
<1>4. \A i \in 1..Len(seqs) : flatten[i] = IF i = 1 THEN seqs[i] ELSE flatten[i-1] \o seqs[i]
  BY <1>2
<1>5. QED
  BY <1>3, <1>4

(* The parts of a sequence of sequences follow one another: at least one   *)
(* block for each part that has one, and the same sequence if each part is *)
(* of one.                                                                 *)
LEMMA Flattened ==
  ASSUME NEW seqs, Sequence(seqs), \A i \in DOMAIN seqs : Sequence(seqs[i]),
         NEW E \in SUBSET DOMAIN seqs, \A i \in E : Blocks(seqs[i]) # {}
  PROVE  /\ Sequence(T!FlattenSeq(seqs)) /\ Count(T!FlattenSeq(seqs)) >= Cardinality(E)
         /\ \A own : Sequence(own) /\ seqs = [k \in DOMAIN own |-> <<own[k]>>] => T!FlattenSeq(seqs) = own
<1> DEFINE n == Len(seqs)
           Below(m) == E \cap 1..m
<1>1. n \in Nat /\ DOMAIN seqs = 1..n
  BY Lengths
<1>2. CASE n = 0
  <2>1. T!FlattenSeq(seqs) = seqs
    BY <1>2 DEF T!FlattenSeq
  <2>2. E = {} /\ Count(seqs) \in Nat
    BY <1>1, <1>2, CountIs
  <2>3. ASSUME NEW own, Sequence(own), seqs = [k \in DOMAIN own |-> <<own[k]>>] PROVE seqs = own
    <3>1. DOMAIN own = {} /\ Len(own) = 0
      BY <1>1, <1>2, <2>3, Lengths
    <3>2. QED
      BY <1>2, <2>3, <3>1 DEF Sequence
  <2>4. QED
    BY <2>1, <2>2, <2>3, FS_EmptySet
<1>3. CASE n # 0
  <2>1. PICK f : /\ \A i \in 1..n : f[i] = IF i = 1 THEN seqs[i] ELSE f[i-1] \o seqs[i]
                 /\ T!FlattenSeq(seqs) = f[n]
    BY <1>3, FlattenIs
  <2>2. \A m \in 0..n : /\ IsFiniteSet(Below(m)) /\ Cardinality(Below(m)) \in Nat
                        /\ m > 0 => Below(m) = Below(m-1) \cup (E \cap {m})
    <3>1. \A m \in 0..n : IsFiniteSet(1..m)
      BY <1>1, FS_Interval
    <3>2. \A m \in 0..n : IsFiniteSet(Below(m))
      BY <3>1, FS_Subset
    <3>3. \A m \in 0..n : m > 0 => Below(m) = Below(m-1) \cup (E \cap {m})
      BY <1>1
    <3>4. QED
      BY <3>2, <3>3, FS_CardinalityType
  <2> DEFINE S == {m \in 0..n : m > 0 => Sequence(f[m]) /\ Count(f[m]) >= Cardinality(Below(m))}
  <2>3. 0 \in S
    BY <1>1
  <2>4. ASSUME NEW m \in 1..n, m-1 \in S PROVE m \in S
    <3>1. Sequence(seqs[m]) /\ (m \in E => Blocks(seqs[m]) # {}) /\ m \in 0..n /\ m-1 \in 0..n
      BY <1>1
    <3>2. CASE m = 1
      <4>1. f[1] = seqs[1] /\ Below(0) = {}
        BY <1>1, <2>1, <3>2
      <4>2. Below(1) = IF 1 \in E THEN {1} ELSE {}
        BY <1>1, <3>2
      <4>3. Cardinality(Below(1)) = IF 1 \in E THEN 1 ELSE 0
        BY <4>2, FS_EmptySet, FS_Singleton
      <4>4. IsFiniteSet(Blocks(seqs[1])) /\ Count(seqs[1]) \in Nat
        BY <3>1, <3>2, CountIs
      <4>5. 1 \in E => Count(seqs[1]) # 0
        BY <3>1, <3>2, <4>4, FS_EmptySet DEF Count
      <4> HIDE DEF Below
      <4>6. QED
        BY <3>1, <3>2, <4>1, <4>3, <4>4, <4>5
    <3>3. CASE m # 1
      <4>1. PICK p : p = f[m-1]
        OBVIOUS
      <4>2. Sequence(p) /\ Count(p) >= Cardinality(Below(m-1)) /\ f[m] = p \o seqs[m]
        <5>1. f[m] = f[m-1] \o seqs[m]
          BY <2>1, <3>3, Zenon
        <5>2. m-1 > 0
          BY <3>3
        <5>3. Sequence(p) /\ Count(p) >= Cardinality(Below(m-1))
          <6> HIDE DEF Below
          <6>1. QED
            BY <2>4, <4>1, <5>2
        <5>4. QED
          BY <4>1, <5>1, <5>3, Zenon
      <4>3. /\ Count(p \o seqs[m]) >= Count(p)
            /\ Blocks(seqs[m]) # {} => Count(p \o seqs[m]) >= Count(p) + 1
        BY <3>1, <4>2, CountGrows, Zenon
      <4>4. Sequence(p \o seqs[m])
        BY <3>1, <4>2, Concatenated, Zenon
      <4>5. PICK q : q = p \o seqs[m]
        OBVIOUS
      <4>6. /\ f[m] = q /\ Sequence(q) /\ Count(q) \in Nat /\ Count(p) \in Nat /\ Count(q) >= Count(p)
            /\ m \in E => Count(q) >= Count(p) + 1
        BY <3>1, <4>2, <4>3, <4>4, <4>5, CountIs
      <4>7. Cardinality(Below(m)) = IF m \in E THEN Cardinality(Below(m-1)) + 1 ELSE Cardinality(Below(m-1))
        <5>1. m > 0 /\ m \notin Below(m-1)
          OBVIOUS
        <5>2. Below(m) = IF m \in E THEN Below(m-1) \cup {m} ELSE Below(m-1)
          BY <2>2, <3>1, <5>1
        <5> HIDE DEF Below
        <5>3. QED
          BY <2>2, <3>1, <5>1, <5>2, FS_AddElement
      <4>8. Cardinality(Below(m-1)) \in Nat
        BY <2>2, <3>1
      <4> HIDE DEF Below
      <4>9. QED
        BY <3>1, <4>2, <4>6, <4>7, <4>8
    <3>4. QED
      BY <3>2, <3>3
  <2> HIDE DEF S
  <2>5. n \in S
    <3> HIDE DEF n
    <3>1. 0..n \subseteq S
      BY <1>1, <2>3, <2>4, Induction
    <3>2. QED
      BY <1>1, <3>1
  <2>6. Sequence(f[n]) /\ Count(f[n]) >= Cardinality(E)
    <3>1. Below(n) = E
      BY <1>1
    <3>2. QED
      <4>1. n > 0
        BY <1>1, <1>3
      <4> HIDE DEF Below
      <4>2. QED
        BY <2>5, <3>1, <4>1 DEF S
  <2>7. ASSUME NEW own, Sequence(own), seqs = [k \in DOMAIN own |-> <<own[k]>>] PROVE f[n] = own
    <3>1. DOMAIN own = 1..n /\ Len(own) = n
      BY <1>1, <2>7, Lengths
    <3> DEFINE D == {m \in 0..n : m > 0 => Sequence(f[m]) /\ Len(f[m]) = m /\ \A i \in 1..m : f[m][i] = own[i]}
    <3>4. 0 \in D
      BY <1>1
    <3>5. ASSUME NEW m \in 1..n, m-1 \in D PROVE m \in D
      <4>1. PICK e : e = <<own[m]>>
        OBVIOUS
      <4>2. seqs[m] = e /\ Sequence(e) /\ Len(e) = 1 /\ e[1] = own[m] /\ 1 \in DOMAIN e
        <5>1. seqs[m] = <<own[m]>>
          BY <2>7, <3>1
        <5>2. Sequence(<<own[m]>>) /\ DOMAIN <<own[m]>> = 1..1 /\ <<own[m]>>[1] = own[m]
          BY Single
        <5>3. Sequence(e) /\ DOMAIN e = 1..1 /\ e[1] = own[m]
          BY <4>1, <5>2, Zenon
        <5>4. Len(e) = 1
          BY <5>3, Lengths
        <5>5. QED
          BY <4>1, <5>1, <5>3, <5>4
      <4>3. CASE m = 1
        <5>1. f[1] = seqs[1]
          BY <1>1, <2>1, <4>3
        <5>2. QED
          BY <4>2, <4>3, <5>1, <1>1
      <4>4. CASE m # 1
        <5>1. PICK p : p = f[m-1]
          OBVIOUS
        <5>2. Sequence(p) /\ Len(p) = m-1 /\ \A i \in 1..(m-1) : p[i] = own[i]
          BY <3>5, <4>4, <5>1
        <5>3. f[m] = p \o e
          <6>1. f[m] = f[m-1] \o seqs[m]
            BY <2>1, <4>4, Zenon
          <6>2. QED
            BY <4>2, <5>1, <6>1, Zenon
        <5>4. PICK q : Chain(p, e, q) /\ f[m] = q
          BY <5>3 DEF Chain
        <5>5. Sequence(p) /\ Sequence(e) /\ Chain(p, e, q)
          BY <4>2, <5>2, <5>4
        <5>6. /\ Sequence(q) /\ Len(q) = Len(p) + Len(e) /\ \A i \in DOMAIN p : q[i] = p[i]
              /\ \A i \in DOMAIN e : q[Len(p) + i] = e[i]
          BY <5>5, Chained
        <5>7. q[Len(p) + 1] = e[1]
          BY <4>2, <5>6
        <5>8. DOMAIN p = 1..(m-1)
          BY <5>2, Lengths
        <5>9. \A i \in 1..m : q[i] = own[i]
          BY <4>2, <5>2, <5>6, <5>7, <5>8
        <5>10. f[m] = q /\ Len(q) = m
          BY <4>2, <5>2, <5>4, <5>6
        <5>11. QED
          BY <5>6, <5>9, <5>10, <1>1
      <4>5. QED
        BY <4>3, <4>4
    <3> HIDE DEF D
    <3>6. n \in D
      <4> HIDE DEF n
      <4>1. 0..n \subseteq D
        BY <1>1, <3>4, <3>5, Induction
      <4>2. QED
        BY <1>1, <4>1
    <3>7. Sequence(f[n]) /\ Len(f[n]) = n /\ \A i \in 1..n : f[n][i] = own[i]
      BY <1>1, <1>3, <3>6 DEF D
    <3>8. QED
      BY <2>7, <3>1, <3>7, SameSequence
  <2>8. QED
    BY <2>1, <2>6, <2>7
<1>4. QED
  BY <1>2, <1>3

(* The last part of a sequence has no more blocks than the sequence.       *)
LEMMA CountOfLast ==
  ASSUME NEW s, NEW t, NEW u, Sequence(s), Sequence(t), Chain(s, t, u)
  PROVE  Count(u) >= Count(t)
<1>1. /\ Sequence(u) /\ Len(u) = Len(s) + Len(t)
      /\ \A i \in DOMAIN s : u[i] = s[i]
      /\ \A i \in DOMAIN t : u[Len(s) + i] = t[i]
  BY Chained
<1>2. /\ DOMAIN t = 1..Len(t) /\ DOMAIN u = 1..Len(u) /\ Len(s) \in Nat /\ Len(t) \in Nat
  BY <1>1, Lengths
<1> DEFINE shift == [i \in Blocks(t) |-> Len(s) + i]
<1>3. \A i \in Blocks(t) : i \in Nat /\ Len(s) + i \in Blocks(u)
  BY <1>1, <1>2 DEF Blocks
<1>4. shift \in Injection(Blocks(t), Blocks(u))
  <2>1. \A i \in Blocks(t) : shift[i] = Len(s) + i
    OBVIOUS
  <2>2. shift \in [Blocks(t) -> Blocks(u)]
    BY <1>3
  <2> HIDE DEF shift
  <2>3. \A i, j \in Blocks(t) : shift[i] = shift[j] => i = j
    BY <1>2, <1>3, <2>1
  <2>4. QED
    BY <2>2, <2>3 DEF Injection, IsInjective
<1>5. IsFiniteSet(Blocks(u))
  BY <1>1, CountIs
<1>6. QED
  BY <1>4, <1>5, FS_Injection DEF Count

-----------------------------------------------------------------------------
(* The sections of a workbook whose includes are resolved.                 *)

LEMMA SectionsAre ==
  ASSUME TextInv, NEW f \in Texts
  PROVE  Sequence(T!Sections(x2, T!Required(x1), f)) /\ Sequence(T!Required(x1)) /\ Sequence(T!Parse(x2[f]))
<1>1. Sequence(T!Parse(x2[f]))
  BY ParsedIs, OrderedIs DEF TextInv
<1>2. Sequence(T!Required(x1))
  <2>1. Sequence(x1.required)
    BY FrontAssumption, OrderedIs DEF TextInv, T!StepsAssumption
  <2>2. DOMAIN x1.required = 1..Len(x1.required) /\ Len(x1.required) \in Nat
    BY <2>1, Lengths
  <2>3. PICK s : s = T!Required(x1)
    OBVIOUS
  <2>4. s = [k \in 1..Len(x1.required) |-> s[k]]
    BY <2>2, <2>3 DEF T!Required
  <2>5. QED
    BY <2>2, <2>3, <2>4, IsSequence
<1>3. PICK p : p = (IF f = "r" THEN T!Required(x1) ELSE << >>) /\ Sequence(p)
  BY <1>2, EmptySequence
<1>4. PICK u : Chain(p, T!Parse(x2[f]), u) /\ u = T!Sections(x2, T!Required(x1), f)
  <2>1. T!Sections(x2, T!Required(x1), f) = p \o T!Parse(x2[f])
    BY <1>3, Zenon DEF T!Sections
  <2>2. QED
    BY <2>1 DEF Chain
<1>5. Sequence(u)
  BY <1>1, <1>3, <1>4, Chained
<1>6. QED
  BY <1>1, <1>2, <1>4, <1>5

(* What each section of file f turns into.                                 *)
Parts(F, v, f) ==
  LET sections == T!Sections(x2, T!Required(x1), f)
  IN  [k \in DOMAIN sections |-> T!Part(x2, v, F, sections[k])]
Pieces(F, v, f) == [k \in DOMAIN Parts(F, v, f) |-> Parts(F, v, f)[k].sections]

LEMMA PiecesAre ==
  ASSUME TextInv, NEW F, \A v \in SUBSET Texts : F[v] = Round(x2, T!Required(x1), F, v),
         NEW v \in SUBSET Texts, NEW f \in Texts,
         \A g \in Texts \ v : Sequence(F[v \cup {g}][g].sections)
  PROVE  /\ F[v][f].sections = T!FlattenSeq(Pieces(F, v, f))
         /\ Sequence(Pieces(F, v, f))
         /\ \A k \in DOMAIN Pieces(F, v, f) : Sequence(Pieces(F, v, f)[k])
         /\ DOMAIN Pieces(F, v, f) = DOMAIN T!Sections(x2, T!Required(x1), f)
         /\ \A k \in DOMAIN Pieces(F, v, f) :
               LET s == T!Sections(x2, T!Required(x1), f)[k]
               IN  s.kind # "include" => Pieces(F, v, f)[k] = <<s>>
<1> DEFINE sections == T!Sections(x2, T!Required(x1), f)
           pieces == Pieces(F, v, f)
<1>1. DOMAIN sections = 1..Len(sections) /\ Len(sections) \in Nat
  BY SectionsAre, Lengths
<1>2. /\ DOMAIN pieces = DOMAIN sections /\ DOMAIN Parts(F, v, f) = DOMAIN sections
      /\ \A k \in DOMAIN sections : pieces[k] = T!Part(x2, v, F, sections[k]).sections
  BY DEF Pieces, Parts
<1>3. pieces = [k \in DOMAIN sections |-> pieces[k]]
  BY <1>2 DEF Pieces
<1>4. F[v][f].sections = T!FlattenSeq(pieces)
  <2>1. F[v] = Round(x2, T!Required(x1), F, v)
    OBVIOUS
  <2>2. Round(x2, T!Required(x1), F, v)[f] = T!Joined(Parts(F, v, f))
    BY Zenon DEF Round, Parts
  <2>3. T!Joined(Parts(F, v, f)).sections = T!FlattenSeq(pieces)
    BY DEF T!Joined, Pieces
  <2>4. QED
    BY <2>1, <2>2, <2>3
<1> HIDE DEF pieces, sections
<1>5. Sequence(pieces)
  BY <1>1, <1>2, <1>3, IsSequence
<1>6. ASSUME NEW s PROVE Sequence(T!Part(x2, v, F, s).sections)
  <2>1. CASE s.kind # "include"
    <3>1. T!Part(x2, v, F, s) = [ok |-> TRUE, sections |-> <<s>>]
      BY <2>1, Zenon DEF T!Part, T!Single
    <3>2. T!Part(x2, v, F, s).sections = <<s>>
      BY <3>1
    <3>3. QED
      BY <3>2, Single
  <2>2. CASE T!Part(x2, v, F, s) = T!Failed
    <3>1. T!Part(x2, v, F, s).sections = << >>
      BY <2>2 DEF T!Failed
    <3>2. QED
      BY <3>1, EmptySequence
  <2>3. CASE /\ T!Target(s) \in Texts \ v
             /\ T!Part(x2, v, F, s) = T!Framed(T!Target(s), F[v \cup {T!Target(s)}][T!Target(s)])
    <3>1. PICK g : g = T!Target(s)
      OBVIOUS
    <3>2. PICK p, q, r : /\ p = <<T!Enter(g)>> /\ q = F[v \cup {g}][g].sections /\ r = <<T!Exit(g)>>
      OBVIOUS
    <3>3. Sequence(p) /\ Sequence(q) /\ Sequence(r)
      BY <2>3, <3>1, <3>2, Single
    <3>4. T!Part(x2, v, F, s).sections = p \o q \o r
      <4>1. PICK z, b : z = p \o q \o r /\ b = F[v \cup {g}][g].ok
        OBVIOUS
      <4>2. T!Part(x2, v, F, s) = [ok |-> b, sections |-> z]
        BY <2>3, <3>1, <3>2, <4>1, Zenon DEF T!Framed
      <4>3. T!Part(x2, v, F, s).sections = z
        BY <4>2
      <4>4. QED
        BY <4>1, <4>3
    <3>5. Sequence(p \o q)
      BY <3>3, Concatenated, Zenon
    <3>6. Sequence((p \o q) \o r)
      BY <3>3, <3>5, Concatenated, Zenon
    <3>7. QED
      BY <3>4, <3>6, Zenon
  <2>4. QED
    BY <2>1, <2>2, <2>3, Zenon DEF T!Part, Texts
<1>7. \A k \in DOMAIN pieces : sections[k].kind # "include" => pieces[k] = <<sections[k]>>
  <2>1. ASSUME NEW s, s.kind # "include" PROVE T!Part(x2, v, F, s).sections = <<s>>
    <3>1. T!Part(x2, v, F, s) = [ok |-> TRUE, sections |-> <<s>>]
      BY <2>1, Zenon DEF T!Part, T!Single
    <3>2. QED
      BY <3>1
  <2>2. QED
    BY <1>2, <2>1
<1>8. QED
  BY <1>2, <1>4, <1>5, <1>6, <1>7 DEF pieces, sections

LEMMA ResolvedSections ==
  ASSUME TextInv, NEW F, \A v \in SUBSET Texts : F[v] = Round(x2, T!Required(x1), F, v)
  PROVE  \A v \in SUBSET Texts : \A f \in Texts : Sequence(F[v][f].sections)
<1> DEFINE Small(v) == Cardinality(Texts \ v)
           N == Cardinality(Texts) + 1
           S == {n \in 0..N : \A v \in SUBSET Texts : Small(v) < n => \A f \in Texts : Sequence(F[v][f].sections)}
<1>3. \A v \in SUBSET Texts : Small(v) \in Nat /\ Small(v) < N
  <2>1. IsFiniteSet(Texts)
    <3>1. IsFiniteSet({"r"} \cup {"l"} \cup {"k"})
      BY FS_Singleton, FS_Union
    <3>2. QED
      BY <3>1 DEF Texts
  <2>2. \A v \in SUBSET Texts : Texts \ v \subseteq Texts
    OBVIOUS
  <2>3. QED
    BY <2>1, <2>2, FS_Subset, FS_CardinalityType
<1>4. N \in Nat
  <2>1. Texts \ {} = Texts
    OBVIOUS
  <2>2. Small({}) \in Nat
    BY <1>3
  <2>3. QED
    BY <2>1, <2>2
<1>5. 0 \in S
  <2>1. ASSUME NEW v \in SUBSET Texts PROVE ~(Small(v) < 0)
    <3> HIDE DEF Small
    <3>1. QED
      BY <1>3
  <2> HIDE DEF Small
  <2>2. QED
    BY <2>1, <1>4
<1>6. ASSUME NEW n \in 1..N, n-1 \in S PROVE n \in S
  <2>1. SUFFICES ASSUME NEW v \in SUBSET Texts, Small(v) < n, NEW f \in Texts PROVE Sequence(F[v][f].sections)
    <3>1. n \in 0..N
      <4> HIDE DEF N
      <4>1. QED
        BY <1>4
    <3> HIDE DEF N, Small
    <3>2. QED
      BY <3>1
  <2>2. ASSUME NEW g \in Texts \ v PROVE Sequence(F[v \cup {g}][g].sections)
    <3>1. v \cup {g} \in SUBSET Texts /\ Small(v \cup {g}) < n-1
      BY <2>1, <1>3, Larger
    <3> HIDE DEF Small
    <3>2. QED
      BY <3>1, <1>6
  <2>3. /\ F[v][f].sections = T!FlattenSeq(Pieces(F, v, f))
        /\ Sequence(Pieces(F, v, f))
        /\ \A k \in DOMAIN Pieces(F, v, f) : Sequence(Pieces(F, v, f)[k])
    BY <2>2, PiecesAre
  <2>4. PICK pieces : pieces = Pieces(F, v, f)
    OBVIOUS
  <2>5. PICK E : E = {}
    OBVIOUS
  <2>6. E \in SUBSET DOMAIN pieces /\ \A i \in E : Blocks(pieces[i]) # {}
    BY <2>5
  <2>7. Sequence(T!FlattenSeq(pieces))
    BY <2>3, <2>4, <2>6, Flattened
  <2>8. QED
    BY <2>3, <2>4, <2>7
<1> HIDE DEF S
<1>7. N \in S
  BY <1>4, <1>5, <1>6, Induction
<1>8. QED
  BY <1>3, <1>7 DEF S

(* Resolving includes leaves every block of the workbook, and changes      *)
(* nothing where nothing is included.                                      *)
LEMMA ResolvedHas ==
  ASSUME TextInv
  PROVE  /\ Sequence(T!Resolved(x2, x1).sections) /\ Sequence(T!Own(x2))
         /\ Count(T!Resolved(x2, x1).sections) >= Count(T!Own(x2))
         /\ x1.required = << >> /\ (\A k \in DOMAIN T!Own(x2) : T!Own(x2)[k].kind # "include")
              => T!Resolved(x2, x1).sections = T!Own(x2)
<1> DEFINE own == T!Own(x2)
           sections == T!Sections(x2, T!Required(x1), "r")
<1>1. PICK F : /\ \A v \in SUBSET Texts : F[v] = Round(x2, T!Required(x1), F, v)
               /\ T!Splice(x2, T!Required(x1)) = F[{"r"}]["r"]
  BY SpliceIs
<1>2. {"r"} \in SUBSET Texts /\ "r" \in Texts
  BY DEF Texts
<1>3. Sequence(sections) /\ Sequence(T!Required(x1)) /\ Sequence(own)
  BY <1>2, SectionsAre DEF T!Own
<1>4. \A v \in SUBSET Texts : \A f \in Texts : Sequence(F[v][f].sections)
  BY <1>1, ResolvedSections
<1>5. \A g \in Texts \ {"r"} : {"r"} \cup {g} \in SUBSET Texts /\ Sequence(F[{"r"} \cup {g}][g].sections)
  BY <1>2, <1>4
<1>6. PICK pieces :
        /\ F[{"r"}]["r"].sections = T!FlattenSeq(pieces)
        /\ Sequence(pieces)
        /\ \A k \in DOMAIN pieces : Sequence(pieces[k])
        /\ DOMAIN pieces = DOMAIN sections
        /\ \A k \in DOMAIN pieces : sections[k].kind # "include" => pieces[k] = <<sections[k]>>
  <2>1. PICK v, f : v = {"r"} /\ f = "r"
    OBVIOUS
  <2>2. /\ v \in SUBSET Texts /\ f \in Texts
        /\ \A g \in Texts \ v : Sequence(F[v \cup {g}][g].sections)
        /\ \A y \in SUBSET Texts : F[y] = Round(x2, T!Required(x1), F, y)
    BY <1>1, <1>2, <1>5, <2>1
  <2>3. /\ F[v][f].sections = T!FlattenSeq(Pieces(F, v, f))
        /\ Sequence(Pieces(F, v, f))
        /\ \A k \in DOMAIN Pieces(F, v, f) : Sequence(Pieces(F, v, f)[k])
        /\ DOMAIN Pieces(F, v, f) = DOMAIN T!Sections(x2, T!Required(x1), f)
        /\ \A k \in DOMAIN Pieces(F, v, f) :
              LET s == T!Sections(x2, T!Required(x1), f)[k]
              IN  s.kind # "include" => Pieces(F, v, f)[k] = <<s>>
    BY <2>2, PiecesAre
  <2>4. PICK pieces : pieces = Pieces(F, v, f)
    OBVIOUS
  <2>5. \A k \in DOMAIN pieces :
          T!Sections(x2, T!Required(x1), f)[k].kind # "include"
            => pieces[k] = <<T!Sections(x2, T!Required(x1), f)[k]>>
    BY <2>3, <2>4, Zenon
  <2>6. sections = T!Sections(x2, T!Required(x1), f)
    BY <2>1
  <2>7. \A k \in DOMAIN pieces : sections[k].kind # "include" => pieces[k] = <<sections[k]>>
    BY <2>5, <2>6, Zenon
  <2> HIDE DEF sections
  <2>8. QED
    BY <2>1, <2>3, <2>4, <2>6, <2>7
<1>7. T!Resolved(x2, x1).sections = T!FlattenSeq(pieces)
  BY <1>1, <1>6 DEF T!Resolved
<1>8. Chain(T!Required(x1), own, sections)
  BY DEF T!Sections, T!Own, Chain
<1> HIDE DEF own, sections
<1>9. \A k \in Blocks(sections) : k \in DOMAIN pieces /\ Blocks(pieces[k]) # {}
  <2>1. ASSUME NEW k \in Blocks(sections) PROVE k \in DOMAIN pieces /\ Blocks(pieces[k]) # {}
    <3>1. k \in DOMAIN pieces /\ T!Executable(sections[k])
      BY <1>6 DEF Blocks
    <3>2. sections[k].kind # "include"
      BY <3>1 DEF T!Executable
    <3>3. PICK p : p = pieces[k] /\ p = <<sections[k]>>
      BY <1>6, <3>1, <3>2
    <3>4. DOMAIN p = 1..1 /\ p[1] = sections[k]
      BY <3>3, Single, Zenon
    <3>5. 1 \in Blocks(p)
      BY <3>1, <3>4 DEF Blocks
    <3>6. QED
      BY <3>1, <3>3, <3>5
  <2>2. QED
    BY <2>1
<1>10. /\ Sequence(T!FlattenSeq(pieces)) /\ Count(T!FlattenSeq(pieces)) >= Cardinality(Blocks(sections))
       /\ \A o : Sequence(o) /\ pieces = [k \in DOMAIN o |-> <<o[k]>>] => T!FlattenSeq(pieces) = o
  <2>1. Blocks(sections) \in SUBSET DOMAIN pieces
    BY <1>9
  <2>2. QED
    BY <1>6, <1>9, <2>1, Flattened
<1>11. Count(sections) >= Count(own) /\ Count(own) \in Nat /\ Count(sections) \in Nat
  BY <1>3, <1>8, CountOfLast, CountIs
<1>12. Count(T!FlattenSeq(pieces)) >= Count(own)
  <2>1. Count(T!FlattenSeq(pieces)) \in Nat
    BY <1>10, CountIs
  <2>2. QED
    BY <1>10, <1>11, <2>1 DEF Count
<1>13. ASSUME x1.required = << >>, \A k \in DOMAIN own : own[k].kind # "include"
       PROVE  T!FlattenSeq(pieces) = own
  <2>1. Len(T!Required(x1)) = 0
    <3>1. DOMAIN T!Required(x1) = {}
      <4>1. DOMAIN T!Required(x1) = DOMAIN x1.required
        BY DEF T!Required
      <4>2. QED
        BY <1>13, <4>1, EmptySequence
    <3>2. QED
      BY <1>3, <3>1, Lengths
  <2>2. sections = own
    <3>1. /\ Len(sections) = Len(T!Required(x1)) + Len(own)
          /\ \A i \in DOMAIN own : sections[Len(T!Required(x1)) + i] = own[i]
      BY <1>3, <1>8, Chained
    <3>2. Len(own) \in Nat /\ DOMAIN own = 1..Len(own)
      BY <1>3, Lengths
    <3>3. Len(sections) = Len(own) /\ \A i \in 1..Len(own) : sections[i] = own[i]
      BY <2>1, <3>1, <3>2
    <3>4. QED
      BY <1>3, <3>3, SameSequence
  <2>3. \A k \in DOMAIN own : pieces[k] = <<own[k]>>
    BY <1>6, <1>13, <2>2
  <2>4. pieces = [k \in DOMAIN own |-> <<own[k]>>]
    <3>1. PICK n \in Nat : pieces \in [1..n -> {pieces[i] : i \in DOMAIN pieces}]
      BY <1>6, SequenceIs
    <3>2. pieces = [k \in DOMAIN pieces |-> pieces[k]]
      BY <3>1
    <3>3. QED
      BY <1>6, <2>2, <2>3, <3>2
  <2>5. QED
    BY <1>3, <1>10, <2>4
<1>14. QED
  BY <1>3, <1>7, <1>10, <1>12, <1>13 DEF own

-----------------------------------------------------------------------------
(* The plan has one step for each block.                                   *)

NoSteps == [steps |-> << >>, chain |-> << >>, positions |-> <<0>>]
Fields == {"steps", "chain", "positions"}

OneMore(p, q) == \E b : q = Append(p, b)

LEMMA AddIs ==
  ASSUME NEW acc, DOMAIN acc = Fields, NEW s
  PROVE  /\ DOMAIN T!Add(acc, s) = Fields
         /\ T!Executable(s) => OneMore(acc.steps, T!Add(acc, s).steps)
         /\ ~T!Executable(s) => T!Add(acc, s).steps = acc.steps
<1>1. CASE s.kind = "enter"
  <2>1. ~T!Executable(s) /\ s.kind # "exit"
    BY <1>1 DEF T!Executable
  <2>2. PICK c, p : T!Add(acc, s) = [acc EXCEPT !.chain = c, !.positions = p]
    BY <1>1, <2>1, Zenon DEF T!Add
  <2>3. QED
    BY <2>1, <2>2 DEF Fields
<1>2. CASE s.kind = "exit"
  <2>1. ~T!Executable(s) /\ s.kind # "enter"
    BY <1>2 DEF T!Executable
  <2>2. PICK c, p : T!Add(acc, s) = [acc EXCEPT !.chain = c, !.positions = p]
    BY <1>2, <2>1, Zenon DEF T!Add
  <2>3. QED
    BY <2>1, <2>2 DEF Fields
<1>3. CASE T!Executable(s)
  <2>1. s.kind # "enter" /\ s.kind # "exit"
    BY <1>3 DEF T!Executable
  <2>2. PICK b, p : T!Add(acc, s) = [acc EXCEPT !.steps = Append(acc.steps, b), !.positions = p]
    BY <1>3, <2>1, Zenon DEF T!Add
  <2>3. PICK a : a = Append(acc.steps, b)
    OBVIOUS
  <2>4. T!Add(acc, s) = [acc EXCEPT !.steps = a, !.positions = p]
    BY <2>2, <2>3
  <2>5. DOMAIN T!Add(acc, s) = Fields /\ T!Add(acc, s).steps = a
    BY <2>4 DEF Fields
  <2>6. QED
    BY <1>3, <2>3, <2>5 DEF OneMore
<1>4. CASE s.kind # "enter" /\ s.kind # "exit" /\ ~T!Executable(s)
  <2>1. T!Add(acc, s) = acc
    BY <1>4, Zenon DEF T!Add
  <2>2. QED
    BY <1>4, <2>1
<1>5. QED
  BY <1>1, <1>2, <1>3, <1>4

LEMMA BuildsExist ==
  ASSUME NEW s, NEW n \in Nat
  PROVE  \E F : F = [k \in 0..n |-> IF k = 0 THEN NoSteps ELSE T!Add(F[k-1], s[k])]
<1> DEFINE Is(F, m) == F = [k \in 0..m |-> IF k = 0 THEN NoSteps ELSE T!Add(F[k-1], s[k])]
           S == {m \in 0..n : \E F : Is(F, m)}
<1>1. 0 \in S
  <2> DEFINE F == [k \in 0..0 |-> NoSteps]
  <2>1. F = [k \in 0..0 |-> IF k = 0 THEN NoSteps ELSE T!Add(F[k-1], s[k])]
    OBVIOUS
  <2> HIDE DEF F
  <2>2. Is(F, 0)
    BY <2>1
  <2> HIDE DEF Is
  <2>3. QED
    BY <2>2
<1>2. ASSUME NEW m \in 1..n, m-1 \in S PROVE m \in S
  <2>1. PICK F : Is(F, m-1)
    BY <1>2
  <2> DEFINE G == [k \in 0..m |-> IF k = 0 THEN NoSteps ELSE T!Add(F[k-1], s[k])]
  <2>2. ASSUME NEW k \in 0..(m-1) PROVE G[k] = F[k]
    <3>1. F[k] = IF k = 0 THEN NoSteps ELSE T!Add(F[k-1], s[k])
      BY <2>1, Zenon
    <3>2. k \in 0..m
      OBVIOUS
    <3>3. G[k] = IF k = 0 THEN NoSteps ELSE T!Add(F[k-1], s[k])
      BY <3>2, Zenon
    <3>4. QED
      BY <3>1, <3>3, Zenon
  <2>3. ASSUME NEW k \in 0..m PROVE G[k] = IF k = 0 THEN NoSteps ELSE T!Add(G[k-1], s[k])
    <3>1. k # 0 => k-1 \in 0..(m-1)
      OBVIOUS
    <3>2. k # 0 => G[k-1] = F[k-1]
      BY <2>2, <3>1
    <3>3. G[k] = IF k = 0 THEN NoSteps ELSE T!Add(F[k-1], s[k])
      OBVIOUS
    <3> HIDE DEF G
    <3>4. QED
      BY <3>2, <3>3
  <2>4. G = [k \in 0..m |-> G[k]]
    OBVIOUS
  <2> HIDE DEF G
  <2>5. Is(G, m)
    BY <2>3, <2>4
  <2> HIDE DEF Is
  <2>6. QED
    BY <2>5
<1> HIDE DEF S
<1>3. n \in S
  BY <1>1, <1>2, Induction
<1>4. QED
  BY <1>3 DEF S

LEMMA BuiltIs ==
  ASSUME NEW s, Sequence(s)
  PROVE  Sequence(T!BuildSteps(s)) /\ Len(T!BuildSteps(s)) = Count(s)
<1> DEFINE n == Len(s)
           after == CHOOSE F : F = [k \in 0..n |-> IF k = 0 THEN NoSteps ELSE T!Add(F[k-1], s[k])]
           Below(m) == Blocks(s) \cap 1..m
<1>1. n \in Nat /\ DOMAIN s = 1..n
  BY Lengths
<1>2. after = [k \in 0..n |-> IF k = 0 THEN NoSteps ELSE T!Add(after[k-1], s[k])]
  BY <1>1, BuildsExist
<1>3. T!BuildSteps(s) = after[n].steps
  BY DEF T!BuildSteps, NoSteps
<1> HIDE DEF after
<1>4. \A k \in 0..n : after[k] = IF k = 0 THEN NoSteps ELSE T!Add(after[k-1], s[k])
  BY <1>2
<1>5. \A m \in 0..n : /\ IsFiniteSet(Below(m)) /\ Cardinality(Below(m)) \in Nat
                      /\ m > 0 => Below(m) = Below(m-1) \cup (Blocks(s) \cap {m})
  <2>1. \A m \in 0..n : IsFiniteSet(1..m)
    BY <1>1, FS_Interval
  <2>2. \A m \in 0..n : IsFiniteSet(Below(m))
    BY <2>1, FS_Subset
  <2>3. \A m \in 0..n : m > 0 => Below(m) = Below(m-1) \cup (Blocks(s) \cap {m})
    BY <1>1
  <2>4. QED
    BY <2>2, <2>3, FS_CardinalityType
<1> DEFINE S == {m \in 0..n : /\ DOMAIN after[m] = Fields /\ Sequence(after[m].steps)
                              /\ Len(after[m].steps) = Cardinality(Below(m))}
<1>6. 0 \in S
  <2>1. after[0] = NoSteps
    BY <1>1, <1>4
  <2>2. DOMAIN after[0] = Fields /\ after[0].steps = << >>
    BY <2>1 DEF NoSteps, Fields
  <2>3. Below(0) = {}
    BY <1>1
  <2>4. Sequence(after[0].steps) /\ Len(after[0].steps) = 0
    <3>1. Sequence(<< >>) /\ Len(<< >>) = 0
      BY EmptySequence
    <3>2. QED
      BY <2>2, <3>1
  <2>5. Cardinality(Below(0)) = 0
    BY <2>3, FS_EmptySet
  <2> HIDE DEF Below
  <2>6. QED
    BY <1>1, <2>2, <2>4, <2>5
<1>7. ASSUME NEW m \in 1..n, m-1 \in S PROVE m \in S
  <2>1. m \in 0..n /\ m-1 \in 0..n /\ m # 0 /\ m > 0 /\ m \notin Below(m-1)
    BY <1>1
  <2>2. PICK a, b : a = after[m-1] /\ b = after[m]
    OBVIOUS
  <2>3. b = T!Add(a, s[m])
    BY <1>4, <2>1, <2>2, Zenon
  <2>4. DOMAIN a = Fields /\ Sequence(a.steps) /\ Len(a.steps) = Cardinality(Below(m-1))
    <3> HIDE DEF Below
    <3>1. QED
      BY <1>7, <2>2
  <2>5. DOMAIN b = Fields
    BY <2>3, <2>4, AddIs
  <2>6. CASE T!Executable(s[m])
    <3>1. PICK e : b.steps = Append(a.steps, e)
      <4>1. OneMore(a.steps, b.steps)
        BY <2>3, <2>4, <2>6, AddIs
      <4>2. QED
        BY <4>1 DEF OneMore
    <3>2. Sequence(Append(a.steps, e)) /\ Len(Append(a.steps, e)) = Len(a.steps) + 1
      BY <2>4, Appended
    <3>3. Below(m) = Below(m-1) \cup {m}
      BY <1>1, <2>6 DEF Blocks
    <3> HIDE DEF Below
    <3>4. Cardinality(Below(m)) = Cardinality(Below(m-1)) + 1
      BY <1>5, <2>1, <3>3, FS_AddElement
    <3>5. QED
      BY <2>1, <2>2, <2>4, <2>5, <3>1, <3>2, <3>4
  <2>7. CASE ~T!Executable(s[m])
    <3>1. b.steps = a.steps
      BY <2>3, <2>4, <2>7, AddIs
    <3>2. Below(m) = Below(m-1)
      BY <1>1, <2>7 DEF Blocks
    <3> HIDE DEF Below
    <3>3. QED
      BY <2>1, <2>2, <2>4, <2>5, <3>1, <3>2
  <2>8. QED
    BY <2>6, <2>7
<1>8. Below(n) = Blocks(s)
  BY <1>1 DEF Blocks
<1> HIDE DEF S, Below
<1>9. n \in S
  <2> HIDE DEF n
  <2>1. 0..n \subseteq S
    BY <1>1, <1>6, <1>7, Induction
  <2>2. QED
    BY <1>1, <2>1
<1>10. Sequence(after[n].steps) /\ Len(after[n].steps) = Cardinality(Below(n))
  BY <1>9 DEF S
<1>11. QED
  BY <1>3, <1>8, <1>10 DEF Count

-----------------------------------------------------------------------------
(* What wb validate --strict accepts is in force.                          *)

Including == x1.required # << >> \/ (\E s \in T!ToSet(T!Own(x2)) : s.kind = "include")

LEMMA OwnHas ==
  ASSUME TextInv
  PROVE  /\ Sequence(T!Own(x2))
         /\ T!ToSet(T!Own(x2)) = {T!Own(x2)[k] : k \in DOMAIN T!Own(x2)}
<1>1. Sequence(T!Own(x2))
  BY ParsedIs, OrderedIs DEF TextInv, T!Written, T!Own
<1>2. QED
  BY <1>1 DEF T!ToSet

(* The numbers of blocks are those of steps.                               *)
LEMMA NumbersAreSteps ==
  ASSUME TextInv, T!Accepts(x2, x1, TRUE), NEW b \in Blocks(T!Own(x2))
  PROVE  T!BlockNumbers(x1) \subseteq DOMAIN T!Plan(x2, x1)
<1> DEFINE own == T!Own(x2)
           blocks == {k \in DOMAIN own : T!Executable(own[k])}
           sections == T!Resolved(x2, x1).sections
<1>1. blocks # {} /\ blocks = Blocks(own)
  BY DEF Blocks
<1>2. T!CheckPolicies(x1, own) \subseteq T!Diagnostics(x2, x1)
  BY DEF T!Diagnostics
<1>3. T!Report(T!Warning("wb-fm-006"),
               {k \in T!BlockNumbers(x1) : blocks # {} /\ k > T!Cardinality(blocks)}) \subseteq T!Diagnostics(x2, x1)
  BY <1>2, Zenon DEF T!CheckPolicies
<1>4. {k \in T!BlockNumbers(x1) : blocks # {} /\ k > T!Cardinality(blocks)} = {}
  BY <1>3, NoWarnings
<1> HIDE DEF blocks
<1>5. Sequence(own) /\ Sequence(sections) /\ Count(sections) >= Count(own)
  BY ResolvedHas
<1>6. IsFiniteSet(Blocks(own)) /\ Count(own) \in Nat /\ Count(sections) \in Nat
  BY <1>5, CountIs
<1>7. T!Cardinality(blocks) = Count(own)
  BY <1>1, <1>6, SameCardinality DEF Count
<1>8. T!BlockNumbers(x1) \subseteq Nat \ {0}
  BY FrontAssumption DEF T!StepsAssumption, TextInv, T!BlockNumbers
<1>9. Sequence(T!Plan(x2, x1)) /\ Len(T!Plan(x2, x1)) = Count(sections)
  BY <1>5, BuiltIs DEF T!Plan
<1>10. DOMAIN T!Plan(x2, x1) = 1..Count(sections)
  BY <1>9, Lengths
<1> HIDE DEF own, sections
<1>11. ASSUME NEW k \in T!BlockNumbers(x1) PROVE k \in 1..Count(sections)
  <2>1. k \in Nat \ {0} /\ ~(k > Count(own))
    BY <1>1, <1>4, <1>7, <1>8
  <2>2. QED
    BY <1>5, <1>6, <2>1
<1>12. QED
  BY <1>10, <1>11

(* Without includes the blocks of a run are those of the file, and no      *)
(* attribute wins over the setting.                                        *)
LEMMA TimeoutsAreInForce ==
  ASSUME TextInv, T!Accepts(x2, x1, TRUE), ~Including, NEW k \in DOMAIN x1.timeouts,
         k \in DOMAIN T!Plan(x2, x1)
  PROVE  T!Policy(T!Plan(x2, x1), x1, k).timeout = T!Seconds(x1.timeouts[k])
<1> DEFINE own == T!Own(x2)
<1>1. T!Resolved(x2, x1).sections = own
  <2>1. x1.required = << >> /\ \A j \in DOMAIN own : own[j].kind # "include"
    BY OwnHas DEF Including
  <2>2. QED
    BY <2>1, ResolvedHas
<1>2. PICK plan : plan = T!Plan(x2, x1) /\ plan = T!BuildSteps(own)
  BY <1>1 DEF T!Plan
<1>3. T!Report(T!Warning("wb-step-002"), T!Shadowed(T!BuildSteps(own), x1)) \subseteq T!Diagnostics(x2, x1)
  <2>1. T!CheckStepIds(x1, own) \subseteq T!Diagnostics(x2, x1)
    BY DEF T!Diagnostics
  <2>2. QED
    BY <2>1 DEF T!CheckStepIds
<1>4. T!Shadowed(plan, x1) = {}
  BY <1>2, <1>3, NoWarnings
<1>5. T!Entry(x1.timeouts, k) = x1.timeouts[k] /\ x1.timeouts[k] # None
  BY FrontAssumption DEF T!StepsAssumption, TextInv, T!Entry
<1>6. T!Seconds(plan[k].info.timeout) = None
  BY <1>2, <1>4, <1>5 DEF T!Shadowed
<1>7. T!Policy(plan, x1, k).timeout =
        T!OrElse(T!Seconds(plan[k].info.timeout), T!Seconds(T!Entry(x1.timeouts, k)))
  BY DEF T!Policy
<1>8. QED
  BY <1>2, <1>5, <1>6, <1>7 DEF T!OrElse

(* Every node is that of a step or a wait.                                 *)
LEMMA NodesAreNamed ==
  ASSUME TextInv, T!Accepts(x2, x1, TRUE), NEW id \in DOMAIN x1.nodes
  PROVE  \E s \in T!ToSet(T!Own(x2)) : T!NodeOf(x1, s.info.id) = {id}
<1> DEFINE own == T!Own(x2)
           mapped == {i \in DOMAIN x1.nodes : x1.nodes[i].map}
<1>1. T!CheckNodes(x1, own) \subseteq T!Diagnostics(x2, x1)
  BY DEF T!Diagnostics
<1>2. /\ T!Report(T!Error("wb-workflow-002"), DOMAIN x1.nodes \ mapped) \subseteq T!Diagnostics(x2, x1)
      /\ T!Report(T!Warning("wb-workflow-001"), mapped \ T!KnownIds(own)) \subseteq T!Diagnostics(x2, x1)
  BY <1>1 DEF T!CheckNodes
<1>3. DOMAIN x1.nodes \ mapped = {}
  BY <1>2, NoErrors
<1>4. mapped \ T!KnownIds(own) = {}
  BY <1>2, NoWarnings
<1>5. id \in T!KnownIds(own)
  BY <1>3, <1>4
<1>6. PICK k \in DOMAIN own : own[k].info.id = id
  BY <1>5 DEF T!KnownIds
<1>7. own[k] \in T!ToSet(own)
  BY OwnHas
<1>8. T!NodeOf(x1, own[k].info.id) = {id}
  BY <1>6 DEF T!NodeOf
<1>9. QED
  BY <1>7, <1>8

LEMMA StrictHolds == ASSUME TextInv PROVE T!StrictIsInForce
<1>1. SUFFICES ASSUME T!Accepts(x2, x1, TRUE), NEW s \in T!ToSet(T!Own(x2)), T!Executable(s)
               PROVE  /\ T!BlockNumbers(x1) \subseteq DOMAIN T!Plan(x2, x1)
                      /\ ~Including =>
                           \A k \in DOMAIN x1.timeouts :
                             T!Policy(T!Plan(x2, x1), x1, k).timeout = T!Seconds(x1.timeouts[k])
                      /\ \A id \in DOMAIN x1.nodes :
                           \E x \in T!ToSet(T!Own(x2)) : T!NodeOf(x1, x.info.id) = {id}
  BY DEF T!StrictIsInForce, Including
<1>2. PICK b : b \in Blocks(T!Own(x2))
  BY <1>1, OwnHas DEF Blocks
<1>3. T!BlockNumbers(x1) \subseteq DOMAIN T!Plan(x2, x1)
  BY <1>1, <1>2, NumbersAreSteps
<1>4. DOMAIN x1.timeouts \subseteq T!BlockNumbers(x1)
  BY DEF T!BlockNumbers
<1>5. QED
  BY <1>1, <1>3, <1>4, TimeoutsAreInForce, NodesAreNamed

(* A workbook that wb validate accepts is not refused for what it looked   *)
(* at, and under --strict the settings about blocks and nodes are in force.*)
THEOREM AcceptedAreRun == FrontSpec => []AcceptedRuns
<1>1. (scenario = "steps" => TextInv) => AcceptedRuns
  BY AcceptedIsTaken, StrictHolds DEF AcceptedRuns
<1>2. QED
  BY <1>1, TextHolds, PTL

-----------------------------------------------------------------------------
(* The types of a session.  A checkpoint has the number of a block, or of  *)
(* one beyond the end, and skipped finitely many.                          *)
Numbered(c) ==
  /\ c.next \in Nat \ {0} /\ c.total \in Nat
  /\ c.skipped \subseteq Nat \ {0} /\ \E n \in Nat : \A k \in c.skipped : k <= n

StepsTyped ==
  /\ x5 \in 0..MaxEdits
  /\ Sequence(x4.plan) /\ x4.at \in 1..(Len(x4.plan) + 1) /\ x4.from \in Nat \ {0}
  /\ ~x4.on => x4.ckpt = {}
  /\ \A c \in x3 \cup x4.ckpt : Numbered(c)

(* The plan of a workbook is a sequence.                                   *)
LEMMA PlanIs == ASSUME TextInv PROVE Sequence(T!Plan(x2, x1))
BY ResolvedHas, BuiltIs DEF T!Plan

(* The greatest of some numbers that have a bound.                         *)
LEMMA Greatest ==
  ASSUME NEW S \in SUBSET Nat, S # {}, NEW n \in Nat, \A k \in S : k <= n
  PROVE  T!Max(S) \in S
<1> DEFINE U == {m \in Nat : \A k \in S : k <= m}
<1>1. PICK m \in U : \A y \in U : m <= y
  <2>1. U \in SUBSET Nat /\ U # {}
    OBVIOUS
  <2> HIDE DEF U
  <2>2. QED
    BY <2>1, Least
<1>2. m \in S
  <2>1. SUFFICES ASSUME m \notin S PROVE FALSE
    OBVIOUS
  <2>2. PICK k \in S : k <= m
    BY <1>1
  <2>3. m \in Nat /\ k \in Nat /\ m # k /\ m >= 1
    BY <1>1, <2>1, <2>2
  <2>4. \A j \in S : j <= m - 1
    BY <1>1, <2>1, <2>3
  <2>5. m - 1 \in U
    BY <2>3, <2>4
  <2>6. QED
    BY <1>1, <2>3, <2>5
<1>3. \A k \in S : m >= k
  BY <1>1
<1>4. QED
  BY <1>2, <1>3 DEF T!Max

(* A block of the plan has a number from 1.                                *)
LEMMA FirstIs ==
  ASSUME NEW plan, Sequence(plan), NEW id \in T!Ids(plan) PROVE T!First(plan, id) \in Nat \ {0}
<1> DEFINE S == {k \in DOMAIN plan : T!IdOf(plan, k) = id}
<1>1. DOMAIN plan \subseteq Nat \ {0}
  BY Lengths
<1>2. S \in SUBSET Nat /\ S # {}
  BY <1>1 DEF T!Ids
<1>3. PICK k \in S : \A j \in S : k <= j
  <2> HIDE DEF S
  <2>1. QED
    BY <1>2, Least
<1>4. k \in DOMAIN plan /\ T!IdOf(plan, k) = id /\ \A j \in DOMAIN plan : T!IdOf(plan, j) = id => k <= j
  BY <1>3
<1>5. T!First(plan, id) \in DOMAIN plan
  BY <1>4, Zenon DEF T!First
<1>6. QED
  BY <1>1, <1>5

LEMMA PositionIs ==
  ASSUME NEW plan, Sequence(plan), NEW c, Numbered(c), NEW k \in T!Position(c, plan)
  PROVE  k \in Nat \ {0}
<1>1. c.next \in Nat \ {0}
  BY DEF Numbered
<1>2. CASE k = c.next
  BY <1>1, <1>2
<1>3. CASE c.step # {} /\ c.step \subseteq T!Ids(plan) /\ k = T!First(plan, CHOOSE id \in c.step : TRUE)
  <2>1. (CHOOSE id \in c.step : TRUE) \in T!Ids(plan)
    BY <1>3
  <2>2. QED
    BY <1>3, <2>1, FirstIs
<1>4. QED
  BY <1>2, <1>3 DEF T!Position

(* A session begins at a block, or beyond the end.                         *)
LEMMA StartTypes ==
  ASSUME StepsInv, StepsTyped, TextInv, NEW sel, T!Start(sel) PROVE StepsTyped'
<1>1. PICK plan : plan = T!Plan(x2, x1)
  OBVIOUS
<1>2. PICK from : from = T!Resumable(plan)
  OBVIOUS
<1>3. PICK first : first = IF from = {} THEN 1 ELSE CHOOSE k \in from : TRUE
  OBVIOUS
<1>4. PICK cs : cs = IF from = {} THEN {T!Fresh(plan)}
                     ELSE {[c EXCEPT !.next = first, !.step = T!IdAt(plan, first)] : c \in x3}
  OBVIOUS
<1>5. /\ x3' = x3 /\ x5' = x5
      /\ x4' = [T!Idle EXCEPT !.on = TRUE, !.plan = plan, !.sel = sel, !.resumed = from # {},
                              !.from = first, !.ckpt = cs]
  BY <1>1, <1>2, <1>3, <1>4, Zenon DEF T!Start
<1>6. x4'.on = TRUE /\ x4'.plan = plan /\ x4'.from = first /\ x4'.ckpt = cs /\ x4'.at = 1
  BY <1>5, IdleIs
<1>7. Sequence(plan) /\ Len(plan) \in Nat
  BY <1>1, PlanIs, Lengths
<1>8. \A k \in from : k \in Nat \ {0}
  <2>1. SUFFICES ASSUME NEW k \in from PROVE k \in Nat \ {0}
    OBVIOUS
  <2>2. PICK c \in x3 : k \in T!Position(c, plan)
    BY <1>2 DEF T!Resumable
  <2>3. QED
    BY <1>7, <2>2, PositionIs DEF StepsTyped
<1>9. first \in Nat \ {0}
  BY <1>3, <1>8
<1>10. \A d \in cs : Numbered(d)
  <2>1. CASE from = {}
    <3>1. \A d \in cs : d.next = 1 /\ d.total = Len(plan) /\ d.skipped = {}
      BY <1>4, <2>1 DEF T!Fresh
    <3>2. QED
      BY <1>7, <3>1 DEF Numbered
  <2>2. CASE from # {}
    <3>1. SUFFICES ASSUME NEW d \in cs PROVE Numbered(d)
      OBVIOUS
    <3>2. PICK c \in x3 : d = [c EXCEPT !.next = first, !.step = T!IdAt(plan, first)]
      BY <1>4, <2>2
    <3>3. IsCheckpoint(c) /\ Numbered(c)
      BY DEF StepsInv, StepsShape, StepsTyped
    <3>4. d.next = first /\ d.total = c.total /\ d.skipped = c.skipped
      BY <3>2, <3>3 DEF IsCheckpoint
    <3>5. QED
      BY <1>9, <3>3, <3>4 DEF Numbered
  <2>3. QED
    BY <2>1, <2>2
<1>11. Sequence(x4'.plan) /\ x4'.at \in 1..(Len(x4'.plan) + 1) /\ x4'.from \in Nat \ {0}
  BY <1>6, <1>7, <1>9
<1>12. x5' \in 0..MaxEdits
  BY <1>5 DEF StepsTyped
<1>13. \A c \in x3' \cup x4'.ckpt : Numbered(c)
  BY <1>5, <1>6, <1>10 DEF StepsTyped
<1>14. QED
  BY <1>6, <1>11, <1>12, <1>13, Zenon DEF StepsTyped

(* A block that is passed.                                                 *)
LEMMA SaveTypes ==
  ASSUME StepsInv, StepsTyped, NEW c, IsCheckpoint(c), Numbered(c), NEW fate, T!Live, T!Save(c, fate)
  PROVE  StepsTyped'
<1>1. PICK saved : saved = [c EXCEPT !.step = T!IdAt(x4.plan, c.next)]
  OBVIOUS
<1>2. PICK did : did = Append(x4.did, [k |-> x4.at, fate |-> fate, policy |-> T!Policy(x4.plan, x1, x4.at)])
  OBVIOUS
<1>3. x3' = {saved} /\ x5' = x5 /\ x4' = [x4 EXCEPT !.at = @ + 1, !.ckpt = {saved}, !.did = did]
  BY <1>1, <1>2, Zenon DEF T!Save
<1>4. saved.next = c.next /\ saved.total = c.total /\ saved.skipped = c.skipped
  BY <1>1 DEF IsCheckpoint
<1>5. Numbered(saved)
  BY <1>4 DEF Numbered
<1>6. /\ x4'.on = x4.on /\ x4'.plan = x4.plan /\ x4'.from = x4.from
      /\ x4'.at = x4.at + 1 /\ x4'.ckpt = {saved}
  BY <1>3, IdleIs DEF StepsInv, StepsShape
<1>7. x4.on /\ x4.at <= Len(x4.plan) /\ Len(x4.plan) \in Nat
  BY Lengths DEF T!Live, StepsTyped
<1>8. x4'.at \in 1..(Len(x4'.plan) + 1)
  BY <1>6, <1>7 DEF StepsTyped
<1>9. Sequence(x4'.plan) /\ x4'.from \in Nat \ {0}
  BY <1>6, Zenon DEF StepsTyped
<1>10. x5' \in 0..MaxEdits
  BY <1>3 DEF StepsTyped
<1>11. \A d \in x3' \cup x4'.ckpt : Numbered(d)
  BY <1>3, <1>5, <1>6
<1>12. QED
  BY <1>6, <1>7, <1>8, <1>9, <1>10, <1>11, Zenon DEF StepsTyped

LEMMA RunTypes == ASSUME StepsInv, StepsTyped, T!Run PROVE StepsTyped'
<1>1. PICK c \in x4.ckpt : T!Save([c EXCEPT !.next = x4.at + 1], "run")
  BY DEF T!Run
<1>2. IsCheckpoint(c) /\ Numbered(c)
  BY <1>1 DEF T!Run, T!Live, StepsInv, StepsShape, StepsTyped
<1>3. PICK d : d = [c EXCEPT !.next = x4.at + 1]
  OBVIOUS
<1>4. IsCheckpoint(d) /\ d.next = x4.at + 1 /\ d.total = c.total /\ d.skipped = c.skipped
  BY <1>2, <1>3 DEF IsCheckpoint
<1>5. x4.at + 1 \in Nat \ {0}
  BY Lengths DEF StepsTyped
<1>6. Numbered(d)
  BY <1>2, <1>4, <1>5 DEF Numbered
<1>7. T!Live /\ T!Save(d, "run")
  BY <1>1, <1>3 DEF T!Run
<1>8. QED
  BY <1>4, <1>6, <1>7, SaveTypes

LEMMA SkipTypes == ASSUME StepsInv, StepsTyped, NEW fate, T!Live, T!Skip(fate) PROVE StepsTyped'
<1>1. \E c \in x4.ckpt : \E skipped :
        /\ skipped = c.skipped \cup {x4.at}
        /\ T!Save([c EXCEPT !.skipped = skipped,
                            !.next = T!Max({c.next} \cup {k + 1 : k \in skipped})], fate)
  BY DEF T!Skip
<1>2. PICK c \in x4.ckpt : \E skipped :
        /\ skipped = c.skipped \cup {x4.at}
        /\ T!Save([c EXCEPT !.skipped = skipped,
                            !.next = T!Max({c.next} \cup {k + 1 : k \in skipped})], fate)
  BY <1>1
<1>3. PICK skipped :
        /\ skipped = c.skipped \cup {x4.at}
        /\ T!Save([c EXCEPT !.skipped = skipped,
                            !.next = T!Max({c.next} \cup {k + 1 : k \in skipped})], fate)
  BY <1>2
<1>4. IsCheckpoint(c) /\ Numbered(c)
  BY <1>2 DEF T!Live, StepsInv, StepsShape, StepsTyped
<1>5. x4.at \in Nat \ {0}
  BY Lengths DEF StepsTyped
<1>6. PICK n \in Nat : \A k \in c.skipped : k <= n
  BY <1>4 DEF Numbered
<1>7. skipped \subseteq Nat \ {0} /\ n + x4.at \in Nat /\ \A k \in skipped : k <= n + x4.at
  BY <1>3, <1>4, <1>5, <1>6 DEF Numbered
<1>8. PICK S : S = {c.next} \cup {k + 1 : k \in skipped}
  OBVIOUS
<1>9. S \in SUBSET Nat /\ S # {} /\ 0 \notin S
  BY <1>4, <1>7, <1>8 DEF Numbered
<1>10. PICK m \in Nat : m = c.next + (n + x4.at) + 1
  BY <1>4, <1>7 DEF Numbered
<1>11. \A k \in S : k <= m
  BY <1>4, <1>7, <1>8, <1>10 DEF Numbered
<1>12. PICK next : next = T!Max(S)
  OBVIOUS
<1>13. next \in Nat \ {0}
  BY <1>9, <1>10, <1>11, <1>12, Greatest
<1>14. PICK d : d = [c EXCEPT !.skipped = skipped, !.next = next]
  OBVIOUS
<1>15. IsCheckpoint(d) /\ d.next = next /\ d.total = c.total /\ d.skipped = skipped
  BY <1>4, <1>14 DEF IsCheckpoint
<1>16. Numbered(d)
  BY <1>4, <1>7, <1>13, <1>15 DEF Numbered
<1>17. T!Save(d, fate)
  BY <1>3, <1>8, <1>12, <1>14
<1>18. QED
  BY <1>15, <1>16, <1>17, SaveTypes

(* A session that is over has no checkpoint in memory.                     *)
LEMMA OverTypes ==
  ASSUME StepsInv, StepsTyped, x4' = T!Idle, x5' = x5,
         x3' = x3 \/ (x4.on /\ x3' = {[c EXCEPT !.done = TRUE] : c \in x4.ckpt})
  PROVE  StepsTyped'
<1>1. /\ x4'.on = FALSE /\ x4'.ckpt = {} /\ x4'.plan = << >> /\ x4'.at = 1 /\ x4'.from = 1
  BY DEF T!Idle
<1>2. \A d \in x3' : Numbered(d)
  <2>1. CASE x3' = x3
    BY <2>1 DEF StepsTyped
  <2>2. CASE x4.on /\ x3' = {[c EXCEPT !.done = TRUE] : c \in x4.ckpt}
    <3>1. SUFFICES ASSUME NEW d \in x3' PROVE Numbered(d)
      OBVIOUS
    <3>2. PICK c \in x4.ckpt : d = [c EXCEPT !.done = TRUE]
      BY <2>2
    <3>3. IsCheckpoint(c) /\ Numbered(c)
      BY <2>2 DEF StepsInv, StepsShape, StepsTyped
    <3>4. d.next = c.next /\ d.total = c.total /\ d.skipped = c.skipped
      BY <3>2, <3>3 DEF IsCheckpoint
    <3>5. QED
      BY <3>3, <3>4 DEF Numbered
  <2>3. QED
    BY <2>1, <2>2
<1>3. x5' \in 0..MaxEdits
  BY DEF StepsTyped
<1>4. Sequence(x4'.plan) /\ Len(x4'.plan) = 0
  BY <1>1, EmptySequence
<1>5. x4'.at \in 1..(Len(x4'.plan) + 1) /\ x4'.from \in Nat \ {0}
  BY <1>1, <1>4
<1>6. QED
  BY <1>1, <1>2, <1>3, <1>4, <1>5 DEF StepsTyped

LEMMA StepsTypesKept == ASSUME StepsInv, StepsTyped, TextInv, T!StepsNext PROVE StepsTyped'
<1>1. CASE \E sel : T!Start(sel)
  BY <1>1, StartTypes
<1>2. CASE T!Replay
  <2>1. x3' = x3 /\ x5' = x5 /\ x4' = [x4 EXCEPT !.at = @ + 1] /\ x4.on /\ x4.at <= Len(x4.plan)
    BY <1>2 DEF T!Replay
  <2>2. /\ x4'.on = x4.on /\ x4'.plan = x4.plan /\ x4'.from = x4.from
        /\ x4'.at = x4.at + 1 /\ x4'.ckpt = x4.ckpt
    BY <2>1, IdleIs DEF StepsInv, StepsShape
  <2>3. x4'.at \in 1..(Len(x4'.plan) + 1)
    BY <2>1, <2>2, Lengths DEF StepsTyped
  <2>4. x5' \in 0..MaxEdits /\ Sequence(x4'.plan) /\ x4'.from \in Nat \ {0}
    BY <2>1, <2>2 DEF StepsTyped
  <2>5. \A c \in x3' \cup x4'.ckpt : Numbered(c)
    BY <2>1, <2>2 DEF StepsTyped
  <2>6. QED
    BY <2>1, <2>2, <2>3, <2>4, <2>5, Zenon DEF StepsTyped
<1>3. CASE T!Run
  BY <1>3, RunTypes
<1>4. CASE T!SkipUnselected \/ T!SkipNoRun \/ T!SkipConditional
  BY <1>4, SkipTypes DEF T!SkipUnselected, T!SkipNoRun, T!SkipConditional
<1>5. CASE T!Finish \/ T!Leave
  <2>1. CASE T!Finish
    BY <2>1, OverTypes DEF T!Finish
  <2>2. CASE T!Leave
    BY <2>2, OverTypes DEF T!Leave
  <2>3. QED
    BY <1>5, <2>1, <2>2
<1>6. CASE T!Edit
  <2>1. x3' = x3 /\ x4' = x4 /\ x5' = x5 + 1 /\ x5 < MaxEdits
    BY <1>6 DEF T!Edit
  <2>2. x5' \in 0..MaxEdits
    BY <2>1, FrontAssumption DEF StepsTyped, C!SandboxAssumption
  <2>3. QED
    BY <2>1, <2>2 DEF StepsTyped
<1>7. QED
  BY <1>1, <1>2, <1>3, <1>4, <1>5, <1>6, Zenon DEF T!StepsNext

LEMMA StepsTypesStart == ASSUME T!StepsInit PROVE StepsTyped
<1>1. x3 = {} /\ x4 = T!Idle /\ x5 = 0
  BY DEF T!StepsInit
<1>2. ~x4.on /\ x4.ckpt = {} /\ x4.plan = << >> /\ x4.at = 1 /\ x4.from = 1
  BY <1>1 DEF T!Idle
<1>3. Sequence(x4.plan) /\ Len(x4.plan) = 0
  BY <1>2, EmptySequence
<1>4. x5 \in 0..MaxEdits
  BY <1>1, FrontAssumption DEF C!SandboxAssumption
<1>5. x4.at \in 1..(Len(x4.plan) + 1) /\ x4.from \in Nat \ {0}
  BY <1>2, <1>3
<1>6. QED
  BY <1>1, <1>2, <1>3, <1>4, <1>5 DEF StepsTyped

LEMMA StepsTypesHold == ASSUME StepsInv, StepsTyped PROVE T!StepsTypeOK
<1>1. x3 = {} \/ \E c : x3 = {c}
  BY DEF StepsInv, StepsShape
<1>2. T!Cardinality(x3) <= 1
  <2>1. CASE x3 = {}
    <3>1. T!Cardinality(x3) = 0
      BY <2>1, FS_EmptySet, SameCardinality
    <3>2. QED
      BY <3>1
  <2>2. CASE \E c : x3 = {c}
    <3>1. T!Cardinality(x3) = 1
      BY <2>2, FS_Singleton, SameCardinality
    <3>2. QED
      BY <3>1
  <2>3. QED
    BY <1>1, <2>1, <2>2
<1>3. x4.on => \E c : x4.ckpt = {c}
  BY DEF StepsInv, StepsShape
<1>4. T!Cardinality(x4.ckpt) = (IF x4.on THEN 1 ELSE 0)
  <2>1. CASE x4.on
    BY <1>3, <2>1, FS_Singleton, SameCardinality
  <2>2. CASE ~x4.on
    BY <2>2, FS_EmptySet, SameCardinality DEF StepsTyped
  <2>3. QED
    BY <2>1, <2>2
<1>5. QED
  BY <1>2, <1>4 DEF T!StepsTypeOK, StepsTyped, Numbered

LEMMA StepsKeepTypes == FrontSpec => [](scenario = "steps" => T!StepsTypeOK)
<1> DEFINE I == scenario = "steps" => StepsInv
           L == scenario = "steps" => TextInv
           K == scenario = "steps" => StepsTyped
<1>1. FrontInit => K
  BY StepsTypesStart DEF FrontInit
<1>2. I /\ L /\ K /\ [FrontNext]_<<scenario, vars, xs>> => K'
  <2>1. ASSUME StepsInv, TextInv, StepsTyped, scenario = "steps", FrontNext PROVE StepsTyped'
    <3>1. T!StepsNext
      BY <2>1 DEF FrontNext
    <3>2. QED
      BY <2>1, <3>1, StepsTypesKept
  <2>2. ASSUME [FrontNext]_<<scenario, vars, xs>> PROVE scenario' = scenario
    BY <2>2 DEF FrontNext
  <2>3. ASSUME StepsTyped, UNCHANGED <<scenario, vars, xs>> PROVE StepsTyped'
    BY <2>3 DEF StepsTyped, Sequence, Numbered
  <2>4. QED
    BY <2>1, <2>2, <2>3
<1>3. I /\ K => (scenario = "steps" => T!StepsTypeOK)
  BY StepsTypesHold
<1>4. QED
  BY <1>1, <1>2, <1>3, StepsInvariant, TextHolds, PTL DEF FrontSpec
=============================================================================
