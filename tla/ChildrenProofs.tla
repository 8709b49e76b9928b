---------------------------- MODULE ChildrenProofs ----------------------------
\* The safety properties of wb's children, for every number of languages, requests,
\* blocks, lines and slices: proofs about MCChildren, which runs the interpreters
\* (Session), the one-shot processes (OneShot) and the browser sidecar (Sidecar).
\* Each of the three has an inductive invariant of its own (OInv, BInv, IInv), and
\* the composition, in which only one of them moves, has the three together.
EXTENDS MCChildren, TLAPS

-----------------------------------------------------------------------------
\* One-shot processes.

\* What a program printed is in the pipes or has been collected, and the pipes are
\* empty where their reader has seen the end.
Conserved ==
    \A s \in O!Outputs :
        /\ kept[s] + pipe[s] = program.printed[s]
        /\ program.printed[s] + program.left[s] <= MaxOutput
        /\ block.pc \in {"read", "done"} /\ s \notin block.open => pipe[s] = 0 /\ ~program.alive
        /\ block.pc \in {"idle", "resolve", "done"} => pipe[s] = 0 /\ s \notin block.open
        /\ block.pc = "resolve" => kept[s] = 0

Fed ==
    /\ program.alive => block.pc \in {"feed", "read"} /\ program.unread = pipe["stdin"] + block.unsent
    /\ block.pc = "resolve" => pipe["stdin"] = 0

OInv == O!OneShotTypeOK /\ Conserved /\ Fed

\* The bounds are numbers.
LEMMA OneShotNumbers ==
  Capacity \in Nat \ {0} /\ MaxScript \in Nat \ {0} /\ MaxOutput \in Nat /\ MaxBlocks \in Nat
BY ChildrenAssumption DEF O!OneShotAssumption

\* OInv holds at first, is kept by every step, and says what AllOutput asks.
LEMMA OneShotInit == O!Init => OInv
<1> SUFFICES ASSUME O!Init PROVE OInv
  OBVIOUS
<1> USE OneShotNumbers
<1>1. kept \in [O!Outputs -> 0..MaxOutput] /\ (\A s \in O!Outputs : kept[s] = 0)
  BY DEF O!Init, O!Nothing
<1>2. pipe \in [O!Outputs \cup {"stdin"} -> 0..Capacity] /\ (\A s \in O!Outputs : pipe[s] = 0)
  BY DEF O!Init
<1>3. /\ program \in O!Program /\ ~program.alive
      /\ \A s \in O!Outputs : program.printed[s] = 0 /\ program.left[s] = 0
  BY DEF O!Init, O!NoProgram, O!Nothing, O!Program
<1>4. block \in O!Block /\ block.open = {} /\ block.pc = "idle"
  BY DEF O!Init, O!Block, O!Ways, O!Outputs
<1>5. blocks \in 0..MaxBlocks
  BY DEF O!Init
<1>6. O!OneShotTypeOK
  BY <1>1, <1>2, <1>3, <1>4, <1>5 DEF O!OneShotTypeOK
<1>7. Conserved
  BY <1>1, <1>2, <1>3, <1>4 DEF Conserved
<1>8. Fed
  BY <1>3, <1>4 DEF Fed
<1> QED BY <1>6, <1>7, <1>8 DEF OInv

\* What the types say, field by field.
LEMMA OneShotTypes ==
  ASSUME OInv
  PROVE  /\ block.pc \in {"idle", "resolve", "feed", "read", "done"}
         /\ block.way \in O!Ways /\ block.unsent \in 0..MaxScript /\ block.fits \in BOOLEAN
         /\ block.open \subseteq O!Outputs /\ block.code \in {-1, 0, 1, 2, 127}
         /\ program.alive \in BOOLEAN /\ program.unread \in 0..MaxScript
         /\ program.left \in [O!Outputs -> 0..MaxOutput]
         /\ program.printed \in [O!Outputs -> 0..MaxOutput]
         /\ program.code \in {-1, 0, 1}
         /\ pipe \in [O!Outputs \cup {"stdin"} -> 0..Capacity] /\ pipe["stdin"] \in 0..Capacity
         /\ \A s \in O!Outputs : pipe[s] \in 0..Capacity
         /\ kept \in [O!Outputs -> 0..MaxOutput] /\ blocks \in 0..MaxBlocks
BY DEF OInv, O!OneShotTypeOK, O!Block, O!Program

\* A block is given fields.
LEMMA BlockFields ==
  ASSUME block \in O!Block,
         NEW pc \in {"idle", "resolve", "feed", "read", "done"}, NEW open \in SUBSET O!Outputs,
         NEW unsent \in 0..MaxScript, NEW code \in {-1, 0, 1, 2, 127}
  PROVE  /\ [block EXCEPT !.pc = pc, !.open = open] \in O!Block
         /\ [block EXCEPT !.pc = pc, !.code = code] \in O!Block
         /\ [block EXCEPT !.unsent = unsent] \in O!Block
         /\ [block EXCEPT !.open = open] \in O!Block
BY DEF O!Block

\* The steps that change nothing but the block.
LEMMA BlockStep ==
  ASSUME OInv, UNCHANGED <<pipe, program, kept, blocks>>, block' \in O!Block,
         block'.unsent = block.unsent,
         block'.pc \notin {"idle", "resolve"},
         block'.pc = "done" => \A s \in O!Outputs : pipe[s] = 0 /\ s \notin block'.open,
         block'.pc \in {"read", "done"} =>
           \A s \in O!Outputs : s \notin block'.open => pipe[s] = 0 /\ ~program.alive,
         program.alive => block'.pc \in {"feed", "read"}
  PROVE  OInv'
<1>1. O!OneShotTypeOK'
  BY DEF OInv, O!OneShotTypeOK
<1>2. Conserved'
  BY DEF OInv, Conserved
<1>3. Fed'
  BY DEF OInv, Fed
<1> QED BY <1>1, <1>2, <1>3 DEF OInv

\* A block starts.
LEMMA BeginOInv ==
  ASSUME OInv, NEW way \in O!Ways, NEW size \in 1..MaxScript, O!Begin(way, size)
  PROVE  OInv'
<1> USE OneShotNumbers
<1>1. block' \in O!Block /\ block'.pc = "resolve" /\ block'.open = {}
  BY DEF O!Begin, O!Block, O!Outputs
<1>2. blocks' \in 0..MaxBlocks
  BY OneShotTypes DEF O!Begin
<1>3. kept' \in [O!Outputs -> 0..MaxOutput] /\ \A s \in O!Outputs : kept'[s] = 0
  BY DEF O!Begin, O!Nothing
<1>4. /\ pipe' \in [O!Outputs \cup {"stdin"} -> 0..Capacity]
      /\ pipe'["stdin"] = 0 /\ \A s \in O!Outputs : pipe'[s] = 0
  <2>1. DOMAIN pipe = O!Outputs \cup {"stdin"}
    BY OneShotTypes
  <2> QED BY <2>1 DEF O!Begin
<1>5. /\ program' \in O!Program /\ ~program'.alive
      /\ \A s \in O!Outputs : program'.printed[s] = 0 /\ program'.left[s] = 0
  BY DEF O!Begin, O!NoProgram, O!Nothing, O!Program
<1>6. O!OneShotTypeOK'
  BY <1>1, <1>2, <1>3, <1>4, <1>5 DEF O!OneShotTypeOK
<1>7. Conserved'
  BY <1>1, <1>3, <1>4, <1>5 DEF Conserved
<1>8. Fed'
  BY <1>4, <1>5 DEF Fed
<1> QED BY <1>6, <1>7, <1>8 DEF OInv

\* Its runtime is unknown or missing.
LEMMA ResolveOInv == OInv /\ (O!Invalid \/ O!NotFound) => OInv'
<1> SUFFICES ASSUME OInv, O!Invalid \/ O!NotFound PROVE OInv'
  OBVIOUS
<1>1. PICK code \in {-1, 0, 1, 2, 127} : block' = [block EXCEPT !.pc = "done", !.code = code]
  <2>1. O!Unlaunched[block.way] \in {1, 2, 127}
    BY OneShotTypes DEF O!Unlaunched, O!Ways
  <2>2. \/ block' = [block EXCEPT !.pc = "done", !.code = 2]
        \/ block' = [block EXCEPT !.pc = "done", !.code = O!Unlaunched[block.way]]
    BY DEF O!Invalid, O!NotFound
  <2> HIDE DEF O!Unlaunched
  <2> QED BY <2>1, <2>2
<1>2. block.pc = "resolve" /\ UNCHANGED <<pipe, program, kept, blocks>>
  BY DEF O!Invalid, O!NotFound
<1>3. block \in O!Block
  BY DEF OInv, O!OneShotTypeOK
<1>4. /\ block' \in O!Block /\ block'.unsent = block.unsent /\ block'.pc = "done"
      /\ block'.open = block.open
  BY <1>1, <1>3 DEF O!Block
<1>5. ~program.alive /\ \A s \in O!Outputs : pipe[s] = 0 /\ s \notin block.open
  BY <1>2 DEF OInv, Fed, Conserved
<1> QED BY <1>2, <1>4, <1>5, BlockStep

\* Its program starts.
LEMMA LaunchOInv == OInv /\ O!Launch => OInv'
<1> SUFFICES ASSUME OInv, O!Launch PROVE OInv'
  OBVIOUS
<1> USE OneShotNumbers
<1>1. PICK left \in [O!Outputs -> 0..MaxOutput], code \in {-1, 0, 1} :
        program' = [alive |-> TRUE, unread |-> block.unsent, left |-> left,
                    printed |-> O!Nothing, code |-> code]
  BY DEF O!Launch
<1>2. /\ program' \in O!Program /\ program'.left = left /\ program'.unread = block.unsent
      /\ \A s \in O!Outputs : program'.printed[s] = 0
  BY <1>1, OneShotTypes DEF O!Program, O!Nothing
<1>3. block \in O!Block
  BY DEF OInv, O!OneShotTypeOK
<1>4. /\ block' \in O!Block /\ block'.pc = "feed" /\ block'.unsent = block.unsent
  BY <1>3 DEF O!Launch, O!Block
<1>5. /\ block.pc = "resolve" /\ UNCHANGED <<pipe, kept, blocks>> /\ pipe["stdin"] = 0
      /\ \A s \in O!Outputs : pipe[s] = 0 /\ kept[s] = 0
  <2>1. block.pc = "resolve" /\ UNCHANGED <<pipe, kept, blocks>>
    BY DEF O!Launch
  <2> QED BY <2>1 DEF OInv, Fed, Conserved
<1>6. O!OneShotTypeOK'
  BY <1>2, <1>4, <1>5 DEF OInv, O!OneShotTypeOK
<1>7. Conserved'
  BY <1>2, <1>4, <1>5 DEF Conserved
<1>8. Fed'
  BY <1>2, <1>4, <1>5, OneShotTypes DEF Fed
<1> QED BY <1>6, <1>7, <1>8 DEF OInv

\* wb writes the source to the stdin of the program.
LEMMA FeedOInv == OInv /\ O!Feed => OInv'
<1> SUFFICES ASSUME OInv, O!Feed PROVE OInv'
  OBVIOUS
<1> USE OneShotNumbers
<1>1. block \in O!Block /\ block.pc = "feed" /\ UNCHANGED <<program, kept, blocks>> /\ block.unsent > 0
  BY DEF O!Feed, OInv, O!OneShotTypeOK
<1>2. CASE program.alive /\ pipe["stdin"] < Capacity /\ pipe' = [pipe EXCEPT !["stdin"] = @ + 1]
           /\ block' = [block EXCEPT !.unsent = @ - 1]
  <2>1. PICK n \in 0..MaxScript : n = block.unsent - 1
    BY <1>1, OneShotTypes
  <2>2. block' = [block EXCEPT !.unsent = n]
    BY <1>2, <2>1
  <2>3. /\ block' \in O!Block /\ block'.unsent = n /\ block'.pc = "feed" /\ block'.open = block.open
    BY <1>1, <2>2 DEF O!Block
  <2>4. PICK m \in 0..Capacity : m = pipe["stdin"] + 1
    BY <1>2, OneShotTypes
  <2>5. pipe' = [pipe EXCEPT !["stdin"] = m]
    BY <1>2, <2>4
  <2>6. /\ pipe' \in [O!Outputs \cup {"stdin"} -> 0..Capacity] /\ pipe'["stdin"] = m
        /\ \A s \in O!Outputs : pipe'[s] = pipe[s]
    BY <2>5, OneShotTypes DEF O!Outputs
  <2>7. O!OneShotTypeOK'
    BY <1>1, <2>3, <2>6 DEF OInv, O!OneShotTypeOK
  <2>8. Conserved'
    BY <1>1, <2>3, <2>6 DEF OInv, Conserved
  <2>9. Fed'
    <3>1. program.unread = pipe["stdin"] + block.unsent
      BY <1>2 DEF OInv, Fed
    <3>2. program.unread = m + n
      BY <2>1, <2>4, <3>1, OneShotTypes
    <3> QED BY <1>1, <2>3, <2>6, <3>2 DEF Fed
  <2> QED BY <2>7, <2>8, <2>9 DEF OInv
<1>3. CASE ~program.alive /\ block' = [block EXCEPT !.unsent = 0] /\ UNCHANGED pipe
  <2>3. /\ block' \in O!Block /\ block'.unsent = 0 /\ block'.pc = "feed" /\ block'.open = block.open
    BY <1>1, <1>3 DEF O!Block
  <2>7. O!OneShotTypeOK'
    BY <1>1, <1>3, <2>3 DEF OInv, O!OneShotTypeOK
  <2>8. Conserved'
    BY <1>1, <1>3, <2>3 DEF OInv, Conserved
  <2>9. Fed'
    BY <1>1, <1>3, <2>3 DEF Fed
  <2> QED BY <2>7, <2>8, <2>9 DEF OInv
<1> QED BY <1>2, <1>3 DEF O!Feed

\* wb starts the two readers, sees the end of a stream, and joins them.
LEMMA ReadingOInv ==
  ASSUME OInv
  PROVE  /\ O!StartReaders => OInv'
         /\ \A s \in O!Outputs : O!EndOfStream(s) => OInv'
         /\ O!Join => OInv'
<1> DEFINE e == [block EXCEPT !.pc = "read", !.open = O!Outputs]
           f(s) == [block EXCEPT !.open = block.open \ {s}]
<1>0. block \in O!Block
  BY DEF OInv, O!OneShotTypeOK
<1>1. ASSUME O!StartReaders PROVE OInv'
  <2>1. e \in O!Block /\ e.pc = "read" /\ e.open = O!Outputs /\ e.unsent = block.unsent
    BY <1>0 DEF O!Block
  <2>2. block' = e /\ UNCHANGED <<pipe, program, kept, blocks>>
    BY <1>1 DEF O!StartReaders
  <2> HIDE DEF e
  <2> QED BY <2>1, <2>2, BlockStep
<1>2. ASSUME NEW s \in O!Outputs, O!EndOfStream(s) PROVE OInv'
  <2>1. /\ f(s) \in O!Block /\ f(s).pc = block.pc /\ f(s).open = block.open \ {s}
        /\ f(s).unsent = block.unsent
    BY <1>0 DEF O!Block
  <2>2. /\ block' = f(s) /\ UNCHANGED <<pipe, program, kept, blocks>>
        /\ block.pc = "read" /\ pipe[s] = 0 /\ ~program.alive
    BY <1>2 DEF O!EndOfStream
  <2>3. \A t \in O!Outputs : t \notin block.open => pipe[t] = 0
    BY <2>2 DEF OInv, Conserved
  <2> HIDE DEF f
  <2> QED BY <2>1, <2>2, <2>3, BlockStep
<1>3. ASSUME O!Join PROVE OInv'
  <2>1. PICK code \in {-1, 0, 1} : code = O!ExitCode(block.way, program.code)
    BY OneShotTypes DEF O!ExitCode
  <2>2. /\ block' = [block EXCEPT !.pc = "done", !.code = code]
        /\ UNCHANGED <<pipe, program, kept, blocks>>
        /\ block.pc = "read" /\ block.open = {} /\ ~program.alive
    BY <1>3, <2>1 DEF O!Join
  <2>3. /\ block' \in O!Block /\ block'.pc = "done" /\ block'.open = {}
        /\ block'.unsent = block.unsent
    BY <1>0, <2>2 DEF O!Block
  <2>4. \A t \in O!Outputs : pipe[t] = 0
    BY <2>2 DEF OInv, Conserved
  <2> QED BY <2>2, <2>3, <2>4, BlockStep
<1> QED BY <1>1, <1>2, <1>3

\* A chunk goes from a stream's pipe to what is kept of it, or from the program
\* into the pipe.
LEMMA StreamOInv ==
  ASSUME OInv, NEW s \in O!Outputs, O!Collect(s) \/ O!PrintChunk(s)
  PROVE  OInv'
<1> USE OneShotNumbers
<1>0. s # "stdin" /\ DOMAIN pipe = O!Outputs \cup {"stdin"} /\ DOMAIN kept = O!Outputs
  BY OneShotTypes DEF O!Outputs
<1>T. /\ pipe[s] \in 0..Capacity /\ kept[s] \in 0..MaxOutput
      /\ program.printed[s] \in 0..MaxOutput /\ program.left[s] \in 0..MaxOutput
  BY OneShotTypes
<1>C. /\ kept[s] + pipe[s] = program.printed[s]
      /\ program.printed[s] + program.left[s] <= MaxOutput
  BY DEF OInv, Conserved
<1>1. CASE O!Collect(s)
  <2>1. /\ block.pc = "read" /\ pipe[s] > 0
        /\ pipe' = [pipe EXCEPT ![s] = @ - 1] /\ kept' = [kept EXCEPT ![s] = @ + 1]
        /\ UNCHANGED <<block, program, blocks>>
    BY <1>1 DEF O!Collect
  <2>2. PICK n \in 0..Capacity : n = pipe[s] - 1
    BY <1>T, <2>1
  <2>3. PICK m \in 0..MaxOutput : m = kept[s] + 1
    BY <1>T, <1>C, <2>1
  <2>4. n + m = program.printed[s]
    BY <1>T, <1>C, <2>2, <2>3
  <2>5. pipe' = [pipe EXCEPT ![s] = n] /\ kept' = [kept EXCEPT ![s] = m]
    BY <2>1, <2>2, <2>3
  <2>6. /\ pipe' \in [O!Outputs \cup {"stdin"} -> 0..Capacity] /\ pipe'["stdin"] = pipe["stdin"]
        /\ kept' \in [O!Outputs -> 0..MaxOutput]
        /\ \A t \in O!Outputs : IF t = s THEN pipe'[t] = n /\ kept'[t] = m
                                          ELSE pipe'[t] = pipe[t] /\ kept'[t] = kept[t]
    BY <1>0, <2>5, OneShotTypes
  <2>7. O!OneShotTypeOK'
    BY <2>1, <2>6 DEF OInv, O!OneShotTypeOK
  <2>8. Conserved'
    <3> SUFFICES ASSUME NEW t \in O!Outputs
                 PROVE  /\ kept'[t] + pipe'[t] = program.printed[t]
                        /\ program.printed[t] + program.left[t] <= MaxOutput
                        /\ t \notin block.open => pipe'[t] = 0 /\ ~program.alive
      BY <2>1 DEF Conserved
    <3>1. CASE t = s
      <4>1. s \in block.open
        BY <1>1 DEF O!Collect
      <4> QED BY <1>C, <2>3, <2>2, <2>4, <2>6, <3>1, <4>1
    <3>2. CASE t # s
      BY <2>1, <2>6, <3>2 DEF OInv, Conserved
    <3> QED BY <3>1, <3>2
  <2>9. Fed'
    BY <2>1, <2>6 DEF OInv, Fed
  <2> QED BY <2>7, <2>8, <2>9 DEF OInv
<1>2. CASE O!PrintChunk(s)
  <2>1. /\ program.alive /\ program.left[s] > 0 /\ pipe[s] < Capacity
        /\ pipe' = [pipe EXCEPT ![s] = @ + 1] /\ UNCHANGED <<block, kept, blocks>>
    BY <1>2 DEF O!PrintChunk
  <2>2. PICK n \in 0..Capacity : n = pipe[s] + 1
    BY <1>T, <2>1
  <2>3. PICK m \in 0..MaxOutput : m = program.left[s] - 1
    BY <1>T, <2>1
  <2>4. PICK k \in 0..MaxOutput : k = program.printed[s] + 1
    BY <1>T, <1>C, <2>1
  <2>5. kept[s] + n = k /\ k + m <= MaxOutput
    BY <1>T, <1>C, <2>2, <2>3, <2>4
  <2> DEFINE left == [program.left EXCEPT ![s] = m]
             printed == [program.printed EXCEPT ![s] = k]
  <2>6. /\ left \in [O!Outputs -> 0..MaxOutput] /\ printed \in [O!Outputs -> 0..MaxOutput]
        /\ \A t \in O!Outputs : IF t = s THEN left[t] = m /\ printed[t] = k
                                  ELSE left[t] = program.left[t] /\ printed[t] = program.printed[t]
    BY OneShotTypes
  <2>7. program' = [program EXCEPT !.left = left, !.printed = printed]
    <3>1. program' = [program EXCEPT !.left[s] = @ - 1, !.printed[s] = @ + 1]
      BY <1>2 DEF O!PrintChunk
    <3> QED BY <2>3, <2>4, <3>1, Zenon DEF left, printed
  <2> HIDE DEF left, printed
  <2>8. program \in O!Program
    BY DEF OInv, O!OneShotTypeOK
  <2>9. /\ program' \in O!Program /\ program'.left = left /\ program'.printed = printed
        /\ program'.alive = program.alive /\ program'.unread = program.unread
    BY <2>6, <2>7, <2>8 DEF O!Program
  <2>10. pipe' = [pipe EXCEPT ![s] = n]
    BY <2>1, <2>2
  <2>11. /\ pipe' \in [O!Outputs \cup {"stdin"} -> 0..Capacity] /\ pipe'["stdin"] = pipe["stdin"]
         /\ \A t \in O!Outputs : IF t = s THEN pipe'[t] = n ELSE pipe'[t] = pipe[t]
    BY <1>0, <2>10, OneShotTypes
  <2>12. O!OneShotTypeOK'
    BY <2>1, <2>9, <2>11 DEF OInv, O!OneShotTypeOK
  <2>13. block.pc \in {"feed", "read"} /\ (block.pc = "read" => block.open = O!Outputs)
    <3>1. block.pc \in {"feed", "read"}
      BY <2>1 DEF OInv, Fed
    <3>2. block.pc = "read" => \A t \in O!Outputs : t \in block.open
      BY <2>1 DEF OInv, Conserved
    <3>3. block.open \subseteq O!Outputs
      BY OneShotTypes
    <3> QED BY <3>1, <3>2, <3>3
  <2>14. Conserved'
    <3> SUFFICES ASSUME NEW t \in O!Outputs
                 PROVE  /\ kept[t] + pipe'[t] = program'.printed[t]
                        /\ program'.printed[t] + program'.left[t] <= MaxOutput
      BY <2>1, <2>13 DEF Conserved
    <3>1. CASE t = s
      BY <2>5, <2>6, <2>9, <2>11, <3>1
    <3>2. CASE t # s
      BY <2>6, <2>9, <2>11, <3>2 DEF OInv, Conserved
    <3> QED BY <3>1, <3>2
  <2>15. Fed'
    BY <2>1, <2>9, <2>11, <2>13 DEF OInv, Fed
  <2> QED BY <2>12, <2>14, <2>15 DEF OInv
<1> QED BY <1>1, <1>2

\* The program reads on, or ends.
LEMMA ProgramOInv == OInv /\ (O!Read \/ O!Stop) => OInv'
<1> SUFFICES ASSUME OInv, O!Read \/ O!Stop PROVE OInv'
  OBVIOUS
<1> USE OneShotNumbers
<1>0. program \in O!Program
  BY DEF OInv, O!OneShotTypeOK
<1>1. CASE O!Read
  <2>1. /\ program.alive /\ pipe["stdin"] > 0 /\ pipe' = [pipe EXCEPT !["stdin"] = @ - 1]
        /\ program' = [program EXCEPT !.unread = @ - 1] /\ UNCHANGED <<block, kept, blocks>>
    BY <1>1 DEF O!Read
  <2>2. program.unread = pipe["stdin"] + block.unsent
    BY <2>1 DEF OInv, Fed
  <2>3. PICK n \in 0..MaxScript : n = program.unread - 1
    BY <2>1, <2>2, OneShotTypes
  <2>4. PICK m \in 0..Capacity : m = pipe["stdin"] - 1
    BY <2>1, OneShotTypes
  <2>5. n = m + block.unsent
    BY <2>2, <2>3, <2>4, OneShotTypes
  <2>6. program' = [program EXCEPT !.unread = n] /\ pipe' = [pipe EXCEPT !["stdin"] = m]
    BY <2>1, <2>3, <2>4
  <2>7. /\ program' \in O!Program /\ program'.unread = n /\ program'.alive = program.alive
        /\ program'.left = program.left /\ program'.printed = program.printed
    BY <1>0, <2>6 DEF O!Program
  <2>8. /\ pipe' \in [O!Outputs \cup {"stdin"} -> 0..Capacity] /\ pipe'["stdin"] = m
        /\ \A s \in O!Outputs : pipe'[s] = pipe[s]
    BY <2>6, OneShotTypes DEF O!Outputs
  <2>9. O!OneShotTypeOK'
    BY <2>1, <2>7, <2>8 DEF OInv, O!OneShotTypeOK
  <2>10. Conserved'
    BY <2>1, <2>7, <2>8 DEF OInv, Conserved
  <2>11. Fed'
    BY <2>1, <2>5, <2>7, <2>8 DEF OInv, Fed
  <2> QED BY <2>9, <2>10, <2>11 DEF OInv
<1>2. CASE O!Stop
  <2>1. program' = [program EXCEPT !.alive = FALSE] /\ UNCHANGED <<block, pipe, kept, blocks>>
    BY <1>2 DEF O!Stop
  <2>2. /\ program' \in O!Program /\ program'.left = program.left
        /\ program'.printed = program.printed
    BY <1>0, <2>1 DEF O!Program
  <2>3. ~program'.alive
    BY <1>0, <2>1, Zenon DEF O!Program
  <2>4. program.alive => block.pc \in {"feed", "read"}
    BY DEF OInv, Fed
  <2>9. O!OneShotTypeOK'
    BY <2>1, <2>2 DEF OInv, O!OneShotTypeOK
  <2>10. Conserved'
    BY <2>1, <2>2, <2>3 DEF OInv, Conserved
  <2>11. Fed'
    BY <2>1, <2>3 DEF OInv, Fed
  <2> QED BY <2>9, <2>10, <2>11 DEF OInv
<1> QED BY <1>1, <1>2

\* Every step.
LEMMA StepOInv == OInv /\ O!Next => OInv'
BY BeginOInv, ResolveOInv, LaunchOInv, FeedOInv, ReadingOInv, StreamOInv, ProgramOInv DEF O!Next

\* A step of another part.
LEMMA KeptOInv == OInv /\ UNCHANGED oneShotVars => OInv'
BY DEF oneShotVars, OInv, O!OneShotTypeOK, Conserved, Fed

\* The output of a block that is done is what its program printed.
LEMMA WholeOutput == OInv => AllOutput
<1> SUFFICES ASSUME OInv, block.pc = "done" PROVE kept = program.printed
  BY DEF AllOutput, O!AllOutput
<1>1. \A s \in O!Outputs : kept[s] = program.printed[s]
  BY OneShotTypes DEF OInv, Conserved
<1> QED BY <1>1, OneShotTypes

-----------------------------------------------------------------------------
\* The browser sidecar.

Places(q, types) == {i \in DOMAIN q : q[i].type \in types}

Ordered == Places(sidecar.inbox, {"slice"})
Answered == Places(sidecar.outbox, B!Terminal)

OfSlice == wb.pc \in {"hello", "write", "recv", "suspend", "pausing", "result"}
           \/ (wb.pc = "drop" /\ wb.then \in {"result", "pausing"})

InSlice == OfSlice => wb.slice \in B!Numbers /\ wb.restore = 0

Holding ==
    /\ wb.pc \in {"write", "recv"} => wb.held
    /\ wb.pc \in {"off", "hello", "pausing", "drop"} => ~wb.held
    /\ wb.pc \in {"off", "next", "pausing", "result"} /\ ~wb.held => ~sidecar.alive

\* Nothing of a slice is left in the pipes or in the sidecar's hands.
Quiet == Ordered = {} /\ sidecar.running = 0 /\ Answered = {}

\* One slice is out, this one, in one place.
OneOut ==
    /\ \A i \in Ordered : sidecar.inbox[i].of = wb.slice
    /\ sidecar.running \in {0, wb.slice}
    /\ \A i \in Answered : sidecar.outbox[i].of = wb.slice
    /\ \A i, j \in Ordered : i = j
    /\ \A i, j \in Answered : i = j
    /\ Ordered # {} => sidecar.running = 0 /\ Answered = {}
    /\ sidecar.running # 0 => Answered = {}

Tracked ==
    /\ wb.pc = "hello" => Quiet
    /\ wb.held /\ ~wb.timedout => IF wb.pc = "recv" THEN OneOut ELSE Quiet
    /\ ~wb.timedout /\ (wb.pc \in {"result", "suspend"} \/ (wb.pc = "drop" /\ wb.then = "result")) =>
         wb.by \in {0, wb.slice}

Serving == wb.pc = "hello" \/ wb.held

Leaving == wb.pc \in {"suspend", "pausing"} \/ (wb.pc = "drop" /\ wb.then = "pausing")

SuspendFirst ==
    \E i \in Places(sidecar.inbox, {"suspend"}) :
        \A j \in Places(sidecar.inbox, {"shutdown"}) : i < j

Opened == sidecar.running # 0 \/ Answered # {} => browser = "open"

BrowserInv ==
    /\ Serving => Places(sidecar.inbox, {"suspend", "shutdown"}) = {} /\ Opened
    /\ Leaving => browser = "open" /\ (~wb.held /\ sidecar.alive => SuspendFirst)
    /\ wb.exit = "paused" => wb.pc = "off" /\ browser = "open"

Paused ==
    /\ ~wb.named => disk.pending = 0
    /\ wb.pc = "next" => ~wb.taken
    /\ ~disk.left /\ wb.pc # "off" /\ wb.restore # 0 => wb.restore = wb.slice
    /\ ~disk.left /\ disk.pending # 0 =>
         /\ disk.next = disk.pending
         /\ wb.pc # "off" => wb.slice = disk.pending /\ (wb.restore = disk.pending \/ wb.taken)

BInv ==
    /\ B!SidecarTypeOK /\ InSlice /\ Holding /\ Tracked /\ BrowserInv /\ Paused
    /\ B!RestoresPausedSlice

\* The bounds are numbers.
LEMMA SidecarNumbers ==
  Slices \in Nat \ {0} /\ MaxSessions \in Nat \ {0} /\ MaxEvents \in Nat \ {0}
BY ChildrenAssumption DEF B!SidecarAssumption

\* The fields of the state.
LEMMA SidecarTypes ==
  ASSUME B!SidecarTypeOK
  PROVE  /\ wb \in B!Wb /\ sidecar \in B!Process /\ disk \in B!Disk
         /\ wb.pc \in {"off", "next", "hello", "write", "recv", "suspend", "pausing", "drop", "result"}
         /\ wb.slice \in 1..Slices + 1 /\ wb.held \in BOOLEAN /\ wb.restore \in 0..Slices
         /\ wb.taken \in BOOLEAN /\ wb.timedout \in BOOLEAN /\ wb.code \in {-1, 0, 1, 127}
         /\ wb.by \in 0..Slices /\ wb.then \in {"result", "pausing", "ok", "failed"}
         /\ wb.session \in 0..MaxSessions /\ wb.failed \in BOOLEAN /\ wb.bail \in BOOLEAN
         /\ wb.named \in BOOLEAN /\ wb.exit \in {"none", "ok", "failed", "paused", "refused"}
         /\ disk.next \in 1..Slices + 1 /\ disk.pending \in 0..Slices /\ disk.left \in BOOLEAN
         /\ sidecar.alive \in BOOLEAN /\ sidecar.running \in 0..Slices
         /\ sidecar.inbox \in Seq(B!Command) /\ sidecar.outbox \in Seq(B!Event)
         /\ browser \in {"none", "open", "closed"}
         /\ restored \subseteq [from : B!Numbers, to : B!Numbers, left : BOOLEAN]
BY DEF B!SidecarTypeOK, B!Wb, B!Process, B!Disk

\* Queues: what is put at the end, and what is taken from the front.
LEMMA Appended ==
  ASSUME NEW S, NEW q \in Seq(S), NEW x \in S, NEW types
  PROVE  /\ Append(q, x) \in Seq(S)
         /\ Places(Append(q, x), types) =
              Places(q, types) \union (IF x.type \in types THEN {Len(q) + 1} ELSE {})
         /\ Append(q, x)[Len(q) + 1] = x
         /\ Len(q) + 1 \notin DOMAIN q
         /\ \A i \in DOMAIN q : Append(q, x)[i] = q[i] /\ i < Len(q) + 1
BY DEF Places

\* Taking the first message of a queue moves the places of the others by one.
LEMMA Taken ==
  ASSUME NEW S, NEW q \in Seq(S), q # <<>>, NEW types
  PROVE  /\ Tail(q) \in Seq(S) /\ 1 \in DOMAIN q /\ Head(q) = q[1] /\ q[1] \in S
         /\ \A i \in Places(Tail(q), types) :
              i \in Nat /\ i + 1 \in Places(q, types) /\ i + 1 # 1 /\ Tail(q)[i] = q[i + 1]
         /\ \A i \in Places(q, types) : i \in Nat /\ (i = 1 \/ i - 1 \in Places(Tail(q), types))
         /\ Places(q, types) = {} => Places(Tail(q), types) = {}
         /\ 1 \in Places(q, types) <=> q[1].type \in types
<1>1. Len(q) \in Nat \ {0} /\ DOMAIN q = 1..Len(q)
  OBVIOUS
<1>2. /\ Tail(q) \in Seq(S) /\ Len(Tail(q)) = Len(q) - 1 /\ DOMAIN Tail(q) = 1..(Len(q) - 1)
      /\ \A i \in 1..(Len(q) - 1) : Tail(q)[i] = q[i + 1]
  OBVIOUS
<1>3. 1 \in DOMAIN q /\ Head(q) = q[1] /\ q[1] \in S
  BY <1>1
<1>4. \A i \in Places(Tail(q), types) :
        i \in Nat /\ i + 1 \in Places(q, types) /\ i + 1 # 1 /\ Tail(q)[i] = q[i + 1]
  BY <1>1, <1>2 DEF Places
<1>5. \A i \in Places(q, types) : i \in Nat /\ (i = 1 \/ i - 1 \in Places(Tail(q), types))
  <2> SUFFICES ASSUME NEW i \in Places(q, types), i # 1 PROVE i - 1 \in Places(Tail(q), types)
    BY <1>1 DEF Places
  <2>1. i \in 1..Len(q) /\ i - 1 \in 1..(Len(q) - 1) /\ q[i].type \in types
    BY <1>1 DEF Places
  <2>2. Tail(q)[i - 1] = q[(i - 1) + 1] /\ (i - 1) + 1 = i
    BY <1>2, <2>1
  <2> QED BY <1>2, <2>1, <2>2 DEF Places
<1>6. Places(q, types) = {} => Places(Tail(q), types) = {}
  BY <1>4
<1>7. 1 \in Places(q, types) <=> q[1].type \in types
  BY <1>3 DEF Places
<1> QED BY <1>2, <1>3, <1>4, <1>5, <1>6, <1>7

\* A queue of one message.
LEMMA Single ==
  ASSUME NEW S, NEW x \in S
  PROVE  <<x>> \in Seq(S)
OBVIOUS

\* BInv holds at first.  After it, one lemma per step: each keeps BInv.
LEMMA SidecarInit == B!Init => BInv
<1> SUFFICES ASSUME B!Init PROVE BInv
  OBVIOUS
<1> USE SidecarNumbers
<1>1. /\ wb \in B!Wb /\ wb.pc = "off" /\ wb.restore = 0 /\ wb.exit = "none"
  BY DEF B!Init, B!Wb
<1>2. ~wb.held
  <2>1. PICK bail \in BOOLEAN, named \in BOOLEAN :
          wb = [pc |-> "off", slice |-> 1, held |-> FALSE, restore |-> 0, taken |-> FALSE,
               timedout |-> FALSE, code |-> 0, by |-> 0, then |-> "result", failed |-> FALSE,
               session |-> 0, bail |-> bail, named |-> named, exit |-> "none"]
    BY Zenon DEF B!Init
  <2> QED BY <2>1, Zenon
<1>3. /\ sidecar \in B!Process /\ sidecar.running = 0 /\ sidecar.inbox = <<>> /\ sidecar.outbox = <<>>
  BY DEF B!Init, B!NoProcess, B!Process
<1>4. ~sidecar.alive
  BY Zenon DEF B!Init, B!NoProcess
<1>5. disk \in B!Disk /\ disk.pending = 0
  BY DEF B!Init, B!Disk
<1>6. browser = "none" /\ restored = {}
  BY DEF B!Init
<1>7. B!SidecarTypeOK
  BY <1>1, <1>3, <1>5, <1>6 DEF B!SidecarTypeOK
<1> QED BY <1>1, <1>2, <1>3, <1>4, <1>5, <1>6, <1>7
     DEF BInv, InSlice, OfSlice, Holding, Tracked, BrowserInv, Serving, Leaving, Paused, B!RestoresPausedSlice

\* A command goes to the end of the sidecar's queue.
LEMMA Commanded ==
  ASSUME B!SidecarTypeOK, NEW type \in {"hello", "slice", "suspend", "shutdown"}, NEW of \in 0..Slices,
         sidecar' = B!Send(type, of)
  PROVE  LET x == [type |-> type, of |-> of]
         IN  /\ sidecar' \in B!Process /\ sidecar'.running = sidecar.running
             /\ sidecar'.alive = sidecar.alive /\ sidecar'.outbox = sidecar.outbox
             /\ sidecar'.inbox = Append(sidecar.inbox, x)
             /\ x \in B!Command
<1> DEFINE x == [type |-> type, of |-> of]
           q == Append(sidecar.inbox, x)
<1>1. x \in B!Command
  BY DEF B!Command
<1>2. q \in Seq(B!Command)
  BY <1>1, SidecarTypes
<1>3. sidecar' = [sidecar EXCEPT !.inbox = q]
  BY DEF B!Send
<1> HIDE DEF q
<1>4. /\ sidecar' \in B!Process /\ sidecar'.running = sidecar.running
      /\ sidecar'.alive = sidecar.alive /\ sidecar'.outbox = sidecar.outbox
      /\ sidecar'.inbox = q
  <2>1. sidecar \in B!Process
    BY SidecarTypes
  <2> QED BY <1>2, <1>3, <2>1 DEF B!Process
<1> QED BY <1>1, <1>4 DEF q

\* A run starts: from the first slice, or where the last one paused.
LEMMA StartBInv ==
  ASSUME BInv, B!Start
  PROVE  BInv'
<1> USE SidecarNumbers
<1>g. wb.pc = "off" /\ wb.session < MaxSessions /\ UNCHANGED <<sidecar, browser, disk, restored>>
  <2>1. IF wb.named THEN wb.session < MaxSessions ELSE wb.session < 1
    BY DEF B!Start, B!StartAt, B!Startable
  <2>2. wb.session < MaxSessions
    BY <2>1, SidecarTypes DEF BInv
  <2> QED BY <2>2 DEF B!Start, B!Startable, B!Started
<1>k. wb \in B!Wb
  BY SidecarTypes DEF BInv
<1>vslice. PICK slice_ \in 1..Slices + 1 : slice_ = disk.next
  BY <1>g, SidecarTypes DEF BInv, B!Numbers
<1>vrestore. PICK restore_ \in 0..Slices : restore_ = disk.pending
  BY <1>g, SidecarTypes DEF BInv
<1>vsession. PICK session_ \in 0..MaxSessions : session_ = wb.session + 1
  BY <1>g, SidecarTypes DEF BInv
<1>e. wb' = [wb EXCEPT !.pc = "next", !.slice = slice_, !.restore = restore_, !.session = session_,
      !.taken = FALSE, !.timedout = FALSE, !.failed = FALSE, !.exit = "none"]
  BY <1>g, <1>vslice, <1>vrestore, <1>vsession DEF B!Start, B!Startable, B!Started
<1>dslice. slice_ \in 1..Slices + 1
  BY <1>vslice
<1>drestore. restore_ \in 0..Slices
  BY <1>vrestore
<1>dsession. session_ \in 0..MaxSessions
  BY <1>vsession
<1>w1. wb' \in B!Wb
  BY <1>e, <1>k, <1>dslice, <1>drestore, <1>dsession DEF B!Wb
<1>w2. wb'.pc = "next" /\ wb'.slice = slice_ /\ wb'.restore = restore_ /\ wb'.session = session_
       /\ wb'.exit = "none"
  BY <1>e, <1>k DEF B!Wb
<1>w3. wb'.held = wb.held /\ wb'.code = wb.code /\ wb'.by = wb.by /\ wb'.then = wb.then
       /\ wb'.bail = wb.bail /\ wb'.named = wb.named
  BY <1>e, <1>k DEF B!Wb
<1>w. /\ wb' \in B!Wb
      /\ wb'.pc = "next" /\ wb'.slice = slice_ /\ wb'.restore = restore_ /\ wb'.session = session_
         /\ wb'.exit = "none"
      /\ wb'.held = wb.held /\ wb'.code = wb.code /\ wb'.by = wb.by /\ wb'.then = wb.then
         /\ wb'.bail = wb.bail /\ wb'.named = wb.named
  BY <1>w1, <1>w3, <1>w2
<1>b. ~wb'.taken /\ ~wb'.timedout /\ ~wb'.failed
  BY <1>e, <1>k, Zenon DEF B!Wb
<1>t. B!SidecarTypeOK
  BY DEF BInv
<1>c0. B!SidecarTypeOK'
  BY <1>g, <1>w, <1>vslice, <1>vrestore, <1>vsession, <1>b, SidecarTypes, <1>t DEF BInv, B!SidecarTypeOK
<1>c1. InSlice'
  BY <1>g, <1>w, <1>vslice, <1>vrestore, <1>vsession, <1>b, SidecarTypes, <1>t
    DEF BInv, InSlice, OfSlice, B!Numbers
<1>c2. Holding'
  BY <1>g, <1>w, <1>vslice, <1>vrestore, <1>vsession, <1>b, SidecarTypes, <1>t DEF BInv, Holding
<1>c3. Tracked'
  <2>1. ~wb'.held /\ wb'.pc = "next"
    BY <1>g, <1>w DEF BInv, Holding
  <2> QED BY <2>1 DEF Tracked
<1>c4. BrowserInv'
  BY <1>g, <1>w, <1>vslice, <1>vrestore, <1>vsession, <1>b, SidecarTypes, <1>t
    DEF BInv, BrowserInv, Serving, Leaving, Opened, SuspendFirst, Ordered, Answered
<1>c5. Paused'
  BY <1>g, <1>w, <1>vslice, <1>vrestore, <1>vsession, <1>b, SidecarTypes, <1>t DEF BInv, Paused
<1>c6. B!RestoresPausedSlice'
  BY <1>g, <1>w, <1>vslice, <1>vrestore, <1>vsession, <1>b, SidecarTypes, <1>t DEF BInv, B!RestoresPausedSlice
<1> QED BY <1>c0, <1>c1, <1>c2, <1>c3, <1>c4, <1>c5, <1>c6 DEF BInv

\* A session goes on from a slice of its choice.
LEMMA StartAtBInv ==
  ASSUME BInv, NEW n \in B!Numbers, B!StartAt(n)
  PROVE  BInv'
<1> USE SidecarNumbers
<1>g. wb.pc = "off" /\ wb.session < MaxSessions /\ wb.exit = "paused" /\ UNCHANGED <<sidecar, browser,
      restored>>
  <2>1. IF wb.named THEN wb.session < MaxSessions ELSE wb.session < 1
    BY DEF B!Start, B!StartAt, B!Startable
  <2>2. wb.session < MaxSessions
    BY <2>1, SidecarTypes DEF BInv
  <2> QED BY <2>2 DEF B!StartAt, B!Startable, B!Started
<1>k. wb \in B!Wb
  BY SidecarTypes DEF BInv
<1>vslice. PICK slice_ \in 1..Slices + 1 : slice_ = n
  BY <1>g, SidecarTypes DEF BInv, B!Numbers
<1>vrestore. PICK restore_ \in 0..Slices : restore_ = 0
  BY <1>g, SidecarTypes DEF BInv
<1>vsession. PICK session_ \in 0..MaxSessions : session_ = wb.session + 1
  BY <1>g, SidecarTypes DEF BInv
<1>e. wb' = [wb EXCEPT !.pc = "next", !.slice = slice_, !.restore = restore_, !.session = session_,
      !.taken = FALSE, !.timedout = FALSE, !.failed = FALSE, !.exit = "none"]
  BY <1>g, <1>vslice, <1>vrestore, <1>vsession DEF B!StartAt, B!Startable, B!Started, B!Numbers
<1>dslice. slice_ \in 1..Slices + 1
  BY <1>vslice
<1>drestore. restore_ \in 0..Slices
  BY <1>vrestore
<1>dsession. session_ \in 0..MaxSessions
  BY <1>vsession
<1>w1. wb' \in B!Wb
  BY <1>e, <1>k, <1>dslice, <1>drestore, <1>dsession DEF B!Wb
<1>w2. wb'.pc = "next" /\ wb'.slice = slice_ /\ wb'.restore = restore_ /\ wb'.session = session_
       /\ wb'.exit = "none"
  BY <1>e, <1>k DEF B!Wb
<1>w3. wb'.held = wb.held /\ wb'.code = wb.code /\ wb'.by = wb.by /\ wb'.then = wb.then
       /\ wb'.bail = wb.bail /\ wb'.named = wb.named
  BY <1>e, <1>k DEF B!Wb
<1>w. /\ wb' \in B!Wb
      /\ wb'.pc = "next" /\ wb'.slice = slice_ /\ wb'.restore = restore_ /\ wb'.session = session_
         /\ wb'.exit = "none"
      /\ wb'.held = wb.held /\ wb'.code = wb.code /\ wb'.by = wb.by /\ wb'.then = wb.then
         /\ wb'.bail = wb.bail /\ wb'.named = wb.named
  BY <1>w1, <1>w3, <1>w2
<1>b. ~wb'.taken /\ ~wb'.timedout /\ ~wb'.failed
  BY <1>e, <1>k, Zenon DEF B!Wb
<1>dt. disk \in B!Disk
  BY SidecarTypes DEF BInv
<1>de. disk' = [disk EXCEPT !.next = n, !.left = TRUE]
  BY <1>g, <1>w, <1>vslice, <1>vrestore, <1>vsession, <1>b DEF B!StartAt, B!Startable, B!Started, B!Numbers
<1>dw. disk' \in B!Disk /\ disk'.next = n /\ disk'.pending = disk.pending
  BY <1>g, <1>w, <1>vslice, <1>vrestore, <1>vsession, <1>b, <1>de, <1>dt DEF B!Disk, B!Numbers
<1>db. disk'.left
  BY <1>de, <1>dt, Zenon DEF B!Disk
<1>t. B!SidecarTypeOK
  BY DEF BInv
<1>c0. B!SidecarTypeOK'
  BY <1>g, <1>w, <1>vslice, <1>vrestore, <1>vsession, <1>b, <1>dw, <1>db, SidecarTypes, <1>t
    DEF BInv, B!SidecarTypeOK
<1>c1. InSlice'
  BY <1>g, <1>w, <1>vslice, <1>vrestore, <1>vsession, <1>b, <1>dw, <1>db, SidecarTypes, <1>t
    DEF BInv, InSlice, OfSlice, B!Numbers
<1>c2. Holding'
  BY <1>g, <1>w, <1>vslice, <1>vrestore, <1>vsession, <1>b, <1>dw, <1>db, SidecarTypes, <1>t DEF BInv, Holding
<1>c3. Tracked'
  <2>1. ~wb'.held /\ wb'.pc = "next"
    BY <1>g, <1>w DEF BInv, Holding
  <2> QED BY <2>1 DEF Tracked
<1>c4. BrowserInv'
  BY <1>g, <1>w, <1>vslice, <1>vrestore, <1>vsession, <1>b, <1>dw, <1>db, SidecarTypes, <1>t
    DEF BInv, BrowserInv, Serving, Leaving, Opened, SuspendFirst, Ordered, Answered
<1>c5. Paused'
  BY <1>g, <1>w, <1>vslice, <1>vrestore, <1>vsession, <1>b, <1>dw, <1>db, SidecarTypes, <1>t DEF BInv, Paused
<1>c6. B!RestoresPausedSlice'
  BY <1>g, <1>w, <1>vslice, <1>vrestore, <1>vsession, <1>b, <1>dw, <1>db, SidecarTypes, <1>t
    DEF BInv, B!RestoresPausedSlice
<1> QED BY <1>c0, <1>c1, <1>c2, <1>c3, <1>c4, <1>c5, <1>c6 DEF BInv

\* A slice is skipped by its condition.
LEMMA SkipBInv ==
  ASSUME BInv, B!Skip
  PROVE  BInv'
<1> USE SidecarNumbers
<1>g. wb.pc = "next" /\ wb.slice \in 1..Slices /\ UNCHANGED <<sidecar, browser, restored>>
  BY DEF B!Skip, B!Numbers
<1>k. wb \in B!Wb
  BY SidecarTypes DEF BInv
<1>vslice. PICK slice_ \in 1..Slices + 1 : slice_ = wb.slice + 1
  BY <1>g, SidecarTypes DEF BInv, B!Numbers
<1>e. wb' = [wb EXCEPT !.slice = slice_]
  BY <1>g, <1>vslice DEF B!Skip, B!Numbers
<1>dslice. slice_ \in 1..Slices + 1
  BY <1>vslice
<1>w1. wb' \in B!Wb
  BY <1>e, <1>k, <1>dslice DEF B!Wb
<1>w2. wb'.slice = slice_
  BY <1>e, <1>k DEF B!Wb
<1>w3. wb'.pc = wb.pc /\ wb'.held = wb.held /\ wb'.restore = wb.restore /\ wb'.taken = wb.taken
       /\ wb'.timedout = wb.timedout /\ wb'.code = wb.code /\ wb'.by = wb.by /\ wb'.then = wb.then
       /\ wb'.session = wb.session /\ wb'.failed = wb.failed /\ wb'.bail = wb.bail /\ wb'.named = wb.named
       /\ wb'.exit = wb.exit
  BY <1>e, <1>k DEF B!Wb
<1>w. /\ wb' \in B!Wb
      /\ wb'.slice = slice_
      /\ wb'.pc = wb.pc /\ wb'.held = wb.held /\ wb'.restore = wb.restore /\ wb'.taken = wb.taken
         /\ wb'.timedout = wb.timedout /\ wb'.code = wb.code /\ wb'.by = wb.by /\ wb'.then = wb.then
         /\ wb'.session = wb.session /\ wb'.failed = wb.failed /\ wb'.bail = wb.bail /\ wb'.named = wb.named
         /\ wb'.exit = wb.exit
  BY <1>w1, <1>w3, <1>w2
<1>dt. disk \in B!Disk
  BY SidecarTypes DEF BInv
<1>de. disk' = [disk EXCEPT !.next = wb.slice + 1, !.left = TRUE] \/ disk' = [disk EXCEPT !.left = TRUE]
  BY DEF B!Skip, B!Advance
<1>dw. disk' \in B!Disk /\ disk'.pending = disk.pending
  BY <1>g, <1>w, <1>vslice, <1>de, <1>dt DEF B!Disk
<1>db. disk'.left
  BY <1>de, <1>dt, Zenon DEF B!Disk
<1>t. B!SidecarTypeOK
  BY DEF BInv
<1>c0. B!SidecarTypeOK'
  BY <1>g, <1>w, <1>vslice, <1>dw, <1>db, SidecarTypes, <1>t DEF BInv, B!SidecarTypeOK
<1>c1. InSlice'
  BY <1>g, <1>w, <1>vslice, <1>dw, <1>db, SidecarTypes, <1>t DEF BInv, InSlice, OfSlice, B!Numbers
<1>c2. Holding'
  BY <1>g, <1>w, <1>vslice, <1>dw, <1>db, SidecarTypes, <1>t DEF BInv, Holding
<1>c3. Tracked'
  BY <1>g, <1>w, <1>vslice, <1>dw, <1>db, SidecarTypes, <1>t DEF BInv, Tracked, OneOut, Quiet, Ordered, Answered
<1>c4. BrowserInv'
  BY <1>g, <1>w, <1>vslice, <1>dw, <1>db, SidecarTypes, <1>t
    DEF BInv, BrowserInv, Serving, Leaving, Opened, SuspendFirst, Ordered, Answered
<1>c5. Paused'
  BY <1>g, <1>w, <1>vslice, <1>dw, <1>db, SidecarTypes, <1>t DEF BInv, Paused
<1>c6. B!RestoresPausedSlice'
  BY <1>g, <1>w, <1>vslice, <1>dw, <1>db, SidecarTypes, <1>t DEF BInv, B!RestoresPausedSlice
<1> QED BY <1>c0, <1>c1, <1>c2, <1>c3, <1>c4, <1>c5, <1>c6 DEF BInv

\* The time for an answer is over.
LEMMA NoAnswerBInv ==
  ASSUME BInv, B!NoAnswer
  PROVE  BInv'
<1> USE SidecarNumbers
<1>g. wb.pc = "recv" /\ UNCHANGED <<sidecar, browser, disk, restored>>
  BY DEF B!NoAnswer, B!Result
<1>k. wb \in B!Wb
  BY SidecarTypes DEF BInv
<1>vcode. PICK code_ \in {-1, 0, 1, 127} : code_ = -1
  BY <1>g, SidecarTypes DEF BInv
<1>vby. PICK by_ \in 0..Slices : by_ = 0
  BY <1>g, SidecarTypes DEF BInv
<1>e. wb' = [wb EXCEPT !.pc = "result", !.code = code_, !.by = by_, !.timedout = TRUE]
  BY <1>g, <1>vcode, <1>vby DEF B!NoAnswer, B!Result
<1>dcode. code_ \in {-1, 0, 1, 127}
  BY <1>vcode
<1>dby. by_ \in 0..Slices
  BY <1>vby
<1>w1. wb' \in B!Wb
  BY <1>e, <1>k, <1>dcode, <1>dby DEF B!Wb
<1>w2. wb'.pc = "result" /\ wb'.code = code_ /\ wb'.by = by_
  BY <1>e, <1>k DEF B!Wb
<1>w3. wb'.slice = wb.slice /\ wb'.held = wb.held /\ wb'.restore = wb.restore /\ wb'.taken = wb.taken
       /\ wb'.then = wb.then /\ wb'.session = wb.session /\ wb'.failed = wb.failed /\ wb'.bail = wb.bail
       /\ wb'.named = wb.named /\ wb'.exit = wb.exit
  BY <1>e, <1>k DEF B!Wb
<1>w. /\ wb' \in B!Wb
      /\ wb'.pc = "result" /\ wb'.code = code_ /\ wb'.by = by_
      /\ wb'.slice = wb.slice /\ wb'.held = wb.held /\ wb'.restore = wb.restore /\ wb'.taken = wb.taken
         /\ wb'.then = wb.then /\ wb'.session = wb.session /\ wb'.failed = wb.failed /\ wb'.bail = wb.bail
         /\ wb'.named = wb.named /\ wb'.exit = wb.exit
  BY <1>w1, <1>w3, <1>w2
<1>b. wb'.timedout
  BY <1>e, <1>k, Zenon DEF B!Wb
<1>t. B!SidecarTypeOK
  BY DEF BInv
<1>c0. B!SidecarTypeOK'
  BY <1>g, <1>w, <1>vcode, <1>vby, <1>b, SidecarTypes, <1>t DEF BInv, B!SidecarTypeOK
<1>c1. InSlice'
  BY <1>g, <1>w, <1>vcode, <1>vby, <1>b, SidecarTypes, <1>t DEF BInv, InSlice, OfSlice, B!Numbers
<1>c2. Holding'
  BY <1>g, <1>w, <1>vcode, <1>vby, <1>b, SidecarTypes, <1>t DEF BInv, Holding
<1>c3. Tracked'
  BY <1>g, <1>w, <1>vcode, <1>vby, <1>b, SidecarTypes, <1>t DEF BInv, Tracked, OneOut, Quiet, Ordered, Answered
<1>c4. BrowserInv'
  BY <1>g, <1>w, <1>vcode, <1>vby, <1>b, SidecarTypes, <1>t DEF BInv, BrowserInv, Serving, Leaving, Opened,
    SuspendFirst, Ordered, Answered
<1>c5. Paused'
  BY <1>g, <1>w, <1>vcode, <1>vby, <1>b, SidecarTypes, <1>t DEF BInv, Paused
<1>c6. B!RestoresPausedSlice'
  BY <1>g, <1>w, <1>vcode, <1>vby, <1>b, SidecarTypes, <1>t DEF BInv, B!RestoresPausedSlice
<1> QED BY <1>c0, <1>c1, <1>c2, <1>c3, <1>c4, <1>c5, <1>c6 DEF BInv

\* The sidecar was told to suspend, and its handle is given up.
LEMMA SuspendedBInv ==
  ASSUME BInv, B!Suspended
  PROVE  BInv'
<1> USE SidecarNumbers
<1>g. wb.pc = "suspend" /\ ~wb.held /\ ~sidecar.alive /\ UNCHANGED <<sidecar, browser, disk, restored>>
  BY DEF B!Suspended
<1>k. wb \in B!Wb
  BY SidecarTypes DEF BInv
<1>e. wb' = [wb EXCEPT !.pc = "pausing"]
  BY <1>g DEF B!Suspended
<1>w1. wb' \in B!Wb
  BY <1>e, <1>k DEF B!Wb
<1>w2. wb'.pc = "pausing"
  BY <1>e, <1>k DEF B!Wb
<1>w3. wb'.slice = wb.slice /\ wb'.held = wb.held /\ wb'.restore = wb.restore /\ wb'.taken = wb.taken
       /\ wb'.timedout = wb.timedout /\ wb'.code = wb.code /\ wb'.by = wb.by /\ wb'.then = wb.then
       /\ wb'.session = wb.session /\ wb'.failed = wb.failed /\ wb'.bail = wb.bail /\ wb'.named = wb.named
       /\ wb'.exit = wb.exit
  BY <1>e, <1>k DEF B!Wb
<1>w. /\ wb' \in B!Wb
      /\ wb'.pc = "pausing"
      /\ wb'.slice = wb.slice /\ wb'.held = wb.held /\ wb'.restore = wb.restore /\ wb'.taken = wb.taken
         /\ wb'.timedout = wb.timedout /\ wb'.code = wb.code /\ wb'.by = wb.by /\ wb'.then = wb.then
         /\ wb'.session = wb.session /\ wb'.failed = wb.failed /\ wb'.bail = wb.bail /\ wb'.named = wb.named
         /\ wb'.exit = wb.exit
  BY <1>w1, <1>w3, <1>w2
<1>t. B!SidecarTypeOK
  BY DEF BInv
<1>c0. B!SidecarTypeOK'
  BY <1>g, <1>w, SidecarTypes, <1>t DEF BInv, B!SidecarTypeOK
<1>c1. InSlice'
  BY <1>g, <1>w, SidecarTypes, <1>t DEF BInv, InSlice, OfSlice, B!Numbers
<1>c2. Holding'
  BY <1>g, <1>w, SidecarTypes, <1>t DEF BInv, Holding
<1>c3. Tracked'
  BY <1>g, <1>w, SidecarTypes, <1>t DEF BInv, Tracked, OneOut, Quiet, Ordered, Answered
<1>c4. BrowserInv'
  BY <1>g, <1>w, SidecarTypes, <1>t DEF BInv, BrowserInv, Serving, Leaving, Opened, SuspendFirst, Ordered,
    Answered
<1>c5. Paused'
  BY <1>g, <1>w, SidecarTypes, <1>t DEF BInv, Paused
<1>c6. B!RestoresPausedSlice'
  BY <1>g, <1>w, SidecarTypes, <1>t DEF BInv, B!RestoresPausedSlice
<1> QED BY <1>c0, <1>c1, <1>c2, <1>c3, <1>c4, <1>c5, <1>c6 DEF BInv

\* There is no sidecar to start.
LEMMA UnpreparedBInv ==
  ASSUME BInv, B!Unprepared
  PROVE  BInv'
<1> USE SidecarNumbers
<1>g. wb.pc = "next" /\ wb.slice \in 1..Slices /\ UNCHANGED <<sidecar, browser, disk, restored>>
  BY DEF B!Unprepared, B!Take, B!Numbers
<1>k. wb \in B!Wb
  BY SidecarTypes DEF BInv
<1>vv. PICK code_ \in {1, 127} : wb' = [B!Take EXCEPT !.pc = "result", !.code = code_, !.by = 0]
  BY DEF B!Unprepared
<1>vrestore. PICK restore_ \in 0..Slices : restore_ = 0
  BY <1>g, SidecarTypes DEF BInv
<1>vtaken. PICK taken_ \in BOOLEAN : taken_ = (wb.restore # 0)
  OBVIOUS
<1>vcode. code_ \in {-1, 0, 1, 127}
  BY <1>vv
<1>vby. PICK by_ \in 0..Slices : by_ = 0
  BY <1>g, SidecarTypes DEF BInv
<1>e. wb' = [wb EXCEPT !.pc = "result", !.restore = restore_, !.taken = taken_, !.code = code_, !.by = by_]
  BY <1>g, <1>vv, <1>vrestore, <1>vtaken, <1>vcode, <1>vby DEF B!Unprepared, B!Take, B!Numbers
<1>drestore. restore_ \in 0..Slices
  BY <1>vrestore
<1>dtaken. taken_ \in BOOLEAN
  BY <1>vtaken
<1>dcode. code_ \in {-1, 0, 1, 127}
  BY <1>vcode
<1>dby. by_ \in 0..Slices
  BY <1>vby
<1>w1. wb' \in B!Wb
  BY <1>e, <1>k, <1>drestore, <1>dtaken, <1>dcode, <1>dby DEF B!Wb
<1>w2. wb'.pc = "result" /\ wb'.restore = restore_ /\ wb'.taken = taken_ /\ wb'.code = code_ /\ wb'.by = by_
  BY <1>e, <1>k DEF B!Wb
<1>w3. wb'.slice = wb.slice /\ wb'.held = wb.held /\ wb'.timedout = wb.timedout /\ wb'.then = wb.then
       /\ wb'.session = wb.session /\ wb'.failed = wb.failed /\ wb'.bail = wb.bail /\ wb'.named = wb.named
       /\ wb'.exit = wb.exit
  BY <1>e, <1>k DEF B!Wb
<1>w. /\ wb' \in B!Wb
      /\ wb'.pc = "result" /\ wb'.restore = restore_ /\ wb'.taken = taken_ /\ wb'.code = code_ /\ wb'.by = by_
      /\ wb'.slice = wb.slice /\ wb'.held = wb.held /\ wb'.timedout = wb.timedout /\ wb'.then = wb.then
         /\ wb'.session = wb.session /\ wb'.failed = wb.failed /\ wb'.bail = wb.bail /\ wb'.named = wb.named
         /\ wb'.exit = wb.exit
  BY <1>w1, <1>w3, <1>w2
<1>t. B!SidecarTypeOK
  BY DEF BInv
<1>c0. B!SidecarTypeOK'
  BY <1>g, <1>w, <1>vv, <1>vrestore, <1>vtaken, <1>vcode, <1>vby, SidecarTypes, <1>t DEF BInv, B!SidecarTypeOK
<1>c1. InSlice'
  BY <1>g, <1>w, <1>vv, <1>vrestore, <1>vtaken, <1>vcode, <1>vby, SidecarTypes, <1>t
    DEF BInv, InSlice, OfSlice, B!Numbers
<1>c2. Holding'
  BY <1>g, <1>w, <1>vv, <1>vrestore, <1>vtaken, <1>vcode, <1>vby, SidecarTypes, <1>t DEF BInv, Holding
<1>c3. Tracked'
  BY <1>g, <1>w, <1>vv, <1>vrestore, <1>vtaken, <1>vcode, <1>vby, SidecarTypes, <1>t
    DEF BInv, Tracked, OneOut, Quiet, Ordered, Answered
<1>c4. BrowserInv'
  BY <1>g, <1>w, <1>vv, <1>vrestore, <1>vtaken, <1>vcode, <1>vby, SidecarTypes, <1>t
    DEF BInv, BrowserInv, Serving, Leaving, Opened, SuspendFirst, Ordered, Answered
<1>c5. Paused'
  <2>1. wb.restore # 0 => taken_
    BY <1>vtaken
  <2>2. ~wb.taken
    BY <1>g DEF BInv, Paused
  <2>3. wb'.taken = taken_
    BY <1>w
  <2> QED BY <1>g, <1>w, <1>vrestore, <2>1, <2>2, <2>3, SidecarTypes, <1>t DEF BInv, Paused
<1>c6. B!RestoresPausedSlice'
  BY <1>g, <1>w, <1>vv, <1>vrestore, <1>vtaken, <1>vcode, <1>vby, SidecarTypes, <1>t
    DEF BInv, B!RestoresPausedSlice
<1> QED BY <1>c0, <1>c1, <1>c2, <1>c3, <1>c4, <1>c5, <1>c6 DEF BInv

\* The sidecar of an earlier slice is used again.
LEMMA ReuseBInv ==
  ASSUME BInv, B!Reuse
  PROVE  BInv'
<1> USE SidecarNumbers
<1>g. wb.pc = "next" /\ wb.slice \in 1..Slices /\ wb.held /\ UNCHANGED <<sidecar, browser, disk>>
      /\ restored' = B!Given
  BY DEF B!Reuse, B!Take, B!Numbers
<1>k. wb \in B!Wb
  BY SidecarTypes DEF BInv
<1>vrestore. PICK restore_ \in 0..Slices : restore_ = 0
  BY <1>g, SidecarTypes DEF BInv
<1>vtaken. PICK taken_ \in BOOLEAN : taken_ = (wb.restore # 0)
  OBVIOUS
<1>e. wb' = [wb EXCEPT !.pc = "write", !.restore = restore_, !.taken = taken_]
  BY <1>g, <1>vrestore, <1>vtaken DEF B!Reuse, B!Take, B!Numbers
<1>drestore. restore_ \in 0..Slices
  BY <1>vrestore
<1>dtaken. taken_ \in BOOLEAN
  BY <1>vtaken
<1>w1. wb' \in B!Wb
  BY <1>e, <1>k, <1>drestore, <1>dtaken DEF B!Wb
<1>w2. wb'.pc = "write" /\ wb'.restore = restore_ /\ wb'.taken = taken_
  BY <1>e, <1>k DEF B!Wb
<1>w3. wb'.slice = wb.slice /\ wb'.held = wb.held /\ wb'.timedout = wb.timedout /\ wb'.code = wb.code
       /\ wb'.by = wb.by /\ wb'.then = wb.then /\ wb'.session = wb.session /\ wb'.failed = wb.failed
       /\ wb'.bail = wb.bail /\ wb'.named = wb.named /\ wb'.exit = wb.exit
  BY <1>e, <1>k DEF B!Wb
<1>w. /\ wb' \in B!Wb
      /\ wb'.pc = "write" /\ wb'.restore = restore_ /\ wb'.taken = taken_
      /\ wb'.slice = wb.slice /\ wb'.held = wb.held /\ wb'.timedout = wb.timedout /\ wb'.code = wb.code
         /\ wb'.by = wb.by /\ wb'.then = wb.then /\ wb'.session = wb.session /\ wb'.failed = wb.failed
         /\ wb'.bail = wb.bail /\ wb'.named = wb.named /\ wb'.exit = wb.exit
  BY <1>w1, <1>w3, <1>w2
<1>t. B!SidecarTypeOK
  BY DEF BInv
<1>c0. B!SidecarTypeOK'
  <2> DEFINE r == [from |-> wb.restore, to |-> wb.slice, left |-> disk.left]
  <2>1. wb.restore # 0 => r \in [from : B!Numbers, to : B!Numbers, left : BOOLEAN]
    BY <1>g, <1>t, SidecarTypes DEF B!Numbers
  <2>2. restored' \subseteq restored \union {r} /\ (wb.restore = 0 => restored' = restored)
    BY <1>g DEF B!Given
  <2>3. restored' \subseteq [from : B!Numbers, to : B!Numbers, left : BOOLEAN]
    BY <1>t, <2>1, <2>2, SidecarTypes
  <2>4. sidecar' \in B!Process
    BY <1>g, SidecarTypes, <1>t
  <2> QED BY <1>g, <1>w, <1>t, <2>3, <2>4, SidecarTypes DEF B!SidecarTypeOK
<1>c1. InSlice'
  BY <1>g, <1>w, <1>vrestore, <1>vtaken, SidecarTypes, <1>t DEF BInv, InSlice, OfSlice, B!Numbers
<1>c2. Holding'
  BY <1>g, <1>w, <1>vrestore, <1>vtaken, SidecarTypes, <1>t DEF BInv, Holding
<1>c3. Tracked'
  BY <1>g, <1>w, <1>vrestore, <1>vtaken, SidecarTypes, <1>t DEF BInv, Tracked, OneOut, Quiet, Ordered, Answered
<1>c4. BrowserInv'
  BY <1>g, <1>w, <1>vrestore, <1>vtaken, SidecarTypes, <1>t DEF BInv, BrowserInv, Serving, Leaving, Opened,
    SuspendFirst, Ordered, Answered
<1>c5. Paused'
  <2>1. wb.restore # 0 => taken_
    BY <1>vtaken
  <2>2. ~wb.taken
    BY <1>g DEF BInv, Paused
  <2>3. wb'.taken = taken_
    BY <1>w
  <2> QED BY <1>g, <1>w, <1>vrestore, <2>1, <2>2, <2>3, SidecarTypes, <1>t DEF BInv, Paused
<1>c6. B!RestoresPausedSlice'
  <2> DEFINE r == [from |-> wb.restore, to |-> wb.slice, left |-> disk.left]
  <2>1. restored' = B!Given
    BY <1>g
  <2>2. restored' \subseteq restored \union {r} /\ (wb.restore = 0 => restored' = restored)
    BY <2>1 DEF B!Given
  <2>3. wb.restore # 0 /\ ~disk.left => wb.restore = wb.slice
    BY <1>g DEF BInv, Paused
  <2>4. wb.restore # 0 => r.left \/ r.from = r.to
    BY <2>3
  <2> QED BY <2>2, <2>4 DEF BInv, B!RestoresPausedSlice
<1> QED BY <1>c0, <1>c1, <1>c2, <1>c3, <1>c4, <1>c5, <1>c6 DEF BInv

\* A sidecar is started and greeted.
LEMMA SpawnBInv ==
  ASSUME BInv, B!Spawn
  PROVE  BInv'
<1> USE SidecarNumbers
<1>g. wb.pc = "next" /\ wb.slice \in 1..Slices /\ ~wb.held /\ UNCHANGED <<browser, disk>> /\ restored' = B!Given
  BY DEF B!Spawn, B!Take, B!Numbers
<1>k. wb \in B!Wb
  BY SidecarTypes DEF BInv
<1>vrestore. PICK restore_ \in 0..Slices : restore_ = 0
  BY <1>g, SidecarTypes DEF BInv
<1>vtaken. PICK taken_ \in BOOLEAN : taken_ = (wb.restore # 0)
  OBVIOUS
<1>e. wb' = [wb EXCEPT !.pc = "hello", !.restore = restore_, !.taken = taken_, !.timedout = FALSE]
  BY <1>g, <1>vrestore, <1>vtaken DEF B!Spawn, B!Take, B!Numbers
<1>drestore. restore_ \in 0..Slices
  BY <1>vrestore
<1>dtaken. taken_ \in BOOLEAN
  BY <1>vtaken
<1>w1. wb' \in B!Wb
  BY <1>e, <1>k, <1>drestore, <1>dtaken DEF B!Wb
<1>w2. wb'.pc = "hello" /\ wb'.restore = restore_ /\ wb'.taken = taken_
  BY <1>e, <1>k DEF B!Wb
<1>w3. wb'.slice = wb.slice /\ wb'.held = wb.held /\ wb'.code = wb.code /\ wb'.by = wb.by
       /\ wb'.then = wb.then /\ wb'.session = wb.session /\ wb'.failed = wb.failed /\ wb'.bail = wb.bail
       /\ wb'.named = wb.named /\ wb'.exit = wb.exit
  BY <1>e, <1>k DEF B!Wb
<1>w. /\ wb' \in B!Wb
      /\ wb'.pc = "hello" /\ wb'.restore = restore_ /\ wb'.taken = taken_
      /\ wb'.slice = wb.slice /\ wb'.held = wb.held /\ wb'.code = wb.code /\ wb'.by = wb.by
         /\ wb'.then = wb.then /\ wb'.session = wb.session /\ wb'.failed = wb.failed /\ wb'.bail = wb.bail
         /\ wb'.named = wb.named /\ wb'.exit = wb.exit
  BY <1>w1, <1>w3, <1>w2
<1>b. ~wb'.timedout
  BY <1>e, <1>k, Zenon DEF B!Wb
<1>t. B!SidecarTypeOK
  BY DEF BInv
<1>s. /\ sidecar' \in B!Process /\ sidecar'.running = 0 /\ sidecar'.outbox = <<>>
      /\ sidecar'.inbox = <<[type |-> "hello", of |-> 0]>>
  <2>1. [type |-> "hello", of |-> 0] \in B!Command
    BY DEF B!Command
  <2>2. PICK q \in Seq(B!Command) : q = <<[type |-> "hello", of |-> 0]>>
    BY <2>1, Single
  <2>3. sidecar' = [B!NoProcess EXCEPT !.alive = TRUE, !.inbox = q]
    BY <2>2 DEF B!Spawn
  <2>4. /\ B!NoProcess \in B!Process /\ B!NoProcess.running = 0 /\ B!NoProcess.outbox = <<>>
    BY DEF B!NoProcess, B!Process
  <2>5. /\ sidecar' \in B!Process /\ sidecar'.running = 0 /\ sidecar'.outbox = <<>>
        /\ sidecar'.inbox = q
    <3> HIDE DEF B!NoProcess
    <3> QED BY <2>3, <2>4 DEF B!Process
  <2> QED BY <2>2, <2>5
<1>h. /\ Len(sidecar'.inbox) = 1 /\ sidecar'.inbox[1].type = "hello"
      /\ \A types : "hello" \notin types => Places(sidecar'.inbox, types) = {}
  BY <1>s DEF Places
<1>q. Quiet' /\ Places(sidecar'.inbox, {"suspend", "shutdown"}) = {}
  <2>1. Places(sidecar'.inbox, {"slice"}) = {} /\ Places(sidecar'.inbox, {"suspend", "shutdown"}) = {}
    BY <1>h
  <2>2. Places(sidecar'.outbox, B!Terminal) = {}
    BY <1>s DEF Places
  <2> QED BY <1>s, <2>1, <2>2 DEF Quiet, Ordered, Answered
<1>c0. B!SidecarTypeOK'
  <2> DEFINE r == [from |-> wb.restore, to |-> wb.slice, left |-> disk.left]
  <2>1. wb.restore # 0 => r \in [from : B!Numbers, to : B!Numbers, left : BOOLEAN]
    BY <1>g, <1>t, SidecarTypes DEF B!Numbers
  <2>2. restored' \subseteq restored \union {r} /\ (wb.restore = 0 => restored' = restored)
    BY <1>g DEF B!Given
  <2>3. restored' \subseteq [from : B!Numbers, to : B!Numbers, left : BOOLEAN]
    BY <1>t, <2>1, <2>2, SidecarTypes
  <2>4. sidecar' \in B!Process
    BY <1>s
  <2> QED BY <1>g, <1>w, <1>t, <2>3, <2>4, SidecarTypes DEF B!SidecarTypeOK
<1>c1. InSlice'
  BY <1>g, <1>w, <1>vrestore, <1>vtaken, <1>b, SidecarTypes, <1>t DEF BInv, InSlice, OfSlice, B!Numbers
<1>c2. Holding'
  BY <1>g, <1>w, <1>b DEF BInv, Holding
<1>c3. Tracked'
  BY <1>g, <1>w, <1>q DEF BInv, Tracked
<1>c4. BrowserInv'
  <2>1. wb.exit # "paused"
    BY <1>g DEF BInv, BrowserInv
  <2> QED BY <1>g, <1>w, <1>q, <2>1 DEF BrowserInv, Serving, Leaving, Opened, Quiet
<1>c5. Paused'
  <2>1. wb.restore # 0 => taken_
    BY <1>vtaken
  <2>2. ~wb.taken
    BY <1>g DEF BInv, Paused
  <2>3. wb'.taken = taken_
    BY <1>w
  <2> QED BY <1>g, <1>w, <1>vrestore, <2>1, <2>2, <2>3, SidecarTypes, <1>t DEF BInv, Paused
<1>c6. B!RestoresPausedSlice'
  <2> DEFINE r == [from |-> wb.restore, to |-> wb.slice, left |-> disk.left]
  <2>1. restored' = B!Given
    BY <1>g
  <2>2. restored' \subseteq restored \union {r} /\ (wb.restore = 0 => restored' = restored)
    BY <2>1 DEF B!Given
  <2>3. wb.restore # 0 /\ ~disk.left => wb.restore = wb.slice
    BY <1>g DEF BInv, Paused
  <2>4. wb.restore # 0 => r.left \/ r.from = r.to
    BY <2>3
  <2> QED BY <2>2, <2>4 DEF BInv, B!RestoresPausedSlice
<1> QED BY <1>c0, <1>c1, <1>c2, <1>c3, <1>c4, <1>c5, <1>c6 DEF BInv

\* An event arrives while wb waits for the greeting.
LEMMA HandshakeEventBInv ==
  ASSUME BInv, B!HandshakeEvent
  PROVE  BInv'
<1> USE SidecarNumbers
<1>g. wb.pc = "hello" /\ UNCHANGED <<browser, disk, restored>>
  BY DEF B!HandshakeEvent
<1>t. B!SidecarTypeOK
  BY DEF BInv
<1>o. /\ sidecar.outbox # <<>> /\ sidecar' = [sidecar EXCEPT !.outbox = Tail(@)] /\ sidecar \in B!Process
  BY <1>t, SidecarTypes DEF B!HandshakeEvent
<1>p. PICK q \in Seq(B!Event) : q = Tail(sidecar.outbox)
  BY <1>o, <1>t, SidecarTypes, Taken
<1>s. /\ sidecar' \in B!Process /\ sidecar'.running = sidecar.running /\ sidecar'.alive = sidecar.alive
      /\ sidecar'.inbox = sidecar.inbox /\ sidecar'.outbox = q
  <2>1. sidecar' = [sidecar EXCEPT !.outbox = q]
    BY <1>o, <1>p
  <2> QED BY <1>o, <2>1 DEF B!Process
<1>i. Ordered' = Ordered /\ \A types : Places(sidecar'.inbox, types) = Places(sidecar.inbox, types)
  BY <1>s DEF Ordered, Places
<1>a. /\ Head(sidecar.outbox) = sidecar.outbox[1] /\ sidecar.outbox[1] \in B!Event
      /\ \A i \in Answered' : /\ i \in Nat /\ i + 1 \in Answered /\ i + 1 # 1
                              /\ sidecar'.outbox[i] = sidecar.outbox[i + 1]
      /\ Answered = {} => Answered' = {}
      /\ 1 \in Answered <=> sidecar.outbox[1].type \in B!Terminal
  <2> DEFINE r == sidecar.outbox
  <2>1. r \in Seq(B!Event) /\ r # <<>>
    BY <1>o, <1>t, SidecarTypes
  <2> HIDE DEF r
  <2>2. /\ Head(r) = r[1] /\ r[1] \in B!Event
        /\ \A i \in Places(Tail(r), B!Terminal) :
             i \in Nat /\ i + 1 \in Places(r, B!Terminal) /\ i + 1 # 1 /\ Tail(r)[i] = r[i + 1]
        /\ Places(r, B!Terminal) = {} => Places(Tail(r), B!Terminal) = {}
        /\ 1 \in Places(r, B!Terminal) <=> r[1].type \in B!Terminal
    BY <2>1, Taken
  <2>3. sidecar'.outbox = Tail(r)
    BY <1>p, <1>s DEF r
  <2> QED BY <2>2, <2>3 DEF Answered, r
<1>w. /\ wb' \in B!Wb /\ wb'.pc \in {"hello", "write"} /\ wb'.slice = wb.slice /\ wb'.restore = wb.restore
      /\ wb'.taken = wb.taken /\ wb'.timedout = wb.timedout /\ wb'.by = wb.by
      /\ wb'.named = wb.named /\ wb'.exit = wb.exit
      /\ wb'.pc = "hello" => wb'.held = wb.held
  <2>1. wb \in B!Wb
    BY <1>t, SidecarTypes
  <2>2. CASE wb' = wb
    BY <1>g, <2>1, <2>2
  <2>3. CASE wb' = [wb EXCEPT !.pc = "write", !.held = TRUE]
    BY <2>1, <2>3 DEF B!Wb
  <2> QED BY <2>2, <2>3 DEF B!HandshakeEvent
<1>b. wb'.pc = "write" => wb'.held
  <2>1. wb \in B!Wb
    BY <1>t, SidecarTypes
  <2>2. CASE wb' = wb
    BY <1>g, <2>2
  <2>3. CASE wb' = [wb EXCEPT !.pc = "write", !.held = TRUE]
    BY <2>1, <2>3, Zenon DEF B!Wb
  <2> QED BY <2>2, <2>3 DEF B!HandshakeEvent
<1>u. Quiet' /\ ~wb.held
  BY <1>g, <1>s, <1>i, <1>a DEF BInv, Tracked, Quiet, Holding
<1>c0. B!SidecarTypeOK'
  BY <1>g, <1>w, <1>b, <1>u, <1>s, SidecarTypes, <1>t DEF BInv, B!SidecarTypeOK
<1>c1. InSlice'
  BY <1>g, <1>w, <1>b, <1>u, <1>s, SidecarTypes, <1>t DEF BInv, InSlice, OfSlice, B!Numbers
<1>c2. Holding'
  BY <1>g, <1>w, <1>b, <1>u DEF Holding
<1>c3. Tracked'
  BY <1>g, <1>w, <1>u DEF Tracked
<1>c4. BrowserInv'
  <2>1. Places(sidecar.inbox, {"suspend", "shutdown"}) = {}
    BY <1>g DEF BInv, BrowserInv, Serving
  <2>2. wb.exit # "paused"
    BY <1>g DEF BInv, BrowserInv
  <2>3. Places(sidecar'.inbox, {"suspend", "shutdown"}) = {}
    BY <2>1, <1>i
  <2> QED BY <1>w, <1>u, <2>2, <2>3 DEF BrowserInv, Serving, Leaving, Opened, Quiet
<1>c5. Paused'
  BY <1>g, <1>w, <1>b, <1>u, <1>s, SidecarTypes, <1>t DEF BInv, Paused
<1>c6. B!RestoresPausedSlice'
  BY <1>g, <1>w, <1>b, <1>u, <1>s, SidecarTypes, <1>t DEF BInv, B!RestoresPausedSlice
<1> QED BY <1>c0, <1>c1, <1>c2, <1>c3, <1>c4, <1>c5, <1>c6 DEF BInv

\* The sidecar is dropped.
LEMMA Dropping ==
  ASSUME BInv, NEW w \in B!Wb, NEW then \in {"result", "pausing", "ok", "failed"}, B!Drop(w, then),
         UNCHANGED <<browser, disk, restored>>,
         w.slice = wb.slice, w.restore = wb.restore, w.taken = wb.taken, w.timedout = wb.timedout,
         w.named = wb.named, w.exit = wb.exit,
         wb.pc \in {"hello", "suspend", "result", "next"},
         then \in {"result", "pausing"} => OfSlice,
         then = "pausing" => wb.pc = "suspend" /\ ~wb.held,
         then = "result" => w.by = 0
  PROVE  BInv'
<1> USE SidecarNumbers
<1>t. B!SidecarTypeOK
  BY DEF BInv
<1>e. wb' = [w EXCEPT !.pc = "drop", !.then = then, !.held = FALSE]
  BY DEF B!Drop
<1>w. /\ wb' \in B!Wb /\ wb'.pc = "drop" /\ wb'.then = then /\ wb'.by = w.by
      /\ wb'.slice = wb.slice /\ wb'.restore = wb.restore /\ wb'.taken = wb.taken
      /\ wb'.named = wb.named /\ wb'.exit = wb.exit
  BY <1>e DEF B!Wb
<1>b. ~wb'.held
  BY <1>e, Zenon DEF B!Wb
<1>s. /\ sidecar' \in B!Process
      /\ then = "pausing" /\ sidecar'.alive => SuspendFirst'
  <2>1. CASE ~sidecar.alive
    BY <2>1, <1>t, SidecarTypes DEF B!Drop
  <2>2. CASE sidecar.alive
    <3> DEFINE x == [type |-> "shutdown", of |-> 0]
               q == sidecar.inbox
    <3>1. /\ sidecar' \in B!Process /\ sidecar'.inbox = Append(q, x) /\ x \in B!Command
      <4>1. sidecar' = B!Send("shutdown", 0)
        BY <2>2 DEF B!Drop
      <4> QED BY <4>1, <1>t, Commanded
    <3>2. ASSUME then = "pausing" PROVE SuspendFirst'
      <4>1. PICK i \in Places(q, {"suspend"}) : \A j \in Places(q, {"shutdown"}) : i < j
        BY <2>2, <3>2 DEF BInv, BrowserInv, Leaving, SuspendFirst
      <4>2. q \in Seq(B!Command) /\ x.type = "shutdown"
        BY <1>t, SidecarTypes
      <4> HIDE DEF q, x
      <4>3. /\ Places(Append(q, x), {"suspend"}) = Places(q, {"suspend"})
               \union (IF x.type \in {"suspend"} THEN {Len(q) + 1} ELSE {})
            /\ Places(Append(q, x), {"shutdown"}) = Places(q, {"shutdown"})
               \union (IF x.type \in {"shutdown"} THEN {Len(q) + 1} ELSE {})
            /\ \A k \in DOMAIN q : k < Len(q) + 1
        BY <3>1, <4>2, Appended
      <4>4. i \in DOMAIN q
        BY DEF Places
      <4> QED BY <3>1, <4>1, <4>2, <4>3, <4>4 DEF SuspendFirst
    <3> QED BY <3>1, <3>2
  <2> QED BY <2>1, <2>2
<1>c0. B!SidecarTypeOK'
  BY <1>w, <1>b, <1>s, SidecarTypes, <1>t DEF BInv, B!SidecarTypeOK
<1>c1. InSlice'
  BY <1>w, <1>b, <1>s, SidecarTypes, <1>t DEF BInv, InSlice, OfSlice, B!Numbers
<1>c2. Holding'
  BY <1>w, <1>b, <1>s, SidecarTypes, <1>t DEF BInv, Holding
<1>c3. Tracked'
  BY <1>w, <1>b DEF Tracked
<1>c4. BrowserInv'
  <2>1. wb.exit # "paused"
    BY DEF BInv, BrowserInv
  <2>2. then = "pausing" => browser = "open"
    BY DEF BInv, BrowserInv, Leaving
  <2> QED BY <1>w, <1>b, <1>s, <2>1, <2>2 DEF BrowserInv, Serving, Leaving
<1>c5. Paused'
  BY <1>w DEF BInv, Paused
<1>c6. B!RestoresPausedSlice'
  BY <1>w, <1>b, <1>s, SidecarTypes, <1>t DEF BInv, B!RestoresPausedSlice
<1> QED BY <1>c0, <1>c1, <1>c2, <1>c3, <1>c4, <1>c5, <1>c6 DEF BInv

\* The run ends.
LEMMA LeavingBInv ==
  ASSUME BInv, NEW w \in B!Wb, NEW status \in {"ok", "failed"}, B!Leave(w, status),
         UNCHANGED <<browser, disk, restored>>,
         w.slice = wb.slice, w.restore = wb.restore, w.taken = wb.taken, w.timedout = wb.timedout,
         w.named = wb.named, w.exit = wb.exit, w.held = wb.held,
         wb.pc \in {"result", "next"}
  PROVE  BInv'
<1> USE SidecarNumbers
<1>1. CASE wb.held
  <2>1. B!Drop(w, status)
    BY <1>1 DEF B!Leave
  <2> QED BY <2>1, Dropping
<1>2. CASE ~wb.held
  <2>t. B!SidecarTypeOK
    BY DEF BInv
  <2>e. wb' = [w EXCEPT !.pc = "off", !.exit = status] /\ UNCHANGED sidecar
    BY <1>2 DEF B!Leave
  <2>w. /\ wb' \in B!Wb /\ wb'.pc = "off" /\ wb'.exit = status
        /\ wb'.slice = wb.slice /\ wb'.restore = wb.restore /\ wb'.taken = wb.taken
        /\ wb'.named = wb.named /\ wb'.held = wb.held
    BY <2>e DEF B!Wb
<2>c0. B!SidecarTypeOK'
    BY <1>2, <2>w, <2>e, SidecarTypes, <2>t DEF BInv, B!SidecarTypeOK
<2>c1. InSlice'
    BY <1>2, <2>w, <2>e, SidecarTypes, <2>t DEF BInv, InSlice, OfSlice, B!Numbers
<2>c2. Holding'
    BY <1>2, <2>w, <2>e DEF BInv, Holding
<2>c3. Tracked'
    BY <1>2, <2>w DEF Tracked
<2>c4. BrowserInv'
    BY <1>2, <2>w DEF BrowserInv, Serving, Leaving
<2>c5. Paused'
    BY <1>2, <2>w, <2>e, SidecarTypes, <2>t DEF BInv, Paused
<2>c6. B!RestoresPausedSlice'
    BY <1>2, <2>w, <2>e, SidecarTypes, <2>t DEF BInv, B!RestoresPausedSlice
<2> QED BY <2>c0, <2>c1, <2>c2, <2>c3, <2>c4, <2>c5, <2>c6 DEF BInv
<1> QED BY <1>1, <1>2

\* The handshake fails, or the run ends.
LEMMA EndsBInv ==
  ASSUME BInv, B!HandshakeFails \/ B!SuspendTimeout \/ B!BailSlice \/ B!Finish
  PROVE  BInv'
<1> USE SidecarNumbers
<1>t. wb \in B!Wb
  BY SidecarTypes DEF BInv
<1>1. CASE B!HandshakeFails
  <2>0. PICK z \in 0..Slices : z = 0
    OBVIOUS
  <2> DEFINE w == [wb EXCEPT !.code = 127, !.by = z]
  <2>1. /\ w \in B!Wb /\ w.slice = wb.slice /\ w.restore = wb.restore /\ w.taken = wb.taken
        /\ w.timedout = wb.timedout /\ w.named = wb.named /\ w.exit = wb.exit
    BY <1>t DEF B!Wb
  <2>3. w.by = 0
    BY <1>t, <2>0 DEF B!Wb
  <2>2. B!Drop(w, "result") /\ UNCHANGED <<browser, disk, restored>> /\ wb.pc = "hello"
    BY <1>1, <2>0 DEF B!HandshakeFails
  <2> HIDE DEF w
  <2> QED BY <2>1, <2>2, <2>3, Dropping DEF OfSlice
<1>2. CASE B!SuspendTimeout
  <2>1. B!Drop(wb, "pausing") /\ UNCHANGED <<browser, disk, restored>> /\ wb.pc = "suspend" /\ ~wb.held
    BY <1>2 DEF B!SuspendTimeout
  <2> QED BY <1>t, <2>1, Dropping DEF OfSlice
<1>3. CASE B!BailSlice
  <2> DEFINE w == [wb EXCEPT !.failed = TRUE]
  <2>1. /\ w \in B!Wb /\ w.slice = wb.slice /\ w.restore = wb.restore /\ w.taken = wb.taken
        /\ w.timedout = wb.timedout /\ w.named = wb.named /\ w.exit = wb.exit /\ w.held = wb.held
    BY <1>t DEF B!Wb
  <2>2. B!Leave(w, "failed") /\ UNCHANGED <<browser, disk, restored>> /\ wb.pc = "result"
    BY <1>3 DEF B!BailSlice
  <2> HIDE DEF w
  <2> QED BY <2>1, <2>2, LeavingBInv
<1>4. CASE B!Finish
  <2>1. PICK status \in {"ok", "failed"} : status = IF wb.failed THEN "failed" ELSE "ok"
    BY Zenon
  <2>2. B!Leave(wb, status) /\ UNCHANGED <<browser, disk, restored>> /\ wb.pc = "next"
    BY <1>4, <2>1 DEF B!Finish
  <2> QED BY <1>t, <2>2, LeavingBInv
<1> QED BY <1>1, <1>2, <1>3, <1>4

\* wb sends the slice, or finds the pipe closed.
LEMMA WriteSliceBInv ==
  ASSUME BInv, B!WriteSlice
  PROVE  BInv'
<1> USE SidecarNumbers
<1>t. B!SidecarTypeOK
  BY DEF BInv
<1>k. wb \in B!Wb
  BY <1>t, SidecarTypes
<1>c. wb.pc = "write" /\ wb.held /\ wb.slice \in B!Numbers /\ wb.restore = 0 /\ UNCHANGED <<browser, disk,
      restored>>
  BY DEF B!WriteSlice, BInv, Holding, InSlice, OfSlice
<1>z. wb.slice \in 0..Slices /\ wb.exit # "paused"
  BY <1>c DEF B!Numbers, BInv, BrowserInv
<1>1. CASE sidecar.alive
  <2>g. wb' = [wb EXCEPT !.pc = "recv"] /\ sidecar' = B!Send("slice", wb.slice)
    BY <1>1 DEF B!WriteSlice
  <2>w. /\ wb' \in B!Wb /\ wb'.pc = "recv" /\ wb'.slice = wb.slice /\ wb'.restore = wb.restore
        /\ wb'.taken = wb.taken /\ wb'.timedout = wb.timedout /\ wb'.by = wb.by /\ wb'.held = wb.held
        /\ wb'.named = wb.named /\ wb'.exit = wb.exit
    BY <1>k, <2>g DEF B!Wb
  <2> DEFINE x == [type |-> "slice", of |-> wb.slice]
<2>s. /\ sidecar' \in B!Process /\ sidecar'.running = sidecar.running
      /\ sidecar'.alive = sidecar.alive /\ sidecar'.outbox = sidecar.outbox
      /\ sidecar'.inbox = Append(sidecar.inbox, x) /\ x \in B!Command
  BY <2>g, <1>z, <1>t, SidecarTypes, Commanded
<2>a. Answered' = Answered
  BY <2>s DEF Answered, Places
<2>q. /\ sidecar.inbox \in Seq(B!Command)
      /\ \A types : Places(sidecar'.inbox, types) = Places(sidecar.inbox, types)
         \union (IF x.type \in types THEN {Len(sidecar.inbox) + 1} ELSE {})
      /\ \A i \in DOMAIN sidecar.inbox : sidecar'.inbox[i] = sidecar.inbox[i] /\ i < Len(sidecar.inbox) + 1
      /\ sidecar'.inbox[Len(sidecar.inbox) + 1] = x
  <3> DEFINE q == sidecar.inbox
  <3>1. q \in Seq(B!Command)
    BY <1>t, SidecarTypes
  <3> HIDE DEF q, x
  <3>2. /\ \A types : Places(Append(q, x), types) = Places(q, types)
           \union (IF x.type \in types THEN {Len(q) + 1} ELSE {})
        /\ \A i \in DOMAIN q : Append(q, x)[i] = q[i] /\ i < Len(q) + 1
        /\ Append(q, x)[Len(q) + 1] = x
    BY <3>1, <2>s, Appended
  <3> QED BY <2>s, <3>1, <3>2 DEF q
  <2>x. x.type = "slice" /\ x.of = wb.slice
    OBVIOUS
  <2> HIDE DEF x
  <2>o. wb.held /\ ~wb.timedout => OneOut'
    <3> SUFFICES ASSUME ~wb.timedout PROVE OneOut'
      OBVIOUS
    <3>1. Quiet
      BY <1>c DEF BInv, Tracked
    <3>2. Ordered' = {Len(sidecar.inbox) + 1}
      BY <3>1, <2>q, <2>x DEF Quiet, Ordered
    <3>3. Answered' = {} /\ sidecar'.running = 0
      BY <3>1, <2>a, <2>s DEF Quiet
    <3> QED BY <2>q, <2>x, <2>w, <3>2, <3>3 DEF OneOut
<2>c0. B!SidecarTypeOK'
    BY <1>c, <1>z, <2>w, <2>s, SidecarTypes, <1>t DEF BInv, B!SidecarTypeOK
<2>c1. InSlice'
    BY <1>c, <1>z, <2>w, <2>s, SidecarTypes, <1>t DEF BInv, InSlice, OfSlice, B!Numbers
<2>c2. Holding'
    BY <1>c, <1>z, <2>w, <2>s, SidecarTypes, <1>t DEF BInv, Holding
<2>c3. Tracked'
    BY <1>c, <2>w, <2>o DEF Tracked
<2>c4. BrowserInv'
    <3>1. Places(sidecar.inbox, {"suspend", "shutdown"}) = {} /\ Opened
      BY <1>c DEF BInv, BrowserInv, Serving
    <3>2. Places(sidecar'.inbox, {"suspend", "shutdown"}) = {}
      BY <3>1, <2>q, <2>x
    <3>3. Opened'
      BY <1>c, <3>1, <2>a, <2>s DEF Opened
    <3> QED BY <1>z, <2>w, <3>2, <3>3 DEF BrowserInv, Leaving
<2>c5. Paused'
    BY <1>c, <1>z, <2>w, <2>s, SidecarTypes, <1>t DEF BInv, Paused
<2>c6. B!RestoresPausedSlice'
    BY <1>c, <1>z, <2>w, <2>s, SidecarTypes, <1>t DEF BInv, B!RestoresPausedSlice
<2> QED BY <2>c0, <2>c1, <2>c2, <2>c3, <2>c4, <2>c5, <2>c6 DEF BInv
<1>2. CASE ~sidecar.alive
  <2>0. PICK z \in 0..Slices : z = 0
    OBVIOUS
  <2>g. wb' = [wb EXCEPT !.pc = "result", !.code = 1, !.by = z] /\ sidecar' = sidecar
    BY <1>2, <2>0 DEF B!WriteSlice, B!Result
  <2>w. /\ wb' \in B!Wb /\ wb'.pc = "result" /\ wb'.slice = wb.slice /\ wb'.restore = wb.restore
        /\ wb'.taken = wb.taken /\ wb'.timedout = wb.timedout /\ wb'.by = z /\ wb'.held = wb.held
        /\ wb'.named = wb.named /\ wb'.exit = wb.exit
    BY <1>k, <2>g DEF B!Wb
<2>c0. B!SidecarTypeOK'
    BY <1>c, <1>z, <2>0, <2>w, <2>g, SidecarTypes, <1>t DEF BInv, B!SidecarTypeOK
<2>c1. InSlice'
    BY <1>c, <1>z, <2>0, <2>w, <2>g, SidecarTypes, <1>t DEF BInv, InSlice, OfSlice, B!Numbers
<2>c2. Holding'
    BY <1>c, <1>z, <2>0, <2>w, <2>g, SidecarTypes, <1>t DEF BInv, Holding
<2>c3. Tracked'
    BY <1>c, <1>z, <2>0, <2>w, <2>g, SidecarTypes, <1>t DEF BInv, Tracked, OneOut, Quiet, Ordered, Answered
<2>c4. BrowserInv'
    BY <1>c, <1>z, <2>0, <2>w, <2>g, SidecarTypes, <1>t DEF BInv, BrowserInv, Serving, Leaving, Opened,
      SuspendFirst, Ordered, Answered
<2>c5. Paused'
    BY <1>c, <1>z, <2>0, <2>w, <2>g, SidecarTypes, <1>t DEF BInv, Paused
<2>c6. B!RestoresPausedSlice'
    BY <1>c, <1>z, <2>0, <2>w, <2>g, SidecarTypes, <1>t DEF BInv, B!RestoresPausedSlice
<2> QED BY <2>c0, <2>c1, <2>c2, <2>c3, <2>c4, <2>c5, <2>c6 DEF BInv
<1> QED BY <1>1, <1>2

\* An event arrives while wb waits for the answer.
LEMMA SliceEventBInv ==
  ASSUME BInv, B!SliceEvent
  PROVE  BInv'
<1> USE SidecarNumbers
<1>g. wb.pc = "recv" /\ UNCHANGED <<browser, disk, restored>>
  BY DEF B!SliceEvent
<1>t. B!SidecarTypeOK
  BY DEF BInv
<1>k. wb \in B!Wb /\ wb.held /\ wb.slice \in B!Numbers /\ wb.restore = 0 /\ wb.exit # "paused"
  BY <1>g, <1>t, SidecarTypes DEF BInv, Holding, InSlice, OfSlice, BrowserInv
<1>o. /\ sidecar.outbox # <<>> /\ sidecar' = [sidecar EXCEPT !.outbox = Tail(@)] /\ sidecar \in B!Process
  BY <1>t, SidecarTypes DEF B!SliceEvent
<1>p. PICK q \in Seq(B!Event) : q = Tail(sidecar.outbox)
  BY <1>o, <1>t, SidecarTypes, Taken
<1>s. /\ sidecar' \in B!Process /\ sidecar'.running = sidecar.running /\ sidecar'.alive = sidecar.alive
      /\ sidecar'.inbox = sidecar.inbox /\ sidecar'.outbox = q
  <2>1. sidecar' = [sidecar EXCEPT !.outbox = q]
    BY <1>o, <1>p
  <2> QED BY <1>o, <2>1 DEF B!Process
<1>i. Ordered' = Ordered /\ \A types : Places(sidecar'.inbox, types) = Places(sidecar.inbox, types)
  BY <1>s DEF Ordered, Places
<1>a. /\ Head(sidecar.outbox) = sidecar.outbox[1] /\ sidecar.outbox[1] \in B!Event
      /\ \A i \in Answered' : /\ i \in Nat /\ i + 1 \in Answered /\ i + 1 # 1
                              /\ sidecar'.outbox[i] = sidecar.outbox[i + 1]
      /\ Answered = {} => Answered' = {}
      /\ 1 \in Answered <=> sidecar.outbox[1].type \in B!Terminal
  <2> DEFINE r == sidecar.outbox
  <2>1. r \in Seq(B!Event) /\ r # <<>>
    BY <1>o, <1>t, SidecarTypes
  <2> HIDE DEF r
  <2>2. /\ Head(r) = r[1] /\ r[1] \in B!Event
        /\ \A i \in Places(Tail(r), B!Terminal) :
             i \in Nat /\ i + 1 \in Places(r, B!Terminal) /\ i + 1 # 1 /\ Tail(r)[i] = r[i + 1]
        /\ Places(r, B!Terminal) = {} => Places(Tail(r), B!Terminal) = {}
        /\ 1 \in Places(r, B!Terminal) <=> r[1].type \in B!Terminal
    BY <2>1, Taken
  <2>3. sidecar'.outbox = Tail(r)
    BY <1>p, <1>s DEF r
  <2> QED BY <2>2, <2>3 DEF Answered, r
<1> DEFINE event == sidecar.outbox[1]
<1>y. event.type \in {"ready", "note"} \cup B!Terminal /\ event.of \in 0..Slices
  BY <1>a DEF B!Event
<1>c. /\ event.type = "paused" => wb' = [wb EXCEPT !.pc = "suspend", !.code = 0, !.by = event.of]
      /\ event.type \in {"complete", "failed"} =>
           \E code \in {0, 1} : wb' = [wb EXCEPT !.pc = "result", !.code = code, !.by = event.of]
      /\ event.type \notin B!Terminal => wb' = wb
  <2>1. \A type : B!Outcome(type) \in {0, 1}
    BY DEF B!Outcome
  <2>2. event = Head(sidecar.outbox)
    BY <1>a
  <2> HIDE DEF event
  <2> QED BY <2>1, <2>2 DEF B!SliceEvent, B!Terminal
<1>p2. Places(sidecar'.inbox, {"suspend", "shutdown"}) = {} /\ Opened
  BY <1>i, <1>k DEF BInv, BrowserInv, Serving
<1>1. CASE event.type \in B!Terminal
  <2>1. PICK pc \in {"suspend", "result"}, code \in {0, 1}, by \in 0..Slices :
          /\ wb' = [wb EXCEPT !.pc = pc, !.code = code, !.by = by] /\ by = event.of
          /\ pc = "suspend" => event.type = "paused"
    BY <1>1, <1>c, <1>y DEF B!Terminal
  <2>w. /\ wb' \in B!Wb /\ wb'.pc = pc /\ wb'.slice = wb.slice /\ wb'.restore = wb.restore
        /\ wb'.taken = wb.taken /\ wb'.timedout = wb.timedout /\ wb'.by = by /\ wb'.held = wb.held
        /\ wb'.named = wb.named /\ wb'.exit = wb.exit
    <3>1. wb' = [wb EXCEPT !.pc = pc, !.code = code, !.by = by]
      BY <2>1
    <3>2. /\ pc \in {"off", "next", "hello", "write", "recv", "suspend", "pausing", "drop", "result"}
          /\ code \in {-1, 0, 1, 127} /\ by \in 0..Slices
      BY <2>1
    <3> HIDE DEF event
    <3>3. wb' \in B!Wb
      <4>1. wb \in B!Wb
        BY <1>k
      <4> QED BY <3>1, <3>2, <4>1 DEF B!Wb
    <3>4. /\ wb'.pc = pc /\ wb'.slice = wb.slice /\ wb'.restore = wb.restore
          /\ wb'.taken = wb.taken /\ wb'.timedout = wb.timedout /\ wb'.by = by /\ wb'.held = wb.held
          /\ wb'.named = wb.named /\ wb'.exit = wb.exit
      BY <1>k, <3>1 DEF B!Wb
    <3> QED BY <3>3, <3>4
  <2>2. 1 \in Answered
    BY <1>1, <1>a
  <2>3. ~wb.timedout => Quiet' /\ by = wb.slice
    <3> SUFFICES ASSUME ~wb.timedout PROVE Quiet' /\ by = wb.slice
      OBVIOUS
    <3>1. OneOut
      BY <1>g, <1>k DEF BInv, Tracked
    <3>2. Answered' = {}
      BY <1>a, <2>2, <3>1 DEF OneOut
    <3>3. Ordered = {} /\ sidecar.running = 0 /\ event.of = wb.slice
      BY <2>2, <3>1 DEF OneOut
    <3> QED BY <1>i, <1>s, <2>1, <3>2, <3>3 DEF Quiet
  <2>4. Opened' /\ browser = "open"
    BY <1>p2, <1>g, <2>2 DEF Opened
<2>c0. B!SidecarTypeOK'
    BY <1>g, <1>k, <2>1, <2>w, <1>s, SidecarTypes, <1>t DEF BInv, B!SidecarTypeOK
<2>c1. InSlice'
    BY <1>g, <1>k, <2>1, <2>w, <1>s, SidecarTypes, <1>t DEF BInv, InSlice, OfSlice, B!Numbers
<2>c2. Holding'
    BY <1>g, <1>k, <2>1, <2>w, <1>s, SidecarTypes, <1>t DEF BInv, Holding
<2>c3. Tracked'
    BY <2>w, <2>1, <2>3, <1>k DEF Tracked
<2>c4. BrowserInv'
    BY <1>g, <1>p2, <1>k, <2>w, <2>1, <2>4 DEF BrowserInv, Leaving
<2>c5. Paused'
    BY <1>g, <1>k, <2>1, <2>w, <1>s, SidecarTypes, <1>t DEF BInv, Paused
<2>c6. B!RestoresPausedSlice'
    BY <1>g, <1>k, <2>1, <2>w, <1>s, SidecarTypes, <1>t DEF BInv, B!RestoresPausedSlice
<2> QED BY <2>c0, <2>c1, <2>c2, <2>c3, <2>c4, <2>c5, <2>c6 DEF BInv
<1>2. CASE event.type \notin B!Terminal
  <2>1. wb' = wb
    BY <1>2, <1>c
  <2>2. ~wb.timedout => OneOut'
    <3> SUFFICES ASSUME ~wb.timedout PROVE OneOut'
      OBVIOUS
    <3>1. OneOut
      BY <1>g, <1>k DEF BInv, Tracked
    <3>2. \A i \in Ordered' : sidecar'.inbox[i].of = wb.slice
      BY <1>i, <1>s, <3>1 DEF OneOut
    <3>3. /\ \A i \in Answered' : sidecar'.outbox[i].of = wb.slice
          /\ \A i, j \in Answered' : i = j
      BY <1>a, <3>1 DEF OneOut
    <3> QED BY <1>i, <1>s, <1>a, <2>1, <3>1, <3>2, <3>3 DEF OneOut
  <2>3. Opened'
    BY <1>p2, <1>g, <1>a, <1>s DEF Opened
<2>c0. B!SidecarTypeOK'
    BY <1>g, <1>k, <2>1, <1>s, SidecarTypes, <1>t DEF BInv, B!SidecarTypeOK
<2>c1. InSlice'
    BY <1>g, <1>k, <2>1, <1>s, SidecarTypes, <1>t DEF BInv, InSlice, OfSlice, B!Numbers
<2>c2. Holding'
    BY <1>g, <1>k, <2>1, <1>s, SidecarTypes, <1>t DEF BInv, Holding
<2>c3. Tracked'
    BY <2>1, <2>2, <1>g, <1>k DEF Tracked
<2>c4. BrowserInv'
    BY <1>g, <1>p2, <1>k, <2>1, <2>3 DEF BrowserInv, Leaving
<2>c5. Paused'
    BY <1>g, <1>k, <2>1, <1>s, SidecarTypes, <1>t DEF BInv, Paused
<2>c6. B!RestoresPausedSlice'
    BY <1>g, <1>k, <2>1, <1>s, SidecarTypes, <1>t DEF BInv, B!RestoresPausedSlice
<2> QED BY <2>c0, <2>c1, <2>c2, <2>c3, <2>c4, <2>c5, <2>c6 DEF BInv
<1> QED BY <1>1, <1>2

\* wb lets go of a sidecar whose slice paused.
LEMMA SuspendBInv ==
  ASSUME BInv, B!Suspend
  PROVE  BInv'
<1> USE SidecarNumbers
<1>t. B!SidecarTypeOK
  BY DEF BInv
<1>k. wb \in B!Wb
  BY <1>t, SidecarTypes
<1>g. wb.pc = "suspend" /\ wb.held /\ wb' = [wb EXCEPT !.held = FALSE] /\ UNCHANGED <<browser, disk, restored>>
  BY DEF B!Suspend
<1>w. /\ wb' \in B!Wb /\ wb'.pc = "suspend" /\ wb'.slice = wb.slice /\ wb'.restore = wb.restore
      /\ wb'.taken = wb.taken /\ wb'.timedout = wb.timedout /\ wb'.by = wb.by
      /\ wb'.named = wb.named /\ wb'.exit = wb.exit
  BY <1>k, <1>g DEF B!Wb
<1>b. ~wb'.held
  BY <1>k, <1>g, Zenon DEF B!Wb
<1>c. browser = "open" /\ wb.exit # "paused" /\ Places(sidecar.inbox, {"suspend", "shutdown"}) = {}
  BY <1>g DEF BInv, BrowserInv, Leaving, Serving
<1>1. sidecar' \in B!Process /\ (sidecar'.alive => SuspendFirst')
  <2>1. CASE ~sidecar.alive
    BY <2>1, <1>t, SidecarTypes DEF B!Suspend
  <2>2. CASE sidecar.alive
    <3> DEFINE x == [type |-> "suspend", of |-> 0]
               q == sidecar.inbox
    <3>0. sidecar' = B!Send("suspend", 0)
      BY <2>2 DEF B!Suspend
    <3>1. sidecar' \in B!Process /\ sidecar'.inbox = Append(q, x) /\ x \in B!Command
      BY <3>0, <1>t, Commanded
    <3>2. q \in Seq(B!Command) /\ x.type = "suspend"
      BY <1>t, SidecarTypes
    <3>3. Places(q, {"suspend", "shutdown"}) = {}
      BY <1>c
    <3> HIDE DEF q, x
    <3>4. Places(q, {"shutdown"}) = {}
      BY <3>3 DEF Places
    <3>5. /\ Places(Append(q, x), {"suspend"}) = Places(q, {"suspend"})
             \union (IF x.type \in {"suspend"} THEN {Len(q) + 1} ELSE {})
          /\ Places(Append(q, x), {"shutdown"}) = Places(q, {"shutdown"})
             \union (IF x.type \in {"shutdown"} THEN {Len(q) + 1} ELSE {})
      BY <3>1, <3>2, Appended
    <3>6. Len(q) + 1 \in Places(Append(q, x), {"suspend"}) /\ Places(Append(q, x), {"shutdown"}) = {}
      BY <3>2, <3>4, <3>5
    <3> QED BY <3>1, <3>6 DEF SuspendFirst
  <2> QED BY <2>1, <2>2
<1>c0. B!SidecarTypeOK'
  BY <1>g, <1>w, <1>b, <1>1, SidecarTypes, <1>t DEF BInv, B!SidecarTypeOK
<1>c1. InSlice'
  BY <1>g, <1>w, <1>b, <1>1, SidecarTypes, <1>t DEF BInv, InSlice, OfSlice, B!Numbers
<1>c2. Holding'
  BY <1>g, <1>w, <1>b, <1>1, SidecarTypes, <1>t DEF BInv, Holding
<1>c3. Tracked'
  BY <1>g, <1>w, <1>b DEF BInv, Tracked
<1>c4. BrowserInv'
  BY <1>w, <1>b, <1>c, <1>g, <1>1 DEF BrowserInv, Serving, Leaving
<1>c5. Paused'
  BY <1>g, <1>w, <1>b, <1>1, SidecarTypes, <1>t DEF BInv, Paused
<1>c6. B!RestoresPausedSlice'
  BY <1>g, <1>w, <1>b, <1>1, SidecarTypes, <1>t DEF BInv, B!RestoresPausedSlice
<1> QED BY <1>c0, <1>c1, <1>c2, <1>c3, <1>c4, <1>c5, <1>c6 DEF BInv

\* The run ends with the pause recorded: what that changes of wb's record.
LEMMA PausedWb ==
  ASSUME wb \in B!Wb, wb' = [wb EXCEPT !.pc = "off", !.exit = "paused"]
  PROVE  /\ wb' \in B!Wb
         /\ wb'.pc = "off" /\ wb'.exit = "paused"
         /\ wb'.slice = wb.slice /\ wb'.held = wb.held /\ wb'.restore = wb.restore /\ wb'.taken = wb.taken
         /\ wb'.timedout = wb.timedout /\ wb'.code = wb.code /\ wb'.by = wb.by /\ wb'.then = wb.then
         /\ wb'.session = wb.session /\ wb'.failed = wb.failed /\ wb'.bail = wb.bail /\ wb'.named = wb.named
BY DEF B!Wb

\* The run pauses, and its checkpoint has a name.
LEMMA PauseNamedBInv ==
  ASSUME BInv, B!PauseSlice, wb.named, wb' = [wb EXCEPT !.pc = "off", !.exit = "paused"],
         disk' = [next |-> wb.slice, pending |-> wb.slice, left |-> FALSE]
  PROVE  BInv'
<1> USE SidecarNumbers
<1>g. wb.pc = "pausing" /\ wb.named /\ wb.slice \in 1..Slices /\ UNCHANGED <<sidecar, browser, restored>>
  BY DEF B!PauseSlice, BInv, InSlice, OfSlice, B!Numbers
<1>k. wb \in B!Wb
  BY SidecarTypes DEF BInv
<1>e. wb' = [wb EXCEPT !.pc = "off", !.exit = "paused"]
  BY <1>g DEF B!PauseSlice
<1>w. /\ wb' \in B!Wb
      /\ wb'.pc = "off" /\ wb'.exit = "paused"
      /\ wb'.slice = wb.slice /\ wb'.held = wb.held /\ wb'.restore = wb.restore /\ wb'.taken = wb.taken
         /\ wb'.timedout = wb.timedout /\ wb'.code = wb.code /\ wb'.by = wb.by /\ wb'.then = wb.then
         /\ wb'.session = wb.session /\ wb'.failed = wb.failed /\ wb'.bail = wb.bail /\ wb'.named = wb.named
  BY <1>e, <1>k, PausedWb
<1>t. B!SidecarTypeOK
  BY DEF BInv
<1>d. disk' = [next |-> wb.slice, pending |-> wb.slice, left |-> FALSE]
  OBVIOUS
<1>dw. disk' \in B!Disk /\ disk'.next = wb.slice /\ disk'.pending = wb.slice
  BY <1>g, <1>d DEF B!Disk
<1>c0. B!SidecarTypeOK'
  BY <1>g, <1>w, <1>t, <1>dw DEF B!SidecarTypeOK
<1>c1. InSlice'
  BY <1>g, <1>w, SidecarTypes, <1>t DEF BInv, InSlice, OfSlice, B!Numbers
<1>c2. Holding'
  BY <1>g, <1>w, SidecarTypes, <1>t DEF BInv, Holding
<1>c3. Tracked'
  BY <1>g, <1>w, SidecarTypes, <1>t DEF BInv, Tracked, OneOut, Quiet, Ordered, Answered
<1>c4. BrowserInv'
  BY <1>g, <1>w DEF BInv, BrowserInv, Holding, Serving, Leaving
<1>c5. Paused'
  BY <1>g, <1>w, <1>dw DEF Paused
<1>c6. B!RestoresPausedSlice'
  BY <1>g, <1>w, SidecarTypes, <1>t DEF BInv, B!RestoresPausedSlice
<1> QED BY <1>c0, <1>c1, <1>c2, <1>c3, <1>c4, <1>c5, <1>c6 DEF BInv

\* The run pauses without a checkpoint.
LEMMA PauseUnnamedBInv ==
  ASSUME BInv, B!PauseSlice, wb' = [wb EXCEPT !.pc = "off", !.exit = "refused"], UNCHANGED disk
  PROVE  BInv'
<1> USE SidecarNumbers
<1>g. wb.pc = "pausing" /\ UNCHANGED <<sidecar, browser, disk, restored>>
  BY DEF B!PauseSlice
<1>k. wb \in B!Wb
  BY SidecarTypes DEF BInv
<1>e. wb' = [wb EXCEPT !.pc = "off", !.exit = "refused"]
  BY <1>g DEF B!PauseSlice
<1>w1. wb' \in B!Wb
  BY <1>e, <1>k DEF B!Wb
<1>w2. wb'.pc = "off" /\ wb'.exit = "refused"
  BY <1>e, <1>k DEF B!Wb
<1>w3. wb'.slice = wb.slice /\ wb'.held = wb.held /\ wb'.restore = wb.restore /\ wb'.taken = wb.taken
       /\ wb'.timedout = wb.timedout /\ wb'.code = wb.code /\ wb'.by = wb.by /\ wb'.then = wb.then
       /\ wb'.session = wb.session /\ wb'.failed = wb.failed /\ wb'.bail = wb.bail /\ wb'.named = wb.named
  BY <1>e, <1>k DEF B!Wb
<1>w. /\ wb' \in B!Wb
      /\ wb'.pc = "off" /\ wb'.exit = "refused"
      /\ wb'.slice = wb.slice /\ wb'.held = wb.held /\ wb'.restore = wb.restore /\ wb'.taken = wb.taken
         /\ wb'.timedout = wb.timedout /\ wb'.code = wb.code /\ wb'.by = wb.by /\ wb'.then = wb.then
         /\ wb'.session = wb.session /\ wb'.failed = wb.failed /\ wb'.bail = wb.bail /\ wb'.named = wb.named
  BY <1>w1, <1>w3, <1>w2
<1>t. B!SidecarTypeOK
  BY DEF BInv
<1>c0. B!SidecarTypeOK'
  BY <1>g, <1>w, SidecarTypes, <1>t DEF BInv, B!SidecarTypeOK
<1>c1. InSlice'
  BY <1>g, <1>w, SidecarTypes, <1>t DEF BInv, InSlice, OfSlice, B!Numbers
<1>c2. Holding'
  BY <1>g, <1>w, SidecarTypes, <1>t DEF BInv, Holding
<1>c3. Tracked'
  BY <1>g, <1>w, SidecarTypes, <1>t DEF BInv, Tracked, OneOut, Quiet, Ordered, Answered
<1>c4. BrowserInv'
  BY <1>g, <1>w, SidecarTypes, <1>t DEF BInv, BrowserInv, Serving, Leaving, Opened, SuspendFirst, Ordered,
    Answered
<1>c5. Paused'
  BY <1>g, <1>w, SidecarTypes, <1>t DEF BInv, Paused
<1>c6. B!RestoresPausedSlice'
  BY <1>g, <1>w, SidecarTypes, <1>t DEF BInv, B!RestoresPausedSlice
<1> QED BY <1>c0, <1>c1, <1>c2, <1>c3, <1>c4, <1>c5, <1>c6 DEF BInv

\* The handle is dropped: the sidecar is shut down or killed.
LEMMA DroppedBInv ==
  ASSUME BInv, B!Dropped \/ B!DropKills
  PROVE  BInv'
<1> USE SidecarNumbers
<1>t. B!SidecarTypeOK
  BY DEF BInv
<1>k. wb \in B!Wb /\ sidecar \in B!Process /\ wb.then \in {"result", "pausing", "ok", "failed"}
  BY <1>t, SidecarTypes
<1>g. wb.pc = "drop" /\ ~wb.held /\ wb.exit # "paused" /\ UNCHANGED <<browser, disk, restored>>
  BY DEF B!Dropped, B!DropKills, BInv, Holding, BrowserInv
<1>1. PICK pc \in {"result", "pausing", "off"}, exit \in {"none", "ok", "failed"} :
        /\ wb' = [wb EXCEPT !.pc = pc, !.exit = exit]
        /\ pc \in {"result", "pausing"} => pc = wb.then
  <2> DEFINE pc == IF wb.then \in {"result", "pausing"} THEN wb.then ELSE "off"
             exit == IF wb.then \in {"result", "pausing"} THEN "none" ELSE wb.then
  <2>1. wb' = [wb EXCEPT !.pc = pc, !.exit = exit]
    BY DEF B!Dropped, B!DropKills, B!Exit
  <2>2. /\ pc \in {"result", "pausing", "off"} /\ exit \in {"none", "ok", "failed"}
        /\ pc \in {"result", "pausing"} => pc = wb.then
    BY <1>k
  <2> HIDE DEF pc, exit
  <2> QED BY <2>1, <2>2
<1>w1. wb' \in B!Wb
  BY <1>k, <1>1 DEF B!Wb
<1>w2. /\ wb'.pc = pc /\ wb'.slice = wb.slice /\ wb'.restore = wb.restore /\ wb'.held = wb.held
       /\ wb'.taken = wb.taken /\ wb'.timedout = wb.timedout /\ wb'.by = wb.by
       /\ wb'.named = wb.named /\ wb'.exit = exit /\ wb'.then = wb.then
  BY <1>k, <1>1 DEF B!Wb
<1>s. sidecar' \in B!Process /\ ~sidecar'.alive
  <2>1. CASE B!Dropped
    BY <1>k, <2>1 DEF B!Dropped
  <2>2. CASE B!DropKills
    <3>0. PICK z \in 0..Slices : z = 0
      OBVIOUS
    <3>1. sidecar' = [sidecar EXCEPT !.alive = FALSE, !.running = z]
      BY <2>2, <3>0 DEF B!DropKills
    <3>2. sidecar' \in B!Process
      BY <1>k, <3>1 DEF B!Process
    <3>3. ~sidecar'.alive
      BY <1>k, <3>1, Zenon DEF B!Process
    <3> QED BY <3>2, <3>3
  <2> QED BY <2>1, <2>2
<1>c0. B!SidecarTypeOK'
  BY <1>g, <1>w1, <1>w2, <1>1, <1>s, SidecarTypes, <1>t DEF BInv, B!SidecarTypeOK
<1>c1. InSlice'
  BY <1>g, <1>w1, <1>w2, <1>1, <1>s, SidecarTypes, <1>t DEF BInv, InSlice, OfSlice, B!Numbers
<1>c2. Holding'
  BY <1>g, <1>w1, <1>w2, <1>1, <1>s, SidecarTypes, <1>t DEF BInv, Holding
<1>c3. Tracked'
  <2>1. wb'.pc = "result" /\ ~wb.timedout => wb.by \in {0, wb.slice}
    BY <1>g, <1>1, <1>w2 DEF BInv, Tracked
  <2> QED BY <1>g, <1>1, <1>w2, <2>1 DEF Tracked
<1>c4. BrowserInv'
  <2>1. wb.then = "pausing" => browser = "open"
    BY <1>g DEF BInv, BrowserInv, Leaving
  <2> QED BY <1>g, <1>1, <1>w2, <1>s, <2>1 DEF BrowserInv, Serving, Leaving
<1>c5. Paused'
  BY <1>g, <1>w1, <1>w2, <1>1, <1>s, SidecarTypes, <1>t DEF BInv, Paused
<1>c6. B!RestoresPausedSlice'
  BY <1>g, <1>w1, <1>w2, <1>1, <1>s, SidecarTypes, <1>t DEF BInv, B!RestoresPausedSlice
<1> QED BY <1>c0, <1>c1, <1>c2, <1>c3, <1>c4, <1>c5, <1>c6 DEF BInv

\* The result of a slice is recorded.
LEMMA RecordSliceBInv ==
  ASSUME BInv, B!RecordSlice
  PROVE  BInv'
<1> USE SidecarNumbers
<1>t. B!SidecarTypeOK
  BY DEF BInv
<1>k. wb \in B!Wb /\ disk \in B!Disk /\ disk.pending \in 0..Slices /\ disk.left \in BOOLEAN
  BY <1>t, SidecarTypes
<1>g. wb.pc = "result" /\ UNCHANGED <<sidecar, browser, restored>>
  BY DEF B!RecordSlice
<1>r. wb.slice \in B!Numbers /\ wb.restore = 0 /\ wb.exit # "paused"
  BY <1>g DEF BInv, InSlice, OfSlice, BrowserInv
<1>v. PICK slice \in 1..Slices + 1 : slice = wb.slice + 1
  BY <1>r DEF B!Numbers
<1>f. PICK failed \in BOOLEAN : wb' = [wb EXCEPT !.pc = "next", !.slice = slice, !.failed = failed,
      !.taken = FALSE]
  <2>1. (wb.failed \/ wb.code # 0) \in BOOLEAN
    OBVIOUS
  <2> QED BY <1>v, <2>1 DEF B!RecordSlice
<1>d. slice \in 1..Slices + 1 /\ failed \in BOOLEAN
  BY <1>v, <1>f
<1>w1. wb' \in B!Wb
  BY <1>k, <1>f, <1>d DEF B!Wb
<1>w2. /\ wb'.pc = "next" /\ wb'.slice = slice /\ wb'.restore = wb.restore /\ wb'.held = wb.held
       /\ wb'.timedout = wb.timedout /\ wb'.named = wb.named /\ wb'.exit = wb.exit
  BY <1>k, <1>f DEF B!Wb
<1>w3. ~wb'.taken
  BY <1>k, <1>f, Zenon DEF B!Wb
<1>n. PICK next \in 1..Slices + 1, pending \in 0..Slices :
        /\ disk' = [disk EXCEPT !.next = next, !.pending = pending]
        /\ pending = IF wb.taken /\ wb.named THEN 0 ELSE disk.pending
  <2>1. PICK pending \in 0..Slices : pending = IF wb.taken /\ wb.named THEN 0 ELSE disk.pending
    BY <1>k
  <2>2. disk' = [B!Advance(disk) EXCEPT !.pending = pending]
    BY <1>k, <2>1 DEF B!RecordSlice, B!Advance, B!Disk
  <2>3. CASE wb.named
    <3>1. disk' = [disk EXCEPT !.next = slice, !.pending = pending]
      BY <1>v, <2>2, <2>3 DEF B!Advance
    <3> QED BY <1>d, <2>1, <3>1
  <2>4. CASE ~wb.named
    <3>1. disk' = [disk EXCEPT !.pending = pending]
      BY <2>2, <2>4 DEF B!Advance
    <3>2. PICK next \in 1..Slices + 1 : next = disk.next
      BY <1>k DEF B!Disk
    <3>3. disk' = [disk EXCEPT !.next = next, !.pending = pending]
      BY <1>k, <3>1, <3>2 DEF B!Disk
    <3> QED BY <2>1, <3>2, <3>3
  <2> QED BY <2>3, <2>4
<1>n1. next \in 1..Slices + 1 /\ pending \in 0..Slices
  BY <1>n
<1>n2. disk' \in B!Disk /\ disk'.next = next /\ disk'.pending = pending /\ disk'.left = disk.left
  BY <1>k, <1>n, <1>n1 DEF B!Disk
<1>c0. B!SidecarTypeOK'
  BY <1>g, <1>r, <1>w1, <1>w2, <1>w3, <1>n1, <1>n2, SidecarTypes, <1>t DEF BInv, B!SidecarTypeOK
<1>c1. InSlice'
  BY <1>g, <1>r, <1>w1, <1>w2, <1>w3, <1>n1, <1>n2, SidecarTypes, <1>t DEF BInv, InSlice, OfSlice, B!Numbers
<1>c2. Holding'
  BY <1>g, <1>r, <1>w1, <1>w2, <1>w3, <1>n1, <1>n2, SidecarTypes, <1>t DEF BInv, Holding
<1>c3. Tracked'
  BY <1>g, <1>r, <1>w1, <1>w2, <1>w3, <1>n1, <1>n2, SidecarTypes, <1>t
    DEF BInv, Tracked, OneOut, Quiet, Ordered, Answered
<1>c4. BrowserInv'
  BY <1>g, <1>r, <1>w1, <1>w2, <1>w3, <1>n1, <1>n2, SidecarTypes, <1>t
    DEF BInv, BrowserInv, Serving, Leaving, Opened, SuspendFirst, Ordered, Answered
<1>c5. Paused'
  <2>1. ~wb.named => pending = 0
    BY <1>n DEF BInv, Paused
  <2>2. ~disk.left => pending = 0
    <3> SUFFICES ASSUME ~disk.left, pending # 0 PROVE FALSE
      OBVIOUS
    <3>1. pending = disk.pending /\ ~ (wb.taken /\ wb.named) /\ wb.named
      BY <1>n, <2>1
    <3>2. wb.restore = disk.pending \/ wb.taken
      BY <1>g, <3>1 DEF BInv, Paused
    <3> QED BY <1>r, <3>1, <3>2
  <2> QED BY <1>r, <1>w2, <1>w3, <1>n2, <2>1, <2>2 DEF Paused
<1>c6. B!RestoresPausedSlice'
  BY <1>g, <1>r, <1>w1, <1>w2, <1>w3, <1>n1, <1>n2, SidecarTypes, <1>t DEF BInv, B!RestoresPausedSlice
<1> QED BY <1>c0, <1>c1, <1>c2, <1>c3, <1>c4, <1>c5, <1>c6 DEF BInv

\* A step of the sidecar's that leaves it a process.
LEMMA OtherBInv ==
  ASSUME BInv, UNCHANGED <<wb, disk, restored>>, sidecar' \in B!Process,
         browser' \in {"none", "open", "closed"},
         sidecar'.alive => sidecar.alive,
         Tracked', BrowserInv'
  PROVE  BInv'
<1>t. B!SidecarTypeOK
  BY DEF BInv
<1>c0. B!SidecarTypeOK'
  BY SidecarTypes, <1>t DEF BInv, B!SidecarTypeOK
<1>c1. InSlice'
  BY SidecarTypes, <1>t DEF BInv, InSlice, OfSlice, B!Numbers
<1>c2. Holding'
  BY SidecarTypes, <1>t DEF BInv, Holding
<1>c3. Tracked'
  OBVIOUS
<1>c4. BrowserInv'
  OBVIOUS
<1>c5. Paused'
  BY SidecarTypes, <1>t DEF BInv, Paused
<1>c6. B!RestoresPausedSlice'
  BY SidecarTypes, <1>t DEF BInv, B!RestoresPausedSlice
<1> QED BY <1>c0, <1>c1, <1>c2, <1>c3, <1>c4, <1>c5, <1>c6 DEF BInv

\* The sidecar answers the greeting.
LEMMA ReadyBInv ==
  ASSUME BInv, B!Ready
  PROVE  BInv'
<1> USE SidecarNumbers
<1>t. B!SidecarTypeOK
  BY DEF BInv
<1>k. /\ sidecar \in B!Process /\ sidecar.inbox \in Seq(B!Command) /\ sidecar.outbox \in Seq(B!Event)
      /\ sidecar.running \in 0..Slices /\ browser \in {"none", "open", "closed"}
  BY <1>t, SidecarTypes
<1> DEFINE x == [type |-> "ready", of |-> 0]
           o == Append(sidecar.outbox, x)
<1>g. /\ sidecar.alive /\ sidecar.inbox # <<>> /\ Head(sidecar.inbox).type = "hello"
      /\ UNCHANGED <<wb, browser, disk, restored>>
      /\ sidecar' = [sidecar EXCEPT !.inbox = Tail(@), !.outbox = o]
  BY DEF B!Ready, B!Emit
<1>x. x \in B!Event /\ x.type = "ready"
  BY DEF B!Event
<1>p. PICK q \in Seq(B!Command) : q = Tail(sidecar.inbox)
  BY <1>g, <1>k, Taken
<1>i. /\ Head(sidecar.inbox) = sidecar.inbox[1] /\ sidecar.inbox[1] \in B!Command
      /\ \A types : /\ \A i \in Places(q, types) : /\ i \in Nat /\ i + 1 \in Places(sidecar.inbox, types)
                       /\ i + 1 # 1
                                                   /\ q[i] = sidecar.inbox[i + 1]
                    /\ \A i \in Places(sidecar.inbox, types) : i \in Nat /\ (i = 1 \/ i - 1 \in Places(q,
                       types))
                    /\ Places(sidecar.inbox, types) = {} => Places(q, types) = {}
                    /\ 1 \in Places(sidecar.inbox, types) <=> sidecar.inbox[1].type \in types
  <2> DEFINE r == sidecar.inbox
  <2>1. r \in Seq(B!Command) /\ r # <<>>
    BY <1>g, <1>k
  <2> HIDE DEF r
  <2>2. /\ Head(r) = r[1] /\ r[1] \in B!Command
        /\ \A types : /\ \A i \in Places(Tail(r), types) : /\ i \in Nat /\ i + 1 \in Places(r, types)
                         /\ i + 1 # 1
                                                   /\ Tail(r)[i] = r[i + 1]
                      /\ \A i \in Places(r, types) : i \in Nat /\ (i = 1 \/ i - 1 \in Places(Tail(r), types))
                      /\ Places(r, types) = {} => Places(Tail(r), types) = {}
                      /\ 1 \in Places(r, types) <=> r[1].type \in types
    BY <2>1, Taken
  <2>3. q = Tail(r)
    BY <1>p DEF r
  <2> QED BY <2>2, <2>3 DEF r
<1>o. /\ o \in Seq(B!Event)
      /\ \A types : Places(o, types) = Places(sidecar.outbox, types)
         \union (IF x.type \in types THEN {Len(sidecar.outbox) + 1} ELSE {})
      /\ \A i \in DOMAIN sidecar.outbox : o[i] = sidecar.outbox[i]
      /\ o[Len(sidecar.outbox) + 1] = x
  <2> DEFINE r == sidecar.outbox
  <2>1. r \in Seq(B!Event) /\ x \in B!Event
    BY <1>k, <1>x
  <2> HIDE DEF r, x
  <2>2. /\ Append(r, x) \in Seq(B!Event)
        /\ \A types : Places(Append(r, x), types) = Places(r, types)
           \union (IF x.type \in types THEN {Len(r) + 1} ELSE {})
        /\ \A i \in DOMAIN r : Append(r, x)[i] = r[i]
        /\ Append(r, x)[Len(r) + 1] = x
    BY <2>1, Appended
  <2> QED BY <2>2 DEF r
<1>f. SuspendFirst => (\E i \in Places(q, {"suspend"}) : \A j \in Places(q, {"shutdown"}) : i < j)
  <2> SUFFICES ASSUME SuspendFirst PROVE \E i \in Places(q, {"suspend"}) : \A j \in Places(q,
      {"shutdown"}) : i < j
    OBVIOUS
  <2>1. PICK i \in Places(sidecar.inbox, {"suspend"}) : \A j \in Places(sidecar.inbox, {"shutdown"}) : i < j
    BY DEF SuspendFirst
  <2>2. i # 1
    BY <1>g, <1>i
  <2>3. i \in Nat /\ i - 1 \in Places(q, {"suspend"})
    BY <1>i, <2>2
  <2>4. \A j \in Places(q, {"shutdown"}) : i - 1 < j
    <3> SUFFICES ASSUME NEW j \in Places(q, {"shutdown"}) PROVE i - 1 < j
      OBVIOUS
    <3>1. j \in Nat /\ j + 1 \in Places(sidecar.inbox, {"shutdown"})
      BY <1>i
    <3>2. i < j + 1
      BY <2>1, <3>1
    <3> QED BY <2>3, <3>1, <3>2
  <2> QED BY <2>3, <2>4
<1> HIDE DEF o, x
<1>s. /\ sidecar' \in B!Process /\ sidecar'.alive = sidecar.alive /\ sidecar'.running = sidecar.running
      /\ sidecar'.inbox = q /\ sidecar'.outbox = o
  <2>1. sidecar' = [sidecar EXCEPT !.inbox = q, !.outbox = o]
    BY <1>g, <1>p
  <2> QED BY <1>k, <1>o, <2>1 DEF B!Process
<1>a. Answered' = Answered
  <2>1. "ready" \notin B!Terminal
    BY DEF B!Terminal
  <2> QED BY <1>s, <1>o, <1>x, <2>1 DEF Answered
<1>b. \A i \in Answered : o[i] = sidecar.outbox[i]
  BY <1>o DEF Answered, Places
<1>1. Tracked'
  <2>1. Quiet => Quiet'
    BY <1>i, <1>s, <1>a DEF Quiet, Ordered
  <2>2. OneOut => OneOut'
    <3> SUFFICES ASSUME OneOut PROVE OneOut'
      OBVIOUS
    <3>1. \A i \in Ordered' : /\ i \in Nat /\ i + 1 \in Ordered /\ q[i] = sidecar.inbox[i + 1]
      BY <1>i, <1>s DEF Ordered
    <3>2. \A i, j \in Ordered' : i = j
      BY <3>1 DEF OneOut
    <3>3. \A i \in Ordered' : sidecar'.inbox[i].of = wb.slice
      BY <1>s, <3>1 DEF OneOut
    <3>4. \A i \in Answered' : sidecar'.outbox[i].of = wb.slice
      BY <1>s, <1>a, <1>b DEF OneOut
    <3>5. Ordered' # {} => Ordered # {}
      BY <3>1
    <3> QED BY <1>g, <1>s, <1>a, <3>2, <3>3, <3>4, <3>5 DEF OneOut
  <2> QED BY <1>g, <2>1, <2>2 DEF BInv, Tracked
<1>2. BrowserInv'
  <2>1. SuspendFirst => SuspendFirst'
    BY <1>f, <1>s DEF SuspendFirst
  <2>2. Opened => Opened'
    BY <1>g, <1>s, <1>a DEF Opened
  <2>3. Places(sidecar.inbox, {"suspend", "shutdown"}) = {} => Places(sidecar'.inbox, {"suspend",
        "shutdown"}) = {}
    BY <1>i, <1>s
  <2> QED BY <1>g, <1>s, <2>1, <2>2, <2>3 DEF BInv, BrowserInv, Serving, Leaving
<1> QED BY <1>g, <1>s, <1>1, <1>2, <1>k, OtherBInv

\* The sidecar takes up a command.
LEMMA WorkBInv ==
  ASSUME BInv, B!Work
  PROVE  BInv'
<1> USE SidecarNumbers
<1>t. B!SidecarTypeOK
  BY DEF BInv
<1>k. /\ sidecar \in B!Process /\ sidecar.inbox \in Seq(B!Command) /\ sidecar.outbox \in Seq(B!Event)
      /\ sidecar.running \in 0..Slices /\ browser \in {"none", "open", "closed"}
  BY <1>t, SidecarTypes
<1>g. /\ sidecar.alive /\ sidecar.inbox # <<>> /\ Head(sidecar.inbox).type = "slice" /\ sidecar.running = 0
      /\ UNCHANGED <<wb, disk, restored>> /\ browser' = "open"
      /\ sidecar' = [sidecar EXCEPT !.inbox = Tail(@), !.running = Head(sidecar.inbox).of]
  BY DEF B!Work
<1>p. PICK q \in Seq(B!Command) : q = Tail(sidecar.inbox)
  BY <1>g, <1>k, Taken
<1>i. /\ Head(sidecar.inbox) = sidecar.inbox[1] /\ sidecar.inbox[1] \in B!Command
      /\ \A types : /\ \A i \in Places(q, types) : /\ i \in Nat /\ i + 1 \in Places(sidecar.inbox, types)
                       /\ i + 1 # 1
                                                   /\ q[i] = sidecar.inbox[i + 1]
                    /\ \A i \in Places(sidecar.inbox, types) : i \in Nat /\ (i = 1 \/ i - 1 \in Places(q,
                       types))
                    /\ Places(sidecar.inbox, types) = {} => Places(q, types) = {}
                    /\ 1 \in Places(sidecar.inbox, types) <=> sidecar.inbox[1].type \in types
  <2> DEFINE r == sidecar.inbox
  <2>1. r \in Seq(B!Command) /\ r # <<>>
    BY <1>g, <1>k
  <2> HIDE DEF r
  <2>2. /\ Head(r) = r[1] /\ r[1] \in B!Command
        /\ \A types : /\ \A i \in Places(Tail(r), types) : /\ i \in Nat /\ i + 1 \in Places(r, types)
                         /\ i + 1 # 1
                                                   /\ Tail(r)[i] = r[i + 1]
                      /\ \A i \in Places(r, types) : i \in Nat /\ (i = 1 \/ i - 1 \in Places(Tail(r), types))
                      /\ Places(r, types) = {} => Places(Tail(r), types) = {}
                      /\ 1 \in Places(r, types) <=> r[1].type \in types
    BY <2>1, Taken
  <2>3. q = Tail(r)
    BY <1>p DEF r
  <2> QED BY <2>2, <2>3 DEF r
<1>f. SuspendFirst => (\E i \in Places(q, {"suspend"}) : \A j \in Places(q, {"shutdown"}) : i < j)
  <2> SUFFICES ASSUME SuspendFirst PROVE \E i \in Places(q, {"suspend"}) : \A j \in Places(q,
      {"shutdown"}) : i < j
    OBVIOUS
  <2>1. PICK i \in Places(sidecar.inbox, {"suspend"}) : \A j \in Places(sidecar.inbox, {"shutdown"}) : i < j
    BY DEF SuspendFirst
  <2>2. i # 1
    BY <1>g, <1>i
  <2>3. i \in Nat /\ i - 1 \in Places(q, {"suspend"})
    BY <1>i, <2>2
  <2>4. \A j \in Places(q, {"shutdown"}) : i - 1 < j
    <3> SUFFICES ASSUME NEW j \in Places(q, {"shutdown"}) PROVE i - 1 < j
      OBVIOUS
    <3>1. j \in Nat /\ j + 1 \in Places(sidecar.inbox, {"shutdown"})
      BY <1>i
    <3>2. i < j + 1
      BY <2>1, <3>1
    <3> QED BY <2>3, <3>1, <3>2
  <2> QED BY <2>3, <2>4
<1>n. PICK n \in 0..Slices : n = sidecar.inbox[1].of
  BY <1>i DEF B!Command
<1>s. /\ sidecar' \in B!Process /\ sidecar'.alive = sidecar.alive /\ sidecar'.running = n
      /\ sidecar'.inbox = q /\ sidecar'.outbox = sidecar.outbox
  <2>1. sidecar' = [sidecar EXCEPT !.inbox = q, !.running = n]
    BY <1>g, <1>p, <1>n, <1>i
  <2> QED BY <1>k, <2>1 DEF B!Process
<1>a. Answered' = Answered /\ 1 \in Ordered
  BY <1>s, <1>g, <1>i DEF Answered, Ordered
<1>1. Tracked'
  <2>1. ~Quiet
    BY <1>a DEF Quiet
  <2>2. OneOut => OneOut'
    <3> SUFFICES ASSUME OneOut PROVE OneOut'
      OBVIOUS
    <3>1. \A i \in Ordered' : i \in Nat /\ i + 1 \in Ordered /\ i + 1 # 1
      BY <1>i, <1>s DEF Ordered
    <3>2. Ordered' = {} /\ n = wb.slice /\ Answered = {}
      BY <1>a, <1>n, <3>1 DEF OneOut
    <3> QED BY <1>g, <1>s, <1>a, <3>2 DEF OneOut
  <2> QED BY <1>g, <2>1, <2>2 DEF BInv, Tracked
<1>2. BrowserInv'
  <2>1. SuspendFirst => SuspendFirst'
    BY <1>f, <1>s DEF SuspendFirst
  <2>3. Places(sidecar.inbox, {"suspend", "shutdown"}) = {} => Places(sidecar'.inbox, {"suspend",
        "shutdown"}) = {}
    BY <1>i, <1>s
  <2> QED BY <1>g, <1>s, <2>1, <2>3 DEF BInv, BrowserInv, Serving, Leaving, Opened
<1> QED BY <1>g, <1>s, <1>1, <1>2, <1>k, OtherBInv

\* An event, or an answer, is put out.
LEMMA EventBInv ==
  ASSUME BInv, B!Note \/ \E type \in B!Terminal : B!Answer(type)
  PROVE  BInv'
<1> USE SidecarNumbers
<1>t. B!SidecarTypeOK
  BY DEF BInv
<1>k. /\ sidecar \in B!Process /\ sidecar.inbox \in Seq(B!Command) /\ sidecar.outbox \in Seq(B!Event)
      /\ sidecar.running \in 0..Slices /\ browser \in {"none", "open", "closed"}
  BY <1>t, SidecarTypes
<1>e. PICK type \in {"note"} \union B!Terminal, running \in 0..Slices :
        /\ sidecar.running # 0 /\ UNCHANGED <<wb, browser, disk, restored>>
        /\ sidecar' = [sidecar EXCEPT !.outbox = Append(sidecar.outbox, [type |-> type,
           of |-> sidecar.running]),
                                      !.running = running]
        /\ running = IF type \in B!Terminal THEN 0 ELSE sidecar.running
  <2>1. CASE B!Note
    <3>1. "note" \notin B!Terminal
      BY DEF B!Terminal
    <3>2. sidecar' = [sidecar EXCEPT !.outbox = Append(sidecar.outbox, [type |-> "note",
          of |-> sidecar.running])]
      BY <2>1 DEF B!Note, B!Emit
    <3> DEFINE o == Append(sidecar.outbox, [type |-> "note", of |-> sidecar.running])
    <3>3. sidecar' = [sidecar EXCEPT !.outbox = o, !.running = sidecar.running]
      <4> HIDE DEF o
      <4>1. sidecar' = [sidecar EXCEPT !.outbox = o]
        BY <3>2 DEF o
      <4> QED BY <1>k, <4>1 DEF B!Process
    <3> QED BY <1>k, <2>1, <3>1, <3>3 DEF B!Note
  <2>2. CASE \E type \in B!Terminal : B!Answer(type)
    <3>1. PICK type \in B!Terminal : B!Answer(type)
      BY <2>2
    <3>2. sidecar' = [sidecar EXCEPT !.outbox = Append(sidecar.outbox, [type |-> type,
          of |-> sidecar.running]), !.running = 0]
      BY <3>1 DEF B!Answer, B!Emit
    <3>3. PICK z \in 0..Slices : z = 0
      OBVIOUS
    <3>4. UNCHANGED <<wb, browser, disk, restored>> /\ sidecar.running # 0
      BY <3>1 DEF B!Answer
    <3>5. sidecar' = [sidecar EXCEPT !.outbox = Append(sidecar.outbox, [type |-> type,
          of |-> sidecar.running]), !.running = z]
      BY <3>2, <3>3
    <3>6. z = IF type \in B!Terminal THEN 0 ELSE sidecar.running
      BY <3>3
    <3>7. type \in {"note"} \union B!Terminal
      OBVIOUS
    <3> QED BY <3>4, <3>5, <3>6, <3>7
  <2> QED BY <2>1, <2>2
<1> DEFINE x == [type |-> type, of |-> sidecar.running]
           o == Append(sidecar.outbox, x)
<1>x. x \in B!Event /\ x.type = type /\ x.of = sidecar.running
  BY <1>e, <1>k DEF B!Event
<1>o. /\ o \in Seq(B!Event)
      /\ \A types : Places(o, types) = Places(sidecar.outbox, types)
         \union (IF x.type \in types THEN {Len(sidecar.outbox) + 1} ELSE {})
      /\ \A i \in DOMAIN sidecar.outbox : o[i] = sidecar.outbox[i]
      /\ o[Len(sidecar.outbox) + 1] = x
  <2> DEFINE r == sidecar.outbox
  <2>1. r \in Seq(B!Event) /\ x \in B!Event
    BY <1>k, <1>x
  <2> HIDE DEF r, x
  <2>2. /\ Append(r, x) \in Seq(B!Event)
        /\ \A types : Places(Append(r, x), types) = Places(r, types)
           \union (IF x.type \in types THEN {Len(r) + 1} ELSE {})
        /\ \A i \in DOMAIN r : Append(r, x)[i] = r[i]
        /\ Append(r, x)[Len(r) + 1] = x
    BY <2>1, Appended
  <2> QED BY <2>2 DEF r
<1>d. sidecar' = [sidecar EXCEPT !.outbox = o, !.running = running] /\ running \in 0..Slices
  BY <1>e
<1> HIDE DEF o, x
<1>s. /\ sidecar' \in B!Process /\ sidecar'.alive = sidecar.alive /\ sidecar'.running = running
      /\ sidecar'.inbox = sidecar.inbox /\ sidecar'.outbox = o
  BY <1>k, <1>o, <1>d DEF B!Process
<1>a. /\ Answered' = Answered \union (IF type \in B!Terminal THEN {Len(sidecar.outbox) + 1} ELSE {})
      /\ Ordered' = Ordered
      /\ \A types : Places(sidecar'.inbox, types) = Places(sidecar.inbox, types)
  BY <1>s, <1>o, <1>x DEF Answered, Ordered
<1>b. \A i \in Answered : o[i] = sidecar.outbox[i]
  BY <1>o DEF Answered, Places
<1>1. Tracked'
  <2>1. ~Quiet
    BY <1>e DEF Quiet
  <2>2. OneOut => OneOut'
    <3> SUFFICES ASSUME OneOut PROVE OneOut'
      OBVIOUS
    <3>1. Answered = {} /\ sidecar.running = wb.slice /\ Ordered = {}
      BY <1>e DEF OneOut
    <3>2. \A i \in Answered' : i = Len(sidecar.outbox) + 1 /\ o[i].of = wb.slice /\ running = 0
      BY <1>a, <1>o, <1>x, <1>e, <3>1
    <3>3. running \in {0, wb.slice} /\ (running # 0 => Answered' = {})
      BY <1>a, <1>e, <3>1
    <3> QED BY <1>e, <1>s, <1>a, <3>1, <3>2, <3>3 DEF OneOut
  <2> QED BY <1>e, <2>1, <2>2 DEF BInv, Tracked
<1>2. BrowserInv'
  <2>1. SuspendFirst => SuspendFirst'
    BY <1>a DEF SuspendFirst
  <2>2. Opened => Opened'
    BY <1>e DEF Opened
  <2> QED BY <1>e, <1>s, <1>a, <2>1, <2>2 DEF BInv, BrowserInv, Serving, Leaving
<1> QED BY <1>e, <1>s, <1>1, <1>2, <1>k, OtherBInv

\* The process ends, asked to or not.
LEMMA GoneBInv ==
  ASSUME BInv, B!Stop \/ B!Crash
  PROVE  BInv'
<1> USE SidecarNumbers
<1>t. B!SidecarTypeOK
  BY DEF BInv
<1>k. /\ sidecar \in B!Process /\ sidecar.inbox \in Seq(B!Command) /\ sidecar.outbox \in Seq(B!Event)
      /\ sidecar.running \in 0..Slices /\ browser \in {"none", "open", "closed"}
  BY <1>t, SidecarTypes
<1>z. PICK z \in 0..Slices : z = 0
  OBVIOUS
<1>m. <<>> \in Seq(B!Command)
  OBVIOUS
<1>n. PICK none \in Seq(B!Command) : none = <<>>
  BY <1>m
<1>0. z = 0 /\ none = <<>>
  BY <1>z, <1>n
<1>g. sidecar' = [sidecar EXCEPT !.alive = FALSE, !.running = z, !.inbox = none] /\ UNCHANGED <<wb, disk,
      restored>>
  BY <1>0 DEF B!Stop, B!Crash
<1>s. /\ sidecar' \in B!Process /\ sidecar'.running = z /\ sidecar'.inbox = none
      /\ sidecar'.outbox = sidecar.outbox
  BY <1>k, <1>g DEF B!Process
<1>b. ~sidecar'.alive
  BY <1>k, <1>g, Zenon DEF B!Process
<1>a. Answered' = Answered /\ (\A types : Places(sidecar'.inbox, types) = {}) /\ sidecar'.running = 0
  BY <1>s, <1>0 DEF Answered, Places
<1>c. Ordered' = {}
  BY <1>a DEF Ordered
<1>1. Tracked'
  <2>1. Quiet => Quiet'
    BY <1>a, <1>c DEF Quiet
  <2>2. OneOut => OneOut'
    BY <1>a, <1>c, <1>g, <1>s DEF OneOut
  <2> QED BY <1>g, <2>1, <2>2 DEF BInv, Tracked
<1>3. Serving \/ Leaving \/ wb.exit = "paused" => browser' = browser
  <2>1. CASE B!Crash
    BY <2>1 DEF B!Crash
  <2>2. CASE B!Stop
    <3> SUFFICES ASSUME Serving \/ Leaving \/ wb.exit = "paused",
        Head(sidecar.inbox).type = "shutdown" PROVE FALSE
      BY <2>2 DEF B!Stop
    <3>1. sidecar.alive /\ sidecar.inbox # <<>>
      BY <2>2 DEF B!Stop
    <3>2. 1 \in DOMAIN sidecar.inbox /\ sidecar.inbox[1].type = "shutdown"
      BY <1>k, <3>1
    <3>3. 1 \in Places(sidecar.inbox, {"shutdown"}) /\ 1 \in Places(sidecar.inbox, {"suspend", "shutdown"})
      BY <3>2 DEF Places
    <3>4. ~Serving
      BY <3>3 DEF BInv, BrowserInv
    <3>5. ~SuspendFirst
      <4> SUFFICES ASSUME NEW i \in Places(sidecar.inbox, {"suspend"}), i < 1 PROVE FALSE
        BY <3>3 DEF SuspendFirst
      <4>1. i \in DOMAIN sidecar.inbox
        BY DEF Places
      <4> QED BY <1>k, <4>1
    <3>6. ~Leaving
      BY <3>1, <3>4, <3>5 DEF BInv, BrowserInv, Serving
    <3>7. wb.exit # "paused"
      BY <3>1, <3>4 DEF BInv, BrowserInv, Holding, Serving
    <3> QED BY <3>4, <3>6, <3>7
  <2> QED BY <2>1, <2>2
<1>2. BrowserInv'
  <2>1. Serving /\ Opened => Opened'
    BY <1>3, <1>a DEF Opened
  <2> QED BY <1>g, <1>a, <1>b, <1>3, <2>1 DEF BInv, BrowserInv, Serving, Leaving
<1>4. browser' \in {"none", "open", "closed"}
  BY <1>k DEF B!Stop, B!Crash
<1> QED BY <1>g, <1>s, <1>b, <1>1, <1>2, <1>4, OtherBInv

\* The run pauses.
LEMMA PauseSliceBInv ==
  ASSUME BInv, B!PauseSlice
  PROVE  BInv'
BY PauseNamedBInv, PauseUnnamedBInv DEF B!PauseSlice

\* Every step.
LEMMA StepBInv == BInv /\ B!Next => BInv'
BY StartBInv, StartAtBInv, SkipBInv, UnpreparedBInv, ReuseBInv, SpawnBInv, HandshakeEventBInv,
   EndsBInv, WriteSliceBInv, SliceEventBInv, NoAnswerBInv, SuspendBInv, SuspendedBInv, PauseSliceBInv,
   DroppedBInv, RecordSliceBInv, ReadyBInv, WorkBInv, EventBInv, GoneBInv
   DEF B!Next, B!Run, B!Other

\* A step of another part.
LEMMA KeptBInv == BInv /\ UNCHANGED browserVars => BInv'
<1> SUFFICES ASSUME BInv, UNCHANGED <<wb, sidecar, browser, disk, restored>> PROVE BInv'
  BY DEF browserVars
<1>t. B!SidecarTypeOK
  BY DEF BInv
<1>c0. B!SidecarTypeOK'
  BY <1>t DEF BInv, B!SidecarTypeOK
<1>c1. InSlice'
  BY <1>t DEF BInv, InSlice, OfSlice, B!Numbers
<1>c2. Holding'
  BY <1>t DEF BInv, Holding
<1>c3. Tracked'
  BY <1>t DEF BInv, Tracked, OneOut, Quiet, Ordered, Answered
<1>c4. BrowserInv'
  BY <1>t DEF BInv, BrowserInv, Serving, Leaving, Opened, SuspendFirst, Ordered, Answered
<1>c5. Paused'
  BY <1>t DEF BInv, Paused
<1>c6. B!RestoresPausedSlice'
  BY <1>t DEF BInv, B!RestoresPausedSlice
<1> QED BY <1>c0, <1>c1, <1>c2, <1>c3, <1>c4, <1>c5, <1>c6 DEF BInv

\* What the invariant says of the properties.
LEMMA SidecarPromises ==
  ASSUME BInv
  PROVE  B!SidecarTypeOK /\ OwnAnswer /\ BrowserLives /\ RestoresPausedSlice
<1>1. OwnAnswer
  BY DEF OwnAnswer, B!OwnAnswer, BInv, Tracked
<1>2. BrowserLives
  <2>1. wb.pc = "off" => ~wb.held /\ ~sidecar.alive
    BY DEF BInv, Holding
  <2>2. wb.exit = "paused" => browser = "open"
    BY DEF BInv, BrowserInv
  <2> QED BY <2>1, <2>2 DEF BrowserLives, B!NoOrphan, B!PausedBrowserStays
<1> QED BY <1>1, <1>2 DEF BInv, RestoresPausedSlice

-----------------------------------------------------------------------------
\* The interpreters.

Kinds == {"live", "replay", "unset"}
Marks == {"rc", "out", "err"}
Has(c, what) == \E i \in DOMAIN c.stdin : c.stdin[i].what \in what
Followed(c, what, by) ==
    \A i, j \in DOMAIN c.stdin : c.stdin[i].what \in what /\ i < j => c.stdin[j].what \in by
Done(c, s) == \E i \in DOMAIN c[s] : c[s][i].done
DoneOnce(c, s) == \A i, j \in DOMAIN c[s] : c[s][i].done /\ c[s][j].done => i = j
NoMore(c) == c.run = 0 /\ ~Has(c, Kinds)

\* Nothing that wb has not seen will arrive on stream s any more but chatter.
AtRest(c, s) == s \notin c.lost /\ ~Done(c, s) /\ ~Has(c, {s}) /\ NoMore(c)

\* One sentinel at most is to come on stream s, after all the code.
Good(c, s) ==
    /\ s \notin c.lost
    /\ Done(c, s) => NoMore(c) /\ ~Has(c, {s})
    /\ DoneOnce(c, s) /\ Followed(c, {s}, Marks \ {s})

Rest(c) ==
    c.open => IF c.tainted THEN AtRest(c, "out") \/ AtRest(c, "err")
                           ELSE AtRest(c, "out") /\ AtRest(c, "err")

ReadingOut(c) ==
    c.open /\ c.tainted => Good(c, "out") \/ Good(c, "err") \/ ("out" \in c.lost /\ ~Done(c, "out"))

ReadingErr(c) ==
    c.open => AtRest(c, "out") \/ (c.tainted /\ Good(c, "err"))

Reading == call.pc \in {"out", "err", "finish"}
UsableYet == call.sent /\ call.code.code # -1 /\ call.partial = {}

Of(l) == IF l = call.lang /\ Reading THEN call.pc ELSE "rest"

Phase(l, c) ==
    /\ Of(l) = "rest" => Rest(c)
    /\ Of(l) = "out" => ReadingOut(c)
    /\ Of(l) = "err" /\ UsableYet => ReadingErr(c)
    /\ Of(l) = "finish" /\ UsableYet => Rest(c)

Current(c) == \A i \in DOMAIN c.stdin : c.stdin[i].what \in Kinds => c.stdin[i].of = request

\* What is in the hands of a running interpreter is one request, the current one.
Held(l, c) ==
    /\ l \notin processes => c = I!Fresh(FALSE)
    /\ l \in Harnessed => ~Has(c, Marks)
    /\ c.run # 0 => c.open /\ ~Has(c, Kinds)
    /\ c.open => Followed(c, Kinds, Marks)
    /\ c.open /\ Of(l) # "rest" => c.run \in {0, request} /\ Current(c)

\* An interpreter that runs with WB_REPLAY set after the replay is about to be cleaned.
Marked(l, c) ==
    /\ c.marked /\ c.open =>
          \/ replaying \/ l \in cleaning
          \/ call.pc # "idle" /\ call.kind = "unset" /\ call.lang = l /\ (Reading => ~NoMore(c))
    /\ c.open /\ Has(c, {"live"}) => ~c.marked

Ended(c) == c.stdin # <<>> => c.stdin[Len(c.stdin)].what = "err"

\* A shell whose stdin nobody read: the protocol follows the code.
Protocolled(c) ==
    /\ Followed(c, Marks, I!Streams)
    /\ NoMore(c) /\ Has(c, {"rc"}) => c.last.of = request
    /\ NoMore(c) /\ ~Has(c, {"rc"}) /\ Has(c, I!Streams) => c.rc.of = request
    /\ ~NoMore(c) => Has(c, {"rc"})

\* The lines of a pipe are the request's, and a sentinel is the last.
Attributed(c, s) ==
    \A i \in DOMAIN c[s] : c[s][i].of = request /\ (c[s][i].done => i = Len(c[s]))

\* An interpreter that nobody tampered with.
Untouched(l, c) ==
    ~c.tainted =>
      /\ c.strays = {} /\ c.lost = {}
      /\ c.open => Good(c, "out") /\ Good(c, "err")
      /\ l \in Shells /\ c.open => Ended(c)
      /\ Of(l) = "rest" => c["out"] = <<>> /\ c["err"] = <<>>
      /\ Of(l) # "rest" =>
           /\ Attributed(c, "out") /\ Attributed(c, "err")
           /\ l \in Shells /\ c.open => Protocolled(c)
           /\ call.pc \in {"err", "finish"} /\ UsableYet => c["out"] = <<>>
           /\ call.pc = "finish" /\ UsableYet => c["err"] = <<>>
           /\ call.heard \subseteq {request}
           /\ call.code.code = 0 /\ call.pc # "out" => call.code.of = request

Fit(l, c) == Phase(l, c) /\ Held(l, c) /\ Marked(l, c) /\ Untouched(l, c)

Calling ==
    /\ env = replaying /\ (replaying => cleaning = {})
    /\ misled = {}
    /\ call.pc # "idle" => request # 0
    /\ call.pc # "idle" /\ call.kind = "live" => ~replaying /\ cleaning = {}
    /\ call.pc # "idle" /\ call.kind = "unset" => ~replaying
    /\ call.pc # "idle" /\ call.kind = "replay" => replaying
    /\ ~Reading => call.heard = {} /\ call.partial = {} /\ call.sent
    /\ call.pc \in {"send", "out", "err"} => call.lang \in processes

IInv == I!SessionTypeOK /\ Calling /\ \A l \in I!Langs : Fit(l, child[l])

\* The bounds are numbers, and there is a language.
LEMMA SessionNumbers ==
  /\ Retries \in Nat /\ MaxRequests \in Nat /\ MaxLines \in Nat \ {0}
  /\ Shells \cap Harnessed = {} /\ I!Langs # {} /\ Tamperers \subseteq I!Langs \X I!Requests
BY ChildrenAssumption DEF I!SessionAssumption, I!Langs, I!Requests

\* The fields of a child.
LEMMA ChildFields ==
  ASSUME NEW c \in I!Child
  PROVE  /\ c.open \in BOOLEAN /\ c.marked \in BOOLEAN /\ c.tainted \in BOOLEAN
         /\ c.run \in 0..MaxRequests /\ c.stdin \in Seq(I!Item)
         /\ c.last \in [of : 0..MaxRequests, code : {0, 1, -1}]
         /\ c.rc \in [of : 0..MaxRequests, code : {0, 1, -1}]
         /\ c["out"] \in Seq(I!Line) /\ c["err"] \in Seq(I!Line)
         /\ c.strays \in SUBSET I!Requests /\ c.lost \in SUBSET I!Streams
BY DEF I!Child

\* The fields of an item of stdin, and of a line.
LEMMA ItemFields ==
  ASSUME NEW i \in I!Item
  PROVE  i.of \in I!Requests /\ i.what \in {"live", "replay", "unset", "rc", "out", "err"}
BY DEF I!Item

\* The fields of a line.
LEMMA LineFields ==
  ASSUME NEW i \in I!Line
  PROVE  i.of \in I!Requests /\ i.done \in BOOLEAN /\ i.code \in {0, 1, -1}
BY DEF I!Line

\* What a child writes on a stream.
LEMMA Writing ==
  ASSUME NEW c \in I!Child, NEW s \in I!Streams, NEW line \in I!Line
  PROVE  LET d == I!Wrote(c, s, line)
         IN /\ d \in I!Child
            /\ d.open = c.open /\ d.marked = c.marked /\ d.tainted = c.tainted /\ d.run = c.run
            /\ d.stdin = c.stdin /\ d.last = c.last /\ d.rc = c.rc
            /\ d.strays = c.strays /\ d.lost = c.lost
            /\ \A t \in I!Streams : t # s => d[t] = c[t]
            /\ s \in c.lost => d[s] = c[s]
            /\ s \notin c.lost => d[s] = Append(c[s], line)
<1>1. CASE s \in c.lost
  BY <1>1 DEF I!Wrote
<1>2. CASE s \notin c.lost /\ s = "out"
  <2> DEFINE q == Append(c["out"], line)
  <2>1. q \in Seq(I!Line)
    BY ChildFields
  <2>2. I!Wrote(c, s, line) = [c EXCEPT !["out"] = q]
    BY <1>2 DEF I!Wrote
  <2> HIDE DEF q
  <2>3. LET d == [c EXCEPT !["out"] = q]
        IN /\ d \in I!Child
            /\ d.open = c.open /\ d.marked = c.marked /\ d.tainted = c.tainted /\ d.run = c.run
            /\ d.stdin = c.stdin /\ d.last = c.last /\ d.rc = c.rc
            /\ d.strays = c.strays /\ d.lost = c.lost
            /\ d["err"] = c["err"] /\ d["out"] = q
    BY <2>1 DEF I!Child
  <2> QED BY <1>2, <2>2, <2>3 DEF q, I!Streams
<1>3. CASE s \notin c.lost /\ s = "err"
  <2> DEFINE q == Append(c["err"], line)
  <2>1. q \in Seq(I!Line)
    BY ChildFields
  <2>2. I!Wrote(c, s, line) = [c EXCEPT !["err"] = q]
    BY <1>3 DEF I!Wrote
  <2> HIDE DEF q
  <2>3. LET d == [c EXCEPT !["err"] = q]
        IN /\ d \in I!Child
            /\ d.open = c.open /\ d.marked = c.marked /\ d.tainted = c.tainted /\ d.run = c.run
            /\ d.stdin = c.stdin /\ d.last = c.last /\ d.rc = c.rc
            /\ d.strays = c.strays /\ d.lost = c.lost
            /\ d["err"] = q /\ d["out"] = c["out"]
    BY <2>1 DEF I!Child
  <2> QED BY <1>3, <2>2, <2>3 DEF q, I!Streams
<1> QED BY <1>1, <1>2, <1>3 DEF I!Streams

\* stdin: a suffix of what it was.
Later(c, d) ==
    \E n \in Nat : /\ Len(d.stdin) + n = Len(c.stdin)
                   /\ \A i \in 1..Len(d.stdin) : d.stdin[i] = c.stdin[i + n]

\* What a suffix of stdin keeps.
LEMMA LaterFacts ==
  ASSUME NEW c \in I!Child, NEW d \in I!Child, Later(c, d)
  PROVE  /\ \A what : Has(d, what) => Has(c, what)
         /\ \A what, by : Followed(c, what, by) => Followed(d, what, by)
         /\ Current(c) => Current(d)
         /\ Ended(c) => Ended(d)
<1>1. c.stdin \in Seq(I!Item) /\ d.stdin \in Seq(I!Item)
  BY ChildFields
<1> DEFINE p == c.stdin
           q == d.stdin
<1>2. PICK n \in Nat : Len(q) + n = Len(p) /\ \A i \in 1..Len(q) : q[i] = p[i + n]
  BY DEF Later
<1>3. p \in Seq(I!Item) /\ q \in Seq(I!Item)
  BY <1>1
<1> HIDE DEF p, q
<1>4. \A i \in DOMAIN q : i \in Nat /\ i + n \in DOMAIN p /\ q[i] = p[i + n]
  BY <1>2, <1>3
<1>5. \A i, j \in DOMAIN q : i < j => i + n < j + n
  BY <1>3
<1>6. q # <<>> => p # <<>> /\ q[Len(q)] = p[Len(p)]
  BY <1>2, <1>3
<1>7. \A what : Has(d, what) => Has(c, what)
  BY <1>4 DEF Has, p, q
<1>8. \A what, by : Followed(c, what, by) => Followed(d, what, by)
  BY <1>4, <1>5 DEF Followed, p, q
<1>9. Current(c) => Current(d)
  BY <1>4 DEF Current, p, q
<1>10. Ended(c) => Ended(d)
  BY <1>6 DEF Ended, p, q
<1> QED BY <1>7, <1>8, <1>9, <1>10

\* An stdin that did not change.
LEMMA SameIsLater ==
  ASSUME NEW c \in I!Child, NEW d \in I!Child, d.stdin = c.stdin
  PROVE  Later(c, d)
<1>1. c.stdin \in Seq(I!Item)
  BY ChildFields
<1> DEFINE p == c.stdin
<1>2. d.stdin = p /\ p \in Seq(I!Item)
  BY <1>1
<1> HIDE DEF p
<1>3. Len(p) + 0 = Len(p) /\ \A i \in 1..Len(p) : p[i] = p[i + 0]
  BY <1>2
<1> QED BY <1>2, <1>3 DEF Later, p

\* Reading the next line of stdin.
LEMMA Taking ==
  ASSUME NEW c \in I!Child, NEW d \in I!Child, c.stdin # <<>>, d.stdin = Tail(c.stdin)
  PROVE  LET item == Head(c.stdin)
         IN /\ Later(c, d) /\ item \in I!Item
            /\ \A what : Has(c, what) <=> item.what \in what \/ Has(d, what)
            /\ \A what, by, none : Followed(c, what, by) /\ item.what \in what /\ by \cap none = {} => ~Has(d,
               none)
            /\ Current(c) /\ item.what \in Kinds => item.of = request
<1> DEFINE p == c.stdin
           q == Tail(p)
<1>1. p \in Seq(I!Item) /\ p # <<>> /\ c.stdin = p
  BY ChildFields
<1>2. d.stdin = q
  OBVIOUS
<1> HIDE DEF p
<1>3. /\ q \in Seq(I!Item) /\ Len(q) + 1 = Len(p) /\ Head(p) = p[1] /\ 1 \in DOMAIN p
      /\ \A i \in 1..Len(q) : q[i] = p[i + 1]
  BY <1>1
<1> HIDE DEF q
<1>4. Later(c, d)
  BY <1>1, <1>2, <1>3 DEF Later
<1>5. \A i \in DOMAIN q : i + 1 \in DOMAIN p /\ 1 < i + 1 /\ q[i] = p[i + 1]
  BY <1>1, <1>3
<1>6. \A i \in DOMAIN p : i = 1 \/ (\E j \in DOMAIN q : p[i] = q[j])
  <2> SUFFICES ASSUME NEW i \in DOMAIN p, i # 1 PROVE \E j \in DOMAIN q : p[i] = q[j]
    OBVIOUS
  <2>1. i - 1 \in DOMAIN q /\ i = (i - 1) + 1
    BY <1>1, <1>3
  <2> QED BY <2>1, <1>3, <1>5
<1>7. \A what : Has(c, what) <=> p[1].what \in what \/ Has(d, what)
  BY <1>1, <1>2, <1>3, <1>5, <1>6 DEF Has
<1>8. \A what, by, none : Followed(c, what, by) /\ p[1].what \in what /\ by \cap none = {} => ~Has(d, none)
  BY <1>1, <1>2, <1>3, <1>5 DEF Has, Followed
<1>9. Current(c) /\ p[1].what \in Kinds => p[1].of = request
  BY <1>1, <1>3 DEF Current
<1>10. p[1] \in I!Item
  BY <1>1, <1>3
<1> QED BY <1>1, <1>3, <1>4, <1>7, <1>8, <1>9, <1>10

\* One more line in a pipe, and one line taken from it.
LEMMA Longer ==
  ASSUME NEW c \in I!Child, NEW d \in I!Child, NEW s \in I!Streams, NEW line \in I!Line,
         d[s] = Append(c[s], line)
  PROVE  /\ Done(d, s) <=> Done(c, s) \/ line.done
         /\ DoneOnce(c, s) /\ (line.done => ~Done(c, s)) => DoneOnce(d, s)
         /\ Attributed(c, s) /\ ~Done(c, s) /\ line.of = request => Attributed(d, s)
<1> DEFINE p == c[s]
           q == Append(p, line)
<1>1. p \in Seq(I!Line) /\ c[s] = p
  BY ChildFields DEF I!Streams
<1>2. d[s] = q
  OBVIOUS
<1> HIDE DEF p
<1>3. /\ Len(q) = Len(p) + 1 /\ q[Len(q)] = line /\ DOMAIN q = 1..Len(p) + 1 /\ DOMAIN p = 1..Len(p)
      /\ \A i \in 1..Len(p) : q[i] = p[i]
      /\ Len(p) \in Nat
  BY <1>1
<1> HIDE DEF q
<1>4. Done(d, s) <=> Done(c, s) \/ line.done
  BY <1>1, <1>2, <1>3 DEF Done
<1>5. DoneOnce(c, s) /\ (line.done => ~Done(c, s)) => DoneOnce(d, s)
  BY <1>1, <1>2, <1>3 DEF Done, DoneOnce
<1>6. Attributed(c, s) /\ ~Done(c, s) /\ line.of = request => Attributed(d, s)
  BY <1>1, <1>2, <1>3 DEF Done, Attributed
<1> QED BY <1>4, <1>5, <1>6

\* Taking the first line of a pipe.
LEMMA Shorter ==
  ASSUME NEW c \in I!Child, NEW d \in I!Child, NEW s \in I!Streams, c[s] # <<>>, d[s] = Tail(c[s])
  PROVE  LET line == Head(c[s])
         IN /\ line \in I!Line
            /\ Done(c, s) <=> line.done \/ Done(d, s)
            /\ DoneOnce(c, s) => DoneOnce(d, s) /\ (line.done => ~Done(d, s))
            /\ Attributed(c, s) => /\ Attributed(d, s) /\ line.of = request
                                   /\ (line.done => d[s] = <<>>)
<1> DEFINE p == c[s]
           q == Tail(p)
<1>1. p \in Seq(I!Line) /\ c[s] = p /\ p # <<>>
  BY ChildFields DEF I!Streams
<1>2. d[s] = q
  OBVIOUS
<1> HIDE DEF p
<1>3. /\ q \in Seq(I!Line) /\ Len(q) + 1 = Len(p) /\ Head(p) = p[1] /\ 1 \in DOMAIN p /\ p[1] \in I!Line
      /\ \A i \in 1..Len(q) : q[i] = p[i + 1]
      /\ DOMAIN q = 1..Len(q) /\ DOMAIN p = 1..Len(q) + 1 /\ Len(q) \in Nat
  BY <1>1
<1> HIDE DEF q
<1>4. \A i \in DOMAIN q : i + 1 \in DOMAIN p /\ 1 # i + 1 /\ q[i] = p[i + 1]
  BY <1>3
<1>5. \A i \in DOMAIN p : i = 1 \/ (\E j \in DOMAIN q : p[i] = q[j] /\ i = j + 1)
  <2> SUFFICES ASSUME NEW i \in DOMAIN p, i # 1 PROVE \E j \in DOMAIN q : p[i] = q[j] /\ i = j + 1
    OBVIOUS
  <2>1. i - 1 \in DOMAIN q /\ i = (i - 1) + 1
    BY <1>3
  <2> QED BY <2>1, <1>3
<1>6. Done(c, s) <=> p[1].done \/ Done(d, s)
  BY <1>1, <1>2, <1>3, <1>4, <1>5 DEF Done
<1>7. DoneOnce(c, s) => DoneOnce(d, s)
  BY <1>1, <1>2, <1>3, <1>4 DEF DoneOnce
<1>8. DoneOnce(c, s) => (p[1].done => ~Done(d, s))
  BY <1>1, <1>2, <1>3, <1>4 DEF DoneOnce, Done
<1>9. Attributed(c, s) => Attributed(d, s) /\ p[1].of = request
  BY <1>1, <1>2, <1>3, <1>4 DEF Attributed
<1>10. Attributed(c, s) => (p[1].done => q = <<>>)
  BY <1>1, <1>3 DEF Attributed
<1> QED BY <1>1, <1>2, <1>3, <1>6, <1>7, <1>8, <1>9, <1>10

\* What the children's steps leave alone.
LEMMA PhaseKept ==
  ASSUME NEW l, NEW c \in I!Child, NEW d \in I!Child, Phase(l, c), d.open => c.open, d.tainted = c.tainted,
         \A s \in I!Streams : (AtRest(c, s) => AtRest(d, s)) /\ (Good(c, s) => Good(d, s)),
         "out" \in c.lost /\ ~Done(c, "out") => "out" \in d.lost /\ ~Done(d, "out")
  PROVE  Phase(l, d)
BY DEF Phase, Rest, ReadingOut, ReadingErr, I!Streams

\* A stream that the step does not write to.
LEMMA GoodOfPrefix ==
  ASSUME NEW c \in I!Child, NEW d \in I!Child, NEW s \in I!Streams, Later(c, d), d.lost = c.lost,
         d[s] = c[s], d.run = 0 \/ d.run = c.run
  PROVE  /\ AtRest(c, s) => AtRest(d, s)
         /\ Good(c, s) => Good(d, s)
         /\ Done(d, s) = Done(c, s)
         /\ Attributed(c, s) => Attributed(d, s)
<1>1. /\ Done(d, s) = Done(c, s) /\ DoneOnce(d, s) = DoneOnce(c, s)
      /\ Attributed(d, s) = Attributed(c, s)
  BY DEF Done, DoneOnce, Attributed
<1>2. NoMore(c) => NoMore(d)
  BY LaterFacts DEF NoMore
<1>3. AtRest(c, s) => AtRest(d, s)
  BY <1>1, <1>2, LaterFacts DEF AtRest
<1>4. Good(c, s) => Good(d, s)
  BY <1>1, <1>2, LaterFacts DEF Good
<1> QED BY <1>1, <1>3, <1>4

\* The step of a shell that reads a line which prints the sentinel.
Sentineled(l, c, d, s, line) ==
    /\ c.open /\ c.run = 0 /\ l \in processes
    /\ c.stdin # <<>> /\ Head(c.stdin).what = s /\ d.stdin = Tail(c.stdin)
    /\ c.rc.of # 0 => line.of = c.rc.of
    /\ d.open = c.open /\ d.marked = c.marked /\ d.tainted = c.tainted /\ d.run = c.run
    /\ d.last = c.last /\ d.rc = c.rc /\ d.strays = c.strays /\ d.lost = c.lost
    /\ \A t \in I!Streams : t # s => d[t] = c[t]
    /\ s \in c.lost => d[s] = c[s]
    /\ s \notin c.lost => d[s] = Append(c[s], line)

\* Printing a sentinel keeps the invariant of the child.
LEMMA FitMark ==
  ASSUME NEW l \in I!Langs, NEW c \in I!Child, NEW d \in I!Child, NEW s \in I!Streams, NEW line \in I!Line,
         Fit(l, c), Calling, Sentineled(l, c, d, s, line)
  PROVE  Fit(l, d)
<1>0. /\ c.open /\ c.run = 0 /\ l \in processes
      /\ c.stdin # <<>> /\ Head(c.stdin).what = s /\ d.stdin = Tail(c.stdin)
      /\ c.rc.of # 0 => line.of = c.rc.of
      /\ d.open = c.open /\ d.marked = c.marked /\ d.tainted = c.tainted /\ d.run = c.run
      /\ d.last = c.last /\ d.rc = c.rc /\ d.strays = c.strays /\ d.lost = c.lost
      /\ \A t \in I!Streams : t # s => d[t] = c[t]
      /\ s \in c.lost => d[s] = c[s]
      /\ s \notin c.lost => d[s] = Append(c[s], line)
  BY DEF Sentineled
<1> USE <1>0
<1> DEFINE item == Head(c.stdin)
<1>1. /\ Later(c, d) /\ item \in I!Item /\ item.what = s
      /\ \A what : Has(c, what) <=> item.what \in what \/ Has(d, what)
      /\ \A what, by, none : Followed(c, what, by) /\ item.what \in what /\ by \cap none = {} => ~Has(d, none)
  BY Taking
<1> HIDE DEF item
<1>2. /\ \A what : Has(d, what) => Has(c, what)
      /\ \A what, by : Followed(c, what, by) => Followed(d, what, by)
      /\ Current(c) => Current(d)
      /\ Ended(c) => Ended(d)
  BY <1>1, LaterFacts
<1>3. Has(c, {s}) /\ Has(c, I!Streams) /\ Has(c, Marks)
  BY <1>1 DEF I!Streams, Marks
<1>s. s \in {"out", "err"}
  BY DEF I!Streams
<1>4. Followed(c, {s}, Marks \ {s}) => ~Has(d, Kinds) /\ ~Has(d, {s})
  <2>1. s \in {s} /\ (Marks \ {s}) \cap Kinds = {} /\ (Marks \ {s}) \cap {s} = {}
    BY DEF Marks, Kinds
  <2> QED BY <1>1, <2>1
<1>5. \A t \in I!Streams : AtRest(c, t) => AtRest(d, t)
  <2> SUFFICES ASSUME NEW t \in I!Streams, AtRest(c, t) PROVE AtRest(d, t)
    OBVIOUS
  <2>1. t # s
    BY <1>3 DEF AtRest
  <2> QED BY <1>1, <2>1, GoodOfPrefix
<1>6. Good(c, s) => Good(d, s)
  <2> SUFFICES ASSUME Good(c, s) PROVE Good(d, s)
    OBVIOUS
  <2>1. d[s] = Append(c[s], line) /\ ~Done(c, s)
    BY <1>3 DEF Good
  <2>2. DoneOnce(d, s)
    BY <2>1, Longer DEF Good
  <2>3. NoMore(d) /\ ~Has(d, {s})
    BY <1>4 DEF Good, NoMore
  <2> QED BY <2>2, <2>3, <1>2 DEF Good
<1>7. \A t \in I!Streams : Good(c, t) => Good(d, t)
  <2> TAKE t \in I!Streams
  <2>1. CASE t = s
    BY <2>1, <1>6
  <2>2. CASE t # s
    BY <2>2, <1>1, GoodOfPrefix
  <2> QED BY <2>1, <2>2
<1>8. "out" \in c.lost /\ ~Done(c, "out") => "out" \in d.lost /\ ~Done(d, "out")
  <2>1. "out" \in c.lost => d["out"] = c["out"]
    BY <1>s DEF I!Streams
  <2> QED BY <2>1 DEF Done
<1>9. Phase(l, d)
  BY <1>5, <1>7, <1>8, PhaseKept DEF Fit
<1>10. Held(l, d)
  <2>1. c.run = 0 /\ Held(l, c)
    BY DEF Fit
  <2> QED BY <2>1, <1>2 DEF Held
<1>11. Marked(l, d)
  <2>1. item.what \notin Kinds
    BY <1>1, <1>s DEF Kinds
  <2>2. NoMore(c) <=> NoMore(d)
    BY <1>1, <2>1 DEF NoMore
  <2> QED BY <1>2, <2>2 DEF Fit, Marked
<1>12. Untouched(l, d)
  <2> SUFFICES ASSUME ~d.tainted PROVE Untouched(l, d)
    BY DEF Untouched
  <2>0. ~c.tainted /\ Untouched(l, c) /\ Good(c, "out") /\ Good(c, "err") /\ c.strays = {} /\ c.lost = {}
    BY DEF Fit, Untouched
  <2>1. Good(d, "out") /\ Good(d, "err")
    BY <2>0, <1>7 DEF I!Streams
  <2>2. l \in Shells => Ended(d)
    BY <2>0, <1>2 DEF Untouched
  <2>3. Of(l) # "rest"
    <3> SUFFICES ASSUME Of(l) = "rest" PROVE FALSE
      OBVIOUS
    <3>1. AtRest(c, "out") /\ AtRest(c, "err")
      BY <2>0 DEF Fit, Phase, Rest
    <3> QED BY <3>1, <1>3, <1>s DEF AtRest
  <2>4. l \in Shells
    BY <1>3, SessionNumbers DEF Fit, Held, I!Langs
  <2>5. Protocolled(c) /\ Attributed(c, "out") /\ Attributed(c, "err") /\ call.heard \subseteq {request}
    BY <2>0, <2>3, <2>4 DEF Untouched
  <2>6. ~Has(d, Kinds) /\ ~Has(d, {"rc"})
    <3>1. s \in Marks /\ I!Streams \cap Kinds = {} /\ I!Streams \cap {"rc"} = {}
      BY <1>s DEF Marks, Kinds, I!Streams
    <3> QED BY <1>1, <2>5, <3>1 DEF Protocolled
  <2>7. ~Has(c, Kinds) /\ ~Has(c, {"rc"}) /\ NoMore(c) /\ NoMore(d)
    BY <1>1, <1>s, <2>6 DEF Kinds, NoMore
  <2>8. c.rc.of = request /\ request # 0
    BY <1>3, <2>3, <2>5, <2>7 DEF Protocolled, Calling, Of, Reading
  <2>9. line.of = request
    BY <2>8
  <2>10. ~Done(c, s) /\ d[s] = Append(c[s], line)
    BY <2>0, <1>3, <1>s DEF Good
  <2>11. Attributed(d, s)
    BY <2>5, <2>9, <2>10, <1>s, Longer
  <2>12. Attributed(d, "out") /\ Attributed(d, "err")
    <3>1. \A t \in I!Streams : t # s => Attributed(d, t)
      BY <2>5 DEF Attributed, I!Streams
    <3> QED BY <3>1, <2>11 DEF I!Streams
  <2>13. Protocolled(d)
    BY <2>5, <2>6, <2>7, <2>8, <1>2 DEF Protocolled
  <2>14. call.pc \in {"err", "finish"} /\ UsableYet => s # "out"
    <3> SUFFICES ASSUME call.pc \in {"err", "finish"}, UsableYet PROVE s # "out"
      OBVIOUS
    <3>1. AtRest(c, "out")
      BY <2>0, <2>3 DEF Fit, Phase, Of, ReadingErr, Rest
    <3> QED BY <3>1, <1>3 DEF AtRest
  <2>15. call.pc = "finish" /\ UsableYet => s # "err"
    <3> SUFFICES ASSUME call.pc = "finish", UsableYet PROVE s # "err"
      OBVIOUS
    <3>1. AtRest(c, "err")
      BY <2>0, <2>3 DEF Fit, Phase, Of, Rest
    <3> QED BY <3>1, <1>3 DEF AtRest
  <2>16. /\ call.pc \in {"err", "finish"} /\ UsableYet => d["out"] = <<>>
         /\ call.pc = "finish" /\ UsableYet => d["err"] = <<>>
    BY <2>0, <2>3, <2>14, <2>15 DEF Untouched, I!Streams
  <2>17. call.code.code = 0 /\ call.pc # "out" => call.code.of = request
    BY <2>0, <2>3 DEF Untouched
  <2> QED BY <2>0, <2>1, <2>2, <2>3, <2>5, <2>12, <2>13, <2>16, <2>17 DEF Untouched
<1> QED BY <1>9, <1>10, <1>11, <1>12 DEF Fit

\* A running child: nothing of what it holds has come to rest.
LEMMA RunningFacts ==
  ASSUME NEW l, NEW c \in I!Child, Fit(l, c), Calling, c.run # 0
  PROVE  /\ c.open /\ ~Has(c, Kinds) /\ ~NoMore(c)
         /\ \A s \in I!Streams : ~AtRest(c, s) /\ (Good(c, s) => ~Done(c, s))
         /\ ~c.tainted => Of(l) # "rest"
         /\ ~c.tainted => ~(call.pc \in {"err", "finish"} /\ UsableYet)
         /\ Of(l) # "rest" => c.run = request
<1>1. c.open /\ ~Has(c, Kinds) /\ ~NoMore(c)
  BY DEF Fit, Held, NoMore
<1>2. \A s \in I!Streams : ~AtRest(c, s) /\ (Good(c, s) => ~Done(c, s))
  BY <1>1 DEF AtRest, Good
<1>3. ~AtRest(c, "out")
  BY <1>2 DEF I!Streams
<1>4. ~c.tainted => Of(l) # "rest"
  BY <1>1, <1>3 DEF Fit, Phase, Rest
<1>5. ~c.tainted => ~(call.pc \in {"err", "finish"} /\ UsableYet)
  BY <1>1, <1>3, <1>4 DEF Fit, Phase, Rest, ReadingErr, Of
<1>6. Of(l) # "rest" => c.run = request
  BY <1>1 DEF Fit, Held
<1> QED BY <1>1, <1>2, <1>4, <1>5, <1>6

\* The step of a shell that saves $?.
LEMMA FitRc ==
  ASSUME NEW l \in I!Langs, NEW c \in I!Child, NEW d \in I!Child,
         Fit(l, c), Calling, c.open, c.run = 0, l \in processes,
         c.stdin # <<>>, Head(c.stdin).what = "rc", d.stdin = Tail(c.stdin),
         d.open = c.open, d.marked = c.marked, d.tainted = c.tainted, d.run = c.run,
         d.rc = c.last, d.strays = c.strays, d.lost = c.lost,
         d["out"] = c["out"], d["err"] = c["err"]
  PROVE  Fit(l, d)
<1> DEFINE item == Head(c.stdin)
<1>1. /\ Later(c, d) /\ item \in I!Item /\ item.what = "rc"
      /\ \A what : Has(c, what) <=> item.what \in what \/ Has(d, what)
      /\ \A what, by, none : Followed(c, what, by) /\ item.what \in what /\ by \cap none = {} => ~Has(d, none)
  BY Taking
<1> HIDE DEF item
<1>2. /\ \A what : Has(d, what) => Has(c, what)
      /\ \A what, by : Followed(c, what, by) => Followed(d, what, by)
      /\ Current(c) => Current(d)
      /\ Ended(c) => Ended(d)
  BY <1>1, LaterFacts
<1>3. Has(c, {"rc"}) /\ Has(c, Marks)
  BY <1>1 DEF Marks
<1>4. \A t \in I!Streams : d[t] = c[t]
  BY DEF I!Streams
<1>5. \A t \in I!Streams : /\ AtRest(c, t) => AtRest(d, t)
                           /\ Good(c, t) => Good(d, t)
                           /\ Done(c, t) = Done(d, t)
                           /\ Attributed(c, t) => Attributed(d, t)
  BY <1>1, <1>4, GoodOfPrefix
<1>6. NoMore(c) <=> NoMore(d)
  BY <1>1 DEF NoMore, Kinds
<1>7. Phase(l, d)
  BY <1>5, PhaseKept DEF Fit, I!Streams
<1>8. Held(l, d)
  <2>1. c.run = 0 /\ Held(l, c)
    BY DEF Fit
  <2> QED BY <2>1, <1>2 DEF Held
<1>9. Marked(l, d)
  BY <1>2, <1>6 DEF Fit, Marked
<1>10. Untouched(l, d)
  <2> SUFFICES ASSUME ~d.tainted PROVE Untouched(l, d)
    BY DEF Untouched
  <2>0. ~c.tainted /\ Untouched(l, c) /\ Good(c, "out") /\ Good(c, "err") /\ c.strays = {} /\ c.lost = {}
    BY DEF Fit, Untouched
  <2>1. Good(d, "out") /\ Good(d, "err")
    BY <2>0, <1>5 DEF I!Streams
  <2>2. l \in Shells => Ended(d)
    BY <2>0, <1>2 DEF Untouched
  <2>4. l \in Shells
    BY <1>3, SessionNumbers DEF Fit, Held, I!Langs
  <2>5. ASSUME Of(l) # "rest" PROVE Protocolled(d) /\ Attributed(d, "out") /\ Attributed(d, "err")
    <3>1. Protocolled(c) /\ Attributed(c, "out") /\ Attributed(c, "err")
      BY <2>0, <2>4, <2>5 DEF Untouched
    <3>2. ~Has(d, Kinds) /\ ~Has(d, {"rc"})
      <4>1. "rc" \in Marks /\ I!Streams \cap Kinds = {} /\ I!Streams \cap {"rc"} = {}
        BY DEF Marks, Kinds, I!Streams
      <4> QED BY <1>1, <3>1, <4>1 DEF Protocolled
    <3>3. NoMore(d) /\ NoMore(c)
      BY <1>6, <3>2 DEF NoMore
    <3>4. d.rc.of = request
      BY <3>1, <3>3, <1>3 DEF Protocolled
    <3>5. Protocolled(d)
      BY <3>1, <3>2, <3>3, <3>4, <1>2 DEF Protocolled
    <3> QED BY <3>1, <3>5, <1>5 DEF I!Streams
  <2> QED BY <2>0, <2>1, <2>2, <2>5 DEF Untouched
<1> QED BY <1>7, <1>8, <1>9, <1>10 DEF Fit

\* The interpreter starts on the code of a request.
LEMMA FitCode ==
  ASSUME NEW l \in I!Langs, NEW c \in I!Child, NEW d \in I!Child,
         Fit(l, c), Calling, c.open, c.run = 0, l \in processes,
         c.stdin # <<>>, Head(c.stdin).what \in Kinds, d.stdin = Tail(c.stdin),
         d.open = c.open, d.marked = c.marked, d.tainted = c.tainted, d.run = Head(c.stdin).of,
         d.rc = c.rc, d.last = c.last, d.strays = c.strays, d.lost = c.lost,
         d["out"] = c["out"], d["err"] = c["err"]
  PROVE  Fit(l, d)
<1> DEFINE item == Head(c.stdin)
<1>1. /\ Later(c, d) /\ item \in I!Item /\ item.what \in Kinds /\ d.run = item.of
      /\ \A what : Has(c, what) <=> item.what \in what \/ Has(d, what)
      /\ \A what, by, none : Followed(c, what, by) /\ item.what \in what /\ by \cap none = {} => ~Has(d, none)
      /\ Current(c) => item.of = request
  BY Taking
<1> HIDE DEF item
<1>2. /\ \A what : Has(d, what) => Has(c, what)
      /\ \A what, by : Followed(c, what, by) => Followed(d, what, by)
      /\ Current(c) => Current(d)
      /\ Ended(c) => Ended(d)
  BY <1>1, LaterFacts
<1>3. Has(c, Kinds) /\ ~NoMore(c)
  BY <1>1 DEF NoMore
<1>4. d.run # 0 /\ ~NoMore(d)
  BY <1>1, ItemFields DEF NoMore, I!Requests
<1>5. \A t \in I!Streams : /\ ~AtRest(c, t)
                           /\ Good(c, t) => Good(d, t)
                           /\ Done(c, t) = Done(d, t)
                           /\ Attributed(c, t) = Attributed(d, t)
  <2> TAKE t \in I!Streams
  <2>1. d[t] = c[t]
    BY DEF I!Streams
  <2>2. Done(c, t) = Done(d, t) /\ DoneOnce(c, t) = DoneOnce(d, t) /\ Attributed(c, t) = Attributed(d, t)
    BY <2>1 DEF Done, DoneOnce, Attributed
  <2>3. ~AtRest(c, t)
    BY <1>3 DEF AtRest
  <2>4. Good(c, t) => Good(d, t)
    BY <1>2, <1>3, <2>2 DEF Good
  <2> QED BY <2>2, <2>3, <2>4
<1>6. ~Has(d, Kinds)
  <2>1. Followed(c, Kinds, Marks) /\ Marks \cap Kinds = {}
    BY DEF Fit, Held, Marks, Kinds
  <2> QED BY <1>1, <2>1
<1>7. Phase(l, d)
  BY <1>5, PhaseKept DEF Fit, I!Streams
<1>8. Held(l, d)
  BY <1>1, <1>2, <1>4, <1>6 DEF Fit, Held
<1>9. Marked(l, d)
  BY <1>2, <1>4 DEF Fit, Marked
<1>10. Untouched(l, d)
  <2> SUFFICES ASSUME ~d.tainted PROVE Untouched(l, d)
    BY DEF Untouched
  <2>0. ~c.tainted /\ Untouched(l, c) /\ Good(c, "out") /\ Good(c, "err") /\ c.strays = {} /\ c.lost = {}
    BY DEF Fit, Untouched
  <2>1. Good(d, "out") /\ Good(d, "err")
    BY <2>0, <1>5 DEF I!Streams
  <2>2. l \in Shells => Ended(d)
    BY <2>0, <1>2 DEF Untouched
  <2>5. ASSUME Of(l) # "rest" PROVE /\ l \in Shells => Protocolled(d)
                                    /\ Attributed(d, "out") /\ Attributed(d, "err")
    <3>1. (l \in Shells => Protocolled(c)) /\ Attributed(c, "out") /\ Attributed(c, "err")
      BY <2>0, <2>5 DEF Untouched
    <3>2. l \in Shells => Has(d, {"rc"})
      <4>1. l \in Shells => Has(c, {"rc"})
        BY <3>1, <1>3 DEF Protocolled
      <4>2. item.what \notin {"rc"}
        BY <1>1 DEF Kinds
      <4> QED BY <1>1, <4>1, <4>2
    <3>3. l \in Shells => Protocolled(d)
      BY <3>1, <3>2, <1>2, <1>4 DEF Protocolled
    <3> QED BY <3>1, <3>3, <1>5 DEF I!Streams
  <2> QED BY <2>0, <2>1, <2>2, <2>5 DEF Untouched
<1> QED BY <1>7, <1>8, <1>9, <1>10 DEF Fit

\* One more line that is no sentinel: of the code that runs, or of a process left behind.
LEMMA FitPrint ==
  ASSUME NEW l \in I!Langs, NEW c \in I!Child, NEW d \in I!Child, NEW s \in I!Streams, NEW line \in I!Line,
         Fit(l, c), Calling, l \in processes, ~line.done,
         c.strays # {} \/ (c.run # 0 /\ line.of = c.run),
         d.open = c.open, d.marked = c.marked, d.tainted = c.tainted, d.run = c.run, d.stdin = c.stdin,
         d.last = c.last, d.rc = c.rc, d.strays = c.strays, d.lost = c.lost,
         \A t \in I!Streams : t # s => d[t] = c[t],
         s \in c.lost => d[s] = c[s],
         s \notin c.lost => d[s] = Append(c[s], line)
  PROVE  Fit(l, d)
<1>1. /\ \A what : Has(d, what) = Has(c, what)
      /\ \A what, by : Followed(c, what, by) = Followed(d, what, by)
      /\ Current(c) = Current(d)
      /\ Ended(c) = Ended(d)
      /\ NoMore(c) = NoMore(d)
      /\ Protocolled(c) => Protocolled(d)
  BY DEF Has, Followed, Current, Ended, NoMore, Protocolled
<1>2. \A t \in I!Streams : (Done(d, t) <=> Done(c, t)) /\ (DoneOnce(c, t) => DoneOnce(d, t))
  <2> TAKE t \in I!Streams
  <2>1. CASE d[t] = c[t]
    BY <2>1 DEF Done, DoneOnce
  <2>2. CASE t = s /\ s \notin c.lost
    <3>1. d[s] = Append(c[s], line)
      BY <2>2
    <3>2. (Done(d, s) <=> Done(c, s)) /\ (DoneOnce(c, s) => DoneOnce(d, s))
      BY <3>1, Longer
    <3> QED BY <2>2, <3>2
  <2> QED BY <2>1, <2>2
<1>3. \A t \in I!Streams : (AtRest(c, t) => AtRest(d, t)) /\ (Good(c, t) => Good(d, t))
  BY <1>1, <1>2 DEF AtRest, Good
<1>4. Phase(l, d)
  BY <1>2, <1>3, PhaseKept DEF Fit, I!Streams
<1>5. Held(l, d)
  BY <1>1 DEF Fit, Held
<1>6. Marked(l, d)
  BY <1>1 DEF Fit, Marked
<1>7. Untouched(l, d)
  <2> SUFFICES ASSUME ~d.tainted PROVE Untouched(l, d)
    BY DEF Untouched
  <2>0. ~c.tainted /\ Untouched(l, c) /\ c.strays = {} /\ c.lost = {}
    BY DEF Fit, Untouched
  <2>1. c.run # 0 /\ line.of = c.run
    BY <2>0
  <2>2. /\ c.open /\ Of(l) # "rest" /\ line.of = request
        /\ ~(call.pc \in {"err", "finish"} /\ UsableYet)
        /\ \A t \in I!Streams : Good(c, t) => ~Done(c, t)
    BY <2>0, <2>1, RunningFacts
  <2>3. Good(c, "out") /\ Good(c, "err") /\ Attributed(c, "out") /\ Attributed(c, "err")
    BY <2>0, <2>2 DEF Untouched
  <2>4. Good(d, "out") /\ Good(d, "err")
    BY <1>3, <2>3 DEF I!Streams
  <2>5. \A t \in I!Streams : Attributed(d, t)
    <3> TAKE t \in I!Streams
    <3>1. Attributed(c, t) /\ ~Done(c, t)
      BY <2>2, <2>3 DEF I!Streams
    <3>2. CASE d[t] = c[t]
      BY <3>1, <3>2 DEF Attributed
    <3>3. CASE t = s
      BY <2>0, <2>2, <3>1, <3>3, Longer
    <3> QED BY <3>2, <3>3
  <2> QED BY <2>0, <2>2, <2>4, <2>5, <1>1 DEF Untouched, I!Streams
<1> QED BY <1>4, <1>5, <1>6, <1>7 DEF Fit

\* The code ends in a shell: $? is set.
LEMMA FitShellReturn ==
  ASSUME NEW l \in I!Langs, NEW c \in I!Child, NEW d \in I!Child,
         Fit(l, c), Calling, l \in processes, c.run # 0,
         d.open = c.open, d.marked <=> c.marked /\ ~(call.kind = "unset" /\ c.run = request),
         d.tainted = c.tainted, d.run = 0, d.stdin = c.stdin,
         d.last.of = c.run, d.rc = c.rc, d.strays = c.strays, d.lost = c.lost,
         d["out"] = c["out"], d["err"] = c["err"]
  PROVE  Fit(l, d)
<1>1. /\ \A what : Has(d, what) <=> Has(c, what)
      /\ \A what, by : Followed(c, what, by) <=> Followed(d, what, by)
      /\ Current(c) <=> Current(d)
      /\ Ended(c) <=> Ended(d)
  BY DEF Has, Followed, Current, Ended
<1>2. \A t \in I!Streams : d[t] = c[t]
  BY DEF I!Streams
<1>3. \A t \in I!Streams : /\ Done(d, t) <=> Done(c, t)
                           /\ DoneOnce(d, t) <=> DoneOnce(c, t)
                           /\ Attributed(d, t) <=> Attributed(c, t)
  BY <1>2 DEF Done, DoneOnce, Attributed
<1>4. /\ c.open /\ ~Has(c, Kinds) /\ ~NoMore(c)
      /\ \A s \in I!Streams : ~AtRest(c, s) /\ (Good(c, s) => ~Done(c, s))
      /\ ~c.tainted => Of(l) # "rest"
      /\ ~c.tainted => ~(call.pc \in {"err", "finish"} /\ UsableYet)
      /\ Of(l) # "rest" => c.run = request
  BY RunningFacts
<1>5. \A s \in I!Streams : Good(c, s) => Good(d, s)
  BY <1>1, <1>3, <1>4 DEF Good
<1>6. Phase(l, d)
  BY <1>3, <1>4, <1>5, PhaseKept DEF Fit, I!Streams
<1>7. Held(l, d)
  BY <1>1, <1>4 DEF Fit, Held
<1>8. Marked(l, d)
  BY <1>1, <1>4 DEF Fit, Marked, Of, Reading
<1>9. Untouched(l, d)
  <2> SUFFICES ASSUME ~d.tainted PROVE Untouched(l, d)
    BY DEF Untouched
  <2>0. ~c.tainted /\ Untouched(l, c) /\ c.strays = {} /\ c.lost = {}
    BY DEF Fit, Untouched
  <2>1. Good(d, "out") /\ Good(d, "err")
    BY <2>0, <1>4, <1>5 DEF Untouched, I!Streams
  <2>2. /\ Of(l) # "rest" /\ Attributed(c, "out") /\ Attributed(c, "err")
        /\ l \in Shells => Ended(c) /\ Protocolled(c)
    BY <2>0, <1>4 DEF Untouched
  <2>3. l \in Shells => Protocolled(d)
    <3> SUFFICES ASSUME l \in Shells PROVE Protocolled(d)
      OBVIOUS
    <3>1. Has(d, {"rc"}) /\ d.last.of = request
      BY <1>1, <1>4, <2>2 DEF Protocolled
    <3> QED BY <3>1, <2>2, <1>1 DEF Protocolled
  <2> QED BY <2>0, <2>1, <2>2, <2>3, <1>1, <1>3, <1>4 DEF Untouched, I!Streams
<1> QED BY <1>6, <1>7, <1>8, <1>9 DEF Fit

\* The code ends in a harness, which prints its sentinel on both streams.
LEMMA FitHarnessReturn ==
  ASSUME NEW l \in Harnessed, NEW c \in I!Child, NEW d \in I!Child, NEW line \in I!Line,
         Fit(l, c), Calling, l \in processes, c.run # 0, line.done, line.of = c.run,
         d.open = c.open, d.marked <=> c.marked /\ ~(call.kind = "unset" /\ c.run = request),
         d.tainted = c.tainted, d.run = 0, d.stdin = c.stdin,
         d.last = c.last, d.rc = c.rc, d.strays = c.strays, d.lost = c.lost,
         \A s \in I!Streams : d[s] = IF s \in c.lost THEN c[s] ELSE Append(c[s], line)
  PROVE  Fit(l, d)
<1>l. l \in I!Langs /\ l \notin Shells
  BY SessionNumbers DEF I!Langs
<1>1. /\ \A what : Has(d, what) <=> Has(c, what)
      /\ \A what, by : Followed(c, what, by) <=> Followed(d, what, by)
      /\ Current(c) <=> Current(d)
      /\ Ended(c) <=> Ended(d)
  BY DEF Has, Followed, Current, Ended
<1>4. /\ c.open /\ ~Has(c, Kinds) /\ ~NoMore(c)
      /\ \A s \in I!Streams : ~AtRest(c, s) /\ (Good(c, s) => ~Done(c, s))
      /\ ~c.tainted => Of(l) # "rest"
      /\ ~c.tainted => ~(call.pc \in {"err", "finish"} /\ UsableYet)
      /\ Of(l) # "rest" => c.run = request
  BY <1>l, RunningFacts
<1>2. NoMore(d) /\ \A s \in I!Streams : ~Has(d, {s})
  <2>1. ~Has(d, Marks)
    BY <1>1 DEF Fit, Held
  <2>2. \A s \in I!Streams : ~Has(d, {s})
    BY <2>1 DEF Has, Marks, I!Streams
  <2> QED BY <2>2, <1>1, <1>4 DEF NoMore
<1>5. \A s \in I!Streams : Good(c, s) => Good(d, s)
  <2> SUFFICES ASSUME NEW s \in I!Streams, Good(c, s) PROVE Good(d, s)
    OBVIOUS
  <2>1. d[s] = Append(c[s], line) /\ ~Done(c, s) /\ DoneOnce(c, s)
    BY <1>4 DEF Good
  <2>2. DoneOnce(d, s)
    BY <2>1, Longer
  <2> QED BY <1>1, <1>2, <2>2 DEF Good
<1>6. Phase(l, d)
  <2>1. "out" \in c.lost => d["out"] = c["out"]
    BY DEF I!Streams
  <2>2. "out" \in c.lost /\ ~Done(c, "out") => "out" \in d.lost /\ ~Done(d, "out")
    BY <2>1 DEF Done
  <2> QED BY <2>2, <1>4, <1>5, PhaseKept DEF Fit
<1>7. Held(l, d)
  BY <1>1, <1>4 DEF Fit, Held
<1>8. Marked(l, d)
  BY <1>1, <1>4 DEF Fit, Marked, Of, Reading
<1>9. Untouched(l, d)
  <2> SUFFICES ASSUME ~d.tainted PROVE Untouched(l, d)
    BY DEF Untouched
  <2>0. ~c.tainted /\ Untouched(l, c) /\ c.strays = {} /\ c.lost = {} /\ Good(c, "out") /\ Good(c, "err")
    BY <1>4 DEF Fit, Untouched
  <2>1. Good(d, "out") /\ Good(d, "err")
    BY <2>0, <1>5 DEF I!Streams
  <2>2. Of(l) # "rest" /\ Attributed(c, "out") /\ Attributed(c, "err") /\ line.of = request
    BY <2>0, <1>4 DEF Untouched
  <2>3. \A s \in I!Streams : Attributed(d, s)
    <3> TAKE s \in I!Streams
    <3>1. d[s] = Append(c[s], line) /\ ~Done(c, s) /\ Attributed(c, s)
      BY <2>0, <2>2, <1>4 DEF I!Streams
    <3> QED BY <3>1, <2>2, Longer
  <2> QED BY <2>0, <2>1, <2>2, <2>3, <1>l, <1>4 DEF Untouched, I!Streams
<1> QED BY <1>6, <1>7, <1>8, <1>9 DEF Fit

\* The interpreter ends.
LEMMA FitQuit ==
  ASSUME NEW l \in I!Langs, NEW c \in I!Child, NEW d \in I!Child,
         Fit(l, c), l \in processes,
         ~d.open, d.marked = c.marked, d.tainted = c.tainted, d.run = 0, d.stdin = c.stdin,
         d.last = c.last, d.rc = c.rc, d.strays = c.strays, d.lost = c.lost,
         d["out"] = c["out"], d["err"] = c["err"]
  PROVE  Fit(l, d)
<1>1. \A what : Has(d, what) <=> Has(c, what)
  BY DEF Has
<1>2. /\ Attributed(d, "out") <=> Attributed(c, "out")
      /\ Attributed(d, "err") <=> Attributed(c, "err")
  BY DEF Attributed
<1>3. Phase(l, d)
  BY DEF Phase, Rest, ReadingOut, ReadingErr
<1>4. Held(l, d)
  BY <1>1 DEF Fit, Held
<1>5. Marked(l, d)
  BY DEF Marked
<1>6. Untouched(l, d)
  BY <1>2 DEF Fit, Untouched
<1> QED BY <1>3, <1>4, <1>5, <1>6 DEF Fit

\* What no careful block does.
LEMMA FitTampered ==
  ASSUME NEW l \in I!Langs, NEW c \in I!Child, NEW d \in I!Child,
         Fit(l, c), Calling, l \in processes, c.run # 0, ~c.tainted, Later(c, d),
         d.open = c.open, d.marked = c.marked, d.tainted, d.run = c.run,
         Good(c, "out") /\ Good(c, "err") => Good(d, "out") \/ Good(d, "err")
  PROVE  Fit(l, d)
<1>1. /\ \A what : Has(d, what) => Has(c, what)
      /\ \A what, by : Followed(c, what, by) => Followed(d, what, by)
      /\ Current(c) => Current(d)
  BY LaterFacts
<1>2. /\ c.open /\ ~Has(c, Kinds) /\ ~NoMore(c)
      /\ Of(l) # "rest"
      /\ ~(call.pc \in {"err", "finish"} /\ UsableYet)
      /\ c.run = request
  BY RunningFacts
<1>3. Good(d, "out") \/ Good(d, "err")
  BY <1>2 DEF Fit, Untouched
<1>4. Phase(l, d)
  BY <1>2, <1>3 DEF Phase, ReadingOut, Of
<1>5. Held(l, d)
  BY <1>1, <1>2 DEF Fit, Held
<1>6. Marked(l, d)
  BY <1>1, <1>2 DEF Fit, Marked, NoMore
<1>7. Untouched(l, d)
  BY DEF Untouched
<1> QED BY <1>4, <1>5, <1>6, <1>7 DEF Fit

\* An invariant of one child depends on the state of wb only.
LEMMA FitKept ==
  ASSUME NEW l, NEW c, UNCHANGED <<processes, replaying, cleaning, request, call>>
  PROVE  Fit(l, c)' <=> Fit(l, c)
BY DEF Fit, Phase, Held, Marked, Untouched, Of, Reading, UsableYet, Current, Protocolled, Attributed

\* A step of one interpreter that keeps the invariant of that child.
LEMMA ChildStep ==
  ASSUME IInv, NEW l \in I!Langs, NEW d \in I!Child, child' = [child EXCEPT ![l] = d], Fit(l, d),
         UNCHANGED <<processes, env, replaying, cleaning, request, call, misled>>
  PROVE  IInv'
<1>1. child \in [I!Langs -> I!Child]
  BY DEF IInv, I!SessionTypeOK
<1>2. child' \in [I!Langs -> I!Child] /\ child'[l] = d /\ \A m \in I!Langs : m # l => child'[m] = child[m]
  BY <1>1
<1>3. \A m \in I!Langs : Fit(m, child[m])'
  <2> TAKE m \in I!Langs
  <2>1. PICK c \in I!Child : c = child'[m]
    BY <1>2
  <2>2. Fit(m, c)
    BY <2>1, <1>2 DEF IInv
  <2>3. Fit(m, c)'
    BY <2>2, FitKept
  <2> QED BY <2>1, <2>3
<1>4. Calling'
  BY DEF IInv, Calling, Reading
<1>5. I!SessionTypeOK'
  BY <1>2 DEF IInv, I!SessionTypeOK
<1> QED BY <1>3, <1>4, <1>5 DEF IInv

\* The interpreters' own steps, one by one: the next line of stdin.
LEMMA TakeIInv ==
  ASSUME IInv, NEW l \in I!Langs, I!Take(l)
  PROVE  IInv'
<1>1. child \in [I!Langs -> I!Child] /\ Calling
  BY DEF IInv, I!SessionTypeOK
<1>2. PICK c \in I!Child : c = child[l]
  BY <1>1
<1>3. Fit(l, c) /\ c.open /\ c.run = 0 /\ l \in processes /\ c.stdin # <<>>
  BY <1>2 DEF IInv, I!Take, I!Alive
<1>4. c.stdin \in Seq(I!Item)
  BY ChildFields
<1> DEFINE q == Tail(c.stdin)
           item == Head(c.stdin)
           rest == [c EXCEPT !.stdin = q]
<1>5. q \in Seq(I!Item) /\ item \in I!Item
  BY <1>3, <1>4
<1>6. UNCHANGED <<processes, env, replaying, cleaning, request, call>>
  BY DEF I!Take, I!Step
<1>7. /\ rest \in I!Child /\ rest.stdin = q /\ rest.run = c.run
      /\ rest.open = c.open /\ rest.marked = c.marked /\ rest.tainted = c.tainted
      /\ rest.last = c.last /\ rest.rc = c.rc /\ rest.strays = c.strays /\ rest.lost = c.lost
      /\ rest["out"] = c["out"] /\ rest["err"] = c["err"]
  <2> HIDE DEF q
  <2> QED BY <1>5 DEF I!Child
<1>8. UNCHANGED misled
  <2>1. item.what = "live" => Has(c, {"live"})
    <3>1. 1 \in DOMAIN c.stdin /\ item = c.stdin[1]
      BY <1>3, <1>4
    <3> QED BY <3>1 DEF Has
  <2>2. ~(item.what = "live" /\ c.marked)
    BY <2>1, <1>3 DEF Fit, Marked
  <2>3. misled' = IF item.what = "live" /\ c.marked THEN misled \cup {item.of} ELSE misled
    BY <1>2 DEF I!Take
  <2> QED BY <2>2, <2>3
<1>9. CASE item.what \in I!Streams
  <2>0. PICK s \in I!Streams : s = item.what
    BY <1>9
  <2> DEFINE line == I!Sentinel(c.rc, item.of)
             d == I!Wrote(rest, s, line)
  <2>1. line \in I!Line
    <3>1. /\ c.rc \in [of : 0..MaxRequests, code : {0, 1, -1}] /\ item.of \in I!Requests
          /\ MaxRequests \in Nat
      BY <1>5, ChildFields, ItemFields, SessionNumbers
    <3>2. c.rc.of \in 0..MaxRequests /\ c.rc.code \in {0, 1, -1}
      BY <3>1
    <3>3. (IF c.rc.of = 0 THEN item.of ELSE c.rc.of) \in I!Requests
      BY <3>1, <3>2 DEF I!Requests
    <3> QED BY <3>2, <3>3 DEF I!Line, I!Sentinel
  <2>2. child' = [child EXCEPT ![l] = d]
    <3>1. Head(child[l].stdin).what \in I!Streams
      BY <1>2, <1>9
    <3>2. child' = [child EXCEPT ![l] = I!Wrote([child[l] EXCEPT !.stdin = Tail(child[l].stdin)],
          Head(child[l].stdin).what,
                            I!Sentinel(child[l].rc, Head(child[l].stdin).of))]
      BY <3>1 DEF I!Take, I!Step, I!Streams
    <3> QED BY <1>2, <2>0, <3>2
  <2> HIDE DEF line, rest, item
  <2>3. /\ d \in I!Child
        /\ d.open = rest.open /\ d.marked = rest.marked /\ d.tainted = rest.tainted /\ d.run = rest.run
        /\ d.stdin = rest.stdin /\ d.last = rest.last /\ d.rc = rest.rc
        /\ d.strays = rest.strays /\ d.lost = rest.lost
        /\ \A t \in I!Streams : t # s => d[t] = rest[t]
        /\ s \in rest.lost => d[s] = rest[s]
        /\ s \notin rest.lost => d[s] = Append(rest[s], line)
    BY <1>7, <2>1, Writing
  <2> HIDE DEF d
  <2>4. \A t \in I!Streams : rest[t] = c[t]
    BY <1>7 DEF I!Streams
  <2>s. c.rc.of # 0 => line.of = c.rc.of
    BY DEF line, I!Sentinel
  <2>5. Head(c.stdin).what = s /\ d.stdin = Tail(c.stdin)
    BY <1>7, <2>0, <2>3 DEF line, item
  <2>6. /\ \A t \in I!Streams : t # s => d[t] = c[t]
        /\ s \in c.lost => d[s] = c[s]
        /\ s \notin c.lost => d[s] = Append(c[s], line)
        /\ d.open = c.open /\ d.marked = c.marked /\ d.tainted = c.tainted /\ d.run = c.run
        /\ d.last = c.last /\ d.rc = c.rc /\ d.strays = c.strays /\ d.lost = c.lost
    BY <1>7, <2>3, <2>4
  <2>7. Fit(l, d)
    <3>1. Calling /\ c.stdin # <<>> /\ d \in I!Child
      BY <1>1, <1>3, <2>3
    <3> HIDE DEF q
    <3>2. Fit(l, c) /\ c.open /\ c.run = 0 /\ l \in processes
      BY <1>3
    <3>3. Head(c.stdin).what = s /\ d.stdin = Tail(c.stdin) 
      BY <2>5
    <3>4. line \in I!Line
      BY <2>1
    <3> HIDE <1>1, <1>3, <2>1
    <3>5. Sentineled(l, c, d, s, line)
      BY <3>1, <3>2, <3>3, <2>s, <2>6 DEF Sentineled
    <3> QED BY <3>1, <3>2, <3>4, <3>5, FitMark
  <2> QED BY <1>6, <1>8, <2>2, <2>3, <2>7, ChildStep
<1>10. CASE item.what = "rc"
  <2> DEFINE d == [rest EXCEPT !.rc = c.last, !.last = I!Unset]
  <2>1. child' = [child EXCEPT ![l] = d]
    BY <1>2, <1>10 DEF I!Take, I!Step, I!Streams
  <2>2. c.last \in [of : 0..MaxRequests, code : {0, 1, -1}] /\ I!Unset \in [of : 0..MaxRequests, code : {0, 1,
        -1}]
    BY ChildFields, SessionNumbers DEF I!Unset
  <2> HIDE DEF rest
  <2>3. PICK u : u = I!Unset
    OBVIOUS
  <2>4. PICK w : w = c.last
    OBVIOUS
  <2>5. d = [rest EXCEPT !.rc = w, !.last = u]
    BY <2>3, <2>4
  <2>6. /\ d \in I!Child /\ d.stdin = rest.stdin /\ d.run = rest.run
        /\ d.open = rest.open /\ d.marked = rest.marked /\ d.tainted = rest.tainted
        /\ d.rc = w /\ d.strays = rest.strays /\ d.lost = rest.lost
        /\ d["out"] = rest["out"] /\ d["err"] = rest["err"]
    BY <1>7, <2>2, <2>3, <2>4, <2>5 DEF I!Child
  <2>7. /\ d \in I!Child /\ d.stdin = q /\ d.run = c.run
        /\ d.open = c.open /\ d.marked = c.marked /\ d.tainted = c.tainted
        /\ d.rc = c.last /\ d.strays = c.strays /\ d.lost = c.lost
        /\ d["out"] = c["out"] /\ d["err"] = c["err"]
    BY <1>7, <2>4, <2>6
  <2> HIDE DEF d
  <2>8. Fit(l, d)
    BY <1>1, <1>3, <1>10, <2>7, FitRc
  <2> QED BY <1>6, <1>8, <2>1, <2>7, <2>8, ChildStep
<1>11. CASE item.what \notin I!Streams \cup {"rc"}
  <2> DEFINE d == [rest EXCEPT !.run = item.of]
  <2>1. child' = [child EXCEPT ![l] = d]
    BY <1>2, <1>11 DEF I!Take, I!Step
  <2>2. item.of \in 0..MaxRequests /\ item.what \in Kinds
    BY <1>5, <1>11, ItemFields, SessionNumbers DEF I!Requests, I!Streams, Kinds
  <2> HIDE DEF rest, item
  <2>6. /\ d \in I!Child /\ d.stdin = rest.stdin /\ d.run = item.of
        /\ d.open = rest.open /\ d.marked = rest.marked /\ d.tainted = rest.tainted
        /\ d.rc = rest.rc /\ d.last = rest.last /\ d.strays = rest.strays /\ d.lost = rest.lost
        /\ d["out"] = rest["out"] /\ d["err"] = rest["err"]
    BY <1>7, <2>2 DEF I!Child
  <2>7. /\ d \in I!Child /\ d.stdin = q /\ d.run = item.of
        /\ d.open = c.open /\ d.marked = c.marked /\ d.tainted = c.tainted
        /\ d.rc = c.rc /\ d.last = c.last /\ d.strays = c.strays /\ d.lost = c.lost
        /\ d["out"] = c["out"] /\ d["err"] = c["err"]
    BY <1>7, <2>6
  <2> HIDE DEF d
  <2>8. Fit(l, d)
    BY <1>1, <1>3, <2>2, <2>7, FitCode DEF item
  <2> QED BY <1>6, <1>8, <2>1, <2>7, <2>8, ChildStep
<1> QED BY <1>9, <1>10, <1>11

\* The running code, or a process left behind, prints.
LEMMA PrintIInv ==
  ASSUME IInv, NEW l \in I!Langs, NEW s \in I!Streams, I!PrintLine(l, s) \/ I!StrayPrint(l, s)
  PROVE  IInv'
<1>1. child \in [I!Langs -> I!Child] /\ Calling
  BY DEF IInv, I!SessionTypeOK
<1>2. PICK c \in I!Child : c = child[l]
  BY <1>1
<1>3. PICK r \in I!Requests : /\ child' = [child EXCEPT ![l] = I!Wrote(c, s, [of |-> r, done |-> FALSE,
                                 code |-> 0])]
                              /\ c.strays # {} \/ (c.run # 0 /\ r = c.run)
  <2>1. CASE I!PrintLine(l, s)
    <3>1. c.run \in I!Requests
      BY <1>2, <2>1, ChildFields, SessionNumbers DEF I!PrintLine, I!Running, I!Requests
    <3> QED BY <1>2, <2>1, <3>1 DEF I!PrintLine, I!Running, I!Step, I!Requests
  <2>2. CASE I!StrayPrint(l, s)
    <3>1. c.strays \subseteq I!Requests
      BY ChildFields
    <3> QED BY <1>2, <2>2, <3>1 DEF I!StrayPrint, I!Step
  <2> QED BY <2>1, <2>2
<1>4. UNCHANGED <<processes, env, replaying, cleaning, request, call, misled>> /\ l \in processes
  BY DEF I!PrintLine, I!StrayPrint, I!Step, I!Alive
<1> DEFINE line == [of |-> r, done |-> FALSE, code |-> 0]
           d == I!Wrote(c, s, line)
<1>5. line \in I!Line /\ line.of = r
  BY DEF I!Line
<1>6. ~line.done
  BY Zenon
<1>7. child' = [child EXCEPT ![l] = d]
  BY <1>3
<1> HIDE DEF line
<1>8. /\ d \in I!Child
      /\ d.open = c.open /\ d.marked = c.marked /\ d.tainted = c.tainted /\ d.run = c.run
      /\ d.stdin = c.stdin /\ d.last = c.last /\ d.rc = c.rc
      /\ d.strays = c.strays /\ d.lost = c.lost
      /\ \A t \in I!Streams : t # s => d[t] = c[t]
      /\ s \in c.lost => d[s] = c[s]
      /\ s \notin c.lost => d[s] = Append(c[s], line)
  BY <1>5, Writing
<1> HIDE DEF d
<1>9. Fit(l, c)
  BY <1>2 DEF IInv
<1>10. Fit(l, d)
  BY <1>1, <1>3, <1>4, <1>5, <1>6, <1>8, <1>9, FitPrint
<1> QED BY <1>4, <1>7, <1>8, <1>10, ChildStep

\* The code of a block returns.
LEMMA ReturnIInv ==
  ASSUME IInv, NEW l \in I!Langs, NEW code \in I!Codes(l), I!Return(l, code)
  PROVE  IInv'
<1>1. child \in [I!Langs -> I!Child] /\ Calling
  BY DEF IInv, I!SessionTypeOK
<1>2. PICK c \in I!Child : c = child[l]
  BY <1>1
<1>3. Fit(l, c) /\ c.run # 0 /\ l \in processes /\ UNCHANGED <<processes, env, replaying, cleaning, request,
      call, misled>>
  BY <1>2 DEF IInv, I!Return, I!Alive, I!Running, I!Step
<1>4. c.run \in I!Requests /\ code \in {0, 1, -1} /\ c.marked \in BOOLEAN
  BY <1>3, ChildFields, SessionNumbers DEF I!Requests, I!Codes
<1>5. PICK z \in 0..MaxRequests : z = 0
  BY SessionNumbers
<1>6. PICK m \in BOOLEAN : m <=> c.marked /\ ~(call.kind = "unset" /\ c.run = request)
  BY Zenon
<1> DEFINE ended == [c EXCEPT !.run = z, !.marked = m]
           rc == [of |-> c.run, code |-> code]
<1>7. /\ ended \in I!Child /\ ended.open = c.open /\ ended.marked = m /\ ended.tainted = c.tainted
      /\ ended.run = z /\ ended.stdin = c.stdin /\ ended.last = c.last /\ ended.rc = c.rc
      /\ ended.strays = c.strays /\ ended.lost = c.lost
      /\ ended["out"] = c["out"] /\ ended["err"] = c["err"]
  BY DEF I!Child
<1>8. ended = [child[l] EXCEPT !.run = 0, !.marked = child[l].marked /\ ~I!IsCleanup(l)]
  <2>1. m = (child[l].marked /\ ~I!IsCleanup(l))
    BY <1>2, <1>4, <1>6 DEF I!IsCleanup
  <2> QED BY <2>1, <1>2, <1>5
<1>9. rc \in [of : 0..MaxRequests, code : {0, 1, -1}] /\ rc.of = c.run
  BY <1>4, ChildFields
<1> HIDE DEF ended
<1>10. CASE l \in Shells
  <2> DEFINE d == [ended EXCEPT !.last = rc]
  <2>1. child' = [child EXCEPT ![l] = d]
    BY <1>2, <1>8, <1>10 DEF I!Return, I!Step, I!Running
  <2> HIDE DEF rc
  <2>2. /\ d \in I!Child /\ d.open = ended.open /\ d.marked = ended.marked /\ d.tainted = ended.tainted
        /\ d.run = ended.run /\ d.stdin = ended.stdin /\ d.last = rc /\ d.rc = ended.rc
        /\ d.strays = ended.strays /\ d.lost = ended.lost
        /\ d["out"] = ended["out"] /\ d["err"] = ended["err"]
    BY <1>7, <1>9 DEF I!Child
  <2> HIDE DEF d
  <2>3. /\ d.open = c.open /\ d.tainted = c.tainted
        /\ d.run = 0 /\ d.stdin = c.stdin /\ d.last.of = c.run /\ d.rc = c.rc
        /\ d.strays = c.strays /\ d.lost = c.lost
        /\ d["out"] = c["out"] /\ d["err"] = c["err"]
    BY <1>5, <1>7, <1>9, <2>2
  <2>4. d.marked <=> c.marked /\ ~(call.kind = "unset" /\ c.run = request)
    BY <1>6, <1>7, <2>2
  <2>5. Fit(l, d)
    BY <1>1, <1>3, <2>2, <2>3, <2>4, FitShellReturn
  <2> QED BY <1>3, <2>1, <2>2, <2>5, ChildStep
<1>11. CASE l \notin Shells
  <2> DEFINE line == I!Sentinel(rc, c.run)
             e == I!Wrote(ended, "out", line)
             d == I!Wrote(e, "err", line)
  <2>1. child' = [child EXCEPT ![l] = d]
    BY <1>2, <1>8, <1>11 DEF I!Return, I!Step, I!Running
  <2>2. line = [of |-> c.run, done |-> TRUE, code |-> code]
    <3>1. line = [of |-> c.run, done |-> (c.run # 0), code |-> code]
      BY <1>3 DEF I!Sentinel
    <3>2. (c.run # 0) = TRUE
      BY <1>3
    <3> QED BY <3>1, <3>2
  <2> HIDE DEF line
  <2>3. line.done
    BY <2>2, Zenon
  <2>4. line \in I!Line /\ line.of = c.run
    BY <1>4, <2>2 DEF I!Line
  <2> HIDE DEF line, rc
  <2>5. "out" \in I!Streams /\ "err" \in I!Streams /\ I!Streams = {"out", "err"}
    BY DEF I!Streams
  <2>6. /\ e \in I!Child /\ e.open = ended.open /\ e.marked = ended.marked /\ e.tainted = ended.tainted
        /\ e.run = ended.run /\ e.stdin = ended.stdin /\ e.last = ended.last /\ e.rc = ended.rc
        /\ e.strays = ended.strays /\ e.lost = ended.lost
        /\ e["err"] = ended["err"]
        /\ "out" \in ended.lost => e["out"] = ended["out"]
        /\ "out" \notin ended.lost => e["out"] = Append(ended["out"], line)
    BY <1>7, <2>4, <2>5, Writing
  <2> HIDE DEF e
  <2>7. /\ d \in I!Child /\ d.open = e.open /\ d.marked = e.marked /\ d.tainted = e.tainted
        /\ d.run = e.run /\ d.stdin = e.stdin /\ d.last = e.last /\ d.rc = e.rc
        /\ d.strays = e.strays /\ d.lost = e.lost
        /\ d["out"] = e["out"]
        /\ "err" \in e.lost => d["err"] = e["err"]
        /\ "err" \notin e.lost => d["err"] = Append(e["err"], line)
    BY <2>4, <2>5, <2>6, Writing
  <2> HIDE DEF d
  <2>8. /\ d.open = c.open /\ d.tainted = c.tainted
        /\ d.run = 0 /\ d.stdin = c.stdin /\ d.last = c.last /\ d.rc = c.rc
        /\ d.strays = c.strays /\ d.lost = c.lost
    BY <1>5, <1>7, <2>6, <2>7
  <2>9. d.marked <=> c.marked /\ ~(call.kind = "unset" /\ c.run = request)
    BY <1>6, <1>7, <2>6, <2>7
  <2>10. \A s \in I!Streams : d[s] = IF s \in c.lost THEN c[s] ELSE Append(c[s], line)
    BY <1>7, <2>5, <2>6, <2>7
  <2>11. l \in Harnessed
    BY <1>11 DEF I!Langs
  <2>12. Fit(l, d)
    BY <1>1, <1>3, <2>2, <2>3, <2>4, <2>7, <2>8, <2>9, <2>10, <2>11, FitHarnessReturn
  <2> QED BY <1>3, <2>1, <2>7, <2>12, ChildStep
<1> QED BY <1>10, <1>11

\* The interpreter ends.
LEMMA QuitIInv ==
  ASSUME IInv, NEW l \in I!Langs, I!Quit(l)
  PROVE  IInv'
<1>1. child \in [I!Langs -> I!Child] /\ Calling
  BY DEF IInv, I!SessionTypeOK
<1>2. PICK c \in I!Child : c = child[l]
  BY <1>1
<1>3. Fit(l, c) /\ l \in processes /\ UNCHANGED <<processes, env, replaying, cleaning, request, call, misled>>
  BY <1>2 DEF IInv, I!Quit, I!Alive, I!Step
<1>4. PICK z \in 0..MaxRequests : z = 0
  BY SessionNumbers
<1> DEFINE d == [c EXCEPT !.open = FALSE, !.run = z]
<1>5. child' = [child EXCEPT ![l] = d]
  BY <1>2, <1>4 DEF I!Quit, I!Step
<1>6. /\ d \in I!Child /\ d.marked = c.marked /\ d.tainted = c.tainted /\ d.run = z /\ d.stdin = c.stdin
      /\ d.last = c.last /\ d.rc = c.rc /\ d.strays = c.strays /\ d.lost = c.lost
      /\ d["out"] = c["out"] /\ d["err"] = c["err"]
  BY DEF I!Child
<1>7. ~d.open
  BY Zenon DEF I!Child
<1> HIDE DEF d
<1>8. Fit(l, d)
  BY <1>3, <1>4, <1>6, <1>7, FitQuit
<1> QED BY <1>3, <1>5, <1>6, <1>8, ChildStep

\* Before a block tampers with its interpreter.
LEMMA TamperingFacts ==
  ASSUME IInv, NEW l \in I!Langs, I!Tampering(l)
  PROVE  /\ child \in [I!Langs -> I!Child] /\ Calling /\ l \in processes
         /\ Fit(l, child[l]) /\ child[l].run # 0 /\ child[l].run \in I!Requests /\ ~child[l].tainted
<1>1. child[l].run \in I!Requests
  BY SessionNumbers DEF I!Tampering, I!Running
<1> QED BY <1>1 DEF IInv, I!SessionTypeOK, I!Tampering, I!Alive, I!Requests

\* It reads the lines meant for the shell.
LEMMA StealIInv ==
  ASSUME IInv, NEW l \in I!Langs, I!Steal(l)
  PROVE  IInv'
<1>1. PICK c \in I!Child : c = child[l]
  BY TamperingFacts DEF I!Steal
<1>2. Calling /\ l \in processes /\ Fit(l, c) /\ c.run # 0 /\ ~c.tainted
  BY <1>1, TamperingFacts DEF I!Steal
<1>3. c.stdin \in Seq(I!Item)
  BY ChildFields
<1>4. PICK n \in 1..Len(c.stdin) :
         child' = [child EXCEPT ![l] = [c EXCEPT !.stdin = SubSeq(c.stdin, n + 1, Len(c.stdin)),
           !.tainted = TRUE]]
  BY <1>1 DEF I!Steal, I!Step
<1>5. UNCHANGED <<processes, env, replaying, cleaning, request, call, misled>>
  BY DEF I!Steal, I!Step
<1> DEFINE p == c.stdin
           q == SubSeq(p, n + 1, Len(p))
           d == [c EXCEPT !.stdin = q, !.tainted = TRUE]
<1>6. child' = [child EXCEPT ![l] = d]
  BY <1>4
<1>p. c.stdin = p /\ p \in Seq(I!Item) /\ n \in 1..Len(p)
  BY <1>3
<1> HIDE DEF p
<1>7. q \in Seq(I!Item) /\ Len(q) + n = Len(p) /\ \A i \in 1..Len(q) : q[i] = p[i + n]
  BY <1>p
<1> HIDE DEF q
<1>8. /\ d \in I!Child /\ d.open = c.open /\ d.marked = c.marked /\ d.run = c.run /\ d.stdin = q
      /\ d.last = c.last /\ d.rc = c.rc /\ d.strays = c.strays /\ d.lost = c.lost
      /\ d["out"] = c["out"] /\ d["err"] = c["err"]
  BY <1>7 DEF I!Child
<1>9. d.tainted
  BY Zenon DEF I!Child
<1> HIDE DEF d
<1>10. Later(c, d)
  <2>1. n \in Nat
    BY <1>p
  <2>2. Len(d.stdin) + n = Len(c.stdin) /\ \A i \in 1..Len(d.stdin) : d.stdin[i] = c.stdin[i + n]
    BY <1>p, <1>7, <1>8
  <2> QED BY <2>1, <2>2 DEF Later
<1>11. Good(c, "out") => Good(d, "out")
  <2>1. "out" \in I!Streams
    BY DEF I!Streams
  <2> QED BY <2>1, <1>8, <1>10, GoodOfPrefix
<1>12. Fit(l, d)
  BY <1>2, <1>8, <1>9, <1>10, <1>11, FitTampered
<1> QED BY <1>5, <1>6, <1>8, <1>12, ChildStep

\* It prints a line that looks like a sentinel.
LEMMA ForgeIInv ==
  ASSUME IInv, NEW l \in I!Langs, I!Forge(l)
  PROVE  IInv'
<1>1. PICK c \in I!Child : c = child[l]
  BY TamperingFacts DEF I!Forge
<1>2. Calling /\ l \in processes /\ Fit(l, c) /\ c.run # 0 /\ ~c.tainted /\ c.run \in I!Requests
  BY <1>1, TamperingFacts DEF I!Forge
<1> DEFINE line == [of |-> c.run, done |-> TRUE, code |-> 0]
           q == Append(c["out"], line)
           d == [c EXCEPT !.out = q, !.tainted = TRUE]
<1>3. child' = [child EXCEPT ![l] = d]
  BY <1>1 DEF I!Forge, I!Step, I!Running
<1>4. UNCHANGED <<processes, env, replaying, cleaning, request, call, misled>>
  BY DEF I!Forge, I!Step
<1>5. q \in Seq(I!Line)
  <2>1. line \in I!Line
    BY <1>2 DEF I!Line
  <2> HIDE DEF line
  <2> QED BY <2>1, ChildFields
<1> HIDE DEF q
<1>6. /\ d \in I!Child /\ d.open = c.open /\ d.marked = c.marked /\ d.run = c.run /\ d.stdin = c.stdin
      /\ d.last = c.last /\ d.rc = c.rc /\ d.strays = c.strays /\ d.lost = c.lost
      /\ d["err"] = c["err"]
  BY <1>5 DEF I!Child
<1>7. d.tainted
  BY Zenon DEF I!Child
<1> HIDE DEF d
<1>8. Later(c, d)
  BY <1>6, SameIsLater
<1>9. Good(c, "err") => Good(d, "err")
  <2>1. "err" \in I!Streams
    BY DEF I!Streams
  <2> QED BY <2>1, <1>6, <1>8, GoodOfPrefix
<1>10. Fit(l, d)
  BY <1>2, <1>6, <1>7, <1>8, <1>9, FitTampered
<1> QED BY <1>3, <1>4, <1>6, <1>10, ChildStep

\* It leaves a process behind.
LEMMA LeaveStrayIInv ==
  ASSUME IInv, NEW l \in I!Langs, I!LeaveStray(l)
  PROVE  IInv'
<1>1. PICK c \in I!Child : c = child[l]
  BY TamperingFacts DEF I!LeaveStray
<1>2. Calling /\ l \in processes /\ Fit(l, c) /\ c.run # 0 /\ ~c.tainted /\ c.run \in I!Requests
  BY <1>1, TamperingFacts DEF I!LeaveStray
<1> DEFINE q == c.strays \cup {c.run}
           d == [c EXCEPT !.strays = q, !.tainted = TRUE]
<1>3. child' = [child EXCEPT ![l] = d]
  BY <1>1 DEF I!LeaveStray, I!Step, I!Running
<1>4. UNCHANGED <<processes, env, replaying, cleaning, request, call, misled>>
  BY DEF I!LeaveStray, I!Step
<1>5. q \in SUBSET I!Requests
  BY <1>2, ChildFields
<1> HIDE DEF q
<1>6. /\ d \in I!Child /\ d.open = c.open /\ d.marked = c.marked /\ d.run = c.run /\ d.stdin = c.stdin
      /\ d.last = c.last /\ d.rc = c.rc /\ d.lost = c.lost
      /\ d["out"] = c["out"] /\ d["err"] = c["err"]
  BY <1>5 DEF I!Child
<1>7. d.tainted
  BY Zenon DEF I!Child
<1> HIDE DEF d
<1>8. Later(c, d)
  BY <1>6, SameIsLater
<1>9. Good(c, "out") => Good(d, "out")
  <2>1. "out" \in I!Streams
    BY DEF I!Streams
  <2> QED BY <2>1, <1>6, <1>8, GoodOfPrefix
<1>10. Fit(l, d)
  BY <1>2, <1>6, <1>7, <1>8, <1>9, FitTampered
<1> QED BY <1>3, <1>4, <1>6, <1>10, ChildStep

\* It loses a stream.
LEMMA LoseStreamIInv ==
  ASSUME IInv, NEW l \in I!Langs, NEW s \in I!Streams, I!LoseStream(l, s)
  PROVE  IInv'
<1>1. PICK c \in I!Child : c = child[l]
  BY TamperingFacts DEF I!LoseStream
<1>2. Calling /\ l \in processes /\ Fit(l, c) /\ c.run # 0 /\ ~c.tainted
  BY <1>1, TamperingFacts DEF I!LoseStream
<1> DEFINE q == c.lost \cup {s}
           d == [c EXCEPT !.lost = q, !.tainted = TRUE]
<1>3. child' = [child EXCEPT ![l] = d]
  BY <1>1 DEF I!LoseStream, I!Step
<1>4. UNCHANGED <<processes, env, replaying, cleaning, request, call, misled>>
  BY DEF I!LoseStream, I!Step
<1>5. q \in SUBSET I!Streams
  BY ChildFields
<1> HIDE DEF q
<1>6. /\ d \in I!Child /\ d.open = c.open /\ d.marked = c.marked /\ d.run = c.run /\ d.stdin = c.stdin
      /\ d.last = c.last /\ d.rc = c.rc /\ d.lost = q
      /\ d["out"] = c["out"] /\ d["err"] = c["err"]
  BY <1>5 DEF I!Child
<1>7. d.tainted
  BY Zenon DEF I!Child
<1> HIDE DEF d
<1>8. Later(c, d)
  BY <1>6, SameIsLater
<1>9. /\ \A what : Has(d, what) <=> Has(c, what)
      /\ \A what, by : Followed(d, what, by) <=> Followed(c, what, by)
      /\ \A t \in I!Streams : (Done(d, t) <=> Done(c, t)) /\ (DoneOnce(d, t) <=> DoneOnce(c, t))
      /\ NoMore(d) <=> NoMore(c)
  BY <1>6 DEF Has, Followed, Done, DoneOnce, NoMore, I!Streams
<1>10. \A t \in I!Streams : t # s /\ Good(c, t) => Good(d, t)
  BY <1>6, <1>9 DEF Good, q
<1>11. Good(c, "out") /\ Good(c, "err") => Good(d, "out") \/ Good(d, "err")
  <2>1. s = "out" \/ s = "err"
    BY DEF I!Streams
  <2>2. "out" \in I!Streams /\ "err" \in I!Streams /\ "out" # "err"
    BY DEF I!Streams
  <2>3. CASE s = "out"
    BY <1>10, <2>2, <2>3
  <2>4. CASE s = "err"
    BY <1>10, <2>2, <2>4
  <2> QED BY <2>1, <2>3, <2>4
<1>12. Fit(l, d)
  BY <1>2, <1>6, <1>7, <1>8, <1>11, FitTampered
<1> QED BY <1>3, <1>4, <1>6, <1>12, ChildStep

\* Every step of the interpreters.
LEMMA ChildrenIInv == IInv /\ I!Children => IInv'
BY TakeIInv, PrintIInv, ReturnIInv, QuitIInv, StealIInv, ForgeIInv, LeaveStrayIInv, LoseStreamIInv
   DEF I!Children, I!Chatter

\* The record of a call.
Calls ==
    [pc : {"idle", "ensure", "send", "out", "err", "finish"}, lang : I!Langs,
     kind : Kinds, attempt : 0 .. 1 + Retries,
     armed : BOOLEAN, heard : SUBSET I!Requests,
     code : [of : 0 .. MaxRequests, code : {0, 1, -1, 127}],
     partial : SUBSET I!Streams, sent : BOOLEAN]

\* The type invariant, with the record of a call as it is kept.
LEMMA SessionTypes ==
  I!SessionTypeOK <=> /\ processes \subseteq I!Langs /\ cleaning \subseteq I!Langs
                      /\ env \in BOOLEAN /\ replaying \in BOOLEAN
                      /\ request \in 0..MaxRequests /\ misled \subseteq I!Requests
                      /\ call \in Calls /\ child \in [I!Langs -> I!Child]
BY DEF I!SessionTypeOK, Calls, Kinds

\* The fields of a call.
LEMMA CallFields ==
  ASSUME NEW w \in Calls
  PROVE  /\ w.pc \in {"idle", "ensure", "send", "out", "err", "finish"} /\ w.lang \in I!Langs
         /\ w.kind \in Kinds /\ w.attempt \in 0..1 + Retries /\ w.armed \in BOOLEAN
         /\ w.heard \in SUBSET I!Requests
         /\ w.code \in [of : 0 .. MaxRequests, code : {0, 1, -1, 127}]
         /\ w.code.of \in 0..MaxRequests /\ w.code.code \in {0, 1, -1, 127}
         /\ w.partial \in SUBSET I!Streams /\ w.sent \in BOOLEAN
<1>1. w.code \in [of : 0 .. MaxRequests, code : {0, 1, -1, 127}]
  BY DEF Calls
<1> QED BY <1>1 DEF Calls

\* The call that is none.
LEMMA NoCallFields ==
  /\ I!NoCall \in Calls /\ I!NoCall.pc = "idle" /\ I!NoCall.kind = "live" /\ I!NoCall.heard = {}
  /\ I!NoCall.partial = {} /\ I!NoCall.sent /\ I!NoCall.attempt = 0
<1>1. (CHOOSE l \in I!Langs : TRUE) \in I!Langs
  BY SessionNumbers
<1>2. PICK l \in I!Langs : l = CHOOSE m \in I!Langs : TRUE
  BY <1>1
<1>3. PICK z \in 0..MaxRequests : z = 0
  BY SessionNumbers
<1>4. PICK n \in 0..1 + Retries : n = 0
  BY SessionNumbers
<1>5. PICK code \in [of : 0 .. MaxRequests, code : {0, 1, -1, 127}] : code = [of |-> 0, code |-> 0]
  BY <1>3
<1>6. I!NoCall = [pc |-> "idle", lang |-> l, kind |-> "live",
                  attempt |-> n, armed |-> FALSE, heard |-> {},
                  code |-> code, partial |-> {}, sent |-> TRUE]
  BY <1>2, <1>4, <1>5 DEF I!NoCall
<1>7. I!NoCall \in Calls
  BY <1>6 DEF Calls, Kinds
<1>8. /\ I!NoCall.pc = "idle" /\ I!NoCall.kind = "live" /\ I!NoCall.heard = {}
      /\ I!NoCall.partial = {} /\ I!NoCall.attempt = 0
  BY <1>4, <1>6
<1>9. I!NoCall.sent
  BY <1>6, Zenon
<1> QED BY <1>7, <1>8, <1>9

\* A child that was just spawned, and the entry of a language without a child.
LEMMA FreshFields ==
  ASSUME NEW b \in BOOLEAN
  PROVE  LET c == I!Fresh(b)
         IN /\ c \in I!Child /\ c.open /\ c.marked = b /\ ~c.tainted /\ c.run = 0 /\ c.stdin = <<>>
            /\ c.strays = {} /\ c.lost = {} /\ c["out"] = <<>> /\ c["err"] = <<>>
<1>0. I!Unset \in [of : 0..MaxRequests, code : {0, 1, -1}]
  BY SessionNumbers DEF I!Unset
<1>1. PICK u \in [of : 0..MaxRequests, code : {0, 1, -1}] : u = I!Unset
  BY <1>0
<1>2. PICK z \in 0..MaxRequests : z = 0
  BY SessionNumbers
<1>3. <<>> \in Seq(I!Item) /\ <<>> \in Seq(I!Line)
  OBVIOUS
<1>4. PICK items \in Seq(I!Item) : items = <<>>
  BY <1>3
<1>5. PICK lines \in Seq(I!Line) : lines = <<>>
  BY <1>3
<1> DEFINE c == [open |-> TRUE, marked |-> b, run |-> z, stdin |-> items, last |-> u, rc |-> u,
                 out |-> lines, err |-> lines, strays |-> {}, lost |-> {}, tainted |-> FALSE]
<1>6. I!Fresh(b) = c
  BY <1>1, <1>2, <1>4, <1>5 DEF I!Fresh
<1>7. c \in I!Child
  BY DEF I!Child
<1>8. /\ c.marked = b /\ c.run = z /\ c.stdin = items /\ c.strays = {} /\ c.lost = {}
      /\ c["out"] = lines /\ c["err"] = lines
  OBVIOUS
<1>9. c.open /\ ~c.tainted
  BY Zenon
<1> HIDE DEF c
<1> QED BY <1>2, <1>4, <1>5, <1>6, <1>7, <1>8, <1>9

\* In a child that was just spawned nothing is under way.
LEMMA FreshIsAtRest ==
  ASSUME NEW b \in BOOLEAN
  PROVE  LET c == I!Fresh(b)
         IN /\ \A what : ~Has(c, what)
            /\ \A what, by : Followed(c, what, by)
            /\ AtRest(c, "out") /\ AtRest(c, "err") /\ Good(c, "out") /\ Good(c, "err")
            /\ Ended(c) /\ Attributed(c, "out") /\ Attributed(c, "err") /\ Current(c) /\ Protocolled(c)
<1>1. PICK c \in I!Child : c = I!Fresh(b)
  BY FreshFields
<1>2. /\ c.run = 0 /\ c.stdin = <<>> /\ c.lost = {} /\ c["out"] = <<>> /\ c["err"] = <<>>
  BY <1>1, FreshFields
<1>3. /\ \A what : ~Has(c, what)
      /\ \A what, by : Followed(c, what, by)
      /\ Ended(c) /\ Current(c)
  BY <1>2 DEF Has, Followed, Ended, Current
<1>4. /\ ~Done(c, "out") /\ ~Done(c, "err") /\ DoneOnce(c, "out") /\ DoneOnce(c, "err")
      /\ Attributed(c, "out") /\ Attributed(c, "err")
  BY <1>2 DEF Done, DoneOnce, Attributed
<1>5. NoMore(c)
  BY <1>2, <1>3 DEF NoMore
<1>6. AtRest(c, "out") /\ AtRest(c, "err") /\ Good(c, "out") /\ Good(c, "err")
  BY <1>2, <1>3, <1>4, <1>5 DEF AtRest, Good
<1>7. Protocolled(c)
  BY <1>3, <1>5 DEF Protocolled
<1> QED BY <1>1, <1>3, <1>4, <1>6, <1>7

\* A child that is not being read stays so, or becomes so.
LEMMA FitAtRest ==
  ASSUME NEW m, NEW c, Fit(m, c),
         Of(m) = "rest" \/ (Rest(c) /\ (~c.tainted => c["out"] = <<>> /\ c["err"] = <<>>)),
         ~Reading' \/ m # call'.lang, m \in processes' <=> m \in processes, Marked(m, c)'
  PROVE  Fit(m, c)'
<1>1. Of(m)' = "rest"
  BY DEF Of
<1>2. Rest(c)
  BY DEF Fit, Phase
<1>3. Phase(m, c)'
  BY <1>1, <1>2 DEF Phase
<1>4. Held(m, c)'
  BY <1>1 DEF Fit, Held
<1>5. Untouched(m, c)'
  BY <1>1 DEF Fit, Untouched
<1> QED BY <1>3, <1>4, <1>5 DEF Fit

\* wb's own steps, one by one.
LEMMA StartIInv ==
  ASSUME IInv, NEW l \in I!Langs, NEW kind \in Kinds, NEW armed \in BOOLEAN, I!Start(l, kind, armed),
         cleaning' \subseteq cleaning, \A m \in cleaning \ cleaning' : m = l /\ kind = "unset",
         kind = "live" => ~replaying /\ cleaning = {}, kind = "unset" => ~replaying,
         kind = "replay" => replaying
  PROVE  IInv'
<1>1. /\ processes \subseteq I!Langs /\ cleaning \subseteq I!Langs
      /\ env \in BOOLEAN /\ replaying \in BOOLEAN
      /\ request \in 0..MaxRequests /\ misled \subseteq I!Requests
      /\ call \in Calls /\ child \in [I!Langs -> I!Child] /\ Calling
  BY SessionTypes DEF IInv
<1>2. PICK n \in 0..1 + Retries : n = 1
  BY SessionNumbers
<1>v. PICK v \in Calls : v = I!NoCall /\ v.heard = {} /\ v.partial = {} /\ v.sent
  BY NoCallFields
<1> DEFINE w == [v EXCEPT !.pc = "ensure", !.lang = l, !.kind = kind, !.attempt = n, !.armed = armed]
<1>3. call' = w
  BY <1>2, <1>v DEF I!Start
<1>w. /\ w \in Calls /\ w.pc = "ensure" /\ w.lang = l /\ w.kind = kind
      /\ w.heard = v.heard /\ w.partial = v.partial /\ w.sent = v.sent
  BY DEF Calls
<1> HIDE DEF w
<1>4. /\ call' \in Calls /\ call'.pc = "ensure" /\ call'.lang = l /\ call'.kind = kind
      /\ call'.heard = {} /\ call'.partial = {} /\ call'.sent
  BY <1>3, <1>v, <1>w
<1>5. /\ call.pc = "idle" /\ request' \in 0..MaxRequests /\ request' # 0
      /\ UNCHANGED <<processes, env, replaying, child, misled>>
  BY <1>1, SessionNumbers DEF I!Start
<1>6. ~Reading /\ ~Reading'
  BY <1>4, <1>5 DEF Reading
<1>7. Calling'
  BY <1>1, <1>4, <1>5, <1>6 DEF Calling
<1>8. \A m \in I!Langs : Fit(m, child[m])'
  <2> TAKE m \in I!Langs
  <2>1. PICK c \in I!Child : c = child[m]
    BY <1>1
  <2>2. Fit(m, c)
    BY <2>1 DEF IInv
  <2>3. Of(m) = "rest"
    BY <1>6 DEF Of
  <2>4. Marked(m, c)'
    <3>1. c.marked /\ c.open => replaying \/ m \in cleaning
      BY <2>2, <1>5 DEF Fit, Marked
    <3>2. m \in cleaning => m \in cleaning' \/ (m = l /\ kind = "unset")
      OBVIOUS
    <3>3. c.open /\ Has(c, {"live"}) => ~c.marked
      BY <2>2 DEF Fit, Marked
    <3> QED BY <3>1, <3>2, <3>3, <1>4, <1>5, <1>6 DEF Marked
  <2>5. Fit(m, c)'
    BY <2>2, <2>3, <2>4, <1>5, <1>6, FitAtRest
  <2> QED BY <2>1, <2>5, <1>5
<1>9. I!SessionTypeOK'
  <2>1. cleaning' \subseteq I!Langs
    BY <1>1
  <2> QED BY <1>1, <1>4, <1>5, <2>1 DEF I!SessionTypeOK, Calls, Kinds
<1> QED BY <1>7, <1>8, <1>9 DEF IInv

\* A block is replayed or run, or the clean-up snippet is.
LEMMA CallsIInv ==
  ASSUME IInv, NEW l \in I!Langs,
         I!ReplayBlock(l) \/ I!UnsetEnv(l) \/ \E armed \in BOOLEAN : I!RunBlock(l, armed)
  PROVE  IInv'
<1>1. Calling /\ call \in Calls /\ call.armed \in BOOLEAN
  BY SessionTypes, CallFields DEF IInv
<1>k. "live" \in Kinds /\ "unset" \in Kinds /\ "replay" \in Kinds
  BY DEF Kinds
<1>2. CASE I!ReplayBlock(l)
  <2>1. replaying /\ I!Start(l, "replay", call.armed) /\ cleaning' = cleaning
    BY <1>2 DEF I!ReplayBlock
  <2>2. PICK kind \in Kinds : kind = "replay"
    BY <1>k
  <2>3. PICK armed \in BOOLEAN : armed = call.armed
    BY <1>1
  <2>4. I!Start(l, kind, armed)
    BY <2>1, <2>2, <2>3
  <2> QED BY <2>1, <2>2, <2>4, StartIInv
<1>3. CASE I!UnsetEnv(l)
  <2>1. l \in cleaning /\ I!Start(l, "unset", call.armed) /\ cleaning' = cleaning \ {l}
    BY <1>3 DEF I!UnsetEnv
  <2>2. PICK kind \in Kinds : kind = "unset"
    BY <1>k
  <2>3. PICK armed \in BOOLEAN : armed = call.armed
    BY <1>1
  <2>4. I!Start(l, kind, armed)
    BY <2>1, <2>2, <2>3
  <2>5. ~replaying
    BY <1>1, <2>1 DEF Calling
  <2> QED BY <2>1, <2>2, <2>4, <2>5, StartIInv
<1>4. CASE \E armed \in BOOLEAN : I!RunBlock(l, armed)
  <2>1. PICK armed \in BOOLEAN : I!RunBlock(l, armed)
    BY <1>4
  <2>2. PICK kind \in Kinds : kind = "live"
    BY <1>k
  <2>3. ~replaying /\ cleaning = {} /\ cleaning' = cleaning /\ I!Start(l, kind, armed)
    BY <2>1, <2>2 DEF I!RunBlock
  <2> QED BY <2>2, <2>3, StartIInv
<1> QED BY <1>2, <1>3, <1>4

\* The replay ends.
LEMMA EndReplayIInv ==
  ASSUME IInv, I!EndReplay
  PROVE  IInv'
<1>1. /\ processes \subseteq I!Langs /\ cleaning \subseteq I!Langs
      /\ env \in BOOLEAN /\ replaying \in BOOLEAN
      /\ request \in 0..MaxRequests /\ misled \subseteq I!Requests
      /\ call \in Calls /\ child \in [I!Langs -> I!Child] /\ Calling
  BY SessionTypes DEF IInv
<1>2. /\ call.pc = "idle" /\ ~replaying' /\ ~env' /\ cleaning' = processes
      /\ UNCHANGED <<processes, request, call, child, misled>>
  BY DEF I!EndReplay
<1>b. replaying' \in BOOLEAN /\ env' \in BOOLEAN
  BY DEF I!EndReplay
<1>3. ~Reading /\ ~Reading'
  BY <1>2 DEF Reading
<1>4. Calling'
  <2>1. env' = replaying'
    BY DEF I!EndReplay
  <2> QED BY <1>1, <1>2, <1>3, <2>1 DEF Calling
<1>5. \A m \in I!Langs : Fit(m, child[m])'
  <2> TAKE m \in I!Langs
  <2>1. PICK c \in I!Child : c = child[m]
    BY <1>1
  <2>2. Fit(m, c)
    BY <2>1 DEF IInv
  <2>3. Of(m) = "rest"
    BY <1>3 DEF Of
  <2>4. Marked(m, c)'
    <3>1. m \notin processes => ~c.marked
      <4> SUFFICES ASSUME m \notin processes PROVE ~c.marked
        OBVIOUS
      <4>1. PICK b \in BOOLEAN : b = FALSE
        OBVIOUS
      <4>2. c = I!Fresh(b)
        BY <2>2, <4>1 DEF Fit, Held
      <4>3. c.marked = b
        BY <4>2, FreshFields
      <4> QED BY <4>1, <4>3
    <3>2. c.open /\ Has(c, {"live"}) => ~c.marked
      BY <2>2 DEF Fit, Marked
    <3> QED BY <3>1, <3>2, <1>2 DEF Marked
  <2>5. Fit(m, c)'
    BY <2>2, <2>3, <2>4, <1>2, <1>3, FitAtRest
  <2> QED BY <2>1, <2>5, <1>2
<1>6. I!SessionTypeOK'
  BY <1>1, <1>2, <1>b, SessionTypes DEF I!SessionTypeOK, Calls, Kinds
<1> QED BY <1>4, <1>5, <1>6 DEF IInv

\* A step of wb that concerns the interpreter of the current call.
LEMMA CallStep ==
  ASSUME IInv, NEW l \in I!Langs, NEW d \in I!Child, call.lang = l, call.pc # "idle",
         child' \in [I!Langs -> I!Child], child'[l] = d, \A m \in I!Langs : m # l => child'[m] = child[m],
         processes' \subseteq I!Langs, \A m \in I!Langs : m # l => (m \in processes' <=> m \in processes),
         UNCHANGED <<env, replaying, cleaning, request, misled>>,
         call' \in Calls, call'.pc # "idle", call'.lang = l, call'.kind = call.kind,
         ~Reading' => call'.heard = {} /\ call'.partial = {} /\ call'.sent,
         call'.pc \in {"send", "out", "err"} => l \in processes',
         Fit(l, d)'
  PROVE  IInv'
<1>1. /\ cleaning \subseteq I!Langs /\ env \in BOOLEAN /\ replaying \in BOOLEAN
      /\ request \in 0..MaxRequests /\ misled \subseteq I!Requests
      /\ call \in Calls /\ child \in [I!Langs -> I!Child] /\ Calling
  BY SessionTypes DEF IInv
<1>2. Calling'
  BY <1>1 DEF Calling
<1>3. \A m \in I!Langs : Fit(m, child[m])'
  <2> TAKE m \in I!Langs
  <2>1. CASE m = l
    BY <2>1
  <2>2. CASE m # l
    <3>1. PICK c \in I!Child : c = child[m]
      BY <1>1
    <3>2. Fit(m, c) /\ Of(m) = "rest"
      BY <2>2, <3>1 DEF IInv, Of
    <3>3. Marked(m, c)'
      BY <2>2, <3>2 DEF Fit, Marked
    <3>4. Fit(m, c)'
      BY <2>2, <3>2, <3>3, FitAtRest
    <3> QED BY <2>2, <3>1, <3>4
  <2> QED BY <2>1, <2>2
<1>4. I!SessionTypeOK'
  BY <1>1 DEF I!SessionTypeOK, Calls, Kinds
<1> QED BY <1>2, <1>3, <1>4 DEF IInv

\* The state before any such step.
LEMMA CallFacts ==
  ASSUME IInv, call.pc # "idle"
  PROVE  /\ processes \subseteq I!Langs /\ request \in 0..MaxRequests /\ request # 0
         /\ replaying \in BOOLEAN /\ env = replaying
         /\ call \in Calls /\ call.lang \in I!Langs /\ child \in [I!Langs -> I!Child] /\ Calling
         /\ child[call.lang] \in I!Child /\ Fit(call.lang, child[call.lang])
<1>1. /\ processes \subseteq I!Langs /\ request \in 0..MaxRequests
      /\ replaying \in BOOLEAN
      /\ call \in Calls /\ child \in [I!Langs -> I!Child] /\ Calling
  BY SessionTypes DEF IInv
<1>2. call.lang \in I!Langs
  BY <1>1, CallFields
<1> QED BY <1>1, <1>2 DEF IInv, Calling

\* The interpreter of the call is there, is spawned, or cannot be.
LEMMA EnsureIInv ==
  ASSUME IInv, I!Ensure
  PROVE  IInv'
<1>1. /\ call.pc = "ensure" /\ call.pc # "idle"
      /\ UNCHANGED <<env, replaying, cleaning, request, misled>>
  BY DEF I!Ensure
<1>2. PICK l \in I!Langs : l = call.lang
  BY <1>1, CallFacts
<1>3. PICK c \in I!Child : c = child[l]
  BY <1>1, <1>2, CallFacts
<1>4. /\ processes \subseteq I!Langs /\ request \in 0..MaxRequests /\ request # 0
      /\ call \in Calls /\ child \in [I!Langs -> I!Child] /\ Calling /\ Fit(l, c)
      /\ replaying \in BOOLEAN /\ env = replaying
  BY <1>1, <1>2, <1>3, CallFacts
<1>5. ~Reading /\ Of(l) = "rest" /\ call.heard = {} /\ call.partial = {} /\ call.sent
  BY <1>1, <1>4 DEF Reading, Of, Calling
<1>6. CASE call' = [call EXCEPT !.pc = "send"]
  <2>1. /\ call' \in Calls /\ call'.pc = "send" /\ call'.lang = l /\ call'.kind = call.kind
        /\ call'.heard = call.heard /\ call'.partial = call.partial /\ call'.sent = call.sent
    BY <1>2, <1>4, <1>6 DEF Calls
  <2>2. ~Reading'
    BY <2>1 DEF Reading
  <2>3. CASE l \in processes /\ UNCHANGED <<processes, child>>
    <3>1. Marked(l, c)'
      BY <2>1, <2>2, <2>3, <1>1, <1>2, <1>4, <1>5 DEF Fit, Marked
    <3>2. Fit(l, c)'
      BY <1>4, <1>5, <2>2, <2>3, <3>1, FitAtRest
    <3>3. child'[l] = c /\ child' \in [I!Langs -> I!Child] /\ \A m \in I!Langs : child'[m] = child[m]
      BY <1>3, <1>4, <2>3
    <3> QED BY <1>1, <1>2, <1>4, <1>5, <2>1, <2>3, <3>2, <3>3, CallStep
  <2>4. CASE processes' = processes \cup {l} /\ child' = [child EXCEPT ![l] = I!Fresh(env)]
    <3>1. PICK b \in BOOLEAN : b = env
      BY <1>4
    <3>2. PICK d \in I!Child : d = I!Fresh(b)
      BY FreshFields
    <3>3. /\ d.open /\ d.marked = b /\ ~d.tainted /\ d.run = 0 /\ d.stdin = <<>>
          /\ d.strays = {} /\ d.lost = {} /\ d["out"] = <<>> /\ d["err"] = <<>>
      BY <3>2, FreshFields
    <3>4. /\ \A what : ~Has(d, what)
          /\ \A what, by : Followed(d, what, by)
          /\ AtRest(d, "out") /\ AtRest(d, "err") /\ Good(d, "out") /\ Good(d, "err") /\ Ended(d)
      BY <3>2, FreshIsAtRest
    <3>5. Of(l)' = "rest"
      BY <2>2 DEF Of
    <3>6. Phase(l, d)'
      BY <3>4, <3>5 DEF Phase, Rest
    <3>7. Held(l, d)'
      BY <2>4, <3>3, <3>4, <3>5 DEF Held
    <3>8. Marked(l, d)'
      BY <1>1, <1>4, <3>1, <3>3, <3>4 DEF Marked
    <3>9. Untouched(l, d)'
      BY <3>3, <3>4, <3>5 DEF Untouched
    <3>10. Fit(l, d)'
      BY <3>6, <3>7, <3>8, <3>9 DEF Fit
    <3>11. child' \in [I!Langs -> I!Child] /\ child'[l] = d /\ \A m \in I!Langs : m # l => child'[m] = child[m]
      BY <1>4, <2>4, <3>1, <3>2
    <3> QED BY <1>1, <1>2, <1>4, <1>5, <2>1, <2>4, <3>10, <3>11, CallStep
  <2>5. call'.pc # "finish"
    BY <2>1
  <2>6. ~(l \notin processes /\ call' = [call EXCEPT !.pc = "finish", !.code = [of |-> 0, code |-> 127]])
    <3>1. SUFFICES ASSUME call' = [call EXCEPT !.pc = "finish", !.code = [of |-> 0, code |-> 127]] PROVE FALSE
      OBVIOUS
    <3>2. call'.pc = "finish"
      BY <3>1, <1>4 DEF Calls
    <3> QED BY <3>2, <2>5
  <2> QED BY <1>2, <2>3, <2>4, <2>6 DEF I!Ensure
<1>7. CASE l \notin processes /\ call' = [call EXCEPT !.pc = "finish", !.code = [of |-> 0, code |-> 127]]
           /\ UNCHANGED <<processes, child>>
  <2>1. PICK z \in 0..MaxRequests : z = 0
    BY SessionNumbers
  <2>2. PICK code \in [of : 0 .. MaxRequests, code : {0, 1, -1, 127}] : code = [of |-> 0, code |-> 127]
    BY <2>1
  <2>3. call' = [call EXCEPT !.pc = "finish", !.code = code]
    BY <1>7, <2>2
  <2>4. /\ call' \in Calls /\ call'.pc = "finish" /\ call'.lang = l /\ call'.kind = call.kind
        /\ call'.heard = call.heard /\ call'.partial = call.partial /\ call'.sent = call.sent
        /\ call'.code = code
    BY <1>2, <1>4, <2>3 DEF Calls
  <2>5. call'.code.code # 0 /\ Reading' /\ Of(l)' = "finish"
    BY <2>2, <2>4 DEF Reading, Of
  <2>6. PICK b \in BOOLEAN : b = FALSE
    OBVIOUS
  <2>7. c = I!Fresh(b)
    BY <1>4, <1>7, <2>6 DEF Fit, Held
  <2>8. /\ c.open /\ c.marked = b /\ ~c.tainted /\ c.run = 0 /\ c.stdin = <<>>
        /\ c.strays = {} /\ c.lost = {} /\ c["out"] = <<>> /\ c["err"] = <<>>
    BY <2>7, FreshFields
  <2>9. /\ \A what : ~Has(c, what)
        /\ \A what, by : Followed(c, what, by)
        /\ AtRest(c, "out") /\ AtRest(c, "err") /\ Good(c, "out") /\ Good(c, "err") /\ Ended(c)
    BY <2>7, FreshIsAtRest
  <2>10. Attributed(c, "out")' /\ Attributed(c, "err")' /\ Current(c)' /\ Protocolled(c)'
    <3>1. \A what : ~Has(c, what)
      BY <2>9
    <3>2. Attributed(c, "out")' /\ Attributed(c, "err")' /\ Current(c)'
      BY <2>8 DEF Attributed, Current
    <3>3. NoMore(c)
      BY <2>8, <3>1 DEF NoMore
    <3> QED BY <3>1, <3>2, <3>3, <2>9 DEF Protocolled
  <2>11. Phase(l, c)'
    BY <2>5, <2>9 DEF Phase, Rest
  <2>12. Held(l, c)'
    BY <1>4, <1>7, <2>8, <2>9, <2>10 DEF Fit, Held
  <2>13. Marked(l, c)'
    BY <2>6, <2>8, <2>9 DEF Marked
  <2>14. Untouched(l, c)'
    BY <1>5, <2>4, <2>5, <2>8, <2>9, <2>10 DEF Untouched
  <2>15. Fit(l, c)'
    BY <2>11, <2>12, <2>13, <2>14 DEF Fit
  <2>16. child'[l] = c /\ child' \in [I!Langs -> I!Child] /\ \A m \in I!Langs : child'[m] = child[m]
    BY <1>3, <1>4, <1>7
  <2> QED BY <1>1, <1>2, <1>4, <1>7, <2>4, <2>5, <2>15, <2>16, CallStep
<1> QED BY <1>2, <1>6, <1>7 DEF I!Ensure

\* What wb writes to a child's stdin.
LEMMA ProtocolItems ==
  ASSUME NEW l \in I!Langs, NEW kind \in Kinds, NEW r \in I!Requests
  PROVE  LET t == I!Protocol(l, kind, r)
         IN /\ t \in Seq(I!Item) /\ Len(t) \in {1, 4} /\ t[1].of = r /\ t[1].what = kind
            /\ l \in Shells => Len(t) = 4 /\ t[2].what = "rc" /\ t[3].what = "out" /\ t[4].what = "err"
            /\ l \notin Shells => Len(t) = 1
<1> DEFINE item(what) == [of |-> r, what |-> what]
<1>1. item(kind) \in I!Item /\ item("rc") \in I!Item /\ item("out") \in I!Item /\ item("err") \in I!Item
  BY DEF I!Item, Kinds
<1>2. item("rc").what = "rc" /\ item("out").what = "out" /\ item("err").what = "err"
  OBVIOUS
<1>3. PICK a \in I!Item : a = item(kind)
  BY <1>1
<1>4. PICK b \in I!Item : b = item("rc")
  BY <1>1
<1>5. PICK e \in I!Item : e = item("out")
  BY <1>1
<1>6. PICK f \in I!Item : f = item("err")
  BY <1>1
<1>7. I!Protocol(l, kind, r) = IF l \in Shells THEN <<a, b, e, f>> ELSE <<a>>
  BY <1>3, <1>4, <1>5, <1>6 DEF I!Protocol
<1>a. a.of = r /\ a.what = kind
  BY <1>3
<1>8. b.what = "rc" /\ e.what = "out" /\ f.what = "err"
  BY <1>2, <1>4, <1>5, <1>6
<1> HIDE DEF item
<1>9. CASE l \in Shells
  <2>1. I!Protocol(l, kind, r) = <<a, b, e, f>>
    BY <1>7, <1>9
  <2>2. <<a, b, e, f>> \in Seq(I!Item)
    OBVIOUS
  <2> QED BY <1>a, <1>8, <1>9, <2>1, <2>2
<1>10. CASE l \notin Shells
  <2>1. I!Protocol(l, kind, r) = <<a>>
    BY <1>7, <1>10
  <2>2. <<a>> \in Seq(I!Item)
    OBVIOUS
  <2> QED BY <1>a, <1>10, <2>1, <2>2
<1> QED BY <1>9, <1>10

\* What the protocol of a request adds to stdin.
LEMMA Sending ==
  ASSUME NEW l \in I!Langs, NEW kind \in Kinds, NEW r \in I!Requests, NEW c \in I!Child, NEW d \in I!Child,
         d.stdin = c.stdin \o I!Protocol(l, kind, r)
  PROVE  /\ \A what : kind \in what => Has(d, what)
         /\ \A what : kind \notin what /\ what \cap Marks = {} => (Has(d, what) <=> Has(c, what))
         /\ l \notin Shells => \A what : kind \notin what => (Has(d, what) <=> Has(c, what))
         /\ \A s \in I!Streams : ~Has(c, {s}) => Followed(d, {s}, Marks \ {s})
         /\ ~Has(c, Kinds) => Followed(d, Kinds, Marks)
         /\ ~Has(c, Kinds) /\ r = request => Current(d)
         /\ c.stdin = <<>> /\ l \in Shells => Has(d, {"rc"}) /\ Followed(d, Marks, I!Streams) /\ Ended(d)
<1> DEFINE p == c.stdin
           t == I!Protocol(l, kind, r)
           q == p \o t
<1>1. p \in Seq(I!Item) /\ c.stdin = p
  BY ChildFields
<1>2. /\ t \in Seq(I!Item) /\ Len(t) \in {1, 4} /\ t[1].of = r /\ t[1].what = kind
      /\ l \in Shells => Len(t) = 4 /\ t[2].what = "rc" /\ t[3].what = "out" /\ t[4].what = "err"
      /\ l \notin Shells => Len(t) = 1
  BY ProtocolItems
<1>3. d.stdin = q
  OBVIOUS
<1> HIDE DEF p, t
<1>4. /\ q \in Seq(I!Item) /\ Len(q) = Len(p) + Len(t) /\ Len(p) \in Nat
      /\ \A i \in 1..Len(p) : q[i] = p[i]
      /\ \A i \in 1..Len(t) : q[Len(p) + i] = t[i]
  BY <1>1, <1>2
<1> HIDE DEF q
<1> DEFINE n == Len(p)
<1>5. /\ DOMAIN p = 1..n /\ DOMAIN q = 1..n + Len(t)
      /\ n + 1 \in DOMAIN q /\ q[n + 1].of = r /\ q[n + 1].what = kind
      /\ l \in Shells => /\ n + 2 \in DOMAIN q /\ n + 3 \in DOMAIN q /\ n + 4 \in DOMAIN q
                         /\ q[n + 2].what = "rc" /\ q[n + 3].what = "out" /\ q[n + 4].what = "err"
  BY <1>1, <1>2, <1>4
<1>6. \A i \in DOMAIN q : \/ i \in DOMAIN p /\ q[i] = p[i]
                          \/ i = n + 1
                          \/ l \in Shells /\ i \in {n + 2, n + 3, n + 4}
  <2> TAKE i \in DOMAIN q
  <2>1. i \in 1..n + Len(t) /\ n \in Nat
    BY <1>4, <1>5
  <2>2. CASE i <= n
    BY <1>4, <1>5, <2>1, <2>2
  <2>3. CASE i > n
    <3>1. (Len(t) = 1 /\ l \notin Shells) \/ (Len(t) = 4 /\ l \in Shells)
      BY <1>2
    <3>2. PICK k \in Nat : k = n
      BY <2>1
    <3>3. PICK h \in {1, 4} : h = Len(t)
      BY <1>2
    <3>4. i \in 1..k + h /\ i > k
      BY <2>1, <2>3, <3>2, <3>3
    <3>5. i = k + 1 \/ (h = 4 /\ i \in {k + 2, k + 3, k + 4})
      BY <3>4
    <3> HIDE DEF n
    <3>6. CASE i = k + 1
      BY <3>2, <3>6
    <3>7. CASE h = 4 /\ i \in {k + 2, k + 3, k + 4}
      <4>1. l \in Shells
        BY <3>1, <3>3, <3>7
      <4> QED BY <4>1, <3>2, <3>7
    <3> QED BY <3>5, <3>6, <3>7
  <2> QED BY <2>1, <2>2, <2>3
<1>7. \A i \in DOMAIN p : i \in DOMAIN q /\ q[i] = p[i]
  <2>1. n \in Nat /\ Len(t) \in Nat
    BY <1>2, <1>4
  <2> QED BY <1>4, <1>5, <2>1
<1>8. n \in Nat /\ \A i \in DOMAIN p : i <= n /\ i \in Nat
  BY <1>1
<1> HIDE DEF n
<1>k. kind \in {"live", "replay", "unset"} /\ Kinds = {"live", "replay", "unset"} /\ Marks = {"rc", "out",
      "err"}
      /\ I!Streams = {"out", "err"}
  BY DEF Kinds, Marks, I!Streams
<1>9. \A what : kind \in what => Has(d, what)
  BY <1>3, <1>5 DEF Has
<1>10. \A what : kind \notin what /\ what \cap Marks = {} => (Has(d, what) <=> Has(c, what))
  <2> TAKE what
  <2> SUFFICES ASSUME kind \notin what, what \cap Marks = {} PROVE Has(d, what) <=> Has(c, what)
    OBVIOUS
  <2>1. "rc" \notin what /\ "out" \notin what /\ "err" \notin what
    BY <1>k
  <2>2. Has(c, what) => Has(d, what)
    BY <1>1, <1>3, <1>7 DEF Has
  <2>3. ASSUME NEW i \in DOMAIN q, q[i].what \in what PROVE i \in DOMAIN p /\ p[i].what \in what
    BY <1>5, <1>6, <2>1, <2>3
  <2>4. Has(d, what) => Has(c, what)
    BY <1>1, <1>3, <2>3 DEF Has
  <2> QED BY <2>2, <2>4
<1>11. l \notin Shells => \A what : kind \notin what => (Has(d, what) <=> Has(c, what))
  BY <1>1, <1>3, <1>5, <1>6, <1>7 DEF Has
<1>12. \A s \in I!Streams : ~Has(c, {s}) => Followed(d, {s}, Marks \ {s})
  <2> SUFFICES ASSUME NEW s \in I!Streams, ~Has(c, {s}),
                      NEW i \in DOMAIN q, NEW j \in DOMAIN q, q[i].what = s, i < j
               PROVE  q[j].what \in Marks \ {s}
    BY <1>3 DEF Followed
  <2>1. i \notin DOMAIN p \/ q[i] # p[i]
    BY <1>1 DEF Has
  <2>2. l \in Shells /\ i \in {n + 3, n + 4}
    BY <1>5, <1>6, <1>k, <2>1
  <2>3. i = n + 3 /\ j = n + 4
    BY <1>6, <1>8, <2>2
  <2> QED BY <1>5, <1>k, <2>2, <2>3
<1>13. ~Has(c, Kinds) => Followed(d, Kinds, Marks)
  <2> SUFFICES ASSUME ~Has(c, Kinds),
                      NEW i \in DOMAIN q, NEW j \in DOMAIN q, q[i].what \in Kinds, i < j
               PROVE  q[j].what \in Marks
    BY <1>3 DEF Followed
  <2>1. i \notin DOMAIN p \/ q[i] # p[i]
    BY <1>1 DEF Has
  <2>2. i = n + 1
    BY <1>5, <1>6, <1>k, <2>1
  <2>3. l \in Shells /\ j \in {n + 2, n + 3, n + 4}
    BY <1>6, <1>8, <2>2
  <2> QED BY <1>5, <1>k, <2>3
<1>14. ~Has(c, Kinds) /\ r = request => Current(d)
  <2> SUFFICES ASSUME ~Has(c, Kinds), r = request, NEW i \in DOMAIN q, q[i].what \in Kinds
               PROVE  q[i].of = request
    BY <1>3 DEF Current
  <2>1. i \notin DOMAIN p \/ q[i] # p[i]
    BY <1>1 DEF Has
  <2>2. i = n + 1
    BY <1>5, <1>6, <1>k, <2>1
  <2> QED BY <1>5, <2>2
<1>15. p = <<>> /\ l \in Shells => Has(d, {"rc"}) /\ Followed(d, Marks, I!Streams) /\ Ended(d)
  <2> SUFFICES ASSUME p = <<>>, l \in Shells PROVE Has(d, {"rc"}) /\ Followed(d, Marks, I!Streams) /\ Ended(d)
    OBVIOUS
  <2>1. n = 0 /\ Len(q) = 4 /\ q[1].what = kind /\ q[2].what = "rc" /\ q[3].what = "out" /\ q[4].what = "err"
        /\ DOMAIN q = 1..4 /\ q # <<>>
    <3>1. n = 0
      BY DEF n
    <3>2. Len(t) = 4
      BY <1>2
    <3>3. Len(q) = 4
      BY <1>4, <3>1, <3>2 DEF n
    <3>4. q[1].what = kind /\ q[2].what = "rc" /\ q[3].what = "out" /\ q[4].what = "err"
      BY <1>5, <3>1
    <3>5. DOMAIN q = 1..4
      <4>1. DOMAIN q = 1..0 + 4
        BY <1>5, <3>1, <3>2
      <4> QED BY <4>1
    <3>6. q # <<>>
      BY <3>3
    <3> QED BY <3>1, <3>3, <3>4, <3>5, <3>6
  <2>2. Has(d, {"rc"}) /\ Ended(d)
    BY <1>3, <2>1 DEF Has, Ended
  <2>3. ASSUME NEW i \in DOMAIN q, NEW j \in DOMAIN q, q[i].what \in Marks, i < j PROVE q[j].what \in I!Streams
    <3>1. i # 1
      BY <1>k, <2>1, <2>3
    <3>2. j = 3 \/ j = 4
      BY <2>1, <2>3, <3>1
    <3> QED BY <1>k, <2>1, <3>2
  <2> QED BY <1>3, <2>2, <2>3 DEF Followed
<1> QED BY <1>1, <1>9, <1>10, <1>11, <1>12, <1>13, <1>14, <1>15

\* Between calls nothing is left on the stdin of an interpreter nobody tampered with.
LEMMA EmptyAtRest ==
  ASSUME NEW l \in I!Langs, NEW c \in I!Child, Fit(l, c), Of(l) = "rest", c.open, ~c.tainted
  PROVE  c.stdin = <<>>
<1> SUFFICES ASSUME c.stdin # <<>> PROVE FALSE
  OBVIOUS
<1>1. AtRest(c, "out") /\ AtRest(c, "err")
  BY DEF Fit, Phase, Rest
<1>2. ~Has(c, Kinds) /\ ~Has(c, {"err"})
  BY <1>1 DEF AtRest, NoMore
<1>3. c.stdin \in Seq(I!Item)
  BY ChildFields
<1>4. 1 \in DOMAIN c.stdin /\ c.stdin[1] \in I!Item /\ Len(c.stdin) \in DOMAIN c.stdin
  BY <1>3
<1>5. CASE l \in Shells
  <2>1. c.stdin[Len(c.stdin)].what = "err"
    BY <1>5 DEF Fit, Untouched, Ended
  <2> QED BY <1>2, <1>4, <2>1 DEF Has
<1>6. CASE l \in Harnessed
  <2>1. ~Has(c, Marks)
    BY <1>6 DEF Fit, Held
  <2>2. c.stdin[1].what \in Kinds \/ c.stdin[1].what \in Marks
    BY <1>4, ItemFields DEF Kinds, Marks
  <2> QED BY <1>2, <1>4, <2>1, <2>2 DEF Has
<1> QED BY <1>5, <1>6 DEF I!Langs

\* wb writes the code, or finds the child gone.
LEMMA SendIInv ==
  ASSUME IInv, I!SendCode
  PROVE  IInv'
<1>1. /\ call.pc = "send" /\ call.pc # "idle"
      /\ UNCHANGED <<processes, env, replaying, cleaning, request, misled>>
  BY DEF I!SendCode
<1>2. PICK l \in I!Langs : l = call.lang
  BY <1>1, CallFacts
<1>3. PICK c \in I!Child : c = child[l]
  BY <1>1, <1>2, CallFacts
<1>4. /\ processes \subseteq I!Langs /\ request \in 0..MaxRequests /\ request # 0
      /\ call \in Calls /\ child \in [I!Langs -> I!Child] /\ Calling /\ Fit(l, c)
      /\ replaying \in BOOLEAN /\ env = replaying
  BY <1>1, <1>2, <1>3, CallFacts
<1>5. ~Reading /\ Of(l) = "rest" /\ call.heard = {} /\ call.partial = {} /\ call.sent /\ l \in processes
  BY <1>1, <1>2, <1>4 DEF Reading, Of, Calling
<1>6. Rest(c)
  BY <1>4, <1>5 DEF Fit, Phase
<1>7. c.open => NoMore(c)
  BY <1>6 DEF Rest, AtRest
<1>8. CASE call' = [call EXCEPT !.pc = "out"]
           /\ child' = [child EXCEPT ![l].stdin = @ \o I!Protocol(l, call.kind, request)]
  <2>1. /\ call' \in Calls /\ call'.pc = "out" /\ call'.lang = l /\ call'.kind = call.kind
        /\ call'.heard = {}
    BY <1>2, <1>4, <1>5, <1>8 DEF Calls
  <2>2. PICK kind \in Kinds : kind = call.kind
    BY <1>4, CallFields
  <2>3. PICK r \in I!Requests : r = request
    BY <1>4 DEF I!Requests
  <2> DEFINE t == I!Protocol(l, kind, r)
             q == c.stdin \o t
             d == [c EXCEPT !.stdin = q]
  <2>4. child' = [child EXCEPT ![l] = d]
    BY <1>3, <1>4, <1>8, <2>2, <2>3
  <2>5. q \in Seq(I!Item)
    <3>1. t \in Seq(I!Item)
      BY ProtocolItems
    <3> HIDE DEF t
    <3> QED BY <3>1, ChildFields
  <2>6. d.stdin = c.stdin \o I!Protocol(l, kind, r)
    BY DEF I!Child
  <2> HIDE DEF q
  <2>7. /\ d \in I!Child /\ d.open = c.open /\ d.marked = c.marked /\ d.tainted = c.tainted /\ d.run = c.run
        /\ d.last = c.last /\ d.rc = c.rc /\ d.strays = c.strays /\ d.lost = c.lost
        /\ d["out"] = c["out"] /\ d["err"] = c["err"]
    BY <2>5 DEF I!Child
  <2>8. child' \in [I!Langs -> I!Child] /\ child'[l] = d /\ \A m \in I!Langs : m # l => child'[m] = child[m]
    BY <1>4, <2>4, <2>7
  <2> HIDE DEF d
  <2>9. Reading' /\ Of(l)' = "out"
    BY <2>1 DEF Reading, Of
  <2>10. /\ \A what : kind \in what => Has(d, what)
         /\ \A what : kind \notin what /\ what \cap Marks = {} => (Has(d, what) <=> Has(c, what))
         /\ l \notin Shells => \A what : kind \notin what => (Has(d, what) <=> Has(c, what))
         /\ \A s \in I!Streams : ~Has(c, {s}) => Followed(d, {s}, Marks \ {s})
         /\ ~Has(c, Kinds) => Followed(d, Kinds, Marks)
         /\ ~Has(c, Kinds) /\ r = request => Current(d)
         /\ c.stdin = <<>> /\ l \in Shells => Has(d, {"rc"}) /\ Followed(d, Marks, I!Streams) /\ Ended(d)
    BY <2>6, <2>7, Sending
  <2>11. \A s \in I!Streams : AtRest(c, s) => Good(d, s)
    <3> SUFFICES ASSUME NEW s \in I!Streams, AtRest(c, s) PROVE Good(d, s)
      OBVIOUS
    <3>1. d[s] = c[s]
      BY <2>7 DEF I!Streams
    <3>2. ~Done(d, s) /\ DoneOnce(d, s)
      BY <3>1 DEF AtRest, Done, DoneOnce
    <3>3. Followed(d, {s}, Marks \ {s})
      BY <2>10 DEF AtRest
    <3> QED BY <2>7, <3>2, <3>3 DEF Good, AtRest
  <2>12. ReadingOut(d)
    BY <1>6, <2>7, <2>11 DEF Rest, ReadingOut, I!Streams
  <2>13. Phase(l, d)'
    BY <2>9, <2>12 DEF Phase
  <2>14. c.run = 0
    BY <1>4, <1>7 DEF Fit, Held, NoMore
  <2>15. Held(l, d)'
    <3>1. l \in Harnessed => ~Has(d, Marks)
      <4> SUFFICES ASSUME l \in Harnessed PROVE ~Has(d, Marks)
        OBVIOUS
      <4>1. l \notin Shells /\ ~Has(c, Marks)
        BY <1>4, SessionNumbers DEF Fit, Held
      <4>2. kind \notin Marks
        BY DEF Kinds, Marks
      <4> QED BY <2>10, <4>1, <4>2
    <3>2. d.open => Followed(d, Kinds, Marks) /\ Current(d)'
      <4> SUFFICES ASSUME d.open PROVE Followed(d, Kinds, Marks) /\ Current(d)'
        OBVIOUS
      <4>1. ~Has(c, Kinds)
        BY <1>7, <2>7 DEF NoMore
      <4>2. Current(d)
        BY <2>3, <2>10, <4>1
      <4> QED BY <1>1, <2>10, <4>1, <4>2 DEF Current
    <3> QED BY <1>1, <1>5, <2>7, <2>14, <3>1, <3>2 DEF Held
  <2>16. Marked(l, d)'
    <3>1. ~NoMore(d)
      BY <2>10 DEF NoMore
    <3>2. d.open /\ Has(d, {"live"}) => ~d.marked
      <4> SUFFICES ASSUME d.open, Has(d, {"live"}) PROVE ~d.marked
        OBVIOUS
      <4>1. ~Has(c, {"live"})
        <5>1. ~Has(c, Kinds)
          BY <1>7, <2>7 DEF NoMore
        <5> QED BY <5>1 DEF Has, Kinds
      <4>2. {"live"} \cap Marks = {}
        BY DEF Marks
      <4>3. kind = "live"
        BY <2>10, <4>1, <4>2
      <4>4. ~replaying /\ cleaning = {} /\ call.kind # "unset"
        BY <1>1, <1>4, <2>2, <4>3 DEF Calling
      <4>5. ~c.marked
        BY <1>4, <2>7, <4>4 DEF Fit, Marked
      <4> QED BY <2>7, <4>5
    <3>3. c.marked /\ c.open => replaying \/ l \in cleaning \/ call.kind = "unset"
      BY <1>4 DEF Fit, Marked
    <3> QED BY <1>1, <2>1, <2>7, <3>1, <3>2, <3>3 DEF Marked
  <2>17. Untouched(l, d)'
    <3> SUFFICES ASSUME ~d.tainted PROVE Untouched(l, d)'
      BY DEF Untouched
    <3>1. ~c.tainted /\ c.strays = {} /\ c.lost = {} /\ c["out"] = <<>> /\ c["err"] = <<>>
      BY <1>4, <1>5, <2>7 DEF Fit, Untouched
    <3>2. Attributed(d, "out")' /\ Attributed(d, "err")'
      BY <2>7, <3>1 DEF Attributed
    <3>3. d.open => Good(d, "out") /\ Good(d, "err")
      BY <1>6, <2>7, <2>11, <3>1 DEF Rest, I!Streams
    <3>4. d.open => c.stdin = <<>>
      BY <1>4, <1>5, <2>7, <3>1, EmptyAtRest
    <3>5. ~NoMore(d)
      BY <2>10 DEF NoMore
    <3>6. l \in Shells /\ d.open => Ended(d) /\ Protocolled(d)'
      BY <2>10, <3>4, <3>5 DEF Protocolled
    <3> QED BY <2>1, <2>7, <2>9, <3>1, <3>2, <3>3, <3>6 DEF Untouched
  <2>18. Fit(l, d)'
    BY <2>13, <2>15, <2>16, <2>17 DEF Fit
  <2> QED BY <1>1, <1>2, <1>4, <1>5, <2>1, <2>7, <2>8, <2>9, <2>18, CallStep
<1>9. CASE ~c.open /\ call' = [call EXCEPT !.pc = "finish", !.code = [of |-> 0, code |-> 1], !.sent = FALSE]
           /\ UNCHANGED child
  <2>1. PICK z \in 0..MaxRequests : z = 0
    BY SessionNumbers
  <2>2. PICK code \in [of : 0 .. MaxRequests, code : {0, 1, -1, 127}] : code = [of |-> 0, code |-> 1]
    BY <2>1
  <2>3. call' = [call EXCEPT !.pc = "finish", !.code = code, !.sent = FALSE]
    BY <1>9, <2>2
  <2>4. /\ call' \in Calls /\ call'.pc = "finish" /\ call'.lang = l /\ call'.kind = call.kind
        /\ call'.heard = call.heard /\ call'.code = code
    BY <1>2, <1>4, <2>3 DEF Calls
  <2>5. ~call'.sent
    BY <1>4, <2>3, Zenon DEF Calls
  <2>6. call'.code.code # 0 /\ Reading' /\ Of(l)' = "finish" /\ ~UsableYet'
    BY <2>2, <2>4, <2>5 DEF Reading, Of, UsableYet
  <2>7. Phase(l, c)'
    BY <2>6 DEF Phase
  <2>8. Held(l, c)'
    BY <1>1, <1>4, <1>9 DEF Fit, Held
  <2>9. Marked(l, c)'
    BY <1>9 DEF Marked
  <2>10. Untouched(l, c)'
    <3> SUFFICES ASSUME ~c.tainted PROVE Untouched(l, c)'
      BY DEF Untouched
    <3>1. c.strays = {} /\ c.lost = {} /\ c["out"] = <<>> /\ c["err"] = <<>>
      BY <1>4, <1>5 DEF Fit, Untouched
    <3>2. Attributed(c, "out")' /\ Attributed(c, "err")'
      BY <3>1 DEF Attributed
    <3> QED BY <1>5, <1>9, <2>4, <2>6, <3>1, <3>2 DEF Untouched
  <2>11. Fit(l, c)'
    BY <2>7, <2>8, <2>9, <2>10 DEF Fit
  <2>12. child'[l] = c /\ child' \in [I!Langs -> I!Child] /\ \A m \in I!Langs : child'[m] = child[m]
    BY <1>3, <1>4, <1>9
  <2> QED BY <1>1, <1>2, <1>4, <2>4, <2>6, <2>11, <2>12, CallStep
<1> QED BY <1>2, <1>3, <1>8, <1>9 DEF I!SendCode

\* wb takes a line from a pipe.
Collected(c, s, d) == c[s] # <<>> /\ d = [c EXCEPT ![s] = Tail(c[s])]

\* The child after its first line was taken.
LEMMA Collecting ==
  ASSUME NEW c \in I!Child, NEW s \in I!Streams, NEW d, Collected(c, s, d)
  PROVE  /\ d \in I!Child
         /\ d.open = c.open /\ d.marked = c.marked /\ d.tainted = c.tainted /\ d.run = c.run
         /\ d.stdin = c.stdin /\ d.last = c.last /\ d.rc = c.rc
         /\ d.strays = c.strays /\ d.lost = c.lost
         /\ \A t \in I!Streams : t # s => d[t] = c[t]
         /\ d[s] = Tail(c[s])
<1> DEFINE q == Tail(c[s])
<1>1. q \in Seq(I!Line)
  BY ChildFields DEF I!Streams, Collected
<1> HIDE DEF q
<1>2. CASE s = "out"
  <2>1. d = [c EXCEPT !["out"] = q]
    BY <1>2 DEF q, Collected
  <2>2. /\ d \in I!Child
        /\ d.open = c.open /\ d.marked = c.marked /\ d.tainted = c.tainted /\ d.run = c.run
        /\ d.stdin = c.stdin /\ d.last = c.last /\ d.rc = c.rc
        /\ d.strays = c.strays /\ d.lost = c.lost
        /\ d["err"] = c["err"] /\ d["out"] = q
    BY <1>1, <2>1 DEF I!Child
  <2> QED BY <1>2, <2>2 DEF q, I!Streams
<1>3. CASE s = "err"
  <2>1. d = [c EXCEPT !["err"] = q]
    BY <1>3 DEF q, Collected
  <2>2. /\ d \in I!Child
        /\ d.open = c.open /\ d.marked = c.marked /\ d.tainted = c.tainted /\ d.run = c.run
        /\ d.stdin = c.stdin /\ d.last = c.last /\ d.rc = c.rc
        /\ d.strays = c.strays /\ d.lost = c.lost
        /\ d["out"] = c["out"] /\ d["err"] = q
    BY <1>1, <2>1 DEF I!Child
  <2> QED BY <1>3, <2>2 DEF q, I!Streams
<1> QED BY <1>2, <1>3 DEF I!Streams

\* What taking a line does not change.
LEMMA CollectedFacts ==
  ASSUME NEW c \in I!Child, NEW d \in I!Child, NEW s \in I!Streams, c[s] # <<>>, d[s] = Tail(c[s]),
         d.run = c.run, d.stdin = c.stdin, d.last = c.last, d.rc = c.rc, d.lost = c.lost,
         \A t \in I!Streams : t # s => d[t] = c[t]
  PROVE  /\ \A what : Has(d, what) <=> Has(c, what)
         /\ \A what, by : Followed(d, what, by) <=> Followed(c, what, by)
         /\ Current(d) <=> Current(c)
         /\ Ended(d) <=> Ended(c)
         /\ NoMore(d) <=> NoMore(c)
         /\ Protocolled(d) <=> Protocolled(c)
         /\ \A t \in I!Streams : /\ Done(d, t) => Done(c, t)
                                 /\ DoneOnce(c, t) => DoneOnce(d, t)
                                 /\ Attributed(c, t) => Attributed(d, t)
                                 /\ AtRest(c, t) => AtRest(d, t)
                                 /\ Good(c, t) => Good(d, t)
         /\ Good(c, s) /\ Head(c[s]).done => AtRest(d, s)
<1>1. /\ \A what : Has(d, what) <=> Has(c, what)
      /\ \A what, by : Followed(d, what, by) <=> Followed(c, what, by)
      /\ Current(d) <=> Current(c)
      /\ Ended(d) <=> Ended(c)
      /\ NoMore(d) <=> NoMore(c)
      /\ Protocolled(d) <=> Protocolled(c)
  BY DEF Has, Followed, Current, Ended, NoMore, Protocolled
<1>2. /\ Done(c, s) <=> Head(c[s]).done \/ Done(d, s)
      /\ DoneOnce(c, s) => DoneOnce(d, s) /\ (Head(c[s]).done => ~Done(d, s))
      /\ Attributed(c, s) => Attributed(d, s)
  BY Shorter
<1>3. \A t \in I!Streams : /\ Done(d, t) => Done(c, t)
                           /\ DoneOnce(c, t) => DoneOnce(d, t)
                           /\ Attributed(c, t) => Attributed(d, t)
  <2> TAKE t \in I!Streams
  <2>1. CASE t = s
    BY <2>1, <1>2
  <2>2. CASE t # s
    BY <2>2 DEF Done, DoneOnce, Attributed
  <2> QED BY <2>1, <2>2
<1>4. \A t \in I!Streams : (AtRest(c, t) => AtRest(d, t)) /\ (Good(c, t) => Good(d, t))
  BY <1>1, <1>3 DEF AtRest, Good
<1>5. Good(c, s) /\ Head(c[s]).done => AtRest(d, s)
  BY <1>1, <1>2 DEF Good, AtRest
<1> QED BY <1>1, <1>3, <1>4, <1>5

\* A step of the reader of one of the two streams.
LEMMA ReadStep ==
  ASSUME IInv, NEW l \in I!Langs, NEW c \in I!Child, NEW d \in I!Child,
         call.lang = l, call.pc \in {"out", "err"}, child[l] = c,
         d.open = c.open, d.marked = c.marked, d.run = c.run, d.stdin = c.stdin,
         child' = [child EXCEPT ![l] = d], UNCHANGED <<processes, env, replaying, cleaning, request, misled>>,
         call' \in Calls, call'.pc \in {"out", "err", "finish"}, call'.lang = l, call'.kind = call.kind,
         Phase(l, d)', Untouched(l, d)'
  PROVE  IInv'
<1>1. call.pc # "idle"
  OBVIOUS
<1>2. /\ processes \subseteq I!Langs /\ child \in [I!Langs -> I!Child] /\ Calling /\ Fit(l, c)
  BY <1>1, CallFacts
<1>3. Reading /\ Reading' /\ Of(l) # "rest" /\ Of(l)' # "rest" /\ l \in processes
  BY <1>2 DEF Reading, Of, Calling
<1>4. /\ \A what : Has(d, what) <=> Has(c, what)
      /\ \A what, by : Followed(d, what, by) <=> Followed(c, what, by)
      /\ NoMore(d) <=> NoMore(c)
      /\ Current(d) <=> Current(c)
  BY DEF Has, Followed, NoMore, Current
<1>5. Current(d)' <=> Current(d)
  BY DEF Current
<1>6. Held(l, d)'
  BY <1>2, <1>3, <1>4, <1>5 DEF Fit, Held
<1>7. Marked(l, d)'
  BY <1>2, <1>3, <1>4 DEF Fit, Marked
<1>8. Fit(l, d)'
  BY <1>6, <1>7 DEF Fit
<1>9. child' \in [I!Langs -> I!Child] /\ child'[l] = d /\ \A m \in I!Langs : m # l => child'[m] = child[m]
  BY <1>2
<1>10. call'.pc # "idle" /\ (call'.pc \in {"send", "out", "err"} => l \in processes')
  BY <1>3
<1> QED BY <1>1, <1>2, <1>3, <1>8, <1>9, <1>10, CallStep

\* wb takes a line.
LEMMA ReceiveIInv ==
  ASSUME IInv, NEW s \in I!Streams, I!Receive(s)
  PROVE  IInv'
<1>1. /\ call.pc = s /\ call.pc \in {"out", "err"} /\ call.pc # "idle"
      /\ UNCHANGED <<processes, env, replaying, cleaning, request, misled>>
  BY DEF I!Receive, I!Streams
<1>2. PICK l \in I!Langs : l = call.lang
  BY <1>1, CallFacts
<1>3. PICK c \in I!Child : c = child[l]
  BY <1>1, <1>2, CallFacts
<1>4. /\ request \in 0..MaxRequests /\ call \in Calls /\ child \in [I!Langs -> I!Child] /\ Fit(l, c)
  BY <1>1, <1>2, <1>3, CallFacts
<1>5. Reading /\ Of(l) = s /\ Of(l) # "rest" /\ c[s] # <<>>
  BY <1>1, <1>2, <1>3 DEF Reading, Of, I!Receive
<1>6. PICK line \in I!Line : line = Head(c[s])
  <2>1. c[s] \in Seq(I!Line)
    BY ChildFields DEF I!Streams
  <2>2. Head(c[s]) \in I!Line
    BY <1>5, <2>1
  <2> QED BY <2>2
<1> DEFINE d == [c EXCEPT ![s] = Tail(c[s])]
<1>7. child' = [child EXCEPT ![l] = d]
  BY <1>2, <1>3, <1>4 DEF I!Receive
<1>d. Collected(c, s, d)
  BY <1>5 DEF Collected
<1> HIDE DEF d
<1>8. /\ d \in I!Child
      /\ d.open = c.open /\ d.marked = c.marked /\ d.tainted = c.tainted /\ d.run = c.run
      /\ d.stdin = c.stdin /\ d.last = c.last /\ d.rc = c.rc
      /\ d.strays = c.strays /\ d.lost = c.lost
      /\ \A t \in I!Streams : t # s => d[t] = c[t]
      /\ d[s] = Tail(c[s])
  BY <1>d, Collecting
<1>9. /\ \A what : Has(d, what) <=> Has(c, what)
      /\ Ended(d) <=> Ended(c)
      /\ NoMore(d) <=> NoMore(c)
      /\ Protocolled(d) <=> Protocolled(c)
      /\ \A t \in I!Streams : /\ Done(d, t) => Done(c, t)
                              /\ Attributed(c, t) => Attributed(d, t)
                              /\ AtRest(c, t) => AtRest(d, t)
                              /\ Good(c, t) => Good(d, t)
      /\ Good(c, s) /\ line.done => AtRest(d, s)
  BY <1>5, <1>6, <1>8, CollectedFacts
<1>10. /\ line.done => Done(c, s)
       /\ Attributed(c, s) => line.of = request /\ (line.done => d[s] = <<>>)
  BY <1>5, <1>6, <1>8, Shorter
<1>11. "out" \in I!Streams /\ "err" \in I!Streams
  BY DEF I!Streams
<1>12. ~c.tainted =>
         /\ d.strays = {} /\ d.lost = {} /\ Attributed(c, s)
         /\ Attributed(d, "out")' /\ Attributed(d, "err")'
         /\ d.open => Good(d, "out") /\ Good(d, "err")
         /\ d.open => Good(c, "out") /\ Good(c, "err")
         /\ l \in Shells /\ d.open => Ended(d) /\ Protocolled(d)'
         /\ call.heard \subseteq {request}
  <2> SUFFICES ASSUME ~c.tainted PROVE
         /\ d.strays = {} /\ d.lost = {} /\ Attributed(c, s)
         /\ Attributed(d, "out")' /\ Attributed(d, "err")'
         /\ d.open => Good(d, "out") /\ Good(d, "err")
         /\ d.open => Good(c, "out") /\ Good(c, "err")
         /\ l \in Shells /\ d.open => Ended(d) /\ Protocolled(d)'
         /\ call.heard \subseteq {request}
    OBVIOUS
  <2>1. /\ c.strays = {} /\ c.lost = {} /\ Attributed(c, "out") /\ Attributed(c, "err")
        /\ c.open => Good(c, "out") /\ Good(c, "err")
        /\ l \in Shells /\ c.open => Ended(c) /\ Protocolled(c)
        /\ call.heard \subseteq {request}
    BY <1>4, <1>5 DEF Fit, Untouched
  <2>2. Attributed(d, "out") /\ Attributed(d, "err")
    BY <1>9, <1>11, <2>1
  <2>3. Attributed(d, "out")' /\ Attributed(d, "err")'
    BY <1>1, <2>2 DEF Attributed
  <2>4. Protocolled(d)' <=> Protocolled(d)
    BY <1>1 DEF Protocolled
  <2>5. Attributed(c, s)
    BY <2>1 DEF I!Streams
  <2> QED BY <1>8, <1>9, <1>11, <2>1, <2>3, <2>4, <2>5
<1>13. CASE ~line.done
  <2>1. call' = [call EXCEPT !.heard = @ \cup {line.of}]
    BY <1>2, <1>3, <1>6, <1>13 DEF I!Receive
  <2>2. call.heard \cup {line.of} \in SUBSET I!Requests
    BY <1>4, CallFields, LineFields
  <2>3. /\ call' \in Calls /\ call'.pc = s /\ call'.lang = l /\ call'.kind = call.kind
        /\ call'.partial = call.partial /\ call'.sent = call.sent /\ call'.code = call.code
        /\ call'.heard = call.heard \cup {line.of}
    BY <1>1, <1>2, <1>4, <2>1, <2>2 DEF Calls
  <2>4. Of(l)' = s /\ (UsableYet' <=> UsableYet)
    BY <1>1, <2>3 DEF Of, Reading, UsableYet
  <2>5. s = "out" => ReadingOut(d)
    BY <1>4, <1>5, <1>8, <1>9, <1>11 DEF Fit, Phase, ReadingOut
  <2>6. s = "err" /\ UsableYet => ReadingErr(d)
    BY <1>4, <1>5, <1>8, <1>9, <1>11 DEF Fit, Phase, ReadingErr
  <2>7. Phase(l, d)'
    BY <1>1, <2>4, <2>5, <2>6 DEF Phase
  <2>8. Untouched(l, d)'
    <3> SUFFICES ASSUME ~d.tainted PROVE Untouched(l, d)'
      BY DEF Untouched
    <3>1. /\ call.pc = "err" /\ UsableYet => c["out"] = <<>>
          /\ call.code.code = 0 /\ call.pc # "out" => call.code.of = request
      BY <1>4, <1>5, <1>8 DEF Fit, Untouched
    <3>2. s = "err" => d["out"] = c["out"]
      BY <1>8, <1>11
    <3>3. call'.heard \subseteq {request}
      BY <1>8, <1>10, <1>12, <2>3
    <3> QED BY <1>1, <1>8, <1>12, <2>3, <2>4, <3>1, <3>2, <3>3 DEF Untouched
  <2>9. call'.pc \in {"out", "err", "finish"}
    BY <1>1, <2>3
  <2> QED BY <1>1, <1>2, <1>3, <1>7, <1>8, <2>3, <2>7, <2>8, <2>9, ReadStep
<1>14. CASE line.done /\ s = "out"
  <2>a. PICK of \in 0..MaxRequests, rc \in {0, 1, -1, 127} : of = line.of /\ rc = line.code
    BY LineFields, SessionNumbers DEF I!Requests
  <2>1. PICK code \in [of : 0 .. MaxRequests, code : {0, 1, -1, 127}] :
           code = [of |-> line.of, code |-> line.code] /\ code.of = line.of
    <3>1. [of |-> of, code |-> rc] \in [of : 0 .. MaxRequests, code : {0, 1, -1, 127}]
      OBVIOUS
    <3> QED BY <2>a, <3>1
  <2>2. call' = [call EXCEPT !.pc = "err", !.code = code]
    BY <1>2, <1>3, <1>6, <1>14, <2>1 DEF I!Receive, I!After, I!Settled
  <2>3. /\ call' \in Calls /\ call'.pc = "err" /\ call'.lang = l /\ call'.kind = call.kind
        /\ call'.partial = call.partial /\ call'.sent = call.sent /\ call'.code = code
        /\ call'.heard = call.heard
    BY <1>2, <1>4, <2>2 DEF Calls
  <2>4. Of(l)' = "err"
    BY <2>3 DEF Of, Reading
  <2>5. ReadingErr(d)
    <3> SUFFICES ASSUME c.open PROVE AtRest(d, "out") \/ (c.tainted /\ Good(d, "err"))
      BY <1>8 DEF ReadingErr
    <3>1. CASE c.tainted
      <4>1. Good(c, "out") \/ Good(c, "err") \/ ~Done(c, "out")
        BY <1>4, <1>5, <1>14, <3>1 DEF Fit, Phase, ReadingOut
      <4> QED BY <1>9, <1>10, <1>11, <1>14, <3>1, <4>1
    <3>2. CASE ~c.tainted
      BY <1>8, <1>9, <1>12, <1>14, <3>2
    <3> QED BY <3>1, <3>2
  <2>6. Phase(l, d)'
    BY <2>4, <2>5 DEF Phase
  <2>7. Untouched(l, d)'
    <3> SUFFICES ASSUME ~d.tainted PROVE Untouched(l, d)'
      BY DEF Untouched
    <3>1. d["out"] = <<>> /\ code.of = request
      BY <1>8, <1>10, <1>12, <1>14, <2>1
    <3> QED BY <1>1, <1>8, <1>12, <2>3, <2>4, <3>1 DEF Untouched
  <2> QED BY <1>1, <1>2, <1>3, <1>7, <1>8, <2>3, <2>6, <2>7, ReadStep
<1>15. CASE line.done /\ s = "err"
  <2>1. call' = [call EXCEPT !.pc = "finish", !.code = call.code]
    BY <1>2, <1>3, <1>6, <1>15 DEF I!Receive, I!After, I!Settled
  <2>2. call.code \in [of : 0 .. MaxRequests, code : {0, 1, -1, 127}]
    BY <1>4, CallFields
  <2>3. /\ call' \in Calls /\ call'.pc = "finish" /\ call'.lang = l /\ call'.kind = call.kind
        /\ call'.partial = call.partial /\ call'.sent = call.sent /\ call'.code = call.code
        /\ call'.heard = call.heard
    BY <1>2, <1>4, <2>1, <2>2 DEF Calls
  <2>4. Of(l)' = "finish" /\ (UsableYet' <=> UsableYet)
    BY <2>3 DEF Of, Reading, UsableYet
  <2>5. UsableYet => Rest(d)
    <3> SUFFICES ASSUME UsableYet, c.open
                 PROVE  IF c.tainted THEN AtRest(d, "out") \/ AtRest(d, "err")
                                     ELSE AtRest(d, "out") /\ AtRest(d, "err")
      BY <1>8 DEF Rest
    <3>1. AtRest(c, "out") \/ (c.tainted /\ Good(c, "err"))
      BY <1>4, <1>5, <1>15 DEF Fit, Phase, ReadingErr
    <3>2. CASE c.tainted
      BY <1>9, <1>11, <1>15, <3>1, <3>2
    <3>3. CASE ~c.tainted
      BY <1>8, <1>9, <1>11, <1>12, <1>15, <3>1, <3>3
    <3> QED BY <3>2, <3>3
  <2>6. Phase(l, d)'
    BY <2>4, <2>5 DEF Phase
  <2>7. Untouched(l, d)'
    <3> SUFFICES ASSUME ~d.tainted PROVE Untouched(l, d)'
      BY DEF Untouched
    <3>1. /\ UsableYet => c["out"] = <<>>
          /\ call.code.code = 0 => call.code.of = request
      BY <1>1, <1>4, <1>5, <1>8, <1>15 DEF Fit, Untouched
    <3>2. d["err"] = <<>> /\ d["out"] = c["out"]
      BY <1>8, <1>10, <1>11, <1>12, <1>15
    <3> QED BY <1>1, <1>8, <1>12, <2>3, <2>4, <3>1, <3>2 DEF Untouched
  <2> QED BY <1>1, <1>2, <1>3, <1>7, <1>8, <2>3, <2>6, <2>7, ReadStep
<1> QED BY <1>13, <1>14, <1>15, LineFields DEF I!Streams

\* wb stops waiting for a stream: the time is over, or the stream is closed.
LEMMA GiveUpIInv ==
  ASSUME IInv, NEW s \in I!Streams, I!GiveUp(s) \/ I!Disconnect(s)
  PROVE  IInv'
<1>1. /\ call.pc = s /\ call.pc \in {"out", "err"} /\ call.pc # "idle"
      /\ UNCHANGED <<processes, env, replaying, cleaning, request, child, misled>>
  BY DEF I!GiveUp, I!Disconnect, I!Streams
<1>2. PICK l \in I!Langs : l = call.lang
  BY <1>1, CallFacts
<1>3. PICK c \in I!Child : c = child[l]
  BY <1>1, <1>2, CallFacts
<1>4. /\ request \in 0..MaxRequests /\ call \in Calls /\ child \in [I!Langs -> I!Child] /\ Fit(l, c)
  BY <1>1, <1>2, <1>3, CallFacts
<1>5. Reading /\ Of(l) = s /\ Of(l) # "rest" /\ c[s] = <<>>
  BY <1>1, <1>2, <1>3 DEF Reading, Of, I!GiveUp, I!Disconnect
<1>6. child' = [child EXCEPT ![l] = c]
  BY <1>1, <1>3, <1>4
<1>7. PICK partial \in SUBSET I!Streams :
         /\ partial = call.partial \cup {s} \/ (partial = call.partial /\ I!Disconnect(s))
         /\ call' = [call EXCEPT !.pc = I!After(s), !.partial = partial,
                                 !.code = I!Settled(s, [of |-> 0, code |-> -1])]
  <2>1. call.partial \in SUBSET I!Streams /\ call.partial \cup {s} \in SUBSET I!Streams
    BY <1>4, CallFields
  <2>2. CASE I!GiveUp(s)
    BY <2>1, <2>2 DEF I!GiveUp
  <2>3. CASE I!Disconnect(s)
    <3>1. call' = [call EXCEPT !.pc = I!After(s), !.code = I!Settled(s, [of |-> 0, code |-> -1])]
      BY <2>3 DEF I!Disconnect
    <3>2. call' = [call EXCEPT !.pc = I!After(s), !.partial = call.partial,
                               !.code = I!Settled(s, [of |-> 0, code |-> -1])]
      <4> DEFINE f == I!After(s)
                 g == I!Settled(s, [of |-> 0, code |-> -1])
      <4>1. call' = [call EXCEPT !.pc = f, !.code = g]
        BY <3>1
      <4> HIDE DEF f, g
      <4>2. call' = [call EXCEPT !.pc = f, !.partial = call.partial, !.code = g]
        BY <1>4, <4>1 DEF Calls
      <4> QED BY <4>2 DEF f, g
    <3> QED BY <2>1, <2>3, <3>2
  <2> QED BY <2>2, <2>3
<1>8. CASE s = "out"
  <2>1. PICK z \in 0..MaxRequests : z = 0
    BY SessionNumbers
  <2>2. PICK code \in [of : 0 .. MaxRequests, code : {0, 1, -1, 127}] : code = [of |-> 0, code |-> -1]
    BY <2>1
  <2>3. call' = [call EXCEPT !.pc = "err", !.partial = partial, !.code = code]
    BY <1>7, <1>8, <2>2 DEF I!After, I!Settled
  <2>4. /\ call' \in Calls /\ call'.pc = "err" /\ call'.lang = l /\ call'.kind = call.kind
        /\ call'.heard = call.heard /\ call'.code = code
    BY <1>2, <1>4, <2>3 DEF Calls
  <2>5. Of(l)' = "err" /\ ~UsableYet' /\ call'.code.code # 0
    BY <2>2, <2>4 DEF Of, Reading, UsableYet
  <2>6. Phase(l, c)'
    BY <2>5 DEF Phase
  <2>7. Untouched(l, c)'
    <3>1. Attributed(c, "out")' <=> Attributed(c, "out")
      BY <1>1 DEF Attributed
    <3>2. Attributed(c, "err")' <=> Attributed(c, "err")
      BY <1>1 DEF Attributed
    <3>3. Protocolled(c)' <=> Protocolled(c)
      BY <1>1 DEF Protocolled
    <3> QED BY <1>1, <1>4, <1>5, <2>4, <2>5, <3>1, <3>2, <3>3 DEF Fit, Untouched
  <2> QED BY <1>1, <1>2, <1>3, <1>6, <2>4, <2>6, <2>7, ReadStep
<1>9. CASE s = "err"
  <2>1. call' = [call EXCEPT !.pc = "finish", !.partial = partial, !.code = call.code]
    BY <1>7, <1>9 DEF I!After, I!Settled
  <2>2. call.code \in [of : 0 .. MaxRequests, code : {0, 1, -1, 127}]
    BY <1>4, CallFields
  <2>3. /\ call' \in Calls /\ call'.pc = "finish" /\ call'.lang = l /\ call'.kind = call.kind
        /\ call'.heard = call.heard /\ call'.code = call.code /\ call'.partial = partial
        /\ call'.sent = call.sent
    BY <1>2, <1>4, <2>1, <2>2 DEF Calls
  <2>4. Of(l)' = "finish"
    BY <2>3 DEF Of, Reading
  <2>5. UsableYet' => UsableYet /\ I!Disconnect(s)
    BY <1>7, <2>3 DEF UsableYet
  <2>6. UsableYet' => Rest(c)
    <3> SUFFICES ASSUME UsableYet, I!Disconnect(s), c.open
                 PROVE  IF c.tainted THEN AtRest(c, "out") \/ AtRest(c, "err")
                                     ELSE AtRest(c, "out") /\ AtRest(c, "err")
      BY <2>5 DEF Rest
    <3>1. AtRest(c, "out") \/ (c.tainted /\ Good(c, "err"))
      BY <1>4, <1>5, <1>9 DEF Fit, Phase, ReadingErr
    <3>2. "err" \in c.lost
      BY <1>2, <1>3, <1>9 DEF I!Disconnect
    <3>3. c.tainted
      BY <1>4, <3>2 DEF Fit, Untouched
    <3>4. AtRest(c, "out")
      BY <3>1, <3>2 DEF Good
    <3> QED BY <3>3, <3>4
  <2>7. Phase(l, c)'
    BY <2>4, <2>6 DEF Phase
  <2>8. Untouched(l, c)'
    <3>1. Attributed(c, "out")' <=> Attributed(c, "out")
      BY <1>1 DEF Attributed
    <3>2. Attributed(c, "err")' <=> Attributed(c, "err")
      BY <1>1 DEF Attributed
    <3>3. Protocolled(c)' <=> Protocolled(c)
      BY <1>1 DEF Protocolled
    <3> QED BY <1>1, <1>4, <1>5, <1>9, <2>3, <2>4, <2>5, <3>1, <3>2, <3>3 DEF Fit, Untouched
  <2> QED BY <1>1, <1>2, <1>3, <1>6, <2>3, <2>7, <2>8, ReadStep
<1> QED BY <1>8, <1>9 DEF I!Streams

\* What follows a call: the next attempt at the block, or nothing.
LEMMA NextCall ==
  ASSUME IInv, I!Finish
  PROVE  /\ call' \in Calls /\ call'.pc \in {"idle", "ensure"} /\ call'.kind = "live"
         /\ call'.heard = {} /\ call'.partial = {} /\ call'.sent
         /\ request' \in 0..MaxRequests
         /\ call'.pc # "idle" => request' # 0 /\ call.kind = "live"
<1>1. call.pc = "finish" /\ call.pc # "idle"
  BY DEF I!Finish
<1>2. call \in Calls /\ request \in 0..MaxRequests
  BY <1>1, CallFacts
<1>3. call.lang \in I!Langs /\ call.attempt \in 0..1 + Retries /\ call.armed \in BOOLEAN
  BY <1>2, CallFields
<1>4. PICK v \in Calls : /\ v = I!NoCall /\ v.pc = "idle" /\ v.kind = "live"
                         /\ v.heard = {} /\ v.partial = {} /\ v.sent
  BY NoCallFields
<1>5. CASE /\ I!Again /\ request < MaxRequests /\ request' = request + 1
           /\ call' = [I!NoCall EXCEPT !.pc = "ensure", !.lang = call.lang, !.armed = call.armed,
                                       !.attempt = call.attempt + 1]
  <2>1. PICK l \in I!Langs, armed \in BOOLEAN, n \in 0..1 + Retries :
           l = call.lang /\ armed = call.armed /\ n = call.attempt + 1
    <3>1. call.attempt + 1 \in 0..1 + Retries
      BY <1>3, <1>5, SessionNumbers DEF I!Again
    <3> QED BY <1>3, <3>1
  <2> DEFINE w == [v EXCEPT !.pc = "ensure", !.lang = l, !.armed = armed, !.attempt = n]
  <2>2. call' = w
    BY <1>4, <1>5, <2>1
  <2>3. /\ w \in Calls /\ w.pc = "ensure" /\ w.kind = v.kind
        /\ w.heard = v.heard /\ w.partial = v.partial /\ w.sent = v.sent
    BY DEF Calls
  <2> HIDE DEF w
  <2>4. request' \in 0..MaxRequests /\ request' # 0 /\ call.kind = "live"
    BY <1>2, <1>5, SessionNumbers DEF I!Again
  <2> QED BY <1>4, <2>2, <2>3, <2>4
<1>6. CASE call' = [I!NoCall EXCEPT !.armed = call.armed] /\ UNCHANGED request
  <2>1. PICK armed \in BOOLEAN : armed = call.armed
    BY <1>3
  <2> DEFINE w == [v EXCEPT !.armed = armed]
  <2>2. call' = w
    BY <1>4, <1>6, <2>1
  <2>3. /\ w \in Calls /\ w.pc = v.pc /\ w.kind = v.kind
        /\ w.heard = v.heard /\ w.partial = v.partial /\ w.sent = v.sent
    BY DEF Calls
  <2> HIDE DEF w
  <2> QED BY <1>2, <1>4, <1>6, <2>2, <2>3
<1> QED BY <1>5, <1>6 DEF I!Finish

\* The call ends: an interpreter that is kept is at rest.
LEMMA FinishIInv ==
  ASSUME IInv, I!Finish
  PROVE  IInv'
<1>1. /\ call.pc = "finish" /\ call.pc # "idle"
      /\ UNCHANGED <<env, replaying, cleaning, misled>>
  BY DEF I!Finish
<1>2. PICK l \in I!Langs : l = call.lang
  BY <1>1, CallFacts
<1>3. PICK c \in I!Child : c = child[l]
  BY <1>1, <1>2, CallFacts
<1>4. /\ processes \subseteq I!Langs /\ child \in [I!Langs -> I!Child] /\ Calling /\ Fit(l, c)
      /\ replaying \in BOOLEAN /\ env = replaying /\ cleaning \subseteq I!Langs /\ misled \subseteq I!Requests
      /\ call \in Calls
  BY <1>1, <1>2, <1>3, CallFacts, SessionTypes DEF IInv
<1>5. /\ call' \in Calls /\ call'.pc \in {"idle", "ensure"} /\ call'.kind = "live"
      /\ call'.heard = {} /\ call'.partial = {} /\ call'.sent
      /\ request' \in 0..MaxRequests
      /\ call'.pc # "idle" => request' # 0 /\ call.kind = "live"
  BY NextCall
<1>6. Reading /\ Of(l) = "finish" /\ ~Reading' /\ \A m : Of(m)' = "rest"
  BY <1>1, <1>2, <1>5 DEF Reading, Of
<1>7. PICK b \in BOOLEAN : b = FALSE
  OBVIOUS
<1>8. /\ processes' \subseteq processes
      /\ l \in processes' => UsableYet
      /\ \A m \in I!Langs : m # l => (m \in processes' <=> m \in processes)
  BY <1>2 DEF I!Finish, I!Kept, I!Unusable, UsableYet
<1>9. PICK d \in I!Child : d = IF l \in processes' THEN c ELSE I!Fresh(b)
  BY FreshFields
<1>10. child' = [child EXCEPT ![l] = d]
  <2>1. child' = [child EXCEPT ![l] = IF l \in processes' THEN @ ELSE I!Fresh(FALSE)]
    BY <1>2 DEF I!Finish
  <2> QED BY <2>1, <1>3, <1>4, <1>7, <1>9
<1>11. child' \in [I!Langs -> I!Child] /\ child'[l] = d /\ \A m \in I!Langs : m # l => child'[m] = child[m]
  BY <1>4, <1>10
<1>12. Calling'
  BY <1>1, <1>4, <1>5, <1>6 DEF Calling
<1>13. Fit(l, d)'
  <2>1. CASE l \in processes'
    <3>1. Rest(c)
      BY <1>4, <1>6, <1>8, <2>1 DEF Fit, Phase
    <3>2. ~c.tainted => c["out"] = <<>> /\ c["err"] = <<>>
      BY <1>1, <1>4, <1>6, <1>8, <2>1 DEF Fit, Untouched
    <3>3. c.open => NoMore(c)
      BY <3>1 DEF Rest, AtRest
    <3>4. Marked(l, c)'
      BY <1>1, <1>4, <1>6, <3>3 DEF Fit, Marked
    <3>5. l \in processes' <=> l \in processes
      BY <1>8, <2>1
    <3>6. Fit(l, c)'
      BY <1>4, <1>6, <3>1, <3>2, <3>4, <3>5, FitAtRest
    <3>7. d = c
      BY <1>9, <2>1
    <3> QED BY <3>6, <3>7
  <2>2. CASE l \notin processes'
    <3>1. d = I!Fresh(b)
      BY <1>9, <2>2
    <3>2. /\ d.open /\ d.marked = b /\ ~d.tainted /\ d.run = 0 /\ d.stdin = <<>>
          /\ d.strays = {} /\ d.lost = {} /\ d["out"] = <<>> /\ d["err"] = <<>>
      BY <3>1, FreshFields
    <3>3. /\ \A what : ~Has(d, what)
          /\ \A what, by : Followed(d, what, by)
          /\ AtRest(d, "out") /\ AtRest(d, "err") /\ Good(d, "out") /\ Good(d, "err") /\ Ended(d)
      BY <3>1, FreshIsAtRest
    <3>4. Phase(l, d)'
      BY <1>6, <3>3 DEF Phase, Rest
    <3>5. d = I!Fresh(FALSE)
      BY <1>7, <3>1
    <3>6. Held(l, d)'
      BY <1>6, <3>2, <3>3, <3>5 DEF Held
    <3>7. Marked(l, d)'
      BY <1>7, <3>2, <3>3 DEF Marked
    <3>8. Untouched(l, d)'
      BY <1>6, <3>2, <3>3 DEF Untouched
    <3> QED BY <3>4, <3>6, <3>7, <3>8 DEF Fit
  <2> QED BY <2>1, <2>2
<1>14. \A m \in I!Langs : Fit(m, child[m])'
  <2> TAKE m \in I!Langs
  <2>1. CASE m = l
    BY <1>11, <1>13, <2>1
  <2>2. CASE m # l
    <3>1. PICK e \in I!Child : e = child[m]
      BY <1>4
    <3>2. Fit(m, e) /\ Of(m) = "rest"
      BY <1>2, <2>2, <3>1 DEF IInv, Of
    <3>3. Marked(m, e)'
      BY <1>1, <1>2, <2>2, <3>2 DEF Fit, Marked
    <3>4. m \in processes' <=> m \in processes
      BY <1>8, <2>2
    <3>5. Fit(m, e)'
      BY <1>6, <3>2, <3>3, <3>4, FitAtRest
    <3> QED BY <1>11, <2>2, <3>1, <3>5
  <2> QED BY <2>1, <2>2
<1>15. I!SessionTypeOK'
  <2>1. processes' \subseteq I!Langs /\ env \in BOOLEAN
    BY <1>4, <1>8
  <2> QED BY <1>1, <1>4, <1>5, <1>11, <2>1 DEF I!SessionTypeOK, Calls, Kinds
<1> QED BY <1>12, <1>14, <1>15 DEF IInv

\* IInv holds at first.
LEMMA SessionInit ==
  ASSUME I!Init
  PROVE  IInv
<1>1. /\ processes = {} /\ cleaning = {} /\ misled = {} /\ request = 0
      /\ replaying \in BOOLEAN /\ env = replaying
      /\ call = I!NoCall /\ child = [l \in I!Langs |-> I!Fresh(FALSE)]
  BY DEF I!Init
<1>2. /\ call \in Calls /\ call.pc = "idle" /\ call.kind = "live" /\ call.heard = {}
      /\ call.partial = {} /\ call.sent
  BY <1>1, NoCallFields
<1>3. PICK b \in BOOLEAN : b = FALSE
  OBVIOUS
<1>4. PICK d \in I!Child : d = I!Fresh(b)
  BY FreshFields
<1>5. /\ d.open /\ d.marked = b /\ ~d.tainted /\ d.run = 0 /\ d.stdin = <<>>
      /\ d.strays = {} /\ d.lost = {} /\ d["out"] = <<>> /\ d["err"] = <<>>
  BY <1>4, FreshFields
<1>6. /\ \A what : ~Has(d, what)
      /\ \A what, by : Followed(d, what, by)
      /\ AtRest(d, "out") /\ AtRest(d, "err") /\ Good(d, "out") /\ Good(d, "err") /\ Ended(d)
  BY <1>4, FreshIsAtRest
<1>7. child \in [I!Langs -> I!Child] /\ \A l \in I!Langs : child[l] = d
  BY <1>1, <1>3, <1>4
<1>8. ~Reading /\ \A l : Of(l) = "rest"
  BY <1>2 DEF Reading, Of
<1>9. Calling
  BY <1>1, <1>2, <1>8 DEF Calling
<1>10. \A l \in I!Langs : Fit(l, child[l])
  <2> TAKE l \in I!Langs
  <2>1. Phase(l, d)
    BY <1>6, <1>8 DEF Phase, Rest
  <2>2. d = I!Fresh(FALSE)
    BY <1>3, <1>4
  <2>3. Held(l, d)
    BY <1>5, <1>6, <1>8, <2>2 DEF Held
  <2>4. Marked(l, d)
    BY <1>3, <1>5, <1>6 DEF Marked
  <2>5. Untouched(l, d)
    BY <1>5, <1>6, <1>8 DEF Untouched
  <2> QED BY <1>7, <2>1, <2>3, <2>4, <2>5 DEF Fit
<1>11. I!SessionTypeOK
  <2>1. request \in 0..MaxRequests /\ env \in BOOLEAN
    BY <1>1, SessionNumbers
  <2> QED BY <1>1, <1>2, <1>7, <2>1, SessionTypes
<1> QED BY <1>9, <1>10, <1>11 DEF IInv

\* Every step.
LEMMA StepIInv ==
  ASSUME IInv, I!Next
  PROVE  IInv'
<1>1. CASE \E l \in I!Langs : I!ReplayBlock(l) \/ I!UnsetEnv(l)
  BY <1>1, CallsIInv
<1>2. CASE \E l \in I!Langs, armed \in BOOLEAN : I!RunBlock(l, armed)
  BY <1>2, CallsIInv
<1>3. CASE I!EndReplay
  BY <1>3, EndReplayIInv
<1>4. CASE I!Ensure
  BY <1>4, EnsureIInv
<1>5. CASE I!SendCode
  BY <1>5, SendIInv
<1>6. CASE I!Finish
  BY <1>6, FinishIInv
<1>7. CASE \E s \in I!Streams : I!Receive(s) \/ I!GiveUp(s) \/ I!Disconnect(s)
  BY <1>7, ReceiveIInv, GiveUpIInv
<1>8. CASE I!Children
  BY <1>8, ChildrenIInv
<1> QED BY <1>1, <1>2, <1>3, <1>4, <1>5, <1>6, <1>7, <1>8 DEF I!Next, I!WB

\* A step of another part.
LEMMA KeptIInv ==
  ASSUME IInv, UNCHANGED interpreterVars
  PROVE  IInv'
<1>1. UNCHANGED <<processes, env, replaying, cleaning, request, call, child, misled>>
  BY DEF interpreterVars
<1>2. I!SessionTypeOK'
  BY <1>1, SessionTypes DEF IInv, I!SessionTypeOK
<1>3. Calling'
  BY <1>1 DEF IInv, Calling, Reading
<1>4. \A l \in I!Langs : Fit(l, child[l])'
  <2> TAKE l \in I!Langs
  <2>1. child \in [I!Langs -> I!Child]
    BY SessionTypes DEF IInv
  <2>2. PICK c \in I!Child : c = child[l]
    BY <2>1
  <2>3. Fit(l, c)'
    BY <1>1, <2>2, FitKept DEF IInv
  <2> QED BY <1>1, <2>2, <2>3
<1> QED BY <1>2, <1>3, <1>4 DEF IInv

\* What the invariant says of the properties.
LEMMA SessionPromises ==
  ASSUME IInv
  PROVE  I!SessionTypeOK /\ OwnResult /\ NeverMisled
<1>1. NeverMisled
  BY DEF NeverMisled, I!NeverMisled, IInv, Calling
<1>2. OwnResult
  <2> SUFFICES ASSUME call.pc = "finish", ~child[call.lang].tainted
               PROVE  call.heard \subseteq {request} /\ (call.code.code = 0 => call.code.of = request)
    BY DEF OwnResult, I!OwnResult
  <2>1. call.lang \in I!Langs /\ Fit(call.lang, child[call.lang])
    BY CallFacts
  <2>2. Of(call.lang) = "finish"
    BY DEF Of, Reading
  <2> QED BY <2>1, <2>2 DEF Fit, Untouched
<1> QED BY <1>1, <1>2 DEF IInv

-----------------------------------------------------------------------------
\* The three together.

\* The inductive invariant of a wb process with its children.
ChildInv == OInv /\ BInv /\ IInv

\* ChildInv holds at first, and every step keeps it.
LEMMA ChildrenInit == Init => ChildInv
BY OneShotInit, SidecarInit, SessionInit DEF Init, ChildInv

\* One part moves, and the other two stay as they are.
LEMMA ChildrenNext == ChildInv /\ [Next]_allVars => ChildInv'
<1> SUFFICES ASSUME ChildInv, [Next]_allVars PROVE ChildInv'
  OBVIOUS
<1>1. OInv /\ BInv /\ IInv
  BY DEF ChildInv
<1>2. CASE Interpreters
  <2>1. I!Next /\ UNCHANGED oneShotVars /\ UNCHANGED browserVars
    BY <1>2 DEF Interpreters
  <2> QED BY <1>1, <2>1, StepIInv, KeptOInv, KeptBInv DEF ChildInv
<1>3. CASE Processes
  <2>1. O!Next /\ UNCHANGED interpreterVars /\ UNCHANGED browserVars
    BY <1>3 DEF Processes
  <2> QED BY <1>1, <2>1, StepOInv, KeptIInv, KeptBInv DEF ChildInv
<1>4. CASE Browser
  <2>1. B!Next /\ UNCHANGED interpreterVars /\ UNCHANGED oneShotVars
    BY <1>4 DEF Browser
  <2> QED BY <1>1, <2>1, StepBInv, KeptIInv, KeptOInv DEF ChildInv
<1>5. CASE UNCHANGED allVars
  <2>1. UNCHANGED interpreterVars /\ UNCHANGED oneShotVars /\ UNCHANGED browserVars
    BY <1>5 DEF allVars
  <2> QED BY <1>1, <2>1, KeptIInv, KeptOInv, KeptBInv DEF ChildInv
<1> QED BY <1>2, <1>3, <1>4, <1>5 DEF Next

\* So it always holds.
LEMMA ChildrenInvariant == Spec => []ChildInv
BY ChildrenInit, ChildrenNext, PTL DEF Spec

\* The variables keep their types: src/src/executor.rs, src/src/sidecar.rs.
THEOREM ChildrenTypes == Spec => []TypeOK
<1>1. ChildInv => TypeOK
  BY SessionPromises, SidecarPromises DEF ChildInv, OInv, TypeOK
<1> QED BY <1>1, ChildrenInvariant, PTL

\* What a process of its own printed before it ended, on either stream, is in its
\* block's result, whatever the pipes hold and in whichever order they are read.
THEOREM OutputIsWhole == Spec => []AllOutput
<1>1. ChildInv => AllOutput
  BY WholeOutput DEF ChildInv
<1> QED BY <1>1, ChildrenInvariant, PTL

\* As long as every slice of this sidecar was answered, a slice's result is the
\* answer to that slice, never to an earlier one: execute_browser_slice.
THEOREM AnswersAreOwn == Spec => []OwnAnswer
<1>1. ChildInv => OwnAnswer
  BY SidecarPromises DEF ChildInv
<1> QED BY <1>1, ChildrenInvariant, PTL

\* No sidecar survives wb, and the browser of a paused run stays open.
THEOREM BrowsersLive == Spec => []BrowserLives
<1>1. ChildInv => BrowserLives
  BY SidecarPromises DEF ChildInv
<1> QED BY <1>1, ChildrenInvariant, PTL

\* The state saved for a paused slice is restored to that slice and to no other,
\* unless an operator navigated or a slice was skipped since.
THEOREM PausedSliceIsRestored == Spec => []RestoresPausedSlice
<1>1. ChildInv => RestoresPausedSlice
  BY SidecarPromises DEF ChildInv
<1> QED BY <1>1, ChildrenInvariant, PTL

\* A block that runs in an interpreter nobody tampered with gets its own output and
\* its own exit code, however its attempts and those before it ended.
THEOREM ResultsAreOwn == Spec => []OwnResult
<1>1. ChildInv => OwnResult
  BY SessionPromises DEF ChildInv
<1> QED BY <1>1, ChildrenInvariant, PTL

\* No live block runs with WB_REPLAY set.
THEOREM NobodyMisled == Spec => []NeverMisled
<1>1. ChildInv => NeverMisled
  BY SessionPromises DEF ChildInv
<1> QED BY <1>1, ChildrenInvariant, PTL
===============================================================================
