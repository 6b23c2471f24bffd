--------------------------- MODULE PipelineProofs ---------------------------
(* What DailyPipeline promises of rows and files, for any number of sources, *)
(* dates, runs and uses of the export command.                               *)
EXTENDS DailyPipeline, TLAPS

USE PipelineAssumption DEF PipelineAssumption

\* The five files of an export are different ones; two dates share the first
\* three of them.
LEMMA FilesOfDate ==
    /\ \A i \in 1..Last, d \in Dates : FileAt(i, d) \in FileNames
    /\ \A i, j \in 1..Last, d, e \in Dates :
            FileAt(i, d) = FileAt(j, e) => i = j
    /\ \A i \in 1..3, d, e \in Dates : FileAt(i, d) = FileAt(i, e)
    /\ \A d, e \in Dates : FileAt(Last, d) = FileAt(Last, e) => d = e
<1>1. ASSUME NEW i \in 1..Last, NEW d \in Dates PROVE FileAt(i, d) \in FileNames
  <2>1. i \in {1, 2, 3, 4, 5}
    BY DEF Last
  <2> QED BY <2>1 DEF FileAt, FileNames, InOrder
<1>2. ASSUME NEW i \in 1..Last, NEW j \in 1..Last, NEW d \in Dates, NEW e \in Dates,
             FileAt(i, d) = FileAt(j, e)
      PROVE  i = j
  <2>1. FileAt(i, d).name = FileAt(j, e).name
    BY <1>2
  <2>2. i \in {1, 2, 3, 4, 5} /\ j \in {1, 2, 3, 4, 5}
    BY DEF Last
  <2>3. InOrder[i] = InOrder[j]
    BY <2>1 DEF FileAt
  <2> QED BY <2>2, <2>3 DEF InOrder
<1>3. ASSUME NEW i \in 1..3, NEW d \in Dates, NEW e \in Dates
      PROVE  FileAt(i, d) = FileAt(i, e)
  BY <1>3 DEF FileAt
<1>4. ASSUME NEW d \in Dates, NEW e \in Dates, FileAt(Last, d) = FileAt(Last, e)
      PROVE  d = e
  <2>1. FileAt(Last, d).date = FileAt(Last, e).date
    BY <1>4
  <2> QED BY <2>1 DEF FileAt, Last
<1> QED BY <1>1, <1>2, <1>3, <1>4

\* What an export reads is one of the contents a file can have.
LEMMA ReadContent ==
    ASSUME NEW by \in 0..MaxRuns, NEW command \in BOOLEAN, NEW ranked \in BOOLEAN,
           NEW d \in Dates, NEW scored \in BOOLEAN
    PROVE  [by |-> by, command |-> command, ranked |-> ranked, date |-> d,
            scored |-> scored] \in Content
BY DEF Content

LEMMA ReadTyped ==
    ASSUME NEW ranked \in BOOLEAN, NEW command \in BOOLEAN, NEW d \in Dates,
           runs \in 0..MaxRuns, Read(ranked, command, d)
    PROVE  content' \in Content /\ next' \in 1..Last + 1
<1>1. (\A s \in Sources : held[s] > 0 => score[s] = runs) \in BOOLEAN
  OBVIOUS
<1>2. content' \in Content
  BY <1>1, ReadContent, Zenon DEF Read
<1>3. next' \in 1..Last + 1
  BY DEF Read, Last
<1> QED BY <1>2, <1>3

LEMMA FlagsStep == FlagsOK /\ [Next]_vars => FlagsOK'
<1> SUFFICES ASSUME FlagsOK, [Next]_vars PROVE FlagsOK'
  OBVIOUS
<1>1. CASE UNCHANGED vars
  BY <1>1 DEF vars, FlagsOK
<1>2. CASE Next
  <2>1. ASSUME NEW s \in Sources, NEW o \in Outcomes, NEW stores \in BOOLEAN,
               NEW erasure \in BOOLEAN, Collect(s, o, stores, erasure)
        PROVE  FlagsOK'
    BY <2>1, Zenon DEF Collect, FlagsOK
  <2>2. CASE Collected
    BY <2>2, Zenon DEF Collected, FlagsOK, disk
  <2>3. ASSUME NEW failing \in SUBSET Sources, Analyze(failing) PROVE FlagsOK'
    BY <2>3, Zenon DEF Analyze, FlagsOK
  <2>4. CASE (\E a \in Args : Begin(a)) \/ (\E f \in FileNames : Purge(f))
             \/ (\E st \in {"Failed", "Running"} : Abort(st))
             \/ \E d \in Dates : ExportCommand(d)
    BY <2>4, Zenon DEF Begin, Purge, Abort, ExportCommand, Gone, FlagsOK
  <2>5. CASE NoErasure \/ Sanitize \/ Write \/ Complete \/ Withhold \/ Publish
             \/ Exported \/ Finish \/ ExportEnds
    BY <2>5, Zenon DEF NoErasure, Sanitize, Write, Complete, Withhold, Publish,
                       Exported, Finish, ExportEnds, Gone, FlagsOK, disk
  <2> QED BY <1>2, <2>1, <2>2, <2>3, <2>4, <2>5 DEF Next
<1> QED BY <1>1, <1>2

LEMMA InitInv == Init => IInv
<1> SUFFICES ASSUME Init PROVE IInv
  OBVIOUS
<1>0. \A i \in 1..Last, d \in Dates : FileAt(i, d) \in FileNames
  BY FilesOfDate
<1>a. FlagsOK
  BY DEF Init, FlagsOK
<1>1. TypeOK
  BY <1>a DEF Init, TypeOK, Sources, Runs, Last
<1>2. RowsAreInOrder /\ CollectionIsCounted
  BY DEF Init, RowsAreInOrder, CollectionIsCounted, Begun, Runs, Sources
<1>3. ExportIsAtWork /\ FilesAreOld /\ PublishedFirst
  BY DEF Init, ExportIsAtWork, FilesAreOld, PublishedFirst
<1>4. RankedRunsAreWhole /\ ReportComesLast
  BY <1>0 DEF Init, RankedRunsAreWhole, ReportComesLast, Last
<1>5. FailureIsIsolated /\ SuccessIsPublished
  BY DEF Init, FailureIsIsolated, SuccessIsPublished, Statuses, Outcomes
<1> QED BY <1>1, <1>2, <1>3, <1>4, <1>5 DEF IInv

LEMMA TypeStep == TypeOK /\ RowsAreInOrder /\ [Next]_vars => TypeOK'
<1> SUFFICES ASSUME TypeOK, RowsAreInOrder, [Next]_vars PROVE TypeOK'
  OBVIOUS
<1>f. FlagsOK'
  BY FlagsStep DEF TypeOK
<1> USE <1>f DEF TypeOK
<1>0. \A i \in 1..Last, d \in Dates : FileAt(i, d) \in FileNames
  BY FilesOfDate
<1>a. Begun => runs \in Runs /\ Me \in Args /\ Me.date \in Dates
  BY DEF RowsAreInOrder, Runs, Me, Args
<1>1. CASE \E a \in Args : Begin(a)
  BY <1>1 DEF Begin, Runs, Statuses
<1>2. CASE NoErasure \/ Withhold
  BY <1>2 DEF NoErasure, Withhold, disk
<1>3. CASE Sanitize
  BY <1>3, <1>a, ReadTyped DEF Sanitize, disk, Begun
<1>4. CASE Publish
  BY <1>4, <1>a, ReadTyped DEF Publish, disk, Begun
<1>5. ASSUME NEW d \in Dates, ExportCommand(d) PROVE TypeOK'
  <2>1. content' \in Content /\ next' \in 1..Last + 1
    BY <1>5, ReadTyped DEF ExportCommand
  <2> QED BY <1>5, <2>1 DEF ExportCommand
<1>6. CASE Write
  <2>1. files' \in [FileNames -> Content \cup {None}]
    BY <1>6 DEF Write, Replaced
  <2> QED BY <1>6, <2>1 DEF Write, Last
<1>7. CASE Complete \/ Exported
  BY <1>7 DEF Complete, Exported, disk, Last
<1>8. CASE \E f \in FileNames : Purge(f)
  BY <1>8 DEF Purge
<1>9. ASSUME NEW s \in Sources, NEW o \in Outcomes, NEW stores \in BOOLEAN,
             NEW erasure \in BOOLEAN, Collect(s, o, stores, erasure)
      PROVE  TypeOK'
  BY <1>9, <1>a DEF Collect, Stored, Begun
<1>10. CASE Collected
  BY <1>10 DEF Collected, AfterCollection, disk
<1>11. ASSUME NEW failing \in SUBSET Sources, Analyze(failing) PROVE TypeOK'
  BY <1>11 DEF Analyze, AfterAnalysis
<1>12. CASE Finish
  <2>1. FinalStatus \in Statuses
    BY DEF FinalStatus, Statuses
  <2>2. status' \in [Runs -> Statuses \cup {None}]
    BY <1>12, <2>1 DEF Finish
  <2> QED BY <1>12, <2>2 DEF Finish, Gone, Last
<1>13. ASSUME NEW st \in {"Failed", "Running"}, Abort(st) PROVE TypeOK'
  <2>1. {"Failed", "Running"} \subseteq Statuses
    BY DEF Statuses
  <2>2. status' \in [Runs -> Statuses \cup {None}]
    BY <1>13, <2>1 DEF Abort
  <2> QED BY <1>13, <2>2 DEF Abort, Gone, Last
<1>14. CASE ExportEnds
  BY <1>14 DEF ExportEnds, Gone, disk, Last
<1>15. CASE UNCHANGED vars
  BY <1>15 DEF vars
<1> QED BY <1>1, <1>2, <1>3, <1>4, <1>5, <1>6, <1>7, <1>8, <1>9, <1>10, <1>11,
           <1>12, <1>13, <1>14, <1>15 DEF Next

\* The steps that touch neither the table of runs nor what is stored.
RowsKept == /\ UNCHANGED <<runs, args, status, sourceRun, held, score>>
            /\ Begun' <=> Begun

LEMMA StepsThatKeepRows ==
    ASSUME [Next]_vars
    PROVE  \/ RowsKept
           \/ \E a \in Args : Begin(a)
           \/ \E s \in Sources, o \in Outcomes, stores, erasure \in BOOLEAN :
                    Collect(s, o, stores, erasure)
           \/ \E failing \in SUBSET Sources : Analyze(failing)
           \/ Finish
           \/ \E st \in {"Failed", "Running"} : Abort(st)
           \/ NoErasure
           \/ Complete
<1>1. CASE Sanitize \/ Write \/ Withhold \/ Publish \/ Exported \/ ExportEnds
  BY <1>1 DEF Sanitize, Write, Withhold, Publish, Exported, ExportEnds, Gone,
              RowsKept, Begun, disk
<1>2. CASE Collected
  BY <1>2 DEF Collected, AfterCollection, RowsKept, Begun, disk
<1>3. ASSUME NEW f \in FileNames, Purge(f) PROVE RowsKept
  BY <1>3 DEF Purge, RowsKept, Begun
<1>4. ASSUME NEW d \in Dates, ExportCommand(d) PROVE RowsKept
  BY <1>4 DEF ExportCommand, RowsKept, Begun
<1>5. CASE UNCHANGED vars
  BY <1>5 DEF vars, RowsKept, Begun
<1> QED BY <1>1, <1>2, <1>3, <1>4, <1>5 DEF Next

LEMMA RowsStep ==
    TypeOK /\ RowsAreInOrder /\ [Next]_vars => RowsAreInOrder'
<1> SUFFICES ASSUME TypeOK, RowsAreInOrder, [Next]_vars PROVE RowsAreInOrder'
  OBVIOUS
<1> USE DEF RowsAreInOrder
<1>1. CASE RowsKept
  BY <1>1 DEF RowsKept
<1>2. ASSUME NEW a \in Args, Begin(a) PROVE RowsAreInOrder'
  <2>1. \A r \in Runs : r # runs + 1 => args'[r] = args[r] /\ status'[r] = status[r]
    BY <1>2 DEF Begin, TypeOK
  <2>2. runs + 1 \in Runs /\ runs \in Nat
    BY <1>2 DEF Begin, TypeOK, Runs
  <2>3. args'[runs + 1] = a /\ status'[runs + 1] = "Running"
    BY <1>2, <2>2 DEF Begin, TypeOK
  <2> QED BY <1>2, <2>1, <2>2, <2>3 DEF Begin, TypeOK, Begun, Runs, Statuses, Sources
<1>3. ASSUME NEW s \in Sources, NEW o \in Outcomes, NEW stores \in BOOLEAN,
             NEW erasure \in BOOLEAN, Collect(s, o, stores, erasure)
      PROVE  RowsAreInOrder'
  <2>1. \A r \in Runs, t \in Sources : r > runs => sourceRun'[<<r, t>>] = sourceRun[<<r, t>>]
    BY <1>3 DEF Collect, TypeOK, Runs
  <2>2. \A t \in Sources : held'[t] <= runs
    BY <1>3 DEF Collect, Stored, TypeOK
  <2> QED BY <1>3, <2>1, <2>2 DEF Collect, TypeOK, Begun
<1>4. ASSUME NEW failing \in SUBSET Sources, Analyze(failing) PROVE RowsAreInOrder'
  BY <1>4 DEF Analyze, AfterAnalysis, TypeOK, Begun
<1>5. CASE Finish
  <2>1. FinalStatus \in Statuses
    BY DEF FinalStatus, Statuses
  <2> QED BY <1>5, <2>1 DEF Finish, Gone, TypeOK, Begun, Runs
<1>6. ASSUME NEW st \in {"Failed", "Running"}, Abort(st) PROVE RowsAreInOrder'
  <2>1. st # None
    BY DEF Statuses
  <2> QED BY <1>6, <2>1 DEF Abort, Gone, TypeOK, Begun, Runs
<1>7. CASE NoErasure \/ Complete
  BY <1>7 DEF NoErasure, Complete, disk, TypeOK, Begun
<1> QED BY <1>1, <1>2, <1>3, <1>4, <1>5, <1>6, <1>7, StepsThatKeepRows

LEMMA CountedStep ==
    TypeOK /\ RowsAreInOrder /\ CollectionIsCounted /\ [Next]_vars => CollectionIsCounted'
<1> SUFFICES ASSUME TypeOK, RowsAreInOrder, CollectionIsCounted, [Next]_vars
             PROVE  CollectionIsCounted'
  OBVIOUS
<1> USE DEF CollectionIsCounted, Begun, Me, Outcome, NoSource, Wanted, Healthy, Publishes, Collects
<1>1. ASSUME NEW a \in Args, Begin(a) PROVE CollectionIsCounted'
  <2>1. runs + 1 \in Runs /\ runs \in Nat
    BY <1>1 DEF Begin, TypeOK, Runs
  <2>2. \A s \in Sources : sourceRun'[<<runs + 1, s>>] = None
    BY <1>1, <2>1 DEF Begin, RowsAreInOrder
  <2> QED BY <1>1, <2>1, <2>2 DEF Begin, Outcomes
<1>2. CASE NoErasure
  BY <1>2 DEF NoErasure, disk, TypeOK
<1>3. CASE Sanitize \/ Write \/ Withhold \/ Exported \/ Publish
  <2>1. CASE Sanitize
    BY <2>1 DEF Sanitize, disk
  <2>2. CASE Write
    BY <2>2 DEF Write
  <2>3. CASE Withhold
    BY <2>3 DEF Withhold, disk
  <2>4. CASE Exported
    BY <2>4 DEF Exported, disk
  <2>5. CASE Publish
    BY <2>5 DEF Publish, disk
  <2> QED BY <1>3, <2>1, <2>2, <2>3, <2>4, <2>5
<1>4. CASE Complete
  BY <1>4 DEF Complete, TypeOK
<1>5. ASSUME NEW f \in FileNames, Purge(f) PROVE CollectionIsCounted'
  BY <1>5 DEF Purge
<1>6. ASSUME NEW s \in Sources, NEW o \in Outcomes, NEW stores \in BOOLEAN,
             NEW erasure \in BOOLEAN, Collect(s, o, stores, erasure)
      PROVE  CollectionIsCounted'
  <2>1. \A t \in Sources : sourceRun'[<<runs, t>>] = IF t = s THEN o ELSE sourceRun[<<runs, t>>]
    BY <1>6 DEF Collect, TypeOK, RowsAreInOrder, Runs
  <2> QED BY <1>6, <2>1 DEF Collect
<1>7. CASE Collected
  BY <1>7 DEF Collected, AfterCollection, disk
<1>8. ASSUME NEW failing \in SUBSET Sources, Analyze(failing) PROVE CollectionIsCounted'
  BY <1>8 DEF Analyze, AfterAnalysis
<1>9. CASE Finish \/ ExportEnds
  BY <1>9 DEF Finish, ExportEnds, Gone
<1>10. ASSUME NEW st \in {"Failed", "Running"}, Abort(st) PROVE CollectionIsCounted'
  BY <1>10 DEF Abort, Gone
<1>11. ASSUME NEW d \in Dates, ExportCommand(d) PROVE CollectionIsCounted'
  BY <1>11 DEF ExportCommand
<1>12. CASE UNCHANGED vars
  BY <1>12 DEF vars
<1> QED BY <1>1, <1>2, <1>3, <1>4, <1>5, <1>6, <1>7, <1>8, <1>9, <1>10, <1>11, <1>12
        DEF Next

\* What a step of an export does to the files.
LEMMA WriteFacts ==
    ASSUME TypeOK, ExportIsAtWork, Write
    PROVE  /\ content \in Content /\ content # None /\ content.date \in Dates
           /\ next \in 1..Last
           /\ FileAt(next, content.date) \in FileNames
           /\ \A f \in FileNames : files'[f] = IF f = FileAt(next, content.date)
                                              THEN content ELSE files[f]
<1>1. content \in Content /\ content # None
  BY DEF TypeOK, ExportIsAtWork, Write
<1>2. content.date \in Dates
  BY <1>1 DEF Content
<1>3. next \in 1..Last
  BY DEF TypeOK, Write, Last
<1>4. FileAt(next, content.date) \in FileNames
  BY <1>2, <1>3, FilesOfDate
<1> QED BY <1>1, <1>2, <1>3, <1>4 DEF Write, Replaced, TypeOK

LEMMA ReadFacts ==
    ASSUME TypeOK, NEW ranked \in BOOLEAN, NEW command \in BOOLEAN, NEW d \in Dates,
           Read(ranked, command, d)
    PROVE  /\ content' \in Content /\ content' # None /\ next' = 1
           /\ content'.by = runs /\ content'.date = d
           /\ content'.ranked <=> ranked
           /\ content'.command <=> command
           /\ (\A s \in Sources : held[s] > 0 => score[s] = runs) => content'.scored
<1>1. content' \in Content
  BY ReadTyped DEF TypeOK
<1>2. content' # None
  BY <1>1
<1>3. next' = 1 /\ content'.by = runs /\ content'.date = d
  BY DEF Read
<1>4. content'.ranked <=> ranked
  BY DEF Read
<1>5. content'.command <=> command
  BY DEF Read
<1>6. (\A s \in Sources : held[s] > 0 => score[s] = runs) => content'.scored
  BY DEF Read
<1> QED BY <1>1, <1>2, <1>3, <1>4, <1>5, <1>6

LEMMA AtWorkStep ==
    TypeOK /\ RowsAreInOrder /\ CollectionIsCounted /\ ExportIsAtWork /\ [Next]_vars
        => ExportIsAtWork'
<1> SUFFICES ASSUME TypeOK, RowsAreInOrder, CollectionIsCounted, ExportIsAtWork,
                    [Next]_vars
             PROVE  ExportIsAtWork'
  OBVIOUS
<1>a. Begun => Me \in Args /\ Me.date \in Dates
  BY DEF RowsAreInOrder, Me, Args, TypeOK, Runs
<1>1. CASE Sanitize
  <2>1. Read(FALSE, FALSE, Me.date) /\ Me.date \in Dates
    BY <1>1, <1>a DEF Sanitize, Begun
  <2>2. content' # None /\ next' = 1 /\ content'.by = runs /\ ~content'.ranked
        /\ ~content'.command
    BY <2>1, ReadFacts
  <2> QED BY <1>1, <2>2 DEF Sanitize, disk, ExportIsAtWork
<1>2. CASE Publish
  <2>1. Read(TRUE, FALSE, Me.date) /\ Me.date \in Dates
    BY <1>2, <1>a DEF Publish, Begun
  <2>2. content' # None /\ next' = 1 /\ content'.by = runs /\ content'.ranked
        /\ ~content'.command /\ content'.scored
    BY <1>2, <2>1, ReadFacts DEF ExportIsAtWork, Publish
  <2> QED BY <1>2, <2>2 DEF Publish, disk, ExportIsAtWork
<1>3. ASSUME NEW d \in Dates, ExportCommand(d) PROVE ExportIsAtWork'
  <2>1. content' # None /\ next' = 1 /\ content'.by = runs /\ content'.ranked
        /\ content'.command
    BY <1>3, ReadFacts DEF ExportCommand
  <2> QED BY <1>3, <2>1 DEF ExportCommand, ExportIsAtWork
<1>4. CASE Write
  <2> DEFINE target == FileAt(next, content.date)
  <2>1. /\ content # None /\ content.date \in Dates /\ next \in 1..Last
        /\ \A f \in FileNames : files'[f] = IF f = target THEN content ELSE files[f]
        /\ target \in FileNames
    BY <1>4, WriteFacts
  <2>2. \A i \in 1..Last : FileAt(i, content.date) \in FileNames
    BY <2>1, FilesOfDate
  <2>3. \A i \in 1..Last : i < next + 1 => files'[FileAt(i, content.date)] = content
    <3> SUFFICES ASSUME NEW i \in 1..Last, i < next + 1
                 PROVE  files'[FileAt(i, content.date)] = content
      OBVIOUS
    <3>1. CASE i = next
      BY <3>1, <2>1
    <3>2. CASE i < next
      BY <3>2, <2>1, <2>2, <1>4 DEF ExportIsAtWork, Write
    <3> QED BY <3>1, <3>2, <2>1
  <2>4. ASSUME pc = "sanitize", NEW f \in FileNames, files'[f] # None
        PROVE  files'[f] = content
               /\ \E i \in 1..Last : i < next + 1 /\ f = FileAt(i, content.date)
    <3>1. CASE f = target
      BY <3>1, <2>1
    <3>2. CASE f # target
      <4>1. files'[f] = files[f]
        BY <3>2, <2>1
      <4>2. PICK i \in 1..Last : i < next /\ f = FileAt(i, content.date)
        BY <4>1, <2>4 DEF ExportIsAtWork
      <4>3. i < next + 1
        BY <4>2, <2>1
      <4> QED BY <4>1, <4>2, <4>3, <2>4 DEF ExportIsAtWork
    <3> QED BY <3>1, <3>2
  <2> HIDE DEF target
  <2> QED BY <1>4, <2>3, <2>4 DEF Write, ExportIsAtWork
<1>5. CASE Complete
  BY <1>5 DEF Complete, ExportIsAtWork, TypeOK
<1>6. CASE Exported
  BY <1>6 DEF Exported, ExportIsAtWork, disk
<1>7. CASE Withhold \/ NoErasure \/ Collected
  BY <1>7 DEF Withhold, NoErasure, Collected, AfterCollection, ExportIsAtWork, disk, TypeOK
<1>8. ASSUME NEW f \in FileNames, Purge(f) PROVE ExportIsAtWork'
  BY <1>8 DEF Purge, ExportIsAtWork
<1>9. ASSUME NEW s \in Sources, NEW o \in Outcomes, NEW stores \in BOOLEAN,
             NEW erasure \in BOOLEAN, Collect(s, o, stores, erasure)
      PROVE  ExportIsAtWork'
  BY <1>9 DEF Collect, ExportIsAtWork
<1>10. ASSUME NEW failing \in SUBSET Sources, Analyze(failing) PROVE ExportIsAtWork'
  BY <1>10 DEF Analyze, AfterAnalysis, ExportIsAtWork
<1>11. CASE Finish \/ ExportEnds
  BY <1>11 DEF Finish, ExportEnds, Gone, ExportIsAtWork
<1>12. ASSUME NEW st \in {"Failed", "Running"}, Abort(st) PROVE ExportIsAtWork'
  BY <1>12 DEF Abort, Gone, ExportIsAtWork
<1>13. ASSUME NEW a \in Args, Begin(a) PROVE ExportIsAtWork'
  BY <1>13 DEF Begin, ExportIsAtWork
<1>14. CASE UNCHANGED vars
  BY <1>14 DEF vars, ExportIsAtWork
<1> QED BY <1>1, <1>2, <1>3, <1>4, <1>5, <1>6, <1>7, <1>8, <1>9, <1>10, <1>11, <1>12,
           <1>13, <1>14 DEF Next

\* The steps that leave the files as they are, by what else they may change.
LEMMA StepsThatKeepFiles ==
    ASSUME [Next]_vars
    PROVE  \/ UNCHANGED files /\ UNCHANGED runs /\ (Begun' => Begun)
              /\ (pc \in {"export", "finish"} /\ Begun' => pc' \in {"export", "finish"})
           \/ \E a \in Args : Begin(a)
           \/ Write
           \/ \E f \in FileNames : Purge(f)
           \/ NoErasure
           \/ Complete
<1>1. CASE Sanitize \/ Withhold \/ Publish
  BY <1>1 DEF Sanitize, Withhold, Publish, Begun, disk
<1>2. CASE Collected \/ Exported
  BY <1>2 DEF Collected, AfterCollection, Exported, Begun, disk
<1>3. CASE Finish \/ ExportEnds
  BY <1>3 DEF Finish, ExportEnds, Gone, Begun, disk
<1>4. ASSUME NEW s \in Sources, NEW o \in Outcomes, NEW stores \in BOOLEAN,
             NEW erasure \in BOOLEAN, Collect(s, o, stores, erasure)
      PROVE  UNCHANGED files /\ UNCHANGED runs /\ (Begun' => Begun)
              /\ (pc \in {"export", "finish"} /\ Begun' => pc' \in {"export", "finish"})
  BY <1>4 DEF Collect, Begun
<1>5. ASSUME NEW failing \in SUBSET Sources, Analyze(failing)
      PROVE  UNCHANGED files /\ UNCHANGED runs /\ (Begun' => Begun)
              /\ (pc \in {"export", "finish"} /\ Begun' => pc' \in {"export", "finish"})
  BY <1>5 DEF Analyze, AfterAnalysis, Begun
<1>6. ASSUME NEW st \in {"Failed", "Running"}, Abort(st)
      PROVE  UNCHANGED files /\ UNCHANGED runs /\ (Begun' => Begun)
              /\ (pc \in {"export", "finish"} /\ Begun' => pc' \in {"export", "finish"})
  BY <1>6 DEF Abort, Gone, Begun
<1>7. ASSUME NEW d \in Dates, ExportCommand(d)
      PROVE  UNCHANGED files /\ UNCHANGED runs /\ (Begun' => Begun)
              /\ (pc \in {"export", "finish"} /\ Begun' => pc' \in {"export", "finish"})
  BY <1>7 DEF ExportCommand, Begun
<1>8. CASE UNCHANGED vars
  BY <1>8 DEF vars, Begun
<1> QED BY <1>1, <1>2, <1>3, <1>4, <1>5, <1>6, <1>7, <1>8 DEF Next

LEMMA FilesStep ==
    TypeOK /\ RowsAreInOrder /\ CollectionIsCounted /\ ExportIsAtWork /\ FilesAreOld
    /\ [Next]_vars => FilesAreOld'
<1> SUFFICES ASSUME TypeOK, RowsAreInOrder, CollectionIsCounted, ExportIsAtWork,
                    FilesAreOld, [Next]_vars,
                    NEW f \in FileNames, files'[f] # None
             PROVE  /\ files'[f].by <= runs'
                    /\ ~files'[f].command => files'[f].by > 0
                    /\ (Begun' /\ files'[f].by = runs') =>
                            /\ ~files'[f].command
                            /\ files'[f].ranked => pc' \in {"export", "finish"}
  BY DEF FilesAreOld
<1>0. files[f] # None => files[f] \in Content /\ files[f].by \in Nat /\ runs \in Nat
  BY DEF TypeOK, Content
<1>1. CASE UNCHANGED files /\ UNCHANGED runs /\ (Begun' => Begun)
            /\ (pc \in {"export", "finish"} /\ Begun' => pc' \in {"export", "finish"})
  BY <1>1 DEF FilesAreOld
<1>2. ASSUME NEW a \in Args, Begin(a)
      PROVE  files'[f].by <= runs /\ runs' = runs + 1 /\ files' = files
  BY <1>2 DEF Begin, FilesAreOld
<1>3. CASE Write
  <2> USE <1>3
  <2>1. CASE files'[f] = files[f]
    BY <2>1 DEF Write, FilesAreOld, Begun
  <2>2. CASE files'[f] = content
    <3>1. content.by = runs /\ (content.command <=> pc = "command")
          /\ (content.ranked <=> pc # "sanitize") /\ pc' = pc /\ runs' = runs
      BY DEF Write, ExportIsAtWork
    <3>2. pc # "command" => runs > 0
      BY DEF RowsAreInOrder, Begun, Write
    <3>3. pc \in {"sanitize", "export", "command"} /\ runs \in Nat
      BY DEF Write, TypeOK
    <3> QED BY <2>2, <3>1, <3>2, <3>3 DEF Begun
  <2> QED BY <2>1, <2>2, WriteFacts
<1>4. ASSUME NEW g \in FileNames, Purge(g)
      PROVE  files'[f] = files[f] /\ pc' = pc /\ runs' = runs
  BY <1>4 DEF Purge, TypeOK
<1>5. CASE NoErasure
  BY <1>5 DEF NoErasure, disk, FilesAreOld, Begun
<1>6. CASE Complete
  BY <1>6 DEF Complete, FilesAreOld, Begun, TypeOK
<1>7. CASE \E a \in Args : Begin(a)
  BY <1>7, <1>2, <1>0 DEF FilesAreOld
<1>8. CASE \E g \in FileNames : Purge(g)
  BY <1>8, <1>4 DEF FilesAreOld, Begun
<1> QED BY <1>1, <1>3, <1>5, <1>6, <1>7, <1>8, StepsThatKeepFiles

\* A complete collection stays complete: later steps touch no row but the last,
\* and that one only while it collects.
LEMMA HealthyStays ==
    ASSUME TypeOK, RowsAreInOrder, CollectionIsCounted, [Next]_vars, NEW r \in Runs,
           r <= runs, r = runs => (~Begun \/ pc \in {"export", "finish"}), Healthy(r)
    PROVE  Healthy(r)'
<1>1. CASE UNCHANGED args /\ UNCHANGED sourceRun
  BY <1>1 DEF Healthy
<1>2. ASSUME NEW a \in Args, Begin(a) PROVE Healthy(r)'
  <2>1. args'[r] = args[r] /\ UNCHANGED sourceRun
    BY <1>2 DEF Begin, TypeOK, Runs
  <2> QED BY <2>1 DEF Healthy
<1>3. ASSUME NEW s \in Sources, NEW o \in Outcomes, NEW stores \in BOOLEAN,
             NEW erasure \in BOOLEAN, Collect(s, o, stores, erasure)
      PROVE  Healthy(r)'
  <2>1. r # runs /\ UNCHANGED args
    BY <1>3 DEF Collect, Begun
  <2>2. \A t \in Sources : sourceRun'[<<r, t>>] = sourceRun[<<r, t>>]
    BY <1>3, <2>1 DEF Collect, TypeOK
  <2>3. args[r].selected \subseteq Sources
    BY DEF RowsAreInOrder, Args
  <2> QED BY <2>1, <2>2, <2>3 DEF Healthy
<1>4. ASSUME NEW failing \in SUBSET Sources, Analyze(failing) PROVE Healthy(r)'
  BY <1>4, <1>1 DEF Analyze
<1>5. CASE Finish \/ \E st \in {"Failed", "Running"} : Abort(st)
  BY <1>5, <1>1 DEF Finish, Abort
<1>6. CASE NoErasure \/ Complete
  BY <1>6, <1>1 DEF NoErasure, Complete, disk
<1>7. CASE RowsKept
  BY <1>7, <1>1 DEF RowsKept
<1> QED BY <1>2, <1>3, <1>4, <1>5, <1>6, <1>7, StepsThatKeepRows

LEMMA WholeStep ==
    TypeOK /\ RowsAreInOrder /\ CollectionIsCounted /\ ExportIsAtWork /\ FilesAreOld
    /\ RankedRunsAreWhole /\ [Next]_vars => RankedRunsAreWhole'
<1> SUFFICES ASSUME TypeOK, RowsAreInOrder, CollectionIsCounted, ExportIsAtWork,
                    FilesAreOld, RankedRunsAreWhole, [Next]_vars,
                    NEW f \in FileNames, files'[f] # None, files'[f].ranked,
                    ~files'[f].command, NEW b, b = files'[f].by
             PROVE  Healthy(b)' /\ files'[f].scored
  BY DEF RankedRunsAreWhole, Healthy
<1>1. CASE files'[f] = files[f]
  <2>1. files[f].by \in Runs /\ files[f].by <= runs
        /\ (files[f].by = runs => (~Begun \/ pc \in {"export", "finish"}))
    BY <1>1 DEF FilesAreOld, TypeOK, Content, Runs
  <2>2. Healthy(files[f].by) /\ files[f].scored
    BY <1>1 DEF RankedRunsAreWhole
  <2>3. Healthy(b)'
    BY <1>1, <2>1, <2>2, HealthyStays
  <2> QED BY <1>1, <2>2, <2>3
<1>2. CASE files'[f] # files[f]
  <2>1. Write
    <3>1. ASSUME NEW g \in FileNames, Purge(g) PROVE FALSE
      BY <3>1, <1>2 DEF Purge, TypeOK
    <3>2. ASSUME NEW a \in Args, Begin(a) PROVE FALSE
      BY <3>2, <1>2 DEF Begin
    <3>3. CASE NoErasure \/ Complete
      BY <3>3, <1>2 DEF NoErasure, Complete, disk
    <3> QED BY <3>1, <3>2, <3>3, <1>2, StepsThatKeepFiles
  <2>2. files'[f] = content
    BY <2>1, <1>2, WriteFacts
  <2>3. pc = "export" /\ content.by = runs /\ content.scored
    BY <2>1, <2>2 DEF Write, ExportIsAtWork
  <2>4. Healthy(runs)
    BY <2>3 DEF CollectionIsCounted, Wanted
  <2>5. UNCHANGED <<args, sourceRun>>
    BY <2>1 DEF Write
  <2> QED BY <2>2, <2>3, <2>4, <2>5 DEF Healthy
<1> QED BY <1>1, <1>2

LEMMA IsolatedStep ==
    TypeOK /\ RowsAreInOrder /\ FailureIsIsolated /\ [Next]_vars => FailureIsIsolated'
<1> SUFFICES ASSUME TypeOK, RowsAreInOrder, FailureIsIsolated, [Next]_vars
             PROVE  FailureIsIsolated'
  OBVIOUS
<1>1. CASE UNCHANGED held /\ UNCHANGED sourceRun
  BY <1>1 DEF FailureIsIsolated
<1>2. ASSUME NEW s \in Sources, NEW o \in Outcomes, NEW stores \in BOOLEAN,
             NEW erasure \in BOOLEAN, Collect(s, o, stores, erasure),
             NEW r \in Runs, NEW t \in Sources,
             sourceRun'[<<r, t>>] \in {"Successful", "Partial"}
      PROVE  held'[t] >= r
  <2>1. held[t] \in Nat /\ held[t] <= runs /\ runs \in Nat
    BY DEF TypeOK, RowsAreInOrder
  <2>2. held'[t] >= held[t]
    BY <1>2, <2>1 DEF Collect, Stored, TypeOK
  <2>3. CASE r = runs /\ t = s
    <3>1. stores
      BY <1>2, <2>3 DEF Collect, TypeOK
    <3>2. held'[t] = runs
      BY <1>2, <2>3, <3>1 DEF Collect, Stored, TypeOK
    <3> QED BY <3>2, <2>3, <2>1
  <2>4. CASE ~(r = runs /\ t = s)
    <3>1. sourceRun'[<<r, t>>] = sourceRun[<<r, t>>]
      BY <1>2, <2>4 DEF Collect, TypeOK
    <3>2. held[t] >= r
      BY <3>1, <1>2 DEF FailureIsIsolated
    <3>3. held'[t] \in Nat /\ r \in Nat
      BY <1>2, <2>1 DEF Collect, Stored, TypeOK, Runs
    <3> QED BY <3>2, <3>3, <2>1, <2>2
  <2> QED BY <2>3, <2>4
<1>3. CASE \E s \in Sources, o \in Outcomes, stores, erasure \in BOOLEAN :
                Collect(s, o, stores, erasure)
  BY <1>3, <1>2 DEF FailureIsIsolated
<1>4. ASSUME NEW a \in Args, Begin(a) PROVE FailureIsIsolated'
  BY <1>4, <1>1 DEF Begin
<1>5. ASSUME NEW failing \in SUBSET Sources, Analyze(failing) PROVE FailureIsIsolated'
  BY <1>5, <1>1 DEF Analyze
<1>6. CASE Finish \/ \E st \in {"Failed", "Running"} : Abort(st)
  BY <1>6, <1>1 DEF Finish, Abort
<1>7. CASE NoErasure \/ Complete
  BY <1>7, <1>1 DEF NoErasure, Complete, disk
<1>8. CASE RowsKept
  BY <1>8, <1>1 DEF RowsKept
<1> QED BY <1>3, <1>4, <1>5, <1>6, <1>7, <1>8, StepsThatKeepRows

\* A run that withholds its export is not on the way to Success.
LEMMA WithheldIsNoSuccess ==
    ASSUME TypeOK, RowsAreInOrder, CollectionIsCounted, Withhold, Publishes(Me.kind)
    PROVE  FinalStatus # "Success"
<1>1. Collects(Me.kind) /\ ~Healthy(runs) /\ Begun /\ then = "analyze"
  BY DEF Withhold, Wanted, Healthy, Me, Begun, CollectionIsCounted
<1>2. CASE Me.selected = {}
  <2>1. flawed
    BY <1>1, <1>2 DEF CollectionIsCounted, NoSource
  <2> QED BY <2>1 DEF FinalStatus
<1>3. CASE Me.selected # {}
  <2>1. Me.selected \subseteq Sources
    BY <1>1 DEF RowsAreInOrder, Me, Args, TypeOK, Runs
  <2>2. PICK s \in Me.selected : Outcome(s) # "Successful"
    BY <1>1, <1>3 DEF Healthy, Me, Outcome
  <2>3. Outcome(s) \in Outcomes
    <3>1. Outcome(s) # None /\ runs \in Runs
      BY <1>1, <2>2 DEF CollectionIsCounted, RowsAreInOrder, TypeOK, Runs
    <3> QED BY <3>1, <2>1, <2>2 DEF TypeOK, Outcome
  <2>4. CASE Outcome(s) = "Partial"
    <3>1. flawed
      BY <2>4, <1>1, <2>1, <2>2 DEF CollectionIsCounted
    <3> QED BY <3>1 DEF FinalStatus
  <2>5. CASE Outcome(s) \in {"PermissionRequired", "Failed"}
    <3>1. Got({"Failed", "PermissionRequired"}) # {}
      BY <2>5, <2>2 DEF Got
    <3> QED BY <3>1 DEF FinalStatus
  <2> QED BY <2>2, <2>3, <2>4, <2>5 DEF Outcomes
<1> QED BY <1>2, <1>3

LEMMA PublishedStep ==
    TypeOK /\ RowsAreInOrder /\ CollectionIsCounted /\ ExportIsAtWork /\ PublishedFirst
    /\ [Next]_vars => PublishedFirst'
<1> SUFFICES ASSUME TypeOK, RowsAreInOrder, CollectionIsCounted, ExportIsAtWork,
                    PublishedFirst, [Next]_vars, pc' = "finish"
             PROVE  PublishedFirst'
  BY DEF PublishedFirst
<1>1. CASE Withhold
  <2>1. UNCHANGED <<args, sourceRun, runs, flawed>>
    BY <1>1 DEF Withhold, disk
  <2>2. Publishes(Me.kind)' <=> Publishes(Me.kind)
    BY <2>1 DEF Publishes, Me
  <2>3. FinalStatus' = FinalStatus
    BY <2>1 DEF FinalStatus, Got, Outcome, Me, NoSource, Collects
  <2> QED BY <1>1, <2>2, <2>3, WithheldIsNoSuccess DEF PublishedFirst
<1>2. ASSUME NEW failing \in SUBSET Sources, Analyze(failing) PROVE PublishedFirst'
  <2>1. flawed'
    BY <1>2 DEF Analyze, AfterAnalysis
  <2>2. FinalStatus' # "Success"
    BY <2>1 DEF FinalStatus
  <2> QED BY <2>2 DEF PublishedFirst
<1>3. CASE Exported
  <2>1. content # None /\ content \in Content /\ content.date \in Dates
    BY <1>3 DEF Exported, ExportIsAtWork, TypeOK, Content
  <2>2. Me.date \in Dates
    BY <1>3 DEF Exported, RowsAreInOrder, Begun, Me, Args, TypeOK, Runs
  <2>3. \A i \in 1..3 : files[FileAt(i, content.date)] = content
    BY <1>3 DEF Exported, ExportIsAtWork, Last, TypeOK
  <2>4. \A i \in 1..3 : FileAt(i, Me.date) = FileAt(i, content.date)
    BY <2>1, <2>2, FilesOfDate
  <2>5. content.by = runs /\ runs \in Nat
    BY <1>3 DEF Exported, ExportIsAtWork, TypeOK
  <2>6. UNCHANGED <<runs, args, files>>
    BY <1>3 DEF Exported, disk
  <2>7. \A i \in 1..3 : files'[FileAt(i, Me'.date)] = content
    BY <2>3, <2>4, <2>6 DEF Me
  <2> QED BY <2>1, <2>5, <2>6, <2>7 DEF PublishedFirst, Me
<1>4. CASE UNCHANGED vars
  BY <1>4 DEF vars, PublishedFirst, Me, FinalStatus, Got, Outcome, NoSource, Collects
<1>5. ASSUME NEW s \in Sources, NEW o \in Outcomes, NEW stores \in BOOLEAN,
             NEW erasure \in BOOLEAN, Collect(s, o, stores, erasure)
      PROVE  FALSE
  BY <1>5 DEF Collect
<1>6. ASSUME NEW a \in Args, Begin(a) PROVE FALSE
  BY <1>6 DEF Begin
<1>7. ASSUME NEW f \in FileNames, Purge(f) PROVE FALSE
  BY <1>7 DEF Purge
<1>8. ASSUME NEW st \in {"Failed", "Running"}, Abort(st) PROVE FALSE
  BY <1>8 DEF Abort, Gone
<1>9. ASSUME NEW d \in Dates, ExportCommand(d) PROVE FALSE
  BY <1>9 DEF ExportCommand
<1>10. CASE NoErasure \/ Complete
  BY <1>10 DEF NoErasure, Complete, TypeOK
<1>11. CASE Sanitize \/ Write \/ Collected \/ Publish \/ Finish \/ ExportEnds
  BY <1>11 DEF Sanitize, Write, Collected, AfterCollection, Publish, Finish, ExportEnds, Gone
<1> QED BY <1>1, <1>2, <1>3, <1>4, <1>5, <1>6, <1>7, <1>8, <1>9, <1>10, <1>11 DEF Next

LEMMA SuccessStep ==
    TypeOK /\ RowsAreInOrder /\ CollectionIsCounted /\ ExportIsAtWork /\ PublishedFirst
    /\ SuccessIsPublished /\ [Next]_vars => SuccessIsPublished'
<1> SUFFICES ASSUME TypeOK, RowsAreInOrder, CollectionIsCounted, ExportIsAtWork,
                    PublishedFirst, SuccessIsPublished, [Next]_vars,
                    NEW r \in Runs, status'[r] = "Success", Publishes(args'[r].kind), ~pending',
                    NEW i \in 1..3
             PROVE  files'[FileAt(i, args'[r].date)] # None
                    /\ files'[FileAt(i, args'[r].date)].by >= r
  BY DEF SuccessIsPublished
<1>a. ASSUME status[r] = "Success"
      PROVE  args[r] \in Args /\ r <= runs /\ args[r].date \in Dates
             /\ FileAt(i, args[r].date) \in FileNames
  <2>1. r <= runs
    BY <1>a DEF RowsAreInOrder, TypeOK, Runs, Statuses
  <2>2. args[r] \in Args /\ args[r].date \in Dates
    BY <2>1 DEF RowsAreInOrder, Args
  <2>3. i \in 1..Last
    BY DEF Last
  <2> QED BY <2>1, <2>2, <2>3, FilesOfDate
<1>b. ASSUME status[r] = "Success", args'[r] = args[r], ~pending,
             UNCHANGED files
      PROVE  files'[FileAt(i, args'[r].date)] # None
             /\ files'[FileAt(i, args'[r].date)].by >= r
  BY <1>b DEF SuccessIsPublished
<1>1. CASE Write
  <2>1. status[r] = "Success" /\ args'[r] = args[r] /\ ~pending
    BY <1>1 DEF Write
  <2> DEFINE f == FileAt(i, args[r].date)
  <2>2. files[f] # None /\ files[f].by >= r
    BY <2>1 DEF SuccessIsPublished
  <2>3. f \in FileNames /\ r <= runs
    BY <2>1, <1>a
  <2>4. files'[f] = content \/ files'[f] = files[f]
    BY <1>1, <2>3, WriteFacts
  <2>5. content # None /\ content.by = runs
    BY <1>1 DEF Write, ExportIsAtWork
  <2>6. files'[f] # None /\ files'[f].by >= r
    BY <2>2, <2>3, <2>4, <2>5
  <2> QED BY <2>1, <2>6
<1>2. CASE Complete
  <2>1. status[r] = "Success" /\ args'[r] = args[r] /\ files' = files
    BY <1>2 DEF Complete
  <2>2. content # None /\ content.by = runs /\ content.date \in Dates
        /\ \A j \in 1..Last : files[FileAt(j, content.date)] = content
    BY <1>2 DEF Complete, ExportIsAtWork, TypeOK, Content, Last
  <2>3. FileAt(i, args[r].date) = FileAt(i, content.date) /\ i \in 1..Last
    BY <1>a, <2>1, <2>2, FilesOfDate DEF Last
  <2> QED BY <2>1, <2>2, <2>3, <1>a
<1>3. CASE Finish
  <2>1. UNCHANGED <<args, files, pending, runs>>
    BY <1>3 DEF Finish
  <2>2. CASE r = runs
    <3>1. FinalStatus = "Success"
      BY <1>3, <2>2 DEF Finish, TypeOK
    <3> QED BY <1>3, <2>1, <2>2, <3>1 DEF PublishedFirst, Finish, Me
  <2>3. CASE r # runs
    <3>1. status[r] = "Success"
      BY <1>3, <2>3 DEF Finish, TypeOK
    <3> QED BY <3>1, <2>1, <1>b
  <2> QED BY <2>2, <2>3
<1>4. ASSUME NEW st \in {"Failed", "Running"}, Abort(st)
      PROVE  status[r] = "Success" /\ args'[r] = args[r] /\ ~pending /\ UNCHANGED files
  BY <1>4 DEF Abort, TypeOK
<1>5. ASSUME NEW a \in Args, Begin(a)
      PROVE  status[r] = "Success" /\ args'[r] = args[r] /\ ~pending /\ UNCHANGED files
  BY <1>5 DEF Begin, TypeOK
<1>6. ASSUME NEW s \in Sources, NEW o \in Outcomes, NEW stores \in BOOLEAN,
             NEW erasure \in BOOLEAN, Collect(s, o, stores, erasure)
      PROVE  status[r] = "Success" /\ args'[r] = args[r] /\ ~pending /\ UNCHANGED files
  BY <1>6, Zenon DEF Collect
<1>7. ASSUME NEW failing \in SUBSET Sources, Analyze(failing)
      PROVE  status[r] = "Success" /\ args'[r] = args[r] /\ ~pending /\ UNCHANGED files
  BY <1>7 DEF Analyze
<1>8. ASSUME NEW f \in FileNames, Purge(f) PROVE FALSE
  BY <1>8 DEF Purge
<1>9. ASSUME NEW d \in Dates, ExportCommand(d)
      PROVE  status[r] = "Success" /\ args'[r] = args[r] /\ ~pending /\ UNCHANGED files
  BY <1>9 DEF ExportCommand
<1>10. CASE NoErasure \/ Sanitize \/ Collected \/ Withhold \/ Publish \/ Exported \/ ExportEnds
  <2>1. status[r] = "Success" /\ args'[r] = args[r] /\ ~pending /\ UNCHANGED files
    <3>1. UNCHANGED disk
      BY <1>10 DEF NoErasure, Sanitize, Collected, Withhold, Publish, Exported, ExportEnds
    <3> QED BY <3>1 DEF disk
  <2> QED BY <2>1, <1>b
<1>11. CASE UNCHANGED vars
  BY <1>11, <1>b DEF vars
<1> QED BY <1>1, <1>2, <1>3, <1>4, <1>5, <1>6, <1>7, <1>8, <1>9, <1>10, <1>11, <1>b DEF Next

\* An export is later than all that is in place.
LEMMA ContentIsLast ==
    ASSUME TypeOK, RowsAreInOrder, ExportIsAtWork, FilesAreOld, Write, ~pending,
           NEW f \in FileNames, files[f] # None
    PROVE  /\ At(content) \in Nat /\ At(files[f]) \in Nat
           /\ At(content) >= At(files[f])
<1>1. content.by = runs /\ runs \in Nat /\ content.ranked
      /\ (content.command <=> pc = "command") /\ pc \in {"export", "command"}
  BY DEF Write, ExportIsAtWork, TypeOK
<1>2. files[f].by \in Nat /\ files[f].by <= runs
  BY DEF TypeOK, Content, FilesAreOld
<1>3. CASE pc = "command"
  <2>1. At(content) = 3 * runs + 2
    BY <1>1, <1>3 DEF At
  <2> QED BY <1>1, <1>2, <2>1 DEF At
<1>4. CASE pc = "export"
  <2>1. At(content) = 3 * runs + 1
    BY <1>1, <1>4 DEF At
  <2>2. CASE files[f].by = runs
    <3>1. ~files[f].command
      BY <2>2, <1>4 DEF FilesAreOld, Begun
    <3> QED BY <1>1, <1>2, <2>1, <2>2, <3>1 DEF At
  <2>3. CASE files[f].by < runs
    BY <1>1, <1>2, <2>1, <2>3 DEF At
  <2> QED BY <1>1, <1>2, <2>2, <2>3
<1> QED BY <1>1, <1>3, <1>4

LEMMA ReportStep ==
    TypeOK /\ RowsAreInOrder /\ CollectionIsCounted /\ ExportIsAtWork /\ FilesAreOld
    /\ ReportComesLast /\ [Next]_vars => ReportComesLast'
<1> SUFFICES ASSUME TypeOK, RowsAreInOrder, CollectionIsCounted, ExportIsAtWork,
                    FilesAreOld, ReportComesLast, [Next]_vars, ~pending',
                    NEW d \in Dates, files'[FileAt(Last, d)] # None, NEW i \in 1..Last
             PROVE  /\ files'[FileAt(i, d)] # None
                    /\ At(files'[FileAt(i, d)]) >= At(files'[FileAt(Last, d)])
  BY DEF ReportComesLast, At
<1> DEFINE f == FileAt(i, d)
           report == FileAt(Last, d)
<1>a. Last \in 1..Last /\ f \in FileNames /\ report \in FileNames
  BY FilesOfDate DEF Last
<1>b. ASSUME ~pending, UNCHANGED files
      PROVE  files'[f] # None /\ At(files'[f]) >= At(files'[report])
  BY <1>b DEF ReportComesLast
<1>1. CASE Write
  <2>1. ~pending
    BY <1>1 DEF Write
  <2>2. /\ content # None /\ content.date \in Dates /\ next \in 1..Last
        /\ \A g \in FileNames : files'[g] = IF g = FileAt(next, content.date)
                                            THEN content ELSE files[g]
    BY <1>1, WriteFacts
  <2>3. CASE report = FileAt(next, content.date)
    <3>1. next = Last /\ d = content.date
      BY <2>2, <2>3, <1>a, FilesOfDate
    <3>2. CASE i = Last
      BY <3>2, <2>2, <2>3, <1>a DEF At, Write, ExportIsAtWork, TypeOK, Content
    <3>3. CASE i # Last
      <4>1. files[f] = content
        BY <3>1, <3>3, <1>1 DEF ExportIsAtWork, Write, Last
      <4>2. files'[f] = content /\ files'[report] = content
        BY <4>1, <2>2, <2>3, <1>a
      <4>3. At(content) \in Nat
        BY <4>1, <2>1, <2>2, <1>1, <1>a, ContentIsLast
      <4> QED BY <4>2, <4>3, <2>2
    <3> QED BY <3>2, <3>3
  <2>4. CASE report # FileAt(next, content.date)
    <3>1. files'[report] = files[report]
      BY <2>2, <2>4, <1>a
    <3>2. files[f] # None /\ At(files[f]) >= At(files[report])
      BY <3>1, <2>1 DEF ReportComesLast
    <3>3. At(files[f]) \in Nat /\ At(files[report]) \in Nat
          /\ At(content) \in Nat /\ At(content) >= At(files[report])
      BY <3>1, <3>2, <2>1, <1>1, <1>a, ContentIsLast
    <3>4. files'[f] = files[f] \/ files'[f] = content
      BY <2>2, <1>a
    <3> QED BY <3>1, <3>2, <3>3, <3>4, <2>2
  <2> QED BY <2>3, <2>4
<1>2. CASE Complete
  <2>1. files' = files /\ content.by \in Nat /\ content.date \in Dates
        /\ content # None /\ \A j \in 1..Last : files[FileAt(j, content.date)] = content
    BY <1>2 DEF Complete, ExportIsAtWork, TypeOK, Content, Last
  <2>2. PICK j \in 1..Last : report = FileAt(j, content.date)
    BY <1>2, <2>1, <1>a DEF Complete, ExportIsAtWork
  <2>3. d = content.date
    BY <2>1, <2>2, <1>a, FilesOfDate
  <2> QED BY <2>1, <2>3, <1>a DEF At
<1>3. ASSUME NEW s \in Sources, NEW o \in Outcomes, NEW stores \in BOOLEAN,
             NEW erasure \in BOOLEAN, Collect(s, o, stores, erasure)
      PROVE  ~pending /\ UNCHANGED files
  BY <1>3, Zenon DEF Collect
<1>4. ASSUME NEW failing \in SUBSET Sources, Analyze(failing)
      PROVE  ~pending /\ UNCHANGED files
  BY <1>4 DEF Analyze
<1>5. ASSUME NEW st \in {"Failed", "Running"}, Abort(st)
      PROVE  ~pending /\ UNCHANGED files
  BY <1>5 DEF Abort
<1>6. ASSUME NEW a \in Args, Begin(a)
      PROVE  ~pending /\ UNCHANGED files
  BY <1>6 DEF Begin
<1>7. ASSUME NEW e \in Dates, ExportCommand(e)
      PROVE  ~pending /\ UNCHANGED files
  BY <1>7 DEF ExportCommand
<1>8. ASSUME NEW g \in FileNames, Purge(g) PROVE FALSE
  BY <1>8 DEF Purge
<1>9. CASE NoErasure \/ Sanitize \/ Collected \/ Withhold \/ Publish
  <2>1. ~pending /\ UNCHANGED files
    <3>1. UNCHANGED disk
      BY <1>9 DEF NoErasure, Sanitize, Collected, Withhold, Publish
    <3> QED BY <3>1 DEF disk
  <2> QED BY <2>1, <1>b
<1>10. CASE Exported \/ Finish \/ ExportEnds \/ UNCHANGED vars
  <2>1. ~pending /\ UNCHANGED files
    BY <1>10 DEF Exported, Finish, ExportEnds, disk, vars
  <2> QED BY <2>1, <1>b
<1> HIDE DEF f, report
<1> QED BY <1>1, <1>2, <1>3, <1>4, <1>5, <1>6, <1>7, <1>8, <1>9, <1>10, <1>b DEF Next, f, report

\* The process at work, the rows and the files hold together: types, the order
\* of rows, and all that the properties below rest on.
THEOREM PipelineIsSound == Spec => []IInv
<1>1. IInv /\ [Next]_vars => IInv'
  BY TypeStep, RowsStep, CountedStep, AtWorkStep, FilesStep, PublishedStep, WholeStep,
     IsolatedStep, SuccessStep, ReportStep DEF IInv
<1> QED BY InitInv, <1>1, PTL DEF Spec

\* The rows of runs and sources, the files of the two directories and what the
\* process at work remembers keep their types, whatever fails.
THEOREM TypeCorrect == Spec => []TypeOK
BY PipelineIsSound, PTL DEF IInv

\* Incomplete collection or analysis never reaches the ranked files of a run.
THEOREM RankedRunsAreWholeAlways == Spec => []RankedRunsAreWhole
BY PipelineIsSound, PTL DEF IInv

\* A failed source does not roll back what another one stored.
THEOREM FailureIsIsolatedAlways == Spec => []FailureIsIsolated
BY PipelineIsSound, PTL DEF IInv

\* A run on record as Success has its files in place.
THEOREM SuccessIsPublishedAlways == Spec => []SuccessIsPublished
BY PipelineIsSound, PTL DEF IInv

\* The report of a date is never newer than the tables it stands for.
THEOREM ReportComesLastAlways == Spec => []ReportComesLast
BY PipelineIsSound, PTL DEF IInv

(* ------------------------- The contract of the files --------------------- *)

Shown == [f \in FileNames |-> View(files[f])]

\* A file that stays in place keeps its view.
LEMMA ViewStays ==
    ASSUME IInv, IInv', [Next]_vars, NEW f \in FileNames, files'[f] = files[f]
    PROVE  Shown'[f] = Shown[f]
<1>1. CASE files[f] = None \/ ~files[f].ranked \/ files[f].command
  BY <1>1 DEF Shown, View
<1>2. CASE files[f] # None /\ files[f].ranked /\ ~files[f].command
  <2>1. files[f].by \in Runs /\ files[f].by <= runs
    BY <1>2 DEF IInv, TypeOK, FilesAreOld, Content, Runs
  <2>2. args'[files[f].by] = args[files[f].by]
    <3>1. CASE UNCHANGED args
      BY <3>1
    <3>2. ASSUME NEW a \in Args, Begin(a) PROVE args'[files[f].by] = args[files[f].by]
      BY <3>2, <2>1 DEF Begin, IInv, TypeOK, Runs
    <3>3. ASSUME NEW s \in Sources, NEW o \in Outcomes, NEW stores \in BOOLEAN,
                 NEW erasure \in BOOLEAN, Collect(s, o, stores, erasure)
          PROVE  UNCHANGED args
      BY <3>3 DEF Collect
    <3>4. ASSUME NEW failing \in SUBSET Sources, Analyze(failing) PROVE UNCHANGED args
      BY <3>4 DEF Analyze
    <3>5. CASE Finish \/ \E st \in {"Failed", "Running"} : Abort(st)
      BY <3>5 DEF Finish, Abort
    <3>6. CASE NoErasure \/ Complete \/ RowsKept
      BY <3>6 DEF NoErasure, Complete, RowsKept, disk
    <3> QED BY <3>1, <3>2, <3>3, <3>4, <3>5, <3>6, StepsThatKeepRows
  <2>3. Healthy(files[f].by)
    BY <1>2 DEF IInv, RankedRunsAreWhole
  <2>4. ASSUME NEW b, b = files[f].by PROVE Healthy(b)'
    BY <1>2, <2>4 DEF IInv, RankedRunsAreWhole, Healthy
  <2> QED BY <1>2, <2>2, <2>3, <2>4 DEF Shown, View, Healthy
<1> QED BY <1>1, <1>2

\* Every step keeps the contract or is invisible to it.
LEMMA StepKeepsContract ==
    ASSUME IInv, IInv', [Next]_vars
    PROVE  [Contract!Next]_<<Shown, pending>>
<1> USE DEF IInv
<1>a. ASSUME UNCHANGED files PROVE UNCHANGED Shown
  <2>1. \A f \in FileNames : Shown'[f] = Shown[f]
    BY <1>a, ViewStays
  <2> QED BY <2>1 DEF Shown
<1>b. ASSUME NEW f \in FileNames, \A g \in FileNames : g # f => files'[g] = files[g]
      PROVE  Shown' = [Shown EXCEPT ![f] = View(files[f])']
  <2>1. \A g \in FileNames : g # f => Shown'[g] = Shown[g]
    BY <1>b, ViewStays
  <2> QED BY <2>1 DEF Shown
<1>1. CASE Write
  <2>1. PICK f \in FileNames :
            /\ content # None /\ files'[f] = content
            /\ \A g \in FileNames : g # f => files'[g] = files[g]
    BY <1>1, WriteFacts
  <2>2. Shown' = [Shown EXCEPT ![f] = View(files[f])']
    BY <2>1, <1>b
  <2>3. CASE pc = "sanitize"
    <3>1. pending /\ pending' = pending /\ ~content.ranked
      BY <1>1, <2>3 DEF Write, ExportIsAtWork
    <3>2. View(files[f])' = "unranked"
      BY <2>1, <3>1 DEF View
    <3>3. Contract!Withdraw(f, "unranked")
      BY <2>2, <3>1, <3>2 DEF Contract!Withdraw, Shown
    <3> QED BY <3>3 DEF Contract!Next
  <2>4. CASE pc # "sanitize"
    <3>1. content.ranked /\ ~pending /\ pending' = pending
      BY <1>1, <2>4 DEF Write, ExportIsAtWork, CollectionIsCounted
    <3>2. View(files[f])' \in {"ranked", "regenerated"}
      <4>1. CASE content.command
        BY <4>1, <2>1, <3>1 DEF View
      <4>2. CASE ~content.command
        <5>1. Healthy(runs) /\ content.by = runs
          BY <1>1, <2>4, <4>2 DEF Write, ExportIsAtWork, CollectionIsCounted, Wanted
        <5>2. UNCHANGED <<args, sourceRun, runs>>
          BY <1>1 DEF Write
        <5>3. files'[f].by = runs
          BY <5>1, <2>1
        <5> QED BY <5>1, <5>2, <5>3, <2>1, <3>1, <4>2 DEF View, Healthy
      <4> QED BY <4>1, <4>2
    <3>3. PICK v \in {"ranked", "regenerated"} : v = View(files[f])'
      BY <3>2
    <3>4. Contract!Publish(f, v)
      BY <2>2, <3>1, <3>3 DEF Contract!Publish, Shown
    <3> QED BY <3>3, <3>4 DEF Contract!Next
  <2> QED BY <2>3, <2>4
<1>2. ASSUME NEW f \in FileNames, Purge(f) PROVE Contract!Next
  <2>1. files'[f] = None /\ \A g \in FileNames : g # f => files'[g] = files[g]
    BY <1>2 DEF Purge, TypeOK
  <2>2. Shown' = [Shown EXCEPT ![f] = View(files[f])']
    BY <2>1, <1>b
  <2>3. View(files[f])' = "none"
    BY <2>1 DEF View
  <2>4. Contract!Withdraw(f, "none")
    BY <1>2, <2>2, <2>3 DEF Purge, Contract!Withdraw, Shown
  <2> QED BY <2>4 DEF Contract!Next
<1>3. CASE Complete
  <2>1. UNCHANGED files /\ pending /\ pending' = FALSE
    BY <1>3 DEF Complete, ExportIsAtWork
  <2>2. \A f \in FileNames : Shown[f] \in {"none", "unranked"}
    BY <1>3 DEF Complete, ExportIsAtWork, Shown, View
  <2>3. Contract!Complete
    BY <2>1, <2>2, <1>a DEF Contract!Complete, Shown
  <2> QED BY <2>3 DEF Contract!Next
<1>4. ASSUME NEW s \in Sources, NEW o \in Outcomes, NEW stores \in BOOLEAN,
             NEW erasure \in BOOLEAN, Collect(s, o, stores, erasure)
      PROVE  [Contract!Next]_<<Shown, pending>>
  <2>1. UNCHANGED files /\ pending' = (pending \/ erasure)
    BY <1>4 DEF Collect
  <2>2. UNCHANGED Shown
    BY <2>1, <1>a
  <2>3. pending' = TRUE \/ pending' = pending
    BY <2>1, Zenon DEF TypeOK, FlagsOK
  <2>4. pending' = TRUE => Contract!Request
    BY <2>2 DEF Contract!Request, Shown
  <2> QED BY <2>2, <2>3, <2>4 DEF Contract!Next
<1>5. CASE UNCHANGED files /\ UNCHANGED pending
  BY <1>5, <1>a
<1>6. ASSUME NEW failing \in SUBSET Sources, Analyze(failing)
      PROVE  UNCHANGED files /\ UNCHANGED pending
  BY <1>6 DEF Analyze
<1>7. ASSUME NEW st \in {"Failed", "Running"}, Abort(st)
      PROVE  UNCHANGED files /\ UNCHANGED pending
  BY <1>7 DEF Abort
<1>8. ASSUME NEW a \in Args, Begin(a) PROVE UNCHANGED files /\ UNCHANGED pending
  BY <1>8 DEF Begin
<1>9. ASSUME NEW d \in Dates, ExportCommand(d)
      PROVE  UNCHANGED files /\ UNCHANGED pending
  BY <1>9 DEF ExportCommand
<1>10. CASE NoErasure \/ Sanitize \/ Collected \/ Withhold \/ Publish \/ Exported
            \/ ExportEnds
  <2>1. UNCHANGED disk
    BY <1>10 DEF NoErasure, Sanitize, Collected, Withhold, Publish, Exported, ExportEnds
  <2> QED BY <2>1, <1>5 DEF disk
<1>11. CASE Finish \/ UNCHANGED vars
  BY <1>11, <1>5 DEF Finish, vars
<1> QED BY <1>1, <1>2, <1>3, <1>4, <1>5, <1>6, <1>7, <1>8, <1>9, <1>10, <1>11 DEF Next

\* Whatever commands run and wherever they are killed, the published files
\* change only as the documents promise.
THEOREM PipelineKeepsContract == Spec => KeepsContract
<1>1. Init => Contract!Init
  BY DEF Init, Contract!Init, View
<1>2. IInv /\ IInv' /\ [Next]_vars => [Contract!Next]_(Contract!vars)
  BY StepKeepsContract DEF Shown, Contract!vars
<1> QED BY <1>1, <1>2, PipelineIsSound, PTL DEF Spec, KeepsContract, Contract!Spec
=============================================================================
