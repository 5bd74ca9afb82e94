--------------------------- MODULE FiguresProofs ---------------------------
(***************************************************************************)
(* Theorems about what an advertiser is told and pays: Figures, Reports    *)
(* and Commerce, for any drivings, requests, baselines, exporters, rates,  *)
(* buyers, openings, inboxes and bounds. They share no state.              *)
(***************************************************************************)
EXTENDS Figures, Reports, Commerce, FiniteSetTheorems, SequenceTheorems,
        WellFoundedInduction, TLAPS

(* Every non-empty set of natural numbers has a smallest element.          *)
LEMMA Smallest ==
    ASSUME NEW S, S \subseteq Nat, S # {}
    PROVE  \E n \in S : \A m \in S : ~(m < n)
<1>1. \E n \in S : \A m \in S : <<m, n>> \notin OpToRel(<, Nat)
    BY NatLessThanWellFounded, WFMin
<1> QED
    BY <1>1 DEF OpToRel

(* A request for figures that is under way.                                *)
RunRow ==
    [at : {"pending", "load", "store", "done"}, asked : SUBSET Drivings,
     batch : SUBSET Drivings, saw : Table]

(* What is typed, and the attempts of a job that waits or is not queued.   *)
FiguresRows ==
    /\ FiguresTypeOK
    /\ runs \in [Runs -> {NoRun} \cup RunRow]
    /\ \A j \in Jobs : /\ queue[j].at = "none" => queue[j].tries = 0
                       /\ queue[j].at = "waiting" => queue[j].tries < MaxTries

(* What a request has been through: a batch that was not full was all that *)
(* was left of what it asked for.                                          *)
AnswerIInv ==
    \A r \in Readers : runs[r] # NoRun =>
        /\ runs[r].asked \subseteq billed
        /\ (runs[r].at \in {"load", "store"} /\ Cardinality(runs[r].batch) < BatchSize) =>
               \A s \in runs[r].asked : figure[s] # NoFigure \/ s \in runs[r].batch
        /\ runs[r].at = "done" => \A s \in runs[r].asked : figure[s] # NoFigure

(* A batch that is not full is all there was.                              *)
LEMMA ShortBatch ==
    ASSUME FiguresTypeOK, Cardinality(FirstBatch) < BatchSize
    PROVE  FirstBatch = Missing
<1>1. Missing \subseteq Nat /\ IsFiniteSet(Missing) /\ FirstBatch \subseteq Missing
    BY FiguresAssumption, FS_Subset DEF FiguresTypeOK, Missing, FirstBatch
<1>2. SUFFICES ASSUME Missing \ FirstBatch # {} PROVE FALSE
    BY <1>1
<1>3. PICK s \in Missing \ FirstBatch : \A m \in Missing \ FirstBatch : ~(m < s)
    BY <1>1, <1>2, Smallest
<1>4. {o \in Missing : o < s} \subseteq FirstBatch
    BY <1>3
<1>5. Cardinality({o \in Missing : o < s}) <= Cardinality(FirstBatch)
      /\ Cardinality({o \in Missing : o < s}) \in Nat /\ Cardinality(FirstBatch) \in Nat
    <2>1. IsFiniteSet(FirstBatch)
        BY <1>1, FS_Subset
    <2>2. IsFiniteSet({o \in Missing : o < s})
        BY <1>4, <2>1, FS_Subset
    <2> QED
        BY <1>4, <2>1, <2>2, FS_Subset, FS_CardinalityType
<1>6. ~(Cardinality({o \in Missing : o < s}) < BatchSize)
    BY <1>3 DEF FirstBatch
<1> QED
    BY <1>5, <1>6, FiguresAssumption

(* What the baselines answer is a figure.                                  *)
LEMMA ResolveIsRow ==
    ASSUME FiguresAssumption, NEW table \in Table, NEW s
    PROVE  Resolve(table, s) \in FigureRow /\ Resolve(table, s) # NoFigure
<1>1. ASSUME NEW S \in SUBSET Drivings, NEW hourly \in BOOLEAN
      PROVE  Samples(S, s, hourly) \in Nat
    <2> DEFINE like == {o \in S : CellOf[o] = CellOf[s] /\ (hourly => HourOf[o] = HourOf[s])}
    <2>1. IsFiniteSet(like)
        BY FiguresAssumption, FS_Subset
    <2>2. Cardinality(like) \in Nat
        BY <2>1, FS_CardinalityType
    <2> QED
        BY <2>2 DEF Samples
<1>2. Samples(table.hours, s, TRUE) \in Nat /\ Samples(table.cells, s, FALSE) \in Nat
    BY <1>1 DEF Table
<1> QED
    BY <1>2 DEF Resolve, FigureRow, NoFigure, Sources

(* Nothing has been billed.                                                *)
LEMMA FiguresInitOK == FiguresInit => FiguresRows /\ AnswerIInv
<1> SUFFICES ASSUME FiguresInit PROVE FiguresRows /\ AnswerIInv
    OBVIOUS
<1>1. FiguresTypeOK
    BY FiguresAssumption
    DEF FiguresInit, FiguresTypeOK, NoFigure, Nothing, Table, NoRun
<1>2. runs \in [Runs -> {NoRun} \cup RunRow] /\ \A r \in Readers : runs[r] = NoRun
    BY DEF FiguresInit, Runs
<1>3. \A j \in Jobs : queue[j].at = "none" /\ queue[j].tries = 0
    BY DEF FiguresInit
<1> QED
    BY <1>1, <1>2, <1>3 DEF FiguresRows, AnswerIInv

(* A step that only moves a run: to none, or to a row of its own.          *)
LEMMA RunMoves ==
    ASSUME FiguresRows, NEW r \in Runs, NEW row \in {NoRun} \cup RunRow,
           runs' = [runs EXCEPT ![r] = row]
    PROVE  /\ runs' \in [Runs -> {NoRun} \cup RunRow] /\ runs'[r] = row
           /\ \A q \in Runs : q # r => runs'[q] = runs[q]
BY DEF FiguresRows

(* The steps of a request for figures.                                     *)
LEMMA RunStepOK ==
    ASSUME FiguresRows, AnswerIInv, NEW r \in Runs, AskFigures(r) \/ RunStep(r)
    PROVE  FiguresRows' /\ AnswerIInv'
<1> USE DEF FiguresRows
<1>1. runs[r] # NoRun => runs[r] \in RunRow
    OBVIOUS
<1>2. NoRun \notin RunRow /\ Nothing \in Table
    BY DEF NoRun, RunRow, Nothing, Table
<1>3. CASE AskFigures(r)
    <2>1. [StartRun EXCEPT !.asked = billed] \in
              [at : {"pending"}, asked : {billed}, batch : {{}}, saw : {Nothing}]
        BY DEF StartRun
    <2>2. PICK row \in [at : {"pending"}, asked : {billed}, batch : {{}}, saw : {Nothing}] :
              runs' = [runs EXCEPT ![r] = row]
        BY <1>3, <2>1 DEF AskFigures
    <2>3. row \in RunRow /\ row.at = "pending" /\ row.asked = billed
        BY <1>2, <2>2 DEF RunRow, FiguresTypeOK
    <2>4. /\ runs' \in [Runs -> {NoRun} \cup RunRow] /\ runs'[r] = row
          /\ \A q \in Runs : q # r => runs'[q] = runs[q]
        BY <2>2, <2>3, RunMoves
    <2>5. UNCHANGED <<billed, figure, baselines, recompute, queue, process, faults>>
        BY <1>3 DEF AskFigures
    <2> QED
        BY <2>3, <2>4, <2>5 DEF FiguresTypeOK, AnswerIInv, RunRow, Runs
<1>4. CASE ReadPending(r)
    <2>1. runs[r] \in RunRow /\ runs[r].at = "pending"
        BY <1>4 DEF ReadPending, NoRun
    <2>2. PICK row : /\ row = [runs[r] EXCEPT !.batch = FirstBatch,
                                 !.at = IF FirstBatch = {} THEN "done" ELSE "load"]
                     /\ runs' = [runs EXCEPT ![r] = row]
        BY <1>4 DEF ReadPending
    <2>3. FirstBatch \subseteq Drivings /\ FirstBatch \subseteq Missing
        BY DEF FirstBatch, Missing, FiguresTypeOK
    <2>4. /\ row \in RunRow /\ row.asked = runs[r].asked /\ row.batch = FirstBatch
          /\ row.at = IF FirstBatch = {} THEN "done" ELSE "load"
        BY <2>1, <2>2, <2>3 DEF RunRow
    <2>5. /\ runs' \in [Runs -> {NoRun} \cup RunRow] /\ runs'[r] = row
          /\ \A q \in Runs : q # r => runs'[q] = runs[q]
        BY <2>2, <2>4, RunMoves
    <2>6. UNCHANGED <<billed, figure, baselines, recompute, queue, process, faults>>
        BY <1>4 DEF ReadPending
    <2>7. FiguresRows'
        BY <2>5, <2>6 DEF FiguresTypeOK, RunRow
    <2>8. Cardinality(FirstBatch) < BatchSize => FirstBatch = Missing
        BY ShortBatch
    <2>9. FirstBatch = {} => Missing = {}
        BY <2>8, FS_EmptySet, FiguresAssumption
    <2>10. r \in Readers => \A s \in runs[r].asked : figure[s] # NoFigure \/ s \in Missing
        BY <2>1 DEF AnswerIInv, Missing, NoRun
    <2>11. r \in Readers =>
              /\ row.asked \subseteq billed
              /\ (row.at \in {"load", "store"} /\ Cardinality(row.batch) < BatchSize) =>
                     \A s \in row.asked : figure[s] # NoFigure \/ s \in row.batch
              /\ row.at = "done" => \A s \in row.asked : figure[s] # NoFigure
        <3>1. r \in Readers => row.asked \subseteq billed
            BY <2>1, <2>4 DEF AnswerIInv, NoRun
        <3>2. CASE FirstBatch = {}
            BY <2>4, <2>9, <2>10, <3>1, <3>2
        <3>3. CASE FirstBatch # {}
            BY <2>4, <2>8, <2>10, <3>1, <3>3
        <3> QED
            BY <3>2, <3>3
    <2> QED
        BY <2>5, <2>6, <2>7, <2>11 DEF AnswerIInv, Runs
<1>5. CASE LoadBaselines(r)
    <2>1. runs[r] \in RunRow /\ runs[r].at = "load"
        BY <1>5 DEF LoadBaselines, NoRun
    <2>2. PICK row : /\ row = [runs[r] EXCEPT !.saw = baselines, !.at = "store"]
                     /\ runs' = [runs EXCEPT ![r] = row]
        BY <1>5 DEF LoadBaselines
    <2>4. /\ row \in RunRow /\ row.asked = runs[r].asked /\ row.batch = runs[r].batch
          /\ row.at = "store"
        BY <2>1, <2>2 DEF RunRow, FiguresTypeOK
    <2>5. /\ runs' \in [Runs -> {NoRun} \cup RunRow] /\ runs'[r] = row
          /\ \A q \in Runs : q # r => runs'[q] = runs[q]
        BY <2>2, <2>4, RunMoves
    <2>6. UNCHANGED <<billed, figure, baselines, recompute, queue, process, faults>>
        BY <1>5 DEF LoadBaselines
    <2>7. FiguresRows'
        BY <2>5, <2>6 DEF FiguresTypeOK, RunRow
    <2> QED
        BY <1>2, <2>1, <2>4, <2>5, <2>6, <2>7 DEF AnswerIInv, Runs
<1>6. CASE StoreFigures(r)
    <2>1. runs[r] \in RunRow /\ runs[r].at = "store"
        BY <1>6 DEF StoreFigures, NoRun
    <2>2. PICK row : /\ row = [runs[r] EXCEPT !.at = AfterBatch(r), !.batch = {}, !.saw = Nothing]
                     /\ runs' = [runs EXCEPT ![r] = row]
        BY <1>6 DEF StoreFigures
    <2>4. /\ row \in RunRow /\ row.asked = runs[r].asked
          /\ row.at = AfterBatch(r)
        BY <1>2, <2>1, <2>2 DEF RunRow, AfterBatch
    <2>5. /\ runs' \in [Runs -> {NoRun} \cup RunRow] /\ runs'[r] = row
          /\ \A q \in Runs : q # r => runs'[q] = runs[q]
        BY <2>2, <2>4, RunMoves
    <2>6. UNCHANGED <<billed, baselines, recompute, queue, process, faults>>
        BY <1>6 DEF StoreFigures
    <2>3. \A s \in Drivings : Resolve(runs[r].saw, s) \in FigureRow
                              /\ Resolve(runs[r].saw, s) # NoFigure
        BY <2>1, ResolveIsRow, FiguresAssumption DEF RunRow
    <2>7. /\ figure' \in [Drivings -> FigureRow \cup {NoFigure}]
          /\ \A s \in Drivings : /\ figure[s] # NoFigure => figure'[s] = figure[s]
                                 /\ s \in runs[r].batch => figure'[s] # NoFigure
        BY <1>6, <2>3 DEF StoreFigures, Stored, FiguresTypeOK
    <2>8. FiguresRows'
        BY <2>5, <2>6, <2>7 DEF FiguresTypeOK, RunRow
    <2>9. AfterBatch(r) \in {"done", "pending"}
          /\ (AfterBatch(r) = "done" => Cardinality(runs[r].batch) < BatchSize)
        BY DEF AfterBatch
    <2> QED
        BY <1>2, <2>1, <2>4, <2>5, <2>6, <2>7, <2>8, <2>9 DEF AnswerIInv, Runs, RunRow
<1> QED
    BY <1>3, <1>4, <1>5, <1>6 DEF RunStep

(* A step that forgets runs and computes none, and has the figures alone.  *)
LEMMA ForgetOK ==
    ASSUME FiguresRows, AnswerIInv, FiguresTypeOK', UNCHANGED figure, billed \subseteq billed',
           runs' \in [Runs -> {NoRun} \cup RunRow],
           \A r \in Readers : runs'[r] = NoRun \/ runs'[r] = runs[r]
    PROVE  AnswerIInv'
BY DEF AnswerIInv

(* The steps of the queues, and of the transaction of the baselines.       *)
LEMMA QueueStepOK ==
    ASSUME FiguresRows, AnswerIInv,
           \/ RecomputeStep \/ Night \/ TakeRecompute \/ TakeCompute \/ FinishCompute
           \/ CloseNext \/ Exit \/ Restart
           \/ \E s \in Drivings : BillOne(s)
           \/ \E j \in Jobs : JobFails(j)
           \/ \E r \in Runs : AnswerFigures(r)
    PROVE  FiguresRows' /\ AnswerIInv'
<1> USE FiguresAssumption DEF FiguresRows
<1>0. /\ Jobs = {ComputeJob, RecomputeJob} /\ ComputeJob # RecomputeJob
      /\ ComputeJob \in Runs /\ ComputeJob \notin Readers
      /\ Nothing \in Table /\ Readers \subseteq Runs
    BY DEF Jobs, ComputeJob, RecomputeJob, Runs, Nothing, Table
<1>1. ASSUME NEW s \in Drivings, BillOne(s) PROVE FiguresRows' /\ AnswerIInv'
    <2>1. FiguresRows'
        BY <1>1 DEF BillOne, FiguresTypeOK
    <2> QED
        BY <1>0, <1>1, <2>1, ForgetOK DEF BillOne
<1>2. ASSUME NEW r \in Runs, AnswerFigures(r) PROVE FiguresRows' /\ AnswerIInv'
    <2>1. FiguresRows'
        BY <1>2 DEF AnswerFigures, FiguresTypeOK, RunRow
    <2>2. \A q \in Readers : runs'[q] = NoRun \/ runs'[q] = runs[q]
        BY <1>0, <1>2 DEF AnswerFigures
    <2> QED
        BY <1>2, <2>1, <2>2, ForgetOK DEF AnswerFigures
<1>3. CASE RecomputeStep \/ Night \/ TakeRecompute \/ CloseNext \/ Restart
    <2>1. UNCHANGED <<billed, figure, runs>>
        BY <1>3 DEF RecomputeStep, RecomputeHours, RecomputeCells, FinishRecompute, Night,
                    TakeRecompute, CloseNext, Restart
    <2>2. FiguresRows'
        <3>1. CASE RecomputeHours
            <4>1. /\ recompute' =
                        [at |-> "cells", own |-> [recompute.own EXCEPT !.hours = Observed]]
                  /\ UNCHANGED <<baselines, queue, process, faults>>
                BY <3>1 DEF RecomputeHours
            <4>2. recompute.own \in Table /\ Observed \subseteq Drivings
                BY DEF FiguresTypeOK, Observed
            <4>3. [recompute.own EXCEPT !.hours = Observed] \in Table
                BY <4>2 DEF Table
            <4> QED
                BY <2>1, <4>1, <4>3 DEF FiguresTypeOK
        <3>2. CASE RecomputeCells
            <4>1. /\ recompute' = [at |-> "enqueue", own |-> Nothing]
                  /\ baselines' = [recompute.own EXCEPT !.cells = Observed]
                  /\ UNCHANGED <<queue, process, faults>>
                BY <3>2 DEF RecomputeCells
            <4>2. recompute.own \in Table /\ Observed \subseteq Drivings
                BY DEF FiguresTypeOK, Observed
            <4>3. [recompute.own EXCEPT !.cells = Observed] \in Table
                BY <4>2 DEF Table
            <4> QED
                BY <1>0, <2>1, <4>1, <4>3 DEF FiguresTypeOK
        <3>3. CASE FinishRecompute
            BY <1>0, <2>1, <3>3 DEF FinishRecompute, ComputeQueued, NoJob, FiguresTypeOK
        <3>4. CASE Night
            BY <1>0, <2>1, <3>4 DEF Night, FiguresTypeOK
        <3>5. CASE TakeRecompute
            BY <1>0, <2>1, <3>5 DEF TakeRecompute, FiguresTypeOK
        <3>6. CASE CloseNext
            BY <2>1, <3>6 DEF CloseNext, CloseOrder, FiguresTypeOK
        <3>7. CASE Restart
            BY <2>1, <3>7 DEF Restart, FiguresTypeOK
        <3> QED
            BY <1>3, <3>1, <3>2, <3>3, <3>4, <3>5, <3>6, <3>7 DEF RecomputeStep
    <2> QED
        BY <1>0, <2>1, <2>2, ForgetOK
<1>4. ASSUME NEW j \in Jobs
      PROVE  /\ Retried(j) \in [at : {"none", "waiting", "active"}, tries : 0 .. MaxTries]
             /\ Retried(j).at = "none" => Retried(j).tries = 0
             /\ Retried(j).at = "waiting" => Retried(j).tries < MaxTries
    BY DEF Retried, NoJob, FiguresTypeOK
<1>5. ASSUME NEW j \in Jobs, JobFails(j) PROVE FiguresRows' /\ AnswerIInv'
    <2>1. /\ queue' = [queue EXCEPT ![j] = Retried(j)] /\ faults' \in 0 .. MaxFaults
          /\ UNCHANGED <<billed, figure, baselines, process>>
        BY <1>5 DEF JobFails, FiguresTypeOK
    <2>2. /\ \/ runs' = [runs EXCEPT ![ComputeJob] = NoRun]
             \/ UNCHANGED runs
          /\ recompute' = [at |-> "idle", own |-> Nothing] \/ UNCHANGED recompute
        BY <1>5 DEF JobFails
    <2>3. /\ runs' \in [Runs -> {NoRun} \cup RunRow]
          /\ \A q \in Readers : runs'[q] = runs[q]
        BY <1>0, <2>2
    <2>4. FiguresRows'
        BY <1>0, <1>4, <2>1, <2>2, <2>3 DEF FiguresTypeOK, RunRow
    <2> QED
        BY <2>1, <2>3, <2>4, ForgetOK
<1>6. CASE TakeCompute \/ FinishCompute
    <2>1. /\ \E row \in {NoRun, StartRun} : runs' = [runs EXCEPT ![ComputeJob] = row]
          /\ UNCHANGED <<billed, figure, baselines, recompute, process, faults>>
        BY <1>6 DEF TakeCompute, FinishCompute
    <2>2. StartRun \in RunRow
        BY <1>0 DEF StartRun, RunRow
    <2>3. /\ runs' \in [Runs -> {NoRun} \cup RunRow]
          /\ \A q \in Readers : runs'[q] = runs[q]
        BY <1>0, <2>1, <2>2
    <2>4. /\ queue' \in [Jobs -> [at : {"none", "waiting", "active"}, tries : 0 .. MaxTries]]
          /\ \A j \in Jobs : /\ queue'[j].at = "none" => queue'[j].tries = 0
                             /\ queue'[j].at = "waiting" => queue'[j].tries < MaxTries
        BY <1>0, <1>6 DEF TakeCompute, FinishCompute, NoJob, FiguresTypeOK
    <2>5. FiguresRows'
        BY <2>1, <2>3, <2>4 DEF FiguresTypeOK, RunRow
    <2> QED
        BY <2>1, <2>3, <2>5, ForgetOK
<1>7. CASE Exit
    <2>1. /\ runs' = [runs EXCEPT ![ComputeJob] = NoRun]
          /\ UNCHANGED <<billed, figure, baselines, faults>>
          /\ recompute' = [at |-> "idle", own |-> Nothing] /\ process' = "down"
          /\ queue' = [j \in Jobs |-> Retried(j)]
        BY <1>7 DEF Exit
    <2>2. /\ runs' \in [Runs -> {NoRun} \cup RunRow]
          /\ \A q \in Readers : runs'[q] = runs[q]
        BY <1>0, <2>1
    <2>3. FiguresRows'
        BY <1>0, <1>4, <2>1, <2>2 DEF FiguresTypeOK, RunRow
    <2> QED
        BY <2>1, <2>2, <2>3, ForgetOK
<1> QED
    BY <1>1, <1>2, <1>3, <1>5, <1>6, <1>7

(* Every step keeps the answers whole.                                     *)
LEMMA FiguresStepOK ==
    FiguresRows /\ AnswerIInv /\ [FiguresNext]_figuresVars => FiguresRows' /\ AnswerIInv'
<1> SUFFICES ASSUME FiguresRows, AnswerIInv, [FiguresNext]_figuresVars
             PROVE  FiguresRows' /\ AnswerIInv'
    OBVIOUS
<1>1. CASE FiguresNext
    BY <1>1, RunStepOK, QueueStepOK DEF FiguresNext
<1>2. CASE UNCHANGED figuresVars
    BY <1>2 DEF figuresVars, FiguresRows, FiguresTypeOK, AnswerIInv
<1> QED
    BY <1>1, <1>2

(* Whether or not the worker is given its turns.                           *)
LEMMA WholeUnforced ==
    FiguresInit /\ [][FiguresNext]_figuresVars => [](FiguresTypeOK /\ AnswerIsComplete)
<1>1. FiguresRows /\ AnswerIInv => FiguresTypeOK /\ AnswerIsComplete
    BY DEF FiguresRows, AnswerIInv, AnswerIsComplete, NoRun
<1> QED
    BY <1>1, FiguresInitOK, FiguresStepOK, PTL

(* Whatever requests, jobs, crashes and new drivings overlap, a request    *)
(* that has its answer finds a figure for every driving that was billed    *)
(* when it asked (computeMissing goes on until a batch is not full).       *)
THEOREM AnswersAreWhole == FiguresSpec => [](FiguresTypeOK /\ AnswerIsComplete)
BY WholeUnforced, PTL DEF FiguresSpec

(* Whether or not the job ever runs.                                       *)
LEMMA StaysUnforced == FiguresInit /\ [][FiguresNext]_figuresVars => FigureIsFinal
<1> DEFINE Final == \A s \in Drivings : figure[s] # NoFigure => figure'[s] = figure[s]
<1>1. FiguresNext => Final
    <2>1. ASSUME NEW r \in Runs, StoreFigures(r) PROVE Final
        BY <2>1 DEF StoreFigures, Stored
    <2>2. FiguresNext => UNCHANGED figure \/ \E r \in Runs : StoreFigures(r)
        BY DEF FiguresNext, BillOne, AskFigures, RunStep, ReadPending, LoadBaselines,
               AnswerFigures, RecomputeStep, RecomputeHours, RecomputeCells, FinishRecompute,
               Night, TakeRecompute, TakeCompute, FinishCompute, JobFails, CloseNext, Exit,
               Restart
    <2> QED
        BY <2>1, <2>2
<1>2. [FiguresNext]_figuresVars => [Final]_figuresVars
    BY <1>1
<1> QED
    BY <1>2, PTL DEF FigureIsFinal

(* A figure, once stored, is never another one: a run that comes late,     *)
(* from whatever baselines it read, leaves the row that was there first    *)
(* (bulkCreate with ignoreDuplicates).                                     *)
THEOREM FigureStays == FiguresSpec => FigureIsFinal
BY StaysUnforced, PTL DEF FiguresSpec

-----------------------------------------------------------------------------
(* A section of a file that counts all that was billed when it was asked   *)
(* for, priced.                                                            *)
Whole(since, answer) == since \subseteq answer.km \cap answer.priced

(* Where an export can be between two calls.                               *)
Steps == {"price", "read", "count", "last", "sample", "put", "meta", "create"}

(* The sections that count all of the period: not the sample.              *)
InFull(type) == IF type = "proof-pack" THEN Sections[type] \ {"last"} ELSE Sections[type]

(* What is typed; the ids of the exports that are under way are their own. *)
ReportRows ==
    /\ ReportsTypeOK
    /\ DOMAIN exporters = Exporters
    /\ \A e \in Exporters : exporters[e] # Idle =>
          /\ exporters[e] \in Request(exporters[e].type) /\ exporters[e].type \in Types
          /\ exporters[e].id \in (1 .. asked) \ DOMAIN exports
    /\ \A d, e \in Exporters : exporters[d] # Idle /\ exporters[e] # Idle
                                   /\ exporters[d].id = exporters[e].id => d = e
    /\ \A id \in DOMAIN exports : exports[id].type \in Types

(* How far a proof pack has come with its sample: what the table by day    *)
(* counted is billed, for the days it is done pricing all of it has its    *)
(* figure, and the days it has worked are worked.                          *)
InSample(me) ==
    LET table == me.file["days"]
    IN  /\ table.km \subseteq billedParts
        /\ me.worked \subseteq me.ready /\ me.ready \subseteq DaysOf(table.km)
        /\ table.km \cap On(me.ready) \subseteq figured
        /\ Works(me.file["last"], me.worked, table)

(* How far an export has come: its parts are priced before the first       *)
(* section is read, the sections it has no longer left are whole, and what *)
(* it has written is the file it holds.                                    *)
Fit(me) ==
    /\ me.since \subseteq billedParts \cap In(me.period)
    /\ me.at = "price" => me.left = Sections[me.type] \ {"last"}
    /\ me.at \in {"price", "read"} => me.ready = {}
    /\ me.at \in {"count", "last"} => me.type # "proof-pack"
    /\ me.at = "sample" => me.type = "proof-pack"
    /\ me.type = "proof-pack" => InSample(me)
    /\ me.type = "proof-pack" /\ me.at \in {"put", "meta", "create"} =>
          me.worked = Busiest(me.file["days"])
    /\ me.at # "price" =>
          /\ me.since \subseteq figured
          /\ \A s \in Sections[me.type] \ (me.left \cup {"last"}) : Whole(me.since, me.file[s])
    /\ me.at \in {"count", "last", "sample", "put", "meta", "create"} => me.left = {}
    /\ me.at \in {"put", "meta", "create"} /\ "last" \in InFull(me.type) =>
          Whole(me.since, me.file["last"])
    /\ me.at \in {"meta", "create"} =>
          objects[me.id] \in [at : {"bytes", "whole"}, bytes : {me.file}]
    /\ me.at = "create" => objects[me.id].at = "whole"

(* A file in the list is whole, and its bytes are there.                   *)
ListedIInv ==
    \A id \in DOMAIN exports :
        /\ objects[id] \in [at : {"whole"}, bytes : {exports[id].checksum}]
        /\ \A s \in InFull(exports[id].type) : Whole(exports[id].since, exports[id].checksum[s])
        /\ exports[id].type = "proof-pack" =>
              LET table == exports[id].checksum["days"]
              IN  Works(exports[id].checksum["last"], Busiest(table), table)

(* Inductive, with any number of exports.                                  *)
ReportsIInv ==
    ReportRows /\ ListedIInv /\ \A e \in Exporters : exporters[e] # Idle => Fit(exporters[e])

(* No request is idle.                                                     *)
LEMMA IdleIsNone == \A type : Idle \notin Request(type)
BY DEF Idle, Request

(* Nothing has been asked for.                                             *)
LEMMA ReportsInitOK == ReportsInit => ReportsIInv
<1> SUFFICES ASSUME ReportsInit PROVE ReportsIInv
    OBVIOUS
<1>1. MaxExports \in Nat
    BY ReportsAssumption
<1> QED
    BY <1>1 DEF ReportsInit, ReportsIInv, ReportRows, ReportsTypeOK, ListedIInv, NotWritten

(* A step of one export, which may end it: the others do not notice.       *)
LEMMA ExporterStep ==
    ASSUME ReportsIInv, NEW e \in Exporters, NEW row, exporters[e] # Idle,
           exporters' = [exporters EXCEPT ![e] = row],
           row = Idle \/ (/\ row \in Request(row.type) /\ row.type \in Types
                          /\ row.id = exporters[e].id /\ Fit(row)'),
           UNCHANGED <<billedParts, exports, asked>>, figured' \in {figured, billedParts},
           DOMAIN objects' = DOMAIN objects,
           \A id \in DOMAIN objects : objects'[id].at \in {"missing", "bytes", "whole"},
           \A id \in DOMAIN objects \ {exporters[e].id} : objects'[id] = objects[id]
    PROVE  ReportsIInv'
<1> USE DEF ReportsIInv
<1>1. /\ exporters'[e] = row /\ DOMAIN exporters' = Exporters
      /\ \A d \in Exporters : d # e => exporters'[d] = exporters[d]
    BY DEF ReportRows
<1>2. figured \subseteq figured' /\ figured' \subseteq billedParts
    BY DEF ReportRows, ReportsTypeOK
<1>3. ReportRows'
    BY <1>1, <1>2, IdleIsNone DEF ReportRows, ReportsTypeOK
<1>4. exporters[e].id \in DOMAIN objects /\ exporters[e].id \notin DOMAIN exports
      /\ DOMAIN exports \subseteq DOMAIN objects
    BY ReportsAssumption DEF ReportRows, ReportsTypeOK
<1>5. ListedIInv'
    BY <1>4 DEF ListedIInv
<1>6. ASSUME NEW d \in Exporters, exporters'[d] # Idle PROVE Fit(exporters[d])'
    <2>1. CASE d = e
        BY <1>1, <1>6, <2>1
    <2>2. CASE d # e
        <3>1. PICK him : him = exporters[d] /\ him = exporters'[d]
            BY <1>1, <2>2
        <3>2. him.id \in DOMAIN objects /\ him.id # exporters[e].id
            <4>1. him # Idle /\ him.id \in 1 .. asked
                BY <1>1, <1>6, <2>2, <3>1 DEF ReportRows
            <4>2. asked \in 0 .. MaxExports /\ DOMAIN objects = 1 .. MaxExports
                BY DEF ReportRows, ReportsTypeOK
            <4> QED
                BY <2>2, <3>1, <4>1, <4>2, ReportsAssumption DEF ReportRows
        <3>3. Fit(him) /\ objects'[him.id] = objects[him.id]
            BY <1>6, <3>1, <3>2
        <3>4. Fit(him)'
            BY <1>2, <3>3 DEF Fit, InSample
        <3> QED
            BY <3>1, <3>4
    <2> QED
        BY <2>1, <2>2
<1> QED
    BY <1>3, <1>5, <1>6

(* An export that goes to its next step keeps the rest.                    *)
LEMMA StepOn ==
    ASSUME NEW type \in Types, NEW me \in Request(type), NEW at \in Steps,
           NEW row, row = [me EXCEPT !.at = at]
    PROVE  /\ row \in Request(type) /\ row.at = at /\ row.type = type /\ me.type = type
           /\ row.id = me.id /\ row.period = me.period /\ row.since = me.since
           /\ row.left = me.left /\ row.file = me.file
           /\ row.ready = me.ready /\ row.worked = me.worked
BY DEF Request, Steps

(* The steps that ask and read.                                            *)
LEMMA ReadStepOK ==
    ASSUME ReportsIInv, NEW e \in Exporters,
           \/ PriceFirst(e) \/ CountRows(e) \/ ReadLast(e)
           \/ \E section \in Together : Read(e, section)
    PROVE  ReportsIInv'
<1>1. exporters[e].at \in {"price", "count", "last", "read"}
      /\ UNCHANGED <<billedParts, exports, objects, asked>>
    BY DEF PriceFirst, CountRows, ReadLast, Read
<1>1a. exporters[e] # Idle
    BY <1>1 DEF Idle
<1>2. PICK me : me = exporters[e]
    OBVIOUS
<1>3. PICK type \in Types : me \in Request(type) /\ me.type = type
    BY <1>1a, <1>2 DEF ReportsIInv, ReportRows, Request
<1>4. Fit(me)
    BY <1>1a, <1>2 DEF ReportsIInv
<1>5. \A id \in DOMAIN objects : objects[id].at \in {"missing", "bytes", "whole"}
    BY DEF ReportsIInv, ReportRows, ReportsTypeOK
<1>6. me.left \subseteq Sections[type] \ {"last"} /\ me.file \in [Sections[type] -> Answered]
    BY <1>3 DEF Request, File
<1>7. ASSUME NEW left
      PROVE  \E at \in Steps :
                /\ at = AfterReads(me, left) /\ at \notin {"price", "meta", "create"}
                /\ at # "read" => left = {}
                /\ at = "put" => "last" \notin Sections[type]
                /\ IF type = "proof-pack" THEN at \in {"read", "sample"} ELSE at # "sample"
    BY <1>3 DEF AfterReads, Sections, Types, Steps
<1>7a. /\ type = "proof-pack" => {"days", "last"} \subseteq Sections[type] /\ "days" # "last"
       /\ InFull(type) \subseteq Sections[type]
       /\ type # "proof-pack" => InFull(type) = Sections[type]
       /\ type = "proof-pack" => "last" \notin InFull(type)
    BY DEF Sections, Together, InFull, Types
<1>7b. ASSUME NEW row \in Request(type), row.type = type, row.id = me.id, Fit(row)',
              exporters' = [exporters EXCEPT ![e] = row], figured' \in {figured, billedParts}
       PROVE  ReportsIInv'
    BY <1>1, <1>1a, <1>2, <1>5, <1>7b, ExporterStep
<1>8. /\ SeenNow(In(me.period)) \in Answered /\ SeenNow(In(me.period)).km \subseteq billedParts
      /\ PricedNow(In(me.period)) \in Answered
    BY DEF SeenNow, PricedNow, Answered, In, ReportsIInv, ReportRows, ReportsTypeOK
<1>9. me.since \subseteq figured => /\ Whole(me.since, SeenNow(In(me.period)))
                                   /\ Whole(me.since, PricedNow(In(me.period)))
    BY <1>4 DEF Whole, SeenNow, PricedNow, Fit
<1>10. CASE PriceFirst(e)
    <2>1. /\ me.at = "price" /\ figured' = billedParts
          /\ exporters' = [exporters EXCEPT ![e].at = AfterReads(me, me.left)]
        BY <1>2, <1>10 DEF PriceFirst, Priced
    <2>2. PICK at \in Steps :
                /\ at = AfterReads(me, me.left) /\ at \notin {"price", "meta", "create"}
                /\ at # "read" => me.left = {}
                /\ at = "put" => "last" \notin Sections[type]
                /\ IF type = "proof-pack" THEN at \in {"read", "sample"} ELSE at # "sample"
        BY <1>7
    <2>3. PICK row : row = [me EXCEPT !.at = at]
        OBVIOUS
    <2>4. /\ row \in Request(type) /\ row.at = at /\ row.type = type /\ me.type = type
          /\ row.id = me.id /\ row.period = me.period /\ row.since = me.since
          /\ row.left = me.left /\ row.file = me.file
          /\ row.ready = me.ready /\ row.worked = me.worked
        BY <1>3, <2>3, StepOn
    <2>5. exporters' = [exporters EXCEPT ![e] = row]
        BY <1>2, <2>1, <2>2, <2>3
    <2>6. me.left = Sections[type] \ {"last"}
        BY <1>3, <1>4, <2>1 DEF Fit
    <2>7. Fit(row)'
        <3>1. type = "proof-pack" => InSample(row)'
            <4>1. figured \subseteq figured'
                BY <2>1 DEF ReportsIInv, ReportRows, ReportsTypeOK
            <4> QED
                BY <1>1, <1>3, <1>4, <2>4, <4>1 DEF Fit, InSample
        <3> QED
            BY <1>1, <1>3, <1>4, <1>7a, <2>1, <2>2, <2>4, <2>6, <3>1 DEF Fit
    <2> QED
        BY <1>7b, <2>1, <2>4, <2>5, <2>7
<1>11. CASE CountRows(e)
    <2>1. /\ me.at = "count" /\ UNCHANGED figured
          /\ \/ exporters' = [exporters EXCEPT ![e] = Idle]
             \/ exporters' = [exporters EXCEPT ![e].at = "last"]
        BY <1>2, <1>11 DEF CountRows
    <2>2. PICK at \in Steps : at = "last"
        BY DEF Steps
    <2>3. PICK row : row = [me EXCEPT !.at = at]
        OBVIOUS
    <2>4. /\ row \in Request(type) /\ row.at = at /\ row.type = type /\ me.type = type
          /\ row.id = me.id /\ row.period = me.period /\ row.since = me.since
          /\ row.left = me.left /\ row.file = me.file
          /\ row.ready = me.ready /\ row.worked = me.worked
        BY <1>3, <2>3, StepOn
    <2>5. Fit(row)'
        BY <1>1, <1>4, <2>1, <2>2, <2>4 DEF Fit, InSample
    <2>6. CASE exporters' = [exporters EXCEPT ![e] = Idle]
        BY <1>1, <1>1a, <1>5, <2>1, <2>6, ExporterStep
    <2>7. CASE exporters' = [exporters EXCEPT ![e].at = "last"]
        <3>1. exporters' = [exporters EXCEPT ![e] = row]
            BY <1>2, <2>2, <2>3, <2>7
        <3> QED
            BY <1>7b, <2>1, <2>4, <2>5, <3>1
    <2> QED
        BY <2>1, <2>6, <2>7
<1>12. CASE ReadLast(e)
    <2>1. /\ me.at = "last" /\ UNCHANGED figured
          /\ exporters' = [exporters EXCEPT ![e].file["last"] = SeenNow(In(me.period)),
                                            ![e].at = "put"]
        BY <1>2, <1>12 DEF ReadLast
    <2>2. PICK answer \in Answered : answer = SeenNow(In(me.period))
        BY <1>8
    <2>3. PICK file : file = [me.file EXCEPT !["last"] = answer]
        OBVIOUS
    <2>3a. /\ file \in File(type)
           /\ \A s \in Sections[type] : file[s] = IF s = "last" THEN answer ELSE me.file[s]
        BY <1>6, <2>2, <2>3 DEF File
    <2>3b. PICK row : row = [me EXCEPT !.file = file, !.left = {}, !.at = "put"]
        OBVIOUS
    <2>4. /\ row \in Request(type) /\ row.at = "put" /\ row.type = type /\ me.type = type
          /\ row.id = me.id /\ row.period = me.period /\ row.since = me.since
          /\ row.left = {} /\ row.file = file /\ row.ready = me.ready
        BY <1>3, <2>3a, <2>3b DEF Request, Steps
    <2>5. exporters' = [exporters EXCEPT ![e] = row]
        <3>1. me.left = {}
            BY <1>4, <2>1 DEF Fit
        <3>2. row = [me EXCEPT !.file["last"] = answer, !.at = "put"]
            BY <1>3, <2>3, <2>3b, <3>1 DEF Request
        <3> QED
            BY <1>2, <2>1, <2>2, <3>2
    <2>6. Fit(row)'
        BY <1>1, <1>4, <1>7a, <1>9, <2>1, <2>2, <2>3a, <2>4 DEF Fit
    <2> QED
        BY <1>7b, <2>1, <2>4, <2>5, <2>6
<1>13. ASSUME NEW section \in Together, Read(e, section) PROVE ReportsIInv'
    <2>1. PICK left : left = me.left \ {section}
        OBVIOUS
    <2>2. /\ me.at = "read" /\ section \in me.left /\ UNCHANGED figured
          /\ exporters' = [exporters EXCEPT
                ![e].file[section] = IF section = "mix" THEN PricedNow(In(me.period))
                                     ELSE SeenNow(In(me.period)),
                ![e].left = left, ![e].at = AfterReads(me, left)]
        BY <1>2, <1>13, <2>1 DEF Read
    <2>3. PICK answer \in Answered : answer = IF section = "mix" THEN PricedNow(In(me.period))
                                              ELSE SeenNow(In(me.period))
        BY <1>8
    <2>3a. /\ me.since \subseteq figured => Whole(me.since, answer)
           /\ section = "days" => answer.km \subseteq billedParts
        BY <1>8, <1>9, <2>3
    <2>4. PICK at \in Steps :
                /\ at = AfterReads(me, left) /\ at \notin {"price", "meta", "create"}
                /\ at # "read" => left = {}
                /\ at = "put" => "last" \notin Sections[type]
                /\ IF type = "proof-pack" THEN at \in {"read", "sample"} ELSE at # "sample"
        BY <1>7
    <2>5. PICK file : file = [me.file EXCEPT ![section] = answer]
        OBVIOUS
    <2>5a. /\ file \in File(type)
           /\ \A s \in Sections[type] : file[s] = IF s = section THEN answer ELSE me.file[s]
        BY <1>6, <2>3, <2>5 DEF File
    <2>5b. PICK row : row = [me EXCEPT !.file = file, !.left = left, !.at = at]
        OBVIOUS
    <2>6. /\ row \in Request(type) /\ row.at = at /\ row.type = type /\ me.type = type
          /\ row.id = me.id /\ row.period = me.period /\ row.since = me.since
          /\ row.left = left /\ row.file = file
          /\ row.ready = me.ready /\ row.worked = me.worked
        <3>1. left \subseteq Sections[type] \ {"last"}
            BY <1>6, <2>1
        <3> QED
            BY <1>3, <2>5a, <2>5b, <3>1 DEF Request, Steps
    <2>7. exporters' = [exporters EXCEPT ![e] = row]
        BY <1>2, <2>2, <2>3, <2>4, <2>5, <2>5b
    <2>8. ASSUME type = "proof-pack" PROVE InSample(row)'
        <3>1. me.ready = {} /\ me.worked = {} /\ InSample(me)
            BY <1>3, <1>4, <2>2, <2>8 DEF Fit, InSample
        <3>2. file["last"] = me.file["last"] /\ file["days"] \in {me.file["days"], answer}
              /\ (section # "days" => file["days"] = me.file["days"])
            BY <1>7a, <2>2, <2>5a, <2>8, <1>6
        <3>3. file["days"].km \subseteq billedParts
            BY <2>3a, <2>5a, <3>1, <3>2, <1>7a, <2>8 DEF InSample
        <3>4. On({}) = {} /\ UNCHANGED <<billedParts, figured>>
            BY <1>1, <2>2 DEF On
        <3>5. Works(file["last"], {}, file["days"])
            BY <3>1, <3>2, <3>4 DEF InSample, Works
        <3> QED
            BY <2>6, <3>1, <3>3, <3>4, <3>5 DEF InSample
    <2>9. Fit(row)'
        BY <1>1, <1>3, <1>4, <1>6, <1>7a, <2>1, <2>2, <2>3a, <2>4, <2>5a, <2>6, <2>8 DEF Fit
    <2> QED
        BY <1>7b, <2>2, <2>6, <2>7, <2>9
<1> QED
    BY <1>10, <1>11, <1>12, <1>13

(* The steps of a proof pack's sample.                                     *)
LEMMA SampleStepOK ==
    ASSUME ReportsIInv, NEW e \in Exporters,
           \/ \E day \in DaysOf(Parts) : PriceDay(e, day) \/ WorkDay(e, day)
           \/ SampleDone(e)
    PROVE  ReportsIInv'
<1>1. /\ exporters[e].at = "sample" /\ exporters[e] # Idle
      /\ UNCHANGED <<billedParts, exports, objects, asked>>
    <2>1. ASSUME NEW day, PriceDay(e, day) \/ WorkDay(e, day)
          PROVE  exporters[e].at = "sample" /\ UNCHANGED <<billedParts, exports, objects, asked>>
        BY <2>1 DEF PriceDay, WorkDay
    <2>2. SampleDone(e) => /\ exporters[e].at = "sample"
                           /\ UNCHANGED <<billedParts, exports, objects, asked>>
        BY DEF SampleDone
    <2>3. exporters[e].at = "sample" => exporters[e] # Idle
        BY DEF Idle
    <2> QED
        BY <2>1, <2>2, <2>3
<1>2. PICK me : me = exporters[e]
    OBVIOUS
<1>3. PICK type \in Types : me \in Request(type) /\ me.type = type
    BY <1>1, <1>2 DEF ReportsIInv, ReportRows, Request
<1>4. Fit(me)
    BY <1>1, <1>2 DEF ReportsIInv
<1>5. \A id \in DOMAIN objects : objects[id].at \in {"missing", "bytes", "whole"}
    BY DEF ReportsIInv, ReportRows, ReportsTypeOK
<1>6. figured \subseteq billedParts /\ billedParts \subseteq Parts
    BY DEF ReportsIInv, ReportRows, ReportsTypeOK
<1>7. me.file \in [Sections[type] -> Answered]
    BY <1>3 DEF Request, File
<1>8. /\ type = "proof-pack" => {"days", "last"} \subseteq Sections[type] /\ "days" # "last"
      /\ type = "proof-pack" => "last" \notin InFull(type)
      /\ type # "proof-pack" => InFull(type) = Sections[type]
    BY DEF Sections, Together, InFull, Types
<1>9. type = "proof-pack" => InSample(me)
    BY <1>3, <1>4 DEF Fit
<1>10. me.left = {} /\ me.since \subseteq figured /\ me.since \subseteq In(me.period)
    BY <1>1, <1>2, <1>4 DEF Fit
<1>10a. ASSUME NEW row \in Request(type), row.type = type, row.id = me.id, Fit(row)',
              exporters' = [exporters EXCEPT ![e] = row], figured' \in {figured, billedParts}
        PROVE  ReportsIInv'
    BY <1>1, <1>2, <1>5, <1>10a, ExporterStep
<1>11. ASSUME NEW day \in DaysOf(Parts), PriceDay(e, day) PROVE ReportsIInv'
    <2>1. /\ day \in Busiest(me.file["days"]) /\ figured' = billedParts
          /\ exporters' = [exporters EXCEPT ![e].ready = me.ready \cup {day}]
        BY <1>2, <1>11 DEF PriceDay, Priced
    <2>2. PICK row : row = [me EXCEPT !.ready = me.ready \cup {day}]
        OBVIOUS
    <2>3. /\ row \in Request(type) /\ row.at = me.at /\ row.type = type /\ row.id = me.id
          /\ row.period = me.period /\ row.since = me.since /\ row.left = me.left
          /\ row.file = me.file /\ row.ready = me.ready \cup {day} /\ row.worked = me.worked
        BY <1>3, <2>2 DEF Request
    <2>4. exporters' = [exporters EXCEPT ![e] = row]
        BY <1>2, <2>1, <2>2
    <2>5. day \in DaysOf(me.file["days"].km)
        BY <2>1 DEF Busiest
    <2>6. type = "proof-pack" => InSample(row)'
        BY <1>1, <1>9, <2>1, <2>3, <2>5 DEF InSample
    <2>7. Fit(row)'
        BY <1>1, <1>2, <1>3, <1>4, <1>6, <2>1, <2>3, <2>6 DEF Fit
    <2> QED
        BY <1>10a, <2>1, <2>3, <2>4, <2>7
<1>12. ASSUME NEW day \in DaysOf(Parts), WorkDay(e, day) PROVE ReportsIInv'
    <2>1. /\ day \in me.ready /\ UNCHANGED figured
          /\ exporters' = [exporters EXCEPT
                ![e].file["last"] = [km |-> me.file["last"].km \cup PricedNow(On({day})).km,
                       priced |-> me.file["last"].priced \cup PricedNow(On({day})).priced],
                ![e].worked = me.worked \cup {day}]
        BY <1>2, <1>12 DEF WorkDay, MayWork
    <2>2. PICK seen : seen = figured \cap On({day})
        OBVIOUS
    <2>3. PricedNow(On({day})).km = seen /\ PricedNow(On({day})).priced = seen
        BY <2>2 DEF PricedNow
    <2>4. PICK answer : answer = [km |-> me.file["last"].km \cup seen,
                                  priced |-> me.file["last"].priced \cup seen]
        OBVIOUS
    <2>5. PICK file : file = [me.file EXCEPT !["last"] = answer]
        OBVIOUS
    <2>6. PICK row : row = [me EXCEPT !.file = file, !.worked = me.worked \cup {day}]
        OBVIOUS
    <2>7. exporters' = [exporters EXCEPT ![e] = row]
        BY <1>2, <1>3, <2>1, <2>3, <2>4, <2>5, <2>6 DEF Request
    <2>8. type = "proof-pack" => answer \in Answered
        <3>1. seen \subseteq Parts
            BY <2>2, <1>6
        <3> QED
            BY <1>7, <1>8, <2>4, <3>1 DEF Answered
    <2>9. type = "proof-pack"
        BY <1>1, <1>2, <1>3, <1>4 DEF Fit
    <2>10. /\ file \in File(type)
           /\ \A s \in Sections[type] : file[s] = IF s = "last" THEN answer ELSE me.file[s]
        BY <1>7, <2>5, <2>8, <2>9 DEF File
    <2>11. /\ row \in Request(type) /\ row.at = me.at /\ row.type = type /\ row.id = me.id
           /\ row.period = me.period /\ row.since = me.since /\ row.left = me.left
           /\ row.file = file /\ row.ready = me.ready /\ row.worked = me.worked \cup {day}
        BY <1>3, <2>6, <2>10 DEF Request
    <2>12. file["days"] = me.file["days"] /\ file["last"] = answer
        BY <1>8, <2>9, <2>10
    <2>13. PICK table : table = me.file["days"]
        OBVIOUS
    <2>14. PICK part \in table.km : PartDay[part] = day
        BY <1>9, <2>1, <2>9, <2>13 DEF InSample, DaysOf
    <2>15. table.km \cap On({day}) \subseteq seen /\ table.km \subseteq Parts
        BY <1>6, <1>9, <2>1, <2>2, <2>9, <2>13 DEF InSample, On
    <2>16. DaysOf(seen) = {day}
        BY <2>2, <2>14, <2>15 DEF DaysOf, On
    <2>17. Works(me.file["last"], me.worked, table)
        BY <1>9, <2>9, <2>13 DEF InSample
    <2>18. Works(answer, me.worked \cup {day}, table)
        <3>1. DaysOf(answer.km) = me.worked \cup {day}
            BY <2>4, <2>16, <2>17 DEF Works, DaysOf
        <3>2. On(me.worked \cup {day}) = On(me.worked) \cup On({day})
            BY DEF On
        <3> QED
            BY <2>4, <2>15, <2>17, <3>1, <3>2 DEF Works
    <2>19. InSample(row)'
        BY <1>1, <1>9, <2>1, <2>9, <2>11, <2>12, <2>13, <2>18 DEF InSample
    <2>20. Fit(row)'
        BY <1>1, <1>2, <1>3, <1>4, <2>1, <2>9, <2>10, <2>11, <2>19 DEF Fit
    <2> QED
        BY <1>10a, <2>1, <2>7, <2>11, <2>20
<1>13. CASE SampleDone(e)
    <2>1. /\ me.worked = Busiest(me.file["days"]) /\ UNCHANGED figured
          /\ exporters' = [exporters EXCEPT ![e].at = "put"]
        BY <1>2, <1>13 DEF SampleDone
    <2>2. PICK at \in Steps : at = "put"
        BY DEF Steps
    <2>3. PICK row : row = [me EXCEPT !.at = at]
        OBVIOUS
    <2>4. /\ row \in Request(type) /\ row.at = at /\ row.type = type /\ me.type = type
          /\ row.id = me.id /\ row.period = me.period /\ row.since = me.since
          /\ row.left = me.left /\ row.file = me.file
          /\ row.ready = me.ready /\ row.worked = me.worked
        BY <1>3, <2>3, StepOn
    <2>5. exporters' = [exporters EXCEPT ![e] = row]
        BY <1>2, <2>1, <2>2, <2>3
    <2>6. type = "proof-pack"
        BY <1>1, <1>2, <1>3, <1>4 DEF Fit
    <2>7. Fit(row)'
        BY <1>1, <1>2, <1>3, <1>4, <1>8, <2>1, <2>2, <2>4, <2>6 DEF Fit, InSample
    <2> QED
        BY <1>10a, <2>1, <2>4, <2>5, <2>7
<1> QED
    BY <1>11, <1>12, <1>13

(* The steps that store a file and list it.                                *)
LEMMA PutStepOK ==
    ASSUME ReportsIInv, NEW e \in Exporters, PutBytes(e) \/ PutMeta(e) \/ Abandon(e)
    PROVE  ReportsIInv'
<1>1. exporters[e] # Idle /\ UNCHANGED <<billedParts, figured, exports, asked>>
    BY DEF PutBytes, PutMeta, Abandon, Idle
<1>2. PICK me : me = exporters[e]
    OBVIOUS
<1>3. PICK type \in Types : me \in Request(type) /\ me.type = type
    BY <1>1, <1>2 DEF ReportsIInv, ReportRows, Request
<1>4. Fit(me) /\ me.id \in DOMAIN objects
    BY <1>1, <1>2, ReportsAssumption DEF ReportsIInv, ReportRows, ReportsTypeOK
<1>5. \A id \in DOMAIN objects : objects[id].at \in {"missing", "bytes", "whole"}
    BY DEF ReportsIInv, ReportRows, ReportsTypeOK
<1>6. CASE Abandon(e)
    BY <1>1, <1>5, <1>6, ExporterStep DEF Abandon
<1>7. CASE PutBytes(e)
    <2>1. /\ me.at = "put"
          /\ objects' = [objects EXCEPT ![me.id] = [at |-> "bytes", bytes |-> me.file]]
          /\ exporters' = [exporters EXCEPT ![e].at = "meta"]
        BY <1>2, <1>7 DEF PutBytes
    <2>2. PICK row : row = [me EXCEPT !.at = "meta"]
        OBVIOUS
    <2>3. /\ row \in Request(type) /\ row.at = "meta" /\ row.type = type
          /\ row.id = me.id /\ row.period = me.period /\ row.since = me.since
          /\ row.left = me.left /\ row.file = me.file
          /\ row.ready = me.ready /\ row.worked = me.worked
        <3>1. "meta" \in Steps
            BY DEF Steps
        <3> QED
            BY <1>3, <2>2, <3>1, StepOn
    <2>4. exporters' = [exporters EXCEPT ![e] = row]
        BY <1>2, <2>1, <2>2
    <2>5. /\ DOMAIN objects' = DOMAIN objects
          /\ objects'[me.id] \in [at : {"bytes"}, bytes : {me.file}]
          /\ \A id \in DOMAIN objects \ {me.id} : objects'[id] = objects[id]
        BY <1>4, <2>1
    <2>6. Fit(row)'
        BY <1>1, <1>3, <1>4, <2>1, <2>3, <2>5 DEF Fit, InSample
    <2>7. \A id \in DOMAIN objects : objects'[id].at \in {"missing", "bytes", "whole"}
        BY <1>5, <2>5
    <2> QED
        BY <1>1, <1>2, <2>3, <2>4, <2>5, <2>6, <2>7, ExporterStep
<1>8. CASE PutMeta(e)
    <2>1. /\ me.at = "meta" /\ objects' = [objects EXCEPT ![me.id].at = "whole"]
          /\ exporters' = [exporters EXCEPT ![e].at = "create"]
        BY <1>2, <1>8 DEF PutMeta
    <2>2. PICK row : row = [me EXCEPT !.at = "create"]
        OBVIOUS
    <2>3. /\ row \in Request(type) /\ row.at = "create" /\ row.type = type
          /\ row.id = me.id /\ row.period = me.period /\ row.since = me.since
          /\ row.left = me.left /\ row.file = me.file
          /\ row.ready = me.ready /\ row.worked = me.worked
        <3>1. "create" \in Steps
            BY DEF Steps
        <3> QED
            BY <1>3, <2>2, <3>1, StepOn
    <2>4. exporters' = [exporters EXCEPT ![e] = row]
        BY <1>2, <2>1, <2>2
    <2>5. /\ DOMAIN objects' = DOMAIN objects
          /\ objects'[me.id] \in [at : {"whole"}, bytes : {me.file}]
          /\ \A id \in DOMAIN objects \ {me.id} : objects'[id] = objects[id]
        BY <1>4, <2>1 DEF Fit
    <2>6. Fit(row)'
        BY <1>1, <1>3, <1>4, <2>1, <2>3, <2>5 DEF Fit, InSample
    <2>7. \A id \in DOMAIN objects : objects'[id].at \in {"missing", "bytes", "whole"}
        BY <1>5, <2>5
    <2> QED
        BY <1>1, <1>2, <2>3, <2>4, <2>5, <2>6, <2>7, ExporterStep
<1> QED
    BY <1>6, <1>7, <1>8

(* The row that lists an export is written.                                *)
LEMMA CreateOK ==
    ASSUME ReportsIInv, NEW e \in Exporters, CreateExport(e)
    PROVE  ReportsIInv'
<1>1. PICK me : me = exporters[e]
    OBVIOUS
<1>2. /\ me # Idle /\ me.at = "create"
      /\ exporters' = [exporters EXCEPT ![e] = Idle]
      /\ UNCHANGED <<billedParts, figured, objects, asked>>
    BY <1>1 DEF CreateExport, MayList, Idle
<1>3. PICK row : row = [owner |-> Owner, type |-> me.type, period |-> me.period,
                        checksum |-> me.file, since |-> me.since, expired |-> FALSE]
    OBVIOUS
<1>4. /\ DOMAIN exports' = DOMAIN exports \cup {me.id} /\ exports'[me.id] = row
      /\ \A id \in DOMAIN exports \ {me.id} : exports'[id] = exports[id]
    BY <1>1, <1>3 DEF CreateExport
<1>5. PICK type \in Types : me \in Request(type) /\ me.type = type
    BY <1>1, <1>2 DEF ReportsIInv, ReportRows, Request
<1>6. /\ Fit(me) /\ me.id \in (1 .. asked) \ DOMAIN exports
    BY <1>1, <1>2 DEF ReportsIInv, ReportRows
<1>7. row \in Export(type) /\ row.type = type /\ row.since = me.since /\ row.checksum = me.file
    BY <1>3, <1>5, ReportsAssumption DEF Export, Request
<1>8. /\ DOMAIN exporters' = Exporters /\ exporters'[e] = Idle
      /\ \A d \in Exporters : d # e => exporters'[d] = exporters[d]
    BY <1>2 DEF ReportsIInv, ReportRows
<1>9. ReportsTypeOK'
    <2>1. ReportsTypeOK
        BY DEF ReportsIInv, ReportRows
    <2>2. \A id \in DOMAIN exports' : exports'[id] \in Export(exports'[id].type)
        BY <1>4, <1>7, <2>1 DEF ReportsTypeOK
    <2>3. \A d \in Exporters : exporters'[d] = Idle \/ exporters'[d] \in Request(exporters'[d].type)
        BY <1>8, <2>1 DEF ReportsTypeOK
    <2> QED
        BY <1>2, <1>4, <1>6, <2>1, <2>2, <2>3 DEF ReportsTypeOK
<1>10. ReportRows'
    <2>1. ASSUME NEW d \in Exporters, exporters'[d] # Idle
          PROVE  /\ exporters'[d] \in Request(exporters'[d].type) /\ exporters'[d].type \in Types
                 /\ exporters'[d].id \in (1 .. asked') \ DOMAIN exports'
        BY <1>1, <1>2, <1>4, <1>8, <2>1 DEF ReportsIInv, ReportRows
    <2>2. \A c, d \in Exporters : exporters'[c] # Idle /\ exporters'[d] # Idle
                                     /\ exporters'[c].id = exporters'[d].id => c = d
        BY <1>8 DEF ReportsIInv, ReportRows
    <2>3. \A id \in DOMAIN exports' : exports'[id].type \in Types
        BY <1>4, <1>7 DEF ReportsIInv, ReportRows
    <2> QED
        BY <1>8, <1>9, <2>1, <2>2, <2>3 DEF ReportRows
<1>11. ListedIInv'
    <2>1. objects[me.id] \in [at : {"whole"}, bytes : {me.file}]
        BY <1>2, <1>6 DEF Fit
    <2>2. /\ \A s \in InFull(type) : Whole(me.since, me.file[s])
          /\ type = "proof-pack" => LET table == me.file["days"]
                                    IN  Works(me.file["last"], Busiest(table), table)
        <3>1. InFull(type) \subseteq Sections[type]
            BY DEF InFull
        <3> QED
            BY <1>2, <1>5, <1>6, <3>1 DEF Fit, InSample
    <2>3. ASSUME NEW id \in DOMAIN exports'
          PROVE  /\ objects'[id] \in [at : {"whole"}, bytes : {exports'[id].checksum}]
                 /\ \A s \in InFull(exports'[id].type) :
                       Whole(exports'[id].since, exports'[id].checksum[s])
                 /\ exports'[id].type = "proof-pack" =>
                       LET table == exports'[id].checksum["days"]
                       IN  Works(exports'[id].checksum["last"], Busiest(table), table)
        <3>1. CASE id = me.id
            BY <1>2, <1>4, <1>7, <2>1, <2>2, <3>1
        <3>2. CASE id # me.id
            BY <1>2, <1>4, <3>2 DEF ReportsIInv, ListedIInv
        <3> QED
            BY <3>1, <3>2
    <2> QED
        BY <2>3 DEF ListedIInv, Whole
<1>12. ASSUME NEW d \in Exporters, exporters'[d] # Idle PROVE Fit(exporters[d])'
    <2>1. PICK him : him = exporters[d] /\ him = exporters'[d]
        BY <1>8, <1>12
    <2>2. Fit(him)
        BY <1>12, <2>1 DEF ReportsIInv
    <2>3. Fit(him)'
        BY <1>2, <2>2 DEF Fit, InSample
    <2> QED
        BY <2>1, <2>3
<1> QED
    BY <1>10, <1>11, <1>12 DEF ReportsIInv

(* A download is asked for.                                                *)
LEMMA ExportBegins ==
    ASSUME ReportsIInv, NEW e \in Exporters, NEW type \in Types, NEW period \in Periods,
           BeginExport(e, type, period)
    PROVE  ReportsIInv'
<1>1. PICK row : row = [at |-> "price", id |-> asked + 1, type |-> type, period |-> period,
                        since |-> billedParts \cap In(period), left |-> Sections[type] \ {"last"},
                        file |-> [s \in Sections[type] |-> NothingSeen], ready |-> {},
                        worked |-> {}]
    OBVIOUS
<1>2. /\ exporters[e] = Idle /\ asked < MaxExports /\ asked' = asked + 1
      /\ exporters' = [exporters EXCEPT ![e] = row]
      /\ UNCHANGED <<billedParts, figured, exports, objects>>
    BY <1>1 DEF BeginExport
<1>3. ReportsTypeOK /\ asked \in Nat /\ MaxExports \in Nat
    BY ReportsAssumption DEF ReportsIInv, ReportRows, ReportsTypeOK
<1>4. asked + 1 \in 1 .. MaxExports /\ asked' \in 0 .. MaxExports /\ asked + 1 \notin 1 .. asked
      /\ 1 .. asked \subseteq 1 .. asked' /\ asked + 1 \in 1 .. asked'
    BY <1>2, <1>3
<1>5. [s \in Sections[type] |-> NothingSeen] \in File(type) /\ In(period) \subseteq Parts
    BY DEF File, NothingSeen, Answered, In
<1>6. /\ row \in Request(type) /\ row.type = type /\ row.id = asked + 1 /\ row.at = "price"
      /\ row.since = billedParts \cap In(period) /\ row.period = period
      /\ row.left = Sections[type] \ {"last"}
      /\ row.ready = {} /\ row.worked = {} /\ row.file = [s \in Sections[type] |-> NothingSeen]
    BY <1>1, <1>4, <1>5 DEF Request
<1>6a. type = "proof-pack" => InSample(row)
    <2>1. type = "proof-pack" => {"days", "last"} \subseteq Sections[type]
        BY DEF Sections, Together, Types
    <2>2. On({}) = {} /\ DaysOf({}) = {}
        BY DEF On, DaysOf
    <2> QED
        BY <1>6, <2>1, <2>2 DEF InSample, Works, NothingSeen
<1>7. /\ DOMAIN exporters' = Exporters /\ exporters'[e] = row
      /\ \A d \in Exporters : d # e => exporters'[d] = exporters[d]
    BY <1>2 DEF ReportsIInv, ReportRows
<1>8. ReportsTypeOK'
    <2>1. \A d \in Exporters : exporters'[d] = Idle \/ exporters'[d] \in Request(exporters'[d].type)
        BY <1>3, <1>6, <1>7 DEF ReportsTypeOK
    <2>2. DOMAIN exports' \subseteq 1 .. asked'
        BY <1>2, <1>3, <1>4 DEF ReportsTypeOK
    <2> QED
        BY <1>2, <1>3, <1>4, <2>1, <2>2 DEF ReportsTypeOK
<1>9. asked + 1 \notin DOMAIN exports
    BY <1>3, <1>4 DEF ReportsTypeOK
<1>10. ReportRows'
    <2>1. ASSUME NEW d \in Exporters, exporters'[d] # Idle
          PROVE  /\ exporters'[d] \in Request(exporters'[d].type) /\ exporters'[d].type \in Types
                 /\ exporters'[d].id \in (1 .. asked') \ DOMAIN exports'
        BY <1>2, <1>4, <1>6, <1>7, <1>9, <2>1 DEF ReportsIInv, ReportRows
    <2>2. \A d \in Exporters : d # e /\ exporters[d] # Idle => exporters[d].id # asked + 1
        BY <1>4 DEF ReportsIInv, ReportRows
    <2>3. \A c, d \in Exporters : exporters'[c] # Idle /\ exporters'[d] # Idle
                                     /\ exporters'[c].id = exporters'[d].id => c = d
        BY <1>6, <1>7, <2>2 DEF ReportsIInv, ReportRows
    <2> QED
        BY <1>2, <1>7, <1>8, <2>1, <2>3 DEF ReportsIInv, ReportRows
<1>11. ListedIInv'
    BY <1>2 DEF ReportsIInv, ListedIInv
<1>12. ASSUME NEW d \in Exporters, exporters'[d] # Idle PROVE Fit(exporters[d])'
    <2>1. PICK him : him = exporters'[d]
        OBVIOUS
    <2>2. Fit(him)
        <3>1. CASE d = e
            BY <1>6, <1>6a, <1>7, <2>1, <3>1 DEF Fit
        <3>2. CASE d # e
            BY <1>7, <1>12, <2>1, <3>2 DEF ReportsIInv
        <3> QED
            BY <3>1, <3>2
    <2>3. Fit(him)'
        BY <1>2, <2>2 DEF Fit, InSample
    <2> QED
        BY <2>1, <2>3
<1> QED
    BY <1>10, <1>11, <1>12 DEF ReportsIInv

(* What phones, the hourly job and time do meanwhile.                      *)
LEMMA MeanwhileOK ==
    ASSUME ReportsIInv,
           \/ PriceHourly
           \/ \E p \in Parts : Bill(p)
           \/ \E id \in DOMAIN exports : Expire(id)
    PROVE  ReportsIInv'
<1>1. UNCHANGED <<exporters, objects, asked>>
    BY DEF PriceHourly, Bill, Expire
<1>2. billedParts \subseteq billedParts' /\ figured \subseteq figured'
      /\ billedParts' \subseteq Parts /\ figured' \subseteq billedParts'
    BY DEF PriceHourly, Priced, Bill, Expire, ReportsIInv, ReportRows, ReportsTypeOK
<1>3. /\ DOMAIN exports' = DOMAIN exports
      /\ \A id \in DOMAIN exports :
            /\ exports'[id] \in Export(exports[id].type) /\ exports'[id].type = exports[id].type
            /\ exports'[id].since = exports[id].since
            /\ exports'[id].checksum = exports[id].checksum
    <2>1. \A id \in DOMAIN exports : exports[id] \in Export(exports[id].type)
        BY DEF ReportsIInv, ReportRows, ReportsTypeOK
    <2>2. CASE UNCHANGED exports
        BY <2>1, <2>2
    <2>3. ASSUME NEW id \in DOMAIN exports, Expire(id)
          PROVE  <1>3!1 /\ <1>3!2
        <3>1. exports' = [exports EXCEPT ![id] = [exports[id] EXCEPT !.expired = TRUE]]
            BY <2>3 DEF Expire
        <3>2. PICK row : row = [exports[id] EXCEPT !.expired = TRUE]
            OBVIOUS
        <3>3. /\ row \in Export(exports[id].type) /\ row.type = exports[id].type
              /\ row.since = exports[id].since /\ row.checksum = exports[id].checksum
            BY <2>1, <3>2 DEF Export
        <3> QED
            BY <2>1, <3>1, <3>2, <3>3
    <2> QED
        BY <2>2, <2>3 DEF PriceHourly, Bill
<1>4. ReportRows'
    BY <1>1, <1>2, <1>3 DEF ReportsIInv, ReportRows, ReportsTypeOK
<1>5. ListedIInv'
    BY <1>1, <1>3 DEF ReportsIInv, ListedIInv
<1>6. ASSUME NEW d \in Exporters, exporters'[d] # Idle PROVE Fit(exporters[d])'
    <2>1. PICK him : him = exporters[d] /\ him = exporters'[d]
        BY <1>1
    <2>2. Fit(him)
        BY <1>1, <1>6, <2>1 DEF ReportsIInv
    <2>3. Fit(him)'
        BY <1>1, <1>2, <2>2 DEF Fit, InSample
    <2> QED
        BY <2>1, <2>3
<1> QED
    BY <1>4, <1>5, <1>6 DEF ReportsIInv

(* Every step keeps the listed files whole.                                *)
LEMMA ReportsStepOK == ReportsIInv /\ [ReportsNext]_reportsVars => ReportsIInv'
<1> SUFFICES ASSUME ReportsIInv, [ReportsNext]_reportsVars PROVE ReportsIInv'
    OBVIOUS
<1>1. CASE ReportsNext
    BY <1>1, MeanwhileOK, ExportBegins, ReadStepOK, SampleStepOK, PutStepOK, CreateOK
       DEF ReportsNext
<1>2. CASE UNCHANGED reportsVars
    BY <1>2 DEF reportsVars, ReportsIInv, ReportRows, ReportsTypeOK, ListedIInv, Fit, InSample
<1> QED
    BY <1>1, <1>2

(* Whatever exports overlap and wherever they die, a file an owner sees in *)
(* the list opens and holds the bytes its row has the checksum of. Its     *)
(* sections count, priced, all that was billed in its period when it was   *)
(* asked for; the sample of a proof pack counts, priced, all that the      *)
(* pack's table by day counted for the busiest days of that table.         *)
THEOREM ReportsAreWhole == ReportsSpec => [](ReportsTypeOK /\ ListedReportIsWhole)
<1>1. ReportsIInv => ReportsTypeOK /\ ListedReportIsWhole
    <2> SUFFICES ASSUME ReportsIInv, NEW owner \in Owners, NEW id \in Listing(owner)
                 PROVE  /\ Opens(owner, id)
                        /\ objects[id].bytes = exports[id].checksum
                        /\ \A s \in Sections[exports[id].type] :
                              LET answer == exports[id].checksum[s]
                                  table == exports[id].checksum["days"]
                              IN  IF exports[id].type = "proof-pack" /\ s = "last"
                                  THEN Works(answer, Busiest(table), table)
                                  ELSE exports[id].since \subseteq answer.km \cap answer.priced
        BY DEF ListedReportIsWhole, ReportsIInv, ReportRows
    <2>1. id \in DOMAIN exports /\ exports[id].owner = owner /\ ~exports[id].expired
        BY DEF Listing
    <2>2. objects[id] \in [at : {"whole"}, bytes : {exports[id].checksum}]
        BY <2>1 DEF ReportsIInv, ListedIInv
    <2>3. Opens(owner, id) /\ objects[id].bytes = exports[id].checksum
        BY <2>1, <2>2 DEF Opens
    <2> QED
        BY <2>1, <2>3 DEF ReportsIInv, ListedIInv, Whole, InFull
<1> QED
    BY <1>1, ReportsInitOK, ReportsStepOK, PTL DEF ReportsSpec
-----------------------------------------------------------------------------
(* What an advertiser pays: the rate cards, the budget and its warning.    *)

(* A buyer prices a new campaign, or one it has read.                      *)
BuyerStates == {AtCounter} \cup [at : {"create"}, km : Requested, rates : Rates]
                   \cup [at : {"update"}, km : Requested, rates : Rates, saw : Order]

(* Where an opening of the dashboard can be between two calls.             *)
OpeningStates == {AtCounter} \cup [at : {"status", "find", "users"}]
                     \cup [at : {"insert"}, to : SUBSET Inboxes]

(* Beside the type: a card is set where there is room for it, and a        *)
(* correction is of a campaign that exists.                                *)
CommerceRows ==
    /\ rateCards \in Seq(Cards) /\ Len(rateCards) <= MaxCards
    /\ setter \in {AtCounter} \cup [at : {"create"}, card : Cards]
    /\ setter # AtCounter => Len(rateCards) < MaxCards
    /\ order \in {NoOrder} \cup Order
    /\ buyers \in [Buyers -> BuyerStates]
    /\ \A b \in Buyers : buyers[b].at = "update" => order # NoOrder
    /\ edits \in 0 .. MaxEdits
    /\ spend \in 0 .. MaxSpend
    /\ active \subseteq Inboxes
    /\ openings \in [Openings -> OpeningStates]
    /\ inbox \in [Inboxes -> Seq(BOOLEAN)]

(* That is more than the type invariant.                                   *)
LEMMA CommerceRowsTyped == CommerceRows => CommerceTypeOK
BY DEF CommerceRows, CommerceTypeOK, BuyerStates, OpeningStates

(* Nothing has been bought.                                                *)
LEMMA CommerceInitOK == CommerceInit => CommerceRows
<1> SUFFICES ASSUME CommerceInit PROVE CommerceRows
    OBVIOUS
<1>1. rateCards \in Seq(Cards) /\ Len(rateCards) <= MaxCards
    BY EmptySeq, CommerceAssumption DEF CommerceInit
<1>2. inbox \in [Inboxes -> Seq(BOOLEAN)]
    BY EmptySeq DEF CommerceInit
<1> QED
    BY <1>1, <1>2, CommerceAssumption
       DEF CommerceInit, CommerceRows, BuyerStates, OpeningStates, AtCounter

(* A requested distance and a card have a number for each zone.            *)
LEMMA RatesAreRates ==
    /\ Requested \subseteq Rates /\ Cards \subseteq Rates
    /\ CommerceRows => CurrentRates \in Rates
<1>1. Requested \subseteq Rates /\ Cards \subseteq Rates /\ DefaultCard \in Rates
    BY CommerceAssumption DEF Rates
<1>2. ASSUME CommerceRows, rateCards # << >> PROVE rateCards[Len(rateCards)] \in Cards
    <2>1. Len(rateCards) \in 1 .. Len(rateCards)
        BY <1>2, EmptySeq DEF CommerceRows
    <2>2. rateCards \in Seq(Cards)
        BY <1>2 DEF CommerceRows
    <2> QED
        BY <2>1, <2>2, ElementOfSeq
<1> QED
    BY <1>1, <1>2 DEF CurrentRates

(* A price is a budget.                                                    *)
LEMMA BudgetTyped ==
    ASSUME NEW km \in Rates, NEW rates \in Rates
    PROVE  ZoneBudgets(km, rates) \in Rates /\ Total(ZoneBudgets(km, rates)) \in Nat
<1>1. \A z \in Zones : km[z] \in Nat /\ rates[z] \in Nat
    BY DEF Rates
<1>2. \A z \in Zones : km[z] * rates[z] \in Nat
    BY <1>1
<1>3. ZoneBudgets(km, rates) \in Rates
    BY <1>2 DEF ZoneBudgets, Rates
<1>4. "prime" \in Zones /\ "secondary" \in Zones
    BY DEF Zones
<1>5. \A f \in Rates : Total(f) \in Nat
    BY <1>4 DEF Total, Rates
<1> QED
    BY <1>3, <1>5

(* The columns a correction writes.                                        *)
LEMMA WrittenTyped ==
    ASSUME NEW row \in Rates, NEW saw \in Rates, NEW new \in Rates
    PROVE  /\ Written(row, saw, new) \in Rates
           /\ row = saw => Written(row, saw, new) = new
BY DEF Written, Rates

-----------------------------------------------------------------------------
(* The steps of the rate cards.                                            *)
LEMMA CardStepOK ==
    ASSUME CommerceRows, CreateCard \/ \E card \in Cards : BeginCard(card)
    PROVE  CommerceRows'
<1>1. UNCHANGED <<order, buyers, edits, spend, active, openings, inbox>>
    BY DEF CreateCard, BeginCard
<1>2. CASE CreateCard
    <2>1. setter \in [at : {"create"}, card : Cards] /\ Len(rateCards) < MaxCards
        BY <1>2 DEF CreateCard, CommerceRows
    <2>2. rateCards' = Append(rateCards, setter.card) /\ setter' = AtCounter
        BY <1>2 DEF CreateCard
    <2>3. rateCards' \in Seq(Cards) /\ Len(rateCards') = Len(rateCards) + 1
        BY <2>1, <2>2, AppendProperties DEF CommerceRows
    <2>4. Len(rateCards') <= MaxCards
        BY <2>1, <2>3, CommerceAssumption DEF CommerceRows
    <2> QED
        BY <1>1, <2>2, <2>3, <2>4 DEF CommerceRows
<1>3. CASE \E card \in Cards : BeginCard(card)
    BY <1>1, <1>3 DEF BeginCard, CommerceRows
<1> QED
    BY <1>2, <1>3

(* A campaign that is bought or corrected is a campaign.                   *)
LEMMA OrderTyped ==
    ASSUME NEW row \in Order, NEW km \in Rates, NEW zones \in Rates, NEW budget \in Nat
    PROVE  /\ [row EXCEPT !.km = km, !.zones = zones, !.budget = budget] \in Order
           /\ [row EXCEPT !.km = km, !.zones = zones, !.budget = budget].km = km
           /\ [row EXCEPT !.km = km, !.zones = zones, !.budget = budget].zones = zones
           /\ [row EXCEPT !.km = km, !.zones = zones, !.budget = budget].budget = budget
           /\ [row EXCEPT !.km = km, !.zones = zones, !.budget = budget].rates = row.rates
           /\ [row EXCEPT !.km = km, !.zones = zones, !.budget = budget].status = row.status
BY DEF Order

(* What a buyer's steps do to the campaign.                                *)
LEMMA BuyerOrder ==
    ASSUME CommerceRows, NEW b \in Buyers, CreateOrder(b) \/ UpdateOrder(b)
    PROVE  order' \in Order
<1> DEFINE me == buyers[b]
           zones == ZoneBudgets(me.km, me.rates)
<1>1. me \in BuyerStates
    BY DEF CommerceRows
<1>2. CASE CreateOrder(b)
    <2>1. me.km \in Rates /\ me.rates \in Rates
        BY <1>1, <1>2, RatesAreRates DEF CreateOrder, BuyerStates, AtCounter
    <2>2. zones \in Rates /\ Total(zones) \in Nat
        BY <2>1, BudgetTyped
    <2> DEFINE new == [status |-> "PENDING_APPROVAL", rates |-> me.rates, km |-> me.km,
                       zones |-> zones, budget |-> Total(zones)]
    <2>3. new \in Order
        <3> HIDE DEF zones, me
        <3> QED
            BY <2>1, <2>2 DEF Order, OrderStatus
    <2>4. order' = IF order # NoOrder THEN order ELSE new
        BY <1>2 DEF CreateOrder
    <2> QED
        BY <2>3, <2>4 DEF CommerceRows
<1>3. CASE UpdateOrder(b)
    <2>1. me.km \in Rates /\ me.rates \in Rates /\ me.saw \in Order /\ me.at = "update"
        BY <1>1, <1>3, RatesAreRates DEF UpdateOrder, BuyerStates, AtCounter
    <2>2. zones \in Rates /\ Total(zones) \in Nat
        BY <2>1, BudgetTyped
    <2>3. order \in Order
        BY <2>1 DEF CommerceRows
    <2> DEFINE km == Written(order.km, me.saw.km, me.km)
               written == Written(order.zones, me.saw.zones, zones)
               budget == IF Total(zones) = me.saw.budget THEN order.budget ELSE Total(zones)
    <2>4. /\ order.km \in Rates /\ me.saw.km \in Rates /\ order.zones \in Rates
          /\ me.saw.zones \in Rates /\ order.budget \in Nat
        BY <2>1, <2>3 DEF Order
    <2>5. km \in Rates /\ written \in Rates
        BY <2>1, <2>2, <2>4, WrittenTyped
    <2>6. budget \in Nat
        BY <2>2, <2>4
    <2>7. order' = [order EXCEPT !.km = km, !.zones = written, !.budget = budget]
        BY <1>3 DEF UpdateOrder
    <2> HIDE DEF km, written, budget
    <2> QED
        BY <2>3, <2>5, <2>6, <2>7, OrderTyped
<1> QED
    BY <1>2, <1>3

(* The steps of the buyers.                                                *)
LEMMA BuyerStepOK ==
    ASSUME CommerceRows, NEW b \in Buyers,
           \/ \E km \in Requested : BeginCreate(b, km) \/ BeginEdit(b, km)
           \/ CreateOrder(b) \/ UpdateOrder(b)
    PROVE  CommerceRows'
<1>1. UNCHANGED <<rateCards, setter, spend, active, openings, inbox>>
    BY DEF BeginCreate, BeginEdit, CreateOrder, UpdateOrder
<1>2. ASSUME NEW km \in Requested, BeginCreate(b, km) PROVE CommerceRows'
    <2>1. [at |-> "create", km |-> km, rates |-> CurrentRates] \in BuyerStates
        BY RatesAreRates DEF BuyerStates
    <2>2. /\ UNCHANGED <<order, edits>>
          /\ buyers' = [buyers EXCEPT ![b] = [at |-> "create", km |-> km, rates |-> CurrentRates]]
        BY <1>2 DEF BeginCreate
    <2>3. \A c \in Buyers : buyers'[c].at = "update" => buyers'[c] = buyers[c]
        BY <2>2 DEF CommerceRows
    <2> QED
        BY <1>1, <2>1, <2>2, <2>3 DEF CommerceRows
<1>3. ASSUME NEW km \in Requested, BeginEdit(b, km) PROVE CommerceRows'
    <2> DEFINE me == [at |-> "update", km |-> km, rates |-> RatesOf(order), saw |-> order]
    <2>1. order \in Order
        BY <1>3 DEF BeginEdit, CommerceRows, NoOrder
    <2>2. me \in BuyerStates
        BY <2>1 DEF BuyerStates, RatesOf, Order
    <2>3. UNCHANGED order /\ buyers' = [buyers EXCEPT ![b] = me] /\ edits' \in 0 .. MaxEdits
        BY <1>3, CommerceAssumption DEF BeginEdit, CommerceRows
    <2>4. order # NoOrder
        BY <1>3 DEF BeginEdit, NoOrder
    <2> HIDE DEF me
    <2> QED
        BY <1>1, <2>2, <2>3, <2>4 DEF CommerceRows
<1>4. CASE CreateOrder(b) \/ UpdateOrder(b)
    <2>1. order' \in Order
        BY <1>4, BuyerOrder
    <2>2. order' # NoOrder
        BY <2>1 DEF Order, NoOrder, OrderStatus
    <2>3. buyers' = [buyers EXCEPT ![b] = AtCounter] /\ UNCHANGED edits
        BY <1>4 DEF CreateOrder, UpdateOrder
    <2> QED
        BY <1>1, <2>1, <2>2, <2>3 DEF CommerceRows, BuyerStates
<1> QED
    BY <1>2, <1>3, <1>4

(* The steps of the campaign, the spend and the inboxes.                   *)
LEMMA LifeStepOK ==
    ASSUME CommerceRows,
           OrderMoves \/ (\E z \in Zones : Drive(z)) \/ (\E i \in Inboxes : AccountMoves(i))
    PROVE  CommerceRows'
<1>1. CASE OrderMoves
    <2>1. /\ order \in Order
          /\ UNCHANGED <<rateCards, setter, buyers, edits, spend, active, openings, inbox>>
        BY <1>1 DEF OrderMoves, CommerceRows
    <2>2. order' \in Order
        BY <1>1, <2>1 DEF OrderMoves, Order, OrderStatus
    <2>3. order' # NoOrder
        BY <2>2 DEF Order, NoOrder, OrderStatus
    <2> QED
        BY <2>1, <2>2, <2>3 DEF CommerceRows
<1>2. ASSUME NEW z \in Zones, Drive(z) PROVE CommerceRows'
    <2>1. order \in Order
        BY <1>2 DEF Drive, CommerceRows
    <2>2. order.rates[z] \in Nat
        BY <2>1 DEF Order, Rates
    <2>3. spend' \in 0 .. MaxSpend
        BY <1>2, <2>2, CommerceAssumption DEF Drive, CommerceRows
    <2>4. UNCHANGED <<rateCards, setter, order, buyers, edits, active, openings, inbox>>
        BY <1>2 DEF Drive
    <2> QED
        BY <2>3, <2>4 DEF CommerceRows
<1>3. ASSUME NEW i \in Inboxes, AccountMoves(i) PROVE CommerceRows'
    BY <1>3 DEF AccountMoves, CommerceRows
<1> QED
    BY <1>1, <1>2, <1>3

(* An inbox is written to, or read.                                        *)
LEMMA InboxStep ==
    ASSUME CommerceRows,
           \/ \E o \in Openings : Warn(o)
           \/ \E i \in Inboxes : MarkAllRead(i) \/ \E n \in DOMAIN inbox[i] : MarkRead(i, n)
    PROVE  /\ inbox' \in [Inboxes -> Seq(BOOLEAN)]
           /\ \/ \A i \in Inboxes : Len(inbox'[i]) = Len(inbox[i])
              \/ \E o \in Openings : /\ Warn(o)
                                     /\ \A i \in Inboxes : Len(inbox'[i]) <= Len(inbox[i]) + 1
<1>1. inbox \in [Inboxes -> Seq(BOOLEAN)] /\ \A i \in Inboxes : inbox[i] \in Seq(BOOLEAN)
    BY DEF CommerceRows
<1>2. ASSUME NEW o \in Openings, Warn(o)
      PROVE  /\ inbox' \in [Inboxes -> Seq(BOOLEAN)]
             /\ \A i \in Inboxes : Len(inbox'[i]) <= Len(inbox[i]) + 1
    <2>1. \A i \in Inboxes : /\ Append(inbox[i], FALSE) \in Seq(BOOLEAN)
                             /\ Len(Append(inbox[i], FALSE)) = Len(inbox[i]) + 1
                             /\ Len(inbox[i]) \in Nat
        BY <1>1, AppendProperties
    <2>2. inbox' = [i \in Inboxes |-> IF i \in openings[o].to THEN Append(inbox[i], FALSE)
                                      ELSE inbox[i]]
        BY <1>2 DEF Warn
    <2>3. \A i \in Inboxes : inbox'[i] \in {Append(inbox[i], FALSE), inbox[i]}
        BY <2>2
    <2>4. inbox' \in [Inboxes -> Seq(BOOLEAN)]
        BY <1>1, <2>1, <2>2
    <2>5. \A i \in Inboxes : Len(inbox'[i]) <= Len(inbox[i]) + 1
        <3> SUFFICES ASSUME NEW i \in Inboxes PROVE Len(inbox'[i]) <= Len(inbox[i]) + 1
            OBVIOUS
        <3>1. CASE inbox'[i] = inbox[i]
            BY <2>1, <3>1
        <3>2. CASE inbox'[i] = Append(inbox[i], FALSE)
            BY <2>1, <3>2
        <3> QED
            BY <2>3, <3>1, <3>2
    <2> QED
        BY <2>4, <2>5
<1>3. ASSUME NEW i \in Inboxes, NEW s \in Seq(BOOLEAN), Len(s) = Len(inbox[i]),
             inbox' = [inbox EXCEPT ![i] = s]
      PROVE  /\ inbox' \in [Inboxes -> Seq(BOOLEAN)]
             /\ \A j \in Inboxes : Len(inbox'[j]) = Len(inbox[j])
    BY <1>1, <1>3
<1>4. ASSUME NEW i \in Inboxes, MarkAllRead(i)
      PROVE  /\ inbox' \in [Inboxes -> Seq(BOOLEAN)]
             /\ \A j \in Inboxes : Len(inbox'[j]) = Len(inbox[j])
    <2> DEFINE s == [n \in DOMAIN inbox[i] |-> TRUE]
    <2>1. DOMAIN inbox[i] = 1 .. Len(inbox[i]) /\ Len(inbox[i]) \in Nat
        BY <1>1
    <2>2. s \in [1 .. Len(inbox[i]) -> BOOLEAN]
        BY <2>1
    <2>3. s \in Seq(BOOLEAN) /\ Len(s) = Len(inbox[i])
        BY <2>1, <2>2, SeqDef, LenProperties
    <2>4. inbox' = [inbox EXCEPT ![i] = s]
        BY <1>1, <1>4 DEF MarkAllRead
    <2> HIDE DEF s
    <2> QED
        BY <1>3, <2>3, <2>4
<1>5. ASSUME NEW i \in Inboxes, NEW n \in DOMAIN inbox[i], MarkRead(i, n)
      PROVE  /\ inbox' \in [Inboxes -> Seq(BOOLEAN)]
             /\ \A j \in Inboxes : Len(inbox'[j]) = Len(inbox[j])
    <2> DEFINE s == [inbox[i] EXCEPT ![n] = TRUE]
    <2>1. n \in 1 .. Len(inbox[i])
        BY <1>1
    <2>2. s \in Seq(BOOLEAN) /\ Len(s) = Len(inbox[i])
        BY <1>1, <2>1, ExceptSeq
    <2>3. inbox' = [inbox EXCEPT ![i] = s]
        BY <1>1, <1>5 DEF MarkRead
    <2> HIDE DEF s
    <2> QED
        BY <1>3, <2>2, <2>3
<1> QED
    BY <1>2, <1>4, <1>5

(* The steps of an opening of the dashboard.                               *)
LEMMA WarningStepOK ==
    ASSUME CommerceRows,
           \/ \E i \in Inboxes : MarkAllRead(i) \/ \E n \in DOMAIN inbox[i] : MarkRead(i, n)
           \/ \E o \in Openings : OpenCampaign(o) \/ CheckStatus(o) \/ FindWarning(o)
                                     \/ ListUsers(o) \/ Warn(o) \/ WarnFails(o)
    PROVE  CommerceRows'
<1>1. UNCHANGED <<rateCards, setter, order, buyers, edits, spend, active>>
    BY DEF MarkAllRead, MarkRead, OpenCampaign, CheckStatus, FindWarning, ListUsers, Warn,
           WarnFails
<1>2. openings' \in [Openings -> OpeningStates]
    <2>1. openings \in [Openings -> OpeningStates] /\ active \in SUBSET Inboxes
        BY DEF CommerceRows
    <2>2. /\ AtCounter \in OpeningStates /\ [at |-> "insert", to |-> active] \in OpeningStates
          /\ \A step \in {"status", "find", "users"} : [at |-> step] \in OpeningStates
        BY <2>1 DEF OpeningStates
    <2>3. UNCHANGED openings
             \/ \E o \in Openings, x \in OpeningStates : openings' = [openings EXCEPT ![o] = x]
        BY <2>2 DEF MarkAllRead, MarkRead, OpenCampaign, CheckStatus, FindWarning, ListUsers,
                    Warn, WarnFails
    <2> QED
        BY <2>1, <2>3
<1>3. inbox' \in [Inboxes -> Seq(BOOLEAN)]
    <2>1. CASE UNCHANGED inbox
        BY <2>1 DEF CommerceRows
    <2>2. CASE ~UNCHANGED inbox
        BY <2>2, InboxStep DEF OpenCampaign, CheckStatus, FindWarning, ListUsers, WarnFails
    <2> QED
        BY <2>1, <2>2
<1> QED
    BY <1>1, <1>2, <1>3 DEF CommerceRows

(* Every step leaves rows of the tables.                                   *)
LEMMA CommerceStepOK == CommerceRows /\ [CommerceNext]_commerceVars => CommerceRows'
<1> SUFFICES ASSUME CommerceRows, [CommerceNext]_commerceVars PROVE CommerceRows'
    OBVIOUS
<1>1. CASE UNCHANGED commerceVars
    BY <1>1 DEF commerceVars, CommerceRows
<1>2. CASE CommerceNext
    BY <1>2, CardStepOK, BuyerStepOK, LifeStepOK, WarningStepOK DEF CommerceNext
<1> QED
    BY <1>1, <1>2

-----------------------------------------------------------------------------
(* One correction at a time.                                               *)
OneBuyer == \A b, c \in Buyers : b = c

(* A correction under way has seen what the campaign still is, but for its *)
(* status, and prices at the campaign's own rates.                         *)
SeenIsCurrent(b) ==
    buyers[b].at = "update" =>
        /\ buyers[b].rates = order.rates
        /\ buyers[b].saw.km = order.km
        /\ buyers[b].saw.zones = order.zones
        /\ buyers[b].saw.budget = order.budget

(* Inductive for one correction at a time.                                 *)
BudgetIInv == BudgetAtItsRates /\ \A b \in Buyers : SeenIsCurrent(b)

(* A correction prices what it has seen, which is what it writes over.     *)
LEMMA BudgetStep ==
    ASSUME OneBuyer, CommerceRows, BudgetIInv, [CommerceNext]_commerceVars PROVE BudgetIInv'
<1>1. CASE UNCHANGED <<order, buyers>>
    BY <1>1 DEF BudgetIInv, BudgetAtItsRates, SeenIsCurrent
<1>2. CASE OrderMoves
    <2>1. order \in Order /\ UNCHANGED buyers
        BY <1>2 DEF OrderMoves, CommerceRows
    <2>2. /\ order'.rates = order.rates /\ order'.km = order.km
          /\ order'.zones = order.zones /\ order'.budget = order.budget
        BY <1>2, <2>1 DEF OrderMoves, Order
    <2>3. order # NoOrder
        BY <1>2 DEF OrderMoves
    <2> QED
        BY <2>1, <2>2, <2>3 DEF BudgetIInv, BudgetAtItsRates, SeenIsCurrent
<1>3. ASSUME NEW b \in Buyers, NEW km \in Requested, BeginCreate(b, km) PROVE BudgetIInv'
    <2>1. UNCHANGED order /\ \A c \in Buyers : buyers'[c].at = "update" => buyers'[c] = buyers[c]
        BY <1>3 DEF BeginCreate, CommerceRows
    <2> QED
        BY <2>1 DEF BudgetIInv, BudgetAtItsRates, SeenIsCurrent
<1>4. ASSUME NEW b \in Buyers, NEW km \in Requested, BeginEdit(b, km) PROVE BudgetIInv'
    <2>1. /\ UNCHANGED order
          /\ buyers' = [buyers EXCEPT ![b] =
                [at |-> "update", km |-> km, rates |-> order.rates, saw |-> order]]
        BY <1>4 DEF BeginEdit, RatesOf
    <2>2. \A c \in Buyers : c = b
        BY DEF OneBuyer
    <2>3. buyers'[b] = [at |-> "update", km |-> km, rates |-> order.rates, saw |-> order]
        BY <2>1 DEF CommerceRows
    <2> QED
        BY <2>1, <2>2, <2>3 DEF BudgetIInv, BudgetAtItsRates, SeenIsCurrent
<1>5. ASSUME NEW b \in Buyers, CreateOrder(b) PROVE BudgetIInv'
    <2> DEFINE me == buyers[b]
               zones == ZoneBudgets(me.km, me.rates)
               new == [status |-> "PENDING_APPROVAL", rates |-> me.rates, km |-> me.km,
                       zones |-> zones, budget |-> Total(zones)]
    <2>1. /\ order' = IF order # NoOrder THEN order ELSE new
          /\ buyers' = [buyers EXCEPT ![b] = AtCounter]
        BY <1>5 DEF CreateOrder
    <2>2. \A c \in Buyers : buyers'[c].at # "update"
        BY <2>1 DEF OneBuyer, AtCounter, CommerceRows
    <2>3. new.zones = ZoneBudgets(new.km, new.rates) /\ new.budget = Total(new.zones)
        OBVIOUS
    <2> HIDE DEF new
    <2> QED
        BY <2>1, <2>2, <2>3 DEF BudgetIInv, BudgetAtItsRates, SeenIsCurrent
<1>6. ASSUME NEW b \in Buyers, UpdateOrder(b) PROVE BudgetIInv'
    <2> DEFINE me == buyers[b]
               zones == ZoneBudgets(me.km, me.rates)
    <2>1. /\ me.at = "update"
          /\ order' = [order EXCEPT
                !.km = Written(order.km, me.saw.km, me.km),
                !.zones = Written(order.zones, me.saw.zones, zones),
                !.budget = IF Total(zones) = me.saw.budget THEN @ ELSE Total(zones)]
          /\ buyers' = [buyers EXCEPT ![b] = AtCounter]
        BY <1>6 DEF UpdateOrder
    <2>2. order \in Order /\ me \in BuyerStates
        BY <2>1 DEF CommerceRows
    <2>3. /\ me.km \in Rates /\ me.rates \in Rates /\ order.km \in Rates /\ order.zones \in Rates
          /\ order.budget \in Nat
        BY <2>1, <2>2, RatesAreRates DEF BuyerStates, AtCounter, Order
    <2>4. zones \in Rates /\ Total(zones) \in Nat
        BY <2>3, BudgetTyped
    <2>5. /\ me.rates = order.rates /\ me.saw.km = order.km /\ me.saw.zones = order.zones
          /\ me.saw.budget = order.budget
        BY <2>1 DEF BudgetIInv, SeenIsCurrent
    <2>6. Written(order.km, me.saw.km, me.km) = me.km
        BY <2>3, <2>5, WrittenTyped
    <2>7. Written(order.zones, me.saw.zones, zones) = zones
        BY <2>3, <2>4, <2>5, WrittenTyped
    <2>8. order' = [order EXCEPT !.km = me.km, !.zones = zones, !.budget = Total(zones)]
        <3> DEFINE km == Written(order.km, me.saw.km, me.km)
                   written == Written(order.zones, me.saw.zones, zones)
                   budget == IF Total(zones) = me.saw.budget THEN order.budget ELSE Total(zones)
        <3>1. order' = [order EXCEPT !.km = km, !.zones = written, !.budget = budget]
            BY <2>1
        <3>2. km = me.km /\ written = zones
            BY <2>6, <2>7
        <3>3. budget = Total(zones)
            BY <2>5
        <3> HIDE DEF km, written, budget
        <3> QED
            BY <3>1, <3>2, <3>3
    <2> DEFINE total == Total(zones)
    <2> HIDE DEF zones, me, total
    <2>9. /\ order'.km = me.km /\ order'.zones = zones /\ order'.budget = Total(zones)
          /\ order'.rates = order.rates
        <3>1. order' = [order EXCEPT !.km = me.km, !.zones = zones, !.budget = total]
            BY <2>8 DEF total
        <3>2. order \in Order /\ me.km \in Rates /\ zones \in Rates /\ total \in Nat
            BY <2>2, <2>3, <2>4 DEF total
        <3>3. /\ order'.km = me.km /\ order'.zones = zones /\ order'.budget = total
              /\ order'.rates = order.rates
            BY <3>1, <3>2 DEF Order
        <3> QED
            BY <3>3 DEF total
    <2>10. BudgetAtItsRates'
        BY <2>5, <2>9 DEF BudgetAtItsRates, zones, me
    <2>11. \A c \in Buyers : buyers'[c].at # "update"
        BY <2>1 DEF OneBuyer, AtCounter, CommerceRows, me
    <2> QED
        BY <2>10, <2>11 DEF BudgetIInv, SeenIsCurrent
<1> QED
    BY <1>1, <1>2, <1>3, <1>4, <1>5, <1>6
       DEF CommerceNext, commerceVars, BeginCard, CreateCard, Drive, AccountMoves, MarkAllRead,
           MarkRead, OpenCampaign, CheckStatus, FindWarning, ListUsers, Warn, WarnFails

(* With one correction at a time, the budget of a campaign is what its     *)
(* kilometres cost at the rates it was bought at, whatever rate cards are  *)
(* set meanwhile (createCampaign, updateCampaign).                         *)
THEOREM BudgetHolds ==
    ASSUME OneBuyer PROVE CommerceSpec => []BudgetAtItsRates
<1> DEFINE IInv == CommerceRows /\ BudgetIInv
<1>1. CommerceInit => IInv
    BY CommerceInitOK DEF CommerceInit, BudgetIInv, BudgetAtItsRates, SeenIsCurrent, AtCounter
<1>2. IInv /\ [CommerceNext]_commerceVars => IInv'
    BY CommerceStepOK, BudgetStep
<1>3. IInv => BudgetAtItsRates
    BY DEF BudgetIInv
<1> QED
    BY <1>1, <1>2, <1>3, PTL DEF CommerceSpec

-----------------------------------------------------------------------------
(* One opening at a time.                                                  *)
OneOpening == \A o, p \in Openings : o = p

(* An opening that is about to warn has found that nobody was.             *)
WarnIInv ==
    /\ WarnedOnce
    /\ \A o \in Openings : openings[o].at \in {"users", "insert"} =>
          \A i \in Inboxes : inbox[i] = << >>

(* The check and the insert of one opening are not overtaken.              *)
LEMMA WarnStep ==
    ASSUME OneOpening, CommerceRows, WarnIInv, [CommerceNext]_commerceVars PROVE WarnIInv'
<1>0. /\ openings \in [Openings -> OpeningStates]
      /\ inbox \in [Inboxes -> Seq(BOOLEAN)] /\ \A i \in Inboxes : inbox[i] \in Seq(BOOLEAN)
    BY DEF CommerceRows
<1>1. CASE UNCHANGED <<openings, inbox>>
    BY <1>1 DEF WarnIInv, WarnedOnce
<1>2. ASSUME NEW i \in Inboxes,
             MarkAllRead(i) \/ \E n \in DOMAIN inbox[i] : MarkRead(i, n)
      PROVE  WarnIInv'
    <2>1. UNCHANGED openings
        BY <1>2 DEF MarkAllRead, MarkRead
    <2>2. inbox' \in [Inboxes -> Seq(BOOLEAN)]
        BY <1>2, InboxStep
    <2>3. \E n \in DOMAIN inbox[i] : ~inbox[i][n]
        BY <1>2 DEF MarkAllRead, MarkRead
    <2>4. inbox[i] # << >>
        BY <2>3
    <2>5. \A o \in Openings : openings[o].at \notin {"users", "insert"}
        BY <2>4 DEF WarnIInv
    <2>6. \A o \in Openings : ~Warn(o)
        BY <2>5 DEF Warn
    <2>7. \A j \in Inboxes : Len(inbox'[j]) = Len(inbox[j])
        BY <1>2, <2>6, InboxStep
    <2> QED
        BY <2>1, <2>5, <2>7 DEF WarnIInv, WarnedOnce
<1>3. ASSUME NEW o \in Openings, OpenCampaign(o) \/ CheckStatus(o) \/ WarnFails(o)
      PROVE  WarnIInv'
    <2>1. UNCHANGED inbox
        BY <1>3 DEF OpenCampaign, CheckStatus, WarnFails
    <2>2. openings'[o].at \notin {"users", "insert"}
        BY <1>0, <1>3 DEF OpenCampaign, CheckStatus, WarnFails, AtCounter
    <2> QED
        BY <2>1, <2>2 DEF OneOpening, WarnIInv, WarnedOnce
<1>4. ASSUME NEW o \in Openings, FindWarning(o) PROVE WarnIInv'
    <2>1. UNCHANGED inbox
        BY <1>4 DEF FindWarning
    <2>2. openings'[o].at = "users" => \A i \in Inboxes : inbox[i] = << >>
        BY <1>0, <1>4 DEF FindWarning, AlreadyWarned, AtCounter
    <2>3. openings'[o].at # "insert"
        BY <1>0, <1>4 DEF FindWarning, AtCounter
    <2> QED
        BY <2>1, <2>2, <2>3 DEF OneOpening, WarnIInv, WarnedOnce
<1>5. ASSUME NEW o \in Openings, ListUsers(o) PROVE WarnIInv'
    <2>1. UNCHANGED inbox /\ openings[o].at = "users"
        BY <1>5 DEF ListUsers
    <2>2. \A i \in Inboxes : inbox[i] = << >>
        BY <2>1 DEF WarnIInv
    <2> QED
        BY <2>1, <2>2 DEF WarnIInv, WarnedOnce
<1>6. ASSUME NEW o \in Openings, Warn(o) PROVE WarnIInv'
    <2>1. \A i \in Inboxes : Len(inbox[i]) = 0
        BY <1>6, EmptySeq DEF Warn, WarnIInv
    <2>2. inbox' \in [Inboxes -> Seq(BOOLEAN)]
        BY <1>6, InboxStep
    <2>3. \A i \in Inboxes : Len(inbox'[i]) <= 1
        BY <1>6, <2>1, InboxStep
    <2>4. openings'[o].at = "counter"
        BY <1>0, <1>6 DEF Warn, AtCounter
    <2> QED
        BY <2>3, <2>4 DEF OneOpening, WarnIInv, WarnedOnce
<1> QED
    BY <1>1, <1>2, <1>3, <1>4, <1>5, <1>6
       DEF CommerceNext, commerceVars, BeginCard, CreateCard, BeginCreate, BeginEdit,
           CreateOrder, UpdateOrder, OrderMoves, Drive, AccountMoves

(* With one opening of the list at a time, no inbox has the warning twice, *)
(* whoever was active before (maybeWarnBudgets looks first and inserts     *)
(* later).                                                                 *)
THEOREM WarnsOnce ==
    ASSUME OneOpening PROVE CommerceSpec => []WarnedOnce
<1> DEFINE IInv == CommerceRows /\ WarnIInv
<1>1. CommerceInit => IInv
    BY CommerceInitOK, EmptySeq DEF CommerceInit, WarnIInv, WarnedOnce, AtCounter
<1>2. IInv /\ [CommerceNext]_commerceVars => IInv'
    BY CommerceStepOK, WarnStep
<1>3. IInv => WarnedOnce
    BY DEF WarnIInv
<1> QED
    BY <1>1, <1>2, <1>3, PTL DEF CommerceSpec

(* Every row, and every copy a request holds, has its type, whatever       *)
(* buyers and openings overlap.                                            *)
THEOREM CommerceTyped == CommerceSpec => []CommerceTypeOK
<1>1. CommerceRows /\ [CommerceNext]_commerceVars => CommerceRows'
    BY CommerceStepOK
<1> QED
    BY <1>1, CommerceInitOK, CommerceRowsTyped, PTL DEF CommerceSpec
=============================================================================
