------------------------------- MODULE Figures ------------------------------
(***************************************************************************)
(* The audience of a billed kilometre: computeMissing and the reads of     *)
(* impressions.service.ts that call it first, the baselines it measures    *)
(* against (traffic.service.ts), and the worker that runs both every night *)
(* from two queues (worker.ts, queues.ts, lifecycle.ts).                   *)
(*                                                                         *)
(* A baseline is known by the segments behind it and a figure by the rung  *)
(* of the ladder it was measured from: the traffic and impression formulas *)
(* are left out, being functions of these.                                 *)
(***************************************************************************)
EXTENDS Integers, FiniteSets

CONSTANTS
    Drivings,       \* the segments that will be billed, as numbers in time order
    CellOf, HourOf, \* [Drivings -> the map cell and hour of the week]
    Bridging,       \* the ones that bridge a discarded fix
    MinSamples,     \* MIN_SAMPLES
    BatchSize,      \* BATCH_SIZE
    Readers,        \* advertisers' requests that can be under way at once
    MaxTries,       \* attempts of a job
    MaxFaults       \* how many jobs and processes fail in a behaviour

ComputeJob == "impressions.compute"

RecomputeJob == "traffic.baselines.recompute"

Jobs == {ComputeJob, RecomputeJob}

(* Whatever calls computeMissing: the job, or a request.                   *)
Runs == Readers \cup {ComputeJob}

ASSUME FiguresAssumption ==
    /\ IsFiniteSet(Drivings) /\ Drivings \subseteq Nat
    /\ Bridging \subseteq Drivings
    /\ MinSamples \in Nat \ {0} /\ BatchSize \in Nat \ {0}
    /\ MaxTries \in Nat \ {0} /\ MaxFaults \in Nat
    /\ Readers \cap Jobs = {}

VARIABLES
    billed,     \* the BILLABLE segments so far
    figure,     \* [Drivings -> segment_impressions at the current version]
    baselines,  \* speed_baselines: the segments behind its two kinds of rows
    recompute,  \* the transaction of recomputeBaselines
    runs,       \* [Runs -> a call of computeMissing]
    queue,      \* [Jobs -> [at, tries]]
    process,    \* how far the worker process has closed down
    faults

figuresVars == <<billed, figure, baselines, recompute, runs, queue, process, faults>>

NoFigure == [source |-> "none", samples |-> 0]

Sources == {"CELL_HOUR", "CELL", "ZONE_DEFAULT"}

FigureRow == [source : Sources, samples : Nat]

Table == [hours : SUBSET Drivings, cells : SUBSET Drivings]

NoRun == [at |-> "idle"]

FiguresTypeOK ==
    /\ billed \subseteq Drivings
    /\ figure \in [Drivings -> FigureRow \cup {NoFigure}]
    /\ baselines \in Table
    /\ recompute \in [at : {"idle", "hours", "cells", "enqueue"}, own : Table]
    /\ \A r \in Runs :
          runs[r] \in {NoRun} \cup
              [at : {"pending", "load", "store", "done"}, asked : SUBSET Drivings,
               batch : SUBSET Drivings, saw : Table]
    /\ queue \in [Jobs -> [at : {"none", "waiting", "active"}, tries : 0 .. MaxTries]]
    /\ process \in {"up", "redis", "database", "down"}
    /\ faults \in 0 .. MaxFaults

Nothing == [hours |-> {}, cells |-> {}]

FiguresInit ==
    /\ billed = {}
    /\ figure = [s \in Drivings |-> NoFigure]
    /\ baselines = Nothing
    /\ recompute = [at |-> "idle", own |-> Nothing]
    /\ runs = [r \in Runs |-> NoRun]
    /\ queue = [j \in Jobs |-> [at |-> "none", tries |-> 0]]
    /\ process = "up"
    /\ faults = 0

-----------------------------------------------------------------------------
(* resolveBaseline: the most specific reading with enough behind it.       *)
Samples(S, s, hourly) ==
    Cardinality({o \in S : CellOf[o] = CellOf[s] /\ (hourly => HourOf[o] = HourOf[s])})

Resolve(table, s) ==
    IF Samples(table.hours, s, TRUE) >= MinSamples
    THEN [source |-> "CELL_HOUR", samples |-> Samples(table.hours, s, TRUE)]
    ELSE IF Samples(table.cells, s, FALSE) >= MinSamples
    THEN [source |-> "CELL", samples |-> Samples(table.cells, s, FALSE)]
    ELSE [source |-> "ZONE_DEFAULT", samples |-> 0]

(* PENDING: billable, without a figure, the earliest first, up to a batch. *)
Missing == {s \in billed : figure[s] = NoFigure}

FirstBatch == {s \in Missing : Cardinality({o \in Missing : o < s}) < BatchSize}

DatabaseOpen == process \in {"up", "redis"}

(* A request runs in the API's process, a job in the worker's.             *)
CanQuery(r) == r \in Jobs => DatabaseOpen

-----------------------------------------------------------------------------
(* computeMissing.                                                         *)

(* Ingest has the orders uploads may come in; here they come in time order.*)
BillOne(s) ==
    /\ s \notin billed /\ \A o \in Drivings : o < s => o \in billed
    /\ billed' = billed \cup {s}
    /\ UNCHANGED <<figure, baselines, recompute, runs, queue, process, faults>>

StartRun == [at |-> "pending", asked |-> {}, batch |-> {}, saw |-> Nothing]

(* asked is history: what was billed when the request was made.            *)
AskFigures(r) ==
    /\ r \in Readers /\ runs[r] = NoRun
    /\ runs' = [runs EXCEPT ![r] = [StartRun EXCEPT !.asked = billed]]
    /\ UNCHANGED <<billed, figure, baselines, recompute, queue, process, faults>>

ReadPending(r) ==
    /\ runs[r].at = "pending" /\ CanQuery(r)
    /\ runs' = [runs EXCEPT ![r].batch = FirstBatch,
                            ![r].at = IF FirstBatch = {} THEN "done" ELSE "load"]
    /\ UNCHANGED <<billed, figure, baselines, recompute, queue, process, faults>>

LoadBaselines(r) ==
    /\ runs[r].at = "load" /\ CanQuery(r)
    /\ runs' = [runs EXCEPT ![r].saw = baselines, ![r].at = "store"]
    /\ UNCHANGED <<billed, figure, baselines, recompute, queue, process, faults>>

(* Faulty: an upsert, and the later of two runs wins.                      *)
StoredOver(r) ==
    [s \in Drivings |-> IF s \in runs[r].batch THEN Resolve(runs[r].saw, s) ELSE figure[s]]

(* bulkCreate with ignoreDuplicates: the row that was there first stays.   *)
Stored(r) ==
    [s \in Drivings |-> IF s \in runs[r].batch /\ figure[s] = NoFigure
                        THEN Resolve(runs[r].saw, s) ELSE figure[s]]

(* Faulty: one batch and no more.                                          *)
OneBatch(r) == "done"

(* A short batch was the last.                                             *)
AfterBatch(r) == IF Cardinality(runs[r].batch) < BatchSize THEN "done" ELSE "pending"

StoreFigures(r) ==
    /\ runs[r].at = "store" /\ CanQuery(r)
    /\ figure' = Stored(r)
    /\ runs' = [runs EXCEPT ![r] = [@ EXCEPT !.at = AfterBatch(r), !.batch = {},
                                             !.saw = Nothing]]
    /\ UNCHANGED <<billed, baselines, recompute, queue, process, faults>>

(* forCampaign and the others then read the rows back and answer.          *)
AnswerFigures(r) ==
    /\ r \in Readers /\ runs[r].at = "done"
    /\ runs' = [runs EXCEPT ![r] = NoRun]
    /\ UNCHANGED <<billed, figure, baselines, recompute, queue, process, faults>>

-----------------------------------------------------------------------------
(* recomputeBaselines: in one transaction the table is emptied and then    *)
(* filled by two statements, each of which sees what is committed when it  *)
(* runs.                                                                   *)

Observed == billed \ Bridging

RecomputeHours ==
    /\ recompute.at = "hours" /\ DatabaseOpen
    /\ recompute' = [at |-> "cells", own |-> [recompute.own EXCEPT !.hours = Observed]]
    /\ UNCHANGED <<billed, figure, baselines, runs, queue, process, faults>>

RecomputeCells ==
    /\ recompute.at = "cells" /\ DatabaseOpen
    /\ recompute' = [at |-> "enqueue", own |-> Nothing]
    /\ baselines' = [recompute.own EXCEPT !.cells = Observed]
    /\ UNCHANGED <<billed, figure, runs, queue, process, faults>>

-----------------------------------------------------------------------------
(* The queues and the worker.                                              *)

NoJob == [at |-> "none", tries |-> 0]

(* Faulty: the baselines are rebuilt and nobody measures against them.     *)
NothingQueued == [queue EXCEPT ![RecomputeJob] = NoJob]

ComputeQueued ==
    [queue EXCEPT ![RecomputeJob] = NoJob,
                  ![ComputeJob].at = IF @ = "none" THEN "waiting" ELSE @]

(* The night's job, made by the scheduler in Redis.                        *)
Night ==
    /\ queue[RecomputeJob].at = "none"
    /\ queue' = [queue EXCEPT ![RecomputeJob].at = "waiting"]
    /\ UNCHANGED <<billed, figure, baselines, recompute, runs, process, faults>>

TakeRecompute ==
    /\ process = "up" /\ queue[RecomputeJob].at = "waiting"
    /\ queue' = [queue EXCEPT ![RecomputeJob] = [at |-> "active", tries |-> @.tries + 1]]
    /\ recompute' = [at |-> "hours", own |-> Nothing]
    /\ UNCHANGED <<billed, figure, baselines, runs, process, faults>>

(* The last line of the processor: add the compute job, and be done.       *)
FinishRecompute ==
    /\ process = "up" /\ recompute.at = "enqueue"
    /\ queue' = ComputeQueued
    /\ recompute' = [at |-> "idle", own |-> Nothing]
    /\ UNCHANGED <<billed, figure, baselines, runs, process, faults>>

TakeCompute ==
    /\ process = "up" /\ queue[ComputeJob].at = "waiting"
    /\ queue' = [queue EXCEPT ![ComputeJob] = [at |-> "active", tries |-> @.tries + 1]]
    /\ runs' = [runs EXCEPT ![ComputeJob] = StartRun]
    /\ UNCHANGED <<billed, figure, baselines, recompute, process, faults>>

FinishCompute ==
    /\ process = "up" /\ runs[ComputeJob].at = "done"
    /\ queue' = [queue EXCEPT ![ComputeJob] = NoJob]
    /\ runs' = [runs EXCEPT ![ComputeJob] = NoRun]
    /\ UNCHANGED <<billed, figure, baselines, recompute, process, faults>>

(* A job that fails, or whose process ends under it, is tried again until  *)
(* its attempts run out; its transaction is gone.                          *)
Retried(j) ==
    IF queue[j].at # "active" THEN queue[j]
    ELSE IF queue[j].tries < MaxTries THEN [queue[j] EXCEPT !.at = "waiting"] ELSE NoJob

JobFails(j) ==
    /\ queue[j].at = "active" /\ process = "up"
    /\ faults < MaxFaults
    /\ faults' = faults + 1
    /\ queue' = [queue EXCEPT ![j] = Retried(j)]
    /\ IF j = ComputeJob
       THEN runs' = [runs EXCEPT ![j] = NoRun] /\ UNCHANGED recompute
       ELSE recompute' = [at |-> "idle", own |-> Nothing] /\ UNCHANGED runs
    /\ UNCHANGED <<billed, figure, baselines, process>>

(* shutdown runs its tasks "last opened, first closed": redis, database,   *)
(* queues and then workers, which waits for the jobs.                      *)
CloseOrder == <<"up", "redis", "database">>

CloseNext ==
    /\ \E i \in 1 .. 2 :
          /\ process = CloseOrder[i]
          /\ process = "up" => faults < MaxFaults
          /\ faults' = IF process = "up" THEN faults + 1 ELSE faults
          /\ process' = CloseOrder[i + 1]
    /\ UNCHANGED <<billed, figure, baselines, recompute, runs, queue>>

(* The queues and the workers are closed, or the timeout forces the exit;  *)
(* without Redis no job could report its end.                              *)
Exit ==
    /\ process = "database"
    /\ process' = "down"
    /\ queue' = [j \in Jobs |-> Retried(j)]
    /\ runs' = [runs EXCEPT ![ComputeJob] = NoRun]
    /\ recompute' = [at |-> "idle", own |-> Nothing]
    /\ UNCHANGED <<billed, figure, baselines, faults>>

Restart ==
    /\ process = "down"
    /\ process' = "up"
    /\ UNCHANGED <<billed, figure, baselines, recompute, runs, queue, faults>>

-----------------------------------------------------------------------------
RecomputeStep == RecomputeHours \/ RecomputeCells \/ FinishRecompute

RunStep(r) == ReadPending(r) \/ LoadBaselines(r) \/ StoreFigures(r)

FiguresNext ==
    \/ \E s \in Drivings : BillOne(s)
    \/ \E r \in Runs : AskFigures(r) \/ RunStep(r) \/ AnswerFigures(r)
    \/ RecomputeStep
    \/ Night
    \/ TakeRecompute \/ TakeCompute \/ FinishCompute
    \/ \E j \in Jobs : JobFails(j)
    \/ CloseNext \/ Exit \/ Restart

(* The scheduler fires every night, the orchestrator restarts a worker     *)
(* that went down, and a worker that is up works through its queues. No    *)
(* advertiser has to ask.                                                  *)
FiguresFairness ==
    /\ WF_figuresVars(Night)
    /\ WF_figuresVars(TakeRecompute \/ RecomputeStep)
    /\ WF_figuresVars(TakeCompute \/ RunStep(ComputeJob) \/ FinishCompute)
    /\ WF_figuresVars((process # "up" /\ CloseNext) \/ Exit \/ Restart)

FiguresSpec == FiguresInit /\ [][FiguresNext]_figuresVars /\ FiguresFairness

-----------------------------------------------------------------------------
(* Properties.                                                             *)

(* A figure that was told to an advertiser stays, whoever computes again:  *)
(* a request and the job overlap, and the baselines move between them.     *)
(* "keeps a campaign's reported numbers stable" (worker.ts).               *)
FigureIsFinal ==
    [][\A s \in Drivings : figure[s] # NoFigure => figure'[s] = figure[s]]_figuresVars

(* When a request answers, every kilometre that was billed when it was     *)
(* made has its audience, however the batches of several runs overlapped:  *)
(* otherwise a list "would show verified kilometres and a literal zero     *)
(* audience" (campaignTotalsFor).                                          *)
AnswerIsComplete ==
    \A r \in Readers : runs[r].at = "done" => \A s \in runs[r].asked : figure[s] # NoFigure

(* "Give every billable segment an audience": again and again nothing that *)
(* was billed is without one, though no advertiser looks, and though jobs  *)
(* fail and the worker is shut down under them.                            *)
EveryBilledGetsAFigure == []<>(\A s \in billed : figure[s] # NoFigure)
=============================================================================
