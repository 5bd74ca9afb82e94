------------------------------ MODULE Reports ------------------------------
(***************************************************************************)
(* The files an advertiser takes away (reports.service.ts): an export      *)
(* prices what has no figure yet, asks the ledger its several questions at *)
(* once, writes the file to the object store and only then the row that    *)
(* lists it; a row is downloaded until it expires. Phones go on uploading, *)
(* and the process may stop, between any two of these steps.               *)
(*                                                                         *)
(* A file is what its sections count: the parts of drives (the billable    *)
(* rows of trip_segments) each of them adds up, and the parts that had a   *)
(* figure. Rounding, the CSV and the HTML are left out, and sums too but   *)
(* for those that rank the days of the proof pack.                         *)
(***************************************************************************)
EXTENDS Integers, FiniteSets, FiniteSetsExt

CONSTANTS
    Parts,          \* the parts of drives that may be billed
    PartDay,        \* [Parts -> the day it started]
    PartKm,         \* [Parts -> its distance]
    PartAudience,   \* [Parts -> the impressions it is given once it is priced]
    Periods,        \* the periods asked for: [from, to : Int]
    MaxRange,       \* MAX_RANGE_DAYS
    MaxDetailRows,  \* MAX_DETAIL_ROWS
    SampleDays,     \* SAMPLE_DAYS
    ListLength,     \* how many rows listForAdvertiser reads
    Owners,         \* the advertisers that have exports; the campaign is Owner's
    Owner,
    Exporters,      \* exports that can be under way at once
    MaxExports      \* how many are asked for

ASSUME ReportsAssumption ==
    /\ PartDay \in [Parts -> Int] /\ {PartKm, PartAudience} \subseteq [Parts -> Nat]
    /\ Owner \in Owners
    /\ Periods \subseteq [from : Int, to : Int]
    /\ {MaxRange, MaxDetailRows, SampleDays, ListLength, MaxExports} \subseteq Nat

VARIABLES
    billedParts,    \* the parts that are billed
    figured,        \* those of them with a row in segment_impressions
    exports,        \* report_exports: [id -> a row]
    objects,        \* the object store: [id -> what is written under its key]
    exporters,      \* [Exporters -> a request]
    asked           \* how many exports there were: the last id given out

reportsVars == <<billedParts, figured, exports, objects, exporters, asked>>

Types == {"zone-summary", "billing-statement", "proof-pack", "vehicle-summary",
          "km-detail"}

(* The statements Promise.all has under way together, and the last one of  *)
(* each type: the vehicles, the details, the working of the sample days.   *)
Together == {"cover", "zones", "mix", "days", "pairs", "rows"}

Sections == [t \in Types |->
    CASE t = "zone-summary"      -> {"zones"}
      [] t = "billing-statement" -> {"cover", "zones"}
      [] t = "proof-pack"        -> Together \cup {"last"}
      [] OTHER                   -> {"last"}]

Idle == [at |-> "idle"]

NotWritten == [at |-> "missing"]

(* What one statement saw: the billed parts of its period, and the figures.*)
Answered == [km : SUBSET Parts, priced : SUBSET Parts]

NothingSeen == [km |-> {}, priced |-> {}]

File(type) == [Sections[type] -> Answered]

(* The days some of the parts were driven on.                              *)
DaysOf(parts) == {PartDay[p] : p \in parts}

(* Beside what it has still to read, an export has the sample days it has  *)
(* priced, and those it has worked.                                        *)
Request(type) ==
    [at : {"price", "read", "count", "last", "sample", "put", "meta", "create"},
     id : 1 .. MaxExports, type : {type}, period : Periods, since : SUBSET Parts,
     left : SUBSET (Sections[type] \ {"last"}), file : File(type),
     ready : SUBSET DaysOf(Parts), worked : SUBSET DaysOf(Parts)]

Export(type) == [owner : Owners, type : {type}, period : Periods, checksum : File(type),
                 since : SUBSET Parts, expired : BOOLEAN]

ReportsTypeOK ==
    /\ billedParts \subseteq Parts /\ figured \subseteq billedParts
    /\ asked \in 0 .. MaxExports
    /\ DOMAIN exports \subseteq 1 .. asked /\ DOMAIN objects = 1 .. MaxExports
    /\ \A id \in DOMAIN exports : exports[id] \in Export(exports[id].type)
    /\ \A id \in DOMAIN objects : objects[id].at \in {"missing", "bytes", "whole"}
    /\ \A e \in Exporters :
          exporters[e] = Idle \/ exporters[e] \in Request(exporters[e].type)

ReportsInit ==
    /\ billedParts = {} /\ figured = {}
    /\ exports = [id \in {} |-> NotWritten]
    /\ objects = [id \in 1 .. MaxExports |-> NotWritten]
    /\ exporters = [e \in Exporters |-> Idle]
    /\ asked = 0

-----------------------------------------------------------------------------
(* Faulty: what is not billed is priced as well.                           *)
PricedAhead == Parts

(* computeMissing prices what is billed, once and for all (Figures).       *)
Priced == billedParts

(* A part is billed (Ingest), the hourly job prices it.                    *)
Bill(p) ==
    /\ p \notin billedParts
    /\ billedParts' = billedParts \cup {p}
    /\ UNCHANGED <<figured, exports, objects, exporters, asked>>

PriceHourly ==
    /\ figured # Priced
    /\ figured' = Priced
    /\ UNCHANGED <<billedParts, exports, objects, exporters, asked>>

-----------------------------------------------------------------------------
(* An export.                                                              *)

(* RANGE: a part belongs to the day it started.                            *)
In(period) == {p \in Parts : PartDay[p] \in period.from .. period.to}

(* LEFT JOIN segment_impressions: a part without a figure is counted.      *)
SeenNow(parts) == [km |-> billedParts \cap parts, priced |-> figured \cap parts]

(* JOIN segment_impressions: it is not.                                    *)
PricedNow(parts) == [km |-> figured \cap parts, priced |-> figured \cap parts]

(* assertRange and loadOwned; nobody else's campaign is found.             *)
BeginExport(e, type, period) ==
    /\ exporters[e] = Idle
    /\ asked < MaxExports
    /\ period.from <= period.to /\ period.to - period.from < MaxRange
    /\ asked' = asked + 1
    /\ exporters' = [exporters EXCEPT ![e] =
          [at |-> "price", id |-> asked', type |-> type, period |-> period,
           since |-> billedParts \cap In(period), left |-> Sections[type] \ {"last"},
           file |-> [s \in Sections[type] |-> NothingSeen], ready |-> {}, worked |-> {}]]
    /\ UNCHANGED <<billedParts, figured, exports, objects>>

(* What is next when `left` is still unanswered.                           *)
AfterReads(me, left) ==
    IF left # {} THEN "read"
    ELSE IF me.type = "km-detail" THEN "count"
    ELSE IF me.type = "proof-pack" THEN "sample"
    ELSE IF "last" \in Sections[me.type] THEN "last" ELSE "put"

(* computeMissing, for the campaign.                                       *)
PriceFirst(e) ==
    /\ exporters[e].at = "price"
    /\ figured' = Priced
    /\ exporters' = [exporters EXCEPT ![e].at = AfterReads(exporters[e], exporters[e].left)]
    /\ UNCHANGED <<billedParts, exports, objects, asked>>

(* One of the statements of coverOf, zonesOf, visibilityOf is answered; an *)
(* answer the type's file has no section for is thrown away.               *)
Read(e, section) ==
    LET me == exporters[e]
        left == me.left \ {section}
    IN  /\ me.at = "read" /\ section \in me.left
        /\ exporters' = [exporters EXCEPT
              ![e].file[section] =
                  IF section = "mix" THEN PricedNow(In(me.period)) ELSE SeenNow(In(me.period)),
              ![e].left = left,
              ![e].at = AfterReads(me, left)]
        /\ UNCHANGED <<billedParts, figured, exports, objects, asked>>

(* detailOf's count: too many rows and the export is refused.              *)
CountRows(e) ==
    /\ exporters[e].at = "count"
    /\ exporters' = IF Cardinality(billedParts \cap In(exporters[e].period)) > MaxDetailRows
                    THEN [exporters EXCEPT ![e] = Idle]
                    ELSE [exporters EXCEPT ![e].at = "last"]
    /\ UNCHANGED <<billedParts, figured, exports, objects, asked>>

(* vehiclesOf and detailOf.                                                *)
ReadLast(e) ==
    /\ exporters[e].at = "last"
    /\ exporters' = [exporters EXCEPT ![e].file["last"] = SeenNow(In(exporters[e].period)),
                                      ![e].at = "put"]
    /\ UNCHANGED <<billedParts, figured, exports, objects, asked>>

(* The proof pack ends with a sample: the days that the table by day, which*)
(* was read before, has the most impressions for, the longer one where     *)
(* they are equal, and the earlier one where that is equal too.            *)
On(days) == {p \in Parts : PartDay[p] \in days}

Weigh(weight, parts) == MapThenSumSet(LAMBDA p : weight[p], parts)

Busier(table, day, other) ==
    LET audience(d) == Weigh(PartAudience, table.priced \cap On({d}))
        km(d) == Weigh(PartKm, table.km \cap On({d}))
    IN  \/ audience(day) > audience(other)
        \/ audience(day) = audience(other) /\ km(day) > km(other)
        \/ audience(day) = audience(other) /\ km(day) = km(other) /\ day < other

Busiest(table) ==
    LET days == DaysOf(table.km)
    IN  {day \in days : Cardinality({other \in days : Busier(table, other, day)}) < SampleDays}

(* forCampaignDay of each of them, side by side: it prices the campaign    *)
(* again ...                                                               *)
PriceDay(e, day) ==
    LET me == exporters[e]
    IN  /\ me.at = "sample" /\ day \in Busiest(me.file["days"]) \ me.ready
        /\ figured' = Priced
        /\ exporters' = [exporters EXCEPT ![e].ready = @ \cup {day}]
        /\ UNCHANGED <<billedParts, exports, objects, asked>>

(* Faulty: from the figures there were when the export began.              *)
WorksUnpriced(me, day) == day \in Busiest(me.file["days"]) \ me.worked

MayWork(me, day) == day \in me.ready \ me.worked

(* ... and then reads the day.                                             *)
WorkDay(e, day) ==
    LET me == exporters[e]
        seen == PricedNow(On({day}))
    IN  /\ me.at = "sample" /\ MayWork(me, day)
        /\ exporters' = [exporters EXCEPT
              ![e].file["last"] = [km |-> @.km \cup seen.km, priced |-> @.priced \cup seen.priced],
              ![e].worked = @ \cup {day}]
        /\ UNCHANGED <<billedParts, figured, exports, objects, asked>>

SampleDone(e) ==
    LET me == exporters[e]
    IN  /\ me.at = "sample" /\ me.worked = Busiest(me.file["days"])
        /\ exporters' = [exporters EXCEPT ![e].at = "put"]
        /\ UNCHANGED <<billedParts, figured, exports, objects, asked>>

(* LocalObjectStore.put writes the bytes, then the type beside them.       *)
PutBytes(e) ==
    LET me == exporters[e]
    IN  /\ me.at = "put"
        /\ objects' = [objects EXCEPT ![me.id] = [at |-> "bytes", bytes |-> me.file]]
        /\ exporters' = [exporters EXCEPT ![e].at = "meta"]
        /\ UNCHANGED <<billedParts, figured, exports, asked>>

PutMeta(e) ==
    LET me == exporters[e]
    IN  /\ me.at = "meta"
        /\ objects' = [objects EXCEPT ![me.id].at = "whole"]
        /\ exporters' = [exporters EXCEPT ![e].at = "create"]
        /\ UNCHANGED <<billedParts, figured, exports, asked>>

(* Faulty: the row is listed while the file is still being written.        *)
ListedEarly(me) == me.at \in {"meta", "create"}

(* The row may be written when the store has answered.                     *)
MayList(me) == me.at = "create"

CreateExport(e) ==
    LET me == exporters[e]
        row == [owner |-> Owner, type |-> me.type, period |-> me.period,
                checksum |-> me.file, since |-> me.since, expired |-> FALSE]
    IN  /\ MayList(me)
        /\ exports' = [id \in DOMAIN exports \cup {me.id} |->
                          IF id = me.id THEN row ELSE exports[id]]
        /\ exporters' = [exporters EXCEPT ![e] = Idle]
        /\ UNCHANGED <<billedParts, figured, objects, asked>>

(* The process stops, or the database or the store answers with an error.  *)
Abandon(e) ==
    /\ exporters[e] # Idle
    /\ exporters' = [exporters EXCEPT ![e] = Idle]
    /\ UNCHANGED <<billedParts, figured, exports, objects, asked>>

(* TTL_MS after it was made; the newest expires last.                      *)
Expire(id) ==
    /\ ~exports[id].expired
    /\ \A older \in DOMAIN exports : older < id => exports[older].expired
    /\ exports' = [exports EXCEPT ![id].expired = TRUE]
    /\ UNCHANGED <<billedParts, figured, objects, exporters, asked>>

-----------------------------------------------------------------------------
(* listForAdvertiser: the newest rows, without those that have expired.    *)
Listing(owner) ==
    {id \in DOMAIN exports :
        /\ exports[id].owner = owner /\ ~exports[id].expired
        /\ Cardinality({n \in DOMAIN exports : n > id /\ exports[n].owner = owner}) < ListLength}

(* downloadForAdvertiser: the object, or not found.                        *)
Opens(owner, id) ==
    /\ id \in DOMAIN exports
    /\ exports[id].owner = owner /\ ~exports[id].expired
    /\ objects[id].at = "whole"

ReportsNext ==
    \/ \E p \in Parts : Bill(p)
    \/ PriceHourly
    \/ \E id \in DOMAIN exports : Expire(id)
    \/ \E e \in Exporters :
          \/ \E type \in Types, period \in Periods : BeginExport(e, type, period)
          \/ PriceFirst(e) \/ \E section \in Together : Read(e, section)
          \/ CountRows(e) \/ ReadLast(e)
          \/ \E day \in DaysOf(Parts) : PriceDay(e, day) \/ WorkDay(e, day)
          \/ SampleDone(e)
          \/ PutBytes(e) \/ PutMeta(e) \/ CreateExport(e) \/ Abandon(e)

ReportsSpec == ReportsInit /\ [][ReportsNext]_reportsVars

-----------------------------------------------------------------------------
(* A sample counts the days it is of and no other one, and all that the    *)
(* table counted for them, priced.                                         *)
Works(sample, days, table) ==
    /\ DaysOf(sample.km) = days
    /\ table.km \cap On(days) \subseteq sample.km \cap sample.priced

(* Whatever stops on the way, every export an advertiser is shown opens,   *)
(* to the file its checksum was taken of. Each section of that file counts *)
(* every part of its period that was billed when the export was asked for, *)
(* priced; but for the sample-day workings of the proof pack, which are of *)
(* "the busiest days in the period" alone. Those are the busiest by the    *)
(* table by day of the same file, and the workings of such a day leave out *)
(* nothing that table has counted for it. Parts billed meanwhile may be in *)
(* one section and not in another: the statements of an export are not one *)
(* snapshot, and a sample read later can count more than the table.        *)
ListedReportIsWhole ==
    \A owner \in Owners : \A id \in Listing(owner) :
        LET row == exports[id]
        IN  /\ Opens(owner, id)
            /\ objects[id].bytes = row.checksum
            /\ \A s \in Sections[row.type] :
                  IF row.type = "proof-pack" /\ s = "last"
                  THEN Works(row.checksum[s], Busiest(row.checksum["days"]), row.checksum["days"])
                  ELSE row.since \subseteq row.checksum[s].km \cap row.checksum[s].priced
=============================================================================
