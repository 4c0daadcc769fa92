----------------------------- MODULE TimeSeries -----------------------------
(***************************************************************************)
(* One time series table of time_series/: partitions, time index, running  *)
(* aggregates and the retention thread.  A batch is written record by      *)
(* record, each under the lock of the partitions, so that the retention    *)
(* threads run between two records of a batch; a second writer cannot, as  *)
(* every write takes &mut self.                                            *)
(*                                                                         *)
(* A record is a time, a value and its number of tags.  The values of the  *)
(* aggregates are stored times SrScale, so that the halves of "avg" are    *)
(* whole numbers.  The transaction is present as far as it decides what a  *)
(* write does: nothing of a time series table is undone by a rollback.     *)
(***************************************************************************)
EXTENDS Integers, Sequences
LOCAL INSTANCE SequencesExt
LOCAL INSTANCE FiniteSetsExt

CONSTANTS SrRecords,      \* records: [t, v, tag]
          SrDuration,     \* partition_duration_secs
          SrRetention,    \* retention_period_secs
          SrMaxParts,     \* max_partitions
          SrSecond,       \* what the aggregates take for a second, 10^9
          SrAggregations, \* configurations of aggregates: [interval, agg]
          SrClocks,       \* what get_current_timestamp returns
          SrMaxWrites     \* bound on records written

VARIABLES srParts,     \* partitions in the order of their creation
          srIndex,     \* time_index: the positions pushed, by time
          srConfigs,   \* pre_aggregation.configs
          srData,      \* pre_aggregation.data
          srTx,        \* "none", "open", or "left" by a SQL INSERT
          srBatch,     \* the write in progress: its path and what is left
          srWritten,   \* records written so far
          srFed        \* records that went through the aggregates

srVars == <<srParts, srIndex, srConfigs, srData, srTx, srBatch, srWritten, srFed>>

SrScale == 2 ^ SrMaxWrites
SrIdle == [path |-> "none", rest |-> <<>>, done |-> 0]
SrTimes == {r.t : r \in SrRecords}

SrInit ==
  /\ srParts = <<>>
  /\ srIndex = [t \in SrTimes |-> <<>>]
  /\ srConfigs = <<>> /\ srData = <<>>
  /\ srTx = "none" /\ srBatch = SrIdle
  /\ srWritten = <<>> /\ srFed = <<>>

(***************************************************************************)
(* PartitionManager                                                        *)
(***************************************************************************)
StartOf(t) == (t \div SrDuration) * SrDuration
NewPart(t) == [start |-> StartOf(t), end |-> StartOf(t) + SrDuration, recs |-> <<>>]

\* Mutant: the newest partition goes.
GrownNewest(parts, t) ==
  IF \E i \in DOMAIN parts : parts[i].start = StartOf(t) THEN parts
  ELSE IF Len(parts) = SrMaxParts
       THEN Append(SubSeq(parts, 1, Len(parts) - 1), NewPart(t))
       ELSE Append(parts, NewPart(t))

\* get_or_create_partition: the partition that was created first goes when
\* there are too many, whatever the times it holds.
Grown(parts, t) ==
  IF \E i \in DOMAIN parts : parts[i].start = StartOf(t) THEN parts
  ELSE LET all == Append(parts, NewPart(t))
       IN  IF Len(all) > SrMaxParts THEN Tail(all) ELSE all

\* The partition keeps a record even when it is no longer in the list.
Pushed(parts, r) ==
  [i \in DOMAIN parts |->
     IF parts[i].start = StartOf(r.t)
     THEN [parts[i] EXCEPT !.recs = Append(@, r)] ELSE parts[i]]

Overlaps(p, from, to) == p.start <= to /\ p.end >= from

\* Mutant: a partition that starts at the end of the range is left out.
PartsInRangeOpen(from, to) ==
  SelectSeq(srParts, LAMBDA p : p.start < to /\ p.end >= from)

PartsInRange(from, to) == SelectSeq(srParts, LAMBDA p : Overlaps(p, from, to))

QueryTimeRange(from, to) ==
  LET parts == PartsInRange(from, to)
  IN  SelectSeq(FlattenSeq([i \in DOMAIN parts |-> parts[i].recs]),
                LAMBDA r : from <= r.t /\ r.t <= to)

\* cleanup_expired_partitions; the subtraction wraps when the clock is below
\* the retention period, and then no partition is young enough.
Retained(parts, now) ==
  SelectSeq(parts, LAMBDA p : now >= SrRetention /\ p.end > now - SrRetention)

(***************************************************************************)
(* update_pre_aggregations.  All configurations share one map.             *)
(***************************************************************************)
Bucket(t, interval) == t \div (interval * SrSecond)

Stored(data, key, default) == IF key \in DOMAIN data THEN data[key] ELSE default

Combined(agg, data, key, v) ==
  CASE agg = "avg" -> (Stored(data, key, 0) + v) \div 2
    [] agg = "sum" -> Stored(data, key, 0) + v
    [] agg = "min" -> IF Stored(data, key, v) < v THEN data[key] ELSE v
    [] agg = "max" -> IF Stored(data, key, v) > v THEN data[key] ELSE v

Fed(configs, data, r) ==
  LET put(d, c) ==
        LET key == <<Bucket(r.t, c.interval), r.tag>>
            new == Combined(c.agg, d, key, r.v * SrScale)
        IN  [k \in DOMAIN d \cup {key} |-> IF k = key THEN new ELSE d[k]]
  IN  FoldLeft(put, data, configs)

QueryPreAggregated(from, to, c) ==
  {[t |-> k[1] * c.interval * SrSecond, v |-> srData[k]] :
     k \in {k \in DOMAIN srData : k[1] \in Bucket(from, c.interval) .. Bucket(to, c.interval)}}

SrAddConfig(c) ==
  /\ srBatch = SrIdle
  /\ \A i \in DOMAIN srConfigs : srConfigs[i] # c
  /\ srConfigs' = Append(srConfigs, c)
  /\ UNCHANGED <<srParts, srIndex, srData, srTx, srBatch, srWritten, srFed>>

(***************************************************************************)
(* Writes.  "direct" is batch_write, "tx" write_timeseries_batch in a      *)
(* transaction, "plain" the same call of RemDb without one, and "sql" a    *)
(* SQL INSERT, which begins a transaction on its stack and never ends it.  *)
(***************************************************************************)
SrBatchBegin(path, batch) ==
  /\ srBatch = SrIdle
  /\ Len(srWritten) + Len(batch) <= SrMaxWrites
  /\ CASE path = "tx" -> srTx # "none"
       [] path = "plain" -> srTx = "none"
       [] OTHER -> TRUE
  /\ srBatch' = [path |-> path, rest |-> batch, done |-> 0]
  /\ srTx' = IF path = "sql" /\ srTx = "none" THEN "left" ELSE srTx
  /\ UNCHANGED <<srParts, srIndex, srConfigs, srData,
                 srWritten, srFed>>

SrWriteRecord ==
  LET r == Head(srBatch.rest)
      fed == srBatch.path \in {"direct", "tx"}
  IN  /\ srBatch.rest # <<>>
      /\ srParts' = Pushed(Grown(srParts, r.t), r)
      /\ srIndex' = [srIndex EXCEPT ![r.t] = Append(@, srBatch.done)]
      /\ srData' = IF fed THEN Fed(srConfigs, srData, r) ELSE srData
      /\ srFed' = IF fed /\ srConfigs # <<>> THEN Append(srFed, r) ELSE srFed
      /\ srWritten' = Append(srWritten, r)
      /\ srBatch' = IF Len(srBatch.rest) = 1 THEN SrIdle
                    ELSE [srBatch EXCEPT !.rest = Tail(@), !.done = @ + 1]
      /\ UNCHANGED <<srConfigs, srTx>>

\* A row of a SQL INSERT with a value of the wrong type ends the statement;
\* the rows before it stay.
SrSqlError ==
  /\ srBatch.path = "sql"
  /\ srBatch' = SrIdle
  /\ UNCHANGED <<srParts, srIndex, srConfigs, srData, srTx, srWritten, srFed>>

SrTxBegin ==
  /\ srBatch = SrIdle /\ srTx = "none"
  /\ srTx' = "open"
  /\ UNCHANGED <<srParts, srIndex, srConfigs, srData, srBatch, srWritten, srFed>>

\* Commit or rollback.  The transaction a SQL INSERT left is a dangling
\* pointer: ending it may have any outcome.
SrTxEnd ==
  /\ srBatch = SrIdle /\ srTx # "none"
  /\ srTx' \in IF srTx = "left" THEN {"none", "left"} ELSE {"none"}
  /\ UNCHANGED <<srParts, srIndex, srConfigs, srData, srBatch, srWritten, srFed>>

(***************************************************************************)
(* TimeSeriesIndex, which nothing in the table reads, and LifecycleManager *)
(***************************************************************************)
SrTimeOrder == SetToSortSeq(SrTimes, <)

IndexTimeRange(from, to) ==
  LET times == SelectSeq(SrTimeOrder, LAMBDA t : from <= t /\ t <= to)
  IN  FlattenSeq([i \in DOMAIN times |-> srIndex[times[i]]])

\* One turn of a retention thread, or a call of cleanup: the same callback.
\* start and stop decide whether and how many threads call it, and since
\* anyone may call cleanup, it may be taken at any time.
SrCleanup(now) ==
  /\ srParts' = Retained(srParts, now)
  /\ UNCHANGED <<srIndex, srConfigs, srData, srTx, srBatch, srWritten, srFed>>

SrNext ==
  \/ \E c \in SrAggregations : SrAddConfig(c)
  \/ \E path \in {"direct", "tx", "plain", "sql"} :
       \E batch \in BoundedSeq(SrRecords, 2) \ {<<>>} : SrBatchBegin(path, batch)
  \/ SrWriteRecord \/ SrSqlError \/ SrTxBegin \/ SrTxEnd
  \/ \E now \in SrClocks : SrCleanup(now)

SrSpec == SrInit /\ [][SrNext]_srVars

(***************************************************************************)
(* What the table keeps                                                    *)
(***************************************************************************)
\* Every record is in the one partition of its time, within the limit.
SrPartitioned ==
  /\ Len(srParts) <= SrMaxParts
  /\ \A i, j \in DOMAIN srParts : srParts[i].start = srParts[j].start => i = j
  /\ \A i \in DOMAIN srParts : \A k \in DOMAIN srParts[i].recs :
        StartOf(srParts[i].recs[k].t) = srParts[i].start

\* With one configuration, and that not "avg", every aggregate is that of the
\* records that went through update_pre_aggregations, and a query at the time
\* of any of them answers with the bucket it falls into.
Of(key, c) == SelectSeq(srFed, LAMBDA r : <<Bucket(r.t, c.interval), r.tag>> = key)

SrAggregatesExact ==
  Len(srConfigs) = 1 /\ srConfigs[1].agg # "avg" =>
    LET c == srConfigs[1]
    IN  /\ DOMAIN srData = {<<Bucket(srFed[i].t, c.interval), srFed[i].tag>> :
                              i \in DOMAIN srFed}
        /\ \A i \in DOMAIN srFed :
             \E row \in QueryPreAggregated(srFed[i].t, srFed[i].t, c) :
                row.t <= srFed[i].t /\ srFed[i].t < row.t + c.interval * SrSecond
        /\ \A key \in DOMAIN srData :
             LET in == Of(key, c)
                 vals == {in[i].v * SrScale : i \in DOMAIN in}
             IN  CASE c.agg = "sum" ->
                        srData[key] = FoldLeft(LAMBDA a, r : a + r.v * SrScale, 0, in)
                   [] c.agg = "min" ->
                        srData[key] \in vals /\ \A v \in vals : srData[key] <= v
                   [] c.agg = "max" ->
                        srData[key] \in vals /\ \A v \in vals : srData[key] >= v

\* A partition goes only when a write needs room, and then it is the one
\* created first, or when cleanup finds its records older than the retention
\* period; the others keep their records in the order they came.
SrLossExplained ==
  LET kept(p) == {q \in Range(srParts') : q.start = p.start}
      gone == {p \in Range(srParts) : kept(p) = {}}
  IN  /\ \A p \in Range(srParts) : \A q \in kept(p) : IsPrefix(p.recs, q.recs)
      /\ \/ gone = {}
         \/ /\ srWritten' # srWritten
            /\ gone = {srParts[1]} /\ Len(srParts) = SrMaxParts
         \/ /\ srWritten' = srWritten
            /\ \E now \in SrClocks : \A p \in gone : \A k \in DOMAIN p.recs :
                 now < SrRetention \/ p.recs[k].t < now - SrRetention

\* The index has one position for every record written in a range of times,
\* those included that went with their partition.
SrIndexCounts ==
  \A from, to \in SrTimes :
     Len(IndexTimeRange(from, to)) =
       Len(SelectSeq(srWritten, LAMBDA r : from <= r.t /\ r.t <= to))

\* Partitions, aggregates, index and retention of time_series/, with the retention
\* threads running between the records of a batch.
SrSound ==
  /\ [](SrPartitioned /\ SrAggregatesExact /\ SrIndexCounts)
  /\ [][SrLossExplained]_srVars

-----------------------------------------------------------------------------
(***************************************************************************)
(* SELECT on a time series table, as sql/query_executor.rs carries it out: *)
(* the range of times it reads from the WHERE clause, the records in it,   *)
(* SAMPLE BY with FILL.  Nothing else of the WHERE clause is looked at     *)
(* again.                                                                  *)
(*                                                                         *)
(* A condition is a record: "cmp" with field, operator and literal,        *)
(* "between", "and", "or", "not".  A bound is a set with at most one time. *)
(* A computed value is a fraction [num, den].                              *)
(***************************************************************************)
CONSTANTS SrConditions,  \* WHERE clauses asked
          SrSamples,     \* SAMPLE BY intervals asked: parts [n, unit]
          SrMaxRows,     \* records that fit in the memory limit of a query
          SrU64          \* 2^64 in the code

(***************************************************************************)
(* extract_time_range_from_condition                                       *)
(***************************************************************************)
AsU64(n) == IF n < 0 THEN SrU64 + n ELSE n
NoBounds == [ok |-> TRUE, min |-> {}, max |-> {}]
RefusedBounds == [NoBounds EXCEPT !.ok = FALSE]
Or(a, b) == IF a # {} THEN a ELSE b

CmpBounds(c) ==
  CASE c.field # "time" \/ c.op = "<>" -> NoBounds
    [] c.field = "time" /\ c.op # "<>" /\ ~c.int -> RefusedBounds
    [] OTHER -> [ok |-> TRUE,
                 min |-> IF c.op \in {">", ">=", "="} THEN {AsU64(c.n)} ELSE {},
                 max |-> IF c.op \in {"<", "<=", "="} THEN {AsU64(c.n)} ELSE {}]

RECURSIVE TimeBounds(_)
TimeBounds(c) ==
  CASE c.kind = "cmp" -> CmpBounds(c)
    [] c.kind = "between" ->
         IF c.field = "time"
         THEN [ok |-> TRUE, min |-> {AsU64(c.from)}, max |-> {AsU64(c.to)}]
         ELSE NoBounds
    [] c.kind = "and" ->
         LET l == TimeBounds(c.left)
             r == TimeBounds(c.right)
         IN  [ok |-> l.ok /\ r.ok, min |-> Or(l.min, r.min), max |-> Or(l.max, r.max)]
    [] c.kind \in {"or", "not"} -> RefusedBounds

RangeOf(b) ==
  QueryTimeRange(IF b.min = {} THEN 0 ELSE CHOOSE n \in b.min : TRUE,
                 IF b.max = {} THEN SrU64 - 1 ELSE CHOOSE n \in b.max : TRUE)

(***************************************************************************)
(* downsample_records and interpolate_missing_window                       *)
(***************************************************************************)
UnitSeconds == [h |-> 3600, m |-> 60, s |-> 1, none |-> 1]

\* parse_sample_interval; 0 stands for InvalidValue.
SampleSeconds(parts) ==
  IF \A i \in DOMAIN parts : parts[i].unit \in DOMAIN UnitSeconds
  THEN FoldLeft(LAMBDA a, p : a + p.n * UnitSeconds[p.unit], 0, parts)
  ELSE 0

Whole(n) == [num |-> n, den |-> 1]
Window(t, step) == (t \div step) * step
InWindow(recs, w, step) == SelectSeq(recs, LAMBDA r : Window(r.t, step) = w)

Mean(recs) ==
  [num |-> FoldLeft(LAMBDA a, r : a + r.v, 0, recs), den |-> Len(recs)]

\* prev_val + (next - prev_val) * (w - prev_ts) / (next_ts - prev_ts)
OnLine(p, n, w) ==
  LET d == n.t - p.t
  IN  [num |-> p.v.num * d + (n.v * p.v.den - p.v.num) * (w - p.t),
       den |-> p.v.den * d]

\* P is the last window with records, N the first record of the next one; each
\* a set with at most one element.  The result is one too.
Interpolated(fill, w, P, N) ==
  CASE fill = "prev" -> {[p EXCEPT !.t = w] : p \in P}
    [] fill = "next" -> {[t |-> w, v |-> Whole(n.v), tag |-> n.tag] : n \in N}
    [] fill = "linear" -> {[t |-> w, v |-> OnLine(pn[1], pn[2], w), tag |-> pn[1].tag] :
                             pn \in P \X N}
    [] fill = "value" -> {[t |-> w, v |-> Whole(0), tag |-> (CHOOSE q \in Or(P, N) : TRUE).tag] :
                            x \in IF Or(P, N) = {} THEN {} ELSE {0}}
    [] fill = "none" -> {}

SampleOf(recs, w, step) ==
  LET here == InWindow(recs, w, step)
  IN  [t |-> w, v |-> Mean(here), tag |-> here[1].tag]

Downsampled(recs, step, fill) ==
  LET W == {Window(recs[i].t, step) : i \in DOMAIN recs}
      at(i) == Min(W) + (i - 1) * step
      last(w) == {u \in W : u < w}
      next(w) == {u \in W : u > w}
      P(w) == IF last(w) = {} THEN {} ELSE {SampleOf(recs, Max(last(w)), step)}
      N(w) == IF next(w) = {} THEN {}
              ELSE {[InWindow(recs, Min(next(w)), step)[1] EXCEPT !.t = Min(next(w))]}
      row(w) == IF w \in W THEN {SampleOf(recs, w, step)}
                ELSE Interpolated(fill, w, P(w), N(w))
  IN  IF recs = <<>> THEN <<>>
      ELSE FlattenSeq([i \in 1 .. (Max(W) - Min(W)) \div step + 1 |-> SetToSeq(row(at(i)))])

(***************************************************************************)
(* execute_select_timeseries_query                                         *)
(***************************************************************************)
Plain(recs) == [i \in DOMAIN recs |-> [recs[i] EXCEPT !.v = Whole(@)]]

SelectSeries(c, sample, fill) ==
  LET b == TimeBounds(c)
      raw == RangeOf(b)
      step == SampleSeconds(sample) * SrSecond
  IN  CASE ~b.ok -> [error |-> "InvalidCondition", rows |-> <<>>]
        [] b.ok /\ Len(raw) > SrMaxRows ->
             [error |-> "ResourceLimitExceeded", rows |-> <<>>]
        [] b.ok /\ Len(raw) <= SrMaxRows /\ sample = <<>> ->
             [error |-> "", rows |-> Plain(raw)]
        [] b.ok /\ Len(raw) <= SrMaxRows /\ sample # <<>> /\ raw # <<>> /\ step = 0 ->
             [error |-> "InvalidValue", rows |-> <<>>]
        [] OTHER -> [error |-> "", rows |-> Downsampled(raw, step, fill)]

(***************************************************************************)
(* What a query returns                                                    *)
(***************************************************************************)
Holds(op, a, b) ==
  CASE op = "=" -> a = b [] op = "<>" -> a # b [] op = ">" -> a > b
    [] op = ">=" -> a >= b [] op = "<" -> a < b [] op = "<=" -> a <= b

\* The meaning of a condition that is not refused; fields other than the time
\* are taken to match anything.
RECURSIVE SrMatches(_, _)
SrMatches(c, r) ==
  CASE c.kind = "and" -> SrMatches(c.left, r) /\ SrMatches(c.right, r)
    [] c.kind = "cmp" -> c.field = "time" => Holds(c.op, r.t, c.n)
    [] c.kind = "between" -> c.field = "time" => c.from <= r.t /\ r.t <= c.to
    [] OTHER -> TRUE

RECURSIVE Leaves(_)
Leaves(c) == IF c.kind = "and" THEN Leaves(c.left) \o Leaves(c.right) ELSE <<c>>

\* Inclusive bounds on the time, each side given once.
PlainRange(c) ==
  LET L == Leaves(c)
      sides(S) == Cardinality({i \in DOMAIN L : L[i].kind = "between" \/ L[i].op \in S})
  IN  /\ \A i \in DOMAIN L : L[i].field = "time" /\ (L[i].kind = "cmp" => L[i].op \in {"=", ">=", "<="})
      /\ sides({"=", ">="}) <= 1 /\ sides({"=", "<="}) <= 1

NonNegative(c) ==
  \A i \in DOMAIN Leaves(c) :
     LET l == Leaves(c)[i]
     IN  IF l.kind = "cmp" THEN l.n >= 0 ELSE l.from >= 0 /\ l.to >= 0

Everything == [kind |-> "between", field |-> "time", from |-> 0, to |-> SrU64 - 1]
AllRecords == FlattenSeq([i \in DOMAIN srParts |-> srParts[i].recs])

\* A SELECT returns every record of the table that satisfies its WHERE clause,
\* and no other when the clause is a range with inclusive bounds.
RangesExact ==
  \A c \in SrConditions :
    LET got == SelectSeries(c, <<>>, "none")
        match == Plain(SelectSeq(AllRecords, LAMBDA r : SrMatches(c, r)))
    IN  got.error = "" /\ NonNegative(c) =>
          /\ SelectSeq(got.rows, LAMBDA r : SrMatches(c, r)) = match
          /\ PlainRange(c) => got.rows = match

LessEq(a, b) == a.num * b.den <= b.num * a.den

\* SAMPLE BY: one row for each window with records, the mean of all of them,
\* in ascending order; with a FILL of any kind no window in between is
\* missing, and a linear value lies between those it is drawn from.
SamplesExact ==
  \A sample \in SrSamples, fill \in {"none", "prev", "next", "linear", "value"} :
    LET step == SampleSeconds(sample) * SrSecond
        answer == SelectSeries(Everything, sample, fill)
        got == answer.rows
        times == {Window(r.t, step) : r \in Range(AllRecords)}
        full == {t \in Min(times) .. Max(times) : t % step = 0}
    IN  answer.error = "" /\ AllRecords # <<>> =>
        /\ \A i, j \in DOMAIN got : i < j => got[i].t < got[j].t
        /\ {got[i].t : i \in DOMAIN got} = IF fill = "none" THEN times ELSE full
        /\ \A i \in DOMAIN got : got[i].t \in times =>
             LET of == SelectSeq(AllRecords, LAMBDA r : Window(r.t, step) = got[i].t)
             IN  got[i].v.num * Len(of) = got[i].v.den * FoldLeft(LAMBDA a, r : a + r.v, 0, of)
        /\ fill = "linear" => \A i \in DOMAIN got : got[i].t \notin times =>
             \E p \in {got[i - 1].v}, n \in {Whole(r.v) : r \in Range(AllRecords)} :
                \/ LessEq(p, got[i].v) /\ LessEq(got[i].v, n)
                \/ LessEq(n, got[i].v) /\ LessEq(got[i].v, p)

\* What SELECT on a time series table returns, whatever was written, dropped
\* and expired before.  It depends on the partitions only, so it is asked in
\* the states with a record, without aggregates and without a batch.
SrQueriesExact ==
  (srBatch = SrIdle /\ srConfigs = <<>> /\ srParts # <<>>)
    => RangesExact /\ SamplesExact
=============================================================================
