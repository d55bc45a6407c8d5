---------------------------- MODULE ResultViewer ----------------------------
(***************************************************************************)
(* The saved-results menu over results files that a run may have left      *)
(* unfinished.  TestHost writes a record line by line, flushing each, so   *)
(* after a power cut a file is any prefix of its lines, the last one       *)
(* possibly torn.  result_store.cpp reads such a file twice: once for the  *)
(* records, and again for the raw samples of the record the user opens.    *)
(*                                                                         *)
(* A line is what the two readers can make of it.  One action reads one    *)
(* line.  Nothing writes while the menu reads: both are the main thread.   *)
(* min, max, p95, mad, sample_count, name, unit, direction and the state     *)
(* strings travel like the average and are left out; so is the drawing.    *)
(***************************************************************************)
EXTENDS Integers, Sequences, FiniteSets, Functions

CONSTANTS
    Ids,        \* stable ids
    Values,     \* sample and average values
    Budget,     \* scratch_budget_bytes / sizeof(uint32_t)
    Paths,      \* stored results files
    Histories   \* what may lie there: the run that wrote each file, and its lines

MaxSamples == IF Budget > 2 THEN Budget ELSE 2

-----------------------------------------------------------------------------
(* What the writers leave on the disk. *)

\* One record as measured.  Older files have neither outcome nor median.
Measured == [id : Ids, group : BOOLEAN, old : BOOLEAN, oracle : {"none", "PASS", "FAIL"},
             average : Values, median : Values, samples : Seq(Values)]

Line(kind) == [kind |-> kind]
Field(kind, value) == [kind |-> kind, value |-> value]
Opt(condition, line) == IF condition THEN <<line>> ELSE <<>>

Outcome(r) == IF r.oracle = "FAIL" THEN "FAIL" ELSE "PASS"

\* FinishDraw and RecordProfileResult write a leaf, FinishGroup a group.
FieldLines(r) ==
    <<Line("start"), Field("id", r.id), Field("group", r.group)>>
    \o Opt(~r.old, Field("outcome", Outcome(r)))
    \o <<Field("average", r.average)>>
    \o Opt(~r.old, Field("median", r.median))

SampleLines(r) ==
    IF r.group THEN <<Line("no_samples")>>
    ELSE <<Line("samples")>> \o [i \in DOMAIN r.samples |-> Field("sample", r.samples[i])]
         \o <<Line("samples_end")>>

RecordLines(r) ==
    FieldLines(r) \o SampleLines(r) \o Opt(r.oracle # "none", Field("oracle", r.oracle)) \o <<Line("end")>>

\* The whole file of a run that ended: "[", records between commas, "]".
RunLines(run) ==
    LET Upto[n \in 0 .. Len(run)] ==
            IF n = 0 THEN <<Line("other")>>
            ELSE Upto[n - 1] \o Opt(n > 1, Line("other")) \o RecordLines(run[n])
    IN Upto[Len(run)] \o <<Line("close")>>

\* What may be left of a line that a power cut tore: nothing the readers
\* know, a shorter number, or a list of samples that has not ended.
Torn(line) ==
    CASE line.kind \in {"sample", "average", "median"} -> {Line("other")} \cup {Field(line.kind, v) : v \in Values}
      [] line.kind = "samples_end" -> {Line("other"), line}
      [] line.kind = "no_samples" -> {Line("other"), Line("samples")}
      [] OTHER -> {Line("other")}

\* Every file a run may leave: all of it, or up to a cut.
Left(run) ==
    LET all == RunLines(run) IN
    {SubSeq(all, 1, n) : n \in 0 .. Len(all)}
    \cup UNION {{SubSeq(all, 1, n) \o <<t>> : t \in Torn(all[n + 1])} : n \in 0 .. Len(all) - 1}

ASSUME ViewerAssumption ==
    /\ Values \subseteq Nat /\ Budget \in Nat
    /\ \A h \in Histories : \A p \in Paths :
        h[p].run \in Seq(Measured) /\ h[p].lines \in Left(h[p].run)

-----------------------------------------------------------------------------

VARIABLES
    files,      \* the stored results
    screen,     \* the menu that is active
    viewed,     \* the file item that was opened last
    baseline,   \* g_result_baseline_path
    filter,     \* failures_only_ of the file's menu, regressions_only_ of the comparison's
    jobs,       \* scans the screen still waits for
    at,         \* line about to be read
    inRecord,
    (* ReadStoredResults *)
    record, last,
    lists,      \* the StoredResultFile read last from each path
    (* ReadStoredResultSamples *)
    selected, inSamples,
    raw,        \* the numbers read so far, of which the reader keeps the count
    samples,    \* the StoredResultSamples read last from each path
    (* the record items *)
    opened,     \* path, record and position of each record being shown
    stats       \* the distribution shown for them

menu == <<screen, viewed, baseline, filter, opened>>
listing == <<record, last, lists>>
sampling == <<selected, inSamples, raw, samples>>
vars == <<files, menu, jobs, at, inRecord, listing, sampling, stats>>

NoRecord == [id |-> "", group |-> FALSE, outcome |-> "", average |-> 0, measured |-> FALSE,
             median |-> 0, dist |-> FALSE, oracle |-> "none"]
NoList == [records |-> <<>>, complete |-> FALSE]
NoSamples == [values |-> <<>>, stride |-> 1, approximate |-> FALSE]
Empty(v) == [p \in Paths |-> v]

Init ==
    /\ files \in Histories /\ baseline \in Paths
    /\ screen = "results" /\ viewed = baseline
    /\ filter = [file |-> FALSE, comparison |-> FALSE]
    /\ jobs = <<>> /\ at = 1 /\ inRecord = FALSE
    /\ record = NoRecord /\ last = "none" /\ lists = Empty(NoList)
    /\ selected = FALSE /\ inSamples = FALSE /\ raw = Empty(<<>>) /\ samples = Empty(NoSamples)
    /\ opened = <<>> /\ stats = <<>>

path == Head(jobs).path
lines == files[path].lines
line == lines[at]
Listing == jobs # <<>> /\ Head(jobs).reader = "records"
Sampling == jobs # <<>> /\ Head(jobs).reader = "samples"

RecordScan(p) == [reader |-> "records", path |-> p, id |-> ""]
SampleScan(item) == [reader |-> "samples", path |-> item.path, id |-> item.record.id]
Next1 == at' = at + 1 /\ UNCHANGED <<files, menu, jobs, stats>>

\* The next scan starts with a reader of its own.
ScanDone ==
    /\ jobs' = Tail(jobs) /\ at' = 1 /\ inRecord' = FALSE
    /\ record' = NoRecord /\ last' = "none"
    /\ selected' = FALSE /\ inSamples' = FALSE
    /\ UNCHANGED <<files, menu, raw>>

-----------------------------------------------------------------------------
(* ReadStoredResults. *)

Extracted(r, l) ==
    CASE l.kind = "id" -> [r EXCEPT !.id = l.value]
      [] l.kind = "group" -> [r EXCEPT !.group = l.value]
      [] l.kind = "outcome" -> [r EXCEPT !.outcome = l.value]
      [] l.kind = "average" -> [r EXCEPT !.average = l.value, !.measured = TRUE]
      [] l.kind = "median" -> [r EXCEPT !.median = l.value, !.dist = TRUE]
      [] l.kind = "oracle" -> [r EXCEPT !.oracle = l.value]
      [] OTHER -> r

Finished(r) ==
    [r EXCEPT !.measured = @ /\ ~r.group,
              !.outcome = IF @ # "" THEN @ ELSE IF r.oracle = "FAIL" THEN "FAIL" ELSE "PASS"]

ListStart ==
    /\ Listing /\ at <= Len(lines) /\ line.kind = "start"
    /\ inRecord' = TRUE /\ record' = NoRecord
    /\ last' = "start"
    /\ UNCHANGED <<lists, sampling>>
    /\ Next1

ListField ==
    /\ Listing /\ at <= Len(lines) /\ line.kind \notin {"start", "end"}
    /\ record' = IF inRecord THEN Extracted(record, line) ELSE record
    /\ last' = line.kind
    /\ UNCHANGED <<inRecord, lists, sampling>>
    /\ Next1

ListRecordEnd ==
    /\ Listing /\ at <= Len(lines) /\ line.kind = "end"
    /\ lists' = IF inRecord THEN [lists EXCEPT ![path].records = Append(@, Finished(record))] ELSE lists
    /\ inRecord' = FALSE
    /\ last' = "end"
    /\ UNCHANGED <<record, sampling>>
    /\ Next1

\* (Bug: a file is complete when its last record is closed.)
ListEndsWithRecord ==
    /\ Listing /\ at > Len(lines)
    /\ lists' = [lists EXCEPT ![path].complete = last \in {"close", "end"}]
    /\ ScanDone
    /\ UNCHANGED <<samples, stats>>

ListEnd ==
    /\ Listing /\ at > Len(lines)
    /\ lists' = [lists EXCEPT ![path].complete = (last = "close")]
    /\ ScanDone
    /\ UNCHANGED <<samples, stats>>

-----------------------------------------------------------------------------
(* ReadStoredResultSamples. *)

EverySecond(s) == [i \in 1 .. (Len(s) + 1) \div 2 |-> s[2 * i - 1]]

\* Room for one more value.
Compacted(s) ==
    IF Len(s.values) >= MaxSamples
    THEN [values |-> EverySecond(s.values), stride |-> 2 * s.stride, approximate |-> TRUE]
    ELSE s

\* (Bug: the value that made room is kept whatever the stride has become.)
KeptAlways(s, count, v) == [Compacted(s) EXCEPT !.values = Append(@, v)]

\* Value v after count others.
Kept(s, count, v) ==
    LET room == Compacted(s)
    IN IF count % room.stride = 0 THEN [room EXCEPT !.values = Append(@, v)] ELSE room

SampleStart ==
    /\ Sampling /\ at <= Len(lines) /\ line.kind = "start"
    /\ inRecord' = TRUE /\ selected' = FALSE /\ inSamples' = FALSE
    /\ UNCHANGED <<listing, raw, samples>>
    /\ Next1

SampleId ==
    /\ Sampling /\ at <= Len(lines) /\ inRecord /\ line.kind = "id"
    /\ selected' = (line.value = Head(jobs).id)
    /\ UNCHANGED <<listing, inRecord, inSamples, raw, samples>>
    /\ Next1

SampleBracket ==
    /\ Sampling /\ at <= Len(lines) /\ inRecord
    /\ line.kind \in {"samples", "no_samples", "samples_end"}
    /\ inSamples' = IF selected THEN line.kind = "samples" ELSE inSamples
    /\ UNCHANGED <<listing, inRecord, selected, raw, samples>>
    /\ Next1

SampleValue ==
    /\ Sampling /\ at <= Len(lines) /\ inRecord /\ selected /\ inSamples /\ line.kind = "sample"
    /\ raw' = [raw EXCEPT ![path] = Append(@, line.value)]
    /\ samples' = [samples EXCEPT ![path] = Kept(@, Len(raw[path]), line.value)]
    /\ UNCHANGED <<listing, inRecord, selected, inSamples>>
    /\ Next1

SampleSkip ==
    /\ Sampling /\ at <= Len(lines)
    /\ line.kind # "start"
    /\ \/ ~inRecord
       \/ line.kind = "sample" /\ ~(selected /\ inSamples)
       \/ line.kind \notin {"id", "samples", "no_samples", "samples_end", "sample", "end"}
    /\ UNCHANGED <<listing, inRecord, sampling>>
    /\ Next1

\* (Bug: reading goes on after the selected record.)
SampleEndsNothing ==
    /\ Sampling /\ at <= Len(lines) /\ inRecord /\ line.kind = "end"
    /\ inRecord' = FALSE
    /\ at' = at + 1
    /\ UNCHANGED <<files, menu, jobs, stats, listing, sampling>>

\* The scan stops at the end of the selected record.
SampleRecordEnd ==
    /\ Sampling /\ at <= Len(lines) /\ inRecord /\ line.kind = "end"
    /\ inRecord' = FALSE
    /\ at' = IF selected THEN Len(lines) + 1 ELSE at + 1
    /\ UNCHANGED <<files, menu, jobs, stats, listing, sampling>>

\* CalculateResultStatistics: the nearest-rank p95, medians of sorted values.
MedianOfSorted(s) ==
    LET middle == Len(s) \div 2
    IN IF Len(s) % 2 = 1 THEN s[middle + 1] ELSE (s[middle] + s[middle + 1]) \div 2

\* std::sort.
Sorted(s) ==
    LET order == CHOOSE p \in Bijection(DOMAIN s, DOMAIN s) :
                    \A i, j \in DOMAIN s : i <= j => s[p[i]] <= s[p[j]]
    IN [i \in DOMAIN s |-> s[order[i]]]

Distance(a, b) == IF a > b THEN a - b ELSE b - a

\* (Bug: the rank is rounded down.)
StatisticsRoundedDown(values) ==
    LET s == Sorted(values)
        median == MedianOfSorted(s)
        rank == IF Len(s) = 1 THEN 1 ELSE (95 * Len(s)) \div 100
    IN [stored |-> FALSE, median |-> median, p95 |-> s[rank],
        mad |-> MedianOfSorted(Sorted([i \in DOMAIN s |-> Distance(s[i], median)]))]

Statistics(values) ==
    LET s == Sorted(values)
        median == MedianOfSorted(s)
        rank == (95 * Len(s) + 99) \div 100
    IN [stored |-> FALSE, median |-> median, p95 |-> s[rank],
        mad |-> MedianOfSorted(Sorted([i \in DOMAIN s |-> Distance(s[i], median)]))]

Stored == [stored |-> TRUE, median |-> 0, p95 |-> 0, mad |-> 0]

\* The item fills in the distribution that its record lacks.
SampleEnd ==
    /\ Sampling /\ at > Len(lines)
    /\ LET item == opened[Len(stats) + 1] IN
        stats' = Append(stats, IF ~item.record.dist /\ samples[path].values # <<>>
                               THEN Statistics(samples[path].values) ELSE Stored)
    /\ ScanDone
    /\ UNCHANGED <<lists, samples>>

-----------------------------------------------------------------------------
(* The menu items. *)

IsFailure(r) == r.oracle = "FAIL" \/ r.outcome = "FAIL"

Idle == jobs = <<>>

\* RebuildMenu reads the file again.
Listed(paths) ==
    /\ jobs' = [i \in DOMAIN paths |-> RecordScan(paths[i])]
    /\ lists' = [p \in Paths |-> IF \E i \in DOMAIN paths : paths[i] = p THEN NoList ELSE lists[p]]
    /\ UNCHANGED <<files, at, inRecord, record, last, sampling, stats>>

ViewFile ==
    /\ Idle /\ screen = "results"
    /\ \E p \in Paths : viewed' = p /\ Listed(<<p>>)
    /\ screen' = "file" /\ filter' = [filter EXCEPT !.file = FALSE]
    /\ UNCHANGED <<baseline, opened>>

Compare ==
    /\ Idle /\ screen = "file" /\ viewed # baseline
    /\ Listed(<<baseline, viewed>>)
    /\ screen' = "comparison" /\ filter' = [filter EXCEPT !.comparison = FALSE]
    /\ UNCHANGED <<viewed, baseline, opened>>

HandleX ==
    /\ Idle
    /\ \/ screen = "file" /\ Listed(<<viewed>>)
       \/ screen = "comparison" /\ Listed(<<baseline, viewed>>)
    /\ filter' = [filter EXCEPT ![screen] = ~@]
    /\ UNCHANGED <<screen, viewed, baseline, opened>>

HandleY ==
    /\ Idle /\ screen = "results"
    /\ baseline' \in Paths
    /\ UNCHANGED <<files, screen, viewed, filter, opened, jobs, at, inRecord, listing, sampling, stats>>

\* OnEnter of the items: their samples are read by id.
Enter(items) ==
    /\ opened' = items
    /\ jobs' = [i \in DOMAIN items |-> SampleScan(items[i])]
    /\ raw' = Empty(<<>>) /\ samples' = Empty(NoSamples) /\ stats' = <<>>
    /\ UNCHANGED <<files, viewed, baseline, filter, at, inRecord, listing, selected, inSamples>>

Item(p, n) == [path |-> p, record |-> lists[p].records[n], nth |-> n]

\* From the list, which X filters, or from the graphs.
OpenRecord ==
    /\ Idle /\ screen = "file"
    /\ \E n \in DOMAIN lists[viewed].records :
        LET r == lists[viewed].records[n] IN
        /\ (filter.file => IsFailure(r)) \/ r.measured
        /\ Enter(<<Item(viewed, n)>>)
    /\ screen' = "record"

Primary(r, other) == IF r.dist /\ other.dist THEN r.median ELSE r.average

\* The map by id keeps the baseline's last record of an id.
OpenPair ==
    /\ Idle /\ screen = "comparison"
    /\ \E b \in DOMAIN lists[baseline].records, c \in DOMAIN lists[viewed].records :
        LET br == lists[baseline].records[b]  cr == lists[viewed].records[c] IN
        /\ br.id = cr.id
        /\ \A n \in DOMAIN lists[baseline].records : n > b => lists[baseline].records[n].id # cr.id
        /\ br.measured /\ cr.measured /\ br.average # 0 /\ Primary(br, cr) # 0
        /\ filter.comparison => Primary(cr, br) > Primary(br, cr)
        /\ Enter(<<Item(baseline, b), Item(viewed, c)>>)
    /\ screen' = "overlay"

\* Entering an item again loads everything again: its samples may go.
Back ==
    /\ Idle /\ screen # "results"
    /\ screen' = CASE screen = "file" -> "results"
                   [] screen \in {"record", "comparison"} -> "file"
                   [] screen = "overlay" -> "comparison"
    /\ opened' = <<>> /\ stats' = <<>> /\ raw' = Empty(<<>>) /\ samples' = Empty(NoSamples)
    /\ UNCHANGED <<files, viewed, baseline, filter, jobs, at, inRecord, listing, selected, inSamples>>

Next ==
    \/ ListStart \/ ListField \/ ListRecordEnd \/ ListEnd
    \/ SampleStart \/ SampleId \/ SampleBracket \/ SampleValue \/ SampleSkip
    \/ SampleRecordEnd \/ SampleEnd
    \/ ViewFile \/ Compare \/ HandleX \/ HandleY \/ OpenRecord \/ OpenPair \/ Back

Spec == Init /\ [][Next]_vars

-----------------------------------------------------------------------------

TypeOK ==
    /\ screen \in {"results", "file", "record", "comparison", "overlay"}
    /\ viewed \in Paths /\ baseline \in Paths
    /\ filter \in [{"file", "comparison"} -> BOOLEAN]
    /\ at \in Nat \ {0} /\ (Idle \/ at <= Len(lines) + 1)
    /\ inRecord \in BOOLEAN /\ selected \in BOOLEAN /\ inSamples \in BOOLEAN
    /\ \A p \in Paths :
        /\ lists[p].complete \in BOOLEAN
        /\ raw[p] \in Seq(Values)
        /\ samples[p].values \in Seq(Values)
        /\ samples[p].stride \in Nat \ {0} /\ samples[p].approximate \in BOOLEAN
    /\ Len(stats) + Len(jobs) = Len(opened) \/ screen \in {"results", "file", "comparison"}

\* The record as a reader of the whole file would know it.
Expected(r) ==
    [id |-> r.id, group |-> r.group, outcome |-> Outcome(r), average |-> r.average,
     measured |-> ~r.group, median |-> IF r.old THEN 0 ELSE r.median, dist |-> ~r.old,
     oracle |-> r.oracle]

(***************************************************************************)
(* "PARTIAL": of a file that a run did not finish, cut at any line or      *)
(* within one, the viewer recovers exactly the records written whole, each *)
(* with its own fields, and calls it COMPLETE only if the run ended.       *)
(***************************************************************************)
RecoversWholeRecords ==
    Idle /\ screen # "results" =>
        LET f == files[viewed]
            whole == Cardinality({i \in DOMAIN f.lines : f.lines[i].kind = "end"})
        IN /\ lists[viewed].records = [i \in 1 .. whole |-> Expected(f.run[i])]
           /\ lists[viewed].complete <=> f.lines = RunLines(f.run)

(***************************************************************************)
(* Whatever the budget, the values kept are every stride-th number read,   *)
(* from the first on; all of them if they fit, at least half as many as    *)
(* would fit if not; and approximate says which.                           *)
(***************************************************************************)
Faithful(s, numbers) ==
    /\ (Len(s.values) - 1) * s.stride < Len(numbers) /\ Len(numbers) <= Len(s.values) * s.stride
    /\ \A i \in DOMAIN s.values : s.values[i] = numbers[(i - 1) * s.stride + 1]
    /\ Len(s.values) <= MaxSamples
    /\ s.approximate <=> s.stride > 1
    /\ s.approximate <=> Len(numbers) > MaxSamples
    /\ s.approximate => 2 * Len(s.values) >= MaxSamples

KeepsEveryStride == \A p \in Paths : Faithful(samples[p], raw[p])

(***************************************************************************)
(* An open record shows the samples of one record, whole and untorn: the   *)
(* file's first with its id.  No number of a neighbour, of a later record  *)
(* of that id or of a torn line is among them.                             *)
(***************************************************************************)
ShowsOneWholeRecord ==
    Idle /\ screen \in {"record", "overlay"} =>
        \A k \in DOMAIN opened :
            LET run == files[opened[k].path].run
                first == CHOOSE n \in DOMAIN run :
                    run[n].id = opened[k].record.id /\ \A i \in 1 .. n - 1 : run[i].id # run[n].id
            IN raw[opened[k].path] = IF run[first].group THEN <<>> ELSE run[first].samples

(***************************************************************************)
(* The distribution computed for a record without one is that of the       *)
(* values shown: the p95 is the least of them with 95 of 100 at or below   *)
(* it, half the values lie on each side of the median, and half of them    *)
(* on each side of the MAD from it.                                        *)
(***************************************************************************)
AtMost(s, v) == Cardinality({i \in DOMAIN s : s[i] <= v})
AtLeast(s, v) == Cardinality({i \in DOMAIN s : s[i] >= v})
Halves(s, v) == 2 * AtMost(s, v) >= Len(s) /\ 2 * AtLeast(s, v) >= Len(s)

IsDistributionOf(t, s) ==
    /\ t.p95 \in {s[i] : i \in DOMAIN s}
    /\ 100 * AtMost(s, t.p95) >= 95 * Len(s)
    /\ \A v \in 0 .. t.p95 - 1 : 100 * AtMost(s, v) < 95 * Len(s)
    /\ Halves(s, t.median)
    /\ Halves([i \in DOMAIN s |-> Distance(s[i], t.median)], t.mad)

ShowsOrderStatistics ==
    Idle /\ screen \in {"record", "overlay"} =>
        \A k \in DOMAIN opened :
            ~stats[k].stored => IsDistributionOf(stats[k], samples[opened[k].path].values)

(***************************************************************************)
(* result_store.h: "Rescans one file and loads only the selected record's  *)
(* raw samples."  The samples shown are those of the record that was       *)
(* opened.                                                                 *)
(***************************************************************************)
ShowsTheOpenedRecord ==
    Idle /\ screen \in {"record", "overlay"} =>
        \A k \in DOMAIN opened :
            LET r == files[opened[k].path].run[opened[k].nth]
            IN raw[opened[k].path] = IF r.group THEN <<>> ELSE r.samples
=============================================================================
